------------------------------- MODULE MCEdits -------------------------------
(***************************************************************************)
(* Inputs one edit away from the admissible ones: every field of a         *)
(* receipt, of its component verdicts, bundles and signatures, and of the  *)
(* trusted registry, set to a value that some check looks at.              *)
(***************************************************************************)
EXTENDS MCAudit

\* Windows: not begun, over, inverted, ending or beginning now, outliving the key.
Windows == {<<5, 7>>, <<1, 3>>, <<6, 2>>, <<2, 4>>, <<4, 8>>, <<2, 9>>, <<0, 6>>}

WindowEdits(x) == {[x EXCEPT !.not_before = w[1], !.not_after = w[2]] : w \in Windows}

FaultEdits(x, names) == {[x EXCEPT !.faults = {name}] : name \in names}

SignatureEdits(s) ==
  FaultEdits(s, {"fields", "profile", "signature"})
  \cup {[s EXCEPT !.algorithm = "rsa"], [s EXCEPT !.key = "unknown"],
        [s EXCEPT !.signed_payload_hash = "other"], [s EXCEPT !.domain = "another"]}

BundleEdits(b) ==
  LET s == b.signatures
      With(signatures) == [b EXCEPT !.signatures = signatures]
  IN  FaultEdits(b, {"fields", "schema", "policy"})
      \cup UNION {{With([s EXCEPT ![i] = e]) : e \in SignatureEdits(s[i])} : i \in DOMAIN s}
      \cup {With(Tail(s)), With(Reverse(s)), With(<<>>), With(Append(s, s[1])),
            With(<<s[1], [s[1] EXCEPT !.key = "ml-dsa"]>>),
            With(<<s[1], [s[2] EXCEPT !.key = s[1].key]>>),
            With([i \in DOMAIN s |-> [s[i] EXCEPT !.signed_payload_hash = "other"]])}

WithBundle(x) == {[x EXCEPT !.signature_bundle = b] : b \in BundleEdits(x.signature_bundle)}

ComponentEdits(c) ==
  FaultEdits(c, VerdictFaults)
  \cup WindowEdits(c)
  \cup WithBundle(c)
  \cup {[c EXCEPT !.context_hash = "another"], [c EXCEPT !.key_registry_version = 1],
        [c EXCEPT !.decision = "MAYBE"], [c EXCEPT !.decision = "ERROR"],
        [c EXCEPT !.signed_payload_hash = "other"],
        [c EXCEPT !.component_id = "stranger"], [c EXCEPT !.component_id = Components[1]]}

ResultEdits(results) ==
  {Reverse(results), Tail(results), [results EXCEPT ![1].verified = FALSE],
   [results EXCEPT ![1].component_id = "stranger"],
   [results EXCEPT ![2].component_id = Components[1]],
   [results EXCEPT ![2].algorithms = <<"classical-ed25519">>],
   [results EXCEPT ![2].algorithms = AllowedAlgorithms]}

ReceiptEdits(r) ==
  FaultEdits(r, {"graph", "fields", "contract_version", "canonicalization_profile", "fail_closed",
                 "freshness_nonce", "dominant_reason_ids", "adamantineos_handoff", "bytes"})
  \cup WindowEdits(r)
  \cup WithBundle(r)
  \cup {[r EXCEPT !.schema_version = "shield.receipt.v1"], [r EXCEPT !.schema_version = "another"],
        [r EXCEPT !.request_id = "another"], [r EXCEPT !.context_hash = "another"],
        [r EXCEPT !.signature_policy = "another"], [r EXCEPT !.key_registry_version = 1],
        [r EXCEPT !.component_verdicts = Reverse(@)], [r EXCEPT !.component_verdicts = Tail(@)],
        [r EXCEPT !.final_outcome = "HUMAN_REVIEW_REQUIRED"], [r EXCEPT !.final_outcome = "DENY"],
        [r EXCEPT !.final_outcome = "DENY", !.handoff_allowed = FALSE],
        [r EXCEPT !.handoff_allowed = ~@], [r EXCEPT !.receipt_hash = "other"],
        [r EXCEPT !.signed_payload_hash = "other"]}
  \cup {[r EXCEPT !.component_signature_results = s] :
          s \in ResultEdits(r.component_signature_results)}
  \cup UNION {{[r EXCEPT !.component_verdicts[i] = c] : c \in ComponentEdits(r.component_verdicts[i])} :
                i \in DOMAIN r.component_verdicts}

KeyEdits(k) ==
  {[k EXCEPT !.status = "revoked"], [k EXCEPT !.status = "retired"], [k EXCEPT !.role = "stranger"],
   [k EXCEPT !.algorithm = "rsa"], [k EXCEPT !.key = "renamed"]}
  \cup {[k EXCEPT !.not_before = w[1], !.not_after = w[2]] :
          w \in {<<2, 6>>, <<3, 8>>, <<1, 5>>, <<5, 8>>, <<1, 3>>, <<8, 1>>}}

RegistryEdits(g) ==
  {[g EXCEPT !.registry_version = 1], [g EXCEPT !.registry_version = 3],
   [g EXCEPT !.schema = "another"], [g EXCEPT !.entries = <<>>],
   [g EXCEPT !.entries = Append(@, @[1])],
   [g EXCEPT !.entries = Append(@, [@[1] EXCEPT !.key = "spare"])],
   [g EXCEPT !.entries = @ \o <<[@[1] EXCEPT !.key = "spare"], [@[1] EXCEPT !.key = "other"]>>]}
  \cup UNION {{[g EXCEPT !.entries[i] = k] : k \in KeyEdits(g.entries[i])} :
                i \in {1, Len(g.entries)}}

-----------------------------------------------------------------------------
(* The constants of the runs *)

EditedRegistries == {g : g \in OneRegistry \cup RegistryEdits(GoodRegistry)}

\* Several fields at once, where one may make up for another: decisions against
\* outcome and handoff, bundles against the results that summarise them.
OutcomeEdits ==
  {[Receipt({}, decisions) EXCEPT !.final_outcome = outcome, !.handoff_allowed = handoff] :
     decisions \in [DOMAIN Components -> Decisions], outcome \in FinalOutcomes,
     handoff \in BOOLEAN}

ResultsOf(fn) == Receipt(fn, Unanimous("ALLOW")).component_signature_results

AlgorithmEdits ==
  LET Swapped(fn, other) == [Receipt(fn, Unanimous("ALLOW"))
                               EXCEPT !.component_signature_results = ResultsOf(other)]
      Set(fn) == {Swapped(fn, other) : other \in SUBSET ComponentIds}
  IN  UNION {Set(fn) \cup {[r EXCEPT !.component_verdicts = Reverse(@)] : r \in Set(fn)} :
               fn \in SUBSET Artifacts}

\* Every receipt at most one edit away from two admissible ones, and the above.
EditedReceipts ==
  {r : r \in BothReceipts \cup OutcomeEdits \cup AlgorithmEdits
              \cup UNION {ReceiptEdits(x) : x \in BothReceipts}}

=============================================================================
