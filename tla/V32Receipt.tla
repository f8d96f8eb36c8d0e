----------------------------- MODULE V32Receipt -----------------------------
(***************************************************************************)
(* shield.verdict.v1 and shield.receipt.v1: the v3.2 component verdicts,   *)
(* the receipt AdamantineOS consumes, and its validation.                  *)
(*                                                                         *)
(* A verdict is [faults, component_id, request_id, context_hash, decision];*)
(* `faults` names the fields that break the schema on their own.  Fields   *)
(* the code strips before it compares them are texts: what is left after   *)
(* stripping, and whether there was white space around it.                 *)
(***************************************************************************)
EXTENDS Naturals, Sequences, SequencesExt

CONSTANT SupportedComponents   \* SUPPORTED_COMPONENTS, in alphabetical order

ASSUME SupportedAssumption ==
  /\ SupportedComponents \in Seq(STRING) \ {<<>>}
  /\ \A i, j \in DOMAIN SupportedComponents :
       SupportedComponents[i] = SupportedComponents[j] => i = j

Supported == {SupportedComponents[i] : i \in DOMAIN SupportedComponents}

SupportedDecisions == {"ALLOW", "ESCALATE", "DENY", "ERROR", "SKIPPED"}

-----------------------------------------------------------------------------
(* Texts and hashes *)

Plain(name)  == [name |-> name, padded |-> FALSE]
Padded(name) == [name |-> name, padded |-> TRUE]

Strip(text) == Plain(text.name)

Blank(text) == text.name = ""

\* A lone surrogate is a str that has no UTF-8 encoding, so no hash either.
Surrogate == "lone surrogate"

Encodable(text) == text.name # Surrogate

\* A context hash is <<kind, value>>: given by the caller or computed.
Malformed == <<"given", "malformed">>

\* canonical_sha256, injective and distinct from what it covers.
Sha256(content) == <<"sha256", content>>

-----------------------------------------------------------------------------
(* Verdicts *)

\* validate_component_verdict accepts: names are compared stripped, and the
\* verdict it returns keeps them as they came.
ValidVerdict(verdict, context_hash) ==
  /\ verdict.faults = {}
  /\ verdict.component_id.name \in Supported
  /\ context_hash # Malformed
  /\ verdict.context_hash = context_hash
  /\ verdict.decision.name \in SupportedDecisions

\* Mutant: escalations are looked for before errors.
ClassifyEscalateFirst(decisions) ==
  LET Said(decision) == Plain(decision) \in decisions
  IN  IF Said("DENY")          THEN <<"DENY", "ORCH_DENY_DOMINATES">>
      ELSE IF Said("ESCALATE")
           THEN <<"HUMAN_REVIEW_REQUIRED", "ORCH_HUMAN_REVIEW_ESCALATE_PRESENT">>
      ELSE IF Said("ERROR")    THEN <<"DENY", "ORCH_ERROR_INVALID_COMPONENT_VERDICT">>
      ELSE IF Said("SKIPPED")  THEN <<"DENY", "ORCH_ERROR_MISSING_REQUIRED_VERDICT">>
      ELSE <<"ALLOW", "ORCH_OK_ALL_COMPONENTS_ALLOW">>

\* _classify: outcome and dominant reason of a set of decisions, unstripped.
Classify(decisions) ==
  LET Said(decision) == Plain(decision) \in decisions
  IN  IF Said("DENY")          THEN <<"DENY", "ORCH_DENY_DOMINATES">>
      ELSE IF Said("ERROR")    THEN <<"DENY", "ORCH_ERROR_INVALID_COMPONENT_VERDICT">>
      ELSE IF Said("ESCALATE")
           THEN <<"HUMAN_REVIEW_REQUIRED", "ORCH_HUMAN_REVIEW_ESCALATE_PRESENT">>
      ELSE IF Said("SKIPPED")  THEN <<"DENY", "ORCH_ERROR_MISSING_REQUIRED_VERDICT">>
      ELSE <<"ALLOW", "ORCH_OK_ALL_COMPONENTS_ALLOW">>

DecisionsOf(verdicts) == {verdicts[i].decision : i \in DOMAIN verdicts}

-----------------------------------------------------------------------------
(* Receipts *)

\* Position of a component id under Python's string order; white space after
\* a name sorts behind the name and before the next one.  (White space in front
\* of a name would sort before every name, and is not modelled.)
SortKey(text) ==
  LET place == CHOOSE i \in DOMAIN SupportedComponents : SupportedComponents[i] = text.name
  IN  2 * place + IF text.padded THEN 1 ELSE 0

\* Mutant: the verdicts keep the order they came in.
AsSubmitted(verdicts) == verdicts

\* checked.sort: every verdict once, at the place its key has among the others.
Sorted(verdicts) ==
  LET all       == {verdicts[i] : i \in DOMAIN verdicts}
      Before(v) == {w \in all : SortKey(w.component_id) < SortKey(v.component_id)}
  IN  [i \in 1..Cardinality(all) |-> CHOOSE v \in all : Cardinality(Before(v)) = i - 1]

\* build_receipt returns a receipt, and raises ValueError otherwise.
Buildable(request_id, context_hash, verdicts) ==
  /\ ~Blank(request_id) /\ context_hash # Malformed
  /\ \A i \in DOMAIN verdicts : ValidVerdict(verdicts[i], context_hash)
  /\ \A i, j \in DOMAIN verdicts :
       verdicts[i].component_id = verdicts[j].component_id => i = j
  /\ \A id \in Supported : \E i \in DOMAIN verdicts : verdicts[i].component_id = Plain(id)
  /\ Encodable(request_id)
  /\ \A i \in DOMAIN verdicts : Encodable(verdicts[i].request_id)

\* Mutant: the hash is taken before the verdicts are sorted.
HashedAsSubmitted(request_id, context_hash, verdicts) ==
  LET class   == Classify(DecisionsOf(verdicts))
      content == [ faults |-> {}, request_id |-> Strip(request_id),
                   context_hash |-> context_hash, component_verdicts |-> verdicts,
                   final_outcome |-> class[1], dominant_reason |-> class[2],
                   handoff_allowed |-> class[1] = "ALLOW", receipt_hash |-> <<>> ]
  IN  [content EXCEPT !.receipt_hash = Sha256(content),
                      !.component_verdicts = Sorted(verdicts)]

\* The receipt build_receipt returns.  receipt_hash covers every field, itself
\* empty.
BuiltReceipt(request_id, context_hash, verdicts) ==
  LET class   == Classify(DecisionsOf(verdicts))
      content == [ faults |-> {}, request_id |-> Strip(request_id),
                   context_hash |-> context_hash,
                   component_verdicts |-> Sorted(verdicts),
                   final_outcome |-> class[1], dominant_reason |-> class[2],
                   handoff_allowed |-> class[1] = "ALLOW", receipt_hash |-> <<>> ]
  IN  [content EXCEPT !.receipt_hash = Sha256(content)]

\* validate_receipt returns a receipt, and raises ValueError otherwise.
ValidReceipt(receipt, expected_context_hash) ==
  /\ receipt.faults = {}
  /\ Buildable(receipt.request_id, receipt.context_hash, receipt.component_verdicts)
  /\ LET rebuilt == BuiltReceipt(receipt.request_id, receipt.context_hash,
                                 receipt.component_verdicts)
     IN  /\ rebuilt.receipt_hash = receipt.receipt_hash
         /\ expected_context_hash # Malformed
         /\ rebuilt.context_hash = expected_context_hash
         /\ rebuilt = receipt
=============================================================================
