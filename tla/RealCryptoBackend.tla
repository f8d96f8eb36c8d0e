-------------------------- MODULE RealCryptoBackend --------------------------
(***************************************************************************)
(* build_signature_entry_with_real_backend and                             *)
(* verify_signature_entry_with_real_backend, over an OQS adapter: entries  *)
(* are signed, taken apart and put together again on their way, and        *)
(* verified against keys of the registry, with a library that may fail     *)
(* differently in every call.                                              *)
(***************************************************************************)
EXTENDS OqsBackend, FiniteSets

CONSTANTS
  Requests,     \* what entries are built of
  Keys,         \* registry keys entries are verified against
  Libraries,    \* the states liboqs may be in at a call
  MaxIssued,    \* bound of the model: entries signed
  MaxSplices,   \* bound of the model: changes to one entry
  Decimal,      \* str(): the line a key version is written as
  None          \* no entry

\* What str() guarantees, and the types of what a request names its key with.
ASSUME DecimalIsInjective ==
  /\ \A n \in DOMAIN Decimal : Decimal[n] \in STRING
  /\ \A m, n \in DOMAIN Decimal : Decimal[m] = Decimal[n] => m = n

ASSUME RequestsNameKeys ==
  \A r \in Requests : r.key_id.lines \in Seq(STRING) /\ r.key_version \in DOMAIN Decimal

VARIABLES
  issued,       \* the requests that were signed
  entry,        \* the signature entry on its way to a verifier
  splices,      \* the changes made to it
  last          \* the last operation: what it was about and how it ended

vars == <<issued, entry, splices, last>>

Domains == {"DGB-SHIELD-V4-COMPONENT-VERDICT", "DGB-SHIELD-V4-ORCH-RECEIPT"}

AllowedAlgorithms == {"classical-ed25519", "ml-dsa", "fn-dsa"}

\* ALGORITHM_STANDARD_PROFILES: one profile of every algorithm.
Profile(algorithm) ==
  CASE algorithm = "classical-ed25519" -> "rfc8032-ed25519-v1"
    [] algorithm = "ml-dsa"            -> "fips204-ml-dsa-65-v1"
    [] OTHER                           -> "fips206-draft-falcon1024-v1"

Hashes == {"this payload", "that payload"}

-----------------------------------------------------------------------------
\* Mutants: the message leaves the version of the key out, or the domain.
UnversionedMessage(x) ==
  <<x.domain_tag, x.signed_payload_hash, x.algorithm, x.standard_profile>>
  \o x.key_id.lines

\* build_real_crypto_signature_input: the lines that are signed after the fixed
\* prefix.  A key id may hold line feeds.
Message(x) ==
  <<x.domain_tag, x.signed_payload_hash, x.algorithm, x.standard_profile>>
  \o x.key_id.lines \o <<Decimal[x.key_version]>>

\* The fields both operations check, here in groups that fail in one way.
ProfileError(x) ==
  Demand(x.algorithm \in AllowedAlgorithms /\ x.standard_profile = Profile(x.algorithm), "error")

KeyNameError(x) == Demand("blank" \notin x.key_id.faults /\ x.key_version > 0, "error")

PayloadError(x) ==
  Demand(x.domain_tag \in Domains /\ x.signed_payload_hash \in Hashes, "error")

\* The last thing the message is, is encoded.
MessageError(x) ==
  FirstError(<<PayloadError(x), Demand("not UTF-8" \notin x.key_id.faults, "encoding")>>)

\* _require_backend_supports_algorithm
SupportError(x) == Demand(x.algorithm = BackendAlgorithm, "unavailable")

\* build_signature_entry_with_real_backend, before the backend is called.
BuildError(request) ==
  FirstError(<<
    ProfileError(request), KeyNameError(request), MessageError(request),
    Demand("blank" \notin request.reference.faults, "error"),
    Demand("test-only" \notin request.reference.faults, "material"),
    SupportError(request) >>)

\* The fields of the entry built.
EntryOf(request) ==
  [ fields              |-> "exact",
    algorithm           |-> request.algorithm,
    standard_profile    |-> request.standard_profile,
    key_id              |-> request.key_id,
    key_version         |-> request.key_version,
    signed_payload_hash |-> request.signed_payload_hash,
    domain_tag          |-> request.domain_tag,
    signature           |-> [secret |-> request.reference.secret,
                             message |-> Message(request),
                             length |-> HonestLength, faults |-> {}] ]

\* The entry names the algorithm, the id and the version of the registry key.
KeyMatches(e, key) ==
  /\ key.algorithm = e.algorithm
  /\ key.key_id = e.key_id
  /\ key.key_version = e.key_version

\* verify_signature_entry_with_real_backend, before the backend is called.
EntryError(e, key) ==
  FirstError(<<
    Demand(e.fields = "exact", "error"),
    Demand("oversized" \notin e.signature.faults \cup key.public_key.faults, "error"),
    Demand("test-only" \notin key.key_id.faults \cup key.public_key.faults, "material"),
    Demand("malformed" \notin e.signature.faults \cup key.public_key.faults, "error"),
    ProfileError(e), KeyNameError(e),
    Demand(KeyMatches(e, key), "error"),
    SupportError(e), MessageError(e) >>)

-----------------------------------------------------------------------------
Init ==
  /\ issued = {} /\ entry = None /\ splices = 0
  /\ last = [operation |-> "none"]

\* An entry is built; when it fails there is none.
Sign ==
  /\ Cardinality(issued) < MaxIssued
  /\ \E request \in Requests, library \in Libraries :
       LET before == BuildError(request)
           error  == FirstError(<<before,
                       SignError(request.algorithm, request.reference, library)>>)
       IN  /\ last' = [operation |-> "sign", request |-> request, library |-> library,
                       consulted |-> before = Passed, verdict |-> error]
           /\ IF error = Passed
              THEN entry' = EntryOf(request) /\ issued' = issued \cup {request} /\ splices' = 0
              ELSE UNCHANGED <<entry, issued, splices>>

\* External: the entries an entry can be turned into.  One field is exchanged, or
\* the signature, for one that was issued, under any key, for anything.
FieldExchanged(e) ==
  {[e EXCEPT !.fields = "other"]}
  \cup {[e EXCEPT !.algorithm = r.algorithm] : r \in Requests}
  \cup {[e EXCEPT !.standard_profile = r.standard_profile] : r \in Requests}
  \cup {[e EXCEPT !.key_id = r.key_id] : r \in Requests}
  \cup {[e EXCEPT !.key_version = r.key_version] : r \in Requests}
  \cup {[e EXCEPT !.signed_payload_hash = r.signed_payload_hash] : r \in Requests}
  \cup {[e EXCEPT !.domain_tag = r.domain_tag] : r \in Requests}

SignatureExchanged(e) ==
  {[e EXCEPT !.signature = EntryOf(r).signature] : r \in issued}
  \cup {[e EXCEPT !.signature.faults = {fault}] : fault \in {"malformed", "oversized"}}
  \cup {[e EXCEPT !.signature.length = "long"]}

Splice ==
  /\ entry # None /\ splices < MaxSplices
  /\ splices' = splices + 1
  /\ entry' \in FieldExchanged(entry) \cup SignatureExchanged(entry)
  /\ last' = [operation |-> "none"]
  /\ UNCHANGED issued

\* Mutants: what the library answers is passed on unseen; an exception of the
\* library is caught as a verdict.
Unseen(e, key, library) ==
  LET error == FirstError(<<EntryError(e, key),
                 VerifyError(e.algorithm, key.public_key, e.signature, [library EXCEPT !.answer = "honest"])>>)
  IN  IF error # Passed THEN error
      ELSE IF library.answer = "odd" THEN "odd"
      ELSE IF SignatureIsGood(key.public_key, Message(e), e.signature) THEN "True" ELSE "False"

CaughtAsVerdict(e, key, library) ==
  LET answer == VerifyError(e.algorithm, key.public_key, e.signature, library)
  IN  IF EntryError(e, key) # Passed THEN EntryError(e, key)
      ELSE IF answer # Passed THEN "False"
      ELSE IF SignatureIsGood(key.public_key, Message(e), e.signature) THEN "True" ELSE "False"

\* What verify_signature_entry_with_real_backend returns or raises.
Verdict(e, key, library) ==
  LET error == FirstError(<<EntryError(e, key),
                 VerifyError(e.algorithm, key.public_key, e.signature, library)>>)
  IN  IF error # Passed THEN error
      ELSE IF SignatureIsGood(key.public_key, Message(e), e.signature) THEN "True" ELSE "False"

Verify ==
  /\ entry # None
  /\ \E key \in Keys, library \in Libraries :
       last' = [operation |-> "verify", entry |-> entry, key |-> key, library |-> library,
                consulted |-> EntryError(entry, key) = Passed,
                verdict |-> Verdict(entry, key, library)]
  /\ UNCHANGED <<issued, entry, splices>>

Next == Sign \/ Splice \/ Verify

Spec == Init /\ [][Next]_vars
=============================================================================
