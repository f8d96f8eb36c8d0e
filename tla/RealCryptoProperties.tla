------------------------- MODULE RealCryptoProperties -------------------------
(***************************************************************************)
(* What the real-crypto adapter promises: an entry verifies only as what   *)
(* was signed, whatever was done to it on its way and however the library  *)
(* fails, and what was signed does verify.                                 *)
(***************************************************************************)
EXTENDS RealCryptoBackend

Errors == {"error", "material", "unavailable", "encoding"}

KeyIds == {r.key_id : r \in Requests}

Signatures ==
  [secret : {r.reference.secret : r \in Requests}, message : {Message(r) : r \in Requests},
   length : {"short", "exact", "long"}, faults : SUBSET {"oversized", "malformed"}]

Entries ==
  [ fields : {"exact", "other"}, algorithm : {r.algorithm : r \in Requests},
    standard_profile : {r.standard_profile : r \in Requests},
    key_id : KeyIds, key_version : {r.key_version : r \in Requests},
    signed_payload_hash : {r.signed_payload_hash : r \in Requests},
    domain_tag : {r.domain_tag : r \in Requests}, signature : Signatures ]

Results ==
  [operation : {"none"}]
  \cup [operation : {"sign"}, request : Requests, library : Libraries,
        consulted : BOOLEAN, verdict : Errors \cup {Passed}]
  \cup [operation : {"verify"}, entry : Entries, key : Keys, library : Libraries,
        consulted : BOOLEAN, verdict : Errors \cup {"True", "False"}]

\* The type invariant.  A verification returns a boolean or raises, even when the
\* library answers something else.
TypeOK ==
  /\ issued \subseteq Requests
  /\ entry \in Entries \cup {None}
  /\ last \in Results

\* The request is what the entry says it is, and was signed with the key's secret.
IsIssueOf(r, e, key) ==
  /\ e.domain_tag = r.domain_tag
  /\ e.signed_payload_hash = r.signed_payload_hash
  /\ e.algorithm = r.algorithm
  /\ e.standard_profile = r.standard_profile
  /\ e.key_id.lines = r.key_id.lines
  /\ e.key_version = r.key_version
  /\ key.public_key.secret = r.reference.secret

\* An entry that verifies was issued for its domain, payload hash, algorithm,
\* profile, key id and key version, under the key that verifies it: no field can
\* be exchanged, and no signature moved to another entry, also between versions
\* of a key that share their secret (real_crypto_backend.py:209-213, "entries
\* cannot be spliced across bundles").
VerifiedWasIssued ==
  last.operation = "verify" /\ last.verdict = "True" =>
    \E r \in issued : IsIssueOf(r, last.entry, last.key)

\* What was issued and not touched verifies, under the key that names the same
\* algorithm, id and version and belongs to the same secret, with a library that
\* works.
IssuedVerifies ==
  \A r \in issued :
    /\ last.operation = "verify" /\ last.entry = EntryOf(r)
    /\ IsIssueOf(r, last.entry, last.key) /\ KeyMatches(last.entry, last.key)
    /\ last.key.public_key.length = "exact" /\ last.key.public_key.faults = {}
    /\ last.key.key_id.faults = {}
    /\ last.library = Healthy
    => last.verdict = "True"

\* A failing library withholds a verdict and never turns it: the same entry and
\* key do not verify with one library and come out as forged with another.
LibraryCannotTurnAVerdict ==
  last.operation = "verify" /\ last.verdict = "False" =>
    \A library \in Libraries : Verdict(last.entry, last.key, library) # "True"
=============================================================================
