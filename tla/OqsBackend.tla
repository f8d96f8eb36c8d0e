------------------------------ MODULE OqsBackend ------------------------------
(***************************************************************************)
(* OqsMlDsaBackend and OqsFalcon1024Backend: one algorithm each, signed    *)
(* and verified by liboqs, which may be missing, broken, built without the *)
(* mechanism, or misbehave in any call.                                    *)
(*                                                                         *)
(* Errors are values: Passed, or the kind of the exception raised.  The    *)
(* kinds are "error", "material" and "unavailable", the classes of         *)
(* ShieldV4RealCryptoBackendError, and "encoding" for UnicodeEncodeError.  *)
(* Texts are records whose `faults` say what is wrong with them:           *)
(*   a key id       [lines, faults]: its lines, "blank", "test-only" or    *)
(*                  "not UTF-8"                                            *)
(*   a reference    [secret, faults]: the key it resolves to, "blank",     *)
(*                  "test-only" or "unresolved"                            *)
(*   a public key   [secret, length, faults]: the key it belongs to,       *)
(*                  "oversized", "malformed" or "test-only"                *)
(*   a signature    [secret, message, length, faults]: who signed what,    *)
(*                  "oversized" or "malformed"                             *)
(* where a length is "short", "exact" or "long", against the details of    *)
(* the mechanism.  The library is [load, mechanism, details, answer].      *)
(***************************************************************************)
EXTENDS Naturals, Sequences

CONSTANT BackendAlgorithm      \* the algorithm of the adapter in use

Passed == "passed"

Demand(condition, error) == IF condition THEN Passed ELSE error

\* Python raises at the first check that fails.
FirstError(checks) ==
  IF \A i \in DOMAIN checks : checks[i] = Passed THEN Passed
  ELSE checks[CHOOSE i \in DOMAIN checks :
                /\ checks[i] # Passed
                /\ \A j \in DOMAIN checks : j < i => checks[j] = Passed]

-----------------------------------------------------------------------------
Healthy == [load |-> "ok", mechanism |-> "enabled", details |-> "good", answer |-> "honest"]

\* _load_oqs, _require_mechanism_enabled
MechanismError(library) ==
  FirstError(<<
    Demand(library.load # "missing", "unavailable"),
    Demand(library.load # "broken", "error"),
    Demand(library.mechanism # "discovery raises", "error"),
    Demand(library.mechanism = "enabled", "unavailable") >>)

\* sign_message: what it raises, Passed when it returns a signature.  An answer
\* is a signature, an exception, or something encode_binary_signature_material
\* refuses: no bytes, none, or too many.
SignError(algorithm, reference, library) ==
  FirstError(<<
    Demand(algorithm = BackendAlgorithm, "unavailable"),
    Demand("blank" \notin reference.faults, "error"),
    Demand("test-only" \notin reference.faults, "material"),
    Demand("unresolved" \notin reference.faults, "error"),
    MechanismError(library),
    Demand(library.answer = "honest", "error") >>)

\* Mutant: a signature must have the full length, as an ML-DSA one does.
LengthErrorExact(public_key, signature, library) ==
  FirstError(<<
    Demand(library.details \in {"none", "good"}, "error"),
    Demand(library.details = "none"
           \/ <<public_key.length, signature.length>> = <<"exact", "exact">>, "error") >>)

\* _require_expected_binary_length for both texts.  Only Falcon signatures may be
\* shorter; a library without details leaves the lengths unchecked, as details that
\* lack a length would leave that one.
LengthError(public_key, signature, library) ==
  FirstError(<<
    Demand(library.details \in {"none", "good"}, "error"),
    Demand(\/ library.details = "none"
           \/ /\ public_key.length = "exact"
              /\ signature.length \in {"exact"} \cup
                   (IF BackendAlgorithm = "fn-dsa" THEN {"short"} ELSE {}), "error") >>)

\* verify_signature, up to the answer of the library.
VerifyError(algorithm, public_key, signature, library) ==
  FirstError(<<
    Demand(algorithm = BackendAlgorithm, "unavailable"),
    Demand({"oversized", "malformed"} \cap (public_key.faults \cup signature.faults) = {}, "error"),
    MechanismError(library),
    LengthError(public_key, signature, library),
    Demand(library.answer = "honest", "error") >>)

\* External: the library gives signatures the length its mechanism has.
HonestLength == IF BackendAlgorithm = "fn-dsa" THEN "short" ELSE "exact"

\* External, ideal signatures: only the holder of a key signs under it, and a
\* signature is good for one message.  What is of a wrong length is not one.
SignatureIsGood(public_key, message, signature) ==
  /\ signature.secret = public_key.secret
  /\ signature.message = message
  /\ public_key.length = "exact"
  /\ signature.length = HonestLength
=============================================================================
