------------------------------- MODULE MCCrypto -------------------------------
(***************************************************************************)
(* Small sets of requests, keys and libraries for RealCryptoBackend.       *)
(***************************************************************************)
EXTENDS RealCryptoProperties

Sound(lines)     == [lines |-> lines, faults |-> {}]
Unsound(fault)   == [lines |-> <<fault>>, faults |-> {fault}]
Reference(fault) == [secret |-> "s", faults |-> {fault}]

Versions == [version \in 0..2 |-> <<"0", "1", "2">>[version + 1]]

\* The receipt, signed by a Falcon key.
Request ==
  [ algorithm |-> "fn-dsa", standard_profile |-> Profile("fn-dsa"),
    domain_tag |-> "DGB-SHIELD-V4-ORCH-RECEIPT", signed_payload_hash |-> "this payload",
    key_id |-> Sound(<<"key">>), key_version |-> 1,
    reference |-> [secret |-> "s", faults |-> {}] ]

\* Requests that differ in one thing a signature has to bind: the version of a key
\* that kept its secret; a key id that ends like a version; the domain; the hash.
Rivals ==
  { Request,
    [Request EXCEPT !.key_version = 2],
    [Request EXCEPT !.key_id = Sound(<<"key", "1">>)],
    [Request EXCEPT !.domain_tag = "DGB-SHIELD-V4-COMPONENT-VERDICT"],
    [Request EXCEPT !.signed_payload_hash = "that payload"],
    [Request EXCEPT !.reference.secret = "t"] }

\* Every way a request can be refused, one at a time.
Refused ==
  { [Request EXCEPT !.algorithm = "rsa"],
    [Request EXCEPT !.algorithm = "ml-dsa", !.standard_profile = Profile("ml-dsa")],
    [Request EXCEPT !.standard_profile = "fips206-draft-falcon512-v1"],
    [Request EXCEPT !.domain_tag = "another domain"],
    [Request EXCEPT !.signed_payload_hash = "no hash"],
    [Request EXCEPT !.key_version = 0],
    [Request EXCEPT !.key_id = Unsound("blank")],
    [Request EXCEPT !.key_id = Unsound("not UTF-8")] }
  \cup {[Request EXCEPT !.reference = Reference(fault)] : fault \in {"blank", "test-only", "unresolved"}}

MCRequests == Rivals \cup Refused

KeyOf(request) ==
  [ algorithm |-> request.algorithm, key_id |-> request.key_id, key_version |-> request.key_version,
    public_key |-> [secret |-> request.reference.secret, length |-> "exact", faults |-> {}] ]

MCKeys ==
  {KeyOf(r) : r \in Rivals}
  \cup {[KeyOf(Request) EXCEPT !.public_key.faults = {fault}] : fault \in {"malformed", "test-only"}}
  \cup {[KeyOf(Request) EXCEPT !.public_key.length = "short"],
        KeyOf([Request EXCEPT !.key_id = Unsound("test-only")])}

\* The library fails in every stage; it is missing, or its mechanism disabled,
\* with one error.
MCLibraries ==
  { Healthy,
    [Healthy EXCEPT !.load = "missing"],
    [Healthy EXCEPT !.mechanism = "discovery raises"],
    [Healthy EXCEPT !.details = "none"],
    [Healthy EXCEPT !.details = "bad"],
    [Healthy EXCEPT !.answer = "raises"],
    [Healthy EXCEPT !.answer = "odd"] }
=============================================================================
