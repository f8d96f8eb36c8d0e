------------------------------- MODULE MCChain -------------------------------
(***************************************************************************)
(* Two components, three registries and a short stretch of time for        *)
(* EvidenceChain.                                                          *)
(***************************************************************************)
EXTENDS ChainProperties

TwoComponents == <<"adn", "qwg">>

Key(role, algorithm, version) ==
  [ role |-> role, key |-> <<algorithm, version>>, algorithm |-> algorithm, status |-> "active",
    not_before |-> 0, not_after |-> 4 ]

KeysOf(role) ==
  << Key(role, "classical-ed25519", 1), Key(role, "ml-dsa", 1), Key(role, "fn-dsa", 1) >>

FirstKeys == KeysOf("adn") \o KeysOf("qwg") \o KeysOf("shield_orchestrator")

Revoked(keys, key) ==
  [i \in DOMAIN keys |-> IF keys[i] = key THEN [key EXCEPT !.status = "revoked"] ELSE keys[i]]

Registry(version, keys) ==
  [schema |-> "shield.key_registry.v1", registry_version |-> version, entries |-> keys]

\* Every key is active; one of adn is revoked and replaced; the Orchestrator's is.
MCRegistries ==
  << Registry(1, FirstKeys),
     Registry(2, Append(Revoked(FirstKeys, Key("adn", "ml-dsa", 1)), Key("adn", "ml-dsa", 2))),
     Registry(3, Revoked(FirstKeys, Key("shield_orchestrator", "ml-dsa", 1))) >>

\* A verdict signed with the classical key and a version of the ML-DSA key.
Verdict(id, version, extra) ==
  [ component_id |-> id, padded |-> FALSE, genuine |-> TRUE, faults |-> {},
    request_id |-> "request", context_hash |-> "context", key_registry_version |-> 1,
    not_before |-> 0, not_after |-> 2, decision |-> "ALLOW", signed_payload_hash |-> "own",
    signature_bundle |->
      [ faults |-> {},
        signatures |->
          << [faults |-> {}, algorithm |-> "classical-ed25519", key |-> <<"classical-ed25519", 1>>,
              signed_payload_hash |-> "own", domain |-> "DGB-SHIELD-V4-COMPONENT-VERDICT"],
             [faults |-> {}, algorithm |-> "ml-dsa", key |-> <<"ml-dsa", version>>,
              signed_payload_hash |-> "own", domain |-> "DGB-SHIELD-V4-COMPONENT-VERDICT"] >>
          \o extra ] ]

Optional ==
  << [faults |-> {}, algorithm |-> "fn-dsa", key |-> <<"fn-dsa", 1>>,
      signed_payload_hash |-> "own", domain |-> "DGB-SHIELD-V4-COMPONENT-VERDICT"] >>

\* What a component may submit: allow, deny, another window, one past the life of
\* its key, a padded id, a forgery, another key.
Answers(id) ==
  { Verdict(id, 1, <<>>),
    Verdict(id, 1, Optional),
    Verdict(id, 2, <<>>),
    [Verdict(id, 1, <<>>) EXCEPT !.decision = "DENY"],
    [Verdict(id, 1, <<>>) EXCEPT !.not_before = 2, !.not_after = 4],
    [Verdict(id, 1, <<>>) EXCEPT !.not_after = 5],
    [Verdict(id, 1, <<>>) EXCEPT !.padded = TRUE],
    [Verdict(id, 1, <<>>) EXCEPT !.genuine = FALSE] }

Plain == {Verdict(id, 1, <<>>) : id \in {"adn", "qwg"}}

\* Two of them, at most one out of the ordinary, in any order, also of one
\* component; or too few.
MCSubmissions ==
  LET all       == Answers("adn") \cup Answers("qwg")
      lists     == {<<v, w>> : v \in Plain, w \in all} \cup {<<v, w>> : v \in all, w \in Plain}
                     \cup {<<v>> : v \in all}
  IN  [version \in 1..3 |->
         {[i \in DOMAIN list |-> [list[i] EXCEPT !.key_registry_version = version]] : list \in lists}]

MCWindows == {[not_before |-> 0, not_after |-> 2], [not_before |-> 3, not_after |-> 4]}
=============================================================================
