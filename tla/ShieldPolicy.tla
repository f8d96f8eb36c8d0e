---------------------------- MODULE ShieldPolicy ----------------------------
(***************************************************************************)
(* The vocabulary the v4 modules share: signature policy.v1, the ordered   *)
(* list of Shield components, the audit reason ids, and the way a failed   *)
(* check becomes a reason.                                                 *)
(*                                                                         *)
(* Checks are values here.  A check that passes is V4_VERIFY_OK, one that  *)
(* raises is the reason id its message is classified as, and a block of    *)
(* checks, which Python runs until the first one raises, is FirstFailure   *)
(* of their sequence.                                                      *)
(***************************************************************************)
EXTENDS Naturals, Sequences

CONSTANT Components   \* SUPPORTED_COMPONENTS, in canonical order

ASSUME ComponentsAssumption ==
  /\ Components \in Seq(STRING) \ {<<>>}
  /\ \A i, j \in DOMAIN Components : Components[i] = Components[j] => i = j
  /\ \A i \in DOMAIN Components : Components[i] # "shield_orchestrator"

Orchestrator == "shield_orchestrator"

ComponentIds == {Components[i] : i \in DOMAIN Components}

\* A bundle belongs to an artifact: a component verdict or the receipt.
Artifacts == ComponentIds \cup {Orchestrator}

\* COMPONENT_ROLES is one-to-one, so a role is named by the artifact it signs.
SupportedRoles == Artifacts

-----------------------------------------------------------------------------
(* policy.v1 *)

AllowedAlgorithms == <<"classical-ed25519", "ml-dsa", "fn-dsa">>

Algorithms == {"classical-ed25519", "ml-dsa", "fn-dsa"}

RequiredAlgorithms == {"classical-ed25519", "ml-dsa"}

PqcAlgorithms == {"ml-dsa", "fn-dsa"}

AlgorithmRank(algorithm) ==
  CASE algorithm = "classical-ed25519" -> 0
    [] algorithm = "ml-dsa"            -> 1
    [] OTHER                           -> 2

\* Rank of an artifact inside a callback wave: the components in canonical
\* order, then the receipt.
ArtifactRank(artifact) ==
  IF artifact = Orchestrator
  THEN Len(Components) + 1
  ELSE CHOOSE i \in DOMAIN Components : Components[i] = artifact

-----------------------------------------------------------------------------
(* Reason ids and error classification *)

Ok == "V4_VERIFY_OK"

AuditReasonIds ==
  { Ok, "V4_CONTRACT_INVALID", "V4_CONTEXT_MISMATCH", "V4_REQUEST_MISMATCH",
    "V4_HASH_MISMATCH", "V4_DOWNGRADE_REJECTED", "V4_AUTHORITY_BYPASS",
    "V4_POLICY_INVALID", "V4_REGISTRY_INVALID", "V4_FRESHNESS_INVALID",
    "V4_REPLAY_REJECTED", "V4_SIGNATURE_INVALID", "V4_BACKEND_UNAVAILABLE",
    "V4_BACKEND_FAILURE" }

FailureReasons == AuditReasonIds \ {Ok}

\* The substring tests of _classify_error, in the order it makes them.
Classification ==
  << [reason |-> "V4_CONTEXT_MISMATCH",  words |-> {"context"}],
     [reason |-> "V4_REQUEST_MISMATCH",  words |-> {"request"}],
     [reason |-> "V4_HASH_MISMATCH",     words |-> {"hash"}],
     [reason |-> "V4_AUTHORITY_BYPASS",  words |-> {"authority", "handoff_allowed"}],
     [reason |-> "V4_CONTRACT_INVALID",  words |-> {"contract", "schema", "field"}],
     [reason |-> "V4_POLICY_INVALID",    words |-> {"policy", "algorithm", "profile"}],
     [reason |-> "V4_REGISTRY_INVALID",  words |-> {"registry", "key", "role"}],
     [reason |-> "V4_FRESHNESS_INVALID", words |-> {"freshness", "time", "validity"}],
     [reason |-> "V4_SIGNATURE_INVALID", words |-> {"signature"}] >>

\* The reason of an error whose message holds exactly these of the classifier's
\* words; a message with none of them falls back to V4_CONTRACT_INVALID.
Classify(words) ==
  LET hits == {i \in DOMAIN Classification : Classification[i].words \cap words # {}}
  IN  IF hits = {}
      THEN "V4_CONTRACT_INVALID"
      ELSE Classification[CHOOSE i \in hits : \A j \in hits : i <= j].reason

\* A check that gives `reason` when the condition fails.
Require(condition, reason) == IF condition THEN Ok ELSE reason

\* `if not condition: raise ValueError(<a message with these words>)`
Demand(condition, words) == Require(condition, Classify(words))

\* `if not condition: raise ShieldV4WorkBudgetError(...)`, whatever its message.
WithinBudget(condition) == Require(condition, "V4_CONTRACT_INVALID")

\* The first of a sequence of checks that fails, Ok when none does.
FirstFailing(checks) ==
  IF \A i \in DOMAIN checks : checks[i] = Ok
  THEN Ok
  ELSE checks[CHOOSE i \in DOMAIN checks :
                /\ checks[i] # Ok
                /\ \A j \in DOMAIN checks : j < i => checks[j] = Ok]

\* A block of checks stops at the first one that raises.  (The singleton makes
\* TLC evaluate the block once.)
FirstFailure(checks) == CHOOSE reason \in {FirstFailing(list) : list \in {checks}} : TRUE
=============================================================================
