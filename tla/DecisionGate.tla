----------------------------- MODULE DecisionGate -----------------------------
(***************************************************************************)
(* What v3 orchestration promises: every voter of the round votes once, a  *)
(* round may be denied or left without a decision at any time, and only a  *)
(* complete round without a dissenting vote is decided in favour.          *)
(***************************************************************************)
CONSTANTS
  Voters,
  Words    \* what a voter may say, ALLOW and ESCALATE among others

VARIABLES votes, decision

gate == <<votes, decision>>

NoVotes == [voter \in Voters |-> "none"]

\* A decision in favour needs every vote; one ESCALATE leaves it to a human.
Favourable(cast) ==
  {choice \in {"ALLOW", "ESCALATE"} :
     /\ \A voter \in Voters : cast[voter] \in {"ALLOW", choice}
     /\ \E voter \in Voters : cast[voter] = choice}

Init == votes = NoVotes /\ decision = "closed"

Open ==
  /\ decision # "open"
  /\ votes' = NoVotes /\ decision' = "open"

Vote(voter, choice) ==
  /\ decision = "open"
  /\ votes[voter] = "none"
  /\ votes' = [votes EXCEPT ![voter] = choice]
  /\ UNCHANGED decision

Decide ==
  /\ decision = "open"
  /\ decision' \in {"DENY", "none"} \cup Favourable(votes)
  /\ UNCHANGED votes

Next ==
  \/ Open
  \/ \E voter \in Voters, choice \in Words :
       Vote(voter, choice)
  \/ Decide

Spec == Init /\ [][Next]_gate
=============================================================================
