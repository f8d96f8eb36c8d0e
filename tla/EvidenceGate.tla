----------------------------- MODULE EvidenceGate -----------------------------
(***************************************************************************)
(* What verify_v4_receipt_with_audit promises, with no receipt, signature, *)
(* backend or check in sight: a decision becomes a batch of evidence, the  *)
(* batch is offered to a log once, and the decision is announced only when *)
(* the log holds the whole batch.  Whatever else happens, the call says    *)
(* nothing of its decision.                                                *)
(***************************************************************************)
EXTENDS Sequences, Naturals

CONSTANT Passes(_)   \* whether a batch is the evidence of a successful verification

VARIABLES
  phase,     \* "idle", "deciding", "decided", "offered"
  batch,     \* the evidence of the decision, empty before there is one
  durable,   \* batches the log holds, oldest first
  outcome    \* what the caller was told last

gateVars == <<phase, batch, durable, outcome>>

Prefixes(s) == {SubSeq(s, 1, n) : n \in 0..Len(s)}

Init ==
  /\ phase = "idle"
  /\ batch = <<>>
  /\ durable = <<>>
  /\ outcome = "none"

Begin ==
  /\ phase = "idle" /\ phase' = "deciding"
  /\ outcome' = "none"
  /\ UNCHANGED <<batch, durable>>

\* Trusted arguments that are malformed: no verification, no evidence.
Refuse ==
  /\ phase = "idle"
  /\ outcome' = "argument_error"
  /\ UNCHANGED <<phase, batch, durable>>

Decide ==
  /\ phase = "deciding" /\ phase' = "decided"
  /\ batch' # <<>>
  /\ UNCHANGED <<durable, outcome>>

\* The log may keep the batch, a part of it, or nothing.
Offer ==
  /\ phase = "decided" /\ phase' = "offered"
  /\ durable' \in {durable} \cup {Append(durable, kept) : kept \in Prefixes(batch)}
  /\ UNCHANGED <<batch, outcome>>

Held == \E k \in DOMAIN durable : durable[k] = batch

Announce(told) ==
  /\ phase' = "idle"
  /\ batch' = <<>>
  /\ outcome' = told
  /\ UNCHANGED durable

Release  == phase = "offered" /\ Held /\ Passes(batch) /\ Announce("returned")

Reject   == phase = "offered" /\ Held /\ ~Passes(batch) /\ Announce("rejected")

Withhold == phase = "offered" /\ Announce("withheld")

Crash    == phase # "idle" /\ Announce("crashed")

Next == Begin \/ Refuse \/ Decide \/ Offer \/ Release \/ Reject \/ Withhold \/ Crash

GateSpec == Init /\ [][Next]_gateVars
=============================================================================
