---------------------------- MODULE V3Properties ----------------------------
(***************************************************************************)
(* What v3 orchestration promises.                                         *)
(***************************************************************************)
EXTENDS V3Orchestrate

Ended == pc = "idle" /\ result.kind # "none"

\* The type invariant.
TypeOK ==
  /\ pc \in {"idle", "validate", "bind", "bridges", "engine", "synthesis", "report", "respond",
             "failing"}
  /\ calls \in 0..MaxCalls
  /\ header \in Headers /\ payload \in Payloads
  /\ Len(verdicts) <= Len(BridgeOrder)
  /\ error \in {"none", "INVALID_CONTRACT_VERSION", "INVALID_REQUEST", "HASHING_FAILED",
                "COMPONENT_ERROR", "INTERNAL_ERROR"}
  /\ pc = "failing" => error # "none"
  /\ receipt # None => error = "none"
  /\ sink \in {"none", "OK", "ERROR"}
  /\ result.kind \in {"none", "response", "raised"}
  /\ answers \in [Supported -> Answers \cup {"unasked", "no input"}]
  /\ seen \subseteq Payloads /\ disturbed \in BOOLEAN

\* Were the request left alone, would it reach the receipt, whatever the engines
\* say: valid, hashable where it must be, with a usable request id.
Sound(h, p) ==
  /\ h.status = "ok"
  /\ ContextFailure(h, p) = "none"
  /\ ~Blank(ReceiptRequestId(h, p))
  /\ Encodable(ReceiptRequestId(h, p))

\* The outcome of an undisturbed call, from the request and what the bridges met,
\* in no particular order; none while a component that might decide is not asked.
ReferenceOutcome ==
  LET met == {answers[id] : id \in Supported}
  IN  IF ~Sound(header, payload) \/ ~(met \subseteq {"ALLOW", "ESCALATE", "unasked"})
      THEN "DENY"
      ELSE IF "unasked" \in met  THEN "none"
      ELSE IF "ESCALATE" \in met THEN "ESCALATE"
      ELSE "ALLOW"

\* An error a call meets: a request that cannot reach the receipt, or an answer that
\* is an exception outside of its bridge.
Breaking == {"not JSON", "not UTF-8", "foreign"}

Fails ==
  \/ ~Sound(header, payload)
  \/ \E id \in Supported : answers[id] \in Breaking

\* Can the handler of an error hash the request once more, copied with the payload
\* and serialized without it?
CanBeHashedAgain(h, p) ==
  CopyFailure(p) = "none" /\ h.text = "plain" /\ Encodable(h.nonce)

\* Left alone by its caller, a call gives exactly the outcome the request and the
\* engines call for, neither milder nor harsher: no component input, no engine, an
\* authority claim or any exception denies, and nothing else keeps a component from
\* being asked.  It gives no receipt once it met an error, and it leaves with an
\* exception exactly when it met one and its handler meets another
\* (v3/orchestrate.py:42-187, bridges/*.py evaluate_v3).
OutcomeIsExact ==
  Ended =>
    /\ Fails => result.receipt = None
    /\ IF Fails /\ ~CanBeHashedAgain(header, payload)
       THEN result.kind = "raised"
       ELSE result.kind = "response" /\ result.outcome = ReferenceOutcome

\* What a receipt vouches for.  It validates against the response's context hash, so
\* every verdict in it is bound to that hash, whatever caller and engines do.  Unless
\* the caller interferes, the hash is the one its payload names; and if it names none,
\* every engine that was consulted was handed the very payload that was hashed, although
\* each bridge reads the payload anew and engines may change it.  A payload that names
\* its hash is vouched for by that name alone: engines may have been consulted about
\* two contents under it (bridges/component_verdicts.py:112-127,
\* bridges/*_bridge.py, v3/orchestrate.py:79-83).
ReceiptVouchesForItsHash ==
  (Ended /\ result.receipt # None) =>
    /\ ValidReceipt(result.receipt, result.context_hash)
    /\ ~disturbed =>
         IF payload.context = Absent
         THEN \A p \in seen : result.context_hash = <<"computed", <<header, p>>>>
         ELSE result.context_hash = payload.context

\* Every call ends, whatever engines, sink and caller do.
EveryCallEnds == pc # "idle" ~> Ended

\* Once there is a receipt the caller is given it, with the outcome it carries,
\* whether or not the Adaptive Core sink can report (v3/orchestrate.py:97-132:
\* "must not influence outcome").
ReceiptIsReturned ==
  pc = "report" ~> Ended /\ result.receipt # None /\ result.outcome = OutcomeOf(result.receipt)

-----------------------------------------------------------------------------
(* v3 orchestration implements the decision gate: what a bridge met is the     *)
(* component's vote, and the outcome of the response is the decision.          *)

Votes ==
  [id \in Supported |-> IF answers[id] = "unasked" THEN "none" ELSE answers[id]]

Decision ==
  IF pc # "idle" THEN "open"
  ELSE CASE result.kind = "response" -> result.outcome
         [] result.kind = "raised"   -> "none"
         [] OTHER                    -> "closed"

Gate == INSTANCE DecisionGate
  WITH Voters <- Supported, Words <- Answers \cup {"no input"},
       votes <- Votes, decision <- Decision

\* One vote of every component, cast once, and no favourable decision that one of them does
\* not support, even when the payload changes from bridge to bridge.
ImplementsDecisionGate == Gate!Spec
=============================================================================
