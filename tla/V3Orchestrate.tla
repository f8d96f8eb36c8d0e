---------------------------- MODULE V3Orchestrate ----------------------------
(***************************************************************************)
(* orchestrate(request) of v3: five component bridges in a fixed order,    *)
(* the v3.2 receipt built of their verdicts, the Adaptive Core sink, and   *)
(* the two handlers that turn an error into a DENY.                        *)
(*                                                                         *)
(* Outside are the caller, who owns the payload and may change it while    *)
(* the call runs, and the component engines behind the bridges, which are  *)
(* handed objects of the payload and may change what is in them.           *)
(*                                                                         *)
(* A request is a frozen header [status, text, nonce] and a payload        *)
(* [request_id, context, inputs, content]: the request id and the context  *)
(* hash it names (Absent when none), the components it has an input for,   *)
(* and how the rest of it takes copying and hashing.                       *)
(***************************************************************************)
EXTENDS V32Receipt

CONSTANTS
  BridgeOrder,   \* the components in the order their bridges are called
  Headers,       \* headers of the requests a caller may pass
  Payloads,      \* payloads it may pass, or change its payload into
  Answers,       \* what a bridge may meet
  Mutators,      \* who changes the payload during a call: "engine", "caller"
  MaxCalls,      \* the bound on the number of calls
  None           \* no receipt

ASSUME OrderAssumption ==
  /\ BridgeOrder \in Seq(Supported)
  /\ \A id \in Supported : \E i \in DOMAIN BridgeOrder : BridgeOrder[i] = id
  /\ \A i, j \in DOMAIN BridgeOrder : BridgeOrder[i] = BridgeOrder[j] => i = j
  /\ Mutators \subseteq {"engine", "caller"} /\ MaxCalls \in Nat

\* There is something to call with, _validate_request ends in one of three ways,
\* payloads are records, and no answer reads like the lack of one.
ASSUME RequestsAssumption ==
  /\ Headers # {} /\ Payloads # {}
  /\ \A h \in Headers : h.status \in {"ok", "wrong version", "invalid"}
  /\ \A p \in Payloads : DOMAIN p = {"request_id", "context", "inputs", "content"}
  /\ "unasked" \notin Answers

VARIABLES
  pc,            \* the next step of the call, "idle" outside of one
  calls,         \* calls made so far
  header,        \* the frozen fields of the caller's request
  payload,       \* its payload, as it is now
  request_id,    \* locals of orchestrate
  context_hash,
  bound,         \* <<request id, context hash>> a bridge computed for itself
  verdicts,      \* component_verdicts
  error,         \* the reason the call fails with
  receipt,
  sink,          \* status of the Adaptive Core trace entry
  result,        \* what the caller was given
  answers,       \* observer: what each bridge met in this call
  seen,          \* observer: the payloads the engines were consulted about
  disturbed      \* observer: the caller has changed the payload during this call

request  == <<header, payload>>
locals   == <<request_id, context_hash, bound, verdicts, error, receipt, sink>>
observed == <<answers, seen, disturbed>>
vars     == <<pc, calls, request, locals, result, observed>>

-----------------------------------------------------------------------------
(* Copying and hashing *)

Absent == <<>>

\* The exception class of asdict(request) followed by canonical JSON and UTF-8,
\* "none" when the request can be hashed; asdict copies before anything is hashed.
CopyFailure(p) ==
  CASE p.content = "not copyable" -> "TypeError"
    [] p.content = "copy raises"  -> "other"
    [] OTHER                      -> "none"

HashFailure(h, p) ==
  IF CopyFailure(p) # "none" THEN CopyFailure(p)
  ELSE IF "not JSON" \in {h.text, p.content} THEN "TypeError"
  ELSE IF "not UTF-8" \in {h.text, p.content}
          \/ ~Encodable(h.nonce) \/ ~Encodable(p.request_id) THEN "ValueError"
  ELSE "none"

\* receipt_request_id
ReceiptRequestId(h, p) == IF Blank(p.request_id) THEN h.nonce ELSE Strip(p.request_id)

\* receipt_context_hash: what it raises, and what it returns otherwise.
ContextFailure(h, p) ==
  IF p.context = Malformed   THEN "ValueError"
  ELSE IF p.context # Absent THEN "none"
  ELSE HashFailure(h, p)

ContextHash(h, p) ==
  IF p.context # Absent THEN p.context ELSE <<"computed", <<h, p>>>>

-----------------------------------------------------------------------------
(* Bridges *)

\* Mutant: the former stub, a component without input is taken to allow.
StubDecision(answer) ==
  IF answer \in {"ALLOW", "ESCALATE", "DENY"} THEN answer
  ELSE IF answer = "no input" THEN "ALLOW" ELSE "ERROR"

\* _normalized_decision, and the error verdict of everything that gives none.
DecisionOf(answer) ==
  IF answer \in {"ALLOW", "ESCALATE", "DENY"} THEN answer ELSE "ERROR"

\* Answers that leave the bridge as an exception: a response canonical_sha256
\* cannot take.
AnswerFailure(met, id) ==
  CASE met = "not JSON"  -> "TypeError"
    [] met = "not UTF-8" -> "ValueError"
    \* The evidence hash of an error verdict covers the request id.
    [] met \notin {"ALLOW", "ESCALATE", "DENY", "unknown"} /\ ~Encodable(id) -> "ValueError"
    [] OTHER             -> "none"

\* _build_verdict
Verdict(component, id, hash, decision) ==
  [ faults |-> {}, component_id |-> Plain(component), request_id |-> id,
    context_hash |-> hash, decision |-> Plain(decision) ]

-----------------------------------------------------------------------------
(* The call *)

NoAnswers == [component \in Supported |-> "unasked"]

Response(outcome, reason, hash, r) ==
  [kind |-> "response", outcome |-> outcome, reason |-> reason,
   context_hash |-> hash, receipt |-> r]

NoResult == [kind |-> "none", outcome |-> "none", reason |-> "none",
             context_hash |-> Absent, receipt |-> None]

Raised == [NoResult EXCEPT !.kind = "raised"]

\* Before the first call the request means nothing.
Init ==
  /\ pc = "idle" /\ calls = 0
  /\ header = CHOOSE h \in Headers : TRUE
  /\ payload = CHOOSE p \in Payloads : TRUE
  /\ request_id = Plain("") /\ context_hash = Absent /\ bound = <<>> /\ verdicts = <<>>
  /\ error = "none" /\ receipt = None /\ sink = "none"
  /\ result = NoResult
  /\ answers = NoAnswers /\ seen = {} /\ disturbed = FALSE

Call ==
  /\ pc = "idle" /\ calls < MaxCalls
  /\ calls' = calls + 1
  /\ header' \in Headers /\ payload' \in Payloads
  /\ request_id' = Plain("") /\ context_hash' = Absent /\ bound' = <<>> /\ verdicts' = <<>>
  /\ error' = "none" /\ receipt' = None /\ sink' = "none"
  /\ result' = NoResult /\ answers' = NoAnswers /\ seen' = {}
  /\ disturbed' = FALSE
  /\ pc' = "validate"

\* Mutant: the handler reports the reason of the last failure.
FailAsBefore(reason) == error' = error /\ pc' = "failing"

\* Control passes to one of the two exception handlers of orchestrate.
Fail(reason) == error' = reason /\ pc' = "failing"

\* _validate_request
ValidateRequest ==
  /\ pc = "validate"
  /\ CASE header.status = "wrong version" -> Fail("INVALID_CONTRACT_VERSION")
       [] header.status = "invalid"       -> Fail("INVALID_REQUEST")
       [] OTHER                           -> pc' = "bind" /\ UNCHANGED error
  /\ UNCHANGED <<calls, request, request_id, context_hash, bound, verdicts, receipt,
                 sink, result, observed>>

\* request_id and context_hash, computed once for the receipt.
BindRequest ==
  /\ pc = "bind"
  /\ LET failure == ContextFailure(header, payload)
     IN  CASE failure = "TypeError"  -> Fail("HASHING_FAILED")  /\ UNCHANGED <<request_id, context_hash>>
           [] failure = "ValueError" -> Fail("INVALID_REQUEST") /\ UNCHANGED <<request_id, context_hash>>
           [] failure = "other"      -> Fail("INTERNAL_ERROR")  /\ UNCHANGED <<request_id, context_hash>>
           [] failure = "none"       ->
                /\ request_id' = ReceiptRequestId(header, payload)
                /\ context_hash' = ContextHash(header, payload)
                /\ pc' = "bridges"
                /\ UNCHANGED error
  /\ UNCHANGED <<calls, request, bound, verdicts, receipt, sink, result, observed>>

\* How an exception inside the loop over the bridges is classified.
LoopFailure(class) == IF class = "TypeError" THEN "HASHING_FAILED" ELSE "COMPONENT_ERROR"

\* The bridge the loop is at.
Component == BridgeOrder[Len(verdicts) + 1]

\* The verdict is appended and the loop goes on.
Collect(verdict) ==
  /\ verdicts' = Append(verdicts, verdict)
  /\ pc' = IF Len(verdicts) + 1 = Len(BridgeOrder) THEN "synthesis" ELSE "bridges"
  /\ UNCHANGED error

\* Mutant: a bridge binds its verdict to what the call computed at its start.
BindToCall ==
  /\ pc = "bridges"
  /\ bound' = <<request_id, context_hash>> /\ pc' = "engine"
  /\ UNCHANGED <<calls, request, request_id, context_hash, verdicts, error, receipt,
                 sink, result, observed>>

\* evaluate_v3 begins: every bridge computes request id and context hash for
\* itself, from the payload as it is then.
BindVerdict ==
  /\ pc = "bridges"
  /\ IF ContextFailure(header, payload) = "none"
     THEN /\ bound' = <<ReceiptRequestId(header, payload), ContextHash(header, payload)>>
          /\ pc' = "engine"
          /\ UNCHANGED error
     ELSE Fail(LoopFailure(ContextFailure(header, payload))) /\ UNCHANGED bound
  /\ UNCHANGED <<calls, request, request_id, context_hash, verdicts, receipt, sink,
                 result, observed>>

\* evaluate_v3 goes on: the engine is asked if there is an input for it, and may
\* change what is in the objects it was handed.
ConsultEngine ==
  /\ pc = "engine"
  /\ \E answer \in Answers \ {"trace", "foreign"} :
       LET met     == IF Component \in payload.inputs THEN answer ELSE "no input"
           failure == AnswerFailure(met, bound[1])
       IN  /\ answers' = [answers EXCEPT ![Component] = met]
           /\ IF met = "no input"
              THEN UNCHANGED <<seen, payload>>
              ELSE /\ seen' = seen \cup {payload}
                   /\ payload' \in {payload} \cup
                        {p \in Payloads : "engine" \in Mutators
                                           /\ p = [payload EXCEPT !.content = p.content]}
           /\ IF failure = "none"
              THEN Collect(Verdict(Component, bound[1], bound[2], DecisionOf(met)))
              ELSE Fail(LoopFailure(failure)) /\ UNCHANGED verdicts
  /\ UNCHANGED <<calls, header, request_id, context_hash, bound, receipt, sink, result,
                 disturbed>>

\* _normalize_bridge_result of a replaced bridge: a bare trace becomes an error
\* verdict bound to the call, anything foreign an exception.
ReplacedBridge ==
  /\ pc = "bridges"
  /\ \E answer \in Answers \cap {"trace", "foreign"} :
       /\ answers' = [answers EXCEPT ![Component] = answer]
       /\ IF answer = "trace" /\ Encodable(request_id)
          THEN Collect(Verdict(Component, request_id, context_hash, "ERROR"))
          ELSE Fail("COMPONENT_ERROR") /\ UNCHANGED verdicts
  /\ UNCHANGED <<calls, request, request_id, context_hash, bound, receipt, sink, result,
                 seen, disturbed>>

\* build_receipt; a ValueError reaches the handler of unexpected errors.
Synthesize ==
  /\ pc = "synthesis"
  /\ IF Buildable(request_id, context_hash, verdicts)
     THEN /\ receipt' = BuiltReceipt(request_id, context_hash, verdicts)
          /\ pc' = "report"
          /\ UNCHANGED error
     ELSE Fail("INTERNAL_ERROR") /\ UNCHANGED receipt
  /\ UNCHANGED <<calls, request, request_id, context_hash, bound, verdicts, sink, result,
                 observed>>

\* Mutant: an exception of the sink is not caught where it is raised.
ReportUncaught ==
  /\ pc = "report"
  /\ IF HashFailure(header, payload) = "none"
     THEN sink' = "OK" /\ pc' = "respond" /\ UNCHANGED error
     ELSE Fail("INTERNAL_ERROR") /\ UNCHANGED sink
  /\ UNCHANGED <<calls, request, request_id, context_hash, bound, verdicts, receipt,
                 result, observed>>

\* AdaptiveCoreBridge.report_v3 hashes the request; whatever it raises is caught.
\* The hash of the trace that follows (113-123) is of strings orchestrate itself wrote and
\* is used nowhere; it is left out.
Report ==
  /\ pc = "report"
  /\ sink' = IF HashFailure(header, payload) = "none" THEN "OK" ELSE "ERROR"
  /\ pc' = "respond"
  /\ UNCHANGED <<calls, request, request_id, context_hash, bound, verdicts, error,
                 receipt, result, observed>>

\* _response_from_receipt
OutcomeOf(r) ==
  CASE r.final_outcome = "ALLOW"                 -> "ALLOW"
    [] r.final_outcome = "HUMAN_REVIEW_REQUIRED" -> "ESCALATE"
    [] OTHER                                     -> "DENY"

Respond ==
  /\ pc = "respond"
  /\ result' = Response(OutcomeOf(receipt), receipt.dominant_reason, context_hash, receipt)
  /\ pc' = "idle"
  /\ UNCHANGED <<calls, request, locals, observed>>

\* Mutant: a hashing failure ends the handler without an answer, to be tried again.
FailAgain ==
  /\ pc = "failing"
  /\ IF HashFailure(header, payload) # "none"
     THEN UNCHANGED <<pc, result>>
     ELSE /\ result' = Response("DENY", error, <<"computed", <<header, error>>>>, None)
          /\ pc' = "idle"
  /\ UNCHANGED <<calls, request, locals, observed>>

\* Both handlers.  _request_for_hash copies the request with its payload and then
\* drops the payload; what copying or hashing raises here leaves orchestrate.
FailClosed ==
  /\ pc = "failing"
  /\ result' =
       IF CopyFailure(payload) # "none" \/ header.text # "plain" \/ ~Encodable(header.nonce)
       THEN Raised
       ELSE Response("DENY", error, <<"computed", <<header, error>>>>, None)
  /\ pc' = "idle"
  /\ UNCHANGED <<calls, request, locals, observed>>

\* External: the caller changes its payload from another thread.
MutatePayload ==
  /\ "caller" \in Mutators /\ pc # "idle"
  /\ payload' \in Payloads \ {payload} /\ disturbed' = TRUE
  /\ UNCHANGED <<pc, calls, header, locals, result, answers, seen>>

Finished == pc = "idle" /\ calls = MaxCalls /\ UNCHANGED vars

Step ==
  \/ ValidateRequest \/ BindRequest \/ BindVerdict \/ ConsultEngine \/ ReplacedBridge
  \/ Synthesize \/ Report \/ Respond \/ FailClosed

Next == Call \/ Step \/ MutatePayload \/ Finished

Spec == Init /\ [][Next]_vars

\* Python runs the call to its end; nothing makes a caller call.
FairSpec == Spec /\ WF_vars(Step)
=============================================================================
