--------------------------- MODULE OrchestrateProofs ---------------------------
(***************************************************************************)
(* For every set of components, order of bridges, requests and answers, and *)
(* whoever changes the payload meanwhile: v3 orchestration keeps its types, *)
(* implements the decision gate, gives out receipts that vouch for their   *)
(* hash and what it covers, and left alone answers exactly what request    *)
(* and components call for.                                                *)
(***************************************************************************)
EXTENDS V3Properties, V32Proofs

-----------------------------------------------------------------------------
(* The inductive invariant *)

\* Verdicts follow the bridges; how far the call is says how many there are.
Progress ==
  /\ \E S : verdicts \in Seq(S)
  /\ Len(verdicts) <= Len(BridgeOrder)
  /\ pc \in {"validate", "bind"} => verdicts = <<>>
  /\ pc \in {"bridges", "engine"} => Len(verdicts) < Len(BridgeOrder)
  /\ pc \in {"synthesis", "report", "respond"} => Len(verdicts) = Len(BridgeOrder)

\* A verdict says what its bridge met, and bridges to come have met nothing.
Faithful ==
  /\ \A i \in 1..Len(verdicts) : verdicts[i].decision = Plain(DecisionOf(answers[BridgeOrder[i]]))
  /\ pc \in {"validate", "bind", "bridges", "engine"} =>
       \A i \in DOMAIN BridgeOrder : i > Len(verdicts) => answers[BridgeOrder[i]] = "unasked"

\* An error is set exactly when the call fails, and a receipt exists only of a
\* call that does not.
Outcomes ==
  /\ pc \in {"validate", "bind", "bridges", "engine", "synthesis", "report", "respond"} => error = "none"
  /\ pc \in {"validate", "bind", "bridges", "engine", "synthesis", "failing"} => receipt = None
  /\ pc \in {"report", "respond"} =>
       receipt.final_outcome = Classify(DecisionsOf(verdicts))[1]
  /\ result.kind = "response" => result.outcome \in {"ALLOW", "ESCALATE", "DENY"}

CallInv == TypeOK /\ Progress /\ Faithful /\ Outcomes

-----------------------------------------------------------------------------
(* Lemmas about the operators *)

\* The bridges are the components: there is at least one, and each index names one.
LEMMA BridgesAreComponents ==
  /\ BridgeOrder \in Seq(Supported) /\ Len(BridgeOrder) \in Nat /\ Len(BridgeOrder) > 0
  /\ DOMAIN BridgeOrder = 1..Len(BridgeOrder)
  /\ \A i \in 1..Len(BridgeOrder) : BridgeOrder[i] \in Supported
PROOF
  <1>1. BridgeOrder \in Seq(Supported)
    BY OrderAssumption
  <1>2. SupportedComponents \in Seq(STRING) /\ Len(SupportedComponents) # 0
    BY SupportedAssumption
  <1>3. SupportedComponents[1] \in Supported
    BY <1>2 DEF Supported
  <1>4. \E i \in DOMAIN BridgeOrder : BridgeOrder[i] = SupportedComponents[1]
    BY <1>3, OrderAssumption
  <1> QED
    BY <1>1, <1>4

\* Appending to a sequence.
LEMMA Appended ==
  ASSUME NEW s, \E S : s \in Seq(S), NEW v
  PROVE  /\ \E S : Append(s, v) \in Seq(S)
         /\ Len(Append(s, v)) = Len(s) + 1 /\ Len(s) \in Nat
         /\ \A i \in 1..Len(s) : Append(s, v)[i] = s[i]
         /\ Append(s, v)[Len(s) + 1] = v
PROOF
  <1>1. PICK S : s \in Seq(S)
    OBVIOUS
  <1>2. s \in Seq(S \cup {v})
    BY <1>1
  <1>3. Append(s, v) \in Seq(S \cup {v})
    BY <1>2
  <1> QED
    BY <1>2, <1>3

\* Positions in a list of n verdicts and m bridges to which one verdict is added.
LEMMA Positions ==
  ASSUME NEW n \in Nat, NEW m \in Nat, n + 1 \in 1..m
  PROVE  /\ n < m /\ n + 1 <= m /\ n <= m /\ (n + 1 # m => n + 1 < m)
         /\ \A i \in 1..n : i # n + 1 /\ i \in 1..m
         /\ \A i \in 1..(n + 1) : i # n + 1 => i \in 1..n
         /\ \A i \in 1..m : i > n + 1 => i # n + 1 /\ i > n
PROOF
  OBVIOUS

\* The counter of calls starts inside its bounds and leaves them never.
LEMMA Bounds ==
  ASSUME NEW m \in Nat
  PROVE  0 \in 0..m /\ \A n \in 0..m : n < m => n + 1 \in 0..m
PROOF
  OBVIOUS

\* Nothing at all.
LEMMA NoVerdicts ==
  ASSUME NEW list, list = <<>>
  PROVE  /\ list \in Seq({}) /\ Len(list) = 0 /\ 1..Len(list) = {}
         /\ \A m \in Nat : m > 0 => Len(list) <= m /\ Len(list) < m
PROOF
  OBVIOUS

\* An outcome in favour says that nobody dissents: the decisions of a bridge are
\* told apart by what it met.
LEMMA FavourNeedsConsent ==
  ASSUME NEW choice \in {"ALLOW", "HUMAN_REVIEW_REQUIRED"}, Len(verdicts) \in Nat,
         Progress, Faithful,
         Classify(DecisionsOf(verdicts))[1] = choice
  PROVE  /\ \A i \in 1..Len(verdicts) :
              answers[BridgeOrder[i]] \in {"ALLOW", IF choice = "ALLOW" THEN "ALLOW" ELSE "ESCALATE"}
         /\ choice # "ALLOW" =>
              \E i \in 1..Len(verdicts) : answers[BridgeOrder[i]] = "ESCALATE"
PROOF
  <1>1. DOMAIN verdicts = 1..Len(verdicts)
    BY DEF Progress
  <1>2. \A i \in 1..Len(verdicts) : verdicts[i].decision = Plain(DecisionOf(answers[BridgeOrder[i]]))
    BY DEF Faithful
  <1>3. \A i \in 1..Len(verdicts) : Plain(DecisionOf(answers[BridgeOrder[i]])) \in DecisionsOf(verdicts)
    BY <1>1, <1>2 DEF DecisionsOf
  <1>4. /\ Plain("DENY") \notin DecisionsOf(verdicts) /\ Plain("ERROR") \notin DecisionsOf(verdicts)
        /\ choice = "ALLOW" => Plain("ESCALATE") \notin DecisionsOf(verdicts)
        /\ choice # "ALLOW" => Plain("ESCALATE") \in DecisionsOf(verdicts)
    BY DEF Classify
  <1>5. \A a : DecisionOf(a) \in {"ALLOW", "ESCALATE", "DENY", "ERROR"}
    BY DEF DecisionOf
  <1>6. \A a : (DecisionOf(a) = "ALLOW" => a = "ALLOW") /\ (DecisionOf(a) = "ESCALATE" => a = "ESCALATE")
    BY DEF DecisionOf
  <1>7. \A i \in 1..Len(verdicts) :
          DecisionOf(answers[BridgeOrder[i]]) \notin {"DENY", "ERROR"}
            /\ (choice = "ALLOW" => DecisionOf(answers[BridgeOrder[i]]) # "ESCALATE")
    BY <1>3, <1>4
  <1>8. choice # "ALLOW" => \E i \in 1..Len(verdicts) : answers[BridgeOrder[i]] = "ESCALATE"
    <2> SUFFICES ASSUME choice # "ALLOW" PROVE \E i \in 1..Len(verdicts) : answers[BridgeOrder[i]] = "ESCALATE"
      OBVIOUS
    <2>1. PICK i \in 1..Len(verdicts) : verdicts[i].decision = Plain("ESCALATE")
      BY <1>1, <1>4 DEF DecisionsOf
    <2>2. \A a : Plain(a).name = a
      BY DEF Plain
    <2>3. DecisionOf(answers[BridgeOrder[i]]) = "ESCALATE"
      BY <2>1, <2>2, <1>2
    <2> QED
      BY <2>3, <1>6
  <1>9. \A i \in 1..Len(verdicts) :
          answers[BridgeOrder[i]] \in {"ALLOW", IF choice = "ALLOW" THEN "ALLOW" ELSE "ESCALATE"}
    <2> TAKE i \in 1..Len(verdicts)
    <2> DEFINE a == answers[BridgeOrder[i]]
    <2>1. /\ DecisionOf(a) \notin {"DENY", "ERROR"}
          /\ choice = "ALLOW" => DecisionOf(a) # "ESCALATE"
      BY <1>7
    <2>2. /\ DecisionOf(a) \in {"ALLOW", "ESCALATE", "DENY", "ERROR"}
          /\ (DecisionOf(a) = "ALLOW" => a = "ALLOW") /\ (DecisionOf(a) = "ESCALATE" => a = "ESCALATE")
      BY <1>5, <1>6
    <2> HIDE DEF a
    <2>3. a = "ALLOW" \/ (choice # "ALLOW" /\ a = "ESCALATE")
      BY <2>1, <2>2
    <2> QED
      BY <2>3 DEF a
  <1> QED
    BY <1>8, <1>9

\* The ways in which a context hash is not to be had.
LEMMA ContextFailures ==
  \A h, p : ContextFailure(h, p) \in {"none", "TypeError", "ValueError", "other"}
PROOF
  <1> TAKE h, p
  <1>1. CopyFailure(p) \in {"none", "TypeError", "other"}
    BY DEF CopyFailure
  <1>2. HashFailure(h, p) \in {"none", "TypeError", "ValueError", "other"}
    BY <1>1 DEF HashFailure
  <1> QED
    BY <1>2 DEF ContextFailure

\* A built receipt carries the outcome of its verdicts.
LEMMA BuiltOutcome ==
  ASSUME NEW id, NEW hash, NEW list
  PROVE  BuiltReceipt(id, hash, list).final_outcome = Classify(DecisionsOf(list))[1]
PROOF
  BY DEF BuiltReceipt

-----------------------------------------------------------------------------
(* Every action keeps the invariant *)

\* The frozen fields and the payload a behaviour starts with are some of those a
\* caller may pass.
LEMMA InitCallInv == Init => CallInv
PROOF
  <1> SUFFICES ASSUME Init PROVE CallInv
    OBVIOUS
  <1>1. header \in Headers /\ payload \in Payloads
    BY RequestsAssumption DEF Init
  <1>2. verdicts = <<>>
    BY DEF Init
  <1>3. /\ verdicts \in Seq({}) /\ Len(verdicts) = 0 /\ 1..Len(verdicts) = {}
        /\ Len(verdicts) <= Len(BridgeOrder)
    BY <1>2, NoVerdicts, BridgesAreComponents
  <1>4. calls \in 0..MaxCalls
    <2>1. calls = 0
      BY DEF Init
    <2>2. MaxCalls \in Nat
      BY OrderAssumption
    <2>3. 0 \in 0..MaxCalls
      BY <2>2, Bounds
    <2> QED
      BY <2>1, <2>3
  <1>5. TypeOK
    <2>1. answers \in [Supported -> Answers \cup {"unasked", "no input"}]
      BY DEF Init, NoAnswers
    <2>2. result.kind = "none"
      BY DEF Init, NoResult
    <2> QED
      BY <1>1, <1>3, <1>4, <2>1, <2>2, Zenon DEF TypeOK, Init
  <1>6. pc = "idle" /\ result.kind = "none"
    BY DEF Init, NoResult
  <1>7. Progress /\ Faithful /\ Outcomes
    BY <1>3, <1>6, Zenon DEF Progress, Faithful, Outcomes
  <1> QED
    BY <1>5, <1>7 DEF CallInv

\* A call begins with no verdicts and nobody asked.
LEMMA CallKeeps == CallInv /\ Call => CallInv'
PROOF
  <1> SUFFICES ASSUME CallInv, Call PROVE CallInv'
    OBVIOUS
  <1>1. verdicts' = <<>>
    BY DEF Call
  <1>2. /\ verdicts' \in Seq({}) /\ Len(verdicts') = 0 /\ 1..Len(verdicts') = {}
        /\ Len(verdicts') <= Len(BridgeOrder) /\ Len(verdicts') < Len(BridgeOrder)
    BY <1>1, NoVerdicts, BridgesAreComponents
  <1>3. calls' \in 0..MaxCalls
    <2>1. calls \in 0..MaxCalls /\ calls < MaxCalls /\ calls' = calls + 1
      BY DEF Call, CallInv, TypeOK
    <2>2. MaxCalls \in Nat
      BY OrderAssumption
    <2> QED
      BY <2>1, <2>2, Bounds
  <1>4. /\ pc' = "validate" /\ error' = "none" /\ receipt' = None /\ result'.kind = "none"
        /\ answers' = NoAnswers
    BY DEF Call, NoResult
  <1>5. \A i \in 1..Len(BridgeOrder) : answers'[BridgeOrder[i]] = "unasked"
    BY <1>4, BridgesAreComponents DEF NoAnswers
  <1>6. TypeOK'
    <2>1. answers' \in [Supported -> Answers \cup {"unasked", "no input"}]
      BY <1>4 DEF NoAnswers
    <2> QED
      BY <1>2, <1>3, <1>4, <2>1, Zenon DEF TypeOK, Call
  <1>7. Progress'
    BY <1>1, <1>2, <1>4, Zenon DEF Progress
  <1>8. Faithful'
    BY <1>2, <1>4, <1>5, BridgesAreComponents, Zenon DEF Faithful
  <1>9. Outcomes'
    BY <1>4, Zenon DEF Outcomes
  <1> QED
    BY <1>6, <1>7, <1>8, <1>9 DEF CallInv

\* Validation ends in binding or in a failure.
LEMMA ValidateRequestKeeps == CallInv /\ ValidateRequest => CallInv'
PROOF
  <1> SUFFICES ASSUME CallInv, ValidateRequest PROVE CallInv'
    OBVIOUS
  <1>1. \/ pc' = "bind" /\ error' = error
        \/ pc' = "failing" /\ error' \in {"INVALID_CONTRACT_VERSION", "INVALID_REQUEST"}
    BY DEF ValidateRequest, Fail
  <1> QED
    BY <1>1 DEF CallInv, TypeOK, Progress, Faithful, Outcomes, ValidateRequest, request, observed

\* Binding ends in the first bridge or in a failure.
LEMMA BindRequestEnds ==
  ASSUME BindRequest
  PROVE  \/ pc' = "bridges" /\ error' = error
         \/ pc' = "failing" /\ error' \in {"HASHING_FAILED", "INVALID_REQUEST", "INTERNAL_ERROR"}
PROOF
  <1> DEFINE failure == ContextFailure(header, payload)
  <1>1. failure \in {"none", "TypeError", "ValueError", "other"}
    BY ContextFailures
  <1>2. CASE failure = "none"
    BY <1>2 DEF BindRequest
  <1>3. CASE failure = "TypeError"
    BY <1>3 DEF BindRequest, Fail
  <1>4. CASE failure = "ValueError"
    BY <1>4 DEF BindRequest, Fail
  <1>5. CASE failure = "other"
    BY <1>5 DEF BindRequest, Fail
  <1> QED
    BY <1>1, <1>2, <1>3, <1>4, <1>5

\* It keeps the invariant.
LEMMA BindRequestKeeps == CallInv /\ BindRequest => CallInv'
PROOF
  <1> SUFFICES ASSUME CallInv, BindRequest PROVE CallInv'
    OBVIOUS
  <1>1. \/ pc' = "bridges" /\ error' = error
        \/ pc' = "failing" /\ error' \in {"HASHING_FAILED", "INVALID_REQUEST", "INTERNAL_ERROR"}
    BY BindRequestEnds
  <1>2. Len(verdicts) = 0
    BY DEF CallInv, Progress, BindRequest
  <1> QED
    BY <1>1, <1>2, BridgesAreComponents
    DEF CallInv, TypeOK, Progress, Faithful, Outcomes, BindRequest, request, observed

\* A bridge that binds its verdict goes on to its engine or fails.
LEMMA BindVerdictKeeps == CallInv /\ BindVerdict => CallInv'
PROOF
  <1> SUFFICES ASSUME CallInv, BindVerdict PROVE CallInv'
    OBVIOUS
  <1>1. \/ pc' = "engine" /\ error' = error
        \/ pc' = "failing" /\ error' \in {"HASHING_FAILED", "COMPONENT_ERROR"}
    BY DEF BindVerdict, Fail, LoopFailure
  <1> QED
    BY <1>1 DEF CallInv, TypeOK, Progress, Faithful, Outcomes, BindVerdict, request, observed

\* The bridge the loop is at belongs to a component nobody has asked yet, and to
\* no earlier verdict.
LEMMA NextComponent ==
  ASSUME CallInv, pc \in {"bridges", "engine"}
  PROVE  /\ Component \in Supported /\ answers[Component] = "unasked"
         /\ Len(verdicts) \in Nat /\ Len(verdicts) + 1 \in 1..Len(BridgeOrder)
         /\ \A i \in 1..Len(BridgeOrder) : BridgeOrder[i] = Component => i = Len(verdicts) + 1
PROOF
  <1>1. Len(verdicts) \in Nat
    BY DEF CallInv, Progress
  <1>2. Len(verdicts) + 1 \in 1..Len(BridgeOrder)
    BY <1>1, BridgesAreComponents DEF CallInv, Progress
  <1> QED
    BY <1>1, <1>2, BridgesAreComponents, OrderAssumption DEF CallInv, Faithful, Component

\* What both kinds of bridge do: one component meets something, and either a
\* verdict that says so is collected or the call fails.
BridgeStep(met, verdict) ==
  /\ verdict.decision = Plain(DecisionOf(met))
  /\ answers' = [answers EXCEPT ![Component] = met]
  /\ \/ Collect(verdict)
     \/ /\ Fail("HASHING_FAILED") \/ Fail("COMPONENT_ERROR")
        /\ UNCHANGED verdicts

\* It keeps the invariant.
LEMMA BridgeStepKeeps ==
  ASSUME CallInv, pc \in {"bridges", "engine"}, NEW met \in Answers \cup {"no input"},
         NEW verdict, BridgeStep(met, verdict),
         payload' \in Payloads, seen' \subseteq Payloads,
         UNCHANGED <<calls, header, receipt, sink, result, disturbed>>
  PROVE  CallInv'
PROOF
  <1> DEFINE n == Len(verdicts)
  <1> USE DEF BridgeStep
  <1>1. n \in Nat /\ n + 1 \in 1..Len(BridgeOrder) /\ Component \in Supported
    BY NextComponent
  <1>2. \E S : verdicts \in Seq(S)
    BY DEF CallInv, Progress
  <1>3. answers' \in [Supported -> Answers \cup {"unasked", "no input"}]
    BY DEF CallInv, TypeOK
  <1>4. Component = BridgeOrder[n + 1] /\ answers'[BridgeOrder[n + 1]] = met
    BY <1>1 DEF CallInv, TypeOK, Component
  <1>5. \A i \in 1..Len(BridgeOrder) :
          i # n + 1 => answers'[BridgeOrder[i]] = answers[BridgeOrder[i]]
    BY NextComponent, BridgesAreComponents DEF CallInv, TypeOK
  <1>6. /\ n < Len(BridgeOrder) /\ n + 1 <= Len(BridgeOrder) /\ n <= Len(BridgeOrder)
        /\ n + 1 # Len(BridgeOrder) => n + 1 < Len(BridgeOrder)
        /\ \A i \in 1..n : i # n + 1 /\ i \in 1..Len(BridgeOrder)
        /\ \A i \in 1..(n + 1) : i # n + 1 => i \in 1..n
        /\ \A i \in 1..Len(BridgeOrder) : i > n + 1 => i # n + 1 /\ i > n
    BY <1>1, BridgesAreComponents, Positions, Zenon
  <1>7. CASE Collect(verdict)
    <2>1. /\ \E S : verdicts' \in Seq(S)
          /\ Len(verdicts') = n + 1
          /\ \A i \in 1..n : verdicts'[i] = verdicts[i]
          /\ verdicts'[n + 1] = verdict
      <3>1. verdicts' = Append(verdicts, verdict)
        BY <1>7, Zenon DEF Collect
      <3>2. /\ \E S : Append(verdicts, verdict) \in Seq(S)
            /\ Len(Append(verdicts, verdict)) = n + 1
            /\ \A i \in 1..n : Append(verdicts, verdict)[i] = verdicts[i]
            /\ Append(verdicts, verdict)[n + 1] = verdict
        BY <1>2, Appended, Zenon
      <3> QED
        BY <3>1, <3>2, Zenon
    <2>2. /\ pc' = IF n + 1 = Len(BridgeOrder) THEN "synthesis" ELSE "bridges"
          /\ error' = error
      BY <1>7 DEF Collect
    <2>3. pc' # "failing" /\ Len(verdicts') <= Len(BridgeOrder)
      BY <1>6, <2>1, <2>2, Zenon
    <2>4. TypeOK'
      BY <1>3, <2>2, <2>3, Zenon DEF CallInv, TypeOK
    <2>5. Progress'
      BY <1>6, <2>1, <2>2, Zenon DEF Progress
    <2>6. \A i \in 1..Len(verdicts') :
            verdicts'[i].decision = Plain(DecisionOf(answers'[BridgeOrder[i]]))
      <3> TAKE i \in 1..Len(verdicts')
      <3>1. CASE i = n + 1
        BY <3>1, <2>1, <1>4
      <3>2. CASE i # n + 1
        <4>1. i \in 1..n /\ i \in 1..Len(BridgeOrder)
          BY <3>2, <2>1, <1>6, Zenon
        <4> QED
          BY <4>1, <3>2, <2>1, <1>5 DEF CallInv, Faithful
      <3> QED
        BY <3>1, <3>2
    <2>7. \A i \in DOMAIN BridgeOrder : i > Len(verdicts') => answers'[BridgeOrder[i]] = "unasked"
      <3> SUFFICES ASSUME NEW i \in 1..Len(BridgeOrder), i > n + 1
                   PROVE  answers'[BridgeOrder[i]] = "unasked"
        BY <2>1, BridgesAreComponents
      <3>1. i # n + 1 /\ i > n
        BY <1>6, Zenon
      <3> QED
        BY <3>1, <1>5, BridgesAreComponents DEF CallInv, Faithful
    <2>8. Faithful'
      BY <2>6, <2>7 DEF Faithful
    <2>9. Outcomes'
      BY <2>2 DEF CallInv, Outcomes
    <2> QED
      BY <2>4, <2>5, <2>8, <2>9 DEF CallInv
  <1>8. CASE /\ Fail("HASHING_FAILED") \/ Fail("COMPONENT_ERROR")
             /\ UNCHANGED verdicts
    <2>1. pc' = "failing" /\ error' \in {"HASHING_FAILED", "COMPONENT_ERROR"} /\ verdicts' = verdicts
      BY <1>8 DEF Fail
    <2>2. receipt' = None
      BY DEF CallInv, Outcomes
    <2>3. TypeOK'
      BY <1>3, <2>1, <2>2 DEF CallInv, TypeOK
    <2>4. Progress' /\ Outcomes'
      BY <2>1, <2>2 DEF CallInv, Progress, Outcomes
    <2>5. \A i \in 1..Len(verdicts) :
            verdicts[i].decision = Plain(DecisionOf(answers'[BridgeOrder[i]]))
      <3> TAKE i \in 1..Len(verdicts)
      <3>1. i # n + 1 /\ i \in 1..Len(BridgeOrder)
        BY <1>6, Zenon
      <3> QED
        BY <3>1, <1>5 DEF CallInv, Faithful
    <2>6. Faithful'
      BY <2>1, <2>5 DEF Faithful
    <2> QED
      BY <2>3, <2>4, <2>6 DEF CallInv
  <1> QED
    BY <1>7, <1>8

\* The kinds of error a bridge can end a call with.
LEMMA LoopFailures ==
  \A class : LoopFailure(class) \in {"HASHING_FAILED", "COMPONENT_ERROR"}
PROOF
  BY DEF LoopFailure

\* A bridge that asks its engine.
LEMMA ConsultEngineMeets ==
  ASSUME CallInv, ConsultEngine
  PROVE  /\ \E verdict : \E met \in Answers \cup {"no input"} : BridgeStep(met, verdict)
         /\ payload' \in Payloads /\ seen' \subseteq Payloads
PROOF
  <1>1. PICK answer \in Answers \ {"trace", "foreign"} :
          LET met     == IF Component \in payload.inputs THEN answer ELSE "no input"
              failure == AnswerFailure(met, bound[1])
          IN  /\ answers' = [answers EXCEPT ![Component] = met]
              /\ IF met = "no input"
                 THEN UNCHANGED <<seen, payload>>
                 ELSE /\ seen' = seen \cup {payload}
                      /\ payload' \in {payload} \cup
                           {p \in Payloads : "engine" \in Mutators
                                              /\ p = [payload EXCEPT !.content = p.content]}
              /\ IF failure = "none"
                 THEN Collect(Verdict(Component, bound[1], bound[2], DecisionOf(met)))
                 ELSE Fail(LoopFailure(failure)) /\ UNCHANGED verdicts
    BY Zenon DEF ConsultEngine
  <1> DEFINE met     == IF Component \in payload.inputs THEN answer ELSE "no input"
             failure == AnswerFailure(met, bound[1])
             verdict == Verdict(Component, bound[1], bound[2], DecisionOf(met))
  <1>2. met \in Answers \cup {"no input"}
    OBVIOUS
  <1>3. verdict.decision = Plain(DecisionOf(met))
    BY DEF Verdict
  <1>4. payload \in Payloads /\ seen \subseteq Payloads
    BY DEF CallInv, TypeOK
  <1>5. payload' \in Payloads /\ seen' \subseteq Payloads
    BY <1>1, <1>4
  <1>6. \/ Collect(verdict)
        \/ /\ Fail("HASHING_FAILED") \/ Fail("COMPONENT_ERROR")
           /\ UNCHANGED verdicts
    <2>1. CASE failure = "none"
      BY <2>1, <1>1
    <2>2. CASE failure # "none"
      <3>1. Fail(LoopFailure(failure)) /\ UNCHANGED verdicts
        BY <2>2, <1>1
      <3>2. LoopFailure(failure) \in {"HASHING_FAILED", "COMPONENT_ERROR"}
        BY LoopFailures
      <3>3. CASE LoopFailure(failure) = "HASHING_FAILED"
        BY <3>1, <3>3, Zenon
      <3>4. CASE LoopFailure(failure) = "COMPONENT_ERROR"
        BY <3>1, <3>4, Zenon
      <3> QED
        BY <3>2, <3>3, <3>4
    <2> QED
      BY <2>1, <2>2
  <1>7. answers' = [answers EXCEPT ![Component] = met]
    BY <1>1
  <1> HIDE DEF met, failure, verdict
  <1>8. BridgeStep(met, verdict)
    BY <1>3, <1>6, <1>7, Zenon DEF BridgeStep
  <1> QED
    BY <1>2, <1>5, <1>8, Zenon

\* It keeps the invariant.
LEMMA ConsultEngineKeeps == CallInv /\ ConsultEngine => CallInv'
PROOF
  <1> SUFFICES ASSUME CallInv, ConsultEngine PROVE CallInv'
    OBVIOUS
  <1>1. PICK verdict : \E met \in Answers \cup {"no input"} : BridgeStep(met, verdict)
    BY ConsultEngineMeets, Zenon
  <1>2. PICK met \in Answers \cup {"no input"} : BridgeStep(met, verdict)
    BY <1>1, Zenon
  <1>3. payload' \in Payloads /\ seen' \subseteq Payloads
    BY ConsultEngineMeets, Zenon
  <1>4. /\ pc \in {"bridges", "engine"}
        /\ UNCHANGED <<calls, header, receipt, sink, result, disturbed>>
    BY DEF ConsultEngine
  <1> QED
    BY <1>2, <1>3, <1>4, BridgeStepKeeps, Zenon

\* A replaced bridge: a bare trace counts as an error.
LEMMA ReplacedBridgeMeets ==
  ASSUME CallInv, ReplacedBridge
  PROVE  \E verdict : \E met \in Answers \cup {"no input"} : BridgeStep(met, verdict)
PROOF
  <1>1. PICK met \in Answers \cap {"trace", "foreign"} :
          /\ answers' = [answers EXCEPT ![Component] = met]
          /\ IF met = "trace" /\ Encodable(request_id)
             THEN Collect(Verdict(Component, request_id, context_hash, "ERROR"))
             ELSE Fail("COMPONENT_ERROR") /\ UNCHANGED verdicts
    BY Zenon DEF ReplacedBridge
  <1> DEFINE verdict == Verdict(Component, request_id, context_hash, "ERROR")
  <1>2. DecisionOf(met) = "ERROR"
    BY DEF DecisionOf
  <1>3. verdict.decision = Plain(DecisionOf(met))
    BY <1>2 DEF Verdict
  <1>4. \/ Collect(verdict)
        \/ Fail("COMPONENT_ERROR") /\ UNCHANGED verdicts
    BY <1>1
  <1>5. met \in Answers \cup {"no input"}
    OBVIOUS
  <1> HIDE DEF verdict
  <1>6. BridgeStep(met, verdict)
    BY <1>1, <1>3, <1>4, Zenon DEF BridgeStep
  <1> QED
    BY <1>5, <1>6, Zenon

\* It keeps the invariant.
LEMMA ReplacedBridgeKeeps == CallInv /\ ReplacedBridge => CallInv'
PROOF
  <1> SUFFICES ASSUME CallInv, ReplacedBridge PROVE CallInv'
    OBVIOUS
  <1>1. PICK verdict : \E met \in Answers \cup {"no input"} : BridgeStep(met, verdict)
    BY ReplacedBridgeMeets, Zenon
  <1>2. PICK met \in Answers \cup {"no input"} : BridgeStep(met, verdict)
    BY <1>1, Zenon
  <1>3. /\ pc \in {"bridges", "engine"}
        /\ UNCHANGED <<calls, header, payload, receipt, sink, result, seen, disturbed>>
    BY DEF ReplacedBridge, request
  <1>4. payload' \in Payloads /\ seen' \subseteq Payloads
        /\ UNCHANGED <<calls, header, receipt, sink, result, disturbed>>
    BY <1>3 DEF CallInv, TypeOK
  <1> QED
    BY <1>2, <1>3, <1>4, BridgeStepKeeps, Zenon

\* The receipt that is built carries the outcome of the verdicts.
LEMMA SynthesizeKeeps == CallInv /\ Synthesize => CallInv'
PROOF
  <1> SUFFICES ASSUME CallInv, Synthesize PROVE CallInv'
    OBVIOUS
  <1>1. \/ pc' = "report" /\ error' = error /\ receipt'.final_outcome = Classify(DecisionsOf(verdicts))[1]
        \/ pc' = "failing" /\ error' = "INTERNAL_ERROR" /\ receipt' = receipt
    BY BuiltOutcome, Zenon DEF Synthesize, Fail
  <1>2. pc = "synthesis" /\ error = "none" /\ receipt = None
    BY DEF Synthesize, CallInv, Outcomes
  <1>3. UNCHANGED <<calls, header, payload, verdicts, sink, result, answers, seen, disturbed>>
    BY DEF Synthesize, request, observed
  <1>4. TypeOK'
    BY <1>1, <1>2, <1>3, Zenon DEF CallInv, TypeOK
  <1>5. Progress'
    BY <1>1, <1>2, <1>3, Zenon DEF CallInv, Progress
  <1>6. Faithful'
    BY <1>1, <1>2, <1>3, Zenon DEF CallInv, Faithful
  <1>7. Outcomes'
    BY <1>1, <1>2, <1>3, Zenon DEF CallInv, Outcomes
  <1> QED
    BY <1>4, <1>5, <1>6, <1>7 DEF CallInv

\* The sink does not touch the receipt.
LEMMA ReportKeeps == CallInv /\ Report => CallInv'
PROOF
  <1> SUFFICES ASSUME CallInv, Report PROVE CallInv'
    OBVIOUS
  <1>1. sink' \in {"OK", "ERROR"}
    BY Zenon DEF Report
  <1>2. pc = "report" /\ pc' = "respond"
        /\ UNCHANGED <<calls, header, payload, verdicts, error, receipt, result, answers, seen, disturbed>>
    BY DEF Report, request, observed
  <1>3. TypeOK'
    BY <1>1, <1>2, Zenon DEF CallInv, TypeOK
  <1>4. Progress'
    BY <1>1, <1>2, Zenon DEF CallInv, Progress
  <1>5. Faithful'
    BY <1>1, <1>2, Zenon DEF CallInv, Faithful
  <1>6. Outcomes'
    BY <1>1, <1>2, Zenon DEF CallInv, Outcomes
  <1> QED
    BY <1>3, <1>4, <1>5, <1>6 DEF CallInv

\* Both ways to answer.
LEMMA RespondKeeps == CallInv /\ Respond => CallInv'
PROOF
  <1> SUFFICES ASSUME CallInv, Respond PROVE CallInv'
    OBVIOUS
  <1>1. result'.kind = "response" /\ result'.outcome = OutcomeOf(receipt)
    BY DEF Respond, Response
  <1>2. OutcomeOf(receipt) \in {"ALLOW", "ESCALATE", "DENY"}
    BY DEF OutcomeOf
  <1>3. pc = "respond" /\ pc' = "idle"
        /\ UNCHANGED <<calls, header, payload, verdicts, error, receipt, sink, answers, seen, disturbed>>
    BY DEF Respond, request, locals, observed
  <1>4. TypeOK'
    BY <1>1, <1>2, <1>3, Zenon DEF CallInv, TypeOK
  <1>5. Progress'
    BY <1>1, <1>2, <1>3, Zenon DEF CallInv, Progress
  <1>6. Faithful'
    BY <1>1, <1>2, <1>3, Zenon DEF CallInv, Faithful
  <1>7. Outcomes'
    BY <1>1, <1>2, <1>3, Zenon DEF CallInv, Outcomes
  <1> QED
    BY <1>4, <1>5, <1>6, <1>7 DEF CallInv

\* The same of a failure.
LEMMA FailClosedKeeps == CallInv /\ FailClosed => CallInv'
PROOF
  <1> SUFFICES ASSUME CallInv, FailClosed PROVE CallInv'
    OBVIOUS
  <1>1. \/ result'.kind = "raised"
        \/ result'.kind = "response" /\ result'.outcome = "DENY"
    BY DEF FailClosed, Raised, NoResult, Response
  <1>2. pc = "failing" /\ pc' = "idle"
        /\ UNCHANGED <<calls, header, payload, verdicts, error, receipt, sink, answers, seen, disturbed>>
    BY DEF FailClosed, request, locals, observed
  <1>3. TypeOK'
    BY <1>1, <1>2, Zenon DEF CallInv, TypeOK
  <1>4. Progress'
    BY <1>1, <1>2, Zenon DEF CallInv, Progress
  <1>5. Faithful'
    BY <1>1, <1>2, Zenon DEF CallInv, Faithful
  <1>6. Outcomes'
    BY <1>1, <1>2, Zenon DEF CallInv, Outcomes
  <1> QED
    BY <1>3, <1>4, <1>5, <1>6 DEF CallInv

\* What the caller does to its payload is nothing a call relies on.
LEMMA MutatePayloadKeeps == CallInv /\ MutatePayload => CallInv'
PROOF
  <1> SUFFICES ASSUME CallInv, MutatePayload PROVE CallInv'
    OBVIOUS
  <1>1. payload' \in Payloads /\ disturbed' = TRUE
        /\ UNCHANGED <<pc, calls, header, verdicts, error, receipt, sink, result, answers, seen>>
    BY DEF MutatePayload, locals
  <1>2. TypeOK'
    BY <1>1, Zenon DEF CallInv, TypeOK
  <1>3. Progress'
    BY <1>1, Zenon DEF CallInv, Progress
  <1>4. Faithful'
    BY <1>1, Zenon DEF CallInv, Faithful
  <1>5. Outcomes'
    BY <1>1, Zenon DEF CallInv, Outcomes
  <1> QED
    BY <1>2, <1>3, <1>4, <1>5 DEF CallInv

\* Every step keeps the invariant.
LEMMA StepKeeps == CallInv /\ [Next]_vars => CallInv'
PROOF
  <1> SUFFICES ASSUME CallInv, [Next]_vars PROVE CallInv'
    OBVIOUS
  <1>1. UNCHANGED vars => CallInv'
    <2> SUFFICES ASSUME UNCHANGED vars PROVE CallInv'
      OBVIOUS
    <2>1. UNCHANGED <<pc, calls, header, payload, verdicts, error, receipt, sink, result, answers,
                      seen, disturbed>>
      BY DEF vars, request, locals, observed
    <2>2. TypeOK'
      BY <2>1, Zenon DEF CallInv, TypeOK
    <2>3. Progress'
      BY <2>1, Zenon DEF CallInv, Progress
    <2>4. Faithful'
      BY <2>1, Zenon DEF CallInv, Faithful
    <2>5. Outcomes'
      BY <2>1, Zenon DEF CallInv, Outcomes
    <2> QED
      BY <2>2, <2>3, <2>4, <2>5 DEF CallInv
  <1>2. Finished => UNCHANGED vars
    BY DEF Finished
  <1> QED
    BY <1>1, <1>2, CallKeeps, ValidateRequestKeeps, BindRequestKeeps, BindVerdictKeeps,
       ConsultEngineKeeps, ReplacedBridgeKeeps, SynthesizeKeeps, ReportKeeps, RespondKeeps,
       FailClosedKeeps, MutatePayloadKeeps, Zenon
    DEF Next, Step

\* In every behaviour, with any components, requests and answers, whoever changes
\* the payload: the call keeps its types, at most one verdict per bridge, an error
\* exactly when it fails (v3/orchestrate.py:56-190).
THEOREM OrchestrationTypes == Spec => []TypeOK
PROOF
  <1>1. Spec => []CallInv
    BY InitCallInv, StepKeeps, PTL DEF Spec
  <1>2. CallInv => TypeOK
    BY DEF CallInv
  <1> QED
    BY <1>1, <1>2, PTL

-----------------------------------------------------------------------------
(* The decision gate *)

\* Nobody has voted before the first call.
LEMMA GateInit == Init => Gate!Init
PROOF
  <1> SUFFICES ASSUME Init PROVE Gate!Init
    OBVIOUS
  <1>1. answers = NoAnswers /\ pc = "idle" /\ result.kind = "none"
    BY DEF Init, NoResult
  <1>2. Votes = [id \in Supported |-> "none"]
    BY <1>1 DEF Votes, NoAnswers
  <1>3. Decision = "closed"
    BY <1>1 DEF Decision
  <1> QED
    BY <1>2, <1>3 DEF Gate!Init, Gate!NoVotes

\* A call opens a round; the round before it is closed.
LEMMA CallOpens == CallInv /\ Call => Gate!Open
PROOF
  <1> SUFFICES ASSUME CallInv, Call PROVE Gate!Open
    OBVIOUS
  <1>1. pc = "idle" /\ pc' = "validate" /\ answers' = NoAnswers
    BY DEF Call
  <1>2. result.kind = "response" => result.outcome \in {"ALLOW", "ESCALATE", "DENY"}
    BY DEF CallInv, Outcomes
  <1>3. Decision # "open"
    BY <1>1, <1>2 DEF Decision
  <1>4. Votes' = [id \in Supported |-> "none"]
    BY <1>1 DEF Votes, NoAnswers
  <1>5. Decision' = "open"
    BY <1>1 DEF Decision
  <1> QED
    BY <1>3, <1>4, <1>5 DEF Gate!Open, Gate!NoVotes

\* A bridge casts the vote of its component, which had not voted.
LEMMA VoteIsCast ==
  ASSUME CallInv, pc \in {"bridges", "engine"},
         NEW met \in Answers \cup {"no input"}, NEW verdict, BridgeStep(met, verdict)
  PROVE  Gate!Next
PROOF
  <1>1. Component \in Supported /\ answers[Component] = "unasked"
    BY NextComponent
  <1>2. pc' \in {"bridges", "synthesis", "failing"}
    BY Zenon DEF BridgeStep, Collect, Fail
  <1>3. /\ answers' = [answers EXCEPT ![Component] = met]
        /\ answers \in [Supported -> Answers \cup {"unasked", "no input"}]
    BY DEF BridgeStep, CallInv, TypeOK
  <1>4. met # "unasked"
    BY RequestsAssumption
  <1>5. Votes[Component] = "none"
    BY <1>1 DEF Votes
  <1>6. Votes' = [Votes EXCEPT ![Component] = met]
    BY <1>1, <1>3, <1>4 DEF Votes
  <1>7. Decision = "open" /\ Decision' = "open"
    BY <1>2 DEF Decision
  <1>8. Gate!Vote(Component, met)
    BY <1>5, <1>6, <1>7 DEF Gate!Vote
  <1> QED
    BY <1>1, <1>8 DEF Gate!Next

\* The response of a receipt is denied, or supported by every vote.
LEMMA RespondDecides == CallInv /\ Respond => Gate!Decide
PROOF
  <1> SUFFICES ASSUME CallInv, Respond PROVE Gate!Decide
    OBVIOUS
  <1>1. /\ pc = "respond" /\ pc' = "idle" /\ answers' = answers
        /\ result'.kind = "response" /\ result'.outcome = OutcomeOf(receipt)
    BY DEF Respond, Response, observed
  <1>2. /\ receipt.final_outcome = Classify(DecisionsOf(verdicts))[1]
        /\ Len(verdicts) = Len(BridgeOrder) /\ Len(verdicts) \in Nat
        /\ Progress /\ Faithful
    BY <1>1, BridgesAreComponents DEF CallInv, Outcomes, Progress
  <1>3. Decision = "open" /\ Decision' = OutcomeOf(receipt) /\ Votes' = Votes
    BY <1>1 DEF Decision, Votes
  <1>4. \A id \in Supported : \E i \in 1..Len(verdicts) : BridgeOrder[i] = id
    BY <1>2, OrderAssumption, BridgesAreComponents
  <1>5. \A i \in 1..Len(verdicts) : BridgeOrder[i] \in Supported
    BY <1>2, BridgesAreComponents
  <1>6. \E i \in 1..Len(verdicts) : TRUE
    BY <1>2, BridgesAreComponents
  <1>7. CASE receipt.final_outcome = "ALLOW"
    <2>1. \A i \in 1..Len(verdicts) : answers[BridgeOrder[i]] = "ALLOW"
      BY <1>2, <1>7, FavourNeedsConsent
    <2>2. \A id \in Supported : Votes[id] = "ALLOW"
      BY <2>1, <1>4 DEF Votes
    <2>3. \E id \in Supported : Votes[id] = "ALLOW"
      BY <2>2, <1>5, <1>6
    <2>4. "ALLOW" \in Gate!Favourable(Votes)
      BY <2>2, <2>3 DEF Gate!Favourable
    <2>5. Decision' = "ALLOW"
      BY <1>3, <1>7 DEF OutcomeOf
    <2> QED
      BY <1>3, <2>4, <2>5 DEF Gate!Decide
  <1>8. CASE receipt.final_outcome = "HUMAN_REVIEW_REQUIRED"
    <2>1. /\ \A i \in 1..Len(verdicts) : answers[BridgeOrder[i]] \in {"ALLOW", "ESCALATE"}
          /\ \E i \in 1..Len(verdicts) : answers[BridgeOrder[i]] = "ESCALATE"
      BY <1>2, <1>8, FavourNeedsConsent
    <2>2. \A id \in Supported : Votes[id] \in {"ALLOW", "ESCALATE"}
      BY <2>1, <1>4 DEF Votes
    <2>3. \E id \in Supported : Votes[id] = "ESCALATE"
      BY <2>1, <1>5 DEF Votes
    <2>4. "ESCALATE" \in Gate!Favourable(Votes)
      BY <2>2, <2>3 DEF Gate!Favourable
    <2>5. Decision' = "ESCALATE"
      BY <1>3, <1>8 DEF OutcomeOf
    <2> QED
      BY <1>3, <2>4, <2>5 DEF Gate!Decide
  <1>9. CASE receipt.final_outcome \notin {"ALLOW", "HUMAN_REVIEW_REQUIRED"}
    <2>1. Decision' = "DENY"
      BY <1>3, <1>9 DEF OutcomeOf
    <2> QED
      BY <1>3, <2>1 DEF Gate!Decide
  <1> QED
    BY <1>7, <1>8, <1>9

\* A failure denies, or leaves the round without a decision.
LEMMA FailClosedDecides == CallInv /\ FailClosed => Gate!Decide
PROOF
  <1> SUFFICES ASSUME CallInv, FailClosed PROVE Gate!Decide
    OBVIOUS
  <1>1. pc = "failing" /\ pc' = "idle" /\ answers' = answers
    BY DEF FailClosed, observed
  <1>2. \/ result'.kind = "raised"
        \/ result'.kind = "response" /\ result'.outcome = "DENY"
    BY DEF FailClosed, Raised, NoResult, Response
  <1>3. Decision = "open" /\ Decision' \in {"DENY", "none"} /\ Votes' = Votes
    BY <1>1, <1>2 DEF Decision, Votes
  <1> QED
    BY <1>3 DEF Gate!Decide

\* Inside a call nothing else can be seen from the gate.
LEMMA Unseen ==
  ASSUME pc # "idle", pc' # "idle", answers' = answers
  PROVE  UNCHANGED <<Votes, Decision>>
PROOF
  BY DEF Votes, Decision

\* Every step is a step of the gate or none.
LEMMA GateStep == CallInv /\ [Next]_vars => [Gate!Next]_<<Votes, Decision>>
PROOF
  <1> SUFFICES ASSUME CallInv, [Next]_vars
               PROVE  Gate!Next \/ UNCHANGED <<Votes, Decision>>
    OBVIOUS
  <1>1. CASE Call
    BY <1>1, CallOpens DEF Gate!Next
  <1>2. CASE ConsultEngine
    <2>1. PICK verdict : \E met \in Answers \cup {"no input"} : BridgeStep(met, verdict)
      BY <1>2, ConsultEngineMeets, Zenon
    <2>2. pc \in {"bridges", "engine"}
      BY <1>2 DEF ConsultEngine
    <2> QED
      BY <2>1, <2>2, VoteIsCast, Zenon
  <1>3. CASE ReplacedBridge
    <2>1. PICK verdict : \E met \in Answers \cup {"no input"} : BridgeStep(met, verdict)
      BY <1>3, ReplacedBridgeMeets, Zenon
    <2>2. pc \in {"bridges", "engine"}
      BY <1>3 DEF ReplacedBridge
    <2> QED
      BY <2>1, <2>2, VoteIsCast, Zenon
  <1>4. CASE Respond
    BY <1>4, RespondDecides DEF Gate!Next
  <1>5. CASE FailClosed
    BY <1>5, FailClosedDecides DEF Gate!Next
  <1>6. CASE ValidateRequest
    <2>1. pc = "validate" /\ pc' \in {"bind", "failing"} /\ answers' = answers
      BY <1>6 DEF ValidateRequest, Fail, observed
    <2> QED
      BY <2>1, Unseen
  <1>7. CASE BindRequest
    <2>1. pc = "bind" /\ pc' \in {"bridges", "failing"} /\ answers' = answers
      BY <1>7, BindRequestEnds DEF BindRequest, observed
    <2> QED
      BY <2>1, Unseen
  <1>8. CASE BindVerdict
    <2>1. pc = "bridges" /\ pc' \in {"engine", "failing"} /\ answers' = answers
      BY <1>8, Zenon DEF BindVerdict, Fail, observed
    <2> QED
      BY <2>1, Unseen
  <1>9. CASE Synthesize
    <2>1. pc = "synthesis" /\ pc' \in {"report", "failing"} /\ answers' = answers
      BY <1>9, Zenon DEF Synthesize, Fail, observed
    <2> QED
      BY <2>1, Unseen
  <1>10. CASE Report
    <2>1. pc = "report" /\ pc' = "respond" /\ answers' = answers
      BY <1>10 DEF Report, observed
    <2> QED
      BY <2>1, Unseen
  <1>11. CASE MutatePayload
    <2>1. pc # "idle" /\ pc' = pc /\ answers' = answers
      BY <1>11 DEF MutatePayload
    <2> QED
      BY <2>1, Unseen
  <1>12. CASE Finished \/ UNCHANGED vars
    <2>1. UNCHANGED <<pc, result, answers>>
      BY <1>12 DEF Finished, vars, observed
    <2> QED
      BY <2>1 DEF Votes, Decision
  <1> QED
    BY <1>1, <1>2, <1>3, <1>4, <1>5, <1>6, <1>7, <1>8, <1>9, <1>10, <1>11, <1>12, Zenon
    DEF Next, Step

\* v3 orchestration implements the decision gate, for any components in any order
\* of bridges, any requests and answers, and while engines and the caller change
\* the payload: no component votes twice, and no ALLOW and no ESCALATE is answered
\* that one of them does not support (v3/orchestrate.py:84-132).
THEOREM DecisionGateImplemented == Spec => ImplementsDecisionGate
PROOF
  <1>1. Spec => []CallInv
    BY InitCallInv, StepKeeps, PTL DEF Spec
  <1> QED
    BY <1>1, GateInit, GateStep, PTL DEF Spec, ImplementsDecisionGate, Gate!Spec, Gate!gate

-----------------------------------------------------------------------------
(* What a receipt vouches for *)

\* Every verdict names a component.  Unless the caller interferes, the hash of the
\* call is the one the payload names, if it names one, which no engine can change,
\* and each engine was handed a payload with the hash of some verdict.  The receipt
\* is that of the verdicts.
Traced ==
  /\ \A i \in 1..Len(verdicts) : verdicts[i].component_id \in Texts
  /\ (pc = "engine" /\ ~disturbed) => bound[2] = ContextHash(header, payload)
  /\ (pc \notin {"idle", "failing"} /\ ~disturbed) =>
       \A p \in seen : \E i \in 1..Len(verdicts) :
         verdicts[i].context_hash = ContextHash(header, p)
  /\ ~disturbed => \A p \in seen : p.context = payload.context
  /\ (pc \notin {"idle", "failing", "validate", "bind"} /\ ~disturbed) =>
       (payload.context # Absent => context_hash = payload.context)

Receipted ==
  pc \in {"report", "respond"} =>
    /\ Buildable(request_id, context_hash, verdicts)
    /\ receipt = BuiltReceipt(request_id, context_hash, verdicts)

RequestInv == Traced /\ Receipted /\ ReceiptVouchesForItsHash

\* Names of components are texts.
LEMMA ComponentsAreTexts == \A id \in Supported : Plain(id) \in Texts
PROOF
  <1>1. Supported \subseteq STRING
    BY SupportedAssumption DEF Supported
  <1> QED
    BY <1>1 DEF Plain, Texts

\* A list of verdicts that name components is one that can be sorted.
LEMMA VerdictsAreListed ==
  ASSUME Progress, \A i \in 1..Len(verdicts) : verdicts[i].component_id \in Texts
  PROVE  Listed(verdicts) /\ DOMAIN verdicts = 1..Len(verdicts)
PROOF
  <1>1. PICK S : verdicts \in Seq(S)
    BY DEF Progress
  <1>2. DOMAIN verdicts = 1..Len(verdicts) /\ Len(verdicts) \in Nat
        /\ verdicts \in [1..Len(verdicts) -> S]
    BY <1>1
  <1>3. verdicts \in [1..Len(verdicts) -> ElementsOf(verdicts)]
    BY <1>2 DEF ElementsOf
  <1>4. verdicts \in Seq(ElementsOf(verdicts))
    BY <1>2, <1>3
  <1> QED
    BY <1>2, <1>4 DEF Listed

\* How a list of verdicts grows.
LEMMA Collected ==
  ASSUME Progress, NEW verdict, Collect(verdict)
  PROVE  /\ Len(verdicts) \in Nat /\ Len(verdicts') = Len(verdicts) + 1
         /\ \A i \in 1..Len(verdicts) : i \in 1..Len(verdicts') /\ verdicts'[i] = verdicts[i]
         /\ Len(verdicts) + 1 \in 1..Len(verdicts') /\ verdicts'[Len(verdicts) + 1] = verdict
         /\ \A i \in 1..Len(verdicts') : i \in 1..Len(verdicts) \/ i = Len(verdicts) + 1
         /\ pc' \in {"bridges", "synthesis"}
PROOF
  <1>1. verdicts' = Append(verdicts, verdict) /\ pc' \in {"bridges", "synthesis"}
    BY Zenon DEF Collect
  <1>2. \E S : verdicts \in Seq(S)
    BY DEF Progress
  <1>3. /\ Len(verdicts') = Len(verdicts) + 1 /\ Len(verdicts) \in Nat
        /\ \A i \in 1..Len(verdicts) : verdicts'[i] = verdicts[i]
        /\ verdicts'[Len(verdicts) + 1] = verdict
    <2>1. /\ Len(Append(verdicts, verdict)) = Len(verdicts) + 1 /\ Len(verdicts) \in Nat
          /\ \A i \in 1..Len(verdicts) : Append(verdicts, verdict)[i] = verdicts[i]
          /\ Append(verdicts, verdict)[Len(verdicts) + 1] = verdict
      BY <1>2, Appended
    <2> QED
      BY <1>1, <2>1, Zenon
  <1>4. \A n \in Nat : /\ n + 1 \in 1..(n + 1) /\ \A i \in 1..n : i \in 1..(n + 1)
                       /\ \A i \in 1..(n + 1) : i \in 1..n \/ i = n + 1
    OBVIOUS
  <1> QED
    BY <1>1, <1>3, <1>4, Zenon

\* An engine is handed the payload its verdict is bound to.
LEMMA ConsultEngineTraces == CallInv /\ RequestInv /\ ConsultEngine => RequestInv'
PROOF
  <1> SUFFICES ASSUME CallInv, RequestInv, ConsultEngine PROVE RequestInv'
    OBVIOUS
  <1>1. /\ pc = "engine" /\ UNCHANGED <<header, bound, disturbed, context_hash>>
        /\ seen' \subseteq seen \cup {payload} /\ payload'.context = payload.context
        /\ \/ pc' = "failing" /\ verdicts' = verdicts
           \/ \E decision : Collect(Verdict(Component, bound[1], bound[2], decision))
    <2>1. PICK answer \in Answers \ {"trace", "foreign"} :
            LET met     == IF Component \in payload.inputs THEN answer ELSE "no input"
                failure == AnswerFailure(met, bound[1])
            IN  /\ IF met = "no input"
                   THEN UNCHANGED <<seen, payload>>
                   ELSE /\ seen' = seen \cup {payload}
                        /\ payload' \in {payload} \cup
                             {p \in Payloads : "engine" \in Mutators
                                                /\ p = [payload EXCEPT !.content = p.content]}
                /\ IF failure = "none"
                   THEN Collect(Verdict(Component, bound[1], bound[2], DecisionOf(met)))
                   ELSE Fail(LoopFailure(failure)) /\ UNCHANGED verdicts
      BY Zenon DEF ConsultEngine
    <2>2. \/ UNCHANGED <<seen, payload>>
          \/ /\ seen' = seen \cup {payload}
             /\ \/ payload' = payload
                \/ \E content : payload' = [payload EXCEPT !.content = content]
      BY <2>1, Zenon
    <2>3. seen' \subseteq seen \cup {payload} /\ payload'.context = payload.context
      <3>1. "context" \in DOMAIN payload
        BY RequestsAssumption DEF CallInv, TypeOK
      <3> QED
        BY <2>2, <3>1
    <2>4. pc = "engine" /\ UNCHANGED <<header, bound, disturbed, context_hash>>
      BY Zenon DEF ConsultEngine
    <2>5. \/ pc' = "failing" /\ verdicts' = verdicts
          \/ \E decision : Collect(Verdict(Component, bound[1], bound[2], decision))
      BY <2>1, Zenon DEF Fail
    <2> QED
      BY <2>3, <2>4, <2>5, Zenon
  <1>9. ~disturbed' => \A p \in seen' : p.context = payload'.context
    BY <1>1, Zenon DEF RequestInv, Traced
  <1>2. CASE pc' = "failing" /\ verdicts' = verdicts
    BY <1>1, <1>2, <1>9, Zenon DEF RequestInv, Traced, Receipted, ReceiptVouchesForItsHash, Ended
  <1>3. CASE \E decision : Collect(Verdict(Component, bound[1], bound[2], decision))
    <2>1. PICK decision : Collect(Verdict(Component, bound[1], bound[2], decision))
      BY <1>3
    <2> DEFINE n == Len(verdicts)
               verdict == Verdict(Component, bound[1], bound[2], decision)
    <2>2. verdict.component_id \in Texts /\ verdict.context_hash = bound[2]
      BY <1>1, NextComponent, ComponentsAreTexts DEF Verdict
    <2>3. Progress /\ Collect(verdict)
      BY <2>1 DEF CallInv
    <2> HIDE DEF verdict
    <2>4. /\ \A i \in 1..n : i \in 1..Len(verdicts') /\ verdicts'[i] = verdicts[i]
          /\ n + 1 \in 1..Len(verdicts') /\ verdicts'[n + 1] = verdict
          /\ \A i \in 1..Len(verdicts') : i \in 1..n \/ i = n + 1
          /\ pc' \in {"bridges", "synthesis"}
      BY <2>3, Collected, Zenon
    <2>5. \A i \in 1..Len(verdicts') : verdicts'[i].component_id \in Texts
      BY <2>2, <2>4, Zenon DEF RequestInv, Traced
    <2>6. ~disturbed' => \A p \in seen' : \E i \in 1..Len(verdicts') :
                            verdicts'[i].context_hash = ContextHash(header', p)
      <3> SUFFICES ASSUME ~disturbed, NEW p \in seen \cup {payload}
                   PROVE  \E i \in 1..Len(verdicts') : verdicts'[i].context_hash = ContextHash(header, p)
        BY <1>1, Zenon
      <3>1. CASE p = payload
        BY <3>1, <1>1, <2>2, <2>4, Zenon DEF RequestInv, Traced
      <3>2. CASE p \in seen
        <4>1. PICK i \in 1..n : verdicts[i].context_hash = ContextHash(header, p)
          BY <3>2, <1>1, Zenon DEF RequestInv, Traced
        <4> QED
          BY <4>1, <2>4, Zenon
      <3> QED
        BY <3>1, <3>2, Zenon
    <2>7. pc' \notin {"idle", "engine", "report", "respond"}
      BY <2>4
    <2>8. ~disturbed' => (payload'.context # Absent => context_hash' = payload'.context)
      BY <1>1, Zenon DEF RequestInv, Traced
    <2> QED
      BY <1>9, <2>5, <2>6, <2>7, <2>8, Zenon DEF RequestInv, Traced, Receipted, ReceiptVouchesForItsHash, Ended
  <1> QED
    BY <1>1, <1>2, <1>3, Zenon

\* A replaced bridge consults no engine.
LEMMA ReplacedBridgeTraces == CallInv /\ RequestInv /\ ReplacedBridge => RequestInv'
PROOF
  <1> SUFFICES ASSUME CallInv, RequestInv, ReplacedBridge PROVE RequestInv'
    OBVIOUS
  <1>1. /\ pc = "bridges" /\ UNCHANGED <<header, payload, context_hash, bound, disturbed, seen>>
        /\ \/ pc' = "failing" /\ verdicts' = verdicts
           \/ Collect(Verdict(Component, request_id, context_hash, "ERROR"))
    BY Zenon DEF ReplacedBridge, Fail, request
  <1>2. CASE pc' = "failing" /\ verdicts' = verdicts
    BY <1>1, <1>2, Zenon DEF RequestInv, Traced, Receipted, ReceiptVouchesForItsHash, Ended
  <1>3. CASE Collect(Verdict(Component, request_id, context_hash, "ERROR"))
    <2> DEFINE n == Len(verdicts)
               verdict == Verdict(Component, request_id, context_hash, "ERROR")
    <2>1. verdict.component_id \in Texts
      BY <1>1, NextComponent, ComponentsAreTexts DEF Verdict
    <2>2. Progress /\ Collect(verdict)
      BY <1>3 DEF CallInv
    <2> HIDE DEF verdict
    <2>3. /\ \A i \in 1..n : i \in 1..Len(verdicts') /\ verdicts'[i] = verdicts[i]
          /\ n + 1 \in 1..Len(verdicts') /\ verdicts'[n + 1] = verdict
          /\ \A i \in 1..Len(verdicts') : i \in 1..n \/ i = n + 1
          /\ pc' \in {"bridges", "synthesis"}
      BY <2>2, Collected, Zenon
    <2>4. \A i \in 1..Len(verdicts') : verdicts'[i].component_id \in Texts
      BY <2>1, <2>3, Zenon DEF RequestInv, Traced
    <2>5. ~disturbed' => \A p \in seen' : \E i \in 1..Len(verdicts') :
                            verdicts'[i].context_hash = ContextHash(header', p)
      BY <1>1, <2>3, Zenon DEF RequestInv, Traced
    <2>6. pc' \notin {"idle", "engine", "report", "respond"}
      BY <2>3
    <2>7. /\ ~disturbed' => \A p \in seen' : p.context = payload'.context
          /\ ~disturbed' => (payload'.context # Absent => context_hash' = payload'.context)
      BY <1>1, Zenon DEF RequestInv, Traced
    <2> QED
      BY <2>4, <2>5, <2>6, <2>7, Zenon DEF RequestInv, Traced, Receipted, ReceiptVouchesForItsHash, Ended
  <1> QED
    BY <1>1, <1>2, <1>3, Zenon

\* The receipt that is given out validates against the hash it is given out with,
\* which is that of every verdict, and so of every payload an engine was handed.
\* Where the payload names no hash, that one was computed of the whole payload.
LEMMA RespondTraces == CallInv /\ RequestInv /\ Respond => RequestInv'
PROOF
  <1> SUFFICES ASSUME CallInv, RequestInv, Respond PROVE RequestInv'
    OBVIOUS
  <1>1. /\ pc = "respond" /\ pc' = "idle" /\ UNCHANGED <<header, payload, verdicts, seen, disturbed>>
        /\ result'.receipt = receipt /\ result'.context_hash = context_hash
    BY DEF Respond, Response, request, locals, observed
  <1>2. /\ Buildable(request_id, context_hash, verdicts)
        /\ receipt = BuiltReceipt(request_id, context_hash, verdicts)
    BY <1>1, Zenon DEF RequestInv, Receipted
  <1>3. Listed(verdicts) /\ DOMAIN verdicts = 1..Len(verdicts)
    BY VerdictsAreListed DEF CallInv, RequestInv, Traced
  <1>4. ValidReceipt(receipt, context_hash)
    BY <1>2, <1>3, BuiltIsValid, Zenon
  <1>5. \A i \in 1..Len(verdicts) : verdicts[i].context_hash = context_hash
    BY <1>2, <1>3 DEF Buildable, ValidVerdict
  <1>6. ~disturbed => \A p \in seen : ContextHash(header, p) = context_hash
    BY <1>1, <1>5 DEF RequestInv, Traced
  <1>7. ReceiptVouchesForItsHash'
    <2>1. ValidReceipt(result'.receipt, result'.context_hash)
      BY <1>1, <1>4, Zenon
    <2>2. (~disturbed' /\ payload'.context = Absent) =>
             \A p \in seen' : result'.context_hash = <<"computed", <<header', p>>>>
      <3> SUFFICES ASSUME ~disturbed, payload.context = Absent, NEW p \in seen
                   PROVE  result'.context_hash = <<"computed", <<header, p>>>>
        BY <1>1, Zenon
      <3>1. p.context = Absent
        BY Zenon DEF RequestInv, Traced
      <3>2. ContextHash(header, p) = <<"computed", <<header, p>>>>
        BY <3>1, Zenon DEF ContextHash
      <3> QED
        BY <1>1, <1>6, <3>2, Zenon
    <2>3. (~disturbed' /\ payload'.context # Absent) => result'.context_hash = payload'.context
      BY <1>1, Zenon DEF RequestInv, Traced
    <2> QED
      BY <2>1, <2>2, <2>3, Zenon DEF ReceiptVouchesForItsHash
  <1> QED
    BY <1>1, <1>7, Zenon DEF RequestInv, Traced, Receipted

\* No other step hands anything to an engine or builds a receipt out of verdicts
\* it did not check.
LEMMA OtherTraces ==
  ASSUME CallInv, RequestInv,
         \/ Call \/ ValidateRequest \/ BindRequest \/ BindVerdict \/ Synthesize \/ Report
         \/ FailClosed \/ MutatePayload \/ Finished \/ UNCHANGED vars
  PROVE  RequestInv'
PROOF
  <1> USE DEF RequestInv, Traced, Receipted, ReceiptVouchesForItsHash, Ended
  <1>1. CASE Call
    <2>1. pc' = "validate" /\ verdicts' = <<>> /\ seen' = {}
      BY <1>1 DEF Call
    <2>2. 1..Len(verdicts') = {}
      BY <2>1, NoVerdicts
    <2> QED
      BY <2>1, <2>2, Zenon
  <1>2. CASE ValidateRequest
    <2>1. pc = "validate" /\ pc' \in {"bind", "failing"}
          /\ UNCHANGED <<header, payload, verdicts, bound, receipt, result, seen, disturbed>>
      BY <1>2 DEF ValidateRequest, Fail, request, observed
    <2> QED
      BY <2>1
  <1>3. CASE BindRequest
    <2>1. pc = "bind" /\ pc' \in {"bridges", "failing"}
          /\ UNCHANGED <<header, payload, verdicts, bound, receipt, result, seen, disturbed>>
      BY <1>3, BindRequestEnds DEF BindRequest, request, observed
    <2>2. pc' = "bridges" => context_hash' = ContextHash(header, payload)
      BY <1>3, ContextFailures DEF BindRequest, Fail
    <2>3. (pc' = "bridges" /\ payload.context # Absent) => context_hash' = payload.context
      BY <2>2, Zenon DEF ContextHash
    <2> QED
      BY <2>1, <2>3
  <1>4. CASE BindVerdict
    <2>1. /\ pc = "bridges"
          /\ \/ pc' = "failing"
             \/ pc' = "engine" /\ bound' = <<ReceiptRequestId(header, payload), ContextHash(header, payload)>>
          /\ UNCHANGED <<header, payload, context_hash, verdicts, receipt, result, seen, disturbed>>
      BY <1>4 DEF BindVerdict, Fail, request, observed
    <2>2. pc' = "failing" \/ (pc' = "engine" /\ bound'[2] = ContextHash(header, payload))
      BY <2>1
    <2> QED
      BY <2>1, <2>2
  <1>5. CASE Synthesize
    <2>1. /\ pc = "synthesis"
          /\ \/ pc' = "failing"
             \/ pc' = "report" /\ Buildable(request_id, context_hash, verdicts)
                /\ receipt' = BuiltReceipt(request_id, context_hash, verdicts)
          /\ UNCHANGED <<header, payload, request_id, context_hash, verdicts, result, seen, disturbed>>
      BY <1>5, Zenon DEF Synthesize, Fail, request, observed
    <2>2. CASE pc' = "failing"
      BY <2>1, <2>2, Zenon
    <2>3. CASE /\ pc' = "report" /\ Buildable(request_id, context_hash, verdicts)
               /\ receipt' = BuiltReceipt(request_id, context_hash, verdicts)
      BY <2>1, <2>3, Zenon
    <2> QED
      BY <2>1, <2>2, <2>3, Zenon
  <1>6. CASE Report
    <2>1. /\ pc = "report" /\ pc' = "respond"
          /\ UNCHANGED <<header, payload, request_id, context_hash, verdicts, receipt, result, seen,
                         disturbed>>
      BY <1>6 DEF Report, request, observed
    <2> QED
      BY <2>1, Zenon
  <1>7. CASE FailClosed
    <2>1. pc' = "idle" /\ result'.receipt = None
          /\ UNCHANGED <<payload, verdicts, seen, disturbed>>
      BY <1>7 DEF FailClosed, Raised, NoResult, Response, request, locals, observed
    <2> QED
      BY <2>1, Zenon
  <1>8. CASE MutatePayload
    <2>1. /\ pc # "idle" /\ pc' = pc /\ disturbed' = TRUE
          /\ UNCHANGED <<verdicts, request_id, context_hash, receipt>>
      BY <1>8 DEF MutatePayload, locals
    <2> QED
      BY <2>1, Zenon
  <1>9. CASE Finished \/ UNCHANGED vars
    <2>1. UNCHANGED <<pc, header, payload, request_id, context_hash, bound, verdicts, receipt, result,
                      seen, disturbed>>
      BY <1>9 DEF Finished, vars, request, locals, observed
    <2> QED
      BY <2>1, Zenon
  <1> QED
    BY <1>1, <1>2, <1>3, <1>4, <1>5, <1>6, <1>7, <1>8, <1>9, Zenon

\* In every behaviour, with any components, requests and answers, engines and a
\* caller that change the payload: a receipt that is given out validates against
\* the response's context hash.  Unless the caller interfered, that hash is the one
\* the payload names or, if it names none, is computed of the one payload that all
\* engines were handed (v3/orchestrate.py:79-132, bridges/*_bridge.py).
THEOREM ReceiptsVouchForTheirHash == Spec => []ReceiptVouchesForItsHash
PROOF
  <1>1. Init => RequestInv
    <2> SUFFICES ASSUME Init PROVE RequestInv
      OBVIOUS
    <2>1. pc = "idle" /\ verdicts = <<>> /\ result.kind = "none" /\ seen = {}
      BY DEF Init, NoResult
    <2>2. 1..Len(verdicts) = {}
      BY <2>1, NoVerdicts
    <2> QED
      BY <2>1, <2>2 DEF RequestInv, Traced, Receipted, ReceiptVouchesForItsHash, Ended
  <1>2. CallInv /\ RequestInv /\ [Next]_vars => RequestInv'
    BY ConsultEngineTraces, ReplacedBridgeTraces, RespondTraces, OtherTraces, Zenon DEF Next, Step
  <1>3. RequestInv => ReceiptVouchesForItsHash
    BY DEF RequestInv
  <1> QED
    BY <1>1, <1>2, <1>3, InitCallInv, StepKeeps, PTL DEF Spec

-----------------------------------------------------------------------------
(* The exact outcome *)

\* An error is something to deny for.
LEMMA FailingDenies == Fails => ReferenceOutcome = "DENY"
PROOF
  <1>1. \A a \in Breaking : a \notin {"ALLOW", "ESCALATE", "unasked"}
    BY DEF Breaking
  <1> QED
    BY <1>1 DEF Fails, ReferenceOutcome

\* What the verdict of a bridge says in a call that nobody disturbs.
Said(i) ==
  /\ verdicts[i] = Verdict(BridgeOrder[i], request_id, context_hash,
                           DecisionOf(answers[BridgeOrder[i]]))
  /\ answers[BridgeOrder[i]] \notin {"unasked"} \cup Breaking

\* In such a call all that is computed is computed of one request, and it fails
\* only with an error.
Undisturbed ==
  /\ pc \in {"bind", "bridges", "engine", "synthesis", "report", "respond"} => header.status = "ok"
  /\ pc \in {"bridges", "engine", "synthesis", "report", "respond"} =>
       /\ ContextFailure(header, payload) = "none"
       /\ request_id = ReceiptRequestId(header, payload)
       /\ context_hash = ContextHash(header, payload)
  /\ \A i \in 1..Len(verdicts) : Said(i)
  /\ pc = "engine" => bound[1] = request_id /\ bound[2] = context_hash
  /\ pc \in {"report", "respond"} => Sound(header, payload)
  /\ pc = "failing" => Fails

ExactInv == Undisturbed /\ OutcomeIsExact

\* A context hash that was to be had is well formed.
LEMMA HashIsProper ==
  ASSUME NEW h, NEW p, ContextFailure(h, p) = "none"
  PROVE  ContextHash(h, p) # Malformed
PROOF
  <1>1. p.context # Malformed
    BY DEF ContextFailure
  <1>2. <<"computed", <<h, p>>>> # Malformed
    BY DEF Malformed
  <1> QED
    BY <1>1, <1>2 DEF ContextHash

\* A bridge that consulted its engine fails with one of the answers that break it,
\* or with a request id that has no encoding.
LEMMA AnswersThatFail ==
  ASSUME NEW met, NEW id, met \notin {"trace", "foreign"}
  PROVE  /\ AnswerFailure(met, id) # "none" => met \in Breaking \/ ~Encodable(id)
         /\ AnswerFailure(met, id) = "none" => met \notin Breaking
PROOF
  <1>1. CASE met \in {"not JSON", "not UTF-8"}
    BY <1>1 DEF AnswerFailure, Breaking
  <1>2. CASE met \notin {"not JSON", "not UTF-8"}
    <2>1. met \notin Breaking
      BY <1>2 DEF Breaking
    <2>2. AnswerFailure(met, id) # "none" => ~Encodable(id)
      BY <1>2 DEF AnswerFailure
    <2> QED
      BY <2>1, <2>2
  <1> QED
    BY <1>1, <1>2

\* What a bridge met, and the decision of its verdict.
LEMMA DecisionsExact ==
  \A a :
    /\ DecisionOf(a) \in {"ALLOW", "ESCALATE", "DENY", "ERROR"}
    /\ DecisionOf(a) = "ALLOW" <=> a = "ALLOW"
    /\ DecisionOf(a) = "ESCALATE" <=> a = "ESCALATE"
PROOF
  BY DEF DecisionOf

\* All bridges of an undisturbed call have their verdicts: the receipt can be
\* built unless the request has no usable id.
LEMMA BuildableWhenSound ==
  ASSUME CallInv, Undisturbed, pc = "synthesis"
  PROVE  Buildable(request_id, context_hash, verdicts) <=> Sound(header, payload)
PROOF
  <1>1. /\ header.status = "ok" /\ ContextFailure(header, payload) = "none"
        /\ request_id = ReceiptRequestId(header, payload)
        /\ context_hash = ContextHash(header, payload)
    BY DEF Undisturbed
  <1>2. Sound(header, payload) <=> ~Blank(request_id) /\ Encodable(request_id)
    BY <1>1, Zenon DEF Sound
  <1>3. /\ DOMAIN verdicts = 1..Len(BridgeOrder) /\ Len(verdicts) = Len(BridgeOrder)
        /\ DOMAIN BridgeOrder = 1..Len(BridgeOrder)
    BY BridgesAreComponents DEF CallInv, Progress
  <1>4. context_hash # Malformed
    BY <1>1, HashIsProper
  <1>5. \A i \in DOMAIN verdicts :
          /\ verdicts[i].faults = {} /\ verdicts[i].component_id = Plain(BridgeOrder[i])
          /\ verdicts[i].request_id = request_id /\ verdicts[i].context_hash = context_hash
          /\ verdicts[i].decision = Plain(DecisionOf(answers[BridgeOrder[i]]))
    BY <1>3 DEF Undisturbed, Said, Verdict
  <1>6. \A a : Plain(a).name = a
    BY DEF Plain
  <1>7. \A i \in DOMAIN verdicts : ValidVerdict(verdicts[i], context_hash)
    <2> TAKE i \in DOMAIN verdicts
    <2>1. BridgeOrder[i] \in Supported
      BY <1>3, BridgesAreComponents
    <2>2. verdicts[i].component_id.name \in Supported
      BY <2>1, <1>5, <1>6, Zenon
    <2>3. verdicts[i].decision.name \in SupportedDecisions
      BY <1>5, <1>6, DecisionsExact DEF SupportedDecisions
    <2> QED
      BY <1>4, <1>5, <2>2, <2>3 DEF ValidVerdict
  <1>8. \A i, j \in DOMAIN verdicts : verdicts[i].component_id = verdicts[j].component_id => i = j
    <2> TAKE i, j \in DOMAIN verdicts
    <2> HAVE verdicts[i].component_id = verdicts[j].component_id
    <2>1. Plain(BridgeOrder[i]) = Plain(BridgeOrder[j])
      BY <1>5, Zenon
    <2>2. BridgeOrder[i] = BridgeOrder[j]
      BY <2>1 DEF Plain
    <2> QED
      BY <2>2, <1>3, OrderAssumption
  <1>9. \A id \in Supported : \E i \in DOMAIN verdicts : verdicts[i].component_id = Plain(id)
    <2> TAKE id \in Supported
    <2>1. PICK i \in DOMAIN BridgeOrder : BridgeOrder[i] = id
      BY OrderAssumption
    <2> QED
      BY <2>1, <1>3, <1>5
  <1> QED
    BY <1>2, <1>4, <1>5, <1>7, <1>8, <1>9, Zenon DEF Buildable

\* The answer of a receipt is the outcome that what the bridges met calls for.
LEMMA RespondExact ==
  ASSUME CallInv, Undisturbed, pc = "respond"
  PROVE  OutcomeOf(receipt) = ReferenceOutcome /\ ~Fails
PROOF
  <1>1. /\ receipt.final_outcome = Classify(DecisionsOf(verdicts))[1]
        /\ Sound(header, payload)
    BY DEF CallInv, Outcomes, Undisturbed
  <1>2. /\ DOMAIN verdicts = 1..Len(BridgeOrder) /\ Len(verdicts) = Len(BridgeOrder)
        /\ DOMAIN BridgeOrder = 1..Len(BridgeOrder)
    BY BridgesAreComponents DEF CallInv, Progress
  <1>3. \A i \in DOMAIN verdicts :
          /\ verdicts[i].decision = Plain(DecisionOf(answers[BridgeOrder[i]]))
          /\ BridgeOrder[i] \in Supported /\ answers[BridgeOrder[i]] \notin {"unasked"} \cup Breaking
    BY <1>2, BridgesAreComponents DEF Undisturbed, Said, Verdict
  <1>4. \A id \in Supported : \E i \in DOMAIN verdicts : BridgeOrder[i] = id
    BY <1>2, OrderAssumption
  <1>5. \A a, b : Plain(a) = Plain(b) => a = b
    BY DEF Plain
  <1>6. \A d : Plain(d) \in DecisionsOf(verdicts) <=> \E id \in Supported : DecisionOf(answers[id]) = d
    <2> TAKE d
    <2>1. ASSUME Plain(d) \in DecisionsOf(verdicts)
          PROVE  \E id \in Supported : DecisionOf(answers[id]) = d
      <3>1. PICK i \in DOMAIN verdicts : verdicts[i].decision = Plain(d)
        BY <2>1 DEF DecisionsOf
      <3>2. DecisionOf(answers[BridgeOrder[i]]) = d
        BY <3>1, <1>3, <1>5, Zenon
      <3> QED
        BY <3>2, <1>3
    <2>2. ASSUME NEW id \in Supported, DecisionOf(answers[id]) = d
          PROVE  Plain(d) \in DecisionsOf(verdicts)
      <3>1. PICK i \in DOMAIN verdicts : BridgeOrder[i] = id
        BY <1>4
      <3>2. verdicts[i].decision = Plain(d)
        BY <3>1, <2>2, <1>3, Zenon
      <3> QED
        BY <3>2 DEF DecisionsOf
    <2> QED
      BY <2>1, <2>2, Zenon
  <1>7. \A id \in Supported : answers[id] # "unasked"
    BY <1>3, <1>4
  <1> DEFINE met == {answers[id] : id \in Supported}
             Met(d) == \E id \in Supported : DecisionOf(answers[id]) = d
  <1>8. Classify(DecisionsOf(verdicts))[1] =
          IF Met("DENY") \/ Met("ERROR") THEN "DENY"
          ELSE IF Met("ESCALATE") THEN "HUMAN_REVIEW_REQUIRED"
          ELSE IF Met("SKIPPED") THEN "DENY" ELSE "ALLOW"
    <2>1. Classify(DecisionsOf(verdicts))[1] =
            IF Plain("DENY") \in DecisionsOf(verdicts) \/ Plain("ERROR") \in DecisionsOf(verdicts)
            THEN "DENY"
            ELSE IF Plain("ESCALATE") \in DecisionsOf(verdicts) THEN "HUMAN_REVIEW_REQUIRED"
            ELSE IF Plain("SKIPPED") \in DecisionsOf(verdicts) THEN "DENY" ELSE "ALLOW"
      BY DEF Classify
    <2> QED
      BY <2>1, <1>6, Zenon
  <1>9. /\ Met("DENY") \/ Met("ERROR") <=> ~(met \subseteq {"ALLOW", "ESCALATE", "unasked"})
        /\ Met("ESCALATE") <=> "ESCALATE" \in met
        /\ ~Met("SKIPPED") /\ "unasked" \notin met
    <2>1. Met("DENY") \/ Met("ERROR") <=> \E id \in Supported : answers[id] \notin {"ALLOW", "ESCALATE"}
      BY DecisionsExact
    <2>2. Met("ESCALATE") <=> \E id \in Supported : answers[id] = "ESCALATE"
      BY DecisionsExact
    <2>3. ~Met("SKIPPED")
      BY DecisionsExact
    <2> QED
      BY <2>1, <2>2, <2>3, <1>7
  <1>10. ReferenceOutcome =
           IF ~(met \subseteq {"ALLOW", "ESCALATE", "unasked"}) THEN "DENY"
           ELSE IF "unasked" \in met THEN "none"
           ELSE IF "ESCALATE" \in met THEN "ESCALATE" ELSE "ALLOW"
    BY <1>1 DEF ReferenceOutcome
  <1>11. ~Fails
    BY <1>1, <1>3, <1>4, Zenon DEF Fails
  <1> HIDE DEF met, Met
  <1> QED
    BY <1>1, <1>8, <1>9, <1>10, <1>11 DEF OutcomeOf

\* A verdict that says what its bridge met is added to those that do.
LEMMA SaidIsKept ==
  ASSUME CallInv, Undisturbed, pc \in {"bridges", "engine"},
         NEW met, met \notin {"unasked"} \cup Breaking,
         Collect(Verdict(Component, request_id, context_hash, DecisionOf(met))),
         answers' = [answers EXCEPT ![Component] = met],
         request_id' = request_id, context_hash' = context_hash
  PROVE  (\A i \in 1..Len(verdicts) : Said(i))' /\ pc' \in {"bridges", "synthesis"}
PROOF
  <1> DEFINE n == Len(verdicts)
             verdict == Verdict(Component, request_id, context_hash, DecisionOf(met))
  <1>1. Progress /\ Collect(verdict)
    BY DEF CallInv
  <1>2. /\ Component = BridgeOrder[n + 1] /\ Component \in Supported
        /\ \A i \in 1..n : BridgeOrder[i] \in Supported /\ BridgeOrder[i] # Component
    <2>1. /\ Component \in Supported /\ n \in Nat /\ n + 1 \in 1..Len(BridgeOrder)
          /\ \A i \in 1..Len(BridgeOrder) : BridgeOrder[i] = Component => i = n + 1
      BY NextComponent
    <2>2. \A i \in 1..n : i \in 1..Len(BridgeOrder) /\ i # n + 1
      BY <2>1, BridgesAreComponents, Positions, Zenon
    <2> QED
      BY <2>1, <2>2, BridgesAreComponents, Zenon DEF Component
  <1>3. answers' = [answers EXCEPT ![Component] = met] /\ DOMAIN answers = Supported
    BY DEF CallInv, TypeOK
  <1>4. /\ answers'[Component] = met
        /\ \A id \in Supported : id # Component => answers'[id] = answers[id]
    BY <1>2, <1>3
  <1> HIDE DEF verdict
  <1>5. /\ \A i \in 1..n : verdicts'[i] = verdicts[i]
        /\ verdicts'[n + 1] = verdict
        /\ \A i \in 1..Len(verdicts') : i \in 1..n \/ i = n + 1
        /\ pc' \in {"bridges", "synthesis"}
    BY <1>1, Collected, Zenon
  <1>6. ASSUME NEW i \in 1..Len(verdicts') PROVE Said(i)'
    <2>1. CASE i = n + 1
      BY <2>1, <1>2, <1>4, <1>5, Zenon DEF Said, verdict
    <2>2. CASE i \in 1..n
      <3>1. Said(i) /\ answers'[BridgeOrder[i]] = answers[BridgeOrder[i]]
        BY <2>2, <1>2, <1>4, Zenon DEF Undisturbed
      <3> QED
        BY <3>1, <2>2, <1>5, Zenon DEF Said
    <2> QED
      BY <1>5, <2>1, <2>2, Zenon
  <1> QED
    BY <1>5, <1>6, Zenon

\* Nothing a component meets changes what was said before.
LEMMA SaidStays ==
  ASSUME CallInv, Undisturbed, pc \in {"bridges", "engine"}, NEW met,
         answers' = [answers EXCEPT ![Component] = met],
         verdicts' = verdicts, request_id' = request_id, context_hash' = context_hash
  PROVE  (\A i \in 1..Len(verdicts) : Said(i))'
PROOF
  <1> DEFINE n == Len(verdicts)
  <1>1. \A i \in 1..n : BridgeOrder[i] \in Supported /\ BridgeOrder[i] # Component
    <2>1. /\ n \in Nat /\ n + 1 \in 1..Len(BridgeOrder)
          /\ \A i \in 1..Len(BridgeOrder) : BridgeOrder[i] = Component => i = n + 1
      BY NextComponent
    <2>2. \A i \in 1..n : i \in 1..Len(BridgeOrder) /\ i # n + 1
      BY <2>1, BridgesAreComponents, Positions, Zenon
    <2> QED
      BY <2>1, <2>2, BridgesAreComponents, Zenon
  <1>2. \A id \in Supported : id # Component => answers'[id] = answers[id]
    BY DEF CallInv, TypeOK
  <1>3. \A i \in 1..n : Said(i) /\ answers'[BridgeOrder[i]] = answers[BridgeOrder[i]]
    BY <1>1, <1>2, Zenon DEF Undisturbed
  <1> QED
    BY <1>3, Zenon DEF Said

\* An answer that breaks its bridge is an error, and so is a bridge broken by the
\* request id.
LEMMA MetFails ==
  ASSUME CallInv, ExactInv, pc \in {"bridges", "engine"},
         NEW met, met \in Breaking \/ ~Encodable(request_id),
         answers' = [answers EXCEPT ![Component] = met],
         header' = header, payload' = payload
  PROVE  Fails'
PROOF
  <1>1. Component \in Supported /\ DOMAIN answers = Supported
    BY NextComponent DEF CallInv, TypeOK
  <1>2. answers'[Component] = met
    BY <1>1
  <1>3. ~Encodable(request_id) => ~Sound(header, payload)
    BY DEF ExactInv, Undisturbed, Sound
  <1> QED
    BY <1>1, <1>2, <1>3, Zenon DEF Fails

\* Engines that leave the payload alone keep a call exact,
LEMMA ConsultEngineExact ==
  ASSUME CallInv, ExactInv, ConsultEngine, Mutators = {}
  PROVE  ExactInv'
PROOF
  <1>1. PICK answer \in Answers \ {"trace", "foreign"} :
          LET met     == IF Component \in payload.inputs THEN answer ELSE "no input"
              failure == AnswerFailure(met, bound[1])
          IN  /\ answers' = [answers EXCEPT ![Component] = met]
              /\ IF met = "no input"
                 THEN UNCHANGED <<seen, payload>>
                 ELSE /\ seen' = seen \cup {payload}
                      /\ payload' \in {payload} \cup
                           {p \in Payloads : "engine" \in Mutators
                                              /\ p = [payload EXCEPT !.content = p.content]}
              /\ IF failure = "none"
                 THEN Collect(Verdict(Component, bound[1], bound[2], DecisionOf(met)))
                 ELSE Fail(LoopFailure(failure)) /\ UNCHANGED verdicts
    BY Zenon DEF ConsultEngine
  <1> DEFINE met     == IF Component \in payload.inputs THEN answer ELSE "no input"
             failure == AnswerFailure(met, bound[1])
  <1>2. met # "unasked"
    BY RequestsAssumption
  <1>3. /\ pc = "engine" /\ bound[1] = request_id /\ bound[2] = context_hash
        /\ UNCHANGED <<header, request_id, context_hash>>
    BY DEF ConsultEngine, ExactInv, Undisturbed
  <1>4. payload' = payload
    BY <1>1
  <1>5. answers' = [answers EXCEPT ![Component] = met]
    BY <1>1
  <1>6. \/ /\ failure = "none"
           /\ Collect(Verdict(Component, request_id, context_hash, DecisionOf(met)))
        \/ failure # "none" /\ pc' = "failing" /\ verdicts' = verdicts
    BY <1>1, <1>3 DEF Fail
  <1>7. /\ failure # "none" => met \in Breaking \/ ~Encodable(request_id)
        /\ failure = "none" => met \notin {"unasked"} \cup Breaking
    <2>1. met \notin {"trace", "foreign"}
      OBVIOUS
    <2> QED
      BY <1>2, <1>3, <2>1, AnswersThatFail
  <1> HIDE DEF met, failure
  <1>8. CASE /\ failure = "none"
             /\ Collect(Verdict(Component, request_id, context_hash, DecisionOf(met)))
    <2>1. (\A i \in 1..Len(verdicts) : Said(i))' /\ pc' \in {"bridges", "synthesis"}
      BY <1>3, <1>5, <1>7, <1>8, SaidIsKept, Zenon DEF ExactInv
    <2> QED
      BY <2>1, <1>3, <1>4, Zenon DEF ExactInv, Undisturbed, OutcomeIsExact, Ended
  <1>9. CASE failure # "none" /\ pc' = "failing" /\ verdicts' = verdicts
    <2>1. Fails'
      BY <1>3, <1>4, <1>5, <1>7, <1>9, MetFails, Zenon
    <2>2. (\A i \in 1..Len(verdicts) : Said(i))'
      BY <1>2, <1>3, <1>5, <1>9, SaidStays, Zenon DEF ExactInv
    <2> QED
      BY <2>1, <2>2, <1>9, Zenon DEF ExactInv, Undisturbed, OutcomeIsExact, Ended
  <1> QED
    BY <1>6, <1>8, <1>9, Zenon

\* and so does a replaced bridge, whose verdict is an error.
LEMMA ReplacedBridgeExact ==
  ASSUME CallInv, ExactInv, ReplacedBridge
  PROVE  ExactInv'
PROOF
  <1>1. PICK met \in Answers \cap {"trace", "foreign"} :
          /\ answers' = [answers EXCEPT ![Component] = met]
          /\ IF met = "trace" /\ Encodable(request_id)
             THEN Collect(Verdict(Component, request_id, context_hash, "ERROR"))
             ELSE Fail("COMPONENT_ERROR") /\ UNCHANGED verdicts
    BY Zenon DEF ReplacedBridge
  <1>2. DecisionOf(met) = "ERROR" /\ met # "unasked"
    BY DEF DecisionOf
  <1>3. /\ pc = "bridges" /\ UNCHANGED <<header, payload, request_id, context_hash>>
    BY DEF ReplacedBridge, request
  <1>4. answers' = [answers EXCEPT ![Component] = met]
    BY <1>1
  <1>5. \/ /\ met \notin {"unasked"} \cup Breaking
           /\ Collect(Verdict(Component, request_id, context_hash, DecisionOf(met)))
        \/ /\ met \in Breaking \/ ~Encodable(request_id)
           /\ pc' = "failing" /\ verdicts' = verdicts
    <2>1. met = "trace" => met \notin Breaking
      BY DEF Breaking
    <2>2. met # "trace" => met \in Breaking
      BY DEF Breaking
    <2> QED
      BY <1>1, <1>2, <2>1, <2>2 DEF Fail
  <1>6. CASE /\ met \notin {"unasked"} \cup Breaking
             /\ Collect(Verdict(Component, request_id, context_hash, DecisionOf(met)))
    <2>1. (\A i \in 1..Len(verdicts) : Said(i))' /\ pc' \in {"bridges", "synthesis"}
      BY <1>3, <1>4, <1>6, SaidIsKept, Zenon DEF ExactInv
    <2> QED
      BY <2>1, <1>3, Zenon DEF ExactInv, Undisturbed, OutcomeIsExact, Ended
  <1>7. CASE /\ met \in Breaking \/ ~Encodable(request_id)
             /\ pc' = "failing" /\ verdicts' = verdicts
    <2>1. Fails'
      BY <1>3, <1>4, <1>7, MetFails, Zenon
    <2>2. (\A i \in 1..Len(verdicts) : Said(i))'
      BY <1>2, <1>3, <1>4, <1>7, SaidStays, Zenon DEF ExactInv
    <2> QED
      BY <2>1, <2>2, <1>7, Zenon DEF ExactInv, Undisturbed, OutcomeIsExact, Ended
  <1> QED
    BY <1>5, <1>6, <1>7, Zenon

\* A request that cannot be bound is one to deny, and binding it again binds it
\* to the same.
LEMMA BindingExact ==
  ASSUME CallInv, ExactInv, BindRequest \/ BindVerdict
  PROVE  ExactInv'
PROOF
  <1>1. CASE BindRequest
    <2> DEFINE failure == ContextFailure(header, payload)
    <2>1. /\ pc = "bind" /\ UNCHANGED <<header, payload, verdicts, answers, bound>>
      BY <1>1 DEF BindRequest, request, observed
    <2>2. 1..Len(verdicts) = {} /\ verdicts' = verdicts
      BY <2>1, NoVerdicts DEF CallInv, Progress
    <2>3. CASE failure = "none"
      <3>1. /\ request_id' = ReceiptRequestId(header, payload)
            /\ context_hash' = ContextHash(header, payload) /\ pc' = "bridges"
        BY <1>1, <2>3 DEF BindRequest
      <3>2. header.status = "ok"
        BY <2>1 DEF ExactInv, Undisturbed
      <3> QED
        BY <2>1, <2>2, <2>3, <3>1, <3>2, Zenon DEF Undisturbed, ExactInv, OutcomeIsExact, Ended
    <2>4. CASE failure # "none"
      <3>1. pc' = "failing"
        BY <1>1, <2>4, ContextFailures DEF BindRequest, Fail
      <3>2. Fails'
        BY <2>1, <2>4, Zenon DEF Fails, Sound
      <3> QED
        BY <2>2, <3>1, <3>2, Zenon DEF Undisturbed, ExactInv, OutcomeIsExact, Ended
    <2> QED
      BY <2>3, <2>4
  <1>2. CASE BindVerdict
    <2>1. /\ pc = "bridges"
          /\ UNCHANGED <<header, payload, request_id, context_hash, verdicts, answers>>
      BY <1>2 DEF BindVerdict, request, observed
    <2>2. /\ header.status = "ok" /\ ContextFailure(header, payload) = "none"
          /\ request_id = ReceiptRequestId(header, payload)
          /\ context_hash = ContextHash(header, payload)
          /\ \A i \in 1..Len(verdicts) : Said(i)
      BY <2>1 DEF ExactInv, Undisturbed
    <2>3. bound' = <<ReceiptRequestId(header, payload), ContextHash(header, payload)>> /\ pc' = "engine"
      BY <1>2, <2>2 DEF BindVerdict
    <2>4. bound'[1] = request_id /\ bound'[2] = context_hash
      BY <2>2, <2>3
    <2>5. (\A i \in 1..Len(verdicts) : Said(i))'
      BY <2>1, <2>2, Zenon DEF Said
    <2> QED
      BY <2>1, <2>2, <2>3, <2>4, <2>5, Zenon DEF Undisturbed, ExactInv, OutcomeIsExact, Ended
  <1> QED
    BY <1>1, <1>2

\* What is left of a call, whatever its outcome.
LEMMA EndExact ==
  ASSUME CallInv, ExactInv, Synthesize \/ Report \/ Respond \/ FailClosed
  PROVE  ExactInv'
PROOF
  <1>1. CASE Synthesize
    <2>1. /\ pc = "synthesis"
          /\ UNCHANGED <<header, payload, request_id, context_hash, verdicts, answers>>
          /\ \/ pc' = "report" /\ Buildable(request_id, context_hash, verdicts)
             \/ pc' = "failing" /\ ~Buildable(request_id, context_hash, verdicts)
      BY <1>1, Zenon DEF Synthesize, Fail, request, observed
    <2>2. Buildable(request_id, context_hash, verdicts) <=> Sound(header, payload)
      BY <2>1, BuildableWhenSound, Zenon DEF ExactInv
    <2>3. /\ pc' = "report" => Sound(header, payload)'
          /\ pc' = "failing" => Fails'
          /\ pc' \in {"report", "failing"}
      BY <2>1, <2>2, Zenon DEF Fails, Sound
    <2>4. (\A i \in 1..Len(verdicts) : Said(i))'
      BY <2>1, Zenon DEF ExactInv, Undisturbed, Said
    <2> QED
      BY <2>1, <2>3, <2>4, Zenon DEF ExactInv, Undisturbed, OutcomeIsExact, Ended
  <1>2. CASE Report
    <2>1. /\ pc = "report" /\ pc' = "respond"
          /\ UNCHANGED <<header, payload, request_id, context_hash, verdicts, answers>>
      BY <1>2 DEF Report, request, observed
    <2> QED
      BY <2>1, Zenon DEF ExactInv, Undisturbed, Said, Sound, OutcomeIsExact, Ended
  <1>3. CASE Respond
    <2>1. /\ pc = "respond" /\ pc' = "idle"
          /\ UNCHANGED <<header, payload, request_id, context_hash, verdicts, answers>>
          /\ result'.outcome = OutcomeOf(receipt) /\ result'.kind = "response"
      BY <1>3 DEF Respond, Response, request, locals, observed
    <2>2. OutcomeOf(receipt) = ReferenceOutcome /\ ~Fails
      BY <2>1, RespondExact, Zenon DEF ExactInv
    <2>3. ReferenceOutcome' = ReferenceOutcome /\ Fails' = Fails
      BY <2>1, Zenon DEF ReferenceOutcome, Fails, Sound
    <2>4. OutcomeIsExact'
      BY <2>1, <2>2, <2>3, Zenon DEF OutcomeIsExact
    <2> QED
      BY <2>1, <2>4, Zenon DEF ExactInv, Undisturbed, Said
  <1>4. CASE FailClosed
    <2>1. /\ pc = "failing" /\ pc' = "idle"
          /\ UNCHANGED <<header, payload, request_id, context_hash, verdicts, answers>>
          /\ result'.receipt = None
          /\ IF CanBeHashedAgain(header, payload)
             THEN result'.kind = "response" /\ result'.outcome = "DENY"
             ELSE result'.kind = "raised"
      BY <1>4 DEF FailClosed, CanBeHashedAgain, Raised, NoResult, Response, request, locals, observed
    <2>2. Fails /\ ReferenceOutcome = "DENY"
      BY <2>1, FailingDenies DEF ExactInv, Undisturbed
    <2>3. ReferenceOutcome' = ReferenceOutcome /\ Fails' = Fails
      BY <2>1, Zenon DEF ReferenceOutcome, Fails, Sound
    <2>4. OutcomeIsExact'
      BY <2>1, <2>2, <2>3, Zenon DEF OutcomeIsExact
    <2> QED
      BY <2>1, <2>4, Zenon DEF ExactInv, Undisturbed, Said
  <1> QED
    BY <1>1, <1>2, <1>3, <1>4

\* A call starts, and an invalid request is one to deny.
LEMMA StartExact ==
  ASSUME CallInv, ExactInv, Call \/ ValidateRequest
  PROVE  ExactInv'
PROOF
  <1>1. CASE Call
    <2>1. pc' = "validate" /\ verdicts' = <<>>
      BY <1>1 DEF Call
    <2>2. 1..Len(verdicts') = {}
      BY <2>1, NoVerdicts
    <2> QED
      BY <2>1, <2>2, Zenon DEF ExactInv, Undisturbed, OutcomeIsExact, Ended
  <1>2. CASE ValidateRequest
    <2>1. /\ pc = "validate"
          /\ UNCHANGED <<header, payload, request_id, context_hash, verdicts, answers>>
      BY <1>2 DEF ValidateRequest, request, observed
    <2>2. \/ pc' = "bind" /\ header.status \notin {"wrong version", "invalid"}
          \/ pc' = "failing" /\ header.status \in {"wrong version", "invalid"}
      BY <1>2 DEF ValidateRequest, Fail
    <2>3. header.status \in {"ok", "wrong version", "invalid"}
      BY RequestsAssumption DEF CallInv, TypeOK
    <2>4. /\ pc' = "bind" => header'.status = "ok"
          /\ pc' = "failing" => Fails'
          /\ pc' \in {"bind", "failing"}
      <3>1. pc' = "failing" => ~Sound(header, payload)
        BY <2>2 DEF Sound
      <3> QED
        BY <2>1, <2>2, <2>3, <3>1 DEF Fails
    <2> QED
      BY <2>1, <2>4, Zenon DEF ExactInv, Undisturbed, Said, OutcomeIsExact, Ended
  <1> QED
    BY <1>1, <1>2

\* In every behaviour in which engines and caller leave the payload alone, with
\* any components, order of bridges, requests and answers: a call has the outcome
\* the request and what the bridges met call for, gives no receipt once it met an
\* error, and ends with an exception exactly when handling that error met another
\* (v3/orchestrate.py:42-187, bridges/*_bridge.py).
THEOREM LeftAloneOutcomesAreExact ==
  ASSUME Mutators = {}
  PROVE  Spec => []OutcomeIsExact
PROOF
  <1>1. Init => ExactInv
    <2> SUFFICES ASSUME Init PROVE ExactInv
      OBVIOUS
    <2>1. pc = "idle" /\ verdicts = <<>> /\ result.kind = "none"
      BY DEF Init, NoResult
    <2>2. 1..Len(verdicts) = {}
      BY <2>1, NoVerdicts
    <2> QED
      BY <2>1, <2>2 DEF ExactInv, Undisturbed, OutcomeIsExact, Ended
  <1>2. CallInv /\ ExactInv /\ [Next]_vars => ExactInv'
    <2> SUFFICES ASSUME CallInv, ExactInv, [Next]_vars PROVE ExactInv'
      OBVIOUS
    <2>1. ~MutatePayload
      BY DEF MutatePayload
    <2>2. CASE Finished \/ UNCHANGED vars
      <3>1. UNCHANGED <<pc, header, payload, request_id, context_hash, bound, verdicts, answers, result>>
        BY <2>2 DEF Finished, vars, request, locals, observed
      <3> QED
        BY <3>1, Zenon
        DEF ExactInv, Undisturbed, Said, Sound, Fails, OutcomeIsExact, Ended, ReferenceOutcome
    <2> QED
      BY <2>1, <2>2, StartExact, BindingExact, ConsultEngineExact, ReplacedBridgeExact, EndExact, Zenon
      DEF Next, Step
  <1>3. ExactInv => OutcomeIsExact
    BY DEF ExactInv
  <1> QED
    BY <1>1, <1>2, <1>3, InitCallInv, StepKeeps, PTL DEF Spec
=============================================================================
