----------------------------- MODULE ReceiptProofs -----------------------------
(***************************************************************************)
(* A v3.2 receipt on its way, for any components, lists of verdicts,       *)
(* request ids and contexts: what was built and not changed arrives, in    *)
(* whatever order its verdicts were submitted, and what is accepted after  *)
(* any change is what the rules derive from its own verdicts.              *)
(***************************************************************************)
EXTENDS ReceiptExchange, V32Proofs

-----------------------------------------------------------------------------
(* What nobody changed *)

\* Until somebody changes it, the receipt in transit is the one the producer built
\* of its order.
Intact ==
  /\ pc = "submit" => receipt = None
  /\ pc = "built" /\ ~edited =>
       /\ order.verdicts \in Lists
       /\ Buildable(order.request_id, order.context_hash, order.verdicts)
       /\ receipt = BuiltReceipt(order.request_id, order.context_hash, order.verdicts)

\* A submitted list is one the lemmas about sorting are about.
LEMMA ListsAreListed == \A list \in Lists : Listed(list)
BY ListsAssumption DEF Listed, ElementsOf, Texts

\* Building.
LEMMA BuildIsIntact ==
  ASSUME Intact, Build
  PROVE  Intact' /\ (pc' = "refused" => receipt' = None)
<1>1. PICK id \in RequestIds, c \in Contexts, list \in Lists :
        /\ order' = [request_id |-> id, context_hash |-> c, verdicts |-> list]
        /\ IF Buildable(id, c, list)
           THEN pc' = "built" /\ receipt' = BuiltReceipt(id, c, list)
           ELSE pc' = "refused" /\ UNCHANGED receipt
  BY Zenon DEF Build
<1>2. order'.request_id = id /\ order'.context_hash = c /\ order'.verdicts = list
  BY <1>1
<1>3. receipt = None
  BY DEF Build, Intact
<1>4. QED
  BY <1>1, <1>2, <1>3, Zenon DEF Intact

\* Changing and validating.
LEMMA OthersAreIntact ==
  ASSUME Intact, Change \/ Validate \/ Done \/ UNCHANGED vars
  PROVE  Intact'
<1>1. CASE Change
  BY <1>1 DEF Change, Intact
<1>2. CASE Validate
  <2>1. pc = "built" /\ pc' \in {"accepted", "refused"} /\ UNCHANGED <<order, receipt, edited>>
    BY <1>2 DEF Validate
  <2>2. QED
    BY <2>1 DEF Intact
<1>3. CASE Done \/ UNCHANGED vars
  BY <1>3 DEF Done, vars, Intact
<1>4. QED
  BY <1>1, <1>2, <1>3

\* A consumer accepts an intact receipt when it expects its context.
LEMMA ValidateRoundTrip ==
  ASSUME Intact, Validate
  PROVE  RoundTrip'
<1>1. /\ pc = "built" /\ order' = order /\ receipt' = receipt /\ edited' = edited
      /\ pc' = IF ValidReceipt(receipt, expected') THEN "accepted" ELSE "refused"
  BY DEF Validate
<1>2. SUFFICES ASSUME ~edited
               PROVE  ValidReceipt(receipt, expected') <=> expected' = order.context_hash
  BY <1>1 DEF RoundTrip, Accepted
<1>3. /\ order.verdicts \in Lists
      /\ Buildable(order.request_id, order.context_hash, order.verdicts)
      /\ receipt = BuiltReceipt(order.request_id, order.context_hash, order.verdicts)
  BY <1>1, <1>2 DEF Intact
<1>4. Listed(order.verdicts)
  BY <1>3, ListsAreListed
<1>5. QED
  BY <1>3, <1>4, BuiltIsValid

\* The round trip holds along every behaviour.
LEMMA RoundTripHolds == Spec => [](Intact /\ RoundTrip)
<1>1. Init => Intact /\ RoundTrip
  BY DEF Init, Intact, RoundTrip
<1>2. ASSUME Intact, RoundTrip, [Next]_vars
      PROVE  Intact' /\ RoundTrip'
  <2>1. CASE Build
    BY <1>2, <2>1, BuildIsIntact DEF Build, RoundTrip
  <2>2. CASE Change
    BY <1>2, <2>2, OthersAreIntact DEF Change, RoundTrip
  <2>3. CASE Validate
    BY <1>2, <2>3, OthersAreIntact, ValidateRoundTrip
  <2>4. CASE Done \/ UNCHANGED vars
    BY <1>2, <2>4, OthersAreIntact DEF Done, vars, RoundTrip, Accepted
  <2>5. QED
    BY <1>2, <2>1, <2>2, <2>3, <2>4 DEF Next
<1>3. QED
  BY <1>1, <1>2, PTL DEF Spec

\* What was built and nobody changed is accepted by every consumer that expects
\* its context and by no other, whatever white space its texts carry.
THEOREM ReceiptsArrive == Spec => []RoundTrip
BY RoundTripHolds, PTL

\* A list backwards has the same elements.
LEMMA ReversedElements ==
  ASSUME NEW list, Listed(list)
  PROVE  /\ Listed(Reverse(list))
         /\ Distinct(list) => Distinct(Reverse(list))
         /\ ElementsOf(Reverse(list)) = ElementsOf(list)
<1> DEFINE n == Len(list)
           r == Reverse(list)
<1>1. n \in Nat /\ DOMAIN list = 1..n
  BY ElementsAreFinite
<1>2. r = [i \in 1..n |-> list[(n - i) + 1]]
  BY DEF Reverse
<1>3. DOMAIN r = 1..n /\ \A i \in 1..n : r[i] = list[(n - i) + 1]
  BY <1>2
<1> HIDE DEF n, r
<1>4. \A i \in 1..n : (n - i) + 1 \in 1..n /\ (n - ((n - i) + 1)) + 1 = i
  BY <1>1
<1>5. \A i, j \in 1..n : (n - i) + 1 = (n - j) + 1 => i = j
  BY <1>1
<1>6. ElementsOf(r) = ElementsOf(list)
  <2>1. \A i \in 1..n : \E j \in 1..n : r[i] = list[j]
    BY <1>3, <1>4
  <2>2. \A j \in 1..n : \E i \in 1..n : r[i] = list[j]
    <3>1. TAKE j \in 1..n
    <3>2. r[(n - j) + 1] = list[j]
      BY <1>3, <1>4
    <3>3. QED
      BY <1>4, <3>2
  <2>3. ElementsOf(r) = {r[i] : i \in 1..n} /\ ElementsOf(list) = {list[i] : i \in 1..n}
    BY <1>1, <1>3, Zenon DEF ElementsOf
  <2>4. {r[i] : i \in 1..n} = {list[i] : i \in 1..n}
    BY <2>1, <2>2
  <2>5. QED
    BY <2>3, <2>4
<1>7. r \in Seq(ElementsOf(r))
  <2>1. \A i \in 1..n : r[i] \in ElementsOf(r)
    BY <1>3 DEF ElementsOf
  <2>2. [i \in 1..n |-> r[i]] \in Seq(ElementsOf(r))
    BY <1>1, <2>1
  <2>3. r = [i \in 1..n |-> r[i]]
    BY <1>2 DEF r
  <2>4. QED
    BY <2>2, <2>3
<1>8. Listed(r)
  BY <1>1, <1>3, <1>4, <1>7 DEF Listed
<1>9. ASSUME Distinct(list) PROVE Distinct(r)
  <2>1. SUFFICES ASSUME NEW i \in 1..n, NEW j \in 1..n,
                        r[i].component_id = r[j].component_id
                 PROVE  i = j
    BY <1>3 DEF Distinct
  <2>2. (n - i) + 1 = (n - j) + 1
    BY <1>1, <1>3, <1>4, <1>9, <2>1 DEF Distinct
  <2>3. QED
    BY <1>5, <2>2
<1>10. QED
  BY <1>6, <1>8, <1>9 DEF r

\* The receipt would be the same had its verdicts come the other way round.
THEOREM OrderIsForgotten == Spec => []OrderLeavesNoTrace
<1>1. ASSUME Intact PROVE OrderLeavesNoTrace
  <2>1. SUFFICES ASSUME pc = "built", ~edited
                 PROVE  LET reversed == Reverse(order.verdicts)
                        IN  /\ Buildable(order.request_id, order.context_hash, reversed)
                            /\ BuiltReceipt(order.request_id, order.context_hash, reversed)
                                 = receipt
    BY DEF OrderLeavesNoTrace
  <2> DEFINE list == order.verdicts
             r    == Reverse(list)
  <2>2. /\ list \in Lists
        /\ Buildable(order.request_id, order.context_hash, list)
        /\ receipt = BuiltReceipt(order.request_id, order.context_hash, list)
    BY <1>1, <2>1 DEF Intact
  <2>3. Listed(list) /\ Distinct(list)
    BY <2>2, ListsAreListed DEF Buildable, Distinct
  <2>4. Listed(r) /\ Distinct(r) /\ ElementsOf(list) = ElementsOf(r)
    BY <2>3, ReversedElements
  <2> HIDE DEF list, r
  <2>5. /\ Buildable(order.request_id, order.context_hash, r)
        /\ BuiltReceipt(order.request_id, order.context_hash, r) = receipt
    BY <2>2, <2>4, OrderOfVerdicts
  <2>6. QED
    BY <2>5 DEF r, list
<1>2. QED
  BY <1>1, RoundTripHolds, PTL

-----------------------------------------------------------------------------
(* What is accepted *)

\* Verdicts without white space around their names: what is compared stripped is
\* then what is counted.
PlainVerdict(v) ==
  v.component_id = Plain(v.component_id.name) /\ v.decision = Plain(v.decision.name)

PlainList(list) == Listed(list) /\ \A v \in ElementsOf(list) : PlainVerdict(v)

\* The lists in circulation are plain.
PlainLists == \A list \in Lists : PlainList(list)

\* The verdicts in transit are plain, and accepted is what validates.
PlainTransit ==
  /\ pc \in {"built", "accepted"} =>
       /\ "component_verdicts" \in DOMAIN receipt
       /\ PlainList(receipt.component_verdicts)
  /\ pc = "accepted" => ValidReceipt(receipt, expected)

\* A built receipt of a plain list is plain.
LEMMA BuildIsPlain ==
  ASSUME PlainLists, Build
  PROVE  PlainTransit'
<1>1. PICK id \in RequestIds, c \in Contexts, list \in Lists :
        \/ /\ Buildable(id, c, list) /\ pc' = "built"
           /\ receipt' = BuiltReceipt(id, c, list)
        \/ pc' = "refused"
  BY Zenon DEF Build
<1>2. CASE pc' = "refused"
  BY <1>2 DEF PlainTransit
<1>3. CASE Buildable(id, c, list) /\ pc' = "built" /\ receipt' = BuiltReceipt(id, c, list)
  <2>1. PlainList(list)
    BY DEF PlainLists
  <2>2. Distinct(list) /\ \A i \in DOMAIN list : list[i].component_id.name \in Supported
    BY <1>3 DEF Buildable, Distinct, ValidVerdict
  <2>3. Listed(Sorted(list)) /\ ElementsOf(Sorted(list)) = ElementsOf(list)
    BY <2>1, <2>2, SortedList DEF PlainList
  <2>4. receipt'.component_verdicts = Sorted(list) /\ "component_verdicts" \in DOMAIN receipt'
    BY <1>3, BuiltFields
  <2>5. PlainList(receipt'.component_verdicts)
    BY <2>1, <2>3, <2>4 DEF PlainList
  <2>6. QED
    BY <1>3, <2>4, <2>5 DEF PlainTransit
<1>4. QED
  BY <1>1, <1>2, <1>3

\* Whatever becomes of one field, the verdicts stay plain.
LEMMA EditsArePlain ==
  ASSUME PlainLists, NEW r, "component_verdicts" \in DOMAIN r, PlainList(r.component_verdicts),
         NEW f \in FieldEdits(r)
  PROVE  "component_verdicts" \in DOMAIN f /\ PlainList(f.component_verdicts)
<1>1. PlainList(Reverse(r.component_verdicts))
  BY ReversedElements DEF PlainList
<1>2. \/ f = [r EXCEPT !.faults = {"fields"}]
      \/ f = [r EXCEPT !.receipt_hash = <<"other">>]
      \/ f = [r EXCEPT !.handoff_allowed = ~r.handoff_allowed]
      \/ \E id \in RequestIds : f = [r EXCEPT !.request_id = id]
      \/ \E c \in Contexts : f = [r EXCEPT !.context_hash = c]
      \/ \E outcome \in {"ALLOW", "DENY", "HUMAN_REVIEW_REQUIRED"} :
           f = [r EXCEPT !.final_outcome = outcome]
      \/ \E list \in Lists : f = [r EXCEPT !.component_verdicts = list]
      \/ f = [r EXCEPT !.component_verdicts = Reverse(r.component_verdicts)]
  BY Zenon DEF FieldEdits
<1>3. CASE \E list \in Lists : f = [r EXCEPT !.component_verdicts = list]
  BY <1>3 DEF PlainLists
<1>4. CASE f = [r EXCEPT !.component_verdicts = Reverse(r.component_verdicts)]
  <2> DEFINE back == Reverse(r.component_verdicts)
  <2>1. f = [r EXCEPT !.component_verdicts = back] /\ PlainList(back)
    BY <1>1, <1>4
  <2> HIDE DEF back
  <2>2. QED
    BY <2>1
<1>5. CASE \E id \in RequestIds : f = [r EXCEPT !.request_id = id]
  BY <1>5
<1>6. CASE \E c \in Contexts : f = [r EXCEPT !.context_hash = c]
  BY <1>6
<1>7. CASE \E outcome \in {"ALLOW", "DENY", "HUMAN_REVIEW_REQUIRED"} :
             f = [r EXCEPT !.final_outcome = outcome]
  BY <1>7
<1>8. CASE \/ f = [r EXCEPT !.faults = {"fields"}]
           \/ f = [r EXCEPT !.receipt_hash = <<"other">>]
           \/ f = [r EXCEPT !.handoff_allowed = ~r.handoff_allowed]
  BY <1>8
<1>9. QED
  BY <1>2, <1>3, <1>4, <1>5, <1>6, <1>7, <1>8

\* A change on the way keeps them plain.
LEMMA ChangeIsPlain ==
  ASSUME PlainLists, PlainTransit, Change
  PROVE  PlainTransit'
<1>1. PICK f \in FieldEdits(receipt) : receipt' = f \/ receipt' = Rehashed(f)
  BY DEF Change
<1>2. pc = "built" /\ pc' = "built"
  BY DEF Change
<1>3. "component_verdicts" \in DOMAIN f /\ PlainList(f.component_verdicts)
  BY <1>2, EditsArePlain DEF PlainTransit
<1>4. /\ "component_verdicts" \in DOMAIN Rehashed(f)
      /\ Rehashed(f).component_verdicts = f.component_verdicts
  <2> DEFINE hash == Sha256([f EXCEPT !.receipt_hash = <<>>])
  <2>1. Rehashed(f) = [f EXCEPT !.receipt_hash = hash]
    BY DEF Rehashed
  <2> HIDE DEF hash
  <2>2. QED
    BY <1>3, <2>1
<1>5. QED
  BY <1>1, <1>2, <1>3, <1>4 DEF PlainTransit

\* The outcome the rules derive from plain verdicts.
LEMMA OutcomeOfPlain ==
  ASSUME NEW list, PlainList(list),
         \A i \in DOMAIN list : list[i].decision.name \in SupportedDecisions
  PROVE  LET outcome == Classify(DecisionsOf(list))[1]
         IN  /\ (\E i \in DOMAIN list : list[i].decision.name \in {"DENY", "ERROR"})
                  => outcome = "DENY"
             /\ outcome = "ALLOW" <=> \A i \in DOMAIN list : list[i].decision.name = "ALLOW"
<1>1. \A i \in DOMAIN list : list[i].decision = Plain(list[i].decision.name)
  BY DEF PlainList, PlainVerdict, ElementsOf
<1>2. \A d : Plain(d).name = d
  BY DEF Plain
<1>3. \A d : Plain(d) \in DecisionsOf(list) <=> \E i \in DOMAIN list : list[i].decision.name = d
  BY <1>1, <1>2 DEF DecisionsOf
<1>4. QED
  BY <1>3, Zenon DEF Classify, SupportedDecisions

\* An accepted receipt is derived from its verdicts.
LEMMA AcceptedDerives ==
  ASSUME PlainTransit PROVE AcceptedIsDerived
<1>1. SUFFICES ASSUME pc = "accepted" PROVE AcceptedIsDerived
  BY DEF AcceptedIsDerived, Accepted
<1> DEFINE list == receipt.component_verdicts
<1>2. PlainList(list) /\ ValidReceipt(receipt, expected)
  BY <1>1 DEF PlainTransit
<1>3. /\ Buildable(receipt.request_id, receipt.context_hash, list)
      /\ receipt = BuiltReceipt(receipt.request_id, receipt.context_hash, list)
      /\ receipt.context_hash = expected
  BY <1>2 DEF ValidReceipt
<1>4. /\ receipt.final_outcome = Classify(DecisionsOf(list))[1]
      /\ receipt.handoff_allowed = (receipt.final_outcome = "ALLOW")
  BY <1>3, BuiltFields
<1>5. /\ \A i \in DOMAIN list :
           /\ list[i].component_id.name \in Supported
           /\ list[i].context_hash = expected
           /\ list[i].decision.name \in SupportedDecisions
      /\ \A i, j \in DOMAIN list : list[i].component_id = list[j].component_id => i = j
      /\ \A id \in Supported : \E i \in DOMAIN list : list[i].component_id = Plain(id)
  BY <1>3 DEF Buildable, ValidVerdict
<1>6. \A i \in DOMAIN list : list[i].component_id = Plain(list[i].component_id.name)
  BY <1>2 DEF PlainList, PlainVerdict, ElementsOf
<1>7. /\ (\E i \in DOMAIN list : list[i].decision.name \in {"DENY", "ERROR"})
           => receipt.final_outcome = "DENY"
      /\ receipt.final_outcome = "ALLOW"
           <=> \A i \in DOMAIN list : list[i].decision.name = "ALLOW"
  BY <1>2, <1>4, <1>5, OutcomeOfPlain
<1>8. \A id \in Supported :
         \E i \in DOMAIN list : VerdictsFor(id) = {i} /\ Said(id) = {list[i].decision.name}
  <2>1. TAKE id \in Supported
  <2>2. PICK i \in DOMAIN list : list[i].component_id = Plain(id)
    BY <1>5
  <2>3. list[i].component_id.name = id
    BY <2>2 DEF Plain
  <2>4. \A j \in DOMAIN list : list[j].component_id.name = id => j = i
    BY <1>5, <1>6, <2>2
  <2>5. VerdictsFor(id) = {i}
    BY <2>3, <2>4 DEF VerdictsFor
  <2>6. Said(id) = {list[i].decision.name}
    BY <2>5 DEF Said
  <2>7. QED
    BY <2>5, <2>6
<1>9. \A i \in DOMAIN list :
        \E id \in Supported : Said(id) = {list[i].decision.name}
  <2>1. TAKE i \in DOMAIN list
  <2>2. PICK id \in Supported : list[i].component_id.name = id
    BY <1>5
  <2>3. i \in VerdictsFor(id)
    BY <2>2 DEF VerdictsFor
  <2>4. QED
    BY <1>8, <2>2, <2>3
<1>10. \A id \in Supported : Cardinality(VerdictsFor(id)) = 1
  BY <1>8, FS_Singleton
<1>11. (\E id \in Supported : Said(id) \cap {"DENY", "ERROR"} # {})
         => receipt.final_outcome = "DENY"
  BY <1>7, <1>8
<1>12. receipt.final_outcome = "ALLOW" <=> \A id \in Supported : Said(id) = {"ALLOW"}
  <2>1. ASSUME \A i \in DOMAIN list : list[i].decision.name = "ALLOW"
        PROVE  \A id \in Supported : Said(id) = {"ALLOW"}
    BY <1>8, <2>1
  <2>2. ASSUME \A id \in Supported : Said(id) = {"ALLOW"}
        PROVE  \A i \in DOMAIN list : list[i].decision.name = "ALLOW"
    BY <1>9, <2>2
  <2>3. QED
    BY <1>7, <2>1, <2>2
<1>13. QED
  BY <1>3, <1>4, <1>5, <1>10, <1>11, <1>12 DEF AcceptedIsDerived

\* As long as names carry no white space, an accepted receipt is one the rules
\* derive from its own verdicts, whatever was done to it on its way.
THEOREM AcceptedReceiptsAreDerived ==
  ASSUME PlainLists
  PROVE  Spec => []AcceptedIsDerived
<1>1. Init => PlainTransit
  BY DEF Init, PlainTransit
<1>2. ASSUME PlainTransit, [Next]_vars
      PROVE  PlainTransit'
  <2>1. CASE Build
    BY <2>1, BuildIsPlain
  <2>2. CASE Change
    BY <1>2, <2>2, ChangeIsPlain
  <2>3. CASE Validate
    <3>1. /\ pc = "built" /\ receipt' = receipt
          /\ pc' = IF ValidReceipt(receipt, expected') THEN "accepted" ELSE "refused"
      BY <2>3 DEF Validate
    <3>2. QED
      BY <1>2, <3>1 DEF PlainTransit
  <2>4. CASE Done \/ UNCHANGED vars
    BY <1>2, <2>4 DEF Done, vars, PlainTransit
  <2>5. QED
    BY <1>2, <2>1, <2>2, <2>3, <2>4 DEF Next
<1>3. PlainTransit => AcceptedIsDerived
  BY AcceptedDerives
<1>4. QED
  BY <1>1, <1>2, <1>3, PTL DEF Spec
=============================================================================
