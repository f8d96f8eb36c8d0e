------------------------------ MODULE V32Proofs ------------------------------
(***************************************************************************)
(* What build_receipt and validate_receipt of v3.2 compute, for any        *)
(* components and any list of verdicts: the sort puts every verdict at one *)
(* place, so a receipt depends on what was said and not on the order it    *)
(* was said in, and validating a built receipt builds it again.            *)
(***************************************************************************)
EXTENDS V32Receipt, FiniteSets, FiniteSetTheorems, TLAPS

Texts == [name : STRING, padded : BOOLEAN]

ElementsOf(list) == {list[i] : i \in DOMAIN list}

\* A list of verdicts whose component ids are texts.
Listed(list) ==
  /\ list \in Seq(ElementsOf(list))
  /\ \A i \in DOMAIN list : list[i].component_id \in Texts

\* No two of its verdicts name the same component.
Distinct(list) ==
  \A i, j \in DOMAIN list : list[i].component_id = list[j].component_id => i = j

-----------------------------------------------------------------------------
(* Sorting *)

\* The place of a component is one, and its key tells white space apart.
LEMMA SortKeyIsInjective ==
  ASSUME NEW t \in Texts, t.name \in Supported, NEW u \in Texts, u.name \in Supported
  PROVE  /\ SortKey(t) \in Nat
         /\ SortKey(t) = SortKey(u) => t = u
<1> DEFINE place(x) == CHOOSE i \in DOMAIN SupportedComponents : SupportedComponents[i] = x.name
           tail(x)  == IF x.padded THEN 1 ELSE 0
<1>1. /\ place(t) \in DOMAIN SupportedComponents /\ SupportedComponents[place(t)] = t.name
      /\ place(u) \in DOMAIN SupportedComponents /\ SupportedComponents[place(u)] = u.name
  BY DEF Supported
<1>2. DOMAIN SupportedComponents \subseteq Nat
  BY SupportedAssumption
<1>3. SortKey(t) = 2 * place(t) + tail(t) /\ SortKey(u) = 2 * place(u) + tail(u)
  BY DEF SortKey
<1>4. tail(t) \in {0, 1} /\ tail(u) \in {0, 1}
  OBVIOUS
<1>5. tail(t) = tail(u) => t.padded = u.padded
  BY DEF Texts
<1>6. place(t) = place(u) /\ tail(t) = tail(u) => t = u
  BY <1>1, <1>5 DEF Texts
<1>7. place(t) \in Nat /\ place(u) \in Nat
  BY <1>1, <1>2
<1> HIDE DEF place, tail
<1>8. SortKey(t) \in Nat
  BY <1>3, <1>4, <1>7
<1>9. SortKey(t) = SortKey(u) => place(t) = place(u) /\ tail(t) = tail(u)
  BY <1>3, <1>4, <1>7
<1>10. QED
  BY <1>6, <1>8, <1>9

\* How many elements of S have a smaller key.
Rank(S, key, v) == Cardinality({w \in S : key[w] < key[v]})

\* In a finite set whose elements have keys of their own every element has a rank
\* of its own, and every rank is taken: how many keys are smaller.
LEMMA RanksAreTaken ==
  ASSUME NEW S, IsFiniteSet(S), NEW key \in [S -> Nat],
         \A v, w \in S : key[v] = key[w] => v = w
  PROVE  /\ Cardinality(S) \in Nat
         /\ \A v \in S : Rank(S, key, v) \in Nat /\ Rank(S, key, v) + 1 \in 1..Cardinality(S)
         /\ \A v, w \in S : Rank(S, key, v) = Rank(S, key, w) => v = w
         /\ \A i \in 1..Cardinality(S) : \E v \in S : Rank(S, key, v) = i - 1
<1> DEFINE n        == Cardinality(S)
           Below(v) == {w \in S : key[w] < key[v]}
           rank(v)  == Cardinality(Below(v))
           f        == [v \in S |-> rank(v) + 1]
<1>1. n \in Nat
  BY FS_CardinalityType
<1>2. \A v \in S : IsFiniteSet(Below(v)) /\ rank(v) \in Nat
  <2>1. TAKE v \in S
  <2>2. Below(v) \in SUBSET S
    OBVIOUS
  <2>3. IsFiniteSet(Below(v))
    BY <2>2, FS_Subset
  <2>4. QED
    BY <2>3, FS_CardinalityType
<1>3. \A v, w \in S : key[v] < key[w] => rank(v) < rank(w)
  <2>1. SUFFICES ASSUME NEW v \in S, NEW w \in S, key[v] < key[w] PROVE rank(v) < rank(w)
    OBVIOUS
  <2>2. \A x \in S : key[x] \in Nat
    OBVIOUS
  <2>3. Below(v) \in SUBSET Below(w)
    BY <2>1, <2>2
  <2>4. v \in Below(w) /\ v \notin Below(v)
    BY <2>1, <2>2
  <2>5. rank(v) <= rank(w) /\ rank(v) # rank(w)
    BY <1>2, <2>3, <2>4, FS_Subset
  <2>6. QED
    BY <1>2, <2>5
<1>4. \A v \in S : rank(v) < n
  <2>1. TAKE v \in S
  <2>2. Below(v) \in SUBSET S /\ v \notin Below(v)
    OBVIOUS
  <2>3. rank(v) <= n /\ rank(v) # n
    BY <2>2, FS_Subset
  <2>4. QED
    BY <1>1, <1>2, <2>3
<1>5. \A v, w \in S : rank(v) = rank(w) => v = w
  <2>1. SUFFICES ASSUME NEW v \in S, NEW w \in S, rank(v) = rank(w) PROVE v = w
    OBVIOUS
  <2>2. rank(v) \in Nat /\ rank(w) \in Nat /\ key[v] \in Nat /\ key[w] \in Nat
    BY <1>2
  <2>3. ~(key[v] < key[w]) /\ ~(key[w] < key[v])
    BY <1>3, <2>1, <2>2
  <2>4. key[v] = key[w]
    BY <2>2, <2>3
  <2>5. QED
    BY <2>4
<1>6. \A v \in S : f[v] = rank(v) + 1
  OBVIOUS
<1> HIDE DEF n, Below, f
<1>7. \A v \in S : rank(v) + 1 \in 1..n
  <2>1. TAKE v \in S
  <2>2. rank(v) \in Nat /\ rank(v) < n
    BY <1>2, <1>4
  <2> HIDE DEF rank
  <2>3. QED
    BY <1>1, <2>2
<1>8. f \in Injection(S, 1..n)
  <2>1. f \in [S -> 1..n]
    BY <1>7 DEF f
  <2>2. ASSUME NEW v \in S, NEW w \in S, f[v] = f[w] PROVE v = w
    <3>1. rank(v) \in Nat /\ rank(w) \in Nat /\ rank(v) + 1 = rank(w) + 1
      BY <1>2, <1>6, <2>2
    <3>2. rank(v) = rank(w)
      <4> HIDE DEF rank
      <4>1. QED
        BY <3>1
    <3>3. QED
      BY <1>5, <3>2
  <2>3. QED
    BY <2>1, <2>2 DEF Injection, IsInjective
<1>9. f \in Surjection(S, 1..n)
  <2>1. IsFiniteSet(1..n) /\ Cardinality(1..n) = n
    BY <1>1, FS_Interval
  <2>2. QED
    BY <1>8, <2>1, FS_Injection DEF n
<1>10. \A i \in 1..n : \E v \in S : rank(v) = i - 1
  <2>1. TAKE i \in 1..n
  <2>2. PICK v \in S : f[v] = i
    BY <1>9 DEF Surjection
  <2>3. rank(v) + 1 = i /\ rank(v) \in Nat
    BY <1>2, <1>6, <2>2
  <2>4. rank(v) = i - 1
    <3> HIDE DEF rank
    <3>1. QED
      BY <2>3
  <2>5. QED
    BY <2>4
<1>11. QED
  BY <1>1, <1>2, <1>5, <1>7, <1>10 DEF n, Below, Rank
\* A list has finitely many elements.
LEMMA ElementsAreFinite ==
  ASSUME NEW list, Listed(list)
  PROVE  IsFiniteSet(ElementsOf(list)) /\ DOMAIN list = 1..Len(list) /\ Len(list) \in Nat
<1>1. list \in Seq(ElementsOf(list))
  BY DEF Listed
<1>2. DOMAIN list = 1..Len(list) /\ Len(list) \in Nat /\ list \in [1..Len(list) -> ElementsOf(list)]
  BY <1>1
<1>3. list \in Surjection(1..Len(list), ElementsOf(list))
  BY <1>2 DEF Surjection, ElementsOf
<1>4. IsFiniteSet(1..Len(list))
  BY <1>2, FS_Interval
<1>5. QED
  BY <1>2, <1>3, <1>4, FS_Surjection

\* Sorting keeps what is in a list, and gives everything one place.
LEMMA SortedList ==
  ASSUME NEW list, Listed(list), Distinct(list),
         \A i \in DOMAIN list : list[i].component_id.name \in Supported
  PROVE  /\ Listed(Sorted(list)) /\ Distinct(Sorted(list))
         /\ ElementsOf(Sorted(list)) = ElementsOf(list)
<1> DEFINE S       == ElementsOf(list)
           key     == [v \in S |-> SortKey(v.component_id)]
           rank(v) == Rank(S, key, v)
           n       == Cardinality(S)
           s       == Sorted(list)
<1>1. IsFiniteSet(S)
  BY ElementsAreFinite
<1>2. \A v \in S : v.component_id \in Texts /\ v.component_id.name \in Supported
  BY DEF ElementsOf, Listed
<1>3. key \in [S -> Nat]
  BY <1>2, SortKeyIsInjective
<1>4. \A v, w \in S : v.component_id = w.component_id => v = w
  BY DEF ElementsOf, Distinct
<1>5. \A v, w \in S : key[v] = key[w] => v = w
  BY <1>2, <1>4, SortKeyIsInjective
<1>6. s = [i \in 1..n |-> CHOOSE v \in S : rank(v) = i - 1]
  <2>1. \A v \in S : {w \in S : key[w] < key[v]}
                       = {w \in S : SortKey(w.component_id) < SortKey(v.component_id)}
    OBVIOUS
  <2>2. s = [i \in 1..n |-> CHOOSE v \in S :
               Cardinality({w \in S : SortKey(w.component_id) < SortKey(v.component_id)}) = i - 1]
    BY Zenon DEF Sorted, ElementsOf
  <2>3. ASSUME NEW i \in 1..n
        PROVE  (CHOOSE v \in S :
                  Cardinality({w \in S : SortKey(w.component_id) < SortKey(v.component_id)}) = i - 1)
               = CHOOSE v \in S : rank(v) = i - 1
    BY <2>1 DEF Rank
  <2>4. QED
    BY <2>2, <2>3
<1> HIDE DEF S, key
<1>7. /\ n \in Nat
      /\ \A v \in S : rank(v) \in Nat /\ rank(v) + 1 \in 1..n
      /\ \A v, w \in S : rank(v) = rank(w) => v = w
      /\ \A i \in 1..n : \E v \in S : rank(v) = i - 1
  BY <1>1, <1>3, <1>5, RanksAreTaken
<1> HIDE DEF rank, n
<1>8. \A i \in 1..n : s[i] \in S /\ rank(s[i]) = i - 1
  BY <1>6, <1>7
<1>9. DOMAIN s = 1..n
  BY <1>6
<1> HIDE DEF s
<1>10. \A v \in S : \E i \in 1..n : s[i] = v
  <2>1. TAKE v \in S
  <2>2. PICK k \in Nat : rank(v) = k /\ k + 1 \in 1..n
    BY <1>7
  <2>3. rank(s[k + 1]) = (k + 1) - 1 /\ s[k + 1] \in S
    BY <1>8, <2>2
  <2>4. (k + 1) - 1 = k
    BY <2>2
  <2>5. s[k + 1] = v
    BY <1>7, <2>2, <2>3, <2>4
  <2>6. QED
    BY <2>2, <2>5
<1>11. \A i, j \in 1..n : s[i] = s[j] => i = j
  <2>1. SUFFICES ASSUME NEW i \in 1..n, NEW j \in 1..n, s[i] = s[j] PROVE i = j
    OBVIOUS
  <2>2. i - 1 = j - 1
    BY <1>8, <2>1
  <2>3. QED
    BY <1>7, <2>2
<1>12. ElementsOf(s) = S
  BY <1>8, <1>9, <1>10 DEF ElementsOf
<1>13. s \in Seq(ElementsOf(s))
  <2>1. s = [i \in 1..n |-> s[i]]
    BY <1>6 DEF s
  <2>2. \A i \in 1..n : s[i] \in S
    BY <1>8
  <2>3. [i \in 1..n |-> s[i]] \in Seq(S)
    BY <1>7, <2>2
  <2>4. QED
    BY <1>12, <2>1, <2>3
<1>14. Listed(s)
  BY <1>2, <1>8, <1>9, <1>13 DEF Listed
<1>15. Distinct(s)
  BY <1>4, <1>8, <1>9, <1>11 DEF Distinct
<1>16. QED
  BY <1>12, <1>14, <1>15 DEF s, S

\* The order a list comes in is gone when it is sorted.
LEMMA SortedForgetsOrder ==
  ASSUME NEW a, NEW b, ElementsOf(a) = ElementsOf(b)
  PROVE  Sorted(a) = Sorted(b) /\ DecisionsOf(a) = DecisionsOf(b)
<1>1. DecisionsOf(a) = {v.decision : v \in ElementsOf(a)}
  BY DEF DecisionsOf, ElementsOf
<1>2. DecisionsOf(b) = {v.decision : v \in ElementsOf(b)}
  BY DEF DecisionsOf, ElementsOf
<1> DEFINE In(S) == [i \in 1..Cardinality(S) |-> CHOOSE v \in S :
               Cardinality({w \in S : SortKey(w.component_id) < SortKey(v.component_id)}) = i - 1]
<1>3. Sorted(a) = In(ElementsOf(a)) /\ Sorted(b) = In(ElementsOf(b))
  BY Zenon DEF Sorted, ElementsOf
<1> HIDE DEF In
<1>4. QED
  BY <1>1, <1>2, <1>3

-----------------------------------------------------------------------------
(* Building and validating *)

\* What can be built of a list can be built of every order of it, and of the
\* request id once it is stripped; and it is the same receipt.
LEMMA OrderOfVerdicts ==
  ASSUME NEW id, NEW c, NEW a, NEW b, NEW other,
         Listed(b), Distinct(b), ElementsOf(a) = ElementsOf(b),
         Buildable(id, c, a), other.name = id.name
  PROVE  Buildable(other, c, b) /\ BuiltReceipt(other, c, b) = BuiltReceipt(id, c, a)
<1>1. /\ \A i \in DOMAIN b : \E j \in DOMAIN a : b[i] = a[j]
      /\ \A j \in DOMAIN a : \E i \in DOMAIN b : b[i] = a[j]
  <2>1. \A i \in DOMAIN b : b[i] \in ElementsOf(a)
    BY DEF ElementsOf
  <2>2. \A j \in DOMAIN a : a[j] \in ElementsOf(b)
    BY DEF ElementsOf
  <2>3. QED
    BY <2>1, <2>2 DEF ElementsOf
<1>2. /\ ~Blank(id) /\ c # Malformed /\ Encodable(id)
      /\ \A i \in DOMAIN a : ValidVerdict(a[i], c)
      /\ \A x \in Supported : \E i \in DOMAIN a : a[i].component_id = Plain(x)
      /\ \A i \in DOMAIN a : Encodable(a[i].request_id)
  BY DEF Buildable
<1>3. ~Blank(other) /\ Encodable(other) /\ Strip(other) = Strip(id)
  BY <1>2 DEF Blank, Encodable, Strip
<1>4. \A i \in DOMAIN b : ValidVerdict(b[i], c) /\ Encodable(b[i].request_id)
  BY <1>1, <1>2
<1>5. \A x \in Supported : \E i \in DOMAIN b : b[i].component_id = Plain(x)
  BY <1>1, <1>2
<1>6. Buildable(other, c, b)
  BY <1>2, <1>3, <1>4, <1>5 DEF Buildable, Distinct
<1>7. Sorted(a) = Sorted(b) /\ DecisionsOf(a) = DecisionsOf(b)
  BY SortedForgetsOrder
<1>8. BuiltReceipt(other, c, b) = BuiltReceipt(id, c, a)
  BY <1>3, <1>7, Zenon DEF BuiltReceipt
<1>9. QED
  BY <1>6, <1>8

\* The fields of a built receipt.
LEMMA BuiltFields ==
  ASSUME NEW id, NEW c, NEW list
  PROVE  LET built == BuiltReceipt(id, c, list)
             class == Classify(DecisionsOf(list))
         IN  /\ built.faults = {}
             /\ built.request_id = Strip(id) /\ built.context_hash = c
             /\ built.component_verdicts = Sorted(list)
             /\ built.final_outcome = class[1]
             /\ built.handoff_allowed = (class[1] = "ALLOW")
             /\ DOMAIN built = {"faults", "request_id", "context_hash", "component_verdicts",
                                "final_outcome", "dominant_reason", "handoff_allowed",
                                "receipt_hash"}
BY DEF BuiltReceipt

\* A receipt that was built validates for its own context and for no other.
LEMMA BuiltIsValid ==
  ASSUME NEW id, NEW c, NEW list, NEW expectation, Listed(list), Buildable(id, c, list)
  PROVE  ValidReceipt(BuiltReceipt(id, c, list), expectation) <=> expectation = c
<1> DEFINE built == BuiltReceipt(id, c, list)
           again == BuiltReceipt(Strip(id), c, Sorted(list))
<1>1. /\ built.faults = {} /\ built.request_id = Strip(id) /\ built.context_hash = c
      /\ built.component_verdicts = Sorted(list)
  BY BuiltFields
<1>2. Distinct(list) /\ \A i \in DOMAIN list : list[i].component_id.name \in Supported
  BY DEF Buildable, Distinct, ValidVerdict
<1>3. /\ Listed(Sorted(list)) /\ Distinct(Sorted(list))
      /\ ElementsOf(Sorted(list)) = ElementsOf(list)
  BY <1>2, SortedList
<1>4. Strip(id).name = id.name
  BY DEF Strip, Plain
<1>5. Buildable(Strip(id), c, Sorted(list)) /\ again = built
  BY <1>3, <1>4, OrderOfVerdicts
<1>6. c # Malformed
  BY DEF Buildable
<1> HIDE DEF built, again
<1>7. ValidReceipt(built, expectation) <=>
        /\ again.receipt_hash = built.receipt_hash
        /\ expectation # Malformed
        /\ again.context_hash = expectation
        /\ again = built
  BY <1>1, <1>5 DEF ValidReceipt, again
<1>8. QED
  BY <1>1, <1>5, <1>6, <1>7 DEF built
=============================================================================
