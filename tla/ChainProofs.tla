----------------------------- MODULE ChainProofs -----------------------------
(***************************************************************************)
(* Proofs about EvidenceChain: what a sort by keys returns, what the       *)
(* builder's own validators ask, and that a receipt that validates rests   *)
(* on verdicts that were genuine and that the registry in force trusts.    *)
(***************************************************************************)
EXTENDS ChainProperties, CheckProofs

-----------------------------------------------------------------------------
(* Sorting *)

\* A function over 1..n is a listing of that length.
LEMMA FunctionListing ==
  ASSUME NEW n \in Nat, NEW f, f = [i \in 1..n |-> f[i]]
  PROVE  IsListing(f) /\ Len(f) = n /\ DOMAIN f = 1..n
<1> DEFINE S == {f[i] : i \in 1..n}
<1>1. DOMAIN f = 1..n /\ f \in [1..n -> S]
  OBVIOUS
<1>2. f \in Seq(S)
  BY <1>1, SeqDef
<1>3. Len(f) \in Nat /\ DOMAIN f = 1..Len(f)
  BY <1>2, LenProperties
<1>4. Len(f) = n
  <2> DEFINE m == Len(f)
  <2>1. m \in Nat /\ 1..m = 1..n
    BY <1>1, <1>3
  <2> HIDE DEF m
  <2>2. m = n
    BY <2>1
  <2>3. QED
    BY <2>2 DEF m
<1>5. QED
  BY <1>1, <1>3, <1>4 DEF IsListing

\* What comes before the i-th of n elements when they are sorted by their keys.
Before(n, key, i) == {j \in 1..n : key[j] < key[i] \/ (key[j] = key[i] /\ j < i)}

\* An interval of naturals has as many elements as it says.
LEMMA IntervalSize ==
  ASSUME NEW n \in Nat
  PROVE  IsFiniteSet(1..n) /\ Cardinality(1..n) = n
<1>1. 0 \in Int /\ 1 \in Int /\ n \in Int /\ (1 > n => n = 0) /\ n - 1 + 1 = n
  OBVIOUS
<1>2. /\ IsFiniteSet(1..n)
      /\ Cardinality(1..n) = IF 1 > n THEN 0 ELSE n - 1 + 1
  BY <1>1, FS_Interval
<1>3. QED
  BY <1>1, <1>2

\* Every one of n elements has fewer than n before it, and no two have equally many:
\* of two, what is before the first is also before the second, and so is the first.
LEMMA BeforeGrows ==
  ASSUME NEW n \in Nat, NEW key, \A i \in 1..n : key[i] \in Nat
  PROVE  /\ \A i \in 1..n : Cardinality(Before(n, key, i)) \in 0..(n - 1)
         /\ \A i, j \in 1..n : i \in Before(n, key, j)
              => Cardinality(Before(n, key, i)) < Cardinality(Before(n, key, j))
         /\ \A i, j \in 1..n : i = j \/ i \in Before(n, key, j) \/ j \in Before(n, key, i)
<1> DEFINE B(i) == Before(n, key, i)
<1>1. \A i \in 1..n : B(i) \subseteq 1..n /\ i \notin B(i)
  BY DEF Before
<1>2. \A i, j \in 1..n : i = j \/ i \in B(j) \/ j \in B(i)
  BY DEF Before
<1>3. \A i, j \in 1..n : i \in B(j) => B(i) \subseteq B(j)
  BY DEF Before
<1>4. IsFiniteSet(1..n) /\ Cardinality(1..n) = n
  BY IntervalSize
<1> HIDE DEF B
<1>5. ASSUME NEW S \in SUBSET (1..n), NEW T \in SUBSET S, NEW x \in S, x \notin T
      PROVE  /\ IsFiniteSet(S) /\ Cardinality(S) \in Nat /\ Cardinality(T) \in Nat
             /\ Cardinality(T) < Cardinality(S)
  <2>1. IsFiniteSet(S)
    BY <1>4, FS_Subset
  <2>2. IsFiniteSet(T) /\ Cardinality(T) <= Cardinality(S) /\ Cardinality(S) # Cardinality(T)
    BY <1>5, <2>1, FS_Subset
  <2>3. Cardinality(S) \in Nat /\ Cardinality(T) \in Nat
    BY <2>1, <2>2, FS_CardinalityType
  <2>4. QED
    BY <2>1, <2>2, <2>3
<1>6. \A i \in 1..n : Cardinality(B(i)) \in 0..(n - 1)
  <2> SUFFICES ASSUME NEW i \in 1..n PROVE Cardinality(B(i)) \in 0..(n - 1)
    OBVIOUS
  <2>1. 1..n \in SUBSET (1..n) /\ B(i) \in SUBSET (1..n) /\ i \notin B(i)
    BY <1>1
  <2>2. Cardinality(B(i)) \in Nat /\ Cardinality(B(i)) < n
    BY <1>4, <1>5, <2>1
  <2>3. QED
    BY <2>2
<1>7. \A i, j \in 1..n : i \in B(j) => Cardinality(B(i)) < Cardinality(B(j))
  BY <1>1, <1>3, <1>5
<1>8. QED
  BY <1>2, <1>6, <1>7 DEF B

\* The k-th element of a sorted list is the one with k - 1 elements before it.
Places(n, list, key, at) ==
  \A k \in 1..n : /\ SortedBy(list, key)[k] = list[at[k]]
                  /\ Cardinality(Before(n, key, at[k])) = k - 1

\* Sorting is a permutation: the k-th element of the result is the one with k - 1
\* elements before it, and there is exactly one.
LEMMA SortPlaces ==
  ASSUME NEW n \in Nat, NEW list, IsListing(list), Len(list) = n,
         NEW key, \A i \in 1..n : key[i] \in Nat
  PROVE  LET sorted == SortedBy(list, key)
         IN  /\ IsListing(sorted) /\ Len(sorted) = n /\ DOMAIN sorted = 1..n
             /\ \E at \in Injection(1..n, 1..n) : Places(n, list, key, at)
<1> DEFINE B(i) == Before(n, key, i)
           sorted == SortedBy(list, key)
           rank == [i \in 1..n |-> Cardinality(B(i)) + 1]
           at == [k \in 1..n |-> CHOOSE i \in 1..n : Cardinality(B(i)) = k - 1]
<1>1. DOMAIN list = 1..n
  BY DEF IsListing
<1>2. sorted = [k \in 1..n |-> list[at[k]]]
  BY <1>1 DEF SortedBy, Before
<1>3. \A i \in 1..n : Cardinality(B(i)) \in 0..(n - 1)
  BY BeforeGrows
<1>4. rank \in [1..n -> 1..n]
  BY <1>3
<1>5. \A i, j \in 1..n : Cardinality(B(i)) = Cardinality(B(j)) => i = j
  <2>1. /\ \A i, j \in 1..n : i \in B(j) => Cardinality(B(i)) < Cardinality(B(j))
        /\ \A i, j \in 1..n : i = j \/ i \in B(j) \/ j \in B(i)
    BY BeforeGrows
  <2> HIDE DEF B
  <2>2. QED
    BY <1>3, <2>1
<1>6. rank \in Injection(1..n, 1..n)
  <2>1. \A i, j \in 1..n : rank[i] = rank[j] => i = j
    <3> SUFFICES ASSUME NEW i \in 1..n, NEW j \in 1..n, rank[i] = rank[j] PROVE i = j
      OBVIOUS
    <3>1. Cardinality(B(i)) + 1 = Cardinality(B(j)) + 1
      OBVIOUS
    <3>2. Cardinality(B(i)) \in Nat /\ Cardinality(B(j)) \in Nat
      BY <1>3
    <3>3. QED
      BY <1>5, <3>1, <3>2
  <2> HIDE DEF rank
  <2>2. QED
    BY <1>4, <2>1 DEF Injection, IsInjective
<1>7. rank \in Surjection(1..n, 1..n)
  BY <1>6, IntervalSize, FS_Injection
<1>8. ASSUME NEW k \in 1..n PROVE at[k] \in 1..n /\ Cardinality(B(at[k])) = k - 1
  <2>1. PICK i \in 1..n : rank[i] = k
    BY <1>7 DEF Surjection
  <2>2. Cardinality(B(i)) + 1 = k /\ Cardinality(B(i)) \in Nat
    BY <1>3, <2>1
  <2> HIDE DEF B
  <2>3. Cardinality(B(i)) = k - 1
    BY <2>2
  <2>4. QED
    BY <2>3
<1>9. at \in Injection(1..n, 1..n)
  <2>1. at \in [1..n -> 1..n]
    BY <1>8
  <2>2. \A k, l \in 1..n : k - 1 = l - 1 => k = l
    OBVIOUS
  <2> HIDE DEF at, B
  <2>3. \A k, l \in 1..n : at[k] = at[l] => k = l
    BY <1>8, <2>2
  <2>4. QED
    BY <2>1, <2>3 DEF Injection, IsInjective
<1>10. IsListing(sorted) /\ Len(sorted) = n /\ DOMAIN sorted = 1..n
  <2>1. sorted = [k \in 1..n |-> sorted[k]]
    BY <1>2
  <2> HIDE DEF sorted
  <2>2. QED
    BY <2>1, FunctionListing
<1>11. Places(n, list, key, at)
  BY <1>2, <1>8 DEF Places
<1> HIDE DEF at, sorted, B
<1>12. QED
  BY <1>9, <1>10, <1>11 DEF sorted

\* When what comes before an element is what has a smaller place, and places run from
\* 1 to n, sorting puts every element in its place.
LEMMA SortByPlace ==
  ASSUME NEW n \in Nat, NEW list, IsListing(list), Len(list) = n,
         NEW key, \A i \in 1..n : key[i] \in Nat,
         NEW place \in Injection(1..n, 1..n),
         \A i, j \in 1..n : i \in Before(n, key, j) <=> place[i] < place[j]
  PROVE  \A i \in 1..n : SortedBy(list, key)[place[i]] = list[i]
<1> DEFINE B(i) == Before(n, key, i)
<1>1. place \in [1..n -> 1..n] /\ place \in Surjection(1..n, 1..n)
  BY IntervalSize, FS_Injection DEF Injection
<1>2. ASSUME NEW i \in 1..n PROVE Cardinality(B(i)) = place[i] - 1
  <2> DEFINE p == place[i]
             f == [j \in B(i) |-> place[j]]
  <2>1. p \in 1..n /\ p - 1 \in Nat
    BY <1>1
  <2>2. \A j \in B(i) : j \in 1..n /\ place[j] \in 1..(p - 1)
    <3>1. \A j \in B(i) : j \in 1..n
      BY DEF Before
    <3>2. \A j \in B(i) : place[j] \in 1..n /\ place[j] < p
      BY <1>1, <3>1
    <3> HIDE DEF p, B
    <3>3. QED
      BY <2>1, <3>1, <3>2
  <2>3. \A k \in 1..(p - 1) : \E j \in B(i) : place[j] = k
    <3> SUFFICES ASSUME NEW k \in 1..(p - 1) PROVE \E j \in B(i) : place[j] = k
      OBVIOUS
    <3>1. k \in 1..n /\ k < p
      BY <2>1
    <3>2. PICK j \in 1..n : place[j] = k
      BY <1>1, <3>1 DEF Surjection
    <3>3. QED
      BY <3>1, <3>2
  <2> HIDE DEF p, B
  <2>4. f \in Surjection(B(i), 1..(p - 1))
    BY <2>2, <2>3 DEF Surjection
  <2>5. f \in Injection(B(i), 1..(p - 1))
    <3>1. \A j, k \in 1..n : place[j] = place[k] => j = k
      BY DEF Injection, IsInjective
    <3>2. f \in [B(i) -> 1..(p - 1)]
      BY <2>2
    <3>3. QED
      BY <2>2, <3>1, <3>2 DEF Injection, IsInjective
  <2>6. IsFiniteSet(1..(p - 1)) /\ Cardinality(1..(p - 1)) = p - 1
    BY <2>1, IntervalSize
  <2>7. Cardinality(B(i)) = Cardinality(1..(p - 1))
    BY <2>4, <2>5, <2>6, FS_Injection
  <2>8. QED
    BY <2>6, <2>7 DEF p
<1>3. PICK at \in Injection(1..n, 1..n) : Places(n, list, key, at)
  BY SortPlaces
<1>4. ASSUME NEW i \in 1..n PROVE SortedBy(list, key)[place[i]] = list[i]
  <2>1. place[i] \in 1..n
    BY <1>1
  <2>2. /\ SortedBy(list, key)[place[i]] = list[at[place[i]]]
        /\ Cardinality(B(at[place[i]])) = place[i] - 1
    BY <1>3, <2>1 DEF Places
  <2>3. at[place[i]] \in 1..n /\ Cardinality(B(at[place[i]])) = Cardinality(B(i))
    BY <1>2, <2>1, <2>2 DEF Injection
  <2>4. \A k \in 1..n : Cardinality(B(k)) \in 0..(n - 1)
    BY BeforeGrows
  <2>5. \A k, l \in 1..n : \/ k = l \/ Cardinality(B(k)) < Cardinality(B(l))
                           \/ Cardinality(B(l)) < Cardinality(B(k))
    <3>1. /\ \A k, l \in 1..n : k \in B(l) => Cardinality(B(k)) < Cardinality(B(l))
          /\ \A k, l \in 1..n : k = l \/ k \in B(l) \/ l \in B(k)
      BY BeforeGrows
    <3> HIDE DEF B
    <3>2. QED
      BY <3>1
  <2> HIDE DEF B
  <2>6. at[place[i]] = i
    <3> DEFINE k == at[place[i]]
    <3>1. k \in 1..n /\ Cardinality(B(k)) = Cardinality(B(i)) /\ Cardinality(B(i)) \in Nat
      BY <2>3, <2>4
    <3> HIDE DEF k
    <3>2. k = i
      BY <2>5, <3>1
    <3>3. QED
      BY <3>2 DEF k
  <2>7. QED
    BY <2>2, <2>6
<1>5. QED
  BY <1>4

-----------------------------------------------------------------------------
(* Verdicts in order *)

\* A component's rank is its place in the canonical list.
LEMMA RankIsPlace ==
  ASSUME NEW id \in ComponentIds
  PROVE  ArtifactRank(id) \in 1..Len(Components) /\ Components[ArtifactRank(id)] = id
<1>1. DOMAIN Components = 1..Len(Components)
  BY ComponentsAssumption
<1>2. id # Orchestrator /\ \E i \in DOMAIN Components : Components[i] = id
  BY ComponentsAssumption DEF ComponentIds, Orchestrator
<1>3. ArtifactRank(id) = CHOOSE i \in DOMAIN Components : Components[i] = id
  BY <1>2 DEF ArtifactRank
<1>4. QED
  BY <1>1, <1>2, <1>3

\* Verdicts have keys to be sorted by.
LEMMA IdRankIsNatural ==
  ASSUME NEW verdict, IsSubmitted(verdict)
  PROVE  IdRank(verdict) \in Nat
<1> DEFINE rank == ArtifactRank(verdict.component_id)
           odd == IF verdict.padded THEN 1 ELSE 0
<1>1. rank \in Nat
  BY RankIsPlace, ComponentsAssumption DEF IsSubmitted
<1>2. odd \in Nat
  OBVIOUS
<1> HIDE DEF rank, odd
<1>3. 2 * rank + odd \in Nat
  BY <1>1, <1>2
<1>4. QED
  BY <1>3 DEF IdRank, rank, odd

\* The verdicts in order are the verdicts that were submitted, each once.
LEMMA OrderPermutes ==
  ASSUME NEW list, IsSubmission(list)
  PROVE  LET n == Len(list)
         IN  /\ n \in Nat /\ DOMAIN list = 1..n
             /\ IsSubmission(InOrder(list)) /\ Len(InOrder(list)) = n
             /\ DOMAIN InOrder(list) = 1..n
             /\ \E at \in Injection(1..n, 1..n) :
                  /\ \A k \in 1..n : InOrder(list)[k] = list[at[k]]
                  /\ at \in Surjection(1..n, 1..n)
<1> DEFINE n == Len(list)
           key == [i \in DOMAIN list |-> IdRank(list[i])]
<1>1. n \in Nat /\ DOMAIN list = 1..n /\ IsListing(list)
  BY DEF IsSubmission, IsListing
<1>2. \A i \in 1..n : key[i] \in Nat
  BY <1>1, IdRankIsNatural DEF IsSubmission
<1>3. InOrder(list) = SortedBy(list, key)
  BY DEF InOrder
<1> HIDE DEF n, key
<1>4. Len(list) = n
  BY DEF n
<1>5. IsListing(InOrder(list)) /\ Len(InOrder(list)) = n /\ DOMAIN InOrder(list) = 1..n
  BY <1>1, <1>2, <1>3, <1>4, SortPlaces
<1>6. PICK at \in Injection(1..n, 1..n) : \A k \in 1..n : InOrder(list)[k] = list[at[k]]
  <2>1. PICK at \in Injection(1..n, 1..n) : Places(n, list, key, at)
    BY <1>1, <1>2, <1>4, SortPlaces
  <2>2. QED
    BY <1>3, <2>1 DEF Places
<1>7. at \in Surjection(1..n, 1..n) /\ \A k \in 1..n : at[k] \in 1..n
  BY <1>1, IntervalSize, FS_Injection DEF Injection
<1>8. IsSubmission(InOrder(list))
  BY <1>1, <1>5, <1>6, <1>7 DEF IsSubmission
<1>9. QED
  BY <1>1, <1>5, <1>6, <1>7, <1>8 DEF n

-----------------------------------------------------------------------------
(* What the chain's checks ask *)

\* Whose verdict it is, to the letter.
IdText(verdict) == <<verdict.component_id, verdict.padded>>

\* verify_component_verdicts.
LEMMA ComponentsExact ==
  ASSUME NEW list, IsListing(list), NEW g, NEW now
  PROVE  ComponentsVerdict(list, g, now) = Ok
           <=> /\ Len(list) = Len(Components) /\ LoadRegistryVerdict(g) = Ok
               /\ \A i \in DOMAIN list :
                    ComponentEnvelopeVerdict(list[i], g, now, AcceptedOf(list[i])) = Ok
               /\ \A i \in DOMAIN list :
                    \A j \in 1..(i - 1) : IdText(list[j]) # IdText(list[i])
<1> DEFINE Envelope(i) == ComponentEnvelopeVerdict(list[i], g, now, AcceptedOf(list[i]))
           IsNew(i) == \A j \in 1..(i - 1) : IdText(list[j]) # IdText(list[i])
           New(i) == Demand(IsNew(i), {})
           Each == [i \in DOMAIN list |-> FirstFailure(<<Envelope(i), New(i)>>)]
           Count == Demand(Len(list) = Len(Components), {})
<1>1. ComponentsVerdict(list, g, now)
        = FirstFailure(<<Count, LoadRegistryVerdict(g), FirstFailure(Each)>>)
  BY DEF ComponentsVerdict, IdText
<1>2. /\ \A i : New(i) = Ok <=> IsNew(i)
      /\ Count = Ok <=> Len(list) = Len(Components)
  BY NoReasonIsOk DEF Demand, Require
<1>3. /\ DOMAIN Each = DOMAIN list
      /\ \A i \in DOMAIN list : Each[i] = FirstFailure(<<Envelope(i), New(i)>>)
  OBVIOUS
<1> HIDE DEF Envelope, IsNew, New, Each, Count
<1>4. FirstFailure(Each) = Ok <=> \A i \in DOMAIN list : Each[i] = Ok
  BY <1>3, ListingPasses
<1>5. \A i \in DOMAIN list : Each[i] = Ok <=> Envelope(i) = Ok /\ New(i) = Ok
  BY <1>3, FirstFailure2
<1>6. ComponentsVerdict(list, g, now) = Ok
        <=> Count = Ok /\ LoadRegistryVerdict(g) = Ok /\ FirstFailure(Each) = Ok
  BY <1>1, FirstFailure3
<1>7. ComponentsVerdict(list, g, now) = Ok
        <=> /\ Len(list) = Len(Components) /\ LoadRegistryVerdict(g) = Ok
            /\ \A i \in DOMAIN list : Envelope(i) = Ok
            /\ \A i \in DOMAIN list : IsNew(i)
  BY <1>2, <1>4, <1>5, <1>6, Zenon
<1>8. QED
  BY <1>7, Zenon DEF Envelope, IsNew

\* It keeps to the fixed reasons.
LEMMA ComponentsReason ==
  ASSUME NEW list, IsSubmission(list), NEW g, IsListing(g.entries), NEW now
  PROVE  ComponentsVerdict(list, g, now) \in AuditReasonIds
<1> DEFINE Envelope(i) == ComponentEnvelopeVerdict(list[i], g, now, AcceptedOf(list[i]))
           New(i) == Demand(\A j \in 1..(i - 1) : IdText(list[j]) # IdText(list[i]), {})
           Each == [i \in DOMAIN list |-> FirstFailure(<<Envelope(i), New(i)>>)]
           Count == Demand(Len(list) = Len(Components), {})
<1>1. ComponentsVerdict(list, g, now)
        = FirstFailure(<<Count, LoadRegistryVerdict(g), FirstFailure(Each)>>)
  BY DEF ComponentsVerdict, IdText
<1>2. Count \in AuditReasonIds /\ \A i \in DOMAIN list : New(i) \in AuditReasonIds
  BY SingleCheckReason DEF Demand, Require
<1>3. \A i \in DOMAIN list : Envelope(i) \in AuditReasonIds
  <2> SUFFICES ASSUME NEW i \in DOMAIN list PROVE Envelope(i) \in AuditReasonIds
    OBVIOUS
  <2> DEFINE c == list[i]
             accepted == AcceptedOf(c)
  <2>1. IsListing(c.signature_bundle.signatures)
    BY DEF IsSubmission, IsSubmitted
  <2> HIDE DEF c, accepted
  <2>2. ComponentEnvelopeVerdict(c, g, now, accepted) \in AuditReasonIds
    BY <2>1, ComponentEnvelopeReason
  <2>3. QED
    BY <2>2 DEF c, accepted
<1>4. IsListing(list)
  BY DEF IsSubmission
<1> HIDE DEF Envelope, New
<1>5. /\ DOMAIN Each = DOMAIN list
      /\ \A i \in DOMAIN list : Each[i] = FirstFailure(<<Envelope(i), New(i)>>)
  OBVIOUS
<1>6. LoadRegistryVerdict(g) \in AuditReasonIds
  BY LoadRegistryReason
<1> HIDE DEF Each, Count
<1>7. \A i \in DOMAIN list : Each[i] \in AuditReasonIds
  <2>1. \A i \in DOMAIN list : FirstFailure(<<Envelope(i), New(i)>>) \in AuditReasonIds
    BY <1>2, <1>3, FirstFailure2
  <2>2. QED
    BY <1>5, <2>1
<1>8. FirstFailure(Each) \in AuditReasonIds
  BY <1>4, <1>7, <1>5, ListingReason
<1>9. QED
  BY <1>1, <1>2, <1>6, <1>8, FirstFailure3

\* So a receipt's list holds one verdict of every component.
LEMMA ReceiptListIsComplete ==
  ASSUME NEW list, IsListing(list), ReceiptListVerdict(list) = Ok
  PROVE  /\ Len(list) = Len(Components)
         /\ {v.component_id : v \in ToSet(list)} = ComponentIds
         /\ \A v \in ToSet(list) : v.decision \in Decisions
<1>1. /\ Len(list) = Len(Components)
      /\ \A i \in DOMAIN list : Fits(list[i])
      /\ \A i \in DOMAIN list :
           \A j \in 1..(i - 1) : list[j].component_id # list[i].component_id
  BY ReceiptListExact
<1>2. \A i \in DOMAIN list : list[i].component_id \in ComponentIds /\ list[i].decision \in Decisions
  BY <1>1 DEF Fits
<1>3. {v.component_id : v \in ToSet(list)} = ComponentIds
  BY <1>1, <1>2, ComponentsOnce
<1>4. QED
  BY <1>1, <1>2, <1>3 DEF ToSet

\* A lookup that succeeds in a registry without doubles found a key that is trusted
\* for all of the artifact's life.
LEMMA FindKeyTrusts ==
  ASSUME NEW g, IsListing(g.entries), Distinct(g), NEW artifact, NEW entry, NEW now,
         NEW not_before, NEW not_after,
         FindKeyVerdict(g, artifact, entry.key, entry.algorithm, now, not_before, not_after) = Ok
  PROVE  TrustedFor(g, artifact, entry, not_before, not_after)
<1> DEFINE found == KeyIndex(g, artifact, entry.key, entry.algorithm)
           Is(i) == KeyIdentity(g.entries[i]) = <<artifact, entry.key, entry.algorithm>>
           k == g.entries[found]
<1>1. /\ found # 0 /\ k.status = "active"
      /\ k.not_before <= not_before /\ not_after <= k.not_after
  BY NoReasonIsOk, FirstFailure3 DEF FindKeyVerdict, Demand, Require
<1>2. \/ found = 0 /\ \A i \in DOMAIN g.entries : ~Is(i)
      \/ /\ found \in DOMAIN g.entries /\ found # 0
         /\ \A i \in DOMAIN g.entries : Is(i) <=> i = found
  BY KeyIndexFinds
<1>3. found \in DOMAIN g.entries /\ Is(found)
  BY <1>1, <1>2, Zenon
<1> HIDE DEF found
<1>4. QED
  BY <1>1, <1>3 DEF TrustedFor, ToSet

\* A bundle that verifies is signed with keys the registry trusts.
LEMMA BundleTrusts ==
  ASSUME NEW g, IsListing(g.entries), LoadRegistryVerdict(g) = Ok,
         NEW bundle, IsListing(bundle.signatures), HasKnownFaults(bundle), NEW role,
         NEW artifact, NEW now, NEW accepted,
         BundleVerdict(bundle, role, "own", g, now, artifact.not_before, artifact.not_after,
                       accepted) = Ok
  PROVE  Trusted(g, bundle, role, artifact) /\ accepted # {}
<1>1. Distinct(g)
  BY LoadRegistryExact
<1>2. Verifies(bundle, role, "own", g, now, artifact.not_before, artifact.not_after, accepted)
  BY BundleExact
<1>3. /\ bundle.signatures # <<>>
      /\ \A i \in DOMAIN bundle.signatures :
           /\ FindKeyVerdict(g, role, bundle.signatures[i].key, bundle.signatures[i].algorithm,
                             now, artifact.not_before, artifact.not_after) = Ok
           /\ bundle.signatures[i].algorithm \in accepted
  BY <1>2, Zenon DEF Verifies
<1>4. \A i \in DOMAIN bundle.signatures :
        TrustedFor(g, role, bundle.signatures[i], artifact.not_before, artifact.not_after)
  BY <1>1, <1>3, FindKeyTrusts
<1>5. Trusted(g, bundle, role, artifact)
  BY <1>4 DEF Trusted, TrustedFor, ToSet
<1>6. accepted # {}
  <2>1. 1 \in DOMAIN bundle.signatures
    BY <1>3, EmptyListing DEF IsListing
  <2>2. QED
    BY <1>3, <2>1
<1>7. QED
  BY <1>5, <1>6

-----------------------------------------------------------------------------
(* What is built *)

\* What the Orchestrator signs with.
LEMMA OwnBundleHolds ==
  ASSUME NEW request
  PROVE  IsListing(OwnBundle(request).signatures) /\ HasKnownFaults(OwnBundle(request))
<1> DEFINE algorithms == IF request.include_optional_fn_dsa
                         THEN <<"classical-ed25519", "ml-dsa", "fn-dsa">>
                         ELSE <<"classical-ed25519", "ml-dsa">>
           n == IF request.include_optional_fn_dsa THEN 3 ELSE 2
           entries == [i \in DOMAIN algorithms |-> SignatureEntry(Orchestrator, algorithms[i], 1)]
           key == [i \in DOMAIN entries |-> AlgorithmRank(entries[i].algorithm)]
           sorted == SortedBy(entries, key)
<1>1. n \in Nat /\ DOMAIN algorithms = 1..n
  <2>1. CASE request.include_optional_fn_dsa
    BY <2>1
  <2>2. CASE ~request.include_optional_fn_dsa
    BY <2>2
  <2>3. QED
    BY <2>1, <2>2
<1>2. /\ OwnBundle(request).signatures = sorted
      /\ OwnBundle(request).faults = {}
  BY DEF OwnBundle, Bundle
<1>3. /\ DOMAIN entries = 1..n
      /\ \A i \in 1..n : entries[i].faults = {}
      /\ entries = [i \in 1..n |-> entries[i]]
  BY <1>1 DEF SignatureEntry
<1>4. \A i \in 1..n : key[i] \in Nat
  BY <1>3 DEF AlgorithmRank
<1> HIDE DEF algorithms, n, entries, key
<1>5. IsListing(entries) /\ Len(entries) = n
  BY <1>1, <1>3, FunctionListing
<1>6. IsListing(sorted) /\ DOMAIN sorted = 1..n
  BY <1>1, <1>4, <1>5, SortPlaces
<1>7. PICK at \in Injection(1..n, 1..n) : Places(n, entries, key, at)
  BY <1>1, <1>4, <1>5, SortPlaces
<1>8. \A k \in 1..n : sorted[k].faults = {}
  <2>1. \A k \in 1..n : at[k] \in 1..n /\ sorted[k] = entries[at[k]]
    BY <1>7 DEF Places, Injection
  <2>2. QED
    BY <1>3, <2>1
<1> HIDE DEF sorted
<1>9. QED
  BY <1>2, <1>6, <1>8 DEF HasKnownFaults

\* The summaries are as many as the verdicts.
LEMMA SummariesHold ==
  ASSUME NEW list, IsSubmission(list)
  PROVE  /\ IsListing(Summaries(list)) /\ DOMAIN Summaries(list) = DOMAIN list
<1> DEFINE n == Len(list)
<1>1. n \in Nat /\ DOMAIN list = 1..n
  BY DEF IsSubmission, IsListing
<1>2. DOMAIN Summaries(list) = 1..n /\ Summaries(list) = [i \in 1..n |-> Summaries(list)[i]]
  BY <1>1 DEF Summaries
<1> HIDE DEF n
<1>3. QED
  BY <1>1, <1>2, FunctionListing

\* What a receipt of the chain is made of.
IsBuilt(r) ==
  /\ IsSubmission(r.component_verdicts)
  /\ IsListing(r.component_signature_results)
  /\ IsListing(r.signature_bundle.signatures) /\ HasKnownFaults(r.signature_bundle)

\* Everything that is built is made of that.
LEMMA BuiltHolds ==
  ASSUME NEW list, IsSubmission(list), NEW g, NEW request
  PROVE  IsBuilt(ReceiptOf(list, g, request))
<1>1. IsSubmission(InOrder(list))
  BY OrderPermutes
<1>2. IsListing(Summaries(list))
  BY SummariesHold
<1>3. IsListing(OwnBundle(request).signatures) /\ HasKnownFaults(OwnBundle(request))
  BY OwnBundleHolds
<1>4. QED
  BY <1>1, <1>2, <1>3 DEF IsBuilt, ReceiptOf

\* Validating such a receipt keeps to the fixed reasons.
LEMMA EnvelopeReason ==
  ASSUME NEW r, IsBuilt(r), NEW g, IsListing(g.entries), NEW now
  PROVE  EnvelopeVerdict(r, g, now) \in AuditReasonIds
<1>1. HoldsListings(r) /\ IsListing(r.component_verdicts)
  BY DEF IsBuilt, IsSubmission, IsSubmitted, HoldsListings
<1>2. /\ LoadRegistryVerdict(g) \in AuditReasonIds
      /\ ReceiptEnvelopeVerdict(r, g, now, Tokens(r)) \in AuditReasonIds
  BY <1>1, LoadRegistryReason, ReceiptEnvelopeReason
<1>3. QED
  BY <1>2, FirstFailure2 DEF EnvelopeVerdict

\* And what it asks.
LEMMA EnvelopeExact ==
  ASSUME NEW r, NEW g, NEW now
  PROVE  EnvelopeVerdict(r, g, now) = Ok
           <=> /\ ReceiptListVerdict(r.component_verdicts) = Ok
               /\ LoadRegistryVerdict(g) = Ok
               /\ ReceiptEnvelopeVerdict(r, g, now, Tokens(r)) = Ok
<1>1. EnvelopeVerdict(r, g, now) = Ok
        <=> LoadRegistryVerdict(g) = Ok /\ ReceiptEnvelopeVerdict(r, g, now, Tokens(r)) = Ok
  BY FirstFailure2 DEF EnvelopeVerdict
<1>2. ReceiptEnvelopeVerdict(r, g, now, Tokens(r)) = Ok
        => ReceiptListVerdict(r.component_verdicts) = Ok
  BY ReceiptEnvelopeExact, SemanticsExact
<1>3. QED
  BY <1>1, <1>2

\* The checks of the builder.
LEMMA BuildExact ==
  ASSUME NEW list, NEW built, NEW g, NEW now
  PROVE  /\ BuildVerdict(list, built, g, now) = Ok
              <=> /\ ComponentsVerdict(list, g, now) = Ok /\ ReceiptListVerdict(list) = Ok
                  /\ EnvelopeVerdict(built, g, now) = Ok
         /\ IsSubmission(list) /\ IsBuilt(built) /\ IsListing(g.entries)
              => BuildVerdict(list, built, g, now) \in AuditReasonIds
<1>1. IsSubmission(list) /\ IsBuilt(built) /\ IsListing(g.entries) =>
        /\ ComponentsVerdict(list, g, now) \in AuditReasonIds
        /\ ReceiptListVerdict(list) \in AuditReasonIds
        /\ EnvelopeVerdict(built, g, now) \in AuditReasonIds
  BY ComponentsReason, ReceiptListReason, EnvelopeReason DEF IsSubmission
<1>2. QED
  BY <1>1, FirstFailure3 DEF BuildVerdict

\* A verdict that verifies is genuine, and the registry trusts what signed it.
LEMMA EnvelopeTrusts ==
  ASSUME NEW c, IsSubmitted(c), NEW g, IsListing(g.entries), LoadRegistryVerdict(g) = Ok, NEW now,
         ComponentEnvelopeVerdict(c, g, now, AcceptedOf(c)) = Ok
  PROVE  c.genuine /\ Trusted(g, c.signature_bundle, c.component_id, c)
<1> DEFINE accepted == AcceptedOf(c)
<1>1. BundleVerdict(c.signature_bundle, c.component_id, "own", g, now, c.not_before,
                    c.not_after, accepted) = Ok
  BY ComponentEnvelopeExact
<1>2. IsListing(c.signature_bundle.signatures) /\ HasKnownFaults(c.signature_bundle)
  BY DEF IsSubmitted
<1> HIDE DEF accepted
<1>3. Trusted(g, c.signature_bundle, c.component_id, c) /\ accepted # {}
  BY <1>1, <1>2, BundleTrusts
<1>4. QED
  BY <1>3 DEF accepted, AcceptedOf, IsSubmitted

\* Verdicts that verify verify again in order: the checks do not depend on it.
LEMMA OrderVerifies ==
  ASSUME NEW list, IsSubmission(list), NEW g, NEW now, ComponentsVerdict(list, g, now) = Ok
  PROVE  ComponentsVerdict(InOrder(list), g, now) = Ok
<1> DEFINE n == Len(list)
           sorted == InOrder(list)
           Envelope(c) == ComponentEnvelopeVerdict(c, g, now, AcceptedOf(c))
<1>1. /\ n \in Nat /\ DOMAIN list = 1..n /\ IsListing(list)
      /\ IsListing(sorted) /\ Len(sorted) = n /\ DOMAIN sorted = 1..n
  BY OrderPermutes DEF IsSubmission
<1>2. PICK at \in Injection(1..n, 1..n) : \A k \in 1..n : sorted[k] = list[at[k]]
  BY OrderPermutes
<1>3. /\ n = Len(Components) /\ LoadRegistryVerdict(g) = Ok
      /\ \A i \in 1..n : Envelope(list[i]) = Ok
      /\ \A i \in 1..n : \A j \in 1..(i - 1) : IdText(list[j]) # IdText(list[i])
  BY <1>1, ComponentsExact
<1>4. /\ \A k \in 1..n : at[k] \in 1..n
      /\ \A k, l \in 1..n : at[k] = at[l] => k = l
  BY DEF Injection, IsInjective
<1> HIDE DEF n, sorted, Envelope
<1>5. \A k \in 1..n : Envelope(sorted[k]) = Ok
  BY <1>2, <1>3, <1>4
<1>6. \A k \in 1..n : \A l \in 1..(k - 1) : IdText(sorted[l]) # IdText(sorted[k])
  <2> DEFINE s == [i \in 1..n |-> IdText(list[i])]
             t == [k \in 1..n |-> IdText(sorted[k])]
  <2>1. \A i \in 1..n : 1..(i - 1) \subseteq 1..n
    BY <1>1
  <2>2. \A i \in 1..n : \A j \in 1..(i - 1) : s[j] # s[i]
    BY <1>3, <2>1
  <2>3. \A k \in 1..n : t[k] = s[at[k]]
    BY <1>2, <1>4
  <2>4. \A i \in 1..n : t[i] = IdText(sorted[i])
    OBVIOUS
  <2> HIDE DEF s, t
  <2>5. \A i, j \in 1..n : s[i] = s[j] => i = j
    BY <1>1, <2>2, DistinctExact
  <2>6. \A k, l \in 1..n : t[k] = t[l] => k = l
    BY <1>4, <2>3, <2>5
  <2>7. \A k \in 1..n : \A l \in 1..(k - 1) : t[l] # t[k]
    BY <1>1, <2>6, DistinctExact
  <2>8. QED
    BY <2>1, <2>4, <2>7
<1>7. Len(sorted) = Len(Components)
  BY <1>1, <1>3
<1>8. QED
  BY <1>1, <1>3, <1>5, <1>6, <1>7, ComponentsExact DEF sorted, Envelope

\* In a list that is taken for a receipt, the verdict of the k-th component comes k-th.
LEMMA OrderIsCanonical ==
  ASSUME NEW list, IsSubmission(list), ReceiptListVerdict(list) = Ok
  PROVE  /\ DOMAIN list = DOMAIN Components
         /\ \A k \in DOMAIN Components : InOrder(list)[k].component_id = Components[k]
<1> DEFINE n == Len(Components)
           key == [i \in DOMAIN list |-> IdRank(list[i])]
           place == [i \in 1..n |-> ArtifactRank(list[i].component_id)]
<1>1. /\ n \in Nat /\ DOMAIN Components = 1..n
      /\ \A k, l \in 1..n : Components[k] = Components[l] => k = l
  BY ComponentsAssumption
<1>2. IsListing(list) /\ \A i \in DOMAIN list : IsSubmitted(list[i])
  BY DEF IsSubmission
<1>3. /\ Len(list) = n
      /\ \A i \in DOMAIN list : Fits(list[i])
      /\ \A i \in DOMAIN list :
           \A j \in 1..(i - 1) : list[j].component_id # list[i].component_id
  BY <1>2, ReceiptListExact
<1>4. DOMAIN list = 1..n
  BY <1>2, <1>3 DEF IsListing
<1>5. \A i \in 1..n : key[i] \in Nat
  BY <1>2, <1>4, IdRankIsNatural
<1>6. \A i \in 1..n : place[i] \in 1..n /\ Components[place[i]] = list[i].component_id
  BY <1>3, <1>4, RankIsPlace DEF Fits
<1>7. place \in [1..n -> 1..n]
  BY <1>6
<1>8. \A i, j \in 1..n : list[i].component_id = list[j].component_id => i = j
  <2> DEFINE s == [i \in 1..n |-> list[i].component_id]
  <2>1. \A i \in 1..n : 1..(i - 1) \subseteq 1..n
    BY <1>1
  <2>2. \A i \in 1..n : \A j \in 1..(i - 1) : s[j] # s[i]
    BY <1>3, <1>4, <2>1
  <2>3. \A i \in 1..n : s[i] = list[i].component_id
    OBVIOUS
  <2> HIDE DEF s, n
  <2>4. \A i, j \in 1..n : s[i] = s[j] => i = j
    BY <1>1, <2>2, DistinctExact
  <2>5. QED
    BY <2>3, <2>4
<1>9. place \in Injection(1..n, 1..n)
  <2>1. \A i, j \in 1..n : place[i] = place[j] => i = j
    <3> HIDE DEF place
    <3> QED
      BY <1>6, <1>8
  <2> HIDE DEF place
  <2>2. QED
    BY <1>7, <2>1 DEF Injection, IsInjective
<1>10. place \in Surjection(1..n, 1..n)
  BY <1>1, <1>9, IntervalSize, FS_Injection
<1>11. \A i, j \in 1..n : i \in Before(n, key, j) <=> place[i] < place[j]
  <2> SUFFICES ASSUME NEW i \in 1..n, NEW j \in 1..n
               PROVE  i \in Before(n, key, j) <=> place[i] < place[j]
    OBVIOUS
  <2> DEFINE p == place[i]
             q == place[j]
             a == IF list[i].padded THEN 1 ELSE 0
             b == IF list[j].padded THEN 1 ELSE 0
  <2>1. key[i] = 2 * p + a /\ key[j] = 2 * q + b
    BY <1>4 DEF IdRank
  <2>2. p \in Nat /\ q \in Nat /\ (p = q <=> i = j)
    <3>1. p \in 1..n /\ q \in 1..n
      BY <1>6
    <3>2. p = q <=> i = j
      BY <1>9 DEF Injection, IsInjective
    <3> HIDE DEF p, q, n
    <3>3. QED
      BY <1>1, <3>1, <3>2
  <2>3. a \in {0, 1} /\ b \in {0, 1} /\ (i = j => a = b)
    OBVIOUS
  <2> HIDE DEF p, q, a, b, key
  <2>4. i \in Before(n, key, j) <=> key[i] < key[j] \/ (key[i] = key[j] /\ i < j)
    BY DEF Before
  <2>5. CASE i = j
    BY <1>1, <2>1, <2>2, <2>3, <2>4, <2>5 DEF p, q
  <2>6. CASE i # j
    <3>1. key[i] < key[j] <=> p < q
      BY <2>1, <2>2, <2>3, <2>6
    <3>2. key[i] # key[j]
      BY <2>1, <2>2, <2>3, <2>6
    <3>3. QED
      BY <2>4, <3>1, <3>2 DEF p, q
  <2>7. QED
    BY <2>5, <2>6
<1>12. InOrder(list) = SortedBy(list, key)
  BY DEF InOrder
<1> HIDE DEF n, key, place
<1>13. \A i \in 1..n : InOrder(list)[place[i]] = list[i]
  BY <1>1, <1>2, <1>3, <1>5, <1>9, <1>11, <1>12, SortByPlace
<1>14. \A k \in 1..n : InOrder(list)[k].component_id = Components[k]
  <2> SUFFICES ASSUME NEW k \in 1..n PROVE InOrder(list)[k].component_id = Components[k]
    OBVIOUS
  <2>1. PICK i \in 1..n : place[i] = k
    BY <1>10 DEF Surjection
  <2>2. QED
    BY <1>6, <1>13, <2>1
<1>15. QED
  BY <1>1, <1>4, <1>14

\* So the summaries a builder writes are those a verifier derives, if no id has
\* white space around it.
LEMMA SummariesExpected ==
  ASSUME NEW list, IsSubmission(list), ReceiptListVerdict(list) = Ok,
         \A v \in ToSet(InOrder(list)) : ~v.padded
  PROVE  Summaries(list) = ExpectedSignatureResults(InOrder(list))
<1> DEFINE n == Len(Components)
           sorted == InOrder(list)
<1>1. /\ n \in Nat /\ DOMAIN Components = 1..n
      /\ \A k, l \in 1..n : Components[k] = Components[l] => k = l
  BY ComponentsAssumption
<1>2. DOMAIN list = 1..n /\ \A k \in 1..n : sorted[k].component_id = Components[k]
  BY <1>1, OrderIsCanonical
<1>3. DOMAIN sorted = 1..n /\ Len(sorted) = n
  <2>1. Len(list) = n
    BY ReceiptListExact DEF IsSubmission
  <2>2. QED
    BY <2>1, OrderPermutes
<1>4. \A k \in 1..n : sorted[k].padded = FALSE
  <2>1. IsSubmission(sorted)
    BY OrderPermutes
  <2>2. \A k \in 1..n : sorted[k] \in ToSet(sorted) /\ IsSubmitted(sorted[k])
    BY <1>3, <2>1 DEF IsSubmission, ToSet
  <2>3. QED
    BY <2>2 DEF IsSubmitted
<1> HIDE DEF n, sorted
<1>5. ASSUME NEW k \in 1..n
      PROVE  ComponentBundle(sorted, Components[k]) = sorted[k].signature_bundle
  <2> DEFINE I == {i \in 1..Len(sorted) : sorted[i].component_id = Components[k]}
  <2>1. I = {k}
    BY <1>1, <1>2, <1>3
  <2>2. Min({k}) = k
    BY <1>1 DEF Min
  <2>3. SelectInSeq(sorted, LAMBDA v : v.component_id = Components[k]) = k
    BY <2>1, <2>2 DEF SelectInSeq
  <2>4. QED
    BY <2>3 DEF ComponentBundle
<1>6. Summaries(list)
        = [k \in 1..n |-> Summary(sorted[k].component_id, sorted[k].padded,
                                  sorted[k].signature_bundle)]
  BY <1>2 DEF Summaries, SummaryOf, sorted
<1>7. ExpectedSignatureResults(sorted)
        = [k \in 1..n |-> Summary(Components[k], FALSE, ComponentBundle(sorted, Components[k]))]
  BY <1>1 DEF ExpectedSignatureResults
<1>8. QED
  BY <1>2, <1>4, <1>5, <1>6, <1>7 DEF sorted

-----------------------------------------------------------------------------
(* The invariant *)

\* A receipt was built, and its verdicts were genuine and trusted under a registry of
\* the version it names: the one in force when it was built.
Held == receipt # None => IsBuilt(receipt)

Vouched(r, g) ==
  /\ r.key_registry_version = g.registry_version
  /\ \A v \in ToSet(r.component_verdicts) :
       v.genuine /\ Trusted(g, v.signature_bundle, v.component_id, v)

Rooted == receipt # None => \E e \in DOMAIN Registries : Vouched(receipt, Registries[e])

Inductive == TypeOK /\ Held /\ Rooted

\* The registry in force, and what has been submitted.
LEMMA StateHolds ==
  ASSUME TypeOK
  PROVE  IsListing(registry.entries) /\ IsSubmission(verdicts)
<1>1. IsListing(registry.entries)
  BY ChainAssumption DEF TypeOK, registry
<1>2. CASE verdicts = <<>>
  <2>1. verdicts = [i \in 1..0 |-> verdicts[i]]
    BY <1>2
  <2>2. IsListing(verdicts) /\ DOMAIN verdicts = 1..0
    BY <2>1, FunctionListing
  <2>3. \A i \in 1..0 : IsSubmitted(verdicts[i])
    <3>1. \A i : i \notin 1..0
      OBVIOUS
    <3>2. QED
      BY <3>1
  <2>4. QED
    BY <1>1, <2>2, <2>3 DEF IsSubmission
<1>3. CASE verdicts # <<>>
  <2>1. PICK version \in DOMAIN Submissions : verdicts \in Submissions[version]
    BY <1>3 DEF TypeOK
  <2>2. QED
    BY <1>1, <2>1, ChainAssumption
<1>4. QED
  BY <1>1, <1>2, <1>3

\* What the builder returns is vouched for by the registry it was built under, and is
\* what the audited verifier looks for.
LEMMA BuiltIsVouched ==
  ASSUME NEW list, IsSubmission(list), NEW g, IsListing(g.entries), NEW now, NEW request,
         BuildVerdict(list, ReceiptOf(list, g, request), g, now) = Ok
  PROVE  LET r == ReceiptOf(list, g, request)
         IN  /\ IsBuilt(r) /\ Vouched(r, g)
             /\ Len(r.component_verdicts) = Len(Components)
             /\ {v.component_id : v \in ToSet(r.component_verdicts)} = ComponentIds
             /\ r.final_outcome \in FinalOutcomes
             /\ ComponentsVerdict(r.component_verdicts, g, now) = Ok
             /\ EnvelopeVerdict(r, g, now) = Ok
             /\ (\A v \in ToSet(r.component_verdicts) : ~v.padded) =>
                  r.component_signature_results = ExpectedSignatureResults(r.component_verdicts)
<1> DEFINE r == ReceiptOf(list, g, request)
           sorted == InOrder(list)
<1>1. /\ ComponentsVerdict(list, g, now) = Ok /\ ReceiptListVerdict(list) = Ok
      /\ EnvelopeVerdict(r, g, now) = Ok
  BY BuildExact
<1>2. /\ r.component_verdicts = sorted /\ r.key_registry_version = g.registry_version
      /\ r.component_signature_results = Summaries(list)
      /\ r.final_outcome = ExpectedFinalOutcome(list)
  BY DEF ReceiptOf
<1>3. ComponentsVerdict(sorted, g, now) = Ok
  BY <1>1, OrderVerifies
<1>4. IsSubmission(sorted) /\ IsListing(sorted)
  BY OrderPermutes DEF IsSubmission
<1>5. /\ Len(sorted) = Len(Components) /\ LoadRegistryVerdict(g) = Ok
      /\ \A i \in DOMAIN sorted :
           ComponentEnvelopeVerdict(sorted[i], g, now, AcceptedOf(sorted[i])) = Ok
  BY <1>3, <1>4, ComponentsExact
<1>6. \A i \in DOMAIN sorted :
        sorted[i].genuine
          /\ Trusted(g, sorted[i].signature_bundle, sorted[i].component_id, sorted[i])
  BY <1>4, <1>5, EnvelopeTrusts DEF IsSubmission
<1>7. (\A v \in ToSet(sorted) : ~v.padded) => Summaries(list) = ExpectedSignatureResults(sorted)
  BY <1>1, SummariesExpected
<1>8. ExpectedFinalOutcome(list) \in FinalOutcomes
  BY DEF ExpectedFinalOutcome, FinalOutcomes
<1>9. IsBuilt(r)
  BY BuiltHolds
<1> HIDE DEF r, sorted
<1>10. Vouched(r, g)
  BY <1>2, <1>6 DEF Vouched, ToSet
<1>11. {v.component_id : v \in ToSet(sorted)} = ComponentIds
  <2>1. ReceiptListVerdict(sorted) = Ok
    BY <1>1, <1>2, EnvelopeExact
  <2>2. QED
    BY <1>4, <2>1, ReceiptListIsComplete
<1>12. QED
  BY <1>1, <1>2, <1>3, <1>5, <1>7, <1>8, <1>9, <1>10, <1>11 DEF r

\* The chain starts with nothing submitted and nothing built.
LEMMA InitIsInductive == Init => Inductive
<1> SUFFICES ASSUME Init PROVE Inductive
  OBVIOUS
<1>1. /\ clock = 0 /\ epoch = 1 /\ verdicts = <<>> /\ receipt = None
      /\ last = [operation |-> "none", result |-> Ok]
  BY DEF Init
<1>2. 1 \in DOMAIN Registries
  BY ChainAssumption, EmptyListing DEF IsListing
<1>3. 0 \in 0..MaxClock
  BY ChainAssumption
<1>4. Ok \in AuditReasonIds
  BY SingleCheckReason
<1>5. QED
  BY <1>1, <1>2, <1>3, <1>4 DEF Inductive, TypeOK, Held, Rooted

\* Every step keeps the invariant.
LEMMA StepIsInductive == Inductive /\ [Next]_vars => Inductive'
<1> SUFFICES ASSUME Inductive, [Next]_vars PROVE Inductive'
  OBVIOUS
<1>1. TypeOK /\ Held /\ Rooted
  BY DEF Inductive
<1>2. Ok \in AuditReasonIds
  BY SingleCheckReason
<1>3. CASE Tick
  <2>1. clock' \in 0..MaxClock
    BY <1>1, <1>3, ChainAssumption DEF TypeOK, Tick
  <2>2. QED
    BY <1>1, <1>2, <1>3, <2>1 DEF Tick, Inductive, TypeOK, Held, Rooted
<1>4. CASE Rotate
  <2>1. epoch' \in DOMAIN Registries
    BY <1>1, <1>4, ChainAssumption DEF TypeOK, Rotate, IsListing
  <2>2. QED
    BY <1>1, <1>2, <1>4, <2>1 DEF Rotate, Inductive, TypeOK, Held, Rooted
<1>5. CASE Submit
  <2>1. verdicts' \in UNION {Submissions[version] : version \in DOMAIN Submissions}
    BY <1>1, <1>5, ChainAssumption DEF Submit, TypeOK, registry
  <2>2. QED
    BY <1>1, <1>2, <1>5, <2>1 DEF Submit, Inductive, TypeOK, Held, Rooted
<1>6. CASE VerifyComponents
  <2>1. ComponentsVerdict(verdicts, registry, clock) \in AuditReasonIds
    BY <1>1, StateHolds, ComponentsReason
  <2>2. QED
    BY <1>1, <1>6, <2>1 DEF VerifyComponents, Inductive, TypeOK, Held, Rooted
<1>7. CASE Build
  <2> PICK request \in Requests :
        LET built  == ReceiptOf(verdicts, registry, request)
            result == BuildVerdict(verdicts, built, registry, clock)
        IN  /\ last' = [operation |-> "build", result |-> result]
            /\ receipt' = IF result = Ok THEN built ELSE receipt
            /\ verdicts' = IF result = Ok THEN <<>> ELSE verdicts
    BY <1>7 DEF Build
  <2> DEFINE built  == ReceiptOf(verdicts, registry, request)
             result == BuildVerdict(verdicts, built, registry, clock)
  <2>1. /\ last' = [operation |-> "build", result |-> result]
        /\ receipt' = IF result = Ok THEN built ELSE receipt
        /\ verdicts' = IF result = Ok THEN <<>> ELSE verdicts
        /\ clock' = clock /\ epoch' = epoch
    BY <1>7 DEF Build
  <2>2. IsListing(registry.entries) /\ IsSubmission(verdicts)
    BY <1>1, StateHolds
  <2>3. result \in AuditReasonIds
    BY <2>2, BuiltHolds, BuildExact
  <2>4. result = Ok => /\ IsBuilt(built) /\ Vouched(built, registry)
                       /\ Len(built.component_verdicts) = Len(Components)
                       /\ {v.component_id : v \in ToSet(built.component_verdicts)} = ComponentIds
                       /\ built.final_outcome \in FinalOutcomes
    BY <2>2, BuiltIsVouched
  <2>5. epoch \in DOMAIN Registries /\ registry = Registries[epoch]
    BY <1>1 DEF TypeOK, registry
  <2> HIDE DEF built, result
  <2>6. TypeOK'
    BY <1>1, <2>1, <2>3, <2>4 DEF TypeOK
  <2>7. Held' /\ Rooted'
    BY <1>1, <2>1, <2>4, <2>5 DEF Held, Rooted
  <2>8. QED
    BY <2>6, <2>7 DEF Inductive
<1>8. CASE Validate
  <2>1. EnvelopeVerdict(receipt, registry, clock) \in AuditReasonIds
    BY <1>1, <1>8, StateHolds, EnvelopeReason DEF Held, Validate
  <2>2. QED
    BY <1>1, <1>8, <2>1 DEF Validate, Inductive, TypeOK, Held, Rooted
<1>9. CASE UNCHANGED vars
  BY <1>1, <1>9 DEF vars, Inductive, TypeOK, Held, Rooted
<1>10. QED
  BY <1>3, <1>4, <1>5, <1>6, <1>7, <1>8, <1>9 DEF Next

\* So it holds throughout.
LEMMA InductiveHolds == Spec => []Inductive
<1>1. Init => Inductive
  BY InitIsInductive
<1>2. Inductive /\ [Next]_vars => Inductive'
  BY StepIsInductive
<1>3. QED
  BY <1>1, <1>2, PTL DEF Spec

\* Every variable of the chain keeps to its type: a built receipt holds exactly one
\* verdict of every component, and every operation ends with a reason of the fixed set.
THEOREM ChainTypes == Spec => []TypeOK
<1>1. Inductive => TypeOK
  BY DEF Inductive
<1>2. QED
  BY <1>1, InductiveHolds, PTL

-----------------------------------------------------------------------------
(* The properties *)

\* The three properties speak of a build or a validation that has just ended well.
LEMMA OtherSteps ==
  ASSUME Tick \/ Rotate \/ Submit \/ VerifyComponents
  PROVE  last'.operation \notin {"build", "validate"}
BY DEF Tick, Rotate, Submit, VerifyComponents

\* A receipt that was just built passes the checks of the audited verifier.
THEOREM BuiltReceiptsAreAdmissible == Spec => []BuiltIsAdmissible
<1>1. Init => BuiltIsAdmissible
  BY DEF Init, BuiltIsAdmissible
<1>2. Inductive /\ BuiltIsAdmissible /\ [Next]_vars => BuiltIsAdmissible'
  <2> SUFFICES ASSUME Inductive, BuiltIsAdmissible, [Next]_vars PROVE BuiltIsAdmissible'
    OBVIOUS
  <2>1. CASE Build
    <3> PICK request \in Requests :
          LET built  == ReceiptOf(verdicts, registry, request)
              result == BuildVerdict(verdicts, built, registry, clock)
          IN  /\ last' = [operation |-> "build", result |-> result]
              /\ receipt' = IF result = Ok THEN built ELSE receipt
              /\ verdicts' = IF result = Ok THEN <<>> ELSE verdicts
      BY <2>1 DEF Build
    <3> DEFINE built  == ReceiptOf(verdicts, registry, request)
               result == BuildVerdict(verdicts, built, registry, clock)
    <3>1. /\ last' = [operation |-> "build", result |-> result]
          /\ receipt' = IF result = Ok THEN built ELSE receipt
          /\ clock' = clock /\ registry' = registry
      BY <2>1 DEF Build, registry
    <3>2. IsListing(registry.entries) /\ IsSubmission(verdicts)
      BY StateHolds DEF Inductive
    <3>3. result = Ok =>
            /\ ComponentsVerdict(built.component_verdicts, registry, clock) = Ok
            /\ EnvelopeVerdict(built, registry, clock) = Ok
            /\ (\A v \in ToSet(built.component_verdicts) : ~v.padded) =>
                 built.component_signature_results
                   = ExpectedSignatureResults(built.component_verdicts)
      BY <3>2, BuiltIsVouched
    <3> HIDE DEF built, result
    <3>4. QED
      BY <3>1, <3>3 DEF BuiltIsAdmissible
  <2>2. CASE Validate
    BY <2>2 DEF Validate, BuiltIsAdmissible
  <2>3. CASE Tick \/ Rotate \/ Submit \/ VerifyComponents
    BY <2>3, OtherSteps DEF BuiltIsAdmissible
  <2>4. CASE UNCHANGED vars
    BY <2>4 DEF vars, BuiltIsAdmissible, registry
  <2>5. QED
    BY <2>1, <2>2, <2>3, <2>4 DEF Next
<1>3. QED
  BY <1>1, <1>2, InductiveHolds, PTL DEF Spec

\* A receipt that validates rests on evidence that is still good, although only its
\* own signatures are looked at: it names the version of the registry in force, no
\* other registry has that version, and under it its verdicts were verified.
THEOREM EvidenceIsStillTrusted == Spec => []EvidenceStaysTrusted
<1>1. Init => EvidenceStaysTrusted
  BY DEF Init, EvidenceStaysTrusted
<1>2. Inductive /\ EvidenceStaysTrusted /\ [Next]_vars => EvidenceStaysTrusted'
  <2> SUFFICES ASSUME Inductive, EvidenceStaysTrusted, [Next]_vars PROVE EvidenceStaysTrusted'
    OBVIOUS
  <2>1. CASE Validate
    <3>1. /\ last' = [operation |-> "validate",
                      result |-> EnvelopeVerdict(receipt, registry, clock)]
          /\ receipt # None /\ receipt' = receipt /\ registry' = registry
      BY <2>1 DEF Validate, registry
    <3>2. ASSUME EnvelopeVerdict(receipt, registry, clock) = Ok
          PROVE  /\ Trusted(registry, receipt.signature_bundle, Orchestrator, receipt)
                 /\ \A v \in ToSet(receipt.component_verdicts) :
                      v.genuine /\ Trusted(registry, v.signature_bundle, v.component_id, v)
      <4>1. LoadRegistryVerdict(registry) = Ok
            /\ ReceiptEnvelopeVerdict(receipt, registry, clock, Tokens(receipt)) = Ok
        BY <3>2, EnvelopeExact
      <4>2. /\ receipt.key_registry_version = registry.registry_version
            /\ BundleVerdict(receipt.signature_bundle, Orchestrator, "own", registry, clock,
                             receipt.not_before, receipt.not_after,
                             Accepted(Orchestrator, Tokens(receipt))) = Ok
        BY <4>1, ReceiptEnvelopeExact
      <4>3. /\ IsListing(registry.entries) /\ IsListing(receipt.signature_bundle.signatures)
            /\ HasKnownFaults(receipt.signature_bundle)
        BY <3>1, StateHolds DEF Inductive, Held, IsBuilt
      <4>4. Trusted(registry, receipt.signature_bundle, Orchestrator, receipt)
        BY <4>1, <4>2, <4>3, BundleTrusts
      <4>5. PICK e \in DOMAIN Registries : Vouched(receipt, Registries[e])
        BY <3>1 DEF Inductive, Rooted
      <4>6. e = epoch
        BY <4>2, <4>5, RotationAssumption DEF Inductive, TypeOK, registry, Vouched
      <4>7. QED
        BY <4>4, <4>5, <4>6 DEF Vouched, registry
    <3>3. QED
      BY <3>1, <3>2 DEF EvidenceStaysTrusted
  <2>2. CASE Build
    BY <2>2 DEF Build, EvidenceStaysTrusted
  <2>3. CASE Tick \/ Rotate \/ Submit \/ VerifyComponents
    BY <2>3, OtherSteps DEF EvidenceStaysTrusted
  <2>4. CASE UNCHANGED vars
    BY <2>4 DEF vars, EvidenceStaysTrusted, registry
  <2>5. QED
    BY <2>1, <2>2, <2>3, <2>4 DEF Next
<1>3. QED
  BY <1>1, <1>2, InductiveHolds, PTL DEF Spec

\* A receipt that validates and lets the request pass, or hands it on, holds a verdict
\* of every component and each of them allows it.
THEOREM HandoffNeedsAll == Spec => []HandoffNeedsEveryAllow
<1>1. Init => HandoffNeedsEveryAllow
  BY DEF Init, HandoffNeedsEveryAllow
<1>2. Inductive /\ HandoffNeedsEveryAllow /\ [Next]_vars => HandoffNeedsEveryAllow'
  <2> SUFFICES ASSUME Inductive, HandoffNeedsEveryAllow, [Next]_vars
               PROVE  HandoffNeedsEveryAllow'
    OBVIOUS
  <2>1. CASE Validate
    <3>1. /\ last' = [operation |-> "validate",
                      result |-> EnvelopeVerdict(receipt, registry, clock)]
          /\ receipt # None /\ receipt' = receipt
      BY <2>1 DEF Validate
    <3>2. ASSUME EnvelopeVerdict(receipt, registry, clock) = Ok,
                 receipt.final_outcome = "ALLOW" \/ receipt.handoff_allowed
          PROVE  /\ {v.component_id : v \in ToSet(receipt.component_verdicts)} = ComponentIds
                 /\ \A v \in ToSet(receipt.component_verdicts) : v.decision = "ALLOW"
      <4> DEFINE list == receipt.component_verdicts
                 decisions == {list[i].decision : i \in DOMAIN list}
      <4>1. /\ ReceiptListVerdict(list) = Ok
            /\ ReceiptEnvelopeVerdict(receipt, registry, clock, Tokens(receipt)) = Ok
        BY <3>2, EnvelopeExact
      <4>2. IsListing(list)
        BY <3>1 DEF Inductive, Held, IsBuilt, IsSubmission
      <4>3. /\ {v.component_id : v \in ToSet(list)} = ComponentIds
            /\ \A v \in ToSet(list) : v.decision \in Decisions
        BY <4>1, <4>2, ReceiptListIsComplete
      <4>4. /\ receipt.final_outcome = ExpectedFinalOutcome(list)
            /\ receipt.final_outcome = "ALLOW" \/ ~receipt.handoff_allowed
        BY <4>1, ReceiptEnvelopeExact, SemanticsExact
      <4>5. ExpectedFinalOutcome(list) = "ALLOW"
        BY <3>2, <4>4
      <4>6. decisions \cap {"DENY", "ERROR", "ESCALATE", "SKIPPED"} = {}
        BY <4>5 DEF ExpectedFinalOutcome
      <4>7. \A v \in ToSet(list) : v.decision \in decisions
        BY DEF ToSet
      <4>8. QED
        BY <4>3, <4>6, <4>7 DEF Decisions
    <3>3. QED
      BY <3>1, <3>2 DEF HandoffNeedsEveryAllow
  <2>2. CASE Build
    BY <2>2 DEF Build, HandoffNeedsEveryAllow
  <2>3. CASE Tick \/ Rotate \/ Submit \/ VerifyComponents
    BY <2>3, OtherSteps DEF HandoffNeedsEveryAllow
  <2>4. CASE UNCHANGED vars
    BY <2>4 DEF vars, HandoffNeedsEveryAllow
  <2>5. QED
    BY <2>1, <2>2, <2>3, <2>4 DEF Next
<1>3. QED
  BY <1>1, <1>2, InductiveHolds, PTL DEF Spec
=============================================================================
