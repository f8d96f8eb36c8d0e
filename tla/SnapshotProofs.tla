---------------------------- MODULE SnapshotProofs ----------------------------
(***************************************************************************)
(* The bounds of the snapshot, for graphs of any size and any shape, and   *)
(* any owner that changes them while they are copied.                      *)
(***************************************************************************)
EXTENDS SnapshotProperties, SequenceTheorems, WellFoundedInduction, TLAPS

\* The nodes counted are the nodes copied, never more than the budget; with the
\* path of open containers this is inductive.
NodesAreCounted ==
  /\ node_count = Len(snapshot)
  /\ node_count <= MaxContainerNodes

IInv == TypeOK /\ StackIsAPath /\ NodesAreCounted

\* The frames a visit starts from: those that are open, one perhaps moved on.
SameContainers(open) ==
  /\ open \in Seq(Frames)
  /\ Len(open) = Len(stack)
  /\ \A i \in 1..Len(stack) : open[i].container = stack[i].container

\* An exception leaves no open container behind.
LEMMA UnwindPreserves ==
  ASSUME IInv, NEW result \in {"refused", "raised"}, Unwind(result),
         heap' = heap, receipt' = receipt
  PROVE  IInv'
  <1>1. /\ stack' = <<>> /\ active_containers' = {} /\ outcome' = result
        /\ UNCHANGED <<heap, receipt, node_count, scalar_bytes, snapshot>>
    BY DEF Unwind, counters
  <1>2. TypeOK' /\ NodesAreCounted'
    BY <1>1 DEF IInv, TypeOK, NodesAreCounted
  <1>3. DOMAIN stack' = {} /\ Len(stack') = 0
    BY <1>1
  <1>4. StackIsAPath'
    BY <1>1, <1>3, SnapshotAssumption DEF StackIsAPath, SnapshotAssumption
  <1> QED
    BY <1>2, <1>4 DEF IInv

\* What is copied of an item is well formed, when its depth is allowed.
LEMMA CopiedType ==
  ASSUME IInv, NEW key \in Scalars \cup {NoKey}, NEW item \in Items,
         Len(stack) + 1 <= MaxContainerDepth
  PROVE  Copied(key, item) \in Copies
  <1>1. Len(stack) \in Nat
    BY DEF IInv, TypeOK
  <1>2. Len(stack) + 1 \in 1..MaxContainerDepth
    BY <1>1, SnapshotAssumption DEF SnapshotAssumption
  <1> QED
    BY <1>2 DEF Copied, Copies

\* visit keeps the invariant: a scalar is copied and counted, a container also
\* joins the path, and it was not on it.
LEMMA VisitPreserves ==
  ASSUME IInv, NEW open, SameContainers(open),
         NEW key \in Scalars \cup {NoKey}, NEW item \in Items, NEW spent \in Nat,
         Visit(open, key, item, spent), outcome \in {"called", "running"},
         heap' = heap, receipt' = receipt
  PROVE  IInv'
  <1>1. CASE Refused(item, spent)
    BY <1>1, UnwindPreserves DEF Visit
  <1>2. CASE ~Refused(item, spent)
    <2>1. /\ node_count' = node_count + 1
          /\ snapshot' = Append(snapshot, Copied(key, item))
      BY <1>2 DEF Visit
    <2>2. /\ Len(stack) + 1 <= MaxContainerDepth
          /\ node_count + 1 <= MaxContainerNodes
          /\ item \notin active_containers
      BY <1>2, SnapshotAssumption DEF Refused, IInv, TypeOK, SnapshotAssumption
    <2>3. Copied(key, item) \in Copies
      BY <2>2, CopiedType
    <2>4. snapshot' \in Seq(Copies) /\ Len(snapshot') = Len(snapshot) + 1
      BY <2>1, <2>3 DEF IInv, TypeOK
    <2>5. NodesAreCounted' /\ node_count' \in Nat
      BY <2>1, <2>2, <2>4 DEF IInv, TypeOK, NodesAreCounted
    <2>6. CASE item \in Scalars
      <3>1. /\ scalar_bytes' = spent + Weight[item] /\ stack' = open
            /\ active_containers' = active_containers
            /\ outcome' = IF open = <<>> THEN Returned ELSE "running"
        BY <1>2, <2>6 DEF Visit
      <3>2. scalar_bytes' \in Nat
        BY <2>6, <3>1, SnapshotAssumption DEF SnapshotAssumption
      <3>3. /\ outcome' \in {"called", "running", "snapshot", "refused", "raised"}
            /\ outcome' = "running" <=> stack' # <<>>
        BY <3>1 DEF Returned
      <3>4. TypeOK'
        BY <2>4, <2>5, <3>1, <3>2, <3>3 DEF IInv, TypeOK, SameContainers
      <3>5. StackIsAPath'
        <4>1. /\ DOMAIN stack = 1..Len(stack) /\ DOMAIN stack' = 1..Len(stack)
              /\ Len(stack') = Len(stack)
              /\ \A i \in 1..Len(stack) : stack'[i].container = stack[i].container
          BY <3>1 DEF IInv, TypeOK, SameContainers
        <4>2. {stack'[i].container : i \in 1..Len(stack)}
                = {stack[i].container : i \in 1..Len(stack)}
          BY <4>1
        <4> QED
          BY <3>1, <4>1, <4>2 DEF IInv, StackIsAPath
      <3> QED
        BY <2>5, <3>4, <3>5 DEF IInv
    <2>7. CASE item \in Containers
      <3> DEFINE frame == [container |-> item, next |-> 1, size |-> Len(heap[item])]
      <3>1. item \notin Scalars
        BY <2>7, SnapshotAssumption DEF SnapshotAssumption
      <3>2. /\ scalar_bytes' = spent /\ stack' = Append(open, frame)
            /\ active_containers' = active_containers \cup {item}
            /\ outcome' = "running"
        BY <1>2, <3>1 DEF Visit
      <3>3. Len(heap[item]) \in Nat
        BY <2>7 DEF IInv, TypeOK
      <3>4. frame \in Frames /\ frame.container = item
        BY <2>7, <3>3 DEF Frames
      <3> HIDE DEF frame
      <3>5. /\ stack' \in Seq(Frames) /\ Len(stack') = Len(stack) + 1 /\ stack' # <<>>
            /\ \A i \in 1..Len(stack) : stack'[i].container = stack[i].container
            /\ stack'[Len(stack) + 1].container = item
        BY <3>2, <3>4 DEF SameContainers, IInv, TypeOK
      <3>6. TypeOK'
        BY <2>4, <2>5, <2>7, <3>2, <3>5 DEF IInv, TypeOK
      <3>7. Len(stack) \in Nat /\ DOMAIN stack = 1..Len(stack)
            /\ DOMAIN stack' = 1..(Len(stack) + 1)
        BY <3>5 DEF IInv, TypeOK
      <3>8. \A i \in 1..Len(stack) : stack[i].container \in active_containers
        BY <3>7 DEF IInv, StackIsAPath
      <3>9. ASSUME NEW i \in DOMAIN stack', NEW j \in DOMAIN stack',
                   stack'[i].container = stack'[j].container
            PROVE  i = j
        BY <2>2, <3>5, <3>7, <3>8, <3>9 DEF IInv, StackIsAPath
      <3>10. active_containers' = {stack'[i].container : i \in DOMAIN stack'}
        <4>1. active_containers = {stack[i].container : i \in 1..Len(stack)}
          BY <3>7 DEF IInv, StackIsAPath
        <4>2. {stack'[i].container : i \in 1..(Len(stack) + 1)}
                = {stack[i].container : i \in 1..Len(stack)} \cup {item}
          BY <3>5, <3>7
        <4> QED
          BY <3>2, <3>7, <4>1, <4>2
      <3>11. StackIsAPath'
        BY <2>2, <3>5, <3>9, <3>10 DEF StackIsAPath
      <3> QED
        BY <2>5, <3>6, <3>11 DEF IInv
    <2> QED
      BY <2>6, <2>7 DEF Items
  <1> QED
    BY <1>1, <1>2

-----------------------------------------------------------------------------
\* The snapshot begins within its bounds.
LEMMA InitEstablishes == ASSUME Init PROVE IInv
  BY SnapshotAssumption DEF Init, IInv, TypeOK, StackIsAPath, NodesAreCounted,
                            SnapshotAssumption, Items

\* While the walk runs there is an innermost open container.
LEMMA FrameType ==
  ASSUME IInv, outcome = "running"
  PROVE  /\ Len(stack) \in Nat \ {0}
         /\ Frame \in Frames
         /\ Entries \in Seq(Entry)
  <1>1. stack \in Seq(Frames) /\ stack # <<>>
    BY DEF IInv, TypeOK
  <1>2. Len(stack) \in Nat \ {0} /\ Frame \in Frames
    BY <1>1 DEF Frame
  <1>3. Frame.container \in Containers
    BY <1>2 DEF Frames
  <1> QED
    BY <1>2, <1>3 DEF Entries, IInv, TypeOK

\* The first visit keeps the invariant.
LEMMA StartPreserves == ASSUME IInv, Start PROVE IInv'
  <1>1. stack = <<>>
    BY DEF IInv, TypeOK, Start
  <1>2. SameContainers(<<>>)
    BY <1>1 DEF SameContainers
  <1>3. receipt \in Items /\ NoKey \in Scalars \cup {NoKey}
    BY DEF IInv, TypeOK
  <1> QED
    BY <1>2, <1>3, VisitPreserves DEF Start

\* So does every later one.
LEMMA VisitEntryPreserves == ASSUME IInv, VisitEntry PROVE IInv'
  <1> DEFINE entry == Entries[Frame.next]
             open  == [stack EXCEPT ![Len(stack)].next = @ + 1]
             keyed == Frame.container \in Dicts
             spent == SpentWithKey(entry)
             key   == IF keyed THEN entry.key ELSE NoKey
  <1>1. outcome = "running" /\ Frame.next <= Len(Entries)
        /\ heap' = heap /\ receipt' = receipt
    BY DEF VisitEntry
  <1>2. \/ Unwind("refused")
        \/ Visit(open, key, entry.item, spent)
    BY DEF VisitEntry
  <1>3. /\ Len(stack) \in Nat \ {0} /\ Frame \in Frames /\ Entries \in Seq(Entry)
        /\ stack \in Seq(Frames)
    BY <1>1, FrameType DEF IInv, TypeOK
  <1>4. Frame.next \in 1..Len(Entries)
    BY <1>1, <1>3 DEF Frames
  <1>5. entry \in Entry
    BY <1>3, <1>4
  <1>6. entry.item \in Items /\ entry.key \in Scalars
    BY <1>5 DEF Entry
  <1>7. key \in Scalars \cup {NoKey}
    BY <1>6
  <1>8. spent \in Nat
    BY <1>6, SnapshotAssumption DEF SpentWithKey, SnapshotAssumption, IInv, TypeOK
  <1>9. SameContainers(open)
    <2>1. stack[Len(stack)] \in Frames
      BY <1>3 DEF Frame
    <2>2. [stack[Len(stack)] EXCEPT !.next = @ + 1] \in Frames
      BY <2>1 DEF Frames
    <2> QED
      BY <1>3, <2>1, <2>2 DEF SameContainers, Frames
  <1> HIDE DEF entry, open, keyed, spent, key
  <1>10. CASE Unwind("refused")
    BY <1>1, <1>10, UnwindPreserves
  <1>11. CASE Visit(open, key, entry.item, spent)
    BY <1>1, <1>6, <1>7, <1>8, <1>9, <1>11, VisitPreserves
  <1> QED
    BY <1>2, <1>10, <1>11

\* The stack loses its last frame, and only that.
LEMMA LeaveShortens ==
  ASSUME IInv, LeaveContainer
  PROVE  /\ stack' \in Seq(Frames) /\ Len(stack') = Len(stack) - 1
         /\ \A i \in 1..(Len(stack) - 1) : stack'[i] = stack[i]
  <1> DEFINE n == Len(stack)
             m == n - 1
  <1>1. m \in Nat /\ stack' = SubSeq(stack, 1, m) /\ n = m + 1
    BY FrameType DEF LeaveContainer
  <1>2. \A i \in 1..m : stack[i] \in Frames
    BY <1>1 DEF IInv, TypeOK
  <1> HIDE DEF m, n
  <1>3. /\ SubSeq(stack, 1, m) \in Seq(Frames)
        /\ Len(SubSeq(stack, 1, m)) = IF 1 <= m THEN m - 1 + 1 ELSE 0
        /\ \A i \in 1..(m - 1 + 1) : SubSeq(stack, 1, m)[i] = stack[1 + i - 1]
    BY <1>1, <1>2, SubSeqProperties
  <1>4. \A i \in 1..m : 1 + i - 1 = i
    BY <1>1
  <1>5. /\ stack' \in Seq(Frames) /\ Len(stack') = m
        /\ \A i \in 1..m : stack'[i] = stack[i]
    BY <1>1, <1>3, <1>4
  <1> QED
    BY <1>5 DEF m, n

\* A finished container leaves the path, and only it.
LEMMA LeavePreserves == ASSUME IInv, LeaveContainer PROVE IInv'
  <1> DEFINE n == Len(stack)
  <1>1. /\ outcome = "running" /\ heap' = heap /\ receipt' = receipt
        /\ node_count' = node_count /\ scalar_bytes' = scalar_bytes /\ snapshot' = snapshot
        /\ active_containers' = active_containers \ {Frame.container}
        /\ stack' = SubSeq(stack, 1, n - 1)
        /\ outcome' = IF n = 1 THEN Returned ELSE "running"
    BY DEF LeaveContainer, counters, NoLongerActive
  <1>2. n \in Nat \ {0} /\ stack \in Seq(Frames) /\ Frame = stack[n]
    BY <1>1, FrameType DEF IInv, TypeOK, Frame
  <1>3. /\ stack' \in Seq(Frames) /\ Len(stack') = n - 1
        /\ \A i \in 1..(n - 1) : stack'[i] = stack[i]
    BY LeaveShortens
  <1>4. stack' = <<>> <=> n = 1
    BY <1>2, <1>3
  <1>5. TypeOK'
    BY <1>1, <1>2, <1>3, <1>4 DEF IInv, TypeOK, Returned
  <1>6. /\ DOMAIN stack = 1..n /\ DOMAIN stack' = 1..(n - 1)
    BY <1>2, <1>3
  <1>7. \A i, j \in 1..n : stack[i].container = stack[j].container => i = j
    BY <1>6 DEF IInv, StackIsAPath
  <1>8. active_containers = {stack[i].container : i \in 1..n}
    BY <1>6 DEF IInv, StackIsAPath
  <1>9. active_containers' = {stack'[i].container : i \in 1..(n - 1)}
    <2>1. \A i \in 1..n : stack[i].container # Frame.container <=> i \in 1..(n - 1)
      BY <1>2, <1>7
    <2>2. {stack'[i].container : i \in 1..(n - 1)} = {stack[i].container : i \in 1..(n - 1)}
      BY <1>3
    <2>3. 1..(n - 1) \subseteq 1..n
      BY <1>2
    <2>4. active_containers' = {stack[i].container : i \in 1..n} \ {Frame.container}
      BY <1>1, <1>8
    <2> HIDE DEF n
    <2>5. {stack[i].container : i \in 1..n} \ {Frame.container}
            = {stack[i].container : i \in 1..(n - 1)}
      BY <2>1, <2>3
    <2> QED
      BY <2>2, <2>4, <2>5
  <1>10. StackIsAPath'
    <2>1. n <= MaxContainerDepth
      BY DEF IInv, StackIsAPath
    <2>2. Len(stack') <= MaxContainerDepth
      BY <1>2, <1>3, <2>1, SnapshotAssumption DEF SnapshotAssumption
    <2>3. \A i, j \in 1..(n - 1) : stack'[i].container = stack'[j].container => i = j
      BY <1>2, <1>3, <1>7
    <2> QED
      BY <1>6, <1>9, <2>2, <2>3 DEF StackIsAPath
  <1> QED
    BY <1>1, <1>5, <1>10 DEF IInv, NodesAreCounted

\* Every step keeps the invariant, the owner's too.
LEMMA NextPreserves == ASSUME IInv, [Next]_vars PROVE IInv'
  <1>1. CASE Start
    BY <1>1, StartPreserves
  <1>2. CASE IterationBreaks
    BY <1>2, UnwindPreserves DEF IterationBreaks
  <1>3. CASE VisitEntry
    BY <1>3, VisitEntryPreserves
  <1>4. CASE LeaveContainer
    BY <1>4, LeavePreserves
  <1>5. CASE Mutate
    <2>1. PICK container \in Containers, entries \in Contents :
            heap' = [heap EXCEPT ![container] = entries]
      BY <1>5 DEF Mutate
    <2>2. heap' \in [Containers -> Seq(Entry)]
      BY <2>1, SnapshotAssumption DEF IInv, TypeOK, SnapshotAssumption
    <2> QED
      BY <1>5, <2>2 DEF Mutate, IInv, TypeOK, StackIsAPath, NodesAreCounted, counters
  <1>6. CASE UNCHANGED vars
    BY <1>6 DEF vars, counters, IInv, TypeOK, StackIsAPath, NodesAreCounted
  <1> QED
    BY <1>1, <1>2, <1>3, <1>4, <1>5, <1>6 DEF Next, Step, Finished

\* IInv holds in every state of the snapshot.
LEMMA InvariantHolds == Spec => []IInv
  <1>1. Init => IInv
    BY InitEstablishes
  <1>2. IInv /\ [Next]_vars => IInv'
    BY NextPreserves
  <1> QED
    BY <1>1, <1>2, PTL DEF Spec

\* The snapshot's variables keep their types, for any graph and any owner.
THEOREM SnapshotTypes == Spec => []TypeOK
  BY InvariantHolds, PTL DEF IInv

\* The open containers are always a path without repetition, no longer than the
\* depth limit, and the active set is exactly what is on it.
THEOREM CycleCheckIsExact == Spec => []StackIsAPath
  BY InvariantHolds, PTL DEF IInv

\* No graph and no owner makes the verifier copy more nodes, or deeper ones, than
\* the budget.
THEOREM CopyNeverExceedsBudget == Spec => []CopyIsBounded
  <1>1. ASSUME IInv PROVE CopyIsBounded
    <2>1. Len(snapshot) <= MaxContainerNodes
      BY <1>1 DEF IInv, NodesAreCounted
    <2>2. ASSUME NEW i \in DOMAIN snapshot PROVE snapshot[i].depth <= MaxContainerDepth
      <3>1. snapshot[i] \in Copies
        BY <1>1 DEF IInv, TypeOK
      <3>2. snapshot[i].depth \in 1..MaxContainerDepth
        BY <3>1 DEF Copies
      <3> QED
        BY <3>2, SnapshotAssumption DEF SnapshotAssumption
    <2> QED
      BY <2>1, <2>2 DEF CopyIsBounded
  <1> QED
    BY <1>1, InvariantHolds, PTL
-----------------------------------------------------------------------------
(* Induction, over sets instead of predicates *)

\* The order of the naturals, as a relation; every set of naturals has a least
\* element.
LessThan == {p \in Nat \X Nat : p[1] < p[2]}

LEMMA LessThanIsWellFounded == IsWellFoundedOn(LessThan, Nat)
  BY NatLessThanWellFounded DEF OpToRel, LessThan

\* A set that holds 0 and the successor of each of its naturals holds them all.
LEMMA SetInduction ==
  ASSUME NEW S, 0 \in S, \A n \in Nat : n \in S => n + 1 \in S
  PROVE  Nat \subseteq S
  <1> DEFINE T == Nat \ S
  <1> SUFFICES ASSUME T # {} PROVE FALSE
    OBVIOUS
  <1>1. T \subseteq Nat
    OBVIOUS
  <1> HIDE DEF T
  <1>2. PICK x \in T : \A y \in T : <<y, x>> \notin LessThan
    BY <1>1, LessThanIsWellFounded, WFMin
  <1>3. x \in Nat /\ x \notin S
    BY DEF T
  <1>4. x # 0
    BY <1>3
  <1>5. x - 1 \in Nat /\ x = (x - 1) + 1 /\ x - 1 < x
    BY <1>3, <1>4
  <1>6. x - 1 \in S
    BY <1>2, <1>3, <1>5 DEF T, LessThan
  <1> QED
    BY <1>3, <1>5, <1>6

\* The same up to a bound.
LEMMA BoundedInduction ==
  ASSUME NEW n \in Nat, NEW S, 0 \in S, \A i \in 1..n : i - 1 \in S => i \in S
  PROVE  0..n \subseteq S
  <1> DEFINE T == S \cup {i \in Nat : i > n}
  <1>1. 0 \in T
    OBVIOUS
  <1>2. ASSUME NEW i \in Nat, i \in T PROVE i + 1 \in T
    <2>1. CASE i + 1 > n
      BY <2>1
    <2>2. CASE ~(i + 1 > n)
      <3>1. i + 1 \in 1..n /\ i = i + 1 - 1 /\ i \in S
        BY <1>2, <2>2
      <3> QED
        BY <3>1
    <2> QED
      BY <2>1, <2>2
  <1> HIDE DEF T
  <1>3. Nat \subseteq T
    BY <1>1, <1>2, SetInduction
  <1> QED
    BY <1>3 DEF T

\* A recursive function that follows its equation for the first n arguments.
Follows(g, n, base, step) ==
  g[0] = base /\ \A i \in 1..n : g[i] = step[i][g[i - 1]]

\* A recursive definition over 0..n defines something: a function that follows the
\* equation exists.
LEMMA RecursionExists ==
  ASSUME NEW n \in Nat, NEW V, NEW base \in V, NEW step \in [1..n -> [V -> V]]
  PROVE  \E g \in [0..n -> V] : Follows(g, n, base, step)
  <1> DEFINE S == {m \in 0..n : \E g \in [0..n -> V] : Follows(g, m, base, step)}
  <1>1. 0 \in S
    <2>1. /\ [i \in 0..n |-> base] \in [0..n -> V]
          /\ Follows([i \in 0..n |-> base], 0, base, step)
      BY DEF Follows
    <2> QED
      BY <2>1
  <1>2. ASSUME NEW m \in 1..n, m - 1 \in S PROVE m \in S
    <2>1. PICK g \in [0..n -> V] : Follows(g, m - 1, base, step)
      BY <1>2
    <2> DEFINE h == [g EXCEPT ![m] = step[m][g[m - 1]]]
    <2>2. g[m - 1] \in V /\ m \in 0..n /\ m # 0 /\ 0 \in 0..n
      OBVIOUS
    <2>3. step[m][g[m - 1]] \in V
      BY <2>2
    <2>4. h \in [0..n -> V] /\ \A i \in 0..n : i # m => h[i] = g[i]
      BY <2>3
    <2>5. h[m] = step[m][g[m - 1]]
      BY <2>2
    <2>6. ASSUME NEW i \in 1..m PROVE h[i] = step[i][h[i - 1]]
      <3>1. i - 1 \in 0..n /\ i - 1 # m /\ h[i - 1] = g[i - 1]
        BY <2>4
      <3>2. CASE i = m
        BY <3>1, <3>2, <2>5
      <3>3. CASE i # m
        <4>1. i \in 1..(m - 1) /\ i \in 0..n
          BY <3>3
        <4> HIDE DEF h
        <4> QED
          BY <4>1, <3>1, <3>3, <2>1, <2>4 DEF Follows
      <3> QED
        BY <3>2, <3>3
    <2>7. h[0] = base
      BY <2>1, <2>2, <2>4 DEF Follows
    <2> HIDE DEF h
    <2>8. Follows(h, m, base, step)
      BY <2>6, <2>7 DEF Follows
    <2> QED
      BY <2>2, <2>4, <2>8
  <1> HIDE DEF S
  <1>3. 0..n \subseteq S
    BY <1>1, <1>2, BoundedInduction
  <1> QED
    BY <1>3 DEF S

-----------------------------------------------------------------------------
(* The bytes of a copy *)

\* Whatever stands in a copy or in a tree.
Nodes == [depth : Nat, key : Keys, value : Scalars \cup {"dict", "list"}]

TotalsEquation(copy, upto) ==
  upto = [n \in 0..Len(copy) |-> IF n = 0 THEN 0 ELSE upto[n - 1] + NodeBytes(copy[n])]

\* What a node counts for is a natural.
LEMMA NodeBytesType == ASSUME NEW node \in Nodes PROVE NodeBytes(node) \in Nat
  BY SnapshotAssumption DEF NodeBytes, SnapshotAssumption

\* The totals are what their equation says, and naturals.
LEMMA TotalsAreDefined ==
  ASSUME NEW copy \in Seq(Nodes)
  PROVE  /\ Totals(copy) \in [0..Len(copy) -> Nat]
         /\ Totals(copy)[0] = 0
         /\ \A n \in 1..Len(copy) : Totals(copy)[n] = Totals(copy)[n - 1] + NodeBytes(copy[n])
  <1> DEFINE m    == Len(copy)
             cost == [n \in 1..m |-> NodeBytes(copy[n])]
             step == [n \in 1..m |-> [v \in Nat |-> v + cost[n]]]
             upto == Totals(copy)
  <1>1. m \in Nat /\ \A n \in 1..m : copy[n] \in Nodes
    OBVIOUS
  <1>2. cost \in [1..m -> Nat]
    BY <1>1, NodeBytesType
  <1>3. \A n \in 1..m : cost[n] = NodeBytes(copy[n])
    OBVIOUS
  <1> HIDE DEF m, cost
  <1>4. step \in [1..m -> [Nat -> Nat]]
    BY <1>1, <1>2
  <1>5. \A n \in 1..m, v \in Nat : step[n][v] = v + cost[n]
    OBVIOUS
  <1> HIDE DEF step
  <1>6. PICK g \in [0..m -> Nat] : Follows(g, m, 0, step)
    BY <1>1, <1>4, RecursionExists
  <1>7. ASSUME NEW n \in 1..m PROVE g[n] = g[n - 1] + NodeBytes(copy[n])
    <2>1. n - 1 \in 0..m
      BY <1>1
    <2>2. g[n - 1] \in Nat
      BY <2>1
    <2> QED
      BY <1>3, <1>5, <1>6, <2>2 DEF Follows
  <1>8. TotalsEquation(copy, g)
    <2>1. \A n \in 0..m : g[n] = IF n = 0 THEN 0 ELSE g[n - 1] + NodeBytes(copy[n])
      BY <1>1, <1>6, <1>7 DEF Follows
    <2> QED
      BY <2>1 DEF TotalsEquation, m
  <1>9. upto = CHOOSE f : TotalsEquation(copy, f)
    BY DEF Totals, TotalsEquation
  <1>10. TotalsEquation(copy, upto)
    BY <1>8, <1>9
  <1> HIDE DEF upto
  <1>11. /\ DOMAIN upto = 0..m /\ upto[0] = 0
         /\ upto = [n \in 0..m |-> upto[n]]
         /\ \A n \in 1..m : upto[n] = upto[n - 1] + NodeBytes(copy[n])
    BY <1>1, <1>10 DEF TotalsEquation, m
  <1>12. \A n \in 0..m : upto[n] \in Nat
    <2> DEFINE S == {n \in 0..m : upto[n] \in Nat}
    <2>1. 0 \in S
      BY <1>1, <1>11
    <2>2. ASSUME NEW n \in 1..m, n - 1 \in S PROVE n \in S
      <3>1. upto[n - 1] \in Nat
        BY <2>2
      <3>2. NodeBytes(copy[n]) \in Nat
        BY <1>1, NodeBytesType
      <3>3. upto[n] = upto[n - 1] + NodeBytes(copy[n])
        BY <1>11
      <3>4. n \in 0..m
        BY <1>1
      <3> HIDE DEF upto, m
      <3>5. upto[n] \in Nat
        BY <3>1, <3>2, <3>3
      <3> QED
        BY <3>4, <3>5
    <2> HIDE DEF S
    <2>3. 0..m \subseteq S
      BY <1>1, <2>1, <2>2, BoundedInduction
    <2> QED
      BY <2>3 DEF S
  <1> QED
    BY <1>11, <1>12 DEF upto, m

\* Two copies that begin alike have the same totals as far as they do.
LEMMA TotalsOfPrefix ==
  ASSUME NEW copy \in Seq(Nodes), NEW longer \in Seq(Nodes), Len(copy) <= Len(longer),
         \A i \in 1..Len(copy) : longer[i] = copy[i]
  PROVE  \A n \in 0..Len(copy) : Totals(longer)[n] = Totals(copy)[n]
  <1> DEFINE m == Len(copy)
             S == {n \in 0..m : Totals(longer)[n] = Totals(copy)[n]}
  <1>1. m \in Nat /\ Len(longer) \in Nat /\ \A n \in 1..m : n \in 1..Len(longer)
    OBVIOUS
  <1>2. 0 \in S
    BY <1>1, TotalsAreDefined
  <1>3. ASSUME NEW n \in 1..m, n - 1 \in S PROVE n \in S
    <2>1. Totals(copy)[n] = Totals(copy)[n - 1] + NodeBytes(copy[n])
      BY TotalsAreDefined
    <2>2. Totals(longer)[n] = Totals(longer)[n - 1] + NodeBytes(longer[n])
      BY <1>1, TotalsAreDefined
    <2> QED
      BY <1>1, <1>3, <2>1, <2>2
  <1> HIDE DEF S, m
  <1>4. 0..m \subseteq S
    BY <1>1, <1>2, <1>3, BoundedInduction
  <1> QED
    BY <1>4 DEF S, m

\* Totals never go down.
LEMMA TotalsGrow ==
  ASSUME NEW copy \in Seq(Nodes), NEW k \in 0..Len(copy)
  PROVE  Totals(copy)[k] <= Bytes(copy)
  <1> DEFINE m == Len(copy)
             d == m - k
             S == {i \in 0..d : Totals(copy)[k] <= Totals(copy)[k + i]}
  <1>1. m \in Nat /\ d \in Nat /\ k \in 0..m /\ k + d = m
    OBVIOUS
  <1>2. Totals(copy) \in [0..m -> Nat]
    BY TotalsAreDefined
  <1>3. 0 \in S
    BY <1>1, <1>2
  <1>4. ASSUME NEW i \in 1..d, i - 1 \in S PROVE i \in S
    <2>1. k + i \in 1..m /\ k + i - 1 \in 0..m /\ k + (i - 1) = k + i - 1 /\ k + i \in 0..m
      BY <1>1
    <2>2. Totals(copy)[k + i] = Totals(copy)[k + i - 1] + NodeBytes(copy[k + i])
      BY <2>1, TotalsAreDefined
    <2>3. NodeBytes(copy[k + i]) \in Nat
      BY <2>1, NodeBytesType
    <2>4. Totals(copy)[k] <= Totals(copy)[k + i - 1]
      BY <1>4, <2>1
    <2>5. /\ Totals(copy)[k] \in Nat /\ Totals(copy)[k + i - 1] \in Nat
      BY <1>1, <1>2, <2>1
    <2> HIDE DEF m, d
    <2>6. Totals(copy)[k] <= Totals(copy)[k + i]
      BY <2>2, <2>3, <2>4, <2>5
    <2> QED
      BY <2>6
  <1> HIDE DEF S
  <1>5. 0..d \subseteq S
    BY <1>1, <1>3, <1>4, BoundedInduction
  <1>6. d \in S
    BY <1>1, <1>5
  <1> QED
    BY <1>1, <1>6 DEF S, Bytes

\* The bytes of a copy are a natural.
LEMMA BytesType == ASSUME NEW copy \in Seq(Nodes) PROVE Bytes(copy) \in Nat
  <1>1. Len(copy) \in 0..Len(copy)
    OBVIOUS
  <1> QED
    BY <1>1, TotalsAreDefined DEF Bytes

\* Nothing counts for nothing.
LEMMA BytesOfNothing == Bytes(<<>>) = 0
  <1>1. <<>> \in Seq(Nodes) /\ Len(<<>>) = 0
    OBVIOUS
  <1> QED
    BY <1>1, TotalsAreDefined DEF Bytes

\* One more value counts for what it does.
LEMMA BytesOfAppend ==
  ASSUME NEW copy \in Seq(Nodes), NEW node \in Nodes
  PROVE  Bytes(Append(copy, node)) = Bytes(copy) + NodeBytes(node)
  <1> DEFINE longer == Append(copy, node)
             m      == Len(copy)
  <1>1. /\ longer \in Seq(Nodes) /\ Len(longer) = m + 1 /\ m \in Nat
        /\ \A i \in 1..m : longer[i] = copy[i]
        /\ longer[m + 1] = node
    BY AppendProperties
  <1> HIDE DEF longer
  <1>2. Totals(longer)[m] = Totals(copy)[m]
    BY <1>1, TotalsOfPrefix
  <1>3. m + 1 \in 1..Len(longer) /\ m + 1 - 1 = m
    BY <1>1
  <1>4. Totals(longer)[m + 1] = Totals(longer)[m] + NodeBytes(node)
    BY <1>1, <1>3, TotalsAreDefined
  <1> QED
    BY <1>1, <1>2, <1>4 DEF Bytes, longer

\* A copy that goes on counts for more.
LEMMA BytesOfPrefix ==
  ASSUME NEW copy \in Seq(Nodes), NEW longer \in Seq(Nodes), Len(copy) <= Len(longer),
         \A i \in 1..Len(copy) : longer[i] = copy[i]
  PROVE  Bytes(copy) <= Bytes(longer)
  <1>1. Len(copy) \in 0..Len(copy) /\ Len(copy) \in 0..Len(longer)
    OBVIOUS
  <1>2. Totals(longer)[Len(copy)] = Bytes(copy)
    BY <1>1, TotalsOfPrefix DEF Bytes
  <1> QED
    BY <1>1, <1>2, TotalsGrow

\* What a value counts for is what visit counts: its key, then itself.
LEMMA BytesOfCopied ==
  ASSUME NEW key \in Keys, NEW item \in Items
  PROVE  NodeBytes(Copied(key, item))
           = (IF key \in Scalars THEN Weight[key] ELSE 0)
               + (IF item \in Scalars THEN Weight[item] ELSE 0)
  <1>1. Copied(key, item).key = key
    BY DEF Copied
  <1>2. Copied(key, item).value = IF item \in Scalars THEN item
                                  ELSE IF item \in Dicts THEN "dict" ELSE "list"
    BY DEF Copied
  <1>3. "dict" \notin Scalars /\ "list" \notin Scalars
    BY SnapshotAssumption DEF SnapshotAssumption
  <1> QED
    BY <1>1, <1>2, <1>3 DEF NodeBytes

\* A copy is a sequence of nodes.
LEMMA CopiesAreNodes == ASSUME IInv PROVE snapshot \in Seq(Nodes)
  <1>1. snapshot \in Seq(Copies)
    BY DEF IInv, TypeOK
  <1>2. Copies \subseteq Nodes
    BY SnapshotAssumption DEF Copies, Nodes, Keys, SnapshotAssumption
  <1> QED
    BY <1>1, <1>2

\* The bytes are exact also of a copy that was given up, and nothing is copied or
\* counted before the first visit; with this BytesAreCounted is inductive.
Counted == Bytes(snapshot) = scalar_bytes /\ scalar_bytes <= MaxSnapshotScalarBytes

NothingBeforeStart == outcome = "called" => snapshot = <<>> /\ scalar_bytes = 0

BytesInv == IInv /\ Counted /\ NothingBeforeStart

\* A visit that is given the bytes up to the key counts those of the item.
LEMMA VisitCounts ==
  ASSUME IInv, Counted, NEW open, NEW key \in Keys, NEW item \in Items, NEW spent \in Nat,
         spent = scalar_bytes + (IF key \in Scalars THEN Weight[key] ELSE 0),
         spent <= MaxSnapshotScalarBytes,
         Visit(open, key, item, spent)
  PROVE  Counted' /\ outcome' # "called"
  <1>1. CASE Refused(item, spent)
    BY <1>1 DEF Visit, Unwind, Counted, Bytes, counters
  <1>2. CASE ~Refused(item, spent)
    <2>1. /\ snapshot' = Append(snapshot, Copied(key, item))
          /\ scalar_bytes' = spent + (IF item \in Scalars THEN Weight[item] ELSE 0)
          /\ outcome' # "called"
      BY <1>2 DEF Visit, Returned
    <2>2. Len(stack) + 1 <= MaxContainerDepth
      BY <1>2, SnapshotAssumption DEF Refused, IInv, TypeOK, SnapshotAssumption
    <2>3. Copied(key, item) \in Nodes
      BY <2>2, CopiedType, SnapshotAssumption
         DEF Copies, Nodes, Keys, SnapshotAssumption
    <2>4. Bytes(snapshot') = Bytes(snapshot) + NodeBytes(Copied(key, item))
      BY <2>1, <2>3, CopiesAreNodes, BytesOfAppend
    <2> DEFINE k == IF key \in Scalars THEN Weight[key] ELSE 0
               w == IF item \in Scalars THEN Weight[item] ELSE 0
    <2>5. k \in Nat /\ w \in Nat /\ scalar_bytes \in Nat
      BY SnapshotAssumption DEF SnapshotAssumption, IInv, TypeOK
    <2>6. NodeBytes(Copied(key, item)) = k + w
      BY BytesOfCopied
    <2>7. scalar_bytes' <= MaxSnapshotScalarBytes
      <3>1. CASE item \in Scalars
        BY <3>1, <1>2, <2>1, <2>5, SnapshotAssumption DEF Refused, SnapshotAssumption
      <3>2. CASE item \notin Scalars
        BY <3>2, <2>1
      <3> QED
        BY <3>1, <3>2
    <2> HIDE DEF k, w
    <2>8. spent = scalar_bytes + k /\ scalar_bytes' = spent + w
      BY <2>1 DEF k, w
    <2>9. Bytes(snapshot') = scalar_bytes'
      BY <2>4, <2>5, <2>6, <2>8 DEF Counted
    <2> QED
      BY <2>1, <2>7, <2>9 DEF Counted
  <1> QED
    BY <1>1, <1>2

\* Every step keeps the count exact.
LEMMA BytesPreserved == ASSUME BytesInv, [Next]_vars PROVE BytesInv'
  <1>1. IInv'
    BY NextPreserves DEF BytesInv
  <1>2. CASE Start
    <2>1. NoKey \in Keys /\ NoKey \notin Scalars
      BY SnapshotAssumption DEF Keys, Items, SnapshotAssumption
    <2>2. scalar_bytes = 0 /\ receipt \in Items /\ MaxSnapshotScalarBytes \in Nat
      BY <1>2, SnapshotAssumption
         DEF Start, BytesInv, NothingBeforeStart, IInv, TypeOK, SnapshotAssumption
    <2>3. Visit(<<>>, NoKey, receipt, 0)
      BY <1>2 DEF Start
    <2>4. Counted' /\ outcome' # "called"
      BY <2>1, <2>2, <2>3, VisitCounts DEF BytesInv
    <2> QED
      BY <1>1, <2>4 DEF BytesInv, NothingBeforeStart
  <1>3. CASE VisitEntry
    <2> DEFINE entry == Entries[Frame.next]
               open  == [stack EXCEPT ![Len(stack)].next = @ + 1]
               keyed == Frame.container \in Dicts
               spent == SpentWithKey(entry)
               key   == IF keyed THEN entry.key ELSE NoKey
    <2>1. CASE Unwind("refused")
      BY <1>1, <2>1 DEF Unwind, counters, BytesInv, Counted, NothingBeforeStart
    <2>2. CASE ~Unwind("refused")
      <3>1. Visit(open, key, entry.item, spent)
            /\ ~(keyed /\ (entry.key \in Unfit \/ spent > MaxSnapshotScalarBytes))
        BY <1>3, <2>2 DEF VisitEntry
      <3>2. outcome = "running" /\ Frame.next <= Len(Entries)
        BY <1>3 DEF VisitEntry
      <3>3. Frame \in Frames /\ Entries \in Seq(Entry)
        BY <3>2, FrameType DEF BytesInv
      <3>4. Frame.next \in 1..Len(Entries)
        BY <3>2, <3>3 DEF Frames
      <3>5. entry \in Entry
        BY <3>3, <3>4
      <3>6. entry.item \in Items /\ entry.key \in Scalars
        BY <3>5 DEF Entry
      <3>7. key \in Keys /\ (key \in Scalars <=> keyed) /\ (keyed => key = entry.key)
        BY <3>6, SnapshotAssumption DEF Keys, Items, SnapshotAssumption
      <3>8. spent = scalar_bytes + (IF key \in Scalars THEN Weight[key] ELSE 0)
        BY <3>7 DEF SpentWithKey
      <3> HIDE DEF entry, open, key
      <3>9. spent \in Nat /\ scalar_bytes \in Nat
        BY <3>6, SnapshotAssumption
           DEF SpentWithKey, SnapshotAssumption, BytesInv, IInv, TypeOK
      <3>10. spent <= MaxSnapshotScalarBytes
        <4>1. CASE keyed
          BY <4>1, <3>1, <3>9, SnapshotAssumption DEF SnapshotAssumption
        <4>2. CASE ~keyed
          BY <4>2, <3>9 DEF SpentWithKey, BytesInv, Counted
        <4> QED
          BY <4>1, <4>2
      <3> HIDE DEF spent
      <3>11. Counted' /\ outcome' # "called"
        BY <3>1, <3>6, <3>7, <3>8, <3>9, <3>10, VisitCounts DEF BytesInv
      <3> QED
        BY <1>1, <3>11 DEF BytesInv, NothingBeforeStart
    <2> QED
      BY <2>1, <2>2
  <1>4. CASE IterationBreaks
    BY <1>1, <1>4 DEF IterationBreaks, Unwind, counters, BytesInv, Counted, NothingBeforeStart
  <1>5. CASE LeaveContainer
    BY <1>1, <1>5 DEF LeaveContainer, Returned, counters, BytesInv, Counted, NothingBeforeStart
  <1>6. CASE Mutate
    BY <1>1, <1>6 DEF Mutate, counters, BytesInv, Counted, NothingBeforeStart
  <1>7. CASE UNCHANGED vars
    BY <1>1, <1>7 DEF vars, counters, BytesInv, Counted, NothingBeforeStart
  <1> QED
    BY <1>2, <1>3, <1>4, <1>5, <1>6, <1>7 DEF Next, Step, Finished

\* What is counted is what is copied.
LEMMA BytesInvHolds == Spec => []BytesInv
  <1>1. Init => BytesInv
    <2> SUFFICES ASSUME Init PROVE BytesInv
      OBVIOUS
    <2>1. snapshot = <<>> /\ scalar_bytes = 0
      BY DEF Init
    <2> QED
      BY <2>1, InitEstablishes, BytesOfNothing, SnapshotAssumption
         DEF BytesInv, Counted, NothingBeforeStart, SnapshotAssumption
  <1>2. BytesInv /\ [Next]_vars => BytesInv'
    BY BytesPreserved
  <1> QED
    BY <1>1, <1>2, PTL DEF Spec

\* The bytes counted while the receipt is walked are exactly those of the keys and
\* values in the copy, and within the budget, whatever is copied.
THEOREM BytesAreExact == Spec => []BytesAreCounted
  <1>1. BytesInv => BytesAreCounted
    BY DEF BytesInv, Counted, BytesAreCounted
  <1> QED
    BY <1>1, BytesInvHolds, PTL

-----------------------------------------------------------------------------
(* The turns that are left *)

\* A turn that ends the copy leaves none, where one at least was left.
LEMMA LastTurn ==
  ASSUME IInv, outcome \in {"called", "running"},
         outcome' \notin {"called", "running"}
  PROVE  TurnsLeft \in Nat /\ TurnsLeft' \in Nat /\ TurnsLeft' < TurnsLeft
  <1>1. Len(stack) \in Nat /\ node_count \in Nat /\ MaxContainerNodes - node_count \in Nat
    BY SnapshotAssumption DEF IInv, TypeOK, NodesAreCounted, SnapshotAssumption
  <1> QED
    BY <1>1 DEF TurnsLeft

\* A turn that copies a value uses up two, and opens one container at most.
LEMMA VisitTurn ==
  ASSUME IInv, IInv', outcome \in {"called", "running"},
         NEW open, open \in Seq(Frames), Len(open) = Len(stack),
         NEW key, NEW item, NEW spent, Visit(open, key, item, spent)
  PROVE  TurnsLeft \in Nat /\ TurnsLeft' \in Nat /\ TurnsLeft' < TurnsLeft
  <1>1. CASE outcome' \notin {"called", "running"}
    BY <1>1, LastTurn
  <1>2. CASE outcome' \in {"called", "running"}
    <2>1. ~Refused(item, spent)
      BY <1>2 DEF Visit, Unwind
    <2>2. node_count' = node_count + 1
      BY <2>1 DEF Visit
    <2>3. Len(stack') \in {Len(stack), Len(stack) + 1}
      <3>1. CASE stack' = open
        BY <3>1
      <3>2. CASE stack' # open
        <4> DEFINE frame == [container |-> item, next |-> 1, size |-> Len(heap[item])]
        <4>1. stack' = Append(open, frame)
          BY <2>1, <3>2 DEF Visit
        <4> HIDE DEF frame
        <4> QED
          BY <4>1
      <3> QED
        BY <3>1, <3>2
    <2>4. /\ Len(stack) \in Nat /\ node_count \in Nat /\ MaxContainerNodes \in Nat
          /\ node_count' <= MaxContainerNodes
      BY SnapshotAssumption DEF IInv, TypeOK, NodesAreCounted, SnapshotAssumption
    <2> QED
      BY <1>2, <2>2, <2>3, <2>4 DEF TurnsLeft
  <1> QED
    BY <1>1, <1>2

\* Every turn of the copy uses up one of those left, the others none.
LEMMA TurnsDecrease ==
  ASSUME IInv, [Next]_vars
  PROVE  [/\ TurnsLeft \in Nat /\ TurnsLeft' \in Nat
          /\ IF Step THEN TurnsLeft' < TurnsLeft ELSE TurnsLeft' = TurnsLeft]_vars
  <1>1. IInv'
    BY NextPreserves
  <1>2. /\ Len(stack) \in Nat /\ stack \in Seq(Frames) /\ node_count \in Nat
        /\ MaxContainerNodes \in Nat /\ node_count <= MaxContainerNodes
        /\ MaxContainerNodes - node_count \in Nat
    BY SnapshotAssumption DEF IInv, TypeOK, NodesAreCounted, SnapshotAssumption
  <1>3. TurnsLeft \in Nat
    BY <1>2 DEF TurnsLeft
  <1>4. ASSUME Step PROVE TurnsLeft' \in Nat /\ TurnsLeft' < TurnsLeft
    <2>1. CASE Start
      <3>1. stack = <<>>
        BY <2>1 DEF Start, IInv, TypeOK
      <3> QED
        BY <2>1, <3>1, <1>1, <1>2, VisitTurn DEF Start
    <2>2. CASE IterationBreaks
      BY <2>2, LastTurn DEF IterationBreaks, Unwind
    <2>3. CASE VisitEntry
      <3> DEFINE open == [stack EXCEPT ![Len(stack)].next = @ + 1]
      <3>1. CASE Unwind("refused")
        BY <2>3, <3>1, LastTurn DEF VisitEntry, Unwind
      <3>2. CASE ~Unwind("refused")
        <4>1. PICK key, item, spent : Visit(open, key, item, spent)
          BY <2>3, <3>2 DEF VisitEntry
        <4>2. open \in Seq(Frames) /\ Len(open) = Len(stack)
          <5>1. Frame \in Frames /\ Len(stack) # 0
            BY <2>3, FrameType DEF VisitEntry
          <5>2. [stack[Len(stack)] EXCEPT !.next = @ + 1] \in Frames
            BY <5>1 DEF Frames, Frame
          <5> QED
            BY <1>2, <5>1, <5>2
        <4> HIDE DEF open
        <4> QED
          BY <2>3, <4>1, <4>2, <1>1, VisitTurn DEF VisitEntry
      <3> QED
        BY <3>1, <3>2
    <2>4. CASE LeaveContainer
      <3>1. CASE outcome' \notin {"called", "running"}
        BY <2>4, <3>1, LastTurn DEF LeaveContainer
      <3>2. CASE outcome' \in {"called", "running"}
        <4>1. outcome = "running" /\ node_count' = node_count
          BY <2>4 DEF LeaveContainer, counters
        <4>2. Len(stack') = Len(stack) - 1 /\ Len(stack) # 0
          BY <2>4, <4>1, FrameType, LeaveShortens
        <4> DEFINE left == 2 * (MaxContainerNodes - node_count)
        <4>3. left \in Nat
          BY <1>2
        <4>4. TurnsLeft = left + Len(stack) + 1 /\ TurnsLeft' = left + Len(stack') + 1
          BY <3>2, <4>1 DEF TurnsLeft
        <4> HIDE DEF left
        <4> QED
          BY <1>2, <4>2, <4>3, <4>4
      <3> QED
        BY <3>1, <3>2
    <2> QED
      BY <1>4, <2>1, <2>2, <2>3, <2>4 DEF Step
  <1>5. ASSUME ~Step PROVE TurnsLeft' = TurnsLeft
    <2>1. Mutate \/ UNCHANGED vars
      BY <1>5 DEF Next, Finished
    <2>2. UNCHANGED <<stack, node_count, outcome>>
      BY <2>1 DEF Mutate, vars, counters
    <2> QED
      BY <2>2 DEF TurnsLeft
  <1> QED
    BY <1>3, <1>4, <1>5

\* However the owner changes the graph, and however often, the copy takes at most
\* two turns for every node of the budget, and one.
THEOREM TurnsNeverExceedBudget == Spec => TurnsAreBounded
  <1>1. /\ IInv
        /\ [Next]_vars
        => [/\ TurnsLeft \in Nat /\ TurnsLeft' \in Nat
            /\ IF Step THEN TurnsLeft' < TurnsLeft ELSE TurnsLeft' = TurnsLeft]_vars
    BY TurnsDecrease
  <1> QED
    BY <1>1, InvariantHolds, PTL DEF Spec, TurnsAreBounded

-----------------------------------------------------------------------------
(* The tree a receipt unfolds to *)

TreesByKey == [Keys -> [Items -> Seq(Nodes)]]

\* An item written into a tree is a node.
LEMMA NodeAtType ==
  ASSUME NEW depth \in Nat, NEW key \in Keys, NEW item \in Items
  PROVE  NodeAt(depth, key, item) \in Nodes
  BY DEF NodeAt, Nodes

\* The k-th entry of a container from its end, and the tree it stands for.
FromEnd(graph, container, k) == graph[container][Len(graph[container]) - k + 1]

Branch(graph, tree, container, k) ==
  tree[KeyOf(container, FromEnd(graph, container, k))][FromEnd(graph, container, k).item]

ForestEquation(graph, tree, container, last) ==
  last = [k \in 0..Len(graph[container]) |->
            IF k = 0 THEN <<>> ELSE Branch(graph, tree, container, k) \o last[k - 1]]

\* The branch of an entry is a sequence of nodes.
LEMMA BranchType ==
  ASSUME NEW graph \in [Containers -> Seq(Entry)], NEW tree \in TreesByKey,
         NEW container \in Containers, NEW k \in 1..Len(graph[container])
  PROVE  Branch(graph, tree, container, k) \in Seq(Nodes)
  <1>1. Len(graph[container]) - k + 1 \in 1..Len(graph[container])
    OBVIOUS
  <1>2. FromEnd(graph, container, k) \in Entry
    BY <1>1 DEF FromEnd
  <1>3. FromEnd(graph, container, k).item \in Items
        /\ KeyOf(container, FromEnd(graph, container, k)) \in Keys
    BY <1>2 DEF Entry, KeyOf, Keys
  <1> QED
    BY <1>3 DEF Branch, TreesByKey

\* The forest of a container is what its equation says.
LEMMA ForestIsDefined ==
  ASSUME NEW graph \in [Containers -> Seq(Entry)], NEW tree \in TreesByKey,
         NEW container \in Containers
  PROVE  /\ Forest(graph, tree, container) \in [0..Len(graph[container]) -> Seq(Nodes)]
         /\ Forest(graph, tree, container)[0] = <<>>
         /\ \A k \in 1..Len(graph[container]) :
              Forest(graph, tree, container)[k]
                = Branch(graph, tree, container, k) \o Forest(graph, tree, container)[k - 1]
  <1> DEFINE m      == Len(graph[container])
             branch == [k \in 1..m |-> Branch(graph, tree, container, k)]
             step   == [k \in 1..m |-> [v \in Seq(Nodes) |-> branch[k] \o v]]
             last   == Forest(graph, tree, container)
  <1>1. m \in Nat
    OBVIOUS
  <1>2. branch \in [1..m -> Seq(Nodes)]
    BY BranchType
  <1>3. \A k \in 1..m : branch[k] = Branch(graph, tree, container, k)
    OBVIOUS
  <1> HIDE DEF m, branch
  <1>4. step \in [1..m -> [Seq(Nodes) -> Seq(Nodes)]]
    <2>1. \A k \in 1..m, v \in Seq(Nodes) : branch[k] \o v \in Seq(Nodes)
      BY <1>2, ConcatProperties
    <2> QED
      BY <2>1
  <1>5. \A k \in 1..m, v \in Seq(Nodes) : step[k][v] = branch[k] \o v
    OBVIOUS
  <1> HIDE DEF step
  <1>6. <<>> \in Seq(Nodes)
    OBVIOUS
  <1>7. PICK g \in [0..m -> Seq(Nodes)] : Follows(g, m, <<>>, step)
    BY <1>1, <1>4, <1>6, RecursionExists
  <1>8. ASSUME NEW k \in 1..m PROVE g[k] = Branch(graph, tree, container, k) \o g[k - 1]
    <2>1. k - 1 \in 0..m
      BY <1>1
    <2>2. g[k - 1] \in Seq(Nodes)
      BY <2>1
    <2> QED
      BY <1>3, <1>5, <1>7, <2>2 DEF Follows
  <1>9. ForestEquation(graph, tree, container, g)
    <2>1. ASSUME NEW k \in 0..m
          PROVE  g[k] = IF k = 0 THEN <<>>
                        ELSE Branch(graph, tree, container, k) \o g[k - 1]
      <3>1. CASE k = 0
        <4>1. g[0] = <<>>
          BY <1>7 DEF Follows
        <4> QED
          BY <3>1, <4>1
      <3>2. CASE k # 0
        <4>1. k \in 1..m
          BY <1>1, <3>2
        <4> QED
          BY <1>8, <3>2, <4>1
      <3> QED
        BY <3>1, <3>2
    <2> QED
      BY <2>1 DEF ForestEquation, m
  <1>10. last = CHOOSE f : ForestEquation(graph, tree, container, f)
    BY DEF Forest, ForestEquation, Branch, FromEnd
  <1>11. ForestEquation(graph, tree, container, last)
    BY <1>9, <1>10
  <1> HIDE DEF last
  <1>12. /\ DOMAIN last = 0..m /\ last[0] = <<>>
         /\ last = [k \in 0..m |-> last[k]]
    BY <1>1, <1>11 DEF ForestEquation, m
  <1>13. ASSUME NEW k \in 1..m
         PROVE  last[k] = Branch(graph, tree, container, k) \o last[k - 1]
    <2>1. k \in 0..m /\ k # 0
      BY <1>1
    <2>2. last[k] = IF k = 0 THEN <<>> ELSE Branch(graph, tree, container, k) \o last[k - 1]
      BY <1>11, <2>1, Zenon DEF ForestEquation, m
    <2> QED
      BY <2>1, <2>2, Zenon
  <1>14. \A k \in 0..m : last[k] \in Seq(Nodes)
    <2> DEFINE S == {k \in 0..m : last[k] \in Seq(Nodes)}
    <2>1. 0 \in S
      <3>1. 0 \in 0..m /\ last[0] = <<>>
        BY <1>1, <1>12
      <3>2. last[0] \in Seq(Nodes)
        BY <3>1, <1>6, Zenon
      <3> QED
        BY <3>1, <3>2
    <2>2. ASSUME NEW k \in 1..m, k - 1 \in S PROVE k \in S
      <3>1. last[k - 1] \in Seq(Nodes)
        BY <2>2
      <3>2. Branch(graph, tree, container, k) \in Seq(Nodes)
        BY BranchType DEF m
      <3>3. last[k] \in Seq(Nodes)
        BY <1>13, <3>1, <3>2, ConcatProperties
      <3>4. k \in 0..m
        BY <1>1
      <3> QED
        BY <3>3, <3>4
    <2> HIDE DEF S
    <2>3. 0..m \subseteq S
      BY <1>1, <2>1, <2>2, BoundedInduction
    <2> QED
      BY <2>3 DEF S
  <1> QED
    BY <1>12, <1>13, <1>14 DEF last, m

\* One level of the trees, over the level below it; the lowest has none below.
Level(graph, levels, tree) ==
  [key \in Keys |-> [item \in Items |->
    <<NodeAt(MaxContainerDepth + 1 - levels, key, item)>>
      \o (IF item \in Scalars \/ levels = 0 THEN <<>>
          ELSE Forest(graph, tree, item)[Len(graph[item])])]]

TreesEquation(graph, tree) ==
  tree = [levels \in 0..MaxContainerDepth |-> Level(graph, levels, tree[levels - 1])]

\* What stands below an item.
Below(graph, levels, item) ==
  IF item \in Scalars \/ levels = 0 THEN <<>>
  ELSE Forest(graph, Trees(graph)[levels - 1], item)[Len(graph[item])]

\* A level holds sequences of nodes when the one below it does.
LEMMA LevelType ==
  ASSUME NEW graph \in [Containers -> Seq(Entry)], NEW levels \in 0..MaxContainerDepth,
         NEW tree, levels = 0 \/ tree \in TreesByKey
  PROVE  Level(graph, levels, tree) \in TreesByKey
  <1>1. ASSUME NEW key \in Keys, NEW item \in Items
        PROVE  <<NodeAt(MaxContainerDepth + 1 - levels, key, item)>>
                 \o (IF item \in Scalars \/ levels = 0 THEN <<>>
                     ELSE Forest(graph, tree, item)[Len(graph[item])]) \in Seq(Nodes)
    <2> DEFINE node == NodeAt(MaxContainerDepth + 1 - levels, key, item)
               rest == IF item \in Scalars \/ levels = 0 THEN <<>>
                       ELSE Forest(graph, tree, item)[Len(graph[item])]
    <2>1. MaxContainerDepth + 1 - levels \in Nat
      BY SnapshotAssumption DEF SnapshotAssumption
    <2>2. node \in Nodes
      BY <2>1, NodeAtType
    <2>3. <<node>> \in Seq(Nodes)
      BY <2>2
    <2>4. rest \in Seq(Nodes)
      <3>1. CASE item \in Scalars \/ levels = 0
        BY <3>1
      <3>2. CASE ~(item \in Scalars \/ levels = 0)
        <4>1. item \in Containers /\ tree \in TreesByKey
          BY <3>2 DEF Items
        <4>2. Len(graph[item]) \in 0..Len(graph[item])
          BY <4>1
        <4> QED
          BY <3>2, <4>1, <4>2, ForestIsDefined
      <3> QED
        BY <3>1, <3>2
    <2> HIDE DEF node, rest
    <2>5. <<node>> \o rest \in Seq(Nodes)
      BY <2>3, <2>4, ConcatProperties
    <2> QED
      BY <2>5 DEF node, rest
  <1> QED
    BY <1>1 DEF Level, TreesByKey

\* The lowest level does not depend on any other.
LEMMA LowestLevel ==
  ASSUME NEW graph, NEW tree, NEW other
  PROVE  Level(graph, 0, tree) = Level(graph, 0, other)
  BY DEF Level

\* The trees are what their equation says.
LEMMA TreesAreDefined ==
  ASSUME NEW graph \in [Containers -> Seq(Entry)]
  PROVE  /\ Trees(graph) \in [0..MaxContainerDepth -> TreesByKey]
         /\ \A levels \in 0..MaxContainerDepth, key \in Keys, item \in Items :
              Trees(graph)[levels][key][item]
                = <<NodeAt(MaxContainerDepth + 1 - levels, key, item)>>
                    \o Below(graph, levels, item)
  <1> DEFINE m    == MaxContainerDepth
             base == Level(graph, 0, <<>>)
             step == [levels \in 1..m |-> [t \in TreesByKey |-> Level(graph, levels, t)]]
             tree == Trees(graph)
  <1>1. m \in Nat /\ 0 \in 0..m
    BY SnapshotAssumption DEF SnapshotAssumption
  <1>2. base \in TreesByKey
    BY <1>1, LevelType
  <1>3. step \in [1..m -> [TreesByKey -> TreesByKey]]
    <2>1. ASSUME NEW levels \in 1..m, NEW t \in TreesByKey
          PROVE  Level(graph, levels, t) \in TreesByKey
      <3>1. levels \in 0..m
        BY <1>1
      <3> QED
        BY <3>1, LevelType
    <2> QED
      BY <2>1
  <1>4. \A levels \in 1..m, t \in TreesByKey : step[levels][t] = Level(graph, levels, t)
    OBVIOUS
  <1> HIDE DEF step, base
  <1>5. PICK g \in [0..m -> TreesByKey] : Follows(g, m, base, step)
    BY <1>1, <1>2, <1>3, RecursionExists
  <1>6. ASSUME NEW levels \in 0..m PROVE g[levels] = Level(graph, levels, g[levels - 1])
    <2>1. CASE levels = 0
      <3>1. g[0] = base
        BY <1>5 DEF Follows
      <3>2. base = Level(graph, 0, g[0 - 1])
        BY LowestLevel DEF base
      <3> QED
        BY <2>1, <3>1, <3>2
    <2>2. CASE levels # 0
      <3>1. levels \in 1..m /\ levels - 1 \in 0..m
        BY <1>1, <2>2
      <3>2. g[levels - 1] \in TreesByKey
        BY <3>1
      <3>3. g[levels] = step[levels][g[levels - 1]]
        BY <1>5, <3>1 DEF Follows
      <3> QED
        BY <1>4, <3>1, <3>2, <3>3
    <2> QED
      BY <2>1, <2>2
  <1>7. TreesEquation(graph, g)
    BY <1>6 DEF TreesEquation
  <1>8. tree = CHOOSE t : TreesEquation(graph, t)
    BY DEF Trees, TreesEquation, Level
  <1>9. TreesEquation(graph, tree)
    BY <1>7, <1>8
  <1> HIDE DEF tree
  <1>10. /\ tree = [levels \in 0..m |-> tree[levels]]
         /\ \A levels \in 0..m : tree[levels] = Level(graph, levels, tree[levels - 1])
    BY <1>9 DEF TreesEquation
  <1>11. \A levels \in 0..m : tree[levels] \in TreesByKey
    <2> DEFINE S == {levels \in 0..m : tree[levels] \in TreesByKey}
    <2>1. 0 \in S
      <3>1. tree[0] = Level(graph, 0, tree[0 - 1])
        BY <1>1, <1>10
      <3>2. Level(graph, 0, tree[0 - 1]) \in TreesByKey
        BY <1>1, LevelType
      <3> QED
        BY <1>1, <3>1, <3>2
    <2>2. ASSUME NEW levels \in 1..m, levels - 1 \in S PROVE levels \in S
      <3>1. levels \in 0..m /\ tree[levels - 1] \in TreesByKey
        BY <1>1, <2>2
      <3>2. Level(graph, levels, tree[levels - 1]) \in TreesByKey
        BY <3>1, LevelType
      <3> QED
        BY <1>10, <3>1, <3>2
    <2> HIDE DEF S
    <2>3. 0..m \subseteq S
      BY <1>1, <2>1, <2>2, BoundedInduction
    <2> QED
      BY <2>3 DEF S
  <1>12. tree \in [0..m -> TreesByKey]
    BY <1>10, <1>11
  <1>13. ASSUME NEW levels \in 0..m, NEW key \in Keys, NEW item \in Items
         PROVE  tree[levels][key][item]
                  = <<NodeAt(MaxContainerDepth + 1 - levels, key, item)>>
                      \o Below(graph, levels, item)
    <2>1. tree[levels] = Level(graph, levels, tree[levels - 1])
      BY <1>10
    <2>2. Level(graph, levels, tree[levels - 1])[key][item]
            = <<NodeAt(MaxContainerDepth + 1 - levels, key, item)>>
                \o (IF item \in Scalars \/ levels = 0 THEN <<>>
                    ELSE Forest(graph, tree[levels - 1], item)[Len(graph[item])])
      BY DEF Level
    <2> QED
      BY <2>1, <2>2 DEF Below, tree
  <1> QED
    BY <1>12, <1>13 DEF tree

\* What stands below an item is a sequence of nodes, and so is the item's tree.
LEMMA BelowType ==
  ASSUME NEW graph \in [Containers -> Seq(Entry)],
         NEW levels \in 0..MaxContainerDepth, NEW item \in Items
  PROVE  Below(graph, levels, item) \in Seq(Nodes)
  <1>1. CASE item \in Scalars \/ levels = 0
    BY <1>1 DEF Below
  <1>2. CASE ~(item \in Scalars \/ levels = 0)
    <2>1. item \in Containers /\ levels - 1 \in 0..MaxContainerDepth
      BY <1>2, SnapshotAssumption DEF Items, SnapshotAssumption
    <2>2. Trees(graph)[levels - 1] \in TreesByKey
      BY <2>1, TreesAreDefined
    <2>3. Len(graph[item]) \in 0..Len(graph[item])
      BY <2>1
    <2> QED
      BY <1>2, <2>1, <2>2, <2>3, ForestIsDefined DEF Below
  <1> QED
    BY <1>1, <1>2

\* A tree with a node below the depth limit.
TooDeep(tree) == \E i \in DOMAIN tree : tree[i].depth > MaxContainerDepth

\* What holds a tree that is too deep is too deep.
LEMMA TooDeepConcat ==
  ASSUME NEW s \in Seq(Nodes), NEW t \in Seq(Nodes), TooDeep(s) \/ TooDeep(t)
  PROVE  TooDeep(s \o t)
  <1>1. /\ s \o t \in Seq(Nodes) /\ Len(s \o t) = Len(s) + Len(t)
        /\ \A i \in 1..(Len(s) + Len(t)) :
             (s \o t)[i] = IF i <= Len(s) THEN s[i] ELSE t[i - Len(s)]
    BY ConcatProperties
  <1>2. Len(s) \in Nat /\ Len(t) \in Nat /\ DOMAIN s = 1..Len(s) /\ DOMAIN t = 1..Len(t)
    OBVIOUS
  <1> DEFINE u == s \o t
  <1>3. DOMAIN u = 1..(Len(s) + Len(t))
    BY <1>1
  <1>4. CASE TooDeep(s)
    <2>1. PICK i \in 1..Len(s) : s[i].depth > MaxContainerDepth
      BY <1>2, <1>4 DEF TooDeep
    <2>2. i \in 1..(Len(s) + Len(t)) /\ u[i] = s[i]
      BY <1>1, <1>2
    <2> QED
      BY <1>3, <2>1, <2>2 DEF TooDeep
  <1>5. CASE TooDeep(t)
    <2>1. PICK i \in 1..Len(t) : t[i].depth > MaxContainerDepth
      BY <1>2, <1>5 DEF TooDeep
    <2> DEFINE j == i + Len(s)
    <2>2. j \in 1..(Len(s) + Len(t)) /\ ~(j <= Len(s)) /\ j - Len(s) = i
      BY <1>2
    <2> HIDE DEF j
    <2>3. u[j] = t[i]
      BY <1>1, <2>2
    <2> HIDE DEF u
    <2>4. TooDeep(u)
      BY <1>3, <2>1, <2>2, <2>3 DEF TooDeep
    <2> QED
      BY <2>4 DEF u
  <1> QED
    BY <1>4, <1>5

\* One branch that is too deep is enough.
LEMMA ForestTooDeep ==
  ASSUME NEW graph \in [Containers -> Seq(Entry)], NEW tree \in TreesByKey,
         NEW container \in Containers, NEW n \in 1..Len(graph[container]),
         TooDeep(Branch(graph, tree, container, n))
  PROVE  TooDeep(Forest(graph, tree, container)[Len(graph[container])])
  <1> DEFINE m    == Len(graph[container])
             last == Forest(graph, tree, container)
             S    == {k \in 0..m : k >= n => TooDeep(last[k])}
  <1>1. m \in Nat /\ n \in 1..m
    OBVIOUS
  <1>2. /\ last \in [0..m -> Seq(Nodes)]
        /\ \A k \in 1..m : last[k] = Branch(graph, tree, container, k) \o last[k - 1]
    BY ForestIsDefined
  <1>3. \A k \in 1..m : Branch(graph, tree, container, k) \in Seq(Nodes)
    BY BranchType
  <1> HIDE DEF last, m
  <1>4. 0 \in S
    BY <1>1
  <1>5. ASSUME NEW k \in 1..m, k - 1 \in S PROVE k \in S
    <2>1. k \in 0..m /\ k - 1 \in 0..m
      BY <1>1
    <2>2. last[k - 1] \in Seq(Nodes)
      BY <1>2, <2>1
    <2>3. ASSUME k >= n PROVE TooDeep(Branch(graph, tree, container, k)) \/ TooDeep(last[k - 1])
      <3>1. CASE k = n
        BY <3>1
      <3>2. CASE k # n
        <4>1. k - 1 >= n
          BY <1>1, <2>3, <3>2
        <4> QED
          BY <1>5, <4>1
      <3> QED
        BY <3>1, <3>2
    <2>4. ASSUME k >= n PROVE TooDeep(last[k])
      <3>1. TooDeep(Branch(graph, tree, container, k) \o last[k - 1])
        BY <1>3, <2>2, <2>3, <2>4, TooDeepConcat
      <3> QED
        BY <1>2, <3>1, Zenon
    <2> QED
      BY <2>1, <2>4
  <1> HIDE DEF S
  <1>6. 0..m \subseteq S
    BY <1>1, <1>4, <1>5, BoundedInduction
  <1>7. m \in S /\ m >= n
    BY <1>1, <1>6
  <1>8. TooDeep(last[m])
    BY <1>7 DEF S
  <1> QED
    BY <1>8 DEF last, m

\* The trees of containers that lead to each other have no end: however many levels
\* are allowed, they are one too deep.
LEMMA CyclesAreTooDeep ==
  ASSUME NEW graph \in [Containers -> Seq(Entry)], NEW C, C \subseteq Containers,
         \A c \in C : \E i \in 1..Len(graph[c]) : graph[c][i].item \in C
  PROVE  \A levels \in 0..MaxContainerDepth, key \in Keys, c \in C :
           TooDeep(Trees(graph)[levels][key][c])
  <1> DEFINE m == MaxContainerDepth
             S == {levels \in 0..m : \A key \in Keys, c \in C :
                                       TooDeep(Trees(graph)[levels][key][c])}
  <1>1. m \in Nat
    BY SnapshotAssumption DEF SnapshotAssumption
  <1>2. \A c \in C : c \in Items /\ c \in Containers /\ c \notin Scalars
    BY SnapshotAssumption DEF Items, SnapshotAssumption
  <1>3. ASSUME NEW levels \in 0..m, NEW key \in Keys, NEW c \in C
        PROVE  /\ Trees(graph)[levels][key][c]
                    = <<NodeAt(m + 1 - levels, key, c)>> \o Below(graph, levels, c)
               /\ <<NodeAt(m + 1 - levels, key, c)>> \in Seq(Nodes)
               /\ Below(graph, levels, c) \in Seq(Nodes)
    <2>1. m + 1 - levels \in Nat
      BY <1>1
    <2>2. NodeAt(m + 1 - levels, key, c) \in Nodes
      BY <1>2, <2>1, NodeAtType
    <2>3. <<NodeAt(m + 1 - levels, key, c)>> \in Seq(Nodes)
      BY <2>2
    <2>4. Below(graph, levels, c) \in Seq(Nodes)
      BY <1>2, BelowType
    <2>5. Trees(graph)[levels][key][c]
            = <<NodeAt(m + 1 - levels, key, c)>> \o Below(graph, levels, c)
      BY <1>2, TreesAreDefined
    <2> QED
      BY <2>3, <2>4, <2>5, Zenon
  <1>4. 0 \in S
    <2>1. ASSUME NEW key \in Keys, NEW c \in C PROVE TooDeep(Trees(graph)[0][key][c])
      <3> DEFINE node == NodeAt(m + 1 - 0, key, c)
      <3>1. 0 \in 0..m /\ m + 1 - 0 = m + 1 /\ m + 1 > m
        BY <1>1
      <3>2. node.depth > m
        BY <3>1 DEF NodeAt
      <3> HIDE DEF node
      <3>3. DOMAIN <<node>> = {1} /\ <<node>>[1] = node
        OBVIOUS
      <3>4. TooDeep(<<node>>)
        BY <3>2, <3>3 DEF TooDeep
      <3> QED
        BY <1>3, <3>1, <3>4, TooDeepConcat DEF node
    <2> QED
      BY <1>1, <2>1
  <1>5. ASSUME NEW levels \in 1..m, levels - 1 \in S PROVE levels \in S
    <2>1. levels \in 0..m /\ levels - 1 \in 0..m /\ levels # 0
      BY <1>1
    <2> DEFINE lower == Trees(graph)[levels - 1]
    <2>2. lower \in TreesByKey
      BY <2>1, TreesAreDefined
    <2>3. ASSUME NEW key \in Keys, NEW c \in C PROVE TooDeep(Trees(graph)[levels][key][c])
      <3>1. PICK i \in 1..Len(graph[c]) : graph[c][i].item \in C
        OBVIOUS
      <3> DEFINE n == Len(graph[c]) - i + 1
      <3>2. graph[c] \in Seq(Entry) /\ Len(graph[c]) \in Nat
        BY <1>2
      <3>3. n \in 1..Len(graph[c]) /\ Len(graph[c]) - n + 1 = i
        BY <3>2
      <3>4. FromEnd(graph, c, n) = graph[c][i] /\ graph[c][i] \in Entry
        BY <3>2, <3>3 DEF FromEnd
      <3> HIDE DEF n, lower
      <3>5. KeyOf(c, FromEnd(graph, c, n)) \in Keys
        BY <3>4 DEF KeyOf, Keys, Entry
      <3>6. TooDeep(lower[KeyOf(c, FromEnd(graph, c, n))][FromEnd(graph, c, n).item])
        BY <1>5, <3>1, <3>4, <3>5 DEF lower
      <3>7. TooDeep(Forest(graph, lower, c)[Len(graph[c])])
        BY <1>2, <2>2, <3>3, <3>6, ForestTooDeep DEF Branch
      <3>8. TooDeep(Below(graph, levels, c))
        BY <1>2, <2>1, <3>7 DEF Below, lower
      <3> QED
        BY <1>3, <2>1, <3>8, TooDeepConcat
    <2> QED
      BY <2>1, <2>3
  <1> HIDE DEF S
  <1>6. 0..m \subseteq S
    BY <1>1, <1>4, <1>5, BoundedInduction
  <1> QED
    BY <1>6 DEF S

\* A tree does not fit when one node of it is refused for what it is, or for what
\* stands before it, or when it is too deep from there on.
LEMMA DoesNotFit ==
  ASSUME NEW s \in Seq(Nodes), NEW node \in Nodes, NEW t \in Seq(Nodes),
         \/ node.depth > MaxContainerDepth
         \/ Len(s) + 1 > MaxContainerNodes
         \/ node.key \in Unfit \/ node.value \in Unfit
         \/ Bytes(s) + NodeBytes(node) > MaxSnapshotScalarBytes
         \/ TooDeep(<<node>> \o t)
  PROVE  ~Fits(s \o (<<node>> \o t))
  <1> DEFINE begun == Append(s, node)
             tail  == <<node>> \o t
             tree  == s \o tail
             n     == Len(s) + 1
  <1>1. <<node>> \in Seq(Nodes) /\ Len(s) \in Nat /\ Len(t) \in Nat
    OBVIOUS
  <1>2. tail \in Seq(Nodes)
    BY <1>1, ConcatProperties
  <1>3. /\ begun \in Seq(Nodes) /\ Len(begun) = n
        /\ begun[n] = node /\ begun = s \o <<node>>
    BY AppendProperties, AppendIsConcat
  <1>4. tree = begun \o t
    BY <1>1, <1>3, ConcatAssociative
  <1>5. begun \o t \in Seq(Nodes) /\ Len(begun \o t) = Len(begun) + Len(t)
        /\ \A i \in 1..(Len(begun) + Len(t)) :
             (begun \o t)[i] = IF i <= Len(begun) THEN begun[i] ELSE t[i - Len(begun)]
    BY <1>3, ConcatProperties
  <1>6. /\ tree \in Seq(Nodes) /\ Len(tree) = n + Len(t)
        /\ \A i \in 1..n : tree[i] = begun[i]
    <2> HIDE DEF begun, tree, n
    <2>1. n \in Nat
      BY <1>1 DEF n
    <2>2. \A i \in 1..n : i \in 1..(Len(begun) + Len(t)) /\ i <= Len(begun)
      BY <1>1, <1>3, <2>1
    <2> QED
      BY <1>3, <1>4, <1>5, <2>2
  <1> HIDE DEF begun, tree, tail
  <1>7. n \in DOMAIN tree /\ tree[n] = node
    BY <1>1, <1>3, <1>6
  <1> SUFFICES ASSUME Fits(tree) PROVE FALSE
    BY DEF tree, tail
  <1>8. \A i \in DOMAIN tree : /\ tree[i].depth <= MaxContainerDepth
                               /\ tree[i].key \notin Unfit /\ tree[i].value \notin Unfit
    BY DEF Fits
  <1>9. Len(tree) <= MaxContainerNodes /\ Bytes(tree) <= MaxSnapshotScalarBytes
    BY DEF Fits
  <1>10. node.depth \in Nat /\ MaxContainerDepth \in Nat /\ MaxContainerNodes \in Nat
         /\ MaxSnapshotScalarBytes \in Nat
    BY SnapshotAssumption DEF SnapshotAssumption, Nodes
  <1>11. ~(node.depth > MaxContainerDepth) /\ node.key \notin Unfit /\ node.value \notin Unfit
    BY <1>7, <1>8, <1>10
  <1>12. ~(Len(s) + 1 > MaxContainerNodes)
    BY <1>1, <1>6, <1>9, <1>10
  <1>13. ~(Bytes(s) + NodeBytes(node) > MaxSnapshotScalarBytes)
    <2>1. Bytes(begun) = Bytes(s) + NodeBytes(node)
      BY BytesOfAppend DEF begun
    <2>2. Bytes(begun) <= Bytes(tree)
      <3>1. Len(begun) <= Len(tree) /\ \A i \in 1..Len(begun) : tree[i] = begun[i]
        BY <1>1, <1>3, <1>6
      <3> QED
        BY <1>3, <1>6, <3>1, BytesOfPrefix
    <2>3. Bytes(begun) \in Nat /\ Bytes(tree) \in Nat
      BY <1>3, <1>6, BytesType
    <2> QED
      BY <1>9, <1>10, <2>1, <2>2, <2>3
  <1>14. ~TooDeep(tail)
    <2>1. ASSUME TooDeep(tail) PROVE FALSE
      <3>1. TooDeep(tree)
        BY <1>2, <2>1, TooDeepConcat DEF tree
      <3>2. PICK i \in DOMAIN tree : tree[i].depth > MaxContainerDepth
        BY <3>1 DEF TooDeep
      <3>3. tree[i] \in Nodes
        BY <1>6
      <3>4. tree[i].depth \in Nat
        BY <3>3 DEF Nodes
      <3> QED
        BY <1>8, <1>10, <3>2, <3>4
    <2> QED
      BY <2>1
  <1> QED
    BY <1>11, <1>12, <1>13, <1>14 DEF tail

-----------------------------------------------------------------------------
(* A graph that is left alone *)

\* Every open container is read at a place it has, and has the size it had.
Placed(graph, open) ==
  \A n \in 1..Len(open) :
    /\ open[n].next \in 1..(Len(graph[open[n].container]) + 1)
    /\ open[n].size = Len(graph[open[n].container])

\* Each was found in the entry last read of the one below it.
Linked(graph, open) ==
  \A n \in 1..(Len(open) - 1) :
    /\ open[n].next >= 2
    /\ graph[open[n].container][open[n].next - 1].item = open[n + 1].container

\* The trees of the entries of the n-th open container that are still to be read,
\* and with them those of the containers below it.
Remaining(graph, frame, n) ==
  Forest(graph, Trees(graph)[MaxContainerDepth - n], frame.container)
    [Len(graph[frame.container]) + 1 - frame.next]

Remains(graph, rest, open) ==
  /\ rest \in [0..Len(open) -> Seq(Nodes)]
  /\ rest[0] = <<>>
  /\ \A n \in 1..Len(open) : rest[n] = Remaining(graph, open[n], n) \o rest[n - 1]

FitSoFar ==
  \A i \in DOMAIN snapshot : snapshot[i].key \notin Unfit /\ snapshot[i].value \notin Unfit

\* What is copied and what is still to be read are together the whole tree, from
\* the first value to the last; a copy is given up only when that tree does not fit.
ExactInv ==
  /\ BytesInv /\ FitSoFar
  /\ Placed(heap, stack) /\ Linked(heap, stack)
  /\ outcome = "running" =>
       \E rest : Remains(heap, rest, stack) /\ Unfolding = snapshot \o rest[Len(stack)]
  /\ outcome = "snapshot" => receipt \in Dicts /\ Unfolding = snapshot
  /\ outcome = "refused" => ~Fits(Unfolding)
  /\ outcome # "raised"

\* Sequences of nodes may be joined in any order.
LEMMA NodesAssociative ==
  \A x, y, z \in Seq(Nodes) : (x \o y) \o z = x \o (y \o z)
  BY ConcatAssociative

\* What is left of an open container is a sequence of nodes.
LEMMA RemainingType ==
  ASSUME NEW graph \in [Containers -> Seq(Entry)], NEW frame \in Frames,
         NEW n \in 1..MaxContainerDepth,
         frame.next \in 1..(Len(graph[frame.container]) + 1)
  PROVE  Remaining(graph, frame, n) \in Seq(Nodes)
  <1>1. frame.container \in Containers
    BY DEF Frames
  <1>2. MaxContainerDepth - n \in 0..MaxContainerDepth
    BY SnapshotAssumption DEF SnapshotAssumption
  <1>3. Trees(graph)[MaxContainerDepth - n] \in TreesByKey
    BY <1>2, TreesAreDefined
  <1>4. Len(graph[frame.container]) \in Nat
    BY <1>1
  <1>5. Len(graph[frame.container]) + 1 - frame.next \in 0..Len(graph[frame.container])
    BY <1>4
  <1> QED
    BY <1>1, <1>3, <1>5, ForestIsDefined DEF Remaining

\* To open a container adds what stands below it to what remains.
LEMMA OpeningAdds ==
  ASSUME NEW graph \in [Containers -> Seq(Entry)], NEW open \in Seq(Frames), NEW rest,
         Remains(graph, rest, open), Len(open) + 1 <= MaxContainerDepth,
         NEW frame \in Frames, frame.next = 1
  PROVE  \E more : /\ Remains(graph, more, Append(open, frame))
                   /\ more[Len(open) + 1]
                        = Below(graph, MaxContainerDepth - Len(open), frame.container)
                            \o rest[Len(open)]
  <1> DEFINE n     == Len(open)
             stk   == Append(open, frame)
             below == Below(graph, MaxContainerDepth - n, frame.container)
             more  == [i \in 0..(n + 1) |-> IF i = n + 1 THEN below \o rest[n] ELSE rest[i]]
  <1>1. /\ n \in Nat /\ Len(stk) = n + 1
        /\ \A i \in 1..n : stk[i] = open[i]
        /\ stk[n + 1] = frame
    BY AppendProperties
  <1>2. rest \in [0..n -> Seq(Nodes)] /\ rest[n] \in Seq(Nodes) /\ rest[0] = <<>>
    BY <1>1 DEF Remains
  <1>3. frame.container \in Containers /\ frame.container \in Items
        /\ frame.container \notin Scalars
    BY SnapshotAssumption DEF Frames, Items, SnapshotAssumption
  <1>4. /\ MaxContainerDepth - n \in 0..MaxContainerDepth /\ MaxContainerDepth - n # 0
        /\ MaxContainerDepth - n - 1 = MaxContainerDepth - (n + 1)
    BY <1>1, SnapshotAssumption DEF SnapshotAssumption
  <1>5. below \in Seq(Nodes)
    BY <1>3, <1>4, BelowType
  <1>6. below = Remaining(graph, frame, n + 1)
    <2>1. Len(graph[frame.container]) \in Nat
      BY <1>3
    <2>2. Len(graph[frame.container]) + 1 - frame.next = Len(graph[frame.container])
      BY <2>1
    <2> QED
      BY <1>3, <1>4, <2>2 DEF Below, Remaining
  <1> HIDE DEF n, stk, below
  <1>7. below \o rest[n] \in Seq(Nodes)
    BY <1>2, <1>5, ConcatProperties
  <1>8. more \in [0..(n + 1) -> Seq(Nodes)]
    <2>1. \A i \in 0..(n + 1) : i # n + 1 => i \in 0..n
      BY <1>1
    <2> QED
      BY <1>2, <1>7, <2>1
  <1>9. more[n + 1] = below \o rest[n] /\ \A i \in 0..n : more[i] = rest[i]
    <2>1. n + 1 \in 0..(n + 1) /\ \A i \in 0..n : i \in 0..(n + 1) /\ i # n + 1
      BY <1>1
    <2> QED
      BY <2>1, Zenon
  <1> HIDE DEF more
  <1>10. ASSUME NEW i \in 1..(n + 1) PROVE more[i] = Remaining(graph, stk[i], i) \o more[i - 1]
    <2>1. CASE i = n + 1
      <3>1. i - 1 = n /\ n \in 0..n
        BY <1>1, <2>1
      <3> QED
        BY <1>1, <1>6, <1>9, <2>1, <3>1, Zenon
    <2>2. CASE i # n + 1
      <3>1. i \in 1..n /\ i \in 0..n /\ i - 1 \in 0..n
        BY <1>1, <2>2
      <3>2. rest[i] = Remaining(graph, open[i], i) \o rest[i - 1]
        BY <3>1 DEF Remains, n
      <3> QED
        BY <1>1, <1>9, <3>1, <3>2, Zenon
    <2> QED
      BY <2>1, <2>2
  <1>11. 0 \in 0..n
    BY <1>1
  <1>12. Remains(graph, more, stk)
    BY <1>1, <1>2, <1>8, <1>9, <1>10, <1>11, Zenon DEF Remains
  <1> QED
    BY <1>9, <1>12 DEF n, stk, below

\* The innermost container has another entry, and is read one further.
MovedOn(graph, stk, open) ==
  /\ stk[Len(stk)].next <= Len(graph[stk[Len(stk)].container])
  /\ open \in Seq(Frames) /\ Len(open) = Len(stk)
  /\ \A i \in 1..(Len(stk) - 1) : open[i] = stk[i]
  /\ open[Len(stk)].container = stk[Len(stk)].container
  /\ open[Len(stk)].next = stk[Len(stk)].next + 1

\* The next entry of the innermost container, and its tree.
NextEntry(graph, stk) == graph[stk[Len(stk)].container][stk[Len(stk)].next]

NextTree(graph, stk) ==
  Trees(graph)[MaxContainerDepth - Len(stk)]
    [KeyOf(stk[Len(stk)].container, NextEntry(graph, stk))][NextEntry(graph, stk).item]

\* To read the next entry of the innermost container takes its tree from what
\* remains.
LEMMA ReadingTakes ==
  ASSUME NEW graph \in [Containers -> Seq(Entry)], NEW stk \in Seq(Frames),
         NEW rest, NEW open,
         Remains(graph, rest, stk), Len(stk) \in 1..MaxContainerDepth,
         Placed(graph, stk), MovedOn(graph, stk, open)
  PROVE  \E more : /\ Remains(graph, more, open)
                   /\ rest[Len(stk)] = NextTree(graph, stk) \o more[Len(open)]
  <1> DEFINE n    == Len(stk)
             c    == stk[n].container
             k    == Len(graph[c]) + 1 - stk[n].next
             tree == Trees(graph)[MaxContainerDepth - n]
             last == Forest(graph, tree, c)
             entry == NextEntry(graph, stk)
             more == [i \in 0..n |-> IF i = n THEN last[k - 1] \o rest[n - 1] ELSE rest[i]]
  <1>1. n \in Nat \ {0} /\ stk[n] \in Frames /\ c \in Containers /\ n \in 1..n
    <2>1. n \in Nat /\ n # 0
      BY SnapshotAssumption DEF SnapshotAssumption
    <2>2. stk[n] \in Frames
      BY <2>1
    <2> QED
      BY <2>1, <2>2 DEF Frames
  <1>2. stk[n].next \in 1..Len(graph[c]) /\ Len(graph[c]) \in Nat
    BY <1>1 DEF Placed, MovedOn
  <1>3. /\ k \in 1..Len(graph[c]) /\ k - 1 \in 0..Len(graph[c])
        /\ Len(graph[c]) - k + 1 = stk[n].next
        /\ Len(graph[c]) + 1 - (stk[n].next + 1) = k - 1
    <2> DEFINE a == stk[n].next
               b == Len(graph[c])
    <2>1. a \in 1..b /\ b \in Nat /\ k = b + 1 - a
      BY <1>2
    <2> HIDE DEF a, b, k
    <2>2. k \in 1..b /\ k - 1 \in 0..b /\ b - k + 1 = a /\ b + 1 - (a + 1) = k - 1
      BY <2>1
    <2> QED
      BY <2>2 DEF a, b
  <1>4. MaxContainerDepth - n \in 0..MaxContainerDepth
    BY <1>1, SnapshotAssumption DEF SnapshotAssumption
  <1>5. tree \in TreesByKey
    BY <1>4, TreesAreDefined
  <1>6. /\ last \in [0..Len(graph[c]) -> Seq(Nodes)]
        /\ last[k] = Branch(graph, tree, c, k) \o last[k - 1]
    BY <1>1, <1>3, <1>5, ForestIsDefined
  <1>7. Branch(graph, tree, c, k) = tree[KeyOf(c, entry)][entry.item]
    BY <1>3 DEF Branch, FromEnd, NextEntry
  <1>8. Branch(graph, tree, c, k) \in Seq(Nodes)
    BY <1>1, <1>3, <1>5, BranchType
  <1>9. last[k - 1] \in Seq(Nodes)
    BY <1>3, <1>6
  <1>10. rest[n] = last[k] \o rest[n - 1]
    BY <1>1 DEF Remains, Remaining
  <1>11. Remaining(graph, open[n], n) = last[k - 1]
    BY <1>3 DEF Remaining, MovedOn
  <1>12. rest \in [0..n -> Seq(Nodes)] /\ rest[n - 1] \in Seq(Nodes) /\ rest[0] = <<>>
    <2>1. n - 1 \in 0..n
      BY <1>1
    <2> QED
      BY <2>1 DEF Remains
  <1>13. Len(open) = n /\ \A i \in 1..(n - 1) : open[i] = stk[i]
    BY DEF MovedOn
  <1>14. \A i \in 1..n : rest[i] = Remaining(graph, stk[i], i) \o rest[i - 1]
    BY DEF Remains
  <1> HIDE DEF n, c, k, tree, last, entry
  <1>15. last[k - 1] \o rest[n - 1] \in Seq(Nodes)
    BY <1>9, <1>12, ConcatProperties
  <1>16. more \in [0..n -> Seq(Nodes)]
    BY <1>12, <1>15
  <1>17. /\ more[n] = last[k - 1] \o rest[n - 1]
         /\ \A i \in 0..(n - 1) : more[i] = rest[i]
    <2>1. n \in 0..n /\ \A i \in 0..(n - 1) : i \in 0..n /\ i # n
      BY <1>1
    <2> QED
      BY <2>1, Zenon
  <1> HIDE DEF more
  <1>18. ASSUME NEW i \in 1..n PROVE more[i] = Remaining(graph, open[i], i) \o more[i - 1]
    <2>1. i - 1 \in 0..(n - 1)
      BY <1>1
    <2>2. CASE i = n
      BY <1>11, <1>17, <2>1, <2>2, Zenon
    <2>3. CASE i # n
      <3>1. i \in 1..(n - 1) /\ i \in 0..(n - 1)
        BY <1>1, <2>3
      <3> QED
        BY <1>13, <1>14, <1>17, <2>1, <3>1, Zenon
    <2> QED
      BY <2>2, <2>3
  <1>19. 0 \in 0..(n - 1)
    BY <1>1
  <1>20. Remains(graph, more, open)
    BY <1>12, <1>13, <1>16, <1>17, <1>18, <1>19, Zenon DEF Remains
  <1>21. rest[n] = tree[KeyOf(c, entry)][entry.item] \o more[n]
    <2>1. (Branch(graph, tree, c, k) \o last[k - 1]) \o rest[n - 1]
            = Branch(graph, tree, c, k) \o (last[k - 1] \o rest[n - 1])
      BY <1>8, <1>9, <1>12, NodesAssociative, Zenon
    <2> QED
      BY <1>6, <1>7, <1>10, <1>17, <2>1, Zenon
  <1> QED
    BY <1>13, <1>20, <1>21, Zenon DEF n, c, tree, entry, NextTree

\* The tree of the item that is visited: its node, and what stands below it.
LEMMA VisitedTree ==
  ASSUME BytesInv, Len(stack) <= MaxContainerDepth, NEW key \in Keys, NEW item \in Items
  PROVE  /\ NodeAt(Len(stack) + 1, key, item) \in Nodes
         /\ NodeAt(Len(stack) + 1, key, item) = Copied(key, item)
         /\ Below(heap, MaxContainerDepth - Len(stack), item) \in Seq(Nodes)
         /\ Trees(heap)[MaxContainerDepth - Len(stack)][key][item]
              = <<NodeAt(Len(stack) + 1, key, item)>>
                  \o Below(heap, MaxContainerDepth - Len(stack), item)
  <1> DEFINE levels == MaxContainerDepth - Len(stack)
             node   == NodeAt(MaxContainerDepth + 1 - levels, key, item)
  <1>1. heap \in [Containers -> Seq(Entry)] /\ Len(stack) \in Nat
    BY DEF BytesInv, IInv, TypeOK
  <1>2. levels \in 0..MaxContainerDepth
    BY <1>1, SnapshotAssumption DEF SnapshotAssumption
  <1>3. MaxContainerDepth + 1 - levels = Len(stack) + 1
    BY <1>1, SnapshotAssumption DEF SnapshotAssumption
  <1> HIDE DEF levels
  <1>4. NodeAt(Len(stack) + 1, key, item) \in Nodes
    BY <1>1, NodeAtType
  <1>5. NodeAt(Len(stack) + 1, key, item) = Copied(key, item)
    BY DEF NodeAt, Copied
  <1>6. Below(heap, levels, item) \in Seq(Nodes)
    BY <1>1, <1>2, BelowType
  <1>7. Trees(heap)[levels][key][item] = <<node>> \o Below(heap, levels, item)
    BY <1>1, <1>2, TreesAreDefined
  <1>8. node = NodeAt(Len(stack) + 1, key, item)
    BY <1>3
  <1> HIDE DEF node
  <1> QED
    BY <1>4, <1>5, <1>6, <1>7, <1>8, Zenon DEF levels

\* What a visit refuses has no place in a tree that fits.
LEMMA RefusalIsRight ==
  ASSUME BytesInv, NEW key \in Keys, NEW item \in Items, NEW spent \in Nat,
         spent = scalar_bytes + (IF key \in Scalars THEN Weight[key] ELSE 0),
         NEW rest \in Seq(Nodes),
         Unfolding = snapshot \o
           (Trees(heap)[MaxContainerDepth - Len(stack)][key][item] \o rest),
         item \in active_containers =>
           TooDeep(Trees(heap)[MaxContainerDepth - Len(stack)][key][item]),
         key \in Unfit \/ spent > MaxSnapshotScalarBytes \/ Refused(item, spent)
  PROVE  ~Fits(Unfolding)
  <1> DEFINE node  == NodeAt(Len(stack) + 1, key, item)
             below == Below(heap, MaxContainerDepth - Len(stack), item)
             tree  == Trees(heap)[MaxContainerDepth - Len(stack)][key][item]
             t     == below \o rest
             k     == IF key \in Scalars THEN Weight[key] ELSE 0
             w     == IF item \in Scalars THEN Weight[item] ELSE 0
  <1>1. /\ node \in Nodes /\ node = Copied(key, item) /\ below \in Seq(Nodes)
        /\ tree = <<node>> \o below
    BY VisitedTree DEF BytesInv, IInv, StackIsAPath
  <1>2. /\ snapshot \in Seq(Nodes) /\ Len(snapshot) = node_count
        /\ Bytes(snapshot) = scalar_bytes /\ scalar_bytes \in Nat
    BY CopiesAreNodes DEF BytesInv, Counted, IInv, TypeOK, NodesAreCounted
  <1>3. /\ node.depth = Len(stack) + 1 /\ node.key = key
        /\ item \in Unfit => node.value = item
    BY SnapshotAssumption DEF NodeAt, SnapshotAssumption
  <1>4. NodeBytes(node) = k + w
    BY <1>1, BytesOfCopied
  <1>5. k \in Nat /\ w \in Nat /\ MaxSnapshotScalarBytes \in Nat
    BY SnapshotAssumption DEF SnapshotAssumption
  <1>6. item \in Scalars => w = Weight[item]
    OBVIOUS
  <1>7. spent = scalar_bytes + k
    OBVIOUS
  <1> HIDE DEF node, below, tree, k, w
  <1>8. <<node>> \in Seq(Nodes) /\ t \in Seq(Nodes)
    BY <1>1, ConcatProperties
  <1>9. tree \o rest = <<node>> \o t
    BY <1>1, <1>8, NodesAssociative, Zenon
  <1>10. Unfolding = snapshot \o (<<node>> \o t)
    BY <1>9, Zenon DEF tree
  <1>11. item \in active_containers => TooDeep(<<node>> \o t)
    <2>1. tree \in Seq(Nodes)
      BY <1>1, <1>8, ConcatProperties
    <2>2. TooDeep(tree) => TooDeep(tree \o rest)
      BY <2>1, TooDeepConcat
    <2> QED
      BY <1>9, <2>2, Zenon DEF tree
  <1> HIDE DEF t
  <1>12. \/ node.depth > MaxContainerDepth
         \/ Len(snapshot) + 1 > MaxContainerNodes
         \/ node.key \in Unfit \/ node.value \in Unfit
         \/ Bytes(snapshot) + NodeBytes(node) > MaxSnapshotScalarBytes
         \/ TooDeep(<<node>> \o t)
    <2>1. CASE key \in Unfit \/ item \in Unfit
      BY <1>3, <2>1
    <2>2. CASE \/ spent > MaxSnapshotScalarBytes
               \/ item \in Scalars /\ spent + Weight[item] > MaxSnapshotScalarBytes
      <3>1. scalar_bytes + (k + w) > MaxSnapshotScalarBytes
        BY <1>2, <1>5, <1>6, <1>7, <2>2
      <3> QED
        BY <1>2, <1>4, <3>1
    <2>3. CASE \/ Len(stack) + 1 > MaxContainerDepth
               \/ node_count + 1 > MaxContainerNodes
      BY <1>2, <1>3, <2>3
    <2>4. CASE item \in active_containers
      BY <1>11, <2>4
    <2> QED
      BY <2>1, <2>2, <2>3, <2>4 DEF Refused
  <1>13. ~Fits(snapshot \o (<<node>> \o t))
    BY <1>1, <1>2, <1>8, <1>12, DoesNotFit DEF t
  <1> QED
    BY <1>10, <1>13, Zenon

\* With no container open there is nothing to read.
LEMMA NothingOpen ==
  ASSUME NEW graph
  PROVE  /\ Placed(graph, <<>>) /\ Linked(graph, <<>>)
         /\ Remains(graph, [i \in 0..0 |-> <<>>], <<>>)
  <1>1. Len(<<>>) = 0 /\ 1..0 = {} /\ 1..(0 - 1) = {} /\ <<>> \in Seq(Nodes) /\ 0 \in 0..0
    OBVIOUS
  <1>2. Placed(graph, <<>>) /\ Linked(graph, <<>>)
    BY <1>1 DEF Placed, Linked
  <1> QED
    BY <1>1, <1>2 DEF Remains

\* A copy that does not fit is given up rightly.
LEMMA GivingUpIsExact ==
  ASSUME ExactInv, BytesInv', heap' = heap, receipt' = receipt,
         Unwind("refused"), ~Fits(Unfolding)
  PROVE  ExactInv'
  <1>1. stack' = <<>> /\ outcome' = "refused" /\ snapshot' = snapshot
    BY DEF Unwind
  <1>2. Unfolding' = Unfolding
    BY DEF Unfolding
  <1>3. ~Fits(Unfolding)'
    BY <1>2 DEF Fits
  <1>4. FitSoFar'
    BY <1>1 DEF ExactInv, FitSoFar
  <1>5. Placed(heap, stack)' /\ Linked(heap, stack)'
    BY <1>1, NothingOpen
  <1> QED
    BY <1>1, <1>3, <1>4, <1>5 DEF ExactInv

\* A copy with nothing left to read is returned, when it is that of a dict.
LEMMA ReturningIsExact ==
  ASSUME BytesInv', FitSoFar', heap' = heap, receipt' = receipt,
         stack' = <<>>, outcome' = Returned, Unfolding = snapshot'
  PROVE  ExactInv'
  <1>1. Unfolding' = Unfolding
    BY DEF Unfolding
  <1>2. Placed(heap, stack)' /\ Linked(heap, stack)'
    BY NothingOpen
  <1>3. CASE receipt \in Dicts
    <2>1. outcome' = "snapshot" /\ receipt' \in Dicts
      BY <1>3 DEF Returned
    <2> QED
      BY <1>1, <1>2, <2>1 DEF ExactInv
  <1>4. CASE receipt \notin Dicts
    <2>1. outcome' = "refused" /\ ~Fits(Unfolding)'
      BY <1>4 DEF Returned, Fits
    <2> QED
      BY <1>2, <2>1 DEF ExactInv
  <1> QED
    BY <1>3, <1>4

\* A visit copies the node of its item and leaves the rest of its tree to be read,
\* or refuses what does not fit.
LEMMA VisitIsExact ==
  ASSUME ExactInv, BytesInv', heap' = heap, receipt' = receipt,
         NEW open \in Seq(Frames), Len(open) = Len(stack),
         Placed(heap, open), Linked(heap, open),
         NEW key \in Keys, key \notin Unfit, NEW item \in Items,
         Len(open) # 0 =>
           /\ open[Len(open)].next >= 2
           /\ heap[open[Len(open)].container][open[Len(open)].next - 1].item = item,
         NEW spent \in Nat,
         spent = scalar_bytes + (IF key \in Scalars THEN Weight[key] ELSE 0),
         NEW rest, Remains(heap, rest, open),
         Unfolding = snapshot \o
           (Trees(heap)[MaxContainerDepth - Len(stack)][key][item] \o rest[Len(open)]),
         item \in active_containers =>
           TooDeep(Trees(heap)[MaxContainerDepth - Len(stack)][key][item]),
         Visit(open, key, item, spent)
  PROVE  ExactInv'
  <1> DEFINE n     == Len(open)
             node  == NodeAt(Len(stack) + 1, key, item)
             below == Below(heap, MaxContainerDepth - Len(stack), item)
             tree  == Trees(heap)[MaxContainerDepth - Len(stack)][key][item]
  <1>1. n \in Nat /\ n = Len(stack) /\ heap \in [Containers -> Seq(Entry)] /\ BytesInv
        /\ Len(stack) <= MaxContainerDepth
    BY DEF ExactInv, BytesInv, IInv, TypeOK, StackIsAPath
  <1>2. rest \in [0..n -> Seq(Nodes)] /\ rest[n] \in Seq(Nodes) /\ rest[0] = <<>>
    BY <1>1 DEF Remains
  <1>3. CASE Refused(item, spent)
    <2>1. ~Fits(Unfolding)
      BY <1>1, <1>2, <1>3, RefusalIsRight
    <2>2. Unwind("refused")
      BY <1>3 DEF Visit
    <2> QED
      BY <2>1, <2>2, GivingUpIsExact
  <1>4. CASE ~Refused(item, spent)
    <2>1. snapshot' = Append(snapshot, Copied(key, item))
      BY <1>4 DEF Visit
    <2>2. /\ node \in Nodes /\ node = Copied(key, item) /\ below \in Seq(Nodes)
          /\ tree = <<node>> \o below
      BY <1>1, VisitedTree
    <2>3. snapshot \in Seq(Nodes)
      BY CopiesAreNodes DEF ExactInv, BytesInv
    <2>4. /\ snapshot' = snapshot \o <<node>>
          /\ Len(snapshot') = Len(snapshot) + 1
          /\ \A i \in 1..Len(snapshot) : snapshot'[i] = snapshot[i]
          /\ snapshot'[Len(snapshot) + 1] = node
          /\ snapshot' \in Seq(Nodes)
      BY <2>1, <2>2, <2>3, AppendIsConcat, AppendProperties
    <2>5. FitSoFar'
      <3>1. node.key \notin Unfit /\ node.value \notin Unfit
        BY <1>4, SnapshotAssumption DEF NodeAt, Refused, SnapshotAssumption
      <3>2. DOMAIN snapshot = 1..Len(snapshot) /\ DOMAIN snapshot' = 1..(Len(snapshot) + 1)
            /\ Len(snapshot) \in Nat
        BY <2>3, <2>4
      <3> HIDE DEF node
      <3>3. \A i \in 1..(Len(snapshot) + 1) :
              i \in 1..Len(snapshot) \/ i = Len(snapshot) + 1
        BY <3>2
      <3> QED
        BY <2>4, <3>1, <3>2, <3>3 DEF ExactInv, FitSoFar
    <2>6. Unfolding = snapshot' \o (below \o rest[n])
      <3> HIDE DEF tree, node, below, n
      <3>1. <<node>> \in Seq(Nodes) /\ below \o rest[n] \in Seq(Nodes)
        BY <1>2, <2>2, ConcatProperties
      <3>2. (<<node>> \o below) \o rest[n] = <<node>> \o (below \o rest[n])
        BY <1>2, <2>2, <3>1, NodesAssociative, Zenon
      <3>3. (snapshot \o <<node>>) \o (below \o rest[n])
              = snapshot \o (<<node>> \o (below \o rest[n]))
        BY <2>3, <3>1, NodesAssociative, Zenon
      <3>4. Unfolding = snapshot \o (tree \o rest[n])
        BY Zenon DEF tree, n
      <3> QED
        BY <2>2, <2>4, <3>2, <3>3, <3>4, Zenon
    <2>7. Unfolding' = Unfolding
      BY DEF Unfolding
    <2>8. CASE item \in Scalars
      <3>1. stack' = open /\ outcome' = IF open = <<>> THEN Returned ELSE "running"
        BY <1>4, <2>8 DEF Visit
      <3>2. below = <<>>
        BY <2>8 DEF Below
      <3>3. Unfolding = snapshot' \o rest[n]
        <4>1. <<>> \o rest[n] = rest[n]
          BY <1>2, ConcatEmptySeq
        <4> QED
          BY <2>6, <3>2, <4>1, Zenon
      <3>4. CASE open = <<>>
        <4>1. n = 0 /\ rest[n] = <<>>
          BY <1>2, <3>4
        <4>2. snapshot' \o <<>> = snapshot'
          BY <2>4, ConcatEmptySeq
        <4>3. Unfolding = snapshot'
          BY <3>3, <4>1, <4>2, Zenon
        <4> QED
          BY <2>5, <3>1, <3>4, <4>3, ReturningIsExact
      <3>5. CASE open # <<>>
        <4>1. outcome' = "running"
          BY <3>1, <3>5
        <4>2. \E r : Remains(heap', r, stack') /\ Unfolding' = snapshot' \o r[Len(stack')]
          BY <2>7, <3>1, <3>3, Zenon
        <4>3. Placed(heap, stack)' /\ Linked(heap, stack)'
          BY <3>1
        <4> QED
          BY <2>5, <4>1, <4>2, <4>3 DEF ExactInv
      <3> QED
        BY <3>4, <3>5
    <2>9. CASE item \notin Scalars
      <3> DEFINE frame == [container |-> item, next |-> 1, size |-> Len(heap[item])]
      <3>1. item \in Containers
        BY <2>9 DEF Items
      <3>2. stack' = Append(open, frame) /\ outcome' = "running"
        BY <1>4, <2>9 DEF Visit
      <3>3. Len(heap[item]) \in Nat
        BY <1>1, <3>1
      <3>4. /\ frame \in Frames /\ frame.container = item /\ frame.next = 1
            /\ frame.size = Len(heap[item])
        BY <3>1, <3>3 DEF Frames
      <3> HIDE DEF frame
      <3>5. n + 1 <= MaxContainerDepth
        BY <1>1, <1>4, SnapshotAssumption DEF Refused, SnapshotAssumption
      <3>6. /\ Len(stack') = n + 1 /\ stack'[n + 1] = frame
            /\ \A i \in 1..n : stack'[i] = open[i]
        BY <3>2, <3>4, AppendProperties
      <3>7. PICK more : /\ Remains(heap, more, Append(open, frame))
                        /\ more[n + 1]
                             = Below(heap, MaxContainerDepth - n, frame.container) \o rest[n]
        BY <1>1, <3>4, <3>5, OpeningAdds
      <3>8. Remains(heap', more, stack') /\ Unfolding' = snapshot' \o more[Len(stack')]
        <4>1. below = Below(heap, MaxContainerDepth - n, frame.container)
          BY <1>1, <3>4
        <4> HIDE DEF below
        <4>2. Unfolding = snapshot' \o more[n + 1]
          BY <2>6, <3>7, <4>1, Zenon
        <4>3. Unfolding' = snapshot' \o more[Len(stack')]
          BY <2>7, <3>6, <4>2, Zenon
        <4> QED
          BY <3>2, <3>7, <4>3, Zenon
      <3>9. Placed(heap, stack)'
        <4>1. ASSUME NEW i \in 1..(n + 1)
              PROVE  /\ stack'[i].next \in 1..(Len(heap[stack'[i].container]) + 1)
                     /\ stack'[i].size = Len(heap[stack'[i].container])
          <5>1. CASE i = n + 1
            BY <3>3, <3>4, <3>6, <5>1
          <5>2. CASE i # n + 1
            <6>1. i \in 1..n
              BY <1>1, <5>2
            <6> QED
              BY <3>6, <6>1 DEF Placed
          <5> QED
            BY <5>1, <5>2
        <4> QED
          BY <3>6, <4>1 DEF Placed
      <3>10. Linked(heap, stack)'
        <4>1. ASSUME NEW i \in 1..n
              PROVE  /\ stack'[i].next >= 2
                     /\ heap[stack'[i].container][stack'[i].next - 1].item
                          = stack'[i + 1].container
          <5>1. CASE i = n
            <6>1. Len(open) # 0 /\ stack'[i] = open[n]
              BY <1>1, <3>6, <5>1
            <6> QED
              BY <3>4, <3>6, <5>1, <6>1
          <5>2. CASE i # n
            <6>1. i \in 1..(n - 1) /\ i + 1 \in 1..n
              BY <1>1, <5>2
            <6> QED
              BY <3>6, <6>1 DEF Linked
          <5> QED
            BY <5>1, <5>2
        <4>2. Len(stack') - 1 = n
          BY <1>1, <3>6
        <4> QED
          BY <4>1, <4>2 DEF Linked
      <3> QED
        BY <2>5, <3>2, <3>8, <3>9, <3>10 DEF ExactInv
    <2> QED
      BY <2>8, <2>9
  <1> QED
    BY <1>3, <1>4

\* The first visit reads the whole tree.
LEMMA StartIsExact ==
  ASSUME ExactInv, Start, BytesInv', heap' = heap PROVE ExactInv'
  <1> DEFINE nothing == [i \in 0..0 |-> <<>>]
  <1>1. /\ outcome = "called" /\ receipt' = receipt /\ Visit(<<>>, NoKey, receipt, 0)
    BY DEF Start
  <1>2. stack = <<>> /\ snapshot = <<>> /\ scalar_bytes = 0 /\ receipt \in Items
    BY <1>1 DEF ExactInv, BytesInv, NothingBeforeStart, IInv, TypeOK
  <1>3. NoKey \in Keys /\ NoKey \notin Scalars /\ NoKey \notin Unfit
    BY SnapshotAssumption DEF Keys, Items, SnapshotAssumption
  <1>4. active_containers = {}
    BY <1>2 DEF ExactInv, BytesInv, IInv, StackIsAPath
  <1>5. /\ Placed(heap, <<>>) /\ Linked(heap, <<>>) /\ Remains(heap, nothing, <<>>)
    BY NothingOpen
  <1>6. Len(<<>>) = 0 /\ <<>> \in Seq(Frames) /\ nothing[0] = <<>> /\ <<>> \in Seq(Nodes)
    OBVIOUS
  <1> DEFINE tree == Trees(heap)[MaxContainerDepth - Len(stack)][NoKey][receipt]
  <1>7. Unfolding = tree /\ tree \in Seq(Nodes)
    <2>1. MaxContainerDepth - Len(stack) = MaxContainerDepth
          /\ MaxContainerDepth \in 0..MaxContainerDepth
      BY <1>2, <1>6, SnapshotAssumption DEF SnapshotAssumption
    <2>2. heap \in [Containers -> Seq(Entry)]
      BY DEF ExactInv, BytesInv, IInv, TypeOK
    <2>3. Trees(heap)[MaxContainerDepth] \in TreesByKey
      BY <2>1, <2>2, TreesAreDefined
    <2>4. Trees(heap)[MaxContainerDepth][NoKey][receipt] \in Seq(Nodes)
      BY <1>2, <1>3, <2>3 DEF TreesByKey
    <2> QED
      BY <2>1, <2>4, Zenon DEF Unfolding
  <1> HIDE DEF tree, nothing
  <1>8. Unfolding = snapshot \o (tree \o nothing[Len(<<>>)])
    <2>1. tree \o <<>> = tree /\ <<>> \o tree = tree
      BY <1>7, ConcatEmptySeq
    <2> QED
      BY <1>2, <1>6, <1>7, <2>1, Zenon
  <1> DEFINE open == <<>>
  <1>9. /\ open \in Seq(Frames) /\ Len(open) = Len(stack) /\ ~(Len(open) # 0)
        /\ Placed(heap, open) /\ Linked(heap, open) /\ Remains(heap, nothing, open)
        /\ Unfolding = snapshot \o (tree \o nothing[Len(open)])
        /\ Visit(open, NoKey, receipt, 0)
    BY <1>1, <1>2, <1>5, <1>6, <1>8
  <1>10. 0 = scalar_bytes + (IF NoKey \in Scalars THEN Weight[NoKey] ELSE 0)
    BY <1>2, <1>3
  <1>11. receipt \notin active_containers /\ 0 \in Nat
    BY <1>4
  <1> HIDE DEF open
  <1> QED
    BY <1>1, <1>2, <1>3, <1>9, <1>10, <1>11, VisitIsExact DEF tree

\* An item that is open already leads back to itself: its tree has no end.
LEMMA CycleFound ==
  ASSUME ExactInv, outcome = "running", Frame.next <= Len(Entries),
         NEW key \in Keys, Entries[Frame.next].item \in active_containers
  PROVE  TooDeep(Trees(heap)[MaxContainerDepth - Len(stack)][key][Entries[Frame.next].item])
  <1> DEFINE n    == Len(stack)
             item == Entries[Frame.next].item
  <1>1. /\ IInv /\ Placed(heap, stack) /\ Linked(heap, stack)
        /\ heap \in [Containers -> Seq(Entry)] /\ stack \in Seq(Frames)
        /\ n <= MaxContainerDepth
    BY DEF ExactInv, BytesInv, IInv, TypeOK, StackIsAPath
  <1>2. n \in Nat \ {0} /\ Frame = stack[n] /\ Entries = heap[stack[n].container]
    BY <1>1, FrameType DEF Frame, Entries
  <1>3. \A j \in 1..n : stack[j].container \in Containers
    <2>1. \A j \in 1..n : stack[j] \in Frames
      BY <1>1
    <2> QED
      BY <2>1 DEF Frames
  <1>4. PICK i \in 1..n : item = stack[i].container
    <2>1. active_containers = {stack[i].container : i \in DOMAIN stack}
      BY <1>1 DEF IInv, StackIsAPath
    <2>2. DOMAIN stack = 1..n
      BY <1>1
    <2>3. item \in active_containers
      OBVIOUS
    <2> HIDE DEF item, n
    <2> QED
      BY <2>1, <2>2, <2>3
  <1> DEFINE C == {stack[j].container : j \in i..n}
  <1>5. C \subseteq Containers /\ item \in C
    BY <1>2, <1>3, <1>4
  <1>6. item = heap[stack[n].container][stack[n].next].item
        /\ stack[n].next <= Len(heap[stack[n].container])
    BY <1>2
  <1> HIDE DEF item, n
  <1>7. ASSUME NEW c \in C PROVE \E e \in 1..Len(heap[c]) : heap[c][e].item \in C
    <2>1. PICK j \in i..n : c = stack[j].container
      OBVIOUS
    <2>2. j \in 1..n
      BY <1>2, <2>1
    <2>3. c \in Containers /\ Len(heap[c]) \in Nat /\ stack[j].next \in 1..(Len(heap[c]) + 1)
      BY <1>1, <1>3, <2>1, <2>2 DEF Placed, n
    <2>4. CASE j = n
      <3>1. stack[j].next \in 1..Len(heap[c]) /\ heap[c][stack[j].next].item = item
        BY <1>6, <2>1, <2>3, <2>4
      <3> QED
        BY <1>5, <3>1
    <2>5. CASE j # n
      <3>1. j \in 1..(n - 1) /\ j + 1 \in i..n
        BY <1>2, <2>2, <2>5
      <3>2. stack[j].next >= 2 /\ heap[c][stack[j].next - 1].item = stack[j + 1].container
        BY <1>1, <2>1, <3>1 DEF Linked, n
      <3>3. stack[j].next - 1 \in 1..Len(heap[c])
        BY <2>3, <3>2
      <3>4. stack[j + 1].container \in C
        BY <3>1
      <3> QED
        BY <3>2, <3>3, <3>4
    <2> QED
      BY <2>4, <2>5
  <1>8. MaxContainerDepth - n \in 0..MaxContainerDepth
    BY <1>1, <1>2, SnapshotAssumption DEF SnapshotAssumption
  <1> HIDE DEF C
  <1>9. \A levels \in 0..MaxContainerDepth, k \in Keys, c \in C :
          TooDeep(Trees(heap)[levels][k][c])
    BY <1>1, <1>5, <1>7, CyclesAreTooDeep
  <1> QED
    BY <1>5, <1>8, <1>9 DEF item, n

\* The same of the graph and the containers at hand.
LEMMA ReadingTakesHere ==
  ASSUME IInv, Placed(heap, stack), Len(stack) \in 1..MaxContainerDepth,
         NEW rest, NEW open, Remains(heap, rest, stack), MovedOn(heap, stack, open)
  PROVE  \E more : /\ Remains(heap, more, open)
                   /\ rest[Len(stack)] = NextTree(heap, stack) \o more[Len(open)]
  <1>1. heap \in [Containers -> Seq(Entry)] /\ stack \in Seq(Frames)
    BY DEF IInv, TypeOK
  <1> QED
    BY <1>1, ReadingTakes

\* So do the visits of entries, one after the other.
LEMMA VisitEntryIsExact ==
  ASSUME ExactInv, VisitEntry, BytesInv', heap' = heap PROVE ExactInv'
  <1> DEFINE entry == Entries[Frame.next]
             open  == [stack EXCEPT ![Len(stack)].next = @ + 1]
             keyed == Frame.container \in Dicts
             spent == SpentWithKey(entry)
             key   == IF keyed THEN entry.key ELSE NoKey
             n     == Len(stack)
             tree  == Trees(heap)[MaxContainerDepth - Len(stack)][key][entry.item]
  <1>1. /\ outcome = "running" /\ Frame.next <= Len(Entries) /\ receipt' = receipt
        /\ IF keyed /\ (entry.key \in Unfit \/ spent > MaxSnapshotScalarBytes)
           THEN Unwind("refused") ELSE Visit(open, key, entry.item, spent)
    BY DEF VisitEntry
  <1>2. /\ IInv /\ BytesInv /\ Placed(heap, stack) /\ Linked(heap, stack)
        /\ heap \in [Containers -> Seq(Entry)] /\ stack \in Seq(Frames)
        /\ n <= MaxContainerDepth /\ MaxContainerDepth \in Nat /\ scalar_bytes \in Nat
    BY SnapshotAssumption
       DEF ExactInv, BytesInv, IInv, TypeOK, StackIsAPath, SnapshotAssumption
  <1>3. /\ n \in Nat \ {0} /\ Frame = stack[n] /\ Frame \in Frames
        /\ Entries = heap[stack[n].container] /\ Entries \in Seq(Entry)
    BY <1>1, <1>2, FrameType DEF Frame, Entries
  <1>4. Frame.next \in 1..Len(Entries) /\ Frame.container \in Containers
    BY <1>1, <1>3 DEF Frames
  <1>5. entry \in Entry
    BY <1>3, <1>4
  <1>6. entry.item \in Items /\ entry.key \in Scalars
    BY <1>5 DEF Entry
  <1>7. key \in Keys /\ (key \in Scalars <=> keyed) /\ (keyed => key = entry.key)
        /\ (key \in Unfit => keyed)
    BY <1>6, SnapshotAssumption DEF Keys, Items, SnapshotAssumption
  <1>8. spent = scalar_bytes + (IF key \in Scalars THEN Weight[key] ELSE 0)
    BY <1>7 DEF SpentWithKey
  <1>9. key = KeyOf(stack[n].container, entry)
    BY <1>3 DEF KeyOf
  <1>10. /\ open \in Seq(Frames) /\ Len(open) = n
         /\ \A i \in 1..(n - 1) : open[i] = stack[i]
         /\ open[n].container = stack[n].container
         /\ open[n].next = stack[n].next + 1 /\ open[n].size = stack[n].size
    <2>1. [stack[n] EXCEPT !.next = @ + 1] \in Frames
      BY <1>3 DEF Frames
    <2>2. stack[n] = [container |-> stack[n].container, next |-> stack[n].next,
                      size |-> stack[n].size]
      BY <1>3 DEF Frames
    <2> QED
      BY <1>2, <1>3, <2>1, <2>2
  <1>11. /\ entry = heap[stack[n].container][stack[n].next]
         /\ stack[n].next \in 1..Len(heap[stack[n].container])
         /\ stack[n].next <= Len(heap[stack[n].container])
    BY <1>1, <1>3, <1>4
  <1>12. entry.item \in active_containers => TooDeep(tree)
    BY <1>1, <1>7, CycleFound
  <1>13. PICK rest : Remains(heap, rest, stack) /\ Unfolding = snapshot \o rest[n]
    BY <1>1 DEF ExactInv
  <1> HIDE DEF entry, open, key, tree, n
  <1>14. spent \in Nat
    BY <1>2, <1>6, SnapshotAssumption DEF SpentWithKey, SnapshotAssumption
  <1>15. PICK more : /\ Remains(heap, more, open)
                     /\ rest[n] = tree \o more[Len(open)]
    <2>1. n \in 1..MaxContainerDepth
      BY <1>2, <1>3
    <2>2. Len(stack) \in 1..MaxContainerDepth /\ Remains(heap, rest, stack)
      BY <1>13, <2>1 DEF n
    <2>3. MovedOn(heap, stack, open)
      BY <1>10, <1>11 DEF n, MovedOn
    <2>4. NextTree(heap, stack) = tree
      <3>1. entry = NextEntry(heap, stack)
        BY <1>11 DEF NextEntry, n
      <3> QED
        BY <1>9, <3>1, Zenon DEF NextTree, tree, n
    <2>5. \E more : /\ Remains(heap, more, open)
                    /\ rest[Len(stack)] = NextTree(heap, stack) \o more[Len(open)]
      BY <1>2, <2>2, <2>3, ReadingTakesHere
    <2> QED
      BY <2>4, <2>5, Zenon DEF n
  <1>16. Unfolding = snapshot \o (tree \o more[Len(open)])
    BY <1>13, <1>15, Zenon
  <1>17. more[Len(open)] \in Seq(Nodes)
    <2>1. Len(open) \in 0..Len(open)
      BY <1>3, <1>10
    <2> QED
      BY <1>15, <2>1 DEF Remains
  <1>18. CASE keyed /\ (entry.key \in Unfit \/ spent > MaxSnapshotScalarBytes)
    <2>1. key \in Unfit \/ spent > MaxSnapshotScalarBytes
      BY <1>7, <1>18
    <2> HIDE DEF spent
    <2>2. ~Fits(Unfolding)
      BY <1>2, <1>6, <1>7, <1>8, <1>12, <1>14, <1>16, <1>17, <2>1, RefusalIsRight DEF tree
    <2> QED
      BY <1>1, <1>18, <2>2, GivingUpIsExact
  <1>19. CASE ~(keyed /\ (entry.key \in Unfit \/ spent > MaxSnapshotScalarBytes))
    <2>1. key \notin Unfit
      BY <1>7, <1>19
    <2>2. Visit(open, key, entry.item, spent)
      BY <1>1, <1>19
    <2>3. Placed(heap, open)
      <3>1. ASSUME NEW i \in 1..n
            PROVE  /\ open[i].next \in 1..(Len(heap[open[i].container]) + 1)
                   /\ open[i].size = Len(heap[open[i].container])
        <4>1. /\ stack[i].next \in 1..(Len(heap[stack[i].container]) + 1)
              /\ stack[i].size = Len(heap[stack[i].container])
          BY <1>2 DEF Placed, n
        <4>2. CASE i = n
          <5>1. stack[n].next + 1 \in 1..(Len(heap[stack[n].container]) + 1)
            BY <1>2, <1>3, <1>4, <1>11
          <5> QED
            BY <1>10, <4>1, <4>2, <5>1
        <4>3. CASE i # n
          <5>1. i \in 1..(n - 1)
            BY <1>3, <4>3
          <5> QED
            BY <1>10, <4>1, <5>1
        <4> QED
          BY <4>2, <4>3
      <3> QED
        BY <1>10, <3>1 DEF Placed
    <2>4. Linked(heap, open)
      <3>1. ASSUME NEW i \in 1..(n - 1)
            PROVE  /\ open[i].next >= 2
                   /\ heap[open[i].container][open[i].next - 1].item = open[i + 1].container
        <4>1. open[i] = stack[i]
          BY <1>10
        <4>2. open[i + 1].container = stack[i + 1].container
          <5>1. CASE i + 1 = n
            BY <1>10, <5>1
          <5>2. CASE i + 1 # n
            <6>1. i + 1 \in 1..(n - 1)
              BY <1>3, <5>2
            <6> QED
              BY <1>10, <6>1
          <5> QED
            BY <5>1, <5>2
        <4>3. /\ stack[i].next >= 2
              /\ heap[stack[i].container][stack[i].next - 1].item = stack[i + 1].container
          BY <1>2 DEF Linked, n
        <4> QED
          BY <4>1, <4>2, <4>3
      <3> QED
        BY <1>10, <3>1 DEF Linked
    <2>5. /\ open[Len(open)].next >= 2
          /\ heap[open[Len(open)].container][open[Len(open)].next - 1].item = entry.item
      <3>1. stack[n].next + 1 >= 2 /\ stack[n].next + 1 - 1 = stack[n].next
        BY <1>11
      <3> QED
        BY <1>10, <1>11, <3>1
    <2> HIDE DEF spent
    <2> QED
      BY <1>1, <1>6, <1>7, <1>8, <1>10, <1>12, <1>14, <1>15, <1>16,
         <2>1, <2>2, <2>3, <2>4, <2>5, VisitIsExact DEF tree, n
  <1> QED
    BY <1>18, <1>19

\* A container that is read to its end leaves nothing of it.
LEMMA LeaveIsExact ==
  ASSUME ExactInv, LeaveContainer, BytesInv', heap' = heap PROVE ExactInv'
  <1> DEFINE n == Len(stack)
             c == stack[n].container
  <1>1. /\ outcome = "running" /\ receipt' = receipt /\ snapshot' = snapshot
        /\ Frame.next > Len(Entries)
        /\ outcome' = IF n = 1 THEN Returned ELSE "running"
    BY DEF LeaveContainer
  <1>2. /\ IInv /\ Placed(heap, stack) /\ Linked(heap, stack) /\ snapshot \in Seq(Nodes)
        /\ heap \in [Containers -> Seq(Entry)] /\ stack \in Seq(Frames)
        /\ n <= MaxContainerDepth /\ MaxContainerDepth \in Nat
    BY CopiesAreNodes, SnapshotAssumption
       DEF ExactInv, BytesInv, IInv, TypeOK, StackIsAPath, SnapshotAssumption
  <1>3. /\ n \in Nat \ {0} /\ Frame = stack[n] /\ Frame \in Frames
        /\ Entries = heap[c] /\ Entries \in Seq(Entry) /\ c \in Containers
    BY <1>1, <1>2, FrameType DEF Frame, Entries, Frames
  <1>4. /\ stack' \in Seq(Frames) /\ Len(stack') = n - 1
        /\ \A i \in 1..(n - 1) : stack'[i] = stack[i]
    BY <1>2, LeaveShortens
  <1>5. PICK rest : Remains(heap, rest, stack) /\ Unfolding = snapshot \o rest[n]
    BY <1>1 DEF ExactInv
  <1>6. /\ rest \in [0..n -> Seq(Nodes)] /\ rest[0] = <<>> /\ rest[n - 1] \in Seq(Nodes)
        /\ rest[n] = Remaining(heap, stack[n], n) \o rest[n - 1]
    <2>1. n - 1 \in 0..n /\ n \in 1..n
      BY <1>3
    <2> QED
      BY <1>5, <2>1 DEF Remains
  <1>7. Remaining(heap, stack[n], n) = <<>>
    <2>1. stack[n].next \in 1..(Len(heap[c]) + 1) /\ Len(heap[c]) \in Nat
      BY <1>2, <1>3 DEF Placed
    <2>2. Len(heap[c]) + 1 - stack[n].next = 0
      BY <1>1, <1>3, <2>1
    <2>3. MaxContainerDepth - n \in 0..MaxContainerDepth
      BY <1>2, <1>3
    <2>4. Trees(heap)[MaxContainerDepth - n] \in TreesByKey
      BY <1>2, <2>3, TreesAreDefined
    <2> QED
      BY <1>2, <1>3, <2>2, <2>4, ForestIsDefined DEF Remaining
  <1>8. Unfolding = snapshot \o rest[n - 1]
    <2>1. <<>> \o rest[n - 1] = rest[n - 1]
      BY <1>6, ConcatEmptySeq
    <2> QED
      BY <1>5, <1>6, <1>7, <2>1, Zenon
  <1>9. FitSoFar'
    BY <1>1 DEF ExactInv, FitSoFar
  <1> HIDE DEF n, c
  <1>10. CASE n = 1
    <2>1. stack' = <<>> /\ rest[n - 1] = <<>>
      BY <1>4, <1>6, <1>10
    <2>2. snapshot \o <<>> = snapshot
      BY <1>2, ConcatEmptySeq
    <2>3. Unfolding = snapshot'
      BY <1>1, <1>8, <2>1, <2>2, Zenon
    <2> QED
      BY <1>1, <1>9, <1>10, <2>1, <2>3, ReturningIsExact
  <1>11. CASE n # 1
    <2> DEFINE less == [i \in 0..(n - 1) |-> rest[i]]
    <2>1. less \in [0..(n - 1) -> Seq(Nodes)] /\ less[0] = <<>>
      <3>1. 0 \in 0..(n - 1) /\ \A i \in 0..(n - 1) : i \in 0..n
        BY <1>3
      <3> QED
        BY <1>6, <3>1
    <2>2. \A i \in 0..(n - 1) : less[i] = rest[i]
      OBVIOUS
    <2> HIDE DEF less
    <2>3. ASSUME NEW i \in 1..(n - 1)
          PROVE  less[i] = Remaining(heap, stack'[i], i) \o less[i - 1]
      <3>1. i \in 1..n /\ i \in 0..(n - 1) /\ i - 1 \in 0..(n - 1)
        BY <1>3
      <3>2. rest[i] = Remaining(heap, stack[i], i) \o rest[i - 1]
        BY <1>5, <3>1 DEF Remains, n
      <3> QED
        BY <1>4, <2>2, <3>1, <3>2, Zenon
    <2>4. Remains(heap, less, stack')
      BY <1>4, <2>1, <2>3, Zenon DEF Remains
    <2>5. Unfolding' = snapshot' \o less[Len(stack')]
      <3>1. n - 1 \in 0..(n - 1)
        BY <1>3
      <3>2. Unfolding' = Unfolding
        BY <1>1 DEF Unfolding
      <3> QED
        BY <1>1, <1>4, <1>8, <2>2, <3>1, <3>2, Zenon
    <2>6. Placed(heap, stack)'
      <3>1. \A i \in 1..(n - 1) : i \in 1..n
        BY <1>3
      <3> QED
        BY <1>2, <1>4, <3>1 DEF Placed, n
    <2>7. Linked(heap, stack)'
      <3>1. \A i \in 1..(n - 1 - 1) : i \in 1..(n - 1) /\ i + 1 \in 1..(n - 1)
        BY <1>3
      <3> QED
        BY <1>2, <1>4, <3>1 DEF Linked, n
    <2>8. outcome' = "running"
      BY <1>1, <1>11
    <2>9. \E r : Remains(heap', r, stack') /\ Unfolding' = snapshot' \o r[Len(stack')]
      BY <2>4, <2>5, Zenon
    <2> QED
      BY <1>9, <2>6, <2>7, <2>8, <2>9 DEF ExactInv
  <1> QED
    BY <1>10, <1>11

\* As long as the graph stays what it is, so does what is copied and left to copy.
LEMMA ExactPreserved ==
  ASSUME ExactInv, [Next]_vars, [UNCHANGED heap]_vars PROVE ExactInv'
  <1>1. BytesInv'
    BY BytesPreserved DEF ExactInv
  <1>2. heap' = heap
    BY DEF vars
  <1>3. CASE Start
    BY <1>1, <1>2, <1>3, StartIsExact
  <1>4. CASE IterationBreaks
    <2>1. outcome = "running" /\ SizeChanged
      BY <1>4 DEF IterationBreaks
    <2>2. Len(stack) \in Nat \ {0}
      BY <2>1, FrameType DEF ExactInv, BytesInv
    <2>3. Frame.size = Len(Entries)
      BY <2>2 DEF ExactInv, Placed, Frame, Entries
    <2> QED
      BY <2>1, <2>3 DEF SizeChanged
  <1>5. CASE VisitEntry
    BY <1>1, <1>2, <1>5, VisitEntryIsExact
  <1>6. CASE LeaveContainer
    BY <1>1, <1>2, <1>6, LeaveIsExact
  <1>7. CASE Mutate
    <2>1. PICK container \in Containers, entries \in Contents :
            entries # heap[container] /\ heap' = [heap EXCEPT ![container] = entries]
      BY <1>7 DEF Mutate
    <2>2. heap'[container] = entries
      BY <2>1 DEF ExactInv, BytesInv, IInv, TypeOK
    <2> QED
      BY <1>2, <2>1, <2>2
  <1>8. CASE UNCHANGED vars
    <2>1. /\ UNCHANGED <<heap, receipt, stack, snapshot, outcome>>
      BY <1>8 DEF vars
    <2>2. UNCHANGED Unfolding
      BY <2>1 DEF Unfolding
    <2>3. Fits(Unfolding)' <=> Fits(Unfolding)
      BY <2>1, <2>2 DEF Fits
    <2> QED
      BY <1>1, <2>1, <2>2, <2>3 DEF ExactInv, FitSoFar
  <1> QED
    BY <1>3, <1>4, <1>5, <1>6, <1>7, <1>8 DEF Next, Step, Finished

\* What is returned is the tree, and it fits.
LEMMA ExactInvImplies == ASSUME ExactInv PROVE SnapshotIsExact
  <1>1. CASE outcome = "snapshot"
    <2>1. receipt \in Dicts /\ Unfolding = snapshot
      BY <1>1 DEF ExactInv
    <2>2. /\ Len(snapshot) <= MaxContainerNodes
          /\ Bytes(snapshot) <= MaxSnapshotScalarBytes
      BY DEF ExactInv, BytesInv, Counted, IInv, NodesAreCounted
    <2>3. ASSUME NEW i \in DOMAIN snapshot PROVE snapshot[i].depth <= MaxContainerDepth
      <3>1. snapshot[i] \in Copies
        BY DEF ExactInv, BytesInv, IInv, TypeOK
      <3>2. snapshot[i].depth \in 1..MaxContainerDepth
        BY <3>1 DEF Copies
      <3> QED
        BY <3>2, SnapshotAssumption DEF SnapshotAssumption
    <2>4. Fits(snapshot)
      BY <2>1, <2>2, <2>3 DEF ExactInv, FitSoFar, Fits
    <2> QED
      BY <1>1, <2>1, <2>4 DEF SnapshotIsExact
  <1>2. CASE outcome # "snapshot"
    BY <1>2 DEF ExactInv, SnapshotIsExact
  <1> QED
    BY <1>1, <1>2

\* A graph that its owner leaves alone, whatever its shape, is copied exactly when
\* the tree it unfolds to fits the budgets, and then the copy is that tree; a graph
\* with a cycle that can be reached is always refused, and none is refused for
\* sharing.
THEOREM SnapshotsAreExact == Spec /\ [][UNCHANGED heap]_vars => []SnapshotIsExact
  <1>1. Init => ExactInv
    <2> SUFFICES ASSUME Init PROVE ExactInv
      OBVIOUS
    <2>1. stack = <<>> /\ snapshot = <<>> /\ scalar_bytes = 0 /\ outcome = "called"
      BY DEF Init
    <2>2. BytesInv
      BY <2>1, InitEstablishes, BytesOfNothing, SnapshotAssumption
         DEF BytesInv, Counted, NothingBeforeStart, SnapshotAssumption
    <2>3. FitSoFar
      BY <2>1 DEF FitSoFar
    <2> QED
      BY <2>1, <2>2, <2>3, NothingOpen DEF ExactInv
  <1>2. ExactInv /\ [Next]_vars /\ [UNCHANGED heap]_vars => ExactInv'
    BY ExactPreserved
  <1>3. ExactInv => SnapshotIsExact
    BY ExactInvImplies
  <1> QED
    BY <1>1, <1>2, <1>3, PTL DEF Spec
=============================================================================
