--------------------------- MODULE BoundedSnapshot ---------------------------
(***************************************************************************)
(* snapshot_bounded_receipt: the depth-first copy of the caller's receipt  *)
(* that the audited verifier works on.  The graph it walks belongs to the  *)
(* caller: it may be shared, cyclic or too large, and another thread may   *)
(* change it while it is copied.                                           *)
(*                                                                         *)
(* One step of the model is one turn of an innermost loop of visit: the    *)
(* next entry of the innermost open container, or the end of it.  What the *)
(* copy holds is written in pre-order, every value with its depth and the  *)
(* key it stands under.                                                    *)
(***************************************************************************)
EXTENDS Naturals, Sequences

CONSTANTS
  Containers,              \* lists and dicts, by identity
  Dicts,                   \* the dicts among them
  Scalars,                 \* keys, strings, numbers, constants, foreign objects
  Unfit,                   \* those a check refuses for what they are
  Weight,                  \* the bytes a scalar counts for
  Heaps,                   \* what the containers may hold at the call
  Contents,                \* what the caller may later put into one of them
  MaxContainerDepth,
  MaxContainerNodes,
  MaxSnapshotScalarBytes,
  NoKey                    \* the key of what stands in a list, or nowhere

Items == Containers \cup Scalars

\* An entry of a list has a key too, which is not looked at.
Entry == [key : Scalars, item : Items]

ASSUME SnapshotAssumption ==
  /\ Containers \cap Scalars = {} /\ NoKey \notin Items
  /\ Scalars \cap {"dict", "list"} = {}
  /\ Dicts \subseteq Containers /\ Unfit \subseteq Scalars
  /\ Weight \in [Scalars -> Nat]
  /\ \A h \in Heaps : h \in [Containers -> Seq(Entry)]
  /\ Contents \subseteq Seq(Entry)
  /\ MaxContainerDepth \in Nat /\ MaxContainerNodes \in Nat
  /\ MaxSnapshotScalarBytes \in Nat

VARIABLES
  heap,               \* external: the entries of every container
  receipt,            \* what the caller passed
  stack,              \* open calls of visit: [container, next, size]
  active_containers,
  node_count,
  scalar_bytes,
  snapshot,           \* the copy so far, in pre-order
  outcome             \* "called", "running", "snapshot", "refused" or "raised"

counters == <<node_count, scalar_bytes>>
vars == <<heap, receipt, stack, active_containers, counters, snapshot, outcome>>

Init ==
  /\ heap \in Heaps /\ receipt \in Items
  /\ stack = <<>> /\ active_containers = {}
  /\ node_count = 0 /\ scalar_bytes = 0
  /\ snapshot = <<>> /\ outcome = "called"

\* An exception unwinds every open visit, whose finally clauses run; the
\* counters and the copy are lost with it.
Unwind(result) ==
  /\ outcome' = result
  /\ stack' = <<>> /\ active_containers' = {}
  /\ UNCHANGED <<counters, snapshot>>

\* snapshot_bounded_receipt: only the copy of a dict is returned.
Returned == IF receipt \in Dicts THEN "snapshot" ELSE "refused"

\* Mutant: depth counts from zero.
CopiedFromZero(key, item) ==
  [ depth |-> Len(stack), key |-> key,
    value |-> IF item \in Scalars THEN item
              ELSE IF item \in Dicts THEN "dict" ELSE "list" ]

\* What visit adds to the copy first.
Copied(key, item) ==
  [ depth |-> Len(stack) + 1, key |-> key,
    value |-> IF item \in Scalars THEN item
              ELSE IF item \in Dicts THEN "dict" ELSE "list" ]

\* Mutants: only containers count as nodes; only a container that holds itself
\* is a cycle.
RefusedCountingContainers(item, spent) ==
  \/ Len(stack) + 1 > MaxContainerDepth
  \/ item \in Containers /\ node_count + 1 > MaxContainerNodes
  \/ item \in Unfit
  \/ item \in Scalars /\ spent + Weight[item] > MaxSnapshotScalarBytes
  \/ item \in active_containers

RefusedSelfReference(item, spent) ==
  \/ Len(stack) + 1 > MaxContainerDepth
  \/ node_count + 1 > MaxContainerNodes
  \/ item \in Unfit
  \/ item \in Scalars /\ spent + Weight[item] > MaxSnapshotScalarBytes
  \/ stack # <<>> /\ item = stack[Len(stack)].container

\* visit refuses an item: whichever check comes first, one failure is enough.
Refused(item, spent) ==
  \/ Len(stack) + 1 > MaxContainerDepth
  \/ node_count + 1 > MaxContainerNodes
  \/ item \in Unfit
  \/ item \in Scalars /\ spent + Weight[item] > MaxSnapshotScalarBytes
  \/ item \in active_containers

\* visit(item): `open` are the frames below it, `spent` the bytes counted so far.
Visit(open, key, item, spent) ==
  IF Refused(item, spent) THEN Unwind("refused")
  ELSE /\ node_count' = node_count + 1
       /\ snapshot' = Append(snapshot, Copied(key, item))
       /\ IF item \in Scalars
          THEN /\ scalar_bytes' = spent + Weight[item]
               /\ stack' = open
               /\ UNCHANGED active_containers
               /\ outcome' = IF open = <<>> THEN Returned ELSE "running"
          ELSE /\ scalar_bytes' = spent
               /\ stack' = Append(open, [container |-> item, next |-> 1,
                                         size |-> Len(heap[item])])
               /\ active_containers' = active_containers \cup {item}
               /\ outcome' = "running"

Start ==
  /\ outcome = "called"
  /\ Visit(<<>>, NoKey, receipt, 0)
  /\ UNCHANGED <<heap, receipt>>

Frame   == stack[Len(stack)]
Entries == heap[Frame.container]

\* A dict whose size is not what it was when its iteration began.
SizeChanged == Frame.container \in Dicts /\ Len(Entries) # Frame.size

\* Mutant: the iteration begins anew instead.
IterationRestarts ==
  /\ outcome = "running" /\ SizeChanged
  /\ stack' = [stack EXCEPT ![Len(stack)].next = 1, ![Len(stack)].size = Len(Entries)]
  /\ UNCHANGED <<heap, receipt, active_containers, counters, snapshot, outcome>>

\* The iterator of the dict raises RuntimeError.
IterationBreaks ==
  /\ outcome = "running" /\ SizeChanged
  /\ Unwind("raised")
  /\ UNCHANGED <<heap, receipt>>

\* Mutant: keys cost nothing.
SpentOnValues(entry) == scalar_bytes

\* The bytes counted once the key of an entry is.
SpentWithKey(entry) ==
  scalar_bytes + IF Frame.container \in Dicts THEN Weight[entry.key] ELSE 0

\* The next entry: a list is read as long as it is now.  A key is checked and
\* counted before its value is visited.
VisitEntry ==
  /\ outcome = "running" /\ ~SizeChanged
  /\ Frame.next <= Len(Entries)
  /\ LET entry == Entries[Frame.next]
         open  == [stack EXCEPT ![Len(stack)].next = @ + 1]
         keyed == Frame.container \in Dicts
         spent == SpentWithKey(entry)
     IN  IF keyed /\ (entry.key \in Unfit \/ spent > MaxSnapshotScalarBytes)
         THEN Unwind("refused")
         ELSE Visit(open, IF keyed THEN entry.key ELSE NoKey, entry.item, spent)
  /\ UNCHANGED <<heap, receipt>>

\* Mutant: a finished container stays active.
StayActive(container) == active_containers

\* The finally clause of a finished container.
NoLongerActive(container) == active_containers \ {container}

\* Its entries are exhausted.
LeaveContainer ==
  /\ outcome = "running" /\ ~SizeChanged
  /\ Frame.next > Len(Entries)
  /\ active_containers' = NoLongerActive(Frame.container)
  /\ stack' = SubSeq(stack, 1, Len(stack) - 1)
  /\ outcome' = IF Len(stack) = 1 THEN Returned ELSE "running"
  /\ UNCHANGED <<heap, receipt, counters, snapshot>>

\* External: the owner changes one container; a dict of the same size keeps its
\* keys.
Mutate ==
  /\ outcome \in {"called", "running"}
  /\ \E container \in Containers, entries \in Contents :
       /\ entries # heap[container]
       /\ (container \in Dicts /\ Len(entries) = Len(heap[container])) =>
            \A i \in DOMAIN entries : entries[i].key = heap[container][i].key
       /\ heap' = [heap EXCEPT ![container] = entries]
  /\ UNCHANGED <<receipt, stack, active_containers, counters, snapshot, outcome>>

Finished == outcome \in {"snapshot", "refused", "raised"} /\ UNCHANGED vars

Step == Start \/ IterationBreaks \/ VisitEntry \/ LeaveContainer

Next == Step \/ Mutate \/ Finished

Spec == Init /\ [][Next]_vars

\* The copying thread is scheduled; nothing is assumed of the owner.
FairSpec == Spec /\ WF_vars(Step)
=============================================================================
