-------------------------- MODULE SnapshotProperties --------------------------
(***************************************************************************)
(* What the bounded snapshot promises.                                     *)
(***************************************************************************)
EXTENDS BoundedSnapshot

Frames ==
  [container : Containers, next : Nat \ {0}, size : Nat]

Copies ==
  [depth : 1..MaxContainerDepth, key : Scalars \cup {NoKey},
   value : Scalars \cup {"dict", "list"}]

\* The type invariant.
TypeOK ==
  /\ heap \in [Containers -> Seq(Entry)] /\ receipt \in Items
  /\ stack \in Seq(Frames)
  /\ active_containers \subseteq Containers
  /\ node_count \in Nat /\ scalar_bytes \in Nat
  /\ snapshot \in Seq(Copies)
  /\ outcome \in {"called", "running", "snapshot", "refused", "raised"}
  /\ outcome = "running" <=> stack # <<>>

\* The open containers are a path: none is open twice, the set of active ones is
\* exactly the set of open ones, and the path is no longer than the limit.  With
\* a container missing from the set a cycle would be followed to the depth limit
\* at every turn; with one too many a shared container would count as a cycle
\* (work_budget.py:115-133).
StackIsAPath ==
  /\ \A i, j \in DOMAIN stack : stack[i].container = stack[j].container => i = j
  /\ active_containers = {stack[i].container : i \in DOMAIN stack}
  /\ Len(stack) <= MaxContainerDepth

\* Whatever the owner does to the graph meanwhile, no more than the budget is
\* ever copied: nodes and depth (work_budget.py:89-95).
CopyIsBounded ==
  /\ Len(snapshot) <= MaxContainerNodes
  /\ \A i \in DOMAIN snapshot : snapshot[i].depth <= MaxContainerDepth

\* What a value of the copy counts for, with the key it stands under.
NodeBytes(node) ==
  (IF node.key \in Scalars THEN Weight[node.key] ELSE 0)
    + (IF node.value \in Scalars THEN Weight[node.value] ELSE 0)

\* The bytes of the first n values of a copy, for every n.
Totals(copy) ==
  LET upto[n \in 0..Len(copy)] == IF n = 0 THEN 0 ELSE upto[n - 1] + NodeBytes(copy[n])
  IN  upto

Bytes(copy) == Totals(copy)[Len(copy)]

\* The bytes of the copy, keys and values, are exactly the bytes counted and
\* stay within the budget (work_budget.py:83-87, 97-110, 129).
BytesAreCounted ==
  /\ Bytes(snapshot) <= MaxSnapshotScalarBytes
  /\ outcome # "called" => Bytes(snapshot) = scalar_bytes

\* The turns that are left at most: two for every value that may still be copied,
\* one for every container to be left.
TurnsLeft ==
  IF outcome \in {"called", "running"}
  THEN 2 * (MaxContainerNodes - node_count) + Len(stack) + 1 ELSE 0

\* Every turn of the copy uses up one of those at least, and the owner can give
\* it no more, however often it changes the graph: there are never more turns than
\* twice the nodes of the budget, and one (work_budget.py:91-95, 119-135).
TurnsAreBounded ==
  [][/\ TurnsLeft \in Nat /\ TurnsLeft' \in Nat
     /\ IF Step THEN TurnsLeft' < TurnsLeft ELSE TurnsLeft' = TurnsLeft]_vars

-----------------------------------------------------------------------------
(* The reference: a receipt written out as the tree it unfolds to *)

Keys == Scalars \cup {NoKey}

KeyOf(container, entry) == IF container \in Dicts THEN entry.key ELSE NoKey

\* An item as it stands in a tree.
NodeAt(depth, key, item) ==
  [ depth |-> depth, key |-> key,
    value |-> IF item \in Scalars THEN item
              ELSE IF item \in Dicts THEN "dict" ELSE "list" ]

\* What the last entries of a container unfold to, one after the other, for every
\* number of them; `tree` gives the tree of an item under a key.
Forest(graph, tree, container) ==
  LET entries == graph[container]
      last[k \in 0..Len(entries)] ==
        IF k = 0 THEN <<>>
        ELSE LET entry == entries[Len(entries) - k + 1]
             IN  tree[KeyOf(container, entry)][entry.item] \o last[k - 1]
  IN  last

\* The tree of an item in pre-order, for every number of levels there may be below
\* it; the last of them is one level too deep.
Trees(graph) ==
  LET tree[levels \in 0..MaxContainerDepth] ==
        [key \in Keys |-> [item \in Items |->
          <<NodeAt(MaxContainerDepth + 1 - levels, key, item)>>
            \o (IF item \in Scalars \/ levels = 0 THEN <<>>
                ELSE Forest(graph, tree[levels - 1], item)[Len(graph[item])])]]
  IN  tree

Unfolding == Trees(heap)[MaxContainerDepth][NoKey][receipt]

Fits(tree) ==
  /\ receipt \in Dicts
  /\ Len(tree) <= MaxContainerNodes
  /\ \A i \in DOMAIN tree :
       /\ tree[i].depth <= MaxContainerDepth
       /\ tree[i].key \notin Unfit /\ tree[i].value \notin Unfit
  /\ Bytes(tree) <= MaxSnapshotScalarBytes

\* A graph that is left alone is copied exactly when the tree it unfolds to fits,
\* and the copy is that tree: shared containers are copied twice and cost twice,
\* a cycle is refused because its tree has no end (work_budget.py:78-146).
SnapshotIsExact ==
  outcome \in {"snapshot", "refused", "raised"} =>
    /\ outcome = "snapshot" <=> Fits(Unfolding)
    /\ outcome = "snapshot" => snapshot = Unfolding

\* The copy comes to an end although the owner may lengthen a list for ever and
\* faster than it is read.
CopyEnds == <>(outcome \in {"snapshot", "refused", "raised"})
=============================================================================
