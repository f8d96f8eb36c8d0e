------------------------------ MODULE MCSnapshot ------------------------------
(***************************************************************************)
(* Small graphs for BoundedSnapshot.                                       *)
(***************************************************************************)
EXTENDS SnapshotProperties

CONSTANTS c1, c2, c3

TwoContainers   == {c1, c2}
ThreeContainers == {c1, c2, c3}

\* A dict, and a list (and another dict) below it, or the other way round.
OneDict  == {c1}
TwoDicts == {c1, c3}

\* Weights 0, 1 and 2; one value no check lets through.
FourScalars == {"", "k", "text", "float"}
FourWeights == [scalar \in FourScalars |->
                  CASE scalar = "k" -> 1 [] scalar = "text" -> 2 [] OTHER -> 0]
TwoScalars  == {"k", "text"}
TwoWeights  == [scalar \in TwoScalars |-> IF scalar = "k" THEN 1 ELSE 2]
OneUnfit    == {"float"}

Keyed(key, item) == [key |-> key, item |-> item]

\* Entries under a key of their own; one key may be unfit.
Pairs(items) ==
  {<<>>} \cup {<<Keyed(key, item)>> : key \in {"k", "float"}, item \in items}
  \cup {<<Keyed("k", item), Keyed("", other)>> : item \in items, other \in items}

ManyHeaps ==
  [Containers -> Pairs(Containers \cup {"text"}) \cup {<<Keyed("k", "float")>>}]

\* A receipt to begin with, and lists that outgrow the node limit.
OneHeap == {[container \in Containers |->
               IF container = c1 THEN <<Keyed("k", c2)>> ELSE <<Keyed("k", "text")>>]}

Growing ==
  {[i \in 1..n |-> Keyed(IF i = 1 THEN "k" ELSE "text", item)] :
     n \in 0..MaxContainerNodes, item \in Containers \cup {"k"}}
=============================================================================
