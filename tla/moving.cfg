CONSTANTS
  c1 = c1  c2 = c2  c3 = c3
  Containers <- TwoContainers
  Dicts <- OneDict
  Scalars <- TwoScalars
  Unfit = {}
  Weight <- TwoWeights
  Heaps <- OneHeap
  Contents <- Growing
  MaxContainerDepth = 3
  MaxContainerNodes = 4
  MaxSnapshotScalarBytes = 6
  NoKey = NoKey
SPECIFICATION FairSpec
INVARIANTS StackIsAPath CopyIsBounded BytesAreCounted
PROPERTIES TurnsAreBounded CopyEnds
