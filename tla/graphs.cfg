CONSTANTS
  c1 = c1  c2 = c2  c3 = c3
  Containers <- ThreeContainers
  Dicts <- TwoDicts
  Scalars <- FourScalars
  Unfit <- OneUnfit
  Weight <- FourWeights
  Heaps <- ManyHeaps
  Contents = {}
  MaxContainerDepth = 3
  MaxContainerNodes = 6
  MaxSnapshotScalarBytes = 5
  NoKey = NoKey
SPECIFICATION Spec
INVARIANTS TypeOK SnapshotIsExact
