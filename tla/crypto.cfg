CONSTANTS
  BackendAlgorithm = "fn-dsa"
  Requests <- MCRequests
  Keys <- MCKeys
  Libraries <- MCLibraries
  MaxIssued = 2
  MaxSplices = 1
  Decimal <- Versions
  None = None
SPECIFICATION Spec
INVARIANTS TypeOK VerifiedWasIssued IssuedVerifies LibraryCannotTurnAVerdict
