CONSTANTS
  Components <- FiveComponents
  MaxRegistryEntries = 64
  VerificationTime = 4
  ExpectedContextHash = "context"
  ExpectedRequestId = "request"
  Receipts <- EveryFnDsa
  Registries <- OneRegistry
  Overwrites <- NoReceipts
  MinimumRegistryVersion = 2
  MaxVerificationCalls = 18
  MaxPqcCalls = 12
  MaxAuditRecords = 24
  MaxAttempts = 1
  None = None
SPECIFICATION Spec
INVARIANTS
  WaveDiscipline
  WorkIsAccounted
  AuditMatchesBackend
