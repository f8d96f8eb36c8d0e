CONSTANTS
  Components <- TwoComponents
  MaxRegistryEntries = 10
  VerificationTime = 4
  ExpectedContextHash = "context"
  ExpectedRequestId = "request"
  Receipts <- AtTheLimits
  Registries <- OneRegistry
  Overwrites <- OverwriteWithDeny
  MinimumRegistryVersion = 2
  MaxVerificationCalls = 8
  MaxPqcCalls = 5
  MaxAuditRecords = 9
  MaxAttempts = 2
  None = None
SPECIFICATION FairSpec
INVARIANTS
  TypeOK
  ReleasedOnlyWithDurableEvidence
  RejectedOnlyWithDurableEvidence
  ReturnedReceiptWasVerified
  WorkIsAccounted
PROPERTIES
  ImplementsGate
  EveryCallEnds
