CONSTANTS
  Components <- TwoComponents
  MaxRegistryEntries = 10
  VerificationTime = 4
  ExpectedContextHash = "context"
  ExpectedRequestId = "request"
  Receipts <- EditedReceipts
  Registries <- EditedRegistries
  Overwrites <- NoReceipts
  MinimumRegistryVersion = 2
  MaxVerificationCalls = 9
  MaxPqcCalls = 6
  MaxAuditRecords = 11
  MaxAttempts = 1
  None = None
SPECIFICATION Spec
INVARIANTS
  AdmissionIsExact
  BatchGrammar
