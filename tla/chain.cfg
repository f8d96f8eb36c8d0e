CONSTANTS
  Components <- TwoComponents
  ExpectedContextHash = "context"
  ExpectedRequestId = "request"
  Registries <- MCRegistries
  Submissions <- MCSubmissions
  Windows <- MCWindows
  MaxClock = 5
  None = None
SPECIFICATION Spec
INVARIANTS TypeOK BuiltIsAdmissible EvidenceStaysTrusted HandoffNeedsEveryAllow
