CONSTANTS
  SupportedComponents <- ThreeComponents
  Lists <- PlainLists
  RequestIds <- SomeRequestIds
  Contexts <- BothContexts
  None = None
SPECIFICATION Spec
INVARIANTS AcceptedIsDerived RoundTrip OrderLeavesNoTrace
