CONSTANTS
  SupportedComponents <- ThreeComponents
  Lists <- PaddedLists
  RequestIds <- OneRequestId
  Contexts <- OneContext
  None = None
SPECIFICATION Spec
INVARIANT DenyDominates
