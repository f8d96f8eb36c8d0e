CONSTANTS
  SupportedComponents <- ThreeComponents
  BridgeOrder <- ThreeBridges
  Headers <- EveryHeader
  Payloads <- EveryPayload
  Answers <- EveryAnswer
  Mutators = {}
  MaxCalls = 1
  None = None
SPECIFICATION Spec
INVARIANTS TypeOK OutcomeIsExact
