CONSTANTS
  SupportedComponents <- TwoComponents
  BridgeOrder <- TwoBridges
  Headers <- OneHeader
  Payloads <- ChangingPayloads
  Answers <- PlainAnswers
  Mutators = {"engine", "caller"}
  MaxCalls = 1
  None = None
SPECIFICATION FairSpec
INVARIANT ReceiptVouchesForItsHash
PROPERTIES ImplementsDecisionGate EveryCallEnds ReceiptIsReturned
