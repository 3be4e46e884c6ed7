\* Three ports that come and go, a deadline of three ticks.
CONSTANTS
  Scan = 3
  Limit = 3
SPECIFICATION PromptSpec
INVARIANTS IInv NoBridgeMissed
PROPERTY ConnectReturns
