\* Three filters, bodies of up to four chunks, a filter may stop on the last one.
CONSTANTS
  HighWatermark = 2
  NumFilters = 3
  MaxChunks = 4
  MaxMessages = 2
  MaxRead = 3
SPECIFICATION Spec
CHECK_DEADLOCK FALSE
INVARIANTS
  NothingLostInChain
  WatermarkHolds
  HeldBackInTurn
  DrainMatchesApply
PROPERTY ChainMatchesGate
