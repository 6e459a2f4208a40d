SPECIFICATION ChecksSpec
CONSTANTS
  MaxDepth = 1
  MaxSize = 3
  Names = {a, b}
  NamesSize = 2
  BodySize = 4
  InitSize = 2
  Nesting = 1
INVARIANT NoopIfIsNoGate
CHECK_DEADLOCK FALSE
