SPECIFICATION ChecksSpec
CONSTANTS
  MaxDepth = 2
  MaxSize = 9
  Names = {a, b}
  NamesSize = 6
  BodySize = 4
  InitSize = 5
  Nesting = 1
INVARIANTS TypeOK NothingMissed NothingInvented  XcInputFindings VecGrowthFindings AuthFindings OrderedFindings AdminFindings TtlFindings EventFindings ReadFindings InitFindings GuardFindings InvokeFindings ArithmeticFindings
CHECK_DEADLOCK FALSE
