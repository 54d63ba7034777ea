CONSTANTS
  None = None
  Addr = {"a", "b"}
  Half = {"0", "5"}
  Sizes = {8, 32}
  Responses = {0, 1}
  WidWidth = 4
  RidWidth = 4
  TimeLimit = 1
  MaxWait = 2
  ResetFirst = TRUE
SPECIFICATION FairSpec
INVARIANT TypeOK
PROPERTY OneAccessPerCall
PROPERTY CallReturns
