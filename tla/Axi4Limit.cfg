CONSTANTS
  None = None
  Addr = {"a", "b"}
  Half = {"0", "5"}
  Sizes = {8, 32}
  Responses = {0, 1}
  WidWidth = 4
  RidWidth = 4
  TimeLimit = 4
  MaxWait = 2
  ResetFirst = FALSE
SPECIFICATION Spec
INVARIANT ResponseLimited
