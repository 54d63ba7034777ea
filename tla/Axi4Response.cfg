CONSTANTS
  None = None
  Addr = {"a", "b"}
  Half = {"0", "5"}
  Sizes = {16, 32}
  Responses = {0, 1}
  WidWidth = 4
  RidWidth = 4
  TimeLimit = 2
  MaxWait = 2
  ResetFirst = TRUE
SPECIFICATION Spec
PROPERTY ResponseReturned
