CONSTANTS
  None = None
  Dev = {3, 15}
  Park = {"none"}
  Linger = 2
  MaxAddress = 1
  MaxData = 1
  Splitting = {3, 15}
  SplitDelay = 1
  MaxNest = 1
  Timeout = 20
SPECIFICATION Spec
INVARIANT RequestHeld
