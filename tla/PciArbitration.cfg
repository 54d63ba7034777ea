CONSTANTS
  None = None
  Dev = {0, 3, 15}
  Park = {"none", "last"}
  Linger = 2
  MaxAddress = 1
  MaxData = 2
  Splitting = {15}
  SplitDelay = 0
  MaxNest = 1
  Timeout = 13
SPECIFICATION Spec
INVARIANT OneGrant
INVARIANT OneOwner
INVARIANT MasterTracked
INVARIANT RequestGranted
