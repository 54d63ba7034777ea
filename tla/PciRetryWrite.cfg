CONSTANTS
  Calls <- AllCalls
  Words = 3
  Grants = {0, 1}
  Regrants = {1}
  Retries = {"write"}
  None = None
SPECIFICATION FairSpec
PROPERTY CallReturns
