CONSTANTS
  Calls <- AllCalls
  Words = 3
  Grants = {0, 1, 2}
  Regrants = {1, 2}
  Retries = {"read"}
  None = None
SPECIFICATION FairSpec
INVARIANT WrittenAsAsked
INVARIANT Answered
PROPERTY Turnaround
PROPERTY CallReturns
