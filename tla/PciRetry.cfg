CONSTANTS
  Calls <- Reads
  Words = 3
  Grants = {0}
  Regrants = {0}
  Retries = {"read"}
  None = None
SPECIFICATION Spec
INVARIANT Answered
