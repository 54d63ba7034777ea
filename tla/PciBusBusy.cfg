CONSTANTS
  Calls <- AbortedBurst
  Words = 3
  Grants = {1}
  Regrants = {1}
  Retries = {}
  None = None
SPECIFICATION Spec
INVARIANT Answered
