CONSTANTS
  NoDevice = NoDevice
  NoClient = NoClient
  Client = {"c0","c1","c2","c3"}
  Bus = {"bus"}
  Device = {"host","dev1","dev2"}
  DevBus <- OneBus
  Port <- OneBusPort
  Name <- OneBusName
  Step <- OneBusStep
  Checked = {}
  MaxTime = 2
  Crashing = {"c1"}
  MayInterrupt = TRUE
SPECIFICATION Spec
INVARIANT TypeOK
INVARIANT OneOutstanding
INVARIANT Lockstep
INVARIANT ReadyForThisStep
INVARIANT AbortForCause
PROPERTY NoUntilAfterExit
PROPERTY BusIsBarrier
