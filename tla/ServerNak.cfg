CONSTANTS
  NoDevice = NoDevice
  NoClient = NoClient
  Bus = {"bus"}
  Device = {"host","dev1"}
  DevBus <- TwoDev
  Step <- OneBusStep
  Client = {"c0","c1","c2"}
  Port <- TwoDevPort
  Name <- StrayName
  Checked = {}
  MaxTime = 1
  Crashing = {}
  MayInterrupt = FALSE
SPECIFICATION Spec
INVARIANT NoAbort
