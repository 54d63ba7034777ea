CONSTANTS
  NoDevice = NoDevice
  NoClient = NoClient
  Client = {"c0","c1","c2"}
  Bus = {"bus"}
  Device = {"host","dev1"}
  DevBus <- TwoDev
  Port <- TwoDevPort
  Name <- AgainName
  Step <- OneBusStep
  Checked = {}
  MaxTime = 1
  Crashing = {"c1"}
  MayInterrupt = FALSE
SPECIFICATION FairSpec
PROPERTY ReadyAnswered
CHECK_DEADLOCK FALSE
