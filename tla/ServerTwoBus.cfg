CONSTANTS
  NoDevice = NoDevice
  NoClient = NoClient
  Bus = {"fast","slow"}
  Device = {"host","dev1","solo"}
  DevBus <- TwoBus
  Step <- TwoBusStep
  Client = {"c0","c1","c2"}
  Port <- TwoBusPort
  Name <- TwoBusName
  Checked = {"fast"}
  MaxTime = 2
  Crashing = {"c0"}
  MayInterrupt = FALSE
SPECIFICATION FairSpec
INVARIANT AbortForCause
PROPERTY BusEndsForCause
PROPERTY ReadyAnswered
PROPERTY FinishEndsBus
