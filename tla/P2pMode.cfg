CONSTANTS
  width_o = 2
  width_i = 1
  wid_o_ = 2
  wid_i_ = 1
  Words <- SomeWords
  MaxCycles = 2
SPECIFICATION Spec
PROPERTY ModeAtNextPhase
