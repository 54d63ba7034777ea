CONSTANTS
  width_o = 2
  width_i = 0
  wid_o_ = 2
  wid_i_ = 0
  Words <- OneWay
  MaxCycles = 2
SPECIFICATION Spec
INVARIANT NeverAborts
