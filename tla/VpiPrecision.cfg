CONSTANTS
  Sim = {1, 2}
  Bus = {"a", "b"}
  Slot = {"a1", "b1", "a2", "b2"}
  SimOf <- CrossSim
  BusOf <- CrossBus
  Period <- CrossPeriod
  Unit = 10
  MaxTime = 4
SPECIFICATION Spec
INVARIANT InStep
