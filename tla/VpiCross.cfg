CONSTANTS
  Sim = {1, 2}
  Bus = {"a", "b"}
  Slot = {"a1", "b1", "a2", "b2"}
  SimOf <- CrossSim
  BusOf <- CrossBus
  Period <- CrossPeriod
  Unit = 1
  MaxTime = 4
SPECIFICATION FairSpec
INVARIANT UntilNeverBlocks
INVARIANT InStep
INVARIANT TimeStandsStill
PROPERTY RunsToTheEnd
CHECK_DEADLOCK FALSE
