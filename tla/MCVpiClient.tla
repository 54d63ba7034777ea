---------------------------- MODULE MCVpiClient ----------------------------
(* An instance of VpiClient for TLC: two simulators, each with a slot of a *)
(* fast and of a slow bus.                                                 *)
EXTENDS VpiClient

CrossSim == [s \in {"a1", "b1", "a2", "b2"} |-> IF s \in {"a1", "b1"} THEN 1 ELSE 2]
CrossBus == [s \in {"a1", "b1", "a2", "b2"} |-> IF s \in {"a1", "a2"} THEN "a" ELSE "b"]
CrossPeriod == [b \in {"a", "b"} |-> IF b = "a" THEN 2 ELSE 3]
=============================================================================
