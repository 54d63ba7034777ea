--------------------------- MODULE MCSimbusServer ---------------------------
(* Instances of SimbusServer for TLC.                                      *)
EXTENDS SimbusServer

(* One bus of three devices, and a client whose name is in no device map.  *)
OneBus        == [d \in {"host", "dev1", "dev2"} |-> "bus"]
OneBusPort    == [c \in {"c0", "c1", "c2", "c3"} |-> "bus"]
OneBusName    == [c \in {"c0", "c1", "c2", "c3"} |->
                    CASE c = "c0" -> "host" [] c = "c1" -> "dev1" [] c = "c2" -> "dev2"
                      [] c = "c3" -> "stray"]
OneBusStep    == [b \in {"bus"} |-> 1]

(* Two busses of different speed in one server.                            *)
TwoBus        == [d \in {"host", "dev1", "solo"} |-> IF d = "solo" THEN "slow" ELSE "fast"]
TwoBusPort    == [c \in {"c0", "c1", "c2"} |-> IF c = "c2" THEN "slow" ELSE "fast"]
TwoBusName    == [c \in {"c0", "c1", "c2"} |->
                    CASE c = "c0" -> "host" [] c = "c1" -> "dev1" [] c = "c2" -> "solo"]
TwoBusStep    == [b \in {"fast", "slow"} |-> IF b = "fast" THEN 1 ELSE 2]

(* One bus of two devices, and again a client whose name is unknown.       *)
TwoDev        == [d \in {"host", "dev1"} |-> "bus"]
TwoDevPort    == [c \in {"c0", "c1", "c2"} |-> "bus"]
StrayName     == [c \in {"c0", "c1", "c2"} |->
                    CASE c = "c0" -> "host" [] c = "c1" -> "dev1" [] c = "c2" -> "stray"]

(* The same bus, with a client for each device and no other.               *)
PairPort      == [c \in {"c0", "c1"} |-> "bus"]
PairName      == [c \in {"c0", "c1"} |-> IF c = "c0" THEN "host" ELSE "dev1"]

(* The same bus, and two client processes that name one device: the second *)
(* is the first one restarted.                                             *)
AgainName     == [c \in {"c0", "c1", "c2"} |-> IF c = "c0" THEN "host" ELSE "dev1"]
=============================================================================
