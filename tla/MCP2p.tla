-------------------------------- MODULE MCP2p --------------------------------
(* Instances of P2p for TLC: words of two bits to the device and of one    *)
(* bit, or of none, back.  The device puts out one word only: what it      *)
(* changes is from no value to that word.                                  *)
EXTENDS P2p

SomeWords == [c \in {"host", "device"} |->
                IF c = "host" THEN {<<"0", "1">>, <<"1", "0">>} ELSE {<<"1">>}]
OneWay == [c \in {"host", "device"} |->
             IF c = "host" THEN {<<"0", "1">>, <<"1", "0">>} ELSE {<<>>}]
=============================================================================
