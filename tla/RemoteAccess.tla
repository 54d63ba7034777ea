---------------------------- MODULE RemoteAccess ----------------------------
(***************************************************************************)
(* What a read or write of one word over a bus promises its caller: each   *)
(* call makes one access to the device, and returns what that access gave. *)
(***************************************************************************)
CONSTANTS
  Request,        \* what may be asked for: records with an op and data
  Answer,         \* what an access gives: a response and data
  None

VARIABLES
  call,           \* the call in progress
  access,         \* what its access has given
  result          \* what the last call returned, until it is forgotten

vars == <<call, access, result>>

Init == call = None /\ access = None /\ result = None

Call ==
  /\ call = None
  /\ call' \in Request
  /\ UNCHANGED <<access, result>>

(* A write gives the device the caller's data; a read gets the device's.   *)
Access ==
  /\ call # None /\ access = None
  /\ access' \in Answer
  /\ call.op = "write" => access'.data = call.data
  /\ UNCHANGED <<call, result>>

Return ==
  /\ call # None /\ access # None
  /\ result' = access
  /\ call' = None /\ access' = None

Forget == result' = None /\ UNCHANGED <<call, access>>

Next == Call \/ Access \/ Return \/ Forget

Spec == Init /\ [][Next]_vars
=============================================================================
