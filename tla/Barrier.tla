------------------------------ MODULE Barrier ------------------------------
(***************************************************************************)
(* What the server promises the clients of its busses: a bus moves on only *)
(* when every one of them has arrived or has left, it lets all of them go  *)
(* or none, and whoever goes on does so at the time the bus has reached.   *)
(***************************************************************************)
EXTENDS Naturals

CONSTANTS
  Bus, Member,
  BusOf,          \* the bus of each member
  Step            \* how far a bus moves on

VARIABLES
  now,            \* bus -> its time
  place,          \* member -> "out" | "computing" | "ready" | "released" | "left"
  clock           \* member -> the time it computes at

vars == <<now, place, clock>>

Init ==
  /\ now = [b \in Bus |-> 0]
  /\ place = [m \in Member |-> "out"]
  /\ clock = [m \in Member |-> 0]

Move(m, from, to) ==
  /\ place[m] = from
  /\ place' = [place EXCEPT ![m] = to]

(* Only before the bus has moved.                                          *)
Join(m) == /\ now[BusOf[m]] = 0
           /\ Move(m, "out", "computing")
           /\ UNCHANGED <<now, clock>>

Arrive(m) == /\ Move(m, "computing", "ready")
             /\ UNCHANGED <<now, clock>>

Proceed(m) == /\ Move(m, "released", "computing")
              /\ clock' = [clock EXCEPT ![m] = now[BusOf[m]]]
              /\ UNCHANGED now

(* A member may leave from anywhere, and never comes back.                 *)
Leave(m) == /\ place' = [place EXCEPT ![m] = "left"]
            /\ UNCHANGED <<now, clock>>

Arrived(b) == {m \in Member : BusOf[m] = b /\ place[m] = "ready"}

Advance(b) ==
  /\ \A m \in Member : BusOf[m] = b => place[m] \in {"ready", "left"}
  /\ now' = [now EXCEPT ![b] = @ + Step[b]]
  /\ UNCHANGED clock

Release(b) ==
  /\ Advance(b)
  /\ place' = [m \in Member |-> IF m \in Arrived(b) THEN "released" ELSE place[m]]

(* The bus closes: nobody goes on.                                         *)
Close(b) ==
  /\ Advance(b)
  /\ place' = [m \in Member |-> IF m \in Arrived(b) THEN "left" ELSE place[m]]

(* The server ends: those that wait for any bus are let down.              *)
Ended(m) == IF place[m] = "ready" THEN "left" ELSE place[m]

End == /\ place' = [m \in Member |-> Ended(m)]
       /\ UNCHANGED <<now, clock>>

(* It may do so in the midst of a release.                                 *)
Break(b) ==
  /\ Advance(b)
  /\ \E S \in SUBSET Arrived(b) :
       place' = [m \in Member |-> IF m \in S THEN "released" ELSE Ended(m)]

Next ==
  \/ \E m \in Member : Join(m) \/ Arrive(m) \/ Proceed(m) \/ Leave(m)
  \/ \E b \in Bus : Release(b) \/ Close(b) \/ Break(b)
  \/ End

Spec == Init /\ [][Next]_vars
=============================================================================
