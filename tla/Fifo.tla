-------------------------------- MODULE Fifo --------------------------------
(***************************************************************************)
(* A channel that neither loses, repeats, reorders nor damages what it is  *)
(* given: the abstract specification of one direction of a PCIe link.      *)
(***************************************************************************)
EXTENDS Naturals, Sequences

CONSTANTS
  Item,           \* what may be given to the channel
  None

VARIABLES
  queue,          \* items given to the channel and not yet taken out of it
  taken           \* the item taken out last, until it is forgotten

vars == <<queue, taken>>

Init == queue = <<>>

Put == /\ Len(queue') = Len(queue) + 1
       /\ SubSeq(queue', 1, Len(queue)) = queue
       /\ queue'[Len(queue')] \in Item
       /\ UNCHANGED taken

Take == /\ queue # <<>>
        /\ taken' = Head(queue)
        /\ queue' = Tail(queue)

Forget == taken' = None /\ UNCHANGED queue

Next == Put \/ Take \/ Forget

Spec == Init /\ [][Next]_vars
=============================================================================
