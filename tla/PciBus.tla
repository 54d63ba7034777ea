------------------------------- MODULE PciBus -------------------------------
(***************************************************************************)
(* The arbiter with the devices it serves: masters that use libsimbus      *)
(* (simbus_pci.c and the transactions built on it).                        *)
(*                                                                         *)
(* The server waits for the READY of every device before it runs a phase,  *)
(* so a phase of the bus is one step.  The library lets its caller go on   *)
(* at the posedge only: after phase 0 every device reacts, in any order,   *)
(* to what that phase sent it, and its outputs stay until the next one.    *)
(***************************************************************************)
EXTENDS PciArbiter, Sequences

CONSTANTS
  MaxAddress,     \* bound: clocks before IRDY# (DAC and ATTR cycles)
  MaxData,        \* bound: clocks with IRDY# low (DEVSEL#, TRDY#, words)
  Splitting,      \* devices with SIMBUS_XLATE_SPLIT_COMPLETIONS
  SplitDelay,     \* clocks from claiming a split read to the completion's request
  MaxNest,        \* bound: split reads in progress in one device
  Timeout         \* count of __pci_request_bus

ASSUME BusConstantsOK ==
  /\ MaxAddress \in Nat \ {0} /\ MaxData \in Nat \ {0}
  /\ Splitting \subseteq Dev /\ SplitDelay \in Nat /\ MaxNest \in Nat
  /\ Timeout \in Nat \ {0}

VARIABLES
  todo,           \* devices that have not reacted to this posedge yet
  at,             \* where the device is in the library
  left,           \* clocks left there
  count,          \* clocks it may still wait for GNT#
  outer           \* what split reads interrupted: NoRequest, or a request's count

NoRequest == 0

masterVars == <<at, left, count, outer>>
vars == <<arbiterVars, outVars, sendVars, todo, masterVars>>

Init ==
  /\ ArbiterInit
  /\ todo = Dev
  /\ at    = [d \in Dev |-> "idle"]
  /\ left  = [d \in Dev |-> 0]
  /\ count = [d \in Dev |-> Timeout]
  /\ outer = [d \in Dev |-> <<>>]

Bus ==
  /\ todo = {}
  /\ run_run
  /\ todo' = IF phase' = 0 THEN Dev ELSE {}
  /\ UNCHANGED <<outVars, masterVars>>

-----------------------------------------------------------------------------
Drive(d, req, frame, irdy) ==
  /\ out_req'   = [out_req EXCEPT ![d] = req]
  /\ out_frame' = [out_frame EXCEPT ![d] = frame]
  /\ out_irdy'  = [out_irdy EXCEPT ![d] = irdy]

(* The device reacts, and waits for the next posedge.                      *)
React(d) == /\ d \in todo /\ todo' = todo \ {d}
            /\ UNCHANGED <<arbiterVars, sendVars>>

(* The caller waits, or does something else (simbus_pci_wait).             *)
Idle(d) ==
  /\ React(d) /\ at[d] = "idle"
  /\ UNCHANGED <<outVars, masterVars>>

(* Faulty variant: the previous master is not waited for.                  *)
MayStartOnGrant(d) == d \in gnt

(* The loop condition of __pci_request_bus.                                *)
MayStart(d) == d \in gnt /\ pci_frame[d] # "0" /\ pci_irdy[d] # "0"

(* The bus is being used to complete a split read.                         *)
Completing(d) == outer[d] # <<>>

(* __pci_request_bus returns and the address goes out: __address_command,  *)
(* or the split completion, which leaves IRDY# alone.  The count was local *)
(* to __pci_request_bus.                                                   *)
Start(d) ==
  /\ Drive(d, "1", "0", IF Completing(d) THEN out_irdy[d] ELSE "1")
  /\ at' = [at EXCEPT ![d] = "address"]
  /\ \E n \in 1..MaxAddress : left' = [left EXCEPT ![d] = n]
  /\ count' = [count EXCEPT ![d] = Timeout]
  /\ UNCHANGED outer

(* __pci_request_bus is called.  With the bus parked here it returns       *)
(* before REQ# has been seen by anyone.                                    *)
Request(d) ==
  /\ React(d) /\ at[d] = "idle"
  /\ \/ MayStart(d) /\ Start(d)
     \/ /\ ~MayStart(d)
        /\ Drive(d, "0", out_frame[d], out_irdy[d])
        /\ at' = [at EXCEPT ![d] = "request"]
        /\ count' = [count EXCEPT ![d] = Timeout]
        /\ UNCHANGED <<left, outer>>

(* simbus_pci_wait returns to the loop.                                    *)
Wait(d) ==
  /\ React(d) /\ at[d] = "request"
  /\ \/ /\ count[d] > 1 /\ MayStart(d) /\ Start(d)
     \/ /\ count[d] > 1 /\ ~MayStart(d)
        /\ count' = [count EXCEPT ![d] = @ - 1]
        /\ UNCHANGED <<outVars, at, left, outer>>

(* assert(count > 0): the device's process ends.                           *)
RequestTimeout(d) ==
  /\ React(d) /\ at[d] = "request" /\ count[d] = 1
  /\ at' = [at EXCEPT ![d] = "dead"]
  /\ UNCHANGED <<outVars, left, count, outer>>

-----------------------------------------------------------------------------
(* A transaction, once it has the bus.                                     *)

(* A clock of the transaction that changes nothing the arbiter sees.       *)
Hold(d) ==
  /\ React(d) /\ at[d] \in {"address", "data"} /\ left[d] > 1
  /\ left' = [left EXCEPT ![d] = @ - 1]
  /\ UNCHANGED <<outVars, at, count, outer>>

(* The end of __address_command: IRDY# goes low.  FRAME# goes high at once *)
(* for a single word and stays low for a burst, 64 bits or PCI-X, and in a *)
(* split completion.                                                       *)
Data(d) ==
  /\ React(d) /\ at[d] = "address" /\ left[d] = 1
  /\ \E frame \in IF Completing(d) THEN {"0"} ELSE {"0", "1"} :
       Drive(d, out_req[d], frame, "0")
  /\ at' = [at EXCEPT ![d] = "data"]
  /\ \E n \in 1..MaxData : left' = [left EXCEPT ![d] = n]
  /\ UNCHANGED <<count, outer>>

(* The last word: FRAME# goes high under a low IRDY#.                      *)
LastWord(d) ==
  /\ React(d) /\ at[d] = "data" /\ left[d] > 1 /\ out_frame[d] = "0"
  /\ ~Completing(d)
  /\ Drive(d, out_req[d], "1", "0")
  /\ left' = [left EXCEPT ![d] = @ - 1]
  /\ UNCHANGED <<at, count, outer>>

(* A completion that is clocked out: a disconnect, PCI-X, a split          *)
(* completion.                                                             *)
Raise(d) ==
  /\ React(d) /\ at[d] = "data" /\ left[d] = 1
  /\ Drive(d, out_req[d], "1", "1")
  /\ at' = [at EXCEPT ![d] = "raise"]
  /\ UNCHANGED <<left, count, outer>>

(* __undrive_bus, and the clock that settles it.                           *)
Undrive(d) ==
  /\ React(d)
  /\ at[d] = "raise" \/ (at[d] = "data" /\ left[d] = 1 /\ ~Completing(d))
  /\ Drive(d, out_req[d], "Z", "Z")
  /\ at' = [at EXCEPT ![d] = "settle"]
  /\ UNCHANGED <<left, count, outer>>

(* It is a split completion taken in the wait of a request.                *)
Interrupting(d) == Completing(d) /\ Head(outer[d]) # NoRequest

(* The transaction returns to its caller, which goes on within this        *)
(* posedge: the loop of an interrupted request, or the application.        *)
Return(d) ==
  /\ d \in todo /\ at[d] = "settle"
  /\ \/ /\ Interrupting(d)
        /\ at' = [at EXCEPT ![d] = "request"]
        /\ count' = [count EXCEPT ![d] = Head(outer[d])]
     \/ /\ ~Interrupting(d)
        /\ at' = [at EXCEPT ![d] = "idle"]
        /\ UNCHANGED count
  /\ outer' = [outer EXCEPT ![d] = IF Completing(d) THEN Tail(@) ELSE @]
  /\ UNCHANGED <<arbiterVars, outVars, sendVars, todo, left>>

(* A write that no target claims returns from __wait_for_devsel with the   *)
(* bus undriven and no clock to settle it.                                 *)
MasterAbort(d) ==
  /\ d \in todo /\ at[d] = "data" /\ left[d] = 1 /\ ~Completing(d)
  /\ Drive(d, out_req[d], "Z", "Z")
  /\ at' = [at EXCEPT ![d] = "idle"]
  /\ UNCHANGED <<arbiterVars, sendVars, todo, left, count, outer>>

-----------------------------------------------------------------------------
(* A split read of another master is taken by the target machine, which    *)
(* simbus_pci_wait drives, __pci_request_bus's own wait included.  REQ#    *)
(* stays as it is.                                                         *)
SplitRead(d) ==
  /\ React(d) /\ at[d] \in {"idle", "request"}
  /\ d \in Splitting /\ Len(outer[d]) < MaxNest
  /\ pci_frame[d] = "0"
  /\ outer' = [outer EXCEPT ![d] =
                 <<IF at[d] = "idle" THEN NoRequest ELSE count[d]>> \o @]
  /\ at' = [at EXCEPT ![d] = "split"]
  /\ left' = [left EXCEPT ![d] = SplitDelay]
  /\ UNCHANGED <<outVars, count>>

(* do_target_memory_read_split comes to its own __pci_request_bus.         *)
SplitCompletion(d) ==
  /\ React(d) /\ at[d] = "split"
  /\ IF left[d] > 0
     THEN /\ left' = [left EXCEPT ![d] = @ - 1]
          /\ UNCHANGED <<outVars, at, count, outer>>
     ELSE \/ MayStart(d) /\ Start(d)
          \/ /\ ~MayStart(d)
             /\ Drive(d, "0", out_frame[d], out_irdy[d])
             /\ at' = [at EXCEPT ![d] = "request"]
             /\ count' = [count EXCEPT ![d] = Timeout]
             /\ UNCHANGED <<left, outer>>

(* A dead device's socket is closed; the server goes on with the last      *)
(* signals it had until the bus is finished.                               *)
Dead(d) ==
  /\ React(d) /\ at[d] = "dead"
  /\ UNCHANGED <<outVars, masterVars>>

Master(d) ==
  \/ Idle(d) \/ Request(d) \/ Wait(d) \/ RequestTimeout(d)
  \/ Hold(d) \/ Data(d) \/ LastWord(d) \/ Raise(d) \/ Undrive(d)
  \/ Return(d) \/ MasterAbort(d) \/ SplitRead(d) \/ SplitCompletion(d) \/ Dead(d)

Next == Bus \/ \E d \in Dev : Master(d)

Spec == Init /\ [][Next]_vars

-----------------------------------------------------------------------------
(* Types of the state of the bus and its masters.                          *)
TypeOK ==
  /\ ArbiterTypeOK
  /\ todo \subseteq Dev
  /\ at \in [Dev -> {"idle", "request", "address", "data", "raise", "settle",
                     "split", "dead"}]
  /\ left \in [Dev -> Nat] /\ count \in [Dev -> Nat]
  /\ outer \in [Dev -> Seq(Nat)]

(* Between two posedges at most one device drives FRAME# or IRDY#, however *)
(* grants, recalls and parked starts fall: no line is ever contended.      *)
OneOwner ==
  todo = {} =>
    \A d, e \in Dev :
      /\ out_frame[d] # "Z" \/ out_irdy[d] # "Z"
      /\ out_frame[e] # "Z" \/ out_irdy[e] # "Z"
      => d = e

(* The device that the posedge saw driving FRAME# is the one that the      *)
(* arbiter, and the trace's "Bus master", take for the master.             *)
MasterTracked ==
  phase = 0 /\ todo = Dev =>
    \A d \in Dev : out_frame[d] = "0" => master = d

(* simbus_pci.c, assert(count > 0) in __pci_request_bus: no device whose   *)
(* REQ# is low waits for the bus longer than the transactions of the       *)
(* others can take, and the split completions among them.                  *)
RequestGranted == \A d \in Dev : at[d] = "dead" => out_req[d] # "0"

(* __pci_request_bus, "Activate the REQ# signal" and "Wait for the         *)
(* corresponding GNT#": a device that waits for the bus asks for it.       *)
RequestHeld == \A d \in Dev : at[d] = "request" => out_req[d] = "0"

-----------------------------------------------------------------------------
(* The parts of the inductive invariant from which one grant, one owner    *)
(* and the tracked master follow.                                          *)

Drives(d) == out_frame[d] # "Z" \/ out_irdy[d] # "Z"

(* What a device drives, by where it is in the library.                    *)
Lines ==
  \A d \in Dev :
    /\ at[d] \in {"idle", "request", "split", "settle", "dead"} => ~Drives(d)
    /\ at[d] = "address" => out_frame[d] = "0" /\ out_irdy[d] # "0"
    /\ at[d] = "data" => out_frame[d] \in {"0", "1"} /\ out_irdy[d] = "0"
    /\ at[d] = "raise" => out_frame[d] = "1" /\ out_irdy[d] = "1"

(* Everybody else has been told that the bus is in use.                    *)
Seen(d) == \A e \in Dev \ {d} : pci_frame[e] = "0" \/ pci_irdy[e] = "0"

(* A device that drives the bus has the grant or is seen to hold the bus;  *)
(* one that is about to let go need not be.                                *)
Held ==
  /\ todo # {} => phase = 0
  /\ \A d \in Dev : todo # {} /\ Drives(d) =>
       IF d \in todo THEN at[d] = "raise" \/ Seen(d) ELSE d \in gnt \/ Seen(d)

(* Two devices drive the bus only where one has reacted to the posedge and *)
(* the other will let go at the same one.                                  *)
Handover ==
  \A d, e \in Dev : d # e /\ Drives(d) /\ Drives(e) =>
    \/ d \in todo /\ e \notin todo /\ at[d] = "raise"
    \/ e \in todo /\ d \notin todo /\ at[e] = "raise"

(* A REQ# that the arbiter has sampled stays low, or has been answered by  *)
(* the start of a transaction.                                             *)
Sampled ==
  \A d \in req_n : out_req[d] = "0" \/ (d \notin todo /\ out_frame[d] = "0")

(* The grant is the master's or a requester's; FRAME# is the master's or   *)
(* the grantee's whose request is still sampled.                           *)
Tracking ==
  /\ granted # None => granted = master \/ granted \in req_n
  /\ \A d \in Dev : out_frame[d] = "0" => master = d \/ (granted = d /\ d \in req_n)

Inv == /\ TypeOK /\ OneGrant /\ Lines /\ Held /\ Handover /\ Sampled /\ Tracking
       /\ MasterTracked
-----------------------------------------------------------------------------
(* How long a request can wait, and the invariant that bounds it.          *)

Longest == MaxAddress + MaxData + 1    \* clocks from a start to the next one
Turn == Longest + SplitDelay           \* of a device that splits a read first
Turns(n) == n * Turn

(* __pci_request_bus waits longer than one turn of every device takes.     *)
LongEnough == Timeout > Turns(Cardinality(Dev))

Waiting(d) == at[d] = "request" /\ out_req[d] = "0"

(* Clocks that d may still wait after this one.                            *)
Room(d) == count[d] - (IF d \in todo THEN 2 ELSE 1)

(* Clocks after this one in which d may still be seen to hold the bus.     *)
Busy(d) ==
  (CASE at[d] = "address" -> left[d] + MaxData [] at[d] = "data" -> left[d] [] OTHER -> 0)
  - (IF d \in todo /\ at[d] \in {"address", "data"} THEN 1 ELSE 0)

(* d can wait for n clocks from the one that sees the bus free.            *)
Lasts(d, n) == \A e \in Dev : Room(d) >= Busy(e) + n

(* Clocks until d asks for the bus, if it is in a split read.              *)
Delay(d) == IF at[d] = "split" THEN left[d] ELSE 0

(* The devices in turn after g up to d, d included.                        *)
Rank(g, d) == Cardinality({e \in Dev : Distance(g, e) <= Distance(g, d)})

(* d has the grant, or all turns to come.                                  *)
OwnTurn(d) == IF d \in todo /\ MayStart(d) THEN Room(d) >= 0 ELSE Lasts(d, 1)
AnyTurn(d) == Lasts(d, 1 + Turns(Cardinality(Dev) - 1))

(* g has the grant and will use it; n clocks come after its turn.          *)
BeforeTurn(g, d, n) ==
  IF g \in todo /\ MayStart(g)
  THEN Room(d) >= Delay(g) + Longest + n
  ELSE \/ Lasts(d, 1 + Turn + n)
       \/ /\ g \notin todo /\ \A e \in Dev : Busy(e) = 0
          /\ Room(d) >= 1 + Delay(g) + Longest + n

(* g has the grant and has used it, or has it only until the next phase 1. *)
AfterTurn(g, d, n) ==
  /\ Lasts(d, 1 + n)
  /\ phase = 0 /\ g \in todo /\ at[g] # "address" => Room(d) >= Longest + n

(* What a sampled request still has to wait for, by who has the grant.     *)
InTurn(d) ==
  /\ granted = d => OwnTurn(d)
  /\ granted = None => AnyTurn(d)
  /\ granted \notin {d, None} =>
       LET n == Turns(Rank(granted, d) - 1)
       IN  IF granted \in req_n /\ out_req[granted] = "0"
           THEN BeforeTurn(granted, d, n)
           ELSE AfterTurn(granted, d, n)

(* The clocks left to a device that waits are enough for the turns before  *)
(* its own.                                                                *)
Patience ==
  \A d \in Dev : Waiting(d) =>
    IF d \in req_n THEN InTurn(d)
    ELSE d \notin todo /\ Room(d) >= Turns(Cardinality(Dev))

(* REQ# is low in a request or a split read only; a transaction and a      *)
(* split read have at most the clocks of their bounds left.                *)
Asking ==
  \A d \in Dev :
    /\ out_req[d] = "0" => at[d] \in {"request", "split"}
    /\ at[d] = "address" => left[d] \in 1..MaxAddress
    /\ at[d] = "data" => left[d] \in 1..MaxData
    /\ at[d] = "split" => left[d] \in 0..SplitDelay

(* A sampled REQ# that is high again was answered by a start in this clock;*)
(* once arbitrated, a grant is a requester's.                              *)
Arbitrated ==
  /\ \A d \in req_n : out_req[d] # "0" => at[d] = "address" /\ d \notin todo
  /\ phase # 0 /\ req_n # {} => granted \in req_n

WaitInv == Inv /\ Asking /\ Arbitrated /\ Patience
=============================================================================
