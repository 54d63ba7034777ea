------------------------------ MODULE VpiClient ------------------------------
(***************************************************************************)
(* Verilog simulators as clients of the server: the system tasks of        *)
(* vpi/simbus.c, called by the slots of ver/ (pci_slot.v, point_*_io.v,    *)
(* axi4_slave_slot.v, xilinx_pcie_slot.v), which all run the same loop:    *)
(*                                                                         *)
(*   deltatime = 1; forever begin #(deltatime); $simbus_ready(...);        *)
(*     $simbus_poll(bus, trig); wait (trig); deltatime = $simbus_until(...)*)
(*                                                                         *)
(* A simulator may hold slots of several busses, and a bus may have slots  *)
(* in several simulators.  A slot that waits for the server must not keep  *)
(* the other slots of its simulator from running, and must keep their      *)
(* time from running on.                                                   *)
(*                                                                         *)
(* The server is the one of SimbusServer, seen from its clients: a bus     *)
(* starts when all its devices have been greeted, goes on when all of them *)
(* are ready, and ends when one of them does; a client that was refused    *)
(* takes the server down when it closes.  A message arrives in one or two  *)
(* pieces.                                                                 *)
(***************************************************************************)
EXTENDS Integers, FiniteSets, FiniteSetsExt

CONSTANTS
  Sim, Bus, Slot,
  SimOf, BusOf,   \* where a slot is
  Period,         \* the time units from one event of a bus to the next
  Unit,           \* a time unit, in units of the precision: a power of ten
  MaxTime         \* bound: busses end when they get there

ASSUME VpiConstantsOK ==
  /\ SimOf \in [Slot -> Sim] /\ BusOf \in [Slot -> Bus]
  /\ Period \in [Bus -> Nat \ {0}]
  /\ Unit \in Nat \ {0} /\ MaxTime \in Nat

VARIABLES
  now,            \* vpi_get_time of a simulator, in units of its precision
  pc,             \* where the loop of a slot is
  wake,           \* the end of the slot's delay
  until,          \* the time of the slot's last UNTIL, in time units
  trig,           \* the slot's reg
  inst_trig,      \* instance_table[].trig is set
  cbs, batch,     \* callbacks registered, and those of the synch going on
  net, sock, buf, \* pieces of the slot's message: sent, arrived, in read_buf
  msg,            \* the message
  ready,          \* devices of a bus that are ready
  time,           \* the time of a bus
  ended,          \* the bus has sent FINISH and is closed
  greeted,        \* slots whose HELLO was answered with YOU-ARE
  server          \* "up" | "refused": a NAK is out | "down"

simVars == <<now, cbs, batch>>
slotVars == <<pc, wake, until, trig, inst_trig>>
busVars == <<ready, time, ended, greeted, server>>
vars == <<simVars, slotVars, net, sock, buf, msg, busVars>>

SlotsOf(m) == {s \in Slot : SimOf[s] = m}
Pieces == 2
FINISH == -1   \* no time of an UNTIL

(* simbus_setup.                                                           *)
Init ==
  /\ now = [m \in Sim |-> 0]
  /\ pc = [s \in Slot |-> "connect"]
  /\ wake = [s \in Slot |-> 0] /\ until = [s \in Slot |-> 1]
  /\ trig = [s \in Slot |-> FALSE] /\ inst_trig = [s \in Slot |-> FALSE]
  /\ cbs = [m \in Sim |-> 0] /\ batch = [m \in Sim |-> 0]
  /\ net = [s \in Slot |-> 0] /\ sock = [s \in Slot |-> 0] /\ buf = [s \in Slot |-> 0]
  /\ msg = [s \in Slot |-> 0]
  /\ ready = [b \in Bus |-> {}] /\ time = [b \in Bus |-> 0]
  /\ ended = [b \in Bus |-> FALSE]
  /\ greeted = {} /\ server = "up"

-----------------------------------------------------------------------------
(* The system tasks, in the process of a slot.                             *)

(* $finish, or the vpiFinish of a task: the process and its connections    *)
(* end.                                                                    *)
Finished(m) == \A s \in SlotsOf(m) : pc[s] = "done"
Finish(m) ==
  /\ pc' = [s \in Slot |-> IF SimOf[s] = m THEN "done" ELSE pc[s]]
  /\ inst_trig' = [s \in Slot |-> inst_trig[s] /\ SimOf[s] # m]
  /\ cbs' = [cbs EXCEPT ![m] = 0] /\ batch' = [batch EXCEPT ![m] = 0]

(* The bus takes connections.                                              *)
Listening(b) == server # "down" /\ ~ended[b]

(* HELLO is answered at once: with YOU-ARE, or with NAK, where the task    *)
(* closes the connection and returns -1.  It also returns -1 where it has  *)
(* no address or finds nobody there.  The slot then ends the simulation.   *)
simbus_connect_calltf(s) ==
  /\ pc[s] = "connect"
  /\ \/ /\ Listening(BusOf[s])
        /\ greeted' = greeted \cup {s}
        /\ pc' = [pc EXCEPT ![s] = "delay"]
        /\ wake' = [wake EXCEPT ![s] = Unit]
        /\ UNCHANGED <<inst_trig, cbs, batch, server>>
     \/ /\ Listening(BusOf[s])
        /\ server' = "refused"
        /\ Finish(SimOf[s])
        /\ UNCHANGED <<wake, greeted>>
     \/ Finish(SimOf[s]) /\ UNCHANGED <<wake, greeted, server>>
  /\ UNCHANGED <<now, until, trig, net, sock, buf, msg, ready, time, ended>>

(* The write goes to the server, or, when it is down, nowhere or raises    *)
(* SIGPIPE, which the simulator does not handle.                           *)
simbus_ready_calltf(s) ==
  /\ pc[s] = "delay" /\ wake[s] = now[SimOf[s]]
  /\ \/ /\ ready' = [ready EXCEPT ![BusOf[s]] = @ \cup {s}]
        /\ pc' = [pc EXCEPT ![s] = "poll"]
        /\ UNCHANGED <<inst_trig, cbs, batch>>
     \/ /\ server = "down"
        /\ Finish(SimOf[s])
        /\ UNCHANGED ready
  /\ UNCHANGED <<now, wake, until, trig, net, sock, buf, msg, time, ended, greeted, server>>

(* There is a newline in the buffer.                                       *)
check_readable(fil) == fil = Pieces

(* Faulty variant: trig is set where the message is there, and not cleared *)
(* where it is not.                                                        *)
poll_trig_kept(s) == trig[s] \/ check_readable(buf[s])

poll_trig(s) == check_readable(buf[s])

simbus_poll_calltf(s) ==
  /\ pc[s] = "poll"
  /\ trig' = [trig EXCEPT ![s] = poll_trig(s)]
  /\ inst_trig' = [inst_trig EXCEPT ![s] = ~check_readable(buf[s])]
  /\ cbs' = [cbs EXCEPT ![SimOf[s]] = IF check_readable(buf[s]) THEN @ ELSE @ + 1]
  /\ pc' = [pc EXCEPT ![s] = "wait"]
  /\ UNCHANGED <<now, batch, wake, until, net, sock, buf, msg, busVars>>

(* Faulty variant: the time is taken for a delay.                          *)
deltatime_absolute(t, m) == t

(* The delay to a time.  The loop that converts the simulation time to the *)
(* units of the scope assigns a tenth of the UNTIL's time to it instead.   *)
deltatime(t, m) ==
  LET here == IF Unit = 1 THEN now[m] ELSE (t + 5) \div 10
  IN  IF here > t THEN 0 ELSE t - here

(* The line is moved out of the buffer.                                    *)
line_taken(fil) == fil - Pieces

(* read_message looks for a line, reads what has arrived, looks again: it  *)
(* returns when the line is there.                                         *)
simbus_until_calltf(s) ==
  LET m   == SimOf[s]
      fil == IF check_readable(buf[s]) THEN buf[s] ELSE buf[s] + sock[s]
  IN  /\ pc[s] = "wait" /\ trig[s]
      /\ check_readable(fil)
      /\ buf' = [buf EXCEPT ![s] = line_taken(fil)]
      /\ sock' = [sock EXCEPT ![s] = @ + buf[s] - fil]
      /\ \/ /\ msg[s] = FINISH
            /\ Finish(m)
            /\ UNCHANGED <<until, wake>>
         \/ /\ msg[s] # FINISH
            /\ until' = [until EXCEPT ![s] = msg[s]]
            /\ wake' = [wake EXCEPT ![s] = now[m] + Unit * deltatime(msg[s], m)]
            /\ pc' = [pc EXCEPT ![s] = "delay"]
            /\ inst_trig' = [inst_trig EXCEPT ![s] = FALSE]
            /\ UNCHANGED <<cbs, batch>>
      /\ UNCHANGED <<now, trig, net, msg, busVars>>

-----------------------------------------------------------------------------
(* The simulator.                                                          *)

(* A process of the simulator can run at the present time.                 *)
Active(m) == \E s \in SlotsOf(m) : \/ pc[s] \in {"connect", "poll"}
                                   \/ pc[s] = "delay" /\ wake[s] = now[m]
                                   \/ pc[s] = "wait" /\ trig[s]

(* The processes are done with this time: run the callbacks registered for *)
(* cbReadWriteSynch.  Those they register run in the next one.             *)
ReadWriteSynch(m) ==
  /\ ~Active(m) /\ batch[m] = 0 /\ cbs[m] > 0
  /\ batch' = [batch EXCEPT ![m] = cbs[m]]
  /\ cbs' = [cbs EXCEPT ![m] = 0]
  /\ UNCHANGED <<now, slotVars, net, sock, buf, msg, busVars>>

(* Faulty variant: the callback is registered again for two triggers only. *)
registered_again_two(waiting) == IF Cardinality(waiting) < 2 THEN 0 ELSE 1

(* Faulty variant: it is registered again when no trigger waits.           *)
registered_again_always(waiting) == 1

(* Once more, for as long as the callback found triggers waiting; without  *)
(* any it has returned before its select.                                  *)
registered_again(waiting) == IF waiting = {} THEN 0 ELSE 1

(* The server is gone and all it had sent has arrived.                     *)
AtEOF(s) == server = "down" /\ net[s] = 0

(* select waits for a message of any of the slots that wait; all that has  *)
(* arrived is read.  At its end a connection is readable for good, and the *)
(* read of no bytes is passed over.                                        *)
poll_for_simbus_bus(m) ==
  LET waiting  == {s \in SlotsOf(m) : inst_trig[s]}
      readable == {s \in waiting : sock[s] > 0 \/ AtEOF(s)}
      read(s)  == IF s \in readable THEN buf[s] + sock[s] ELSE buf[s]
      complete == {s \in readable : check_readable(read(s))}
  IN  /\ batch[m] > 0
      /\ waiting # {} => readable # {}
      /\ buf' = [s \in Slot |-> read(s)]
      /\ sock' = [s \in Slot |-> IF s \in readable THEN 0 ELSE sock[s]]
      /\ trig' = [s \in Slot |-> trig[s] \/ s \in complete]
      /\ inst_trig' = [s \in Slot |-> inst_trig[s] /\ s \notin complete]
      /\ batch' = [batch EXCEPT ![m] = @ - 1]
      /\ cbs' = [cbs EXCEPT ![m] = @ + registered_again(waiting)]
      /\ UNCHANGED <<now, pc, wake, until, net, msg, busVars>>

(* Nothing is left to do at this time.                                     *)
AdvanceTime(m) ==
  LET delays == {wake[s] : s \in {s \in SlotsOf(m) : pc[s] = "delay"}}
  IN  /\ ~Active(m) /\ batch[m] = 0 /\ cbs[m] = 0
      /\ delays # {}
      /\ now' = [now EXCEPT ![m] = Min(delays)]
      /\ UNCHANGED <<cbs, batch, slotVars, net, sock, buf, msg, busVars>>

Simulator(m) ==
  \/ ReadWriteSynch(m) \/ poll_for_simbus_bus(m) \/ AdvanceTime(m)
  \/ \E s \in SlotsOf(m) : \/ simbus_connect_calltf(s) \/ simbus_ready_calltf(s)
                           \/ simbus_poll_calltf(s) \/ simbus_until_calltf(s)

-----------------------------------------------------------------------------
(* The server, and the connections.                                        *)

Devices(b) == {s \in Slot : BusOf[s] = b}

(* All devices are ready or have left; one that was never greeted is       *)
(* neither, and its bus stays in need_initialization.                      *)
AllReady(b) ==
  \A s \in Devices(b) : s \in greeted /\ (s \in ready[b] \/ pc[s] = "done")

(* UNTIL the next event, or FINISH where a device has left or the host has *)
(* had enough.                                                             *)
bus_step(b) ==
  LET present == {s \in Devices(b) : pc[s] # "done"}
  IN  /\ server # "down" /\ ~ended[b]
      /\ AllReady(b) /\ present # {}
      /\ ended' = [ended EXCEPT ![b] = present # Devices(b) \/ time[b] >= MaxTime]
      /\ time' = [time EXCEPT ![b] = IF ended'[b] THEN @ ELSE @ + Period[b]]
      /\ msg' = [s \in Slot |-> IF s \notin present THEN msg[s]
                                ELSE IF ended'[b] THEN FINISH ELSE time'[b]]
      /\ net' = [s \in Slot |-> IF s \in present THEN Pieces ELSE net[s]]
      /\ ready' = [ready EXCEPT ![b] = {}]
      /\ UNCHANGED <<simVars, slotVars, sock, buf, greeted, server>>

(* The server reads the end of the connection that it has refused, "EOF    *)
(* from client before HELLO": assert(0).                                   *)
server_abort ==
  /\ server = "refused" /\ server' = "down"
  /\ UNCHANGED <<simVars, slotVars, net, sock, buf, msg, ready, time, ended, greeted>>

(* A piece of a message arrives.                                           *)
Arrive(s) ==
  /\ net[s] > 0
  /\ net' = [net EXCEPT ![s] = @ - 1]
  /\ sock' = [sock EXCEPT ![s] = @ + 1]
  /\ UNCHANGED <<simVars, slotVars, buf, msg, busVars>>

Stopped == (\A m \in Sim : Finished(m)) /\ UNCHANGED vars

Next == \/ \E m \in Sim : Simulator(m)
        \/ \E b \in Bus : bus_step(b)
        \/ server_abort
        \/ \E s \in Slot : Arrive(s)
        \/ Stopped

Spec == Init /\ [][Next]_vars

(* Simulators, server and network do what they can.                        *)
FairSpec == /\ Spec
            /\ \A m \in Sim : WF_vars(Simulator(m))
            /\ \A b \in Bus : WF_vars(bus_step(b))
            /\ WF_vars(server_abort)
            /\ \A s \in Slot : WF_vars(Arrive(s))

-----------------------------------------------------------------------------
(* Properties                                                              *)

(* pci_slot.v, "the $simbus_until function can continue without blocking": *)
(* a slot that passes its wait finds a whole message in its buffer, so the *)
(* other slots of the simulator are not held up in a read.                 *)
UntilNeverBlocks == \A s \in Slot : pc[s] = "wait" /\ trig[s] => check_readable(buf[s])

(* pci_slot.v, "The $simbus_until function automatically converts the time *)
(* delay from the server to the units of the local scope": a slot's delay  *)
(* ends at the time of the UNTIL, however many slots are in its simulator. *)
InStep == \A s \in Slot : pc[s] = "delay" => wake[s] = Unit * until[s]

(* poll_for_simbus_bus, "Check and see if there are still triggers         *)
(* waiting. If so then reschedule this callback": while a slot waits for   *)
(* the server the simulator's time stands still.                           *)
TimeStandsStill ==
  \A s \in Slot : pc[s] \in {"poll", "wait"} => now[SimOf[s]] = Unit * until[s]

(* No slot has ended without having been greeted.                          *)
AllConnect == \A s \in Slot : pc[s] = "done" => s \in greeted

(* server/README.txt, "The usual response is an UNTIL string": no ring of  *)
(* slots, simulators and busses waits on itself; every slot gets on until  *)
(* its bus ends.  The server does not start a bus one of whose devices     *)
(* never came, and does not survive one that it refused, so this is said   *)
(* of the case in which every slot connects.                               *)
RunsToTheEnd == []AllConnect => \A s \in Slot : <>(pc[s] = "done")

(* The same without that condition, which the code does not keep.          *)
AlwaysEnds == \A s \in Slot : <>(pc[s] = "done")

-----------------------------------------------------------------------------
(* An inductive invariant                                                  *)

TypeOK ==
  /\ now \in [Sim -> Nat] /\ cbs \in [Sim -> Nat] /\ batch \in [Sim -> Nat]
  /\ pc \in [Slot -> {"connect", "delay", "poll", "wait", "done"}]
  /\ wake \in [Slot -> Nat] /\ until \in [Slot -> Nat]
  /\ trig \in [Slot -> BOOLEAN] /\ inst_trig \in [Slot -> BOOLEAN]
  /\ net \in [Slot -> Nat] /\ sock \in [Slot -> Nat] /\ buf \in [Slot -> Nat]
  /\ msg \in [Slot -> Nat \cup {FINISH}]
  /\ ready \in [Bus -> SUBSET Slot] /\ time \in [Bus -> Nat] /\ ended \in [Bus -> BOOLEAN]
  /\ greeted \in SUBSET Slot /\ server \in {"up", "refused", "down"}

(* The callback looks at the slots that wait without their message, and    *)
(* goes on to run for as long as there is one.                             *)
Polled ==
  \A s \in Slot :
    /\ inst_trig[s] => pc[s] = "wait" /\ ~trig[s]
    /\ pc[s] = "wait" /\ ~trig[s] => inst_trig[s]
    /\ inst_trig[s] => batch[SimOf[s]] > 0 \/ cbs[SimOf[s]] > 0

(* A slot is ready, or has its message, while it waits and at no other     *)
(* time; and it never has more than one message.                           *)
Answers ==
  \A s \in Slot : pc[s] # "done" =>
    /\ net[s] + sock[s] + buf[s] \in {0, Pieces}
    /\ net[s] + sock[s] + buf[s] > 0 => s \notin ready[BusOf[s]]
    /\ pc[s] \in {"connect", "delay"} =>
         net[s] + sock[s] + buf[s] = 0 /\ s \notin ready[BusOf[s]]

(* The times of a slot's UNTILs do not decrease.                           *)
Onward ==
  \A s \in Slot : pc[s] # "done" =>
    /\ until[s] <= time[BusOf[s]] + 1
    /\ net[s] + sock[s] + buf[s] > 0 /\ msg[s] # FINISH =>
         until[s] <= msg[s] /\ msg[s] <= time[BusOf[s]]
    /\ pc[s] = "connect" => until[s] = 1

Polling == TypeOK /\ Polled /\ UntilNeverBlocks

Inv == Polling /\ Answers /\ Onward /\ InStep /\ TimeStandsStill
=============================================================================
