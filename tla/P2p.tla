--------------------------------- MODULE P2p ---------------------------------
(***************************************************************************)
(* A point-to-point bus: the server (server/PointToPoint.cc) and, at both  *)
(* ends, an application on the library (libsimbus/simbus_p2p.c).           *)
(*                                                                         *)
(* The two applications run on their own between the edges they wait for.  *)
(* The server takes them through the four phases of the clock: 0 posedge,  *)
(* 1 hold, 2 negedge, 3 setup.  The host may gate the device's clock.      *)
(*                                                                         *)
(* A vector is a sequence of bits, the first one the least significant; on *)
(* the connection it is written the other way round.                       *)
(***************************************************************************)
EXTENDS Integers, FiniteSets, SequencesExt

CONSTANTS
  width_o, width_i,   \* of simbus_p2p_connect: host to device, and back
  wid_o_, wid_i_,     \* of the bus configuration
  Words,              \* what an end puts out
  MaxCycles           \* bound: cycles of a call

Client == {"host", "device"}
Peer(c) == IF c = "host" THEN "device" ELSE "host"
OutWidth(c) == IF c = "host" THEN width_o ELSE width_i
BusWidth(c) == IF c = "host" THEN wid_o_ ELSE wid_i_
Mode == {"RUN", "STOP0", "STOP1", "STOPZ"}

ASSUME P2pConstantsOK ==
  /\ {width_o, width_i, wid_o_, wid_i_} \subseteq Nat /\ width_o + width_i > 0
  /\ Words \in [Client -> SUBSET Seq({"0", "1"})]
  /\ \A c \in Client : \A w \in Words[c] : Len(w) = OutWidth(c)
  /\ MaxCycles \in Nat \ {0}

VARIABLES
  pc,             \* an end: "idle" between calls, "clock" in one, "sent" READY
  goal, cycles,   \* the edge that its call waits for, and how often
  look,           \* which of the call's two loops it is in
  clock,          \* the clock it has last been told of
  output,         \* data_o of the host, data_i of the device
  input,          \* data_i of the host, data_o of the device
  clock_mode,     \* what the host asks for
  phase_, master_clock_mode_,
  send,           \* send_signals: clock and data for an end
  inbox,          \* ends that an UNTIL or FINISH is on its way to
  finished,       \* of the bus
  edge            \* what the other end had put out when an end's clock rose

callVars == <<goal, cycles, look>>
regVars  == <<clock, input>>
busVars  == <<phase_, master_clock_mode_, send, finished, edge>>
vars == <<pc, callVars, regVars, output, clock_mode, busVars, inbox>>

All(n, bit) == [i \in 1..n |-> bit]

(* simbus_p2p_connect, the constructor of PointToPoint and its run_init.   *)
Init ==
  /\ pc = [c \in Client |-> "idle"]
  /\ goal = [c \in Client |-> "1"] /\ cycles = [c \in Client |-> 0]
  /\ look = [c \in Client |-> "away"]
  /\ clock = [c \in Client |-> "x"]
  /\ output = [c \in Client |-> All(OutWidth(c), "x")]
  /\ input = [c \in Client |-> All(OutWidth(Peer(c)), "x")]
  /\ clock_mode = "RUN" /\ phase_ = 0 /\ master_clock_mode_ = "RUN"
  /\ send = [c \in Client |-> [clock |-> "1", data |-> All(BusWidth(Peer(c)), "z")]]
  /\ inbox = {} /\ finished = FALSE
  /\ edge = [c \in Client |-> All(OutWidth(Peer(c)), "x")]

-----------------------------------------------------------------------------
(* The vectors of READY and UNTIL.                                         *)

(* Faulty variant: the least significant bit is sent first.                *)
ready_vector_lsb(v) == v

(* send_ready_p2p: the most significant bit is sent first.                 *)
ready_vector(v) == Reverse(v)

(* process_client_ready_, and bus_ready, put it into the other order.      *)
received(w) == Reverse(w)
until_text(v) == Reverse(v)

(* run_run fits a vector to the width of the bus.                          *)
fitted(v, n) == [i \in 1..n |-> IF i <= Len(v) THEN v[i] ELSE "z"]

(* send_ready_p2p: the text of an UNTIL over what the register held.  Bits *)
(* beyond the length of the text become X before its bits are stored, from *)
(* the end of the register.                                                *)
until_vector(w, old) ==
  [i \in 1..Len(old) |->
     LET top == Len(old) - i + 1
     IN  IF top <= Len(w) THEN w[top] ELSE IF i > Len(w) THEN "x" ELSE old[i]]

-----------------------------------------------------------------------------
(* The library.                                                            *)

Gone(c) == pc[c] \in {"done", "aborted"}

(* simbus_p2p_out of the host, simbus_p2p_in_poke of the device.           *)
simbus_p2p_out(c) ==
  /\ pc[c] = "idle"
  /\ \E w \in Words[c] : output' = [output EXCEPT ![c] = w]
  /\ UNCHANGED <<pc, callVars, regVars, clock_mode, busVars, inbox>>

(* simbus_p2p_in of the host, simbus_p2p_out_peek of the device: the value *)
(* and how many bits have none.                                            *)
simbus_p2p_in(v) ==
  [data |-> [i \in DOMAIN v |-> IF v[i] = "1" THEN "1" ELSE "0"],
   rc   |-> -Cardinality({i \in DOMAIN v : v[i] \in {"x", "z"}})]

simbus_p2p_clock_mode ==
  /\ pc["host"] = "idle"
  /\ \E m \in Mode : clock_mode' = m
  /\ UNCHANGED <<pc, callVars, regVars, output, busVars, inbox>>

(* Faulty variant: after the other level one READY is sent, whatever clock *)
(* comes back.                                                             *)
Loop_once(to, where, n, clk) ==
  LET away == where = "away" /\ clk # (IF to = "1" THEN "0" ELSE "1")
      hit  == where = "edge"
  IN  [look   |-> IF away \/ hit THEN "away" ELSE "edge",
       cycles |-> IF hit THEN n - 1 ELSE n]

(* The loops of the two clock calls, up to the next READY: wait            *)
(* for the other level, then for the edge.                                 *)
Loop(to, where, n, clk) ==
  LET away == where = "away" /\ clk # (IF to = "1" THEN "0" ELSE "1")
      hit  == where = "edge" /\ clk = to
  IN  [look   |-> IF away \/ hit THEN "away" ELSE "edge",
       cycles |-> IF hit THEN n - 1 ELSE n]

(* Take up where a loop is; it returns when no cycles are left.            *)
InLoop(c, to, l) ==
  /\ goal' = [goal EXCEPT ![c] = to]
  /\ look' = [look EXCEPT ![c] = l.look]
  /\ cycles' = [cycles EXCEPT ![c] = l.cycles]
  /\ pc' = [pc EXCEPT ![c] = IF l.cycles = 0 THEN "idle" ELSE "clock"]

simbus_p2p_clock_posedge(c) ==
  /\ pc[c] = "idle"
  /\ \E n \in 1..MaxCycles : InLoop(c, "1", Loop("1", "away", n, clock[c]))
  /\ UNCHANGED <<regVars, output, clock_mode, busVars, inbox>>

simbus_p2p_clock_negedge(c) ==
  /\ pc[c] = "idle"
  /\ \E n \in 1..MaxCycles : InLoop(c, "0", Loop("0", "away", n, clock[c]))
  /\ UNCHANGED <<regVars, output, clock_mode, busVars, inbox>>

(* send_ready_p2p, up to its wait for the server.                          *)
send_ready_p2p(c) ==
  /\ pc[c] = "clock"
  /\ pc' = [pc EXCEPT ![c] = "sent"]
  /\ UNCHANGED <<callVars, regVars, output, clock_mode, busVars, inbox>>

(* The rest of send_ready_p2p, and the loop's look at the clock.  After    *)
(* FINISH the application leaves.                                          *)
until_received(c) ==
  LET text == until_text(send[c].data)
  IN  /\ c \in inbox
      /\ inbox' = inbox \ {c}
      /\ \/ /\ finished
            /\ pc' = [pc EXCEPT ![c] = "done"]
            /\ UNCHANGED <<callVars, regVars>>
         \/ /\ ~finished
            /\ clock' = [clock EXCEPT ![c] = send[c].clock]
            /\ input' = [input EXCEPT ![c] = until_vector(text, @)]
            /\ IF text = <<>> THEN pc' = [pc EXCEPT ![c] = "aborted"] /\ UNCHANGED callVars
               ELSE InLoop(c, goal[c], Loop(goal[c], look[c], cycles[c], send[c].clock))
      /\ UNCHANGED <<output, clock_mode, busVars>>

(* simbus_p2p_end_simulation of the host, simbus_p2p_disconnect.           *)
simbus_p2p_end_simulation(c) ==
  /\ pc[c] = "idle"
  /\ pc' = [pc EXCEPT ![c] = "done"]
  /\ UNCHANGED <<callVars, regVars, output, clock_mode, busVars, inbox>>

-----------------------------------------------------------------------------
(* The server.                                                             *)

(* Faulty variant: one phase more.                                         *)
advance_bus_clock_five == (phase_ + 1) % 5

advance_bus_clock_ == (phase_ + 1) % 4

bus_clk == IF phase_' \div 2 = 0 THEN "1" ELSE "0"

(* The clock that the device sees.                                         *)
gated(mode, clk) ==
  CASE mode = "RUN" -> clk [] mode = "STOP0" -> "0" [] mode = "STOP1" -> "1"
    [] mode = "STOPZ" -> "z"

slave_clock == gated(master_clock_mode_, bus_clk)

(* Faulty variant: the mode gates the host's clock as well.                *)
master_clock_gated == gated(master_clock_mode_, bus_clk)

master_clock == bus_clk

(* Both are ready, or gone: PointToPoint::run_run within bus_ready.  The   *)
(* mode is read after the clock is set: it counts from the phase after the *)
(* one that its READY ends.                                                *)
run_run ==
  LET data(c) == fitted(received(ready_vector(output[Peer(c)])), BusWidth(Peer(c)))
      clk(c)  == IF c = "host" THEN master_clock ELSE slave_clock
  IN  /\ \A c \in Client : (pc[c] = "sent" /\ c \notin inbox) \/ Gone(c)
      /\ \E c \in Client : ~Gone(c)
      /\ ~finished
      /\ phase_' = advance_bus_clock_
      /\ send' = [c \in Client |-> [clock |-> clk(c), data |-> data(c)]]
      /\ master_clock_mode_' = clock_mode
      /\ finished' = \E c \in Client : Gone(c)
      /\ inbox' = {c \in Client : ~Gone(c)}
      /\ edge' = [c \in Client |-> IF send[c].clock # "1" /\ clk(c) = "1"
                                   THEN output[Peer(c)] ELSE edge[c]]
      /\ UNCHANGED <<pc, callVars, regVars, output, clock_mode>>

Clocking(c) == \/ simbus_p2p_clock_posedge(c) \/ simbus_p2p_clock_negedge(c)
Stopped == (\A c \in Client : Gone(c)) /\ UNCHANGED vars

Next == \/ \E c \in Client : \/ simbus_p2p_out(c) \/ Clocking(c) \/ send_ready_p2p(c)
                             \/ until_received(c) \/ simbus_p2p_end_simulation(c)
        \/ simbus_p2p_clock_mode \/ run_run \/ Stopped

Spec == Init /\ [][Next]_vars

(* The applications keep clocking the bus, and the server serves them.     *)
FairSpec == /\ Spec /\ WF_vars(run_run)
            /\ \A c \in Client : /\ WF_vars(Clocking(c))
                                 /\ WF_vars(send_ready_p2p(c))
                                 /\ WF_vars(until_received(c))

-----------------------------------------------------------------------------
(* Properties                                                              *)

Bit == {"0", "1", "x", "z"}

(* Types of the ends' and the server's state; registers keep their width.  *)
TypeOK ==
  /\ pc \in [Client -> {"idle", "clock", "sent", "done", "aborted"}]
  /\ goal \in [Client -> {"0", "1"}] /\ look \in [Client -> {"away", "edge"}]
  /\ cycles \in [Client -> 0..MaxCycles] /\ clock \in [Client -> Bit]
  /\ output \in [Client -> Seq(Bit)] /\ input \in [Client -> Seq(Bit)]
  /\ edge \in [Client -> Seq(Bit)] /\ send \in [Client -> [clock : Bit \ {"x"}, data : Seq(Bit)]]
  /\ \A c \in Client : /\ Len(output[c]) = OutWidth(c)
                       /\ {Len(input[c]), Len(edge[c])} = {OutWidth(Peer(c))}
                       /\ Len(send[c].data) = BusWidth(Peer(c))
  /\ clock_mode \in Mode /\ master_clock_mode_ \in Mode /\ phase_ \in 0..3
  /\ inbox \subseteq {c \in Client : pc[c] = "sent"} /\ finished \in BOOLEAN

(* simbus_p2p.h, "The data_i is what the client transmitted for the setup  *)
(* time": an end that is back from a posedge reads what the other end had  *)
(* put out when its clock rose, whatever that one has put out since.       *)
ReadsWhatWasSetUp ==
  \A c \in Client : pc[c] = "idle" /\ clock[c] = "1" =>
                      simbus_p2p_in(input[c]) = simbus_p2p_in(edge[c])

(* PointToPoint::run_run, which sets the device's clock before it reads    *)
(* the new mode, with the host's calls, which return at edges: whatever    *)
(* modes the host sets and however often, the device's clock changes only  *)
(* where the host's does, so that a gated clock has no short pulses.       *)
NoShortPulse ==
  [][send'["device"].clock # send["device"].clock
       => send'["host"].clock # send["host"].clock]_vars

(* simbus_p2p.h, clock_mode "will take effect at the next clock phase".    *)
(* The code takes it up one phase later.                                   *)
ModeAtNextPhase ==
  [][phase_' # phase_ /\ ~Gone("host")
       => send'["device"].clock = gated(clock_mode, send'["host"].clock)]_vars

(* point_to_point_protocol.txt, "The master always receives its clock": a  *)
(* call of the host returns whatever the mode and wherever the device is.  *)
HostReturns == pc["host"] = "clock" ~> pc["host"] \in {"idle", "done"}

(* point_to_point_protocol.txt, "Either value may be zero, implying that   *)
(* the vector is not present": no end fails an assertion.                  *)
NeverAborts == \A c \in Client : pc[c] # "aborted"

-----------------------------------------------------------------------------
(* An inductive invariant                                                  *)

(* A call has cycles left, and in its second loop it has seen the other    *)
(* level and not yet the edge.                                             *)
Waiting ==
  \A c \in Client : pc[c] \in {"clock", "sent"} =>
    /\ cycles[c] > 0
    /\ look[c] = "edge" => clock[c] \notin {goal[c], "x"}

(* An end has seen the clock sent to it, but for an UNTIL on its way.      *)
Told ==
  \A c \in Client : ~Gone(c) /\ clock[c] # "x" /\ c \notin inbox => send[c].clock = clock[c]

Calls == TypeOK /\ Waiting /\ Told

(* With the bus as wide as its ends, the UNTIL that raises an end's clock  *)
(* carries what was put out before, and the end back from the edge has it. *)
SameWidths == wid_o_ = width_o /\ wid_i_ = width_i
Caught ==
  \A c \in inbox : clock[c] \notin {"1", "x"} /\ send[c].clock = "1" => edge[c] = send[c].data
SetUp == \A c \in Client : pc[c] = "idle" /\ clock[c] = "1" => input[c] = edge[c]

InvReads == Calls /\ Caught /\ SetUp

(* The host has its clock from the phase; between its calls an edge has    *)
(* just been sent to it, and the mode it asks for meanwhile is taken up in *)
(* the next phase, which is none with an edge.                             *)
HostClock ==
  /\ send["host"].clock = IF phase_ < 2 THEN "1" ELSE "0"
  /\ ~Gone("host") /\ "host" \in inbox =>
       \/ clock["host"] = IF phase_ \in {1, 2} THEN "1" ELSE "0"
       \/ clock["host"] = "x" /\ phase_ = 1
  /\ ~Gone("host") /\ "host" \notin inbox /\ clock["host"] = "x" => phase_ = 0
  /\ pc["host"] = "idle" => phase_ \in {0, 2}
DeviceClock ==
  /\ phase_ \in {0, 2} => send["device"].clock = gated(master_clock_mode_, send["host"].clock)
  /\ phase_ \in {1, 3} => master_clock_mode_ = clock_mode

InvClock == Calls /\ HostClock /\ DeviceClock
=============================================================================
