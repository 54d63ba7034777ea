-------------------------------- MODULE Axi4 --------------------------------
(***************************************************************************)
(* An AXI4 bus: the server (server/AXI4Protocol.cc), the master library    *)
(* (libsimbus/simbus_axi4*.c) and the slave library                        *)
(* (libsimbus/simbus_axi4_slave.c), with an application on either end.     *)
(*                                                                         *)
(* A step of the bus is one phase of the clock; the server runs it when    *)
(* both ends are ready (SimbusServer).  Both libraries act at the posedge, *)
(* the slave at a negedge in reset too.                                    *)
(*                                                                         *)
(* Of the signals those are kept that the libraries look at.  Data is kept *)
(* by lane: the low 32 bits of a word, and the high ones of a 64-bit word. *)
(***************************************************************************)
EXTENDS Integers, Sequences

CONSTANTS
  Addr,           \* addresses that the application uses
  Half,           \* values of 32 bits, as strings; "0" is one of them
  Sizes,          \* widths of the accesses the application makes
  Responses,      \* what the slave's callbacks return
  WidWidth, RidWidth,   \* the widths of the ids, the same at both ends
  TimeLimit,      \* AXI4_RESP_TIMELIMIT
  MaxWait,        \* bound: clocks of a wait, a reset or a settling time
  ResetFirst,     \* whether the application resets the bus before it uses it
  None

OKAY == 0
EXOKAY == 1
SLVERR == 2
DECERR == 3
Bit == {"0", "1", "X", "Z"}

ASSUME Axi4ConstantsOK ==
  /\ "0" \in Half /\ Half \cap {"X", "Z"} = {}
  /\ Sizes \subseteq {8, 16, 32, 64}
  /\ Responses \subseteq OKAY..DECERR
  /\ WidWidth \in 1..64 /\ RidWidth \in 1..64
  /\ TimeLimit \in Nat /\ MaxWait \in Nat \ {0}
  /\ ResetFirst \in BOOLEAN

VARIABLES
  phase,          \* phase_: 0 posedge, 1 hold, 2 negedge, 3 setup
  up,             \* the server has not failed an assertion
  m, s,           \* what master and slave drive (client_signals)
  masterSees, slaveSees,   \* what they have been sent (send_signals)
  todo,           \* ends that have not reacted to this clock edge yet
  aw,             \* slave.waddr, slave.wsize
  at,             \* where the master's application is
  call,           \* the read or write in progress
  left,           \* clocks left of a wait, and of the settling after it
  timer,          \* response_timer
  got,            \* resp_code, and the caller's data
  served,         \* accesses the slave has made since the call began
  result,         \* what the last read or write returned
  wasReset        \* the application has reset the bus

busVars    == <<phase, up, masterSees, slaveSees>>
masterVars == <<m, at, call, left, timer, got, result, wasReset>>
slaveVars  == <<s, aw>>
vars == <<busVars, masterVars, slaveVars, todo, served>>

Lanes(size) == IF size = 64 THEN {"low", "high"} ELSE {"low"}
Undriven == [l \in {"low", "high"} |-> "X"]
Target == [addr : Addr, size : Sizes]

(* init_simbus_axi4, at both ends.                                         *)
MasterOut ==
  [areset_n |-> "1", awvalid |-> "0", aw |-> None, wvalid |-> "0",
   wdata |-> Undriven, bready |-> "0", arvalid |-> "0", ar |-> None, rready |-> "0"]
SlaveOut ==
  [awready |-> "Z", wready |-> "Z", bvalid |-> "Z", bresp |-> <<"Z", "Z">>, bid |-> "Z",
   arready |-> "Z", rvalid |-> "Z", rdata |-> Undriven, rresp |-> <<"Z", "Z">>]

Init ==
  /\ phase = 0 /\ up = TRUE
  /\ m = MasterOut /\ s = SlaveOut /\ masterSees = SlaveOut /\ slaveSees = MasterOut
  /\ todo = {"master"}
  /\ aw = None /\ at = "idle" /\ call = None
  /\ left = <<0, 0>> /\ timer = TimeLimit /\ got = None
  /\ served = <<>> /\ result = None /\ wasReset = FALSE

-----------------------------------------------------------------------------
(* The server.                                                             *)

(* Faulty variant: the clock is not wrapped around.                        *)
advance_bus_clock_on == phase' = phase + 1

advance_bus_clock_ == phase' = (phase + 1) % 4

(* assert(tmp.size() == bits) for AWID, BID, ARID and RID; ARID is         *)
(* compared with the width of the write ids.                               *)
WidthsMatch == RidWidth = WidWidth

(* The master's parsing of an UNTIL.  BID, the fourth signal, is stored at *)
(* bid[wid_width - 1 - 5], in front of the array: with a width of 1 that   *)
(* is awready, which has been parsed already.  The fields other widths hit *)
(* are parsed after it.                                                    *)
Parsed(sent) == IF WidWidth = 1 THEN [sent EXCEPT !.awready = sent.bid] ELSE sent

(* Faulty variant: the master does not wait for the clock to fall first.   *)
EndsAtHigh == CASE phase' = 0 -> {"master", "slave"} [] phase' = 1 -> {"master"}
                [] phase' = 2 -> {"slave"} [] OTHER -> {}

(* Who goes on after this phase: __axi4_next_posedge, simbus_axi4_slave.   *)
EndsAtEdge == CASE phase' = 0 -> {"master", "slave"} [] phase' = 2 -> {"slave"}
                [] OTHER -> {}

run_run ==
  /\ up /\ todo = {} /\ at # "finished"
  /\ advance_bus_clock_
  /\ up' = WidthsMatch
  /\ IF WidthsMatch
     THEN /\ slaveSees' = m
          /\ masterSees' = Parsed(s)
          /\ todo' = EndsAtEdge
     ELSE UNCHANGED <<slaveSees, masterSees, todo>>
  /\ UNCHANGED <<masterVars, slaveVars, served>>

-----------------------------------------------------------------------------
(* The master.                                                             *)

Master == /\ "master" \in todo
          /\ UNCHANGED <<busVars, slaveVars>>
Clocked == todo' = todo \ {"master"}

(* The application may use the bus.                                        *)
Ready == at = "idle" /\ (ResetFirst => wasReset)

(* simbus_axi4_write8 to write64.  Of a 64-bit word the lanes from bit 32  *)
(* up are overwritten with X.                                              *)
simbus_axi4_write ==
  /\ Master /\ Ready
  /\ \E t \in Target : \E d \in [Lanes(t.size) -> Half] :
       /\ call' = [op |-> "write", addr |-> t.addr, size |-> t.size, data |-> d]
       /\ m' = [m EXCEPT !.awvalid = "1", !.aw = t, !.wvalid = "1", !.bready = "1",
                         !.wdata = [Undriven EXCEPT !["low"] = d["low"]]]
       /\ got' = [resp |-> OKAY, data |-> d]
  /\ timer' = TimeLimit
  /\ at' = "write" /\ Clocked
  /\ UNCHANGED <<left, served, result, wasReset>>

simbus_axi4_read ==
  /\ Master /\ Ready
  /\ \E t \in Target :
       /\ call' = [op |-> "read", addr |-> t.addr, size |-> t.size, data |-> None]
       /\ m' = [m EXCEPT !.arvalid = "1", !.ar = t, !.rready = "1"]
       /\ got' = [resp |-> OKAY, data |-> None]
  /\ at' = "read" /\ Clocked
  /\ UNCHANGED <<left, timer, served, result, wasReset>>

(* The reply's two bits, X and Z read as 0.                                *)
RespCode(bits) == (IF bits[1] = "1" THEN 2 ELSE 0) + (IF bits[2] = "1" THEN 1 ELSE 0)
Extract(lanes, size) == [l \in Lanes(size) |-> IF lanes[l] \in Half THEN lanes[l] ELSE "0"]

(* The call goes on at the next posedge, or returns to the application,    *)
(* which goes on at this one.                                              *)
GoOn == Clocked /\ UNCHANGED <<at, call, served, result>>
Return ==
  /\ result' = got'
  /\ at' = "idle" /\ call' = None /\ served' = <<>>
  /\ UNCHANGED todo

(* The loop of wait_for_resp.  Where the wait is given up the response     *)
(* code is set, but the comparison bready == BIT_0 has no effect: the loop *)
(* goes on.  What the timer is below -1 does not matter.                   *)
wait_for_resp ==
  LET address  == m.awvalid = "1" /\ masterSees.awready = "1"
      data     == m.wvalid = "1" /\ masterSees.wready = "1"
      response == m.bready = "1" /\ masterSees.bvalid = "1"
  IN  /\ Master /\ at = "write"
      /\ m' = [m EXCEPT !.awvalid = IF address THEN "0" ELSE @,
                        !.aw      = IF address THEN None ELSE @,
                        !.wvalid  = IF data THEN "0" ELSE @,
                        !.wdata   = IF data THEN Undriven ELSE @,
                        !.bready  = IF response THEN "0" ELSE @]
      /\ timer' = IF m.bready = "1" /\ ~response /\ timer >= 0 THEN timer - 1 ELSE timer
      /\ got' = [got EXCEPT !.resp = IF response THEN RespCode(masterSees.bresp)
                                     ELSE IF m.bready = "1" /\ timer' < 0 THEN SLVERR
                                     ELSE @]
      /\ IF m'.awvalid = "1" \/ m'.wvalid = "1" \/ m'.bready = "1" THEN GoOn ELSE Return
      /\ UNCHANGED <<left, wasReset>>

(* The loop of simbus_axi4_read8 to read64, with raddr_check.              *)
wait_for_read ==
  LET address  == m.arvalid = "1" /\ masterSees.arready = "1"
      response == m.rready = "1" /\ masterSees.rvalid = "1"
  IN  /\ Master /\ at = "read"
      /\ m' = [m EXCEPT !.arvalid = IF address THEN "0" ELSE @,
                        !.ar      = IF address THEN None ELSE @,
                        !.rready  = IF response THEN "0" ELSE @]
      /\ got' = IF response THEN [resp |-> RespCode(masterSees.rresp),
                                  data |-> Extract(masterSees.rdata, call.size)]
                ELSE got
      /\ IF m'.arvalid = "1" \/ m'.rready = "1" THEN GoOn ELSE Return
      /\ UNCHANGED <<left, timer, wasReset>>

(* simbus_axi4_wait, called for its own sake or by simbus_axi4_reset.  The *)
(* library slave drives no interrupt.                                      *)
simbus_axi4_wait ==
  /\ Master /\ at = "idle"
  /\ \E clks \in 1..MaxWait : left' = <<clks, 0>>
  /\ at' = "wait" /\ Clocked
  /\ UNCHANGED <<m, call, timer, got, served, result, wasReset>>

simbus_axi4_reset ==
  /\ Master /\ at = "idle"
  /\ \E width, settle \in 1..MaxWait : left' = <<width, settle>>
  /\ m' = [m EXCEPT !.areset_n = "0"]
  /\ at' = "wait" /\ Clocked
  /\ UNCHANGED <<call, timer, got, served, result, wasReset>>

(* A clock of a wait; the end of a reset's width; the end of the wait.     *)
WaitClock ==
  /\ Master /\ at = "wait"
  /\ \/ /\ left[1] > 1
        /\ left' = [left EXCEPT ![1] = @ - 1]
        /\ Clocked /\ UNCHANGED <<m, at, wasReset>>
     \/ /\ left[1] = 1 /\ left[2] > 0
        /\ left' = <<left[2], 0>>
        /\ m' = [m EXCEPT !.areset_n = "1"]
        /\ wasReset' = TRUE
        /\ Clocked /\ UNCHANGED at
     \/ /\ left = <<1, 0>>
        /\ left' = <<0, 0>>
        /\ at' = "idle"
        /\ UNCHANGED <<todo, m, wasReset>>
  /\ UNCHANGED <<call, timer, got, served, result>>

(* FINISH stops the bus; the slave's process ends with its connection.     *)
simbus_axi4_end_simulation ==
  /\ Master /\ at = "idle"
  /\ at' = "finished" /\ todo' = {}
  /\ UNCHANGED <<m, call, left, timer, got, served, result, wasReset>>

MasterLibrary == wait_for_resp \/ wait_for_read \/ WaitClock
Application == \/ simbus_axi4_write \/ simbus_axi4_read \/ simbus_axi4_wait
               \/ simbus_axi4_reset \/ simbus_axi4_end_simulation

-----------------------------------------------------------------------------
(* The slave.                                                              *)

do_reset ==
  /\ s' = [s EXCEPT !.awready = "1", !.wready = "0", !.bvalid = "0",
                    !.bresp = <<"0", "0">>, !.bid = "0", !.arready = "1",
                    !.rvalid = "0", !.rdata = [l \in DOMAIN @ |-> "0"],
                    !.rresp = <<"0", "0">>]
  /\ UNCHANGED <<aw, served>>

(* resp&1 and resp&2 as values of a bus_bitval_t: 2 is BIT_X.              *)
RespBits(resp) == <<IF resp \in {SLVERR, DECERR} THEN "X" ELSE "0",
                    IF resp \in {EXOKAY, DECERR} THEN "1" ELSE "0">>

(* The callbacks of the device, or the library's own answer to a width it  *)
(* does not serve: what may come of an access.                             *)
write_data(t, lanes) ==
  {[op |-> "write", addr |-> t.addr, size |-> t.size, resp |-> r,
    data |-> Extract(lanes, t.size)] : r \in IF t.size \in {8, 32} THEN Responses
                                             ELSE {SLVERR}}
read_data(t) ==
  IF t.size \in {8, 16, 32}
  THEN [op : {"read"}, addr : {t.addr}, size : {t.size}, resp : Responses,
        data : [Lanes(t.size) -> Half]]
  ELSE [op : {"read"}, addr : {t.addr}, size : {t.size}, resp : {SLVERR}, data : {Undriven}]

(* Faulty variant: AWREADY is not raised again.                            *)
next_awready_low(address, sent) == IF address THEN "0" ELSE s.awready

next_awready(address, sent) ==
  IF sent \/ (~address /\ s.awready = "0" /\ s.wready = "0") THEN "1"
  ELSE IF address THEN "0" ELSE s.awready
next_arready(request, sent) ==
  IF sent THEN "1" ELSE IF request THEN "0" ELSE s.arready

(* What the slave sees of each channel.  ARREADY is tested for being       *)
(* nonzero, which X and Z are.                                             *)
AddressTaken == slaveSees.awvalid = "1" /\ s.awready = "1"
DataTaken    == slaveSees.wvalid = "1" /\ s.wready = "1"
BrespTaken   == s.bvalid = "1" /\ slaveSees.bready = "1"
ReadTaken    == slaveSees.arvalid = "1" /\ s.arready # "0"
RdataTaken   == s.rvalid = "1" /\ slaveSees.rready = "1"

do_slave_machine ==
  /\ aw' = IF AddressTaken THEN slaveSees.aw ELSE aw
  /\ \E w \in IF DataTaken THEN write_data(aw', slaveSees.wdata) ELSE {None},
        r \in IF ReadTaken THEN read_data(slaveSees.ar) ELSE {None} :
       /\ served' = served \o (IF w = None THEN <<>> ELSE <<w>>)
                           \o (IF r = None THEN <<>> ELSE <<r>>)
       /\ s' = [s EXCEPT
            !.awready = next_awready(AddressTaken, BrespTaken),
            !.wready  = IF DataTaken THEN "0" ELSE IF AddressTaken THEN "1" ELSE @,
            !.bvalid  = IF BrespTaken THEN "0" ELSE IF DataTaken THEN "1" ELSE @,
            !.bresp   = IF BrespTaken THEN <<"X", "X">>
                        ELSE IF DataTaken THEN RespBits(w.resp) ELSE @,
            !.arready = next_arready(ReadTaken, RdataTaken),
            !.rvalid  = IF RdataTaken THEN "0" ELSE IF ReadTaken THEN "1" ELSE @,
            !.rdata   = IF ReadTaken THEN [l \in DOMAIN @ |->
                          IF l \in DOMAIN r.data THEN r.data[l] ELSE "X"] ELSE @,
            !.rresp   = IF ReadTaken THEN RespBits(r.resp) ELSE @]

(* The loop of simbus_axi4_slave.                                          *)
simbus_axi4_slave ==
  /\ "slave" \in todo /\ todo' = todo \ {"slave"}
  /\ IF slaveSees.areset_n = "0" THEN do_reset
     ELSE IF phase = 0 THEN do_slave_machine
     ELSE UNCHANGED <<slaveVars, served>>
  /\ UNCHANGED <<busVars, masterVars>>

-----------------------------------------------------------------------------
(* The simulation is over, or its server is.                               *)
Stopped == (at = "finished" \/ ~up) /\ UNCHANGED vars

Next == run_run \/ MasterLibrary \/ Application \/ simbus_axi4_slave \/ Stopped

Spec == Init /\ [][Next]_vars

(* Server and processes run; what the application does is left open.       *)
FairSpec == /\ Spec
            /\ WF_vars(run_run) /\ WF_vars(MasterLibrary) /\ WF_vars(simbus_axi4_slave)

-----------------------------------------------------------------------------
(* Properties                                                              *)

Word(values) == UNION {[Lanes(size) -> values] : size \in Sizes}
Access == [op : {"read", "write"}, addr : Addr, size : Sizes, resp : OKAY..DECERR,
           data : Word(Half) \cup {Undriven}]

MasterSignals ==
  [areset_n : {"0", "1"}, awvalid : {"0", "1"}, aw : Target \cup {None}, wvalid : {"0", "1"},
   wdata : [{"low", "high"} -> Half \cup {"X"}], bready : {"0", "1"}, arvalid : {"0", "1"},
   ar : Target \cup {None}, rready : {"0", "1"}]
SlaveSignals ==
  [awready : Bit, wready : Bit, bvalid : Bit, bresp : Bit \X Bit, bid : Bit, arready : Bit,
   rvalid : Bit, rdata : [{"low", "high"} -> Half \cup {"X"}], rresp : Bit \X Bit]

(* Types of the signals, the master's call and the slave's state.          *)
TypeOK ==
  /\ phase \in 0..3 /\ up \in BOOLEAN /\ todo \subseteq {"master", "slave"}
  /\ {m, slaveSees} \subseteq MasterSignals /\ {s, masterSees} \subseteq SlaveSignals
  /\ aw \in Target \cup {None}
  /\ at \in {"idle", "write", "read", "wait", "finished"}
  /\ left \in (0..MaxWait) \X (0..MaxWait) /\ timer \in -1..TimeLimit
  /\ served \in Seq(Access) /\ wasReset \in BOOLEAN

(* simbus_axi4.h, "These functions write/read a single word": a call makes *)
(* the slave access its device once, with the call's operands, before it   *)
(* returns and not after, and returns what that access gave, also where    *)
(* the wait for the response has been given up on the way.                 *)
Given == IF served = <<>> THEN None
         ELSE IF Len(served) = 1 /\ call # None
                 /\ served[1].op = call.op /\ served[1].addr = call.addr
                 /\ served[1].size = call.size
              THEN [resp |-> served[1].resp, data |-> served[1].data]
              ELSE "wrong access"
Request == [op : {"write"}, addr : Addr, size : Sizes, data : Word(Half)]
             \cup [op : {"read"}, addr : Addr, size : Sizes, data : {None}]
Answer == [resp : OKAY..DECERR, data : Word(Half)]
Abstract == INSTANCE RemoteAccess WITH access <- Given
OneAccessPerCall == Abstract!Spec

ASSUME NoneApart == None \notin Target \cup Access \cup Request \cup Answer

(* simbus_axi4_priv.h, AXI4_RESP_TIMELIMIT: "limit the time (in ACLK) that *)
(* we wait for a response".  The code does not: where the wait is given up *)
(* BREADY stays high and the loop goes on (Axi4Limit.cfg).                 *)
ResponseLimited == at = "write" /\ m.bready = "1" => timer >= 0

(* simbus_axi4.h: a read or write takes "as many clocks as necessary to    *)
(* complete the transaction", and returns.                                 *)
CallReturns == at \in {"write", "read"} ~> at = "idle"

(* simbus_axi4.h: the call returns "the AXI4 response code that completed  *)
(* the transaction".                                                       *)
ResponseReturned ==
  [][call # None /\ call' = None =>
       served # <<>> /\ result'.resp = served[Len(served)].resp]_vars

-----------------------------------------------------------------------------
(* An inductive invariant                                                  *)

(* A valid address is one, and the slave has one when it takes data.       *)
Valid(o) == (o.awvalid = "1" => o.aw # None) /\ (o.arvalid = "1" => o.ar # None)
Addressed ==
  /\ Valid(m) /\ Valid(slaveSees)
  /\ s.wready = "1" => aw # None
Typed == TypeOK /\ Addressed

(* How far a call is: "W0" to "W2" of a write, "R0" and "R1" of a read,    *)
(* "I" between calls and "Z" before the slave has been reset.              *)
Stage == {"Z", "I", "W0", "W1", "W2", "R0", "R1"}
Level(b) == IF b THEN "1" ELSE "0"

MasterAt(k, o) ==
  /\ o.awvalid = Level(k = "W0") /\ o.wvalid = Level(k \in {"W0", "W1"})
  /\ o.bready = Level(k \in {"W0", "W1", "W2"})
  /\ o.arvalid = Level(k = "R0") /\ o.rready = Level(k \in {"R0", "R1"})

SlaveAt(k, o) ==
  IF k = "Z"
  THEN {o.awready, o.wready, o.bvalid, o.arready, o.rvalid} = {"Z"}
  ELSE /\ o.awready = Level(k \notin {"W1", "W2"}) /\ o.wready = Level(k = "W1")
       /\ o.bvalid = Level(k = "W2")
       /\ o.arready = Level(k # "R1") /\ o.rvalid = Level(k = "R1")

(* The stage after a clock edge.                                           *)
After(k) == CASE k = "W0" -> "W1" [] k = "W1" -> "W2" [] k = "R0" -> "R1"
              [] k = "Z" -> "Z" [] OTHER -> "I"

(* What the master at a stage asks for, and what the slave has made of it. *)
Goal == [addr |-> call.addr, size |-> call.size]
Asked(k, o) ==
  /\ k = "W0" => o.aw = Goal
  /\ k \in {"W0", "W1"} => o.wdata["low"] = call.data["low"]
  /\ k = "R0" => o.ar = Goal
Registered(k) == k = "W1" => aw = Goal
Gave(k, o) ==
  IF k \in {"W2", "R1"}
  THEN LET x == served[1]
       IN  /\ Len(served) = 1
           /\ x.op = call.op /\ x.addr = call.addr /\ x.size = call.size
           /\ x.resp \in {OKAY, EXOKAY} /\ x.data \in [{"low"} -> Half]
           /\ k = "W2" => x.data = call.data /\ o.bresp = RespBits(x.resp)
           /\ k = "R1" => o.rdata["low"] = x.data["low"] /\ o.rresp = RespBits(x.resp)
  ELSE served = <<>>

(* Who has still to act at this posedge.                                   *)
MasterToGo == "master" \in todo /\ at \in {"write", "read", "wait"}
SlaveToGo == "slave" \in todo /\ phase = 0

(* The stage of the master, and its call.                                  *)
Calling(j) ==
  /\ at = "write" <=> j \in {"W0", "W1", "W2"}
  /\ at = "read" <=> j \in {"R0", "R1"}
  /\ at \notin {"write", "read"} => call = None
  /\ at \in {"write", "read"} => call \in Request /\ call.op = at
  /\ at = "write" => got \in Answer /\ got.data = call.data
  /\ j = "Z" => ~wasReset

(* Both ends at the same stage, or one of them a step ahead.               *)
Together(k) ==
  /\ Calling(k) /\ MasterAt(k, m) /\ SlaveAt(k, s)
  /\ Asked(k, m) /\ Registered(k) /\ Gave(k, s)
SlaveAhead(k) ==
  LET n == After(k)
  IN  /\ Calling(k) /\ MasterAt(k, m) /\ SlaveAt(k, masterSees) /\ SlaveAt(n, s)
      /\ Asked(n, m) /\ Registered(n)
      /\ IF k \in {"W2", "R1"} THEN Gave(k, masterSees) ELSE Gave(n, s)
MasterAhead(k, j) ==
  /\ Calling(j) /\ MasterAt(j, m) /\ MasterAt(k, slaveSees) /\ SlaveAt(k, s)
  /\ j = After(k) \/ (k \in {"I", "W2", "R1"} /\ j \in {"I", "W0", "R0"})
  /\ Asked(j, m) /\ (k \in {"W0", "W1", "R0"} => Asked(k, slaveSees))
  /\ Registered(k) /\ served = <<>>

Handshake ==
  at # "finished" =>
    /\ ~MasterToGo /\ ~SlaveToGo => \E k \in Stage : Together(k)
    /\ MasterToGo /\ SlaveToGo => masterSees = s /\ \E k \in Stage : Together(k)
    /\ MasterToGo /\ ~SlaveToGo => \E k \in Stage : SlaveAhead(k)
    /\ ~MasterToGo /\ SlaveToGo => \E k, j \in Stage : MasterAhead(k, j)

(* In a reset the slave is free when the master looks at the clock again.  *)
Resets ==
  /\ phase # 0 => "master" \notin todo
  /\ phase # 0 \/ MasterToGo => slaveSees = m \/ at = "finished"
  /\ m.areset_n = "0" <=> at = "wait" /\ left[2] > 0
  /\ at = "wait" => left[1] > 0
  /\ SlaveToGo /\ slaveSees.areset_n = "0" => at = "wait" \/ at = "finished"
  /\ m.areset_n = "0" /\ (phase = 3 \/ (phase = 2 /\ todo = {}) \/ (phase = 0 /\ MasterToGo))
       => SlaveAt("I", s)

(* The use of the libraries that the invariant is about: after a reset,    *)
(* with widths the slave serves, responses without bit 1, and ids of one   *)
(* width greater than 1.                                                   *)
ServedUse ==
  /\ ResetFirst /\ Sizes \subseteq {8, 32} /\ Responses \subseteq {OKAY, EXOKAY}
  /\ WidthsMatch /\ WidWidth > 1

Inv == Typed /\ up /\ Resets /\ Handshake
=============================================================================
