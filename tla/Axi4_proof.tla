------------------------------ MODULE Axi4_proof ------------------------------
(***************************************************************************)
(* Proofs about Axi4: its types for any constants, and, for the use of the *)
(* libraries that ServedUse describes, that a call waits no longer than    *)
(* its limit and that the bus implements RemoteAccess.                     *)
(***************************************************************************)
EXTENDS Axi4, SequenceTheorems, TLAPS

-----------------------------------------------------------------------------
(* Types                                                                   *)

LEMMA TypeInit == Init => Typed
<1> SUFFICES ASSUME Init PROVE Typed
  OBVIOUS
<1> USE Axi4ConstantsOK DEF Axi4ConstantsOK, Init
<1>1. Undriven \in [{"low", "high"} -> Half \cup {"X"}]
  BY DEF Undriven
<1>2. MasterOut \in MasterSignals
  BY <1>1 DEF MasterOut, MasterSignals
<1>3. SlaveOut \in SlaveSignals
  BY <1>1 DEF SlaveOut, SlaveSignals, Bit
<1>4. served \in Seq(Access)
  BY EmptySeq
<1>5. left \in (0..MaxWait) \X (0..MaxWait) /\ timer \in -1..TimeLimit
  OBVIOUS
<1>6. TypeOK
  <2>1. {m, slaveSees} \subseteq MasterSignals /\ {s, masterSees} \subseteq SlaveSignals
    BY <1>2, <1>3
  <2>2. phase \in 0..3
    OBVIOUS
  <2>3. todo \subseteq {"master", "slave"} /\ at \in {"idle", "write", "read", "wait", "finished"}
        /\ aw \in Target \cup {None}
    OBVIOUS
  <2>4. up \in BOOLEAN /\ wasReset \in BOOLEAN
    BY Zenon
  <2> QED
    BY <1>4, <1>5, <2>1, <2>2, <2>3, <2>4 DEF TypeOK
<1> QED
  BY <1>6 DEF Typed, Addressed, Valid, MasterOut, SlaveOut

(* What the slave makes of an access is one.                               *)
LEMMA ExtractType ==
  ASSUME NEW lanes, NEW size \in Sizes
  PROVE  Extract(lanes, size) \in [Lanes(size) -> Half] /\ Extract(lanes, size) \in Word(Half)
<1>1. Extract(lanes, size) \in [Lanes(size) -> Half]
  BY Axi4ConstantsOK DEF Axi4ConstantsOK, Extract
<1> QED
  BY <1>1 DEF Word

LEMMA WriteData ==
  ASSUME NEW t \in Target, NEW lanes, NEW w \in write_data(t, lanes)
  PROVE  /\ w \in Access /\ w # None
         /\ w.op = "write" /\ w.addr = t.addr /\ w.size = t.size
         /\ w.data = Extract(lanes, t.size)
         /\ t.size \in {8, 32} => w.resp \in Responses
<1>1. t.addr \in Addr /\ t.size \in Sizes
  BY DEF Target
<1>2. PICK r \in IF t.size \in {8, 32} THEN Responses ELSE {SLVERR} :
        w = [op |-> "write", addr |-> t.addr, size |-> t.size, resp |-> r,
             data |-> Extract(lanes, t.size)]
  BY DEF write_data
<1>3. r \in OKAY..DECERR
  BY Axi4ConstantsOK DEF Axi4ConstantsOK, OKAY, SLVERR, DECERR
<1>4. w \in Access
  BY <1>1, <1>2, <1>3, ExtractType DEF Access
<1> QED
  BY <1>2, <1>4, NoneApart DEF NoneApart

LEMMA ReadData ==
  ASSUME NEW t \in Target, NEW r \in read_data(t)
  PROVE  /\ r \in Access /\ r # None
         /\ r.op = "read" /\ r.addr = t.addr /\ r.size = t.size
         /\ t.size \in {8, 32} => r.resp \in Responses /\ r.data \in [Lanes(t.size) -> Half]
<1>1. t.addr \in Addr /\ t.size \in Sizes
  BY DEF Target
<1>2. CASE t.size \in {8, 16, 32}
  <2>1. r \in [op : {"read"}, addr : {t.addr}, size : {t.size}, resp : Responses,
               data : [Lanes(t.size) -> Half]]
    BY <1>2 DEF read_data
  <2>2. r.data \in Word(Half)
    BY <1>1, <2>1 DEF Word
  <2>3. r \in Access
    BY <1>1, <2>1, <2>2, Axi4ConstantsOK DEF Axi4ConstantsOK, Access
  <2> QED
    BY <2>1, <2>3, NoneApart DEF NoneApart
<1>3. CASE t.size \notin {8, 16, 32}
  <2>1. r \in [op : {"read"}, addr : {t.addr}, size : {t.size}, resp : {SLVERR}, data : {Undriven}]
    BY <1>3 DEF read_data
  <2>2. r \in Access
    BY <1>1, <2>1 DEF Access, OKAY, SLVERR, DECERR
  <2> QED
    BY <1>3, <2>1, <2>2, NoneApart DEF NoneApart
<1> QED
  BY <1>2, <1>3


LEMMA RespBitsType == \A r : RespBits(r) \in Bit \X Bit
  BY DEF RespBits, Bit

LEMMA ValidAddress ==
  ASSUME Typed
  PROVE  /\ m.awvalid = "1" => m.aw # None
         /\ m.arvalid = "1" => m.ar # None
         /\ slaveSees.awvalid = "1" => slaveSees.aw # None
         /\ slaveSees.arvalid = "1" => slaveSees.ar # None
         /\ s.wready = "1" => aw # None
  BY DEF Typed, Addressed, Valid

(* One edge of the slave's machine.                                        *)
LEMMA MachineType ==
  ASSUME Typed, do_slave_machine
  PROVE  /\ aw' \in Target \cup {None} /\ s' \in SlaveSignals /\ served' \in Seq(Access)
         /\ s'.wready = "1" => aw' # None
<1>0. /\ s \in SlaveSignals /\ slaveSees \in MasterSignals /\ served \in Seq(Access)
      /\ aw \in Target \cup {None}
  BY DEF Typed, TypeOK
<1>1. aw' = IF AddressTaken THEN slaveSees.aw ELSE aw
  BY DEF do_slave_machine
<1>2. aw' \in Target \cup {None}
  BY <1>0, <1>1 DEF MasterSignals
<1>3. AddressTaken \/ s.wready = "1" => aw' # None
  BY <1>1, ValidAddress DEF AddressTaken
<1>4. PICK w \in IF DataTaken THEN write_data(aw', slaveSees.wdata) ELSE {None},
           r \in IF ReadTaken THEN read_data(slaveSees.ar) ELSE {None} :
       /\ served' = served \o (IF w = None THEN <<>> ELSE <<w>>)
                           \o (IF r = None THEN <<>> ELSE <<r>>)
       /\ s' = [s EXCEPT
            !.awready = next_awready(AddressTaken, BrespTaken),
            !.wready  = IF DataTaken THEN "0" ELSE IF AddressTaken THEN "1" ELSE @,
            !.bvalid  = IF BrespTaken THEN "0" ELSE IF DataTaken THEN "1" ELSE @,
            !.bresp   = IF BrespTaken THEN <<"X", "X">>
                        ELSE IF DataTaken THEN RespBits(w.resp) ELSE @,
            !.arready = next_arready(ReadTaken, RdataTaken),
            !.rvalid  = IF RdataTaken THEN "0" ELSE IF ReadTaken THEN "1" ELSE @,
            !.rdata   = IF ReadTaken THEN [l \in DOMAIN @ |->
                          IF l \in DOMAIN r.data THEN r.data[l] ELSE "X"] ELSE @,
            !.rresp   = IF ReadTaken THEN RespBits(r.resp) ELSE @]
  BY DEF do_slave_machine
<1>5. DataTaken => w \in Access
  BY <1>2, <1>3, <1>4, WriteData DEF DataTaken
<1>6. ReadTaken => slaveSees.ar \in Target
  BY <1>0, ValidAddress DEF ReadTaken, MasterSignals
<1>7. ReadTaken => r \in Access
  BY <1>4, <1>6, ReadData
<1>8. served' \in Seq(Access)
  <2>1. (IF w = None THEN <<>> ELSE <<w>>) \in Seq(Access)
    BY <1>4, <1>5, EmptySeq
  <2>2. (IF r = None THEN <<>> ELSE <<r>>) \in Seq(Access)
    BY <1>4, <1>7, EmptySeq
  <2> QED
    BY <1>0, <1>4, <2>1, <2>2, ConcatProperties
<1>9. ReadTaken => [l \in DOMAIN s.rdata |-> IF l \in DOMAIN r.data THEN r.data[l] ELSE "X"]
                     \in [{"low", "high"} -> Half \cup {"X"}]
  <2> SUFFICES ASSUME ReadTaken
               PROVE  [l \in DOMAIN s.rdata |-> IF l \in DOMAIN r.data THEN r.data[l] ELSE "X"]
                        \in [{"low", "high"} -> Half \cup {"X"}]
    OBVIOUS
  <2>1. DOMAIN s.rdata = {"low", "high"}
    BY <1>0 DEF SlaveSignals
  <2>2. r.data \in Word(Half) \cup {Undriven}
    BY <1>7 DEF Access
  <2>3. \A l \in DOMAIN r.data : r.data[l] \in Half \cup {"X"}
    BY <2>2 DEF Word, Undriven
  <2> QED
    BY <2>1, <2>3
<1>10. s' \in SlaveSignals
  <2> DEFINE rd == IF ReadTaken THEN [l \in DOMAIN s.rdata |->
                          IF l \in DOMAIN r.data THEN r.data[l] ELSE "X"] ELSE s.rdata
             br == IF BrespTaken THEN <<"X", "X">>
                   ELSE IF DataTaken THEN RespBits(w.resp) ELSE s.bresp
             rr == IF ReadTaken THEN RespBits(r.resp) ELSE s.rresp
             a  == next_awready(AddressTaken, BrespTaken)
             n  == next_arready(ReadTaken, RdataTaken)
             wr == IF DataTaken THEN "0" ELSE IF AddressTaken THEN "1" ELSE s.wready
             bv == IF BrespTaken THEN "0" ELSE IF DataTaken THEN "1" ELSE s.bvalid
             rv == IF RdataTaken THEN "0" ELSE IF ReadTaken THEN "1" ELSE s.rvalid
  <2>1. rd \in [{"low", "high"} -> Half \cup {"X"}]
    BY <1>0, <1>9 DEF SlaveSignals
  <2>2. br \in Bit \X Bit /\ rr \in Bit \X Bit
    BY <1>0, RespBitsType DEF SlaveSignals, Bit
  <2>3. a \in Bit /\ n \in Bit /\ wr \in Bit /\ bv \in Bit /\ rv \in Bit
    BY <1>0 DEF next_awready, next_arready, SlaveSignals, Bit
  <2>4. s' = [s EXCEPT !.awready = a, !.wready = wr, !.bvalid = bv, !.bresp = br,
                       !.arready = n, !.rvalid = rv, !.rdata = rd, !.rresp = rr]
    BY <1>4
  <2> HIDE DEF rd, br, rr, a, n, wr, bv, rv
  <2> QED
    BY <1>0, <2>1, <2>2, <2>3, <2>4 DEF SlaveSignals
<1>11. s'.wready = IF DataTaken THEN "0" ELSE IF AddressTaken THEN "1" ELSE s.wready
  BY <1>0, <1>4 DEF SlaveSignals
<1> QED
  BY <1>2, <1>3, <1>8, <1>10, <1>11


At == {"idle", "write", "read", "wait", "finished"}

(* A step of the master changes its own signals and state.                 *)
LEMMA MasterType ==
  ASSUME Typed, Master, m' \in MasterSignals, Valid(m)', todo' \subseteq todo, at' \in At,
         left' \in (0..MaxWait) \X (0..MaxWait), timer' \in -1..TimeLimit,
         served' \in {served, <<>>}, wasReset' \in BOOLEAN
  PROVE  Typed'
<1>1. UNCHANGED <<phase, up, masterSees, slaveSees, s, aw>>
  BY DEF Master, busVars, slaveVars
<1>2. served' \in Seq(Access)
  BY EmptySeq DEF Typed, TypeOK
<1>3. TypeOK'
  BY <1>1, <1>2 DEF Typed, TypeOK, At
<1> QED
  BY <1>1, <1>3 DEF Typed, Addressed, Valid

LEMMA MasterTypes ==
  ASSUME Typed, MasterLibrary \/ Application
  PROVE  Typed'
<1>0. /\ m \in MasterSignals /\ Valid(m) /\ left \in (0..MaxWait) \X (0..MaxWait)
      /\ timer \in -1..TimeLimit /\ at \in At /\ wasReset \in BOOLEAN
  BY DEF Typed, TypeOK, Addressed, At
<1>1. CASE simbus_axi4_write
  <2>1. PICK t \in Target : \E d \in [Lanes(t.size) -> Half] :
          m' = [m EXCEPT !.awvalid = "1", !.aw = t, !.wvalid = "1", !.bready = "1",
                         !.wdata = [Undriven EXCEPT !["low"] = d["low"]]]
    BY <1>1 DEF simbus_axi4_write
  <2>2. PICK d \in [Lanes(t.size) -> Half] :
          m' = [m EXCEPT !.awvalid = "1", !.aw = t, !.wvalid = "1", !.bready = "1",
                         !.wdata = [Undriven EXCEPT !["low"] = d["low"]]]
    BY <2>1
  <2>3. [Undriven EXCEPT !["low"] = d["low"]] \in [{"low", "high"} -> Half \cup {"X"}]
    BY DEF Undriven, Lanes
  <2>4. m' \in MasterSignals /\ t # None
    BY <1>0, <2>2, <2>3, NoneApart DEF MasterSignals, NoneApart
  <2>5. Valid(m)'
    BY <1>0, <2>2, <2>4 DEF MasterSignals, Valid
  <2>6. todo' \subseteq todo /\ at' = "write" /\ timer' = TimeLimit /\ UNCHANGED <<left, served, wasReset>>
    BY <1>1 DEF simbus_axi4_write, Clocked
  <2>7. timer' \in -1..TimeLimit
    BY <2>6, Axi4ConstantsOK DEF Axi4ConstantsOK
  <2> QED
    BY <1>0, <1>1, <2>4, <2>5, <2>6, <2>7, MasterType DEF simbus_axi4_write, At
<1>2. CASE simbus_axi4_read
  <2>1. PICK t \in Target : m' = [m EXCEPT !.arvalid = "1", !.ar = t, !.rready = "1"]
    BY <1>2 DEF simbus_axi4_read
  <2>2. m' \in MasterSignals /\ t # None
    BY <1>0, <2>1, NoneApart DEF MasterSignals, NoneApart
  <2>3. Valid(m)'
    BY <1>0, <2>1, <2>2 DEF MasterSignals, Valid
  <2>4. todo' \subseteq todo /\ at' = "read" /\ UNCHANGED <<left, timer, served, wasReset>>
    BY <1>2 DEF simbus_axi4_read, Clocked
  <2> QED
    BY <1>0, <1>2, <2>2, <2>3, <2>4, MasterType DEF simbus_axi4_read, At
<1>3. CASE wait_for_resp
  <2> DEFINE address  == m.awvalid = "1" /\ masterSees.awready = "1"
             data     == m.wvalid = "1" /\ masterSees.wready = "1"
             response == m.bready = "1" /\ masterSees.bvalid = "1"
  <2>1. m' = [m EXCEPT !.awvalid = IF address THEN "0" ELSE @,
                       !.aw      = IF address THEN None ELSE @,
                       !.wvalid  = IF data THEN "0" ELSE @,
                       !.wdata   = IF data THEN Undriven ELSE @,
                       !.bready  = IF response THEN "0" ELSE @]
    BY <1>3 DEF wait_for_resp
  <2>2. Undriven \in [{"low", "high"} -> Half \cup {"X"}]
    BY DEF Undriven
  <2>3. timer' \in -1..TimeLimit
    BY <1>0, <1>3, Axi4ConstantsOK DEF wait_for_resp, Axi4ConstantsOK
  <2>4. todo' \subseteq todo /\ at' \in {at, "idle"} /\ served' \in {served, <<>>} /\ UNCHANGED <<left, wasReset>>
    BY <1>3 DEF wait_for_resp, GoOn, Clocked, Return
  <2> HIDE DEF address, data, response
  <2>5. m' \in MasterSignals
    BY <1>0, <2>1, <2>2, ZenonT(30) DEF MasterSignals
  <2>6. Valid(m)'
    BY <1>0, <2>1 DEF MasterSignals, Valid
  <2> QED
    BY <1>0, <1>3, <2>3, <2>4, <2>5, <2>6, MasterType DEF wait_for_resp, At
<1>4. CASE wait_for_read
  <2> DEFINE address  == m.arvalid = "1" /\ masterSees.arready = "1"
             response == m.rready = "1" /\ masterSees.rvalid = "1"
  <2>1. m' = [m EXCEPT !.arvalid = IF address THEN "0" ELSE @,
                       !.ar      = IF address THEN None ELSE @,
                       !.rready  = IF response THEN "0" ELSE @]
    BY <1>4 DEF wait_for_read
  <2>2. todo' \subseteq todo /\ at' \in {at, "idle"} /\ served' \in {served, <<>>}
        /\ UNCHANGED <<left, timer, wasReset>>
    BY <1>4 DEF wait_for_read, GoOn, Clocked, Return
  <2> HIDE DEF address, response
  <2>3. m' \in MasterSignals
    BY <1>0, <2>1 DEF MasterSignals
  <2>4. Valid(m)'
    BY <1>0, <2>1 DEF MasterSignals, Valid
  <2> QED
    BY <1>0, <1>4, <2>2, <2>3, <2>4, MasterType DEF wait_for_read, At
<1>5. CASE simbus_axi4_wait
  <2>1. left' \in (0..MaxWait) \X (0..MaxWait)
    BY <1>5, Axi4ConstantsOK DEF simbus_axi4_wait, Axi4ConstantsOK
  <2>2. todo' \subseteq todo /\ at' = "wait" /\ UNCHANGED <<m, timer, served, wasReset>>
    BY <1>5 DEF simbus_axi4_wait, Clocked
  <2> QED
    BY <1>0, <1>5, <2>1, <2>2, MasterType DEF simbus_axi4_wait, Valid, At
<1>6. CASE simbus_axi4_reset
  <2>1. left' \in (0..MaxWait) \X (0..MaxWait)
    BY <1>6, Axi4ConstantsOK DEF simbus_axi4_reset, Axi4ConstantsOK
  <2>2. todo' \subseteq todo /\ at' = "wait" /\ UNCHANGED <<timer, served, wasReset>>
        /\ m' = [m EXCEPT !.areset_n = "0"]
    BY <1>6 DEF simbus_axi4_reset, Clocked
  <2>3. m' \in MasterSignals
    BY <1>0, <2>2 DEF MasterSignals
  <2>4. Valid(m)'
    BY <1>0, <2>2 DEF MasterSignals, Valid
  <2> QED
    BY <1>0, <1>6, <2>1, <2>2, <2>3, <2>4, MasterType DEF simbus_axi4_reset, At
<1>7. CASE WaitClock
  <2>1. left' \in (0..MaxWait) \X (0..MaxWait)
    BY <1>0, <1>7, Axi4ConstantsOK DEF WaitClock, Axi4ConstantsOK
  <2>2. m' \in {m, [m EXCEPT !.areset_n = "1"]} /\ wasReset' \in {wasReset, TRUE}
        /\ at' \in {at, "idle"} /\ todo' \subseteq todo /\ UNCHANGED <<timer, served>>
    BY <1>7 DEF WaitClock, Clocked
  <2>3. m' \in MasterSignals
    BY <1>0, <2>2 DEF MasterSignals
  <2>4. Valid(m)'
    BY <1>0, <2>2 DEF MasterSignals, Valid
  <2> QED
    BY <1>0, <1>7, <2>1, <2>2, <2>3, <2>4, MasterType DEF WaitClock, At
<1>8. CASE simbus_axi4_end_simulation
  BY <1>0, <1>8, MasterType DEF simbus_axi4_end_simulation, Valid, At
<1> QED
  BY <1>1, <1>2, <1>3, <1>4, <1>5, <1>6, <1>7, <1>8 DEF MasterLibrary, Application

LEMMA TypeStep == Typed /\ [Next]_vars => Typed'
<1> SUFFICES ASSUME Typed, [Next]_vars PROVE Typed'
  OBVIOUS
<1>1. CASE run_run
  <2>1. UNCHANGED <<m, s, aw, at, left, timer, served, wasReset>>
    BY <1>1 DEF run_run, masterVars, slaveVars
  <2>2. phase' \in 0..3 /\ up' \in BOOLEAN
    BY <1>1 DEF run_run, advance_bus_clock_, WidthsMatch, Typed, TypeOK
  <2>3. slaveSees' \in {m, slaveSees} /\ masterSees' \in {Parsed(s), masterSees}
    BY <1>1 DEF run_run
  <2>4. Parsed(s) \in SlaveSignals
    BY DEF Parsed, Typed, TypeOK, SlaveSignals
  <2>5. todo' \subseteq {"master", "slave"}
    BY <1>1 DEF run_run, EndsAtEdge, Typed, TypeOK
  <2>6. TypeOK'
    BY <2>1, <2>2, <2>3, <2>4, <2>5 DEF Typed, TypeOK
  <2> QED
    BY <2>1, <2>3, <2>6 DEF Typed, Addressed, Valid
<1>2. CASE MasterLibrary \/ Application
  BY <1>2, MasterTypes
<1>3. CASE simbus_axi4_slave
  <2>1. UNCHANGED <<phase, up, masterSees, slaveSees, m, at, left, timer, wasReset>>
        /\ todo' \subseteq todo
    BY <1>3 DEF simbus_axi4_slave, busVars, masterVars
  <2>2. /\ aw' \in Target \cup {None} /\ s' \in SlaveSignals /\ served' \in Seq(Access)
        /\ s'.wready = "1" => aw' # None
    <3>1. CASE do_reset
      <4>1. /\ s' = [s EXCEPT !.awready = "1", !.wready = "0", !.bvalid = "0",
                              !.bresp = <<"0", "0">>, !.bid = "0", !.arready = "1",
                              !.rvalid = "0", !.rdata = [l \in DOMAIN s.rdata |-> "0"],
                              !.rresp = <<"0", "0">>]
            /\ UNCHANGED <<aw, served>>
        BY <3>1 DEF do_reset
      <4>2. s \in SlaveSignals
        BY DEF Typed, TypeOK
      <4>3. [l \in DOMAIN s.rdata |-> "0"] \in [{"low", "high"} -> Half \cup {"X"}]
        BY <4>2, Axi4ConstantsOK DEF SlaveSignals, Axi4ConstantsOK
      <4>4. s' \in SlaveSignals /\ s'.wready = "0"
        BY <4>1, <4>2, <4>3 DEF SlaveSignals, Bit
      <4> QED
        BY <4>1, <4>4 DEF Typed, TypeOK
    <3>2. CASE do_slave_machine
      BY <3>2, MachineType
    <3>3. CASE UNCHANGED <<slaveVars, served>>
      BY <3>3 DEF Typed, TypeOK, Addressed, slaveVars
    <3> QED
      BY <1>3, <3>1, <3>2, <3>3 DEF simbus_axi4_slave
  <2>3. TypeOK'
    BY <2>1, <2>2 DEF Typed, TypeOK
  <2> QED
    BY <2>1, <2>2, <2>3 DEF Typed, Addressed, Valid
<1>4. CASE UNCHANGED vars
  BY <1>4 DEF vars, busVars, masterVars, slaveVars, Typed, TypeOK, Addressed, Valid
<1> QED
  BY <1>1, <1>2, <1>3, <1>4 DEF Next, Stopped

(* The types are right in every state, for any addresses, widths, limits   *)
(* and responses: among them the signals, the accesses that the slave      *)
(* makes and the timer.                                                    *)
THEOREM TypeCorrect == Spec => []TypeOK
<1>1. Typed => TypeOK
  BY DEF Typed
<1> QED
  BY <1>1, TypeInit, TypeStep, PTL DEF Spec


-----------------------------------------------------------------------------
(* One clock edge                                                          *)

LEMMA AfterStages ==
  /\ After("Z") = "Z" /\ After("I") = "I" /\ After("W0") = "W1" /\ After("W1") = "W2"
  /\ After("W2") = "I" /\ After("R0") = "R1" /\ After("R1") = "I"
  BY DEF After

(* A reset frees the slave.                                                *)
LEMMA ResetEdge ==
  ASSUME Typed, do_reset
  PROVE  SlaveAt("I", s') /\ UNCHANGED <<aw, served>>
  BY DEF do_reset, SlaveAt, Level, Typed, TypeOK, SlaveSignals

(* What the slave takes at each stage.                                     *)
LEMMA SlaveTakes ==
  ASSUME NEW k \in Stage, MasterAt(k, slaveSees), SlaveAt(k, s)
  PROVE  /\ AddressTaken <=> k = "W0"
         /\ DataTaken <=> k = "W1"
         /\ BrespTaken <=> k = "W2"
         /\ ReadTaken <=> k = "R0"
         /\ RdataTaken <=> k = "R1"
<1> USE DEF AddressTaken, DataTaken, BrespTaken, ReadTaken, RdataTaken, MasterAt, SlaveAt, Level
<1>1. CASE k = "Z"
  BY <1>1
<1>2. CASE k = "I"
  BY <1>2
<1>3. CASE k = "W0"
  BY <1>3
<1>4. CASE k = "W1"
  BY <1>4
<1>5. CASE k = "W2"
  BY <1>5
<1>6. CASE k = "R0"
  BY <1>6
<1>7. CASE k = "R1"
  BY <1>7
<1> QED
  BY <1>1, <1>2, <1>3, <1>4, <1>5, <1>6, <1>7 DEF Stage

LEMMA SlaveEdge ==
  ASSUME Typed, do_slave_machine, NEW k \in Stage, MasterAt(k, slaveSees), SlaveAt(k, s),
         served = <<>> \/ k \notin {"W1", "R0"}
  PROVE  /\ SlaveAt(After(k), s')
         /\ aw' = IF k = "W0" THEN slaveSees.aw ELSE aw
         /\ k \notin {"W1", "R0"} => UNCHANGED served
         /\ k = "W1" => /\ aw \in Target
                        /\ \E w \in write_data(aw, slaveSees.wdata) :
                             served' = <<w>> /\ s'.bresp = RespBits(w.resp)
         /\ k = "R0" => /\ slaveSees.ar \in Target
                        /\ \E r \in read_data(slaveSees.ar) :
                             /\ served' = <<r>> /\ s'.rresp = RespBits(r.resp)
                             /\ "low" \in DOMAIN r.data => s'.rdata["low"] = r.data["low"]
<1>0. /\ s \in SlaveSignals /\ slaveSees \in MasterSignals /\ served \in Seq(Access)
      /\ aw \in Target \cup {None}
  BY DEF Typed, TypeOK
<1>1. aw' = IF k = "W0" THEN slaveSees.aw ELSE aw
  BY SlaveTakes DEF do_slave_machine
<1>2. PICK w \in IF k = "W1" THEN write_data(aw', slaveSees.wdata) ELSE {None},
           r \in IF k = "R0" THEN read_data(slaveSees.ar) ELSE {None} :
       /\ served' = served \o (IF w = None THEN <<>> ELSE <<w>>)
                           \o (IF r = None THEN <<>> ELSE <<r>>)
       /\ s' = [s EXCEPT
            !.awready = next_awready(k = "W0", k = "W2"),
            !.wready  = IF k = "W1" THEN "0" ELSE IF k = "W0" THEN "1" ELSE @,
            !.bvalid  = IF k = "W2" THEN "0" ELSE IF k = "W1" THEN "1" ELSE @,
            !.bresp   = IF k = "W2" THEN <<"X", "X">>
                        ELSE IF k = "W1" THEN RespBits(w.resp) ELSE @,
            !.arready = next_arready(k = "R0", k = "R1"),
            !.rvalid  = IF k = "R1" THEN "0" ELSE IF k = "R0" THEN "1" ELSE @,
            !.rdata   = IF k = "R0" THEN [l \in DOMAIN @ |->
                          IF l \in DOMAIN r.data THEN r.data[l] ELSE "X"] ELSE @,
            !.rresp   = IF k = "R0" THEN RespBits(r.resp) ELSE @]
  <2>1. AddressTaken = (k = "W0") /\ BrespTaken = (k = "W2") /\ DataTaken = (k = "W1")
        /\ ReadTaken = (k = "R0") /\ RdataTaken = (k = "R1")
    BY SlaveTakes DEF AddressTaken, BrespTaken, DataTaken, ReadTaken, RdataTaken
  <2> QED
    BY <2>1, ZenonT(30) DEF do_slave_machine, next_awready, next_arready
<1>3. /\ s'.awready = next_awready(k = "W0", k = "W2")
      /\ s'.wready = IF k = "W1" THEN "0" ELSE IF k = "W0" THEN "1" ELSE s.wready
      /\ s'.bvalid = IF k = "W2" THEN "0" ELSE IF k = "W1" THEN "1" ELSE s.bvalid
      /\ s'.arready = next_arready(k = "R0", k = "R1")
      /\ s'.rvalid = IF k = "R1" THEN "0" ELSE IF k = "R0" THEN "1" ELSE s.rvalid
      /\ k = "W1" => s'.bresp = RespBits(w.resp)
      /\ k = "R0" => s'.rresp = RespBits(r.resp)
  BY <1>0, <1>2 DEF SlaveSignals
<1>4. k = "R0" /\ "low" \in DOMAIN r.data => s'.rdata["low"] = r.data["low"]
  BY <1>0, <1>2 DEF SlaveSignals
<1>5. SlaveAt(After(k), s')
  <2> USE <1>3, AfterStages DEF SlaveAt, Level, next_awready, next_arready
  <2>1. CASE k = "Z"
    BY <2>1
  <2>2. CASE k = "I"
    BY <2>2
  <2>3. CASE k = "W0"
    BY <2>3
  <2>4. CASE k = "W1"
    BY <2>4
  <2>5. CASE k = "W2"
    BY <2>5
  <2>6. CASE k = "R0"
    BY <2>6
  <2>7. CASE k = "R1"
    BY <2>7
  <2> QED
    BY <2>1, <2>2, <2>3, <2>4, <2>5, <2>6, <2>7 DEF Stage
<1>6. ASSUME k = "W1" PROVE aw \in Target /\ w \in write_data(aw, slaveSees.wdata) /\ served' = <<w>>
  <2>1. aw \in Target
    BY <1>0, <1>6, ValidAddress DEF SlaveAt, Level
  <2>2. w \in write_data(aw, slaveSees.wdata) /\ w \in Access /\ w # None /\ r = None
    BY <1>1, <1>2, <1>6, <2>1, WriteData
  <2>3. served' = <<>> \o <<w>> \o <<>>
    BY <1>2, <1>6, <2>2
  <2> QED
    BY <2>1, <2>2, <2>3, ConcatEmptySeq
<1>7. ASSUME k = "R0"
      PROVE  slaveSees.ar \in Target /\ r \in read_data(slaveSees.ar) /\ served' = <<r>>
  <2>1. slaveSees.ar \in Target
    BY <1>0, <1>7, ValidAddress DEF MasterAt, Level, MasterSignals
  <2>2. r \in read_data(slaveSees.ar) /\ r \in Access /\ r # None /\ w = None
    BY <1>2, <1>7, <2>1, ReadData
  <2>3. served' = <<>> \o <<>> \o <<r>>
    BY <1>2, <1>7, <2>2
  <2> QED
    BY <2>1, <2>2, <2>3, ConcatEmptySeq
<1>8. k \notin {"W1", "R0"} => UNCHANGED served
  <2> SUFFICES ASSUME k \notin {"W1", "R0"} PROVE UNCHANGED served
    OBVIOUS
  <2>1. served' = served \o <<>> \o <<>>
    BY <1>2
  <2> QED
    BY <1>0, <2>1, ConcatEmptySeq
<1> QED
  BY <1>1, <1>3, <1>4, <1>5, <1>6, <1>7, <1>8

(* The response of a call comes through as it was given.                   *)
LEMMA RespRoundTrip == \A r \in {OKAY, EXOKAY} : RespCode(RespBits(r)) = r
  BY DEF RespCode, RespBits, OKAY, EXOKAY, SLVERR, DECERR

(* An edge of a write, and of a read, at the master.                       *)
LEMMA WriteEdge ==
  ASSUME Typed, wait_for_resp, NEW k \in {"W0", "W1", "W2"},
         MasterAt(k, m), SlaveAt(k, masterSees), got \in Answer
  PROVE  /\ MasterAt(After(k), m') /\ m'.areset_n = m.areset_n
         /\ k = "W0" => m'.wdata = m.wdata
         /\ k # "W2" => GoOn /\ got' \in Answer /\ got'.data = got.data
         /\ k = "W2" => Return /\ got' = [resp |-> RespCode(masterSees.bresp), data |-> got.data]
<1> DEFINE address  == m.awvalid = "1" /\ masterSees.awready = "1"
           data     == m.wvalid = "1" /\ masterSees.wready = "1"
           response == m.bready = "1" /\ masterSees.bvalid = "1"
<1>0. m \in MasterSignals
  BY DEF Typed, TypeOK
<1>1. /\ m' = [m EXCEPT !.awvalid = IF address THEN "0" ELSE @,
                        !.aw      = IF address THEN None ELSE @,
                        !.wvalid  = IF data THEN "0" ELSE @,
                        !.wdata   = IF data THEN Undriven ELSE @,
                        !.bready  = IF response THEN "0" ELSE @]
      /\ got' = [got EXCEPT !.resp = IF response THEN RespCode(masterSees.bresp)
                                     ELSE IF m.bready = "1" /\ timer' < 0 THEN SLVERR
                                     ELSE @]
      /\ IF m'.awvalid = "1" \/ m'.wvalid = "1" \/ m'.bready = "1" THEN GoOn ELSE Return
  BY DEF wait_for_resp
<1>2. (address <=> k = "W0") /\ (data <=> k = "W1") /\ (response <=> k = "W2")
  <2>1. CASE k = "W0"
    BY <2>1 DEF MasterAt, SlaveAt, Level
  <2>2. CASE k = "W1"
    BY <2>2 DEF MasterAt, SlaveAt, Level
  <2>3. CASE k = "W2"
    BY <2>3 DEF MasterAt, SlaveAt, Level
  <2> QED
    BY <2>1, <2>2, <2>3
<1> HIDE DEF address, data, response
<1>3. /\ m'.awvalid = IF k = "W0" THEN "0" ELSE m.awvalid
      /\ m'.wvalid = IF k = "W1" THEN "0" ELSE m.wvalid
      /\ m'.bready = IF k = "W2" THEN "0" ELSE m.bready
      /\ m'.arvalid = m.arvalid /\ m'.rready = m.rready /\ m'.areset_n = m.areset_n
      /\ k = "W0" => m'.wdata = m.wdata
  BY <1>0, <1>1, <1>2 DEF MasterSignals
<1>4. MasterAt(After(k), m')
  <2>1. CASE k = "W0"
    BY <1>3, <2>1, AfterStages DEF MasterAt, Level
  <2>2. CASE k = "W1"
    BY <1>3, <2>2, AfterStages DEF MasterAt, Level
  <2>3. CASE k = "W2"
    BY <1>3, <2>3, AfterStages DEF MasterAt, Level
  <2> QED
    BY <2>1, <2>2, <2>3
<1>5. m.bready = "1"
  BY DEF MasterAt, Level
<1>6. ASSUME k # "W2" PROVE GoOn /\ got' \in Answer /\ got'.data = got.data
  <2>1. \E r \in {got.resp, SLVERR} : got' = [got EXCEPT !.resp = r]
    BY <1>1, <1>2, <1>6
  <2>2. got' \in Answer /\ got'.data = got.data
    BY <2>1 DEF Answer, SLVERR, OKAY, DECERR
  <2> QED
    BY <1>1, <1>3, <1>5, <1>6, <2>2
<1>7. ASSUME k = "W2"
      PROVE  Return /\ got' = [resp |-> RespCode(masterSees.bresp), data |-> got.data]
  <2>1. Return
    BY <1>1, <1>3, <1>7 DEF MasterAt, Level
  <2>2. got' = [got EXCEPT !.resp = RespCode(masterSees.bresp)]
    BY <1>1, <1>2, <1>7
  <2> QED
    BY <2>1, <2>2 DEF Answer
<1> QED
  BY <1>3, <1>4, <1>6, <1>7

LEMMA ReadEdge ==
  ASSUME Typed, wait_for_read, NEW k \in {"R0", "R1"}, MasterAt(k, m), SlaveAt(k, masterSees)
  PROVE  /\ MasterAt(After(k), m') /\ m'.areset_n = m.areset_n
         /\ k = "R0" => GoOn
         /\ k = "R1" => Return /\ got' = [resp |-> RespCode(masterSees.rresp),
                                          data |-> Extract(masterSees.rdata, call.size)]
<1> DEFINE address  == m.arvalid = "1" /\ masterSees.arready = "1"
           response == m.rready = "1" /\ masterSees.rvalid = "1"
<1>0. m \in MasterSignals
  BY DEF Typed, TypeOK
<1>1. /\ m' = [m EXCEPT !.arvalid = IF address THEN "0" ELSE @,
                        !.ar      = IF address THEN None ELSE @,
                        !.rready  = IF response THEN "0" ELSE @]
      /\ got' = IF response THEN [resp |-> RespCode(masterSees.rresp),
                                  data |-> Extract(masterSees.rdata, call.size)]
                ELSE got
      /\ IF m'.arvalid = "1" \/ m'.rready = "1" THEN GoOn ELSE Return
  BY DEF wait_for_read
<1>2. (address <=> k = "R0") /\ (response <=> k = "R1")
  BY DEF MasterAt, SlaveAt, Level
<1> HIDE DEF address, response
<1>3. /\ m'.arvalid = "0" /\ m'.rready = IF k = "R1" THEN "0" ELSE "1"
      /\ m'.awvalid = "0" /\ m'.wvalid = "0" /\ m'.bready = "0" /\ m'.areset_n = m.areset_n
  BY <1>0, <1>1, <1>2 DEF MasterSignals, MasterAt, Level
<1>4. MasterAt(After(k), m')
  BY <1>3, AfterStages DEF MasterAt, Level
<1> QED
  BY <1>1, <1>2, <1>3, <1>4


-----------------------------------------------------------------------------
(* The invariant                                                           *)

LEMMA InvInit ==
  ASSUME ServedUse
  PROVE  Init => Inv
<1> SUFFICES ASSUME Init PROVE Inv
  OBVIOUS
<1>1. Typed /\ up
  BY TypeInit DEF Init
<1>2. Resets
  BY DEF Init, Resets, MasterToGo, SlaveToGo, MasterOut
<1>3. Together("Z")
  BY DEF Init, Together, Calling, MasterAt, SlaveAt, Level, Asked, Registered, Gave, MasterOut, SlaveOut
<1>4. ~MasterToGo /\ ~SlaveToGo /\ "Z" \in Stage
  BY DEF Init, MasterToGo, SlaveToGo, Stage
<1> QED
  BY <1>1, <1>2, <1>3, <1>4 DEF Inv, Handshake

(* A step of the master is one of phase 0.                                 *)
LEMMA AtPosedge ==
  ASSUME Inv, Master
  PROVE  /\ phase = 0 /\ UNCHANGED <<phase, up, masterSees, slaveSees, s, aw>>
         /\ m.areset_n = "1" <=> ~(at = "wait" /\ left[2] > 0)
         /\ MasterToGo => slaveSees = m
  BY DEF Inv, Resets, Master, busVars, slaveVars, MasterToGo, Typed, TypeOK, MasterSignals

(* A step of a call, from its first to its last, in a reset has no part.   *)
LEMMA CallNoReset ==
  ASSUME Inv, Master, at \in {"idle", "write", "read"}, at' \in {"idle", "write", "read"},
         m'.areset_n = m.areset_n, todo' = todo \ {"master"} \/ (todo' = todo /\ at' = "idle")
  PROVE  Resets' /\ ~MasterToGo' /\ (SlaveToGo' <=> SlaveToGo)
<1>1. /\ phase = 0 /\ UNCHANGED <<phase, slaveSees>> /\ m'.areset_n = "1"
  BY AtPosedge
<1>2. ~MasterToGo' /\ (SlaveToGo' <=> SlaveToGo)
  BY <1>1 DEF MasterToGo, SlaveToGo
<1>3. SlaveToGo => slaveSees.areset_n # "0"
  BY DEF Inv, Resets
<1> QED
  BY <1>1, <1>2, <1>3 DEF Resets

LEMMA CallBegins ==
  ASSUME ServedUse, Inv, simbus_axi4_write \/ simbus_axi4_read
  PROVE  Resets' /\ Handshake'
<1>1. /\ Master /\ at = "idle" /\ wasReset /\ todo' = todo \ {"master"}
      /\ UNCHANGED <<served, wasReset>> /\ at' \in {"write", "read"}
  BY DEF simbus_axi4_write, simbus_axi4_read, Ready, Clocked, ServedUse
<1>2. ~MasterToGo
  BY <1>1 DEF MasterToGo
<1>3. /\ m \in MasterSignals
      /\ UNCHANGED <<phase, s, slaveSees, masterSees, aw>>
  BY <1>1, AtPosedge DEF Inv, Typed, TypeOK
<1>w. PICK n \in {"W0", "R0"} : n = "W0" <=> at' = "write"
  BY <1>1
<1>4. /\ m'.areset_n = m.areset_n
      /\ MasterAt("I", m) => MasterAt(n, m')
      /\ call' \in Request /\ call'.op = at' /\ Asked(n, m)'
      /\ at' = "write" => got' \in Answer /\ got'.data = call'.data
  <2>1. CASE simbus_axi4_write
    <3>1. PICK t \in Target : \E d \in [Lanes(t.size) -> Half] :
            /\ call' = [op |-> "write", addr |-> t.addr, size |-> t.size, data |-> d]
            /\ m' = [m EXCEPT !.awvalid = "1", !.aw = t, !.wvalid = "1", !.bready = "1",
                              !.wdata = [Undriven EXCEPT !["low"] = d["low"]]]
            /\ got' = [resp |-> OKAY, data |-> d]
      BY <2>1 DEF simbus_axi4_write
    <3>2. PICK d \in [Lanes(t.size) -> Half] :
            /\ call' = [op |-> "write", addr |-> t.addr, size |-> t.size, data |-> d]
            /\ m' = [m EXCEPT !.awvalid = "1", !.aw = t, !.wvalid = "1", !.bready = "1",
                              !.wdata = [Undriven EXCEPT !["low"] = d["low"]]]
            /\ got' = [resp |-> OKAY, data |-> d]
      BY <3>1
    <3>3. at' = "write"
      BY <2>1 DEF simbus_axi4_write
    <3>4. t.addr \in Addr /\ t.size \in Sizes /\ t = [addr |-> t.addr, size |-> t.size]
      BY DEF Target
    <3>5. d \in Word(Half)
      BY <3>4 DEF Word
    <3>6. call' \in Request /\ got' \in Answer /\ got'.data = call'.data /\ call'.op = "write"
      BY <3>2, <3>4, <3>5 DEF Request, Answer, OKAY, DECERR
    <3>7. /\ m'.areset_n = m.areset_n /\ m'.awvalid = "1" /\ m'.aw = t /\ m'.wvalid = "1"
          /\ m'.bready = "1" /\ m'.arvalid = m.arvalid /\ m'.rready = m.rready
          /\ m'.wdata["low"] = d["low"]
      BY <1>3, <3>2 DEF MasterSignals, Undriven
    <3>8. MasterAt("I", m) => MasterAt("W0", m')
      BY <3>7 DEF MasterAt, Level
    <3>9. Asked("W0", m)'
      BY <3>2, <3>4, <3>7 DEF Asked, Goal
    <3> QED
      BY <1>w, <3>3, <3>6, <3>7, <3>8, <3>9
  <2>2. CASE simbus_axi4_read
    <3>1. PICK t \in Target :
            /\ call' = [op |-> "read", addr |-> t.addr, size |-> t.size, data |-> None]
            /\ m' = [m EXCEPT !.arvalid = "1", !.ar = t, !.rready = "1"]
      BY <2>2 DEF simbus_axi4_read
    <3>2. at' = "read"
      BY <2>2 DEF simbus_axi4_read
    <3>3. t.addr \in Addr /\ t.size \in Sizes /\ t = [addr |-> t.addr, size |-> t.size]
      BY DEF Target
    <3>4. call' \in Request /\ call'.op = "read"
      BY <3>1, <3>3 DEF Request
    <3>5. /\ m'.areset_n = m.areset_n /\ m'.arvalid = "1" /\ m'.ar = t /\ m'.rready = "1"
          /\ m'.awvalid = m.awvalid /\ m'.wvalid = m.wvalid /\ m'.bready = m.bready
      BY <1>3, <3>1 DEF MasterSignals
    <3>6. MasterAt("I", m) => MasterAt("R0", m')
      BY <3>5 DEF MasterAt, Level
    <3>7. Asked("R0", m)'
      BY <3>1, <3>3, <3>5 DEF Asked, Goal
    <3> QED
      BY <1>w, <3>2, <3>4, <3>5, <3>6, <3>7
  <2> QED
    BY <2>1, <2>2
<1>5. Calling(n)'
  BY <1>1, <1>w, <1>4, Axi4ConstantsOK DEF Calling, Axi4ConstantsOK
<1>6. Resets' /\ ~MasterToGo' /\ (SlaveToGo' <=> SlaveToGo)
  BY <1>1, <1>4, CallNoReset
<1>7. CASE SlaveToGo
  <2>1. PICK k, j \in Stage : MasterAhead(k, j)
    BY <1>1, <1>2, <1>7 DEF Inv, Handshake
  <2>2. j = "I"
    BY <1>1, <2>1 DEF MasterAhead, Calling, Stage
  <2>3. k \in {"I", "W2", "R1"}
    BY <2>1, <2>2, AfterStages DEF MasterAhead, Stage
  <2>4. MasterAhead(k, n)'
    <3>1. MasterAt("I", m) /\ MasterAt(k, slaveSees) /\ SlaveAt(k, s) /\ served = <<>>
      BY <2>1, <2>2 DEF MasterAhead
    <3>2. MasterAt(n, m)' /\ MasterAt(k, slaveSees)' /\ SlaveAt(k, s)' /\ served' = <<>>
      BY <1>1, <1>3, <1>4, <3>1 DEF MasterAt, SlaveAt
    <3>3. Registered(k)' /\ n \in {"I", "W0", "R0"}
      BY <2>3 DEF Registered
    <3> QED
      BY <1>4, <1>5, <2>3, <3>2, <3>3 DEF MasterAhead
  <2> QED
    BY <1>6, <1>7, <2>4 DEF Handshake, Stage
<1>8. CASE ~SlaveToGo
  <2>1. PICK k \in Stage : Together(k)
    BY <1>1, <1>2, <1>8 DEF Inv, Handshake
  <2>2. k = "I"
    BY <1>1, <2>1 DEF Together, Calling, Stage
  <2>3. Together(n)'
    <3>1. MasterAt("I", m) /\ SlaveAt("I", s) /\ served = <<>>
      BY <2>1, <2>2 DEF Together, Gave
    <3>2. MasterAt(n, m)'
      BY <1>4, <3>1 DEF MasterAt
    <3>3. SlaveAt(n, s)'
      BY <1>3, <3>1 DEF SlaveAt, Level
    <3>4. Registered(n)' /\ Gave(n, s)'
      BY <1>1, <3>1 DEF Registered, Gave
    <3> QED
      BY <1>4, <1>5, <3>2, <3>3, <3>4 DEF Together
  <2> QED
    BY <1>6, <1>8, <2>3 DEF Handshake, Stage
<1> QED
  BY <1>6, <1>7, <1>8


(* A call of the bus has a word of the low lane.                           *)
LEMMA CallData ==
  ASSUME ServedUse, call \in Request
  PROVE  /\ call.addr \in Addr /\ call.size \in {8, 32} /\ call.size \in Sizes
         /\ Lanes(call.size) = {"low"} /\ Goal \in Target
         /\ call.op = "write" => call.data \in [{"low"} -> Half]
<1>1. call.addr \in Addr /\ call.size \in Sizes /\ (call.op = "write" => call.data \in Word(Half))
  BY DEF Request
<1>2. \A size \in Sizes : Lanes(size) = {"low"} /\ size \in {8, 32}
  BY DEF ServedUse, Lanes
<1>3. Word(Half) \subseteq [{"low"} -> Half]
  BY <1>2 DEF Word
<1> QED
  BY <1>1, <1>2, <1>3 DEF Goal, Target

(* While the master is in a call it sees the slave at its own stage.       *)
LEMMA CallSeen ==
  ASSUME Inv, MasterToGo
  PROVE  \E k \in Stage : Calling(k) /\ MasterAt(k, m) /\ SlaveAt(k, masterSees)
<1>1. at # "finished"
  BY DEF MasterToGo
<1> QED
  BY <1>1 DEF Inv, Handshake, Together, SlaveAhead

LEMMA WriteGoesOn ==
  ASSUME ServedUse, Inv, wait_for_resp
  PROVE  Resets' /\ Handshake'
<1>1. /\ Master /\ at = "write" /\ MasterToGo /\ UNCHANGED wasReset
  BY DEF wait_for_resp, Master, MasterToGo
<1>2. /\ UNCHANGED <<phase, s, slaveSees, masterSees, aw>> /\ slaveSees = m /\ Typed
  BY <1>1, AtPosedge DEF Inv
<1>4. ASSUME NEW k \in Stage, Calling(k), MasterAt(k, m), SlaveAt(k, masterSees)
      PROVE  /\ k \in {"W0", "W1", "W2"}
             /\ MasterAt(After(k), m') /\ m'.areset_n = m.areset_n
             /\ k = "W0" => m'.wdata = m.wdata
             /\ k # "W2" => GoOn
             /\ k = "W2" => Return
             /\ Calling(After(k))'
  <2>1. k \in {"W0", "W1", "W2"} /\ got \in Answer
    BY <1>1, <1>4 DEF Calling
  <2>3. /\ MasterAt(After(k), m') /\ m'.areset_n = m.areset_n
        /\ k = "W0" => m'.wdata = m.wdata
        /\ k # "W2" => GoOn /\ got' \in Answer /\ got'.data = got.data
        /\ k = "W2" => Return
    BY <1>2, <1>4, <2>1, WriteEdge
  <2>4. CASE k = "W0"
    BY <1>1, <1>4, <2>3, <2>4, AfterStages DEF Calling, GoOn
  <2>5. CASE k = "W1"
    BY <1>1, <1>4, <2>3, <2>5, AfterStages DEF Calling, GoOn
  <2>6. CASE k = "W2"
    BY <1>1, <1>4, <2>3, <2>6, AfterStages DEF Calling, Return
  <2> QED
    BY <2>1, <2>3, <2>4, <2>5, <2>6
<1>5. ASSUME NEW k \in Stage, Calling(k), MasterAt(k, m), SlaveAt(k, masterSees)
      PROVE  Resets' /\ ~MasterToGo' /\ (SlaveToGo' <=> SlaveToGo)
  <2>1. at' \in {"idle", "write", "read"} /\ (todo' = todo \ {"master"} \/ (todo' = todo /\ at' = "idle"))
    BY <1>1, <1>4, <1>5 DEF GoOn, Clocked, Return
  <2> QED
    BY <1>1, <1>4, <1>5, <2>1, CallNoReset
<1>6. CASE SlaveToGo
  <2>1. masterSees = s
    BY <1>1, <1>6 DEF Inv, Handshake
  <2>2. PICK k \in Stage : Together(k)
    BY <1>1, <1>6 DEF Inv, Handshake
  <2>3. Calling(k) /\ MasterAt(k, m) /\ SlaveAt(k, masterSees) /\ Asked(k, m) /\ Registered(k) /\ Gave(k, s)
    BY <2>1, <2>2 DEF Together
  <2>4. MasterAhead(k, After(k))'
    <3>1. MasterAt(k, slaveSees)' /\ SlaveAt(k, s)' /\ MasterAt(After(k), m)'
      BY <1>2, <1>4, <2>1, <2>3 DEF MasterAt, SlaveAt
    <3>2. served' = <<>>
      BY <1>4, <2>3 DEF Gave, GoOn, Return
    <3>3. k # "W2" => UNCHANGED call
      BY <1>4, <2>3 DEF GoOn
    <3>4. Asked(After(k), m)' /\ (k \in {"W0", "W1", "R0"} => Asked(k, slaveSees)')
      <4>1. CASE k = "W0"
        BY <1>2, <1>4, <2>3, <3>3, <4>1, AfterStages DEF Asked, Goal
      <4>2. CASE k = "W1"
        BY <1>2, <1>4, <2>3, <3>3, <4>2, AfterStages DEF Asked, Goal
      <4>3. CASE k = "W2"
        BY <4>3, AfterStages DEF Asked
      <4> QED
        BY <1>4, <2>3, <4>1, <4>2, <4>3
    <3>5. Registered(k)'
      BY <1>2, <2>3, <3>3 DEF Registered, Goal
    <3>6. Calling(After(k))'
      BY <1>4, <2>3
    <3> QED
      BY <3>1, <3>2, <3>4, <3>5, <3>6 DEF MasterAhead
  <2>5. After(k) \in Stage
    BY <2>2, AfterStages DEF Stage
  <2> QED
    BY <1>5, <1>6, <2>3, <2>4, <2>5 DEF Handshake
<1>7. CASE ~SlaveToGo
  <2>1. PICK k \in Stage : SlaveAhead(k)
    BY <1>1, <1>7 DEF Inv, Handshake
  <2>2. Calling(k) /\ MasterAt(k, m) /\ SlaveAt(k, masterSees) /\ SlaveAt(After(k), s)
    BY <2>1 DEF SlaveAhead
  <2>3. k \in {"W0", "W1", "W2"} /\ After(k) \in {"W1", "W2", "I"}
    BY <1>4, <2>2, AfterStages
  <2>4. Together(After(k))'
    <3>1. Calling(After(k))' /\ MasterAt(After(k), m)' /\ SlaveAt(After(k), s)'
      BY <1>2, <1>4, <2>2 DEF MasterAt, SlaveAt
    <3>2. Asked(After(k), m)' /\ Registered(After(k))'
      <4>1. CASE k = "W0"
        BY <1>2, <1>4, <2>1, <2>2, <4>1, AfterStages DEF SlaveAhead, Asked, Registered, Goal, GoOn
      <4>2. CASE k # "W0"
        BY <2>3, <4>2, AfterStages DEF Asked, Registered
      <4> QED
        BY <4>1, <4>2
    <3>3. Gave(After(k), s)'
      <4>1. CASE k = "W2"
        BY <1>4, <2>2, <4>1, AfterStages DEF Gave, Return
      <4>2. CASE k = "W1"
        BY <1>2, <1>4, <2>1, <2>2, <4>2, AfterStages DEF SlaveAhead, Gave, GoOn
      <4>3. CASE k = "W0"
        BY <1>2, <1>4, <2>1, <2>2, <4>3, AfterStages DEF SlaveAhead, Gave, GoOn
      <4> QED
        BY <2>3, <4>1, <4>2, <4>3
    <3> QED
      BY <3>1, <3>2, <3>3 DEF Together
  <2> QED
    BY <1>5, <1>7, <2>2, <2>3, <2>4 DEF Handshake, Stage
<1>8. Resets'
  BY <1>1, <1>5, CallSeen
<1> QED
  BY <1>6, <1>7, <1>8


LEMMA ReadGoesOn ==
  ASSUME ServedUse, Inv, wait_for_read
  PROVE  Resets' /\ Handshake'
<1>1. /\ Master /\ at = "read" /\ MasterToGo /\ UNCHANGED <<wasReset, timer>>
  BY DEF wait_for_read, Master, MasterToGo
<1>2. /\ UNCHANGED <<phase, s, slaveSees, masterSees, aw>> /\ slaveSees = m /\ Typed
  BY <1>1, AtPosedge DEF Inv
<1>3. ASSUME NEW k \in Stage, Calling(k), MasterAt(k, m), SlaveAt(k, masterSees)
      PROVE  /\ k \in {"R0", "R1"}
             /\ MasterAt(After(k), m') /\ m'.areset_n = m.areset_n
             /\ k = "R0" => GoOn
             /\ k = "R1" => Return
             /\ Calling(After(k))'
  <2>1. k \in {"R0", "R1"}
    BY <1>1, <1>3 DEF Calling
  <2>2. /\ MasterAt(After(k), m') /\ m'.areset_n = m.areset_n
        /\ k = "R0" => GoOn
        /\ k = "R1" => Return
    BY <1>2, <1>3, <2>1, ReadEdge
  <2>3. CASE k = "R0"
    BY <1>1, <1>3, <2>2, <2>3, AfterStages DEF Calling, GoOn
  <2>4. CASE k = "R1"
    BY <1>1, <1>3, <2>2, <2>4, AfterStages DEF Calling, Return
  <2> QED
    BY <2>1, <2>2, <2>3, <2>4
<1>4. ASSUME NEW k \in Stage, Calling(k), MasterAt(k, m), SlaveAt(k, masterSees)
      PROVE  Resets' /\ ~MasterToGo' /\ (SlaveToGo' <=> SlaveToGo)
  <2>1. at' \in {"idle", "write", "read"} /\ (todo' = todo \ {"master"} \/ (todo' = todo /\ at' = "idle"))
    BY <1>1, <1>3, <1>4 DEF GoOn, Clocked, Return
  <2> QED
    BY <1>1, <1>3, <1>4, <2>1, CallNoReset
<1>5. CASE SlaveToGo
  <2>1. masterSees = s
    BY <1>1, <1>5 DEF Inv, Handshake
  <2>2. PICK k \in Stage : Together(k)
    BY <1>1, <1>5 DEF Inv, Handshake
  <2>3. Calling(k) /\ MasterAt(k, m) /\ SlaveAt(k, masterSees) /\ Asked(k, m) /\ Registered(k) /\ Gave(k, s)
    BY <2>1, <2>2 DEF Together
  <2>4. k \in {"R0", "R1"} /\ After(k) \in {"R1", "I"}
    BY <1>3, <2>3, AfterStages
  <2>5. MasterAhead(k, After(k))'
    <3>1. MasterAt(k, slaveSees)' /\ SlaveAt(k, s)' /\ MasterAt(After(k), m)'
      BY <1>2, <1>3, <2>1, <2>3 DEF MasterAt, SlaveAt
    <3>2. served' = <<>>
      BY <1>3, <2>3, <2>4 DEF Gave, GoOn, Return
    <3>3. k = "R0" => UNCHANGED call
      BY <1>3, <2>3 DEF GoOn
    <3>4. Asked(After(k), m)' /\ (k \in {"W0", "W1", "R0"} => Asked(k, slaveSees)')
      BY <1>2, <2>3, <2>4, <3>3 DEF Asked, Goal
    <3>5. Registered(k)'
      BY <2>4 DEF Registered
    <3>6. Calling(After(k))'
      BY <1>3, <2>3
    <3> QED
      BY <3>1, <3>2, <3>4, <3>5, <3>6 DEF MasterAhead
  <2> QED
    BY <1>4, <1>5, <2>3, <2>4, <2>5 DEF Handshake, Stage
<1>6. CASE ~SlaveToGo
  <2>1. PICK k \in Stage : SlaveAhead(k)
    BY <1>1, <1>6 DEF Inv, Handshake
  <2>2. Calling(k) /\ MasterAt(k, m) /\ SlaveAt(k, masterSees) /\ SlaveAt(After(k), s)
    BY <2>1 DEF SlaveAhead
  <2>3. k \in {"R0", "R1"} /\ After(k) \in {"R1", "I"}
    BY <1>3, <2>2, AfterStages
  <2>4. Together(After(k))'
    <3>1. Calling(After(k))' /\ MasterAt(After(k), m)' /\ SlaveAt(After(k), s)'
      BY <1>2, <1>3, <2>2 DEF MasterAt, SlaveAt
    <3>2. Asked(After(k), m)' /\ Registered(After(k))'
      BY <2>3 DEF Asked, Registered
    <3>3. Gave(After(k), s)'
      <4>1. CASE k = "R1"
        BY <1>3, <2>2, <4>1, AfterStages DEF Gave, Return
      <4>2. CASE k = "R0"
        BY <1>2, <1>3, <2>1, <2>2, <4>2, AfterStages DEF SlaveAhead, Gave, GoOn
      <4> QED
        BY <2>3, <4>1, <4>2
    <3> QED
      BY <3>1, <3>2, <3>3 DEF Together
  <2> QED
    BY <1>4, <1>6, <2>2, <2>3, <2>4 DEF Handshake, Stage
<1>7. Resets'
  BY <1>1, <1>4, CallSeen
<1> QED
  BY <1>5, <1>6, <1>7

(* Between calls nothing depends on what the call was.                     *)
LEMMA WaitBegins ==
  ASSUME Inv, simbus_axi4_wait \/ simbus_axi4_reset
  PROVE  Resets' /\ Handshake'
<1>1. /\ Master /\ at = "idle" /\ at' = "wait" /\ todo' = todo \ {"master"}
      /\ UNCHANGED <<call, timer, got, served, wasReset>>
  BY DEF simbus_axi4_wait, simbus_axi4_reset, Clocked
<1>2. /\ phase = 0 /\ UNCHANGED <<phase, s, slaveSees, masterSees, aw>> /\ m.areset_n = "1"
      /\ m \in MasterSignals
  BY <1>1, AtPosedge DEF Inv, Typed, TypeOK
<1>3. /\ left'[1] > 0 /\ (m'.areset_n = "0" <=> left'[2] > 0)
      /\ \A k \in Stage : MasterAt(k, m) => MasterAt(k, m)'
      /\ UNCHANGED <<m.aw, m.ar, m.wdata>>
  <2>1. CASE simbus_axi4_wait
    <3>1. PICK clks \in 1..MaxWait : left' = <<clks, 0>>
      BY <2>1 DEF simbus_axi4_wait
    <3>2. UNCHANGED m
      BY <2>1 DEF simbus_axi4_wait
    <3> QED
      BY <1>2, <3>1, <3>2 DEF MasterAt
  <2>2. CASE simbus_axi4_reset
    <3>1. PICK width, settle \in 1..MaxWait : left' = <<width, settle>>
      BY <2>2 DEF simbus_axi4_reset
    <3>2. m' = [m EXCEPT !.areset_n = "0"]
      BY <2>2 DEF simbus_axi4_reset
    <3> QED
      BY <1>2, <3>1, <3>2 DEF MasterAt, MasterSignals
  <2> QED
    BY <2>1, <2>2
<1>4. ~MasterToGo /\ ~MasterToGo' /\ (SlaveToGo' <=> SlaveToGo)
  BY <1>1, <1>2 DEF MasterToGo, SlaveToGo
<1>5. Resets'
  BY <1>1, <1>2, <1>3, <1>4 DEF Resets
<1>6. \A k \in Stage : Calling(k) => Calling(k)'
  BY <1>1 DEF Calling
<1>7. CASE SlaveToGo
  <2>1. PICK k, j \in Stage : MasterAhead(k, j)
    BY <1>1, <1>4, <1>7 DEF Inv, Handshake
  <2>2. MasterAhead(k, j)'
    BY <1>1, <1>2, <1>3, <1>6, <2>1 DEF MasterAhead, MasterAt, SlaveAt, Asked, Goal, Registered
  <2> QED
    BY <1>4, <1>5, <1>7, <2>2 DEF Handshake
<1>8. CASE ~SlaveToGo
  <2>1. PICK k \in Stage : Together(k)
    BY <1>1, <1>4, <1>8 DEF Inv, Handshake
  <2>2. k \in {"I", "Z"}
    BY <1>1, <2>1 DEF Together, Calling, Stage
  <2>3. Together(k)'
    BY <1>1, <1>2, <1>3, <1>6, <2>1, <2>2 DEF Together, MasterAt, SlaveAt, Asked, Registered, Gave
  <2> QED
    BY <1>4, <1>5, <1>8, <2>3 DEF Handshake
<1> QED
  BY <1>5, <1>7, <1>8

LEMMA WaitGoesOn ==
  ASSUME Inv, WaitClock
  PROVE  Resets' /\ Handshake'
<1>1. /\ Master /\ at = "wait" /\ MasterToGo /\ at' \in {"wait", "idle"}
      /\ UNCHANGED <<call, timer, got, served>>
  BY DEF WaitClock, Master, MasterToGo
<1>2. /\ phase = 0 /\ UNCHANGED <<phase, s, slaveSees, masterSees, aw>> /\ slaveSees = m
      /\ m \in MasterSignals /\ left \in (0..MaxWait) \X (0..MaxWait) /\ wasReset \in BOOLEAN
      /\ (m.areset_n = "0" <=> left[2] > 0)
      /\ (m.areset_n = "0" => SlaveAt("I", s))
  BY <1>1, AtPosedge DEF Inv, Typed, TypeOK, Resets
<1>3. \/ /\ left[1] > 1 /\ left'[1] = left[1] - 1 /\ left'[2] = left[2] /\ at' = "wait"
         /\ todo' = todo \ {"master"} /\ UNCHANGED <<m, wasReset>>
      \/ /\ left[2] > 0 /\ left'[1] = left[2] /\ left'[2] = 0 /\ at' = "wait"
         /\ todo' = todo \ {"master"} /\ m' = [m EXCEPT !.areset_n = "1"] /\ wasReset' = TRUE
      \/ left[2] = 0 /\ at' = "idle" /\ UNCHANGED <<todo, m, wasReset>>
  BY <1>1, <1>2 DEF WaitClock, Clocked
<1>4. ~MasterToGo' /\ (SlaveToGo' <=> SlaveToGo)
  BY <1>1, <1>2, <1>3 DEF MasterToGo, SlaveToGo
<1>5. Resets'
  <2>1. CASE at' = "wait"
    BY <1>2, <1>3, <1>4, <2>1 DEF Resets, MasterSignals
  <2>2. CASE at' = "idle"
    BY <1>1, <1>2, <1>3, <1>4, <2>2 DEF Resets, MasterSignals
  <2> QED
    BY <1>1, <2>1, <2>2
<1>6. \A k \in Stage : MasterAt(k, m) => MasterAt(k, m)'
  BY <1>2, <1>3 DEF MasterAt, MasterSignals
<1>7. ASSUME NEW k \in Stage, Calling(k), SlaveAt(k, s) \/ SlaveAt(After(k), s)
      PROVE  k \in {"I", "Z"} /\ After(k) = k /\ SlaveAt(k, s) /\ Calling(k)'
  <2>1. k \in {"I", "Z"} /\ After(k) = k
    BY <1>1, <1>7, AfterStages DEF Calling, Stage
  <2>2. k = "Z" => UNCHANGED wasReset
    BY <1>2, <1>3, <1>7, <2>1 DEF SlaveAt, Level
  <2> QED
    BY <1>1, <1>7, <2>1, <2>2 DEF Calling
<1>8. CASE SlaveToGo
  <2>1. PICK k \in Stage : Together(k)
    BY <1>1, <1>8 DEF Inv, Handshake
  <2>2. k \in {"I", "Z"} /\ After(k) = k /\ Calling(k)'
    BY <1>7, <2>1 DEF Together
  <2>3. MasterAhead(k, k)'
    BY <1>1, <1>2, <1>6, <2>1, <2>2
    DEF Together, MasterAhead, MasterAt, SlaveAt, Asked, Registered, Gave
  <2> QED
    BY <1>4, <1>5, <1>8, <2>3 DEF Handshake
<1>9. CASE ~SlaveToGo
  <2>1. PICK k \in Stage : SlaveAhead(k)
    BY <1>1, <1>9 DEF Inv, Handshake
  <2>2. k \in {"I", "Z"} /\ After(k) = k /\ SlaveAt(k, s) /\ Calling(k)'
    BY <1>7, <2>1 DEF SlaveAhead
  <2>3. Together(k)'
    BY <1>1, <1>2, <1>6, <2>1, <2>2
    DEF Together, SlaveAhead, MasterAt, SlaveAt, Asked, Registered, Gave
  <2> QED
    BY <1>4, <1>5, <1>9, <2>3 DEF Handshake
<1> QED
  BY <1>5, <1>8, <1>9

LEMMA Ends ==
  ASSUME Inv, simbus_axi4_end_simulation
  PROVE  Resets' /\ Handshake'
<1>1. /\ Master /\ at = "idle" /\ at' = "finished" /\ todo' = {} /\ UNCHANGED m
  BY DEF simbus_axi4_end_simulation
<1>2. phase = 0 /\ UNCHANGED <<phase, slaveSees>> /\ m.areset_n = "1"
  BY <1>1, AtPosedge
<1> QED
  BY <1>1, <1>2 DEF Resets, Handshake, MasterToGo, SlaveToGo


(* The access that the slave makes is the one the master asks for.         *)
LEMMA GaveEdge ==
  ASSUME ServedUse, Typed, do_slave_machine, UNCHANGED call, NEW k \in {"W1", "R0"},
         MasterAt(k, slaveSees), SlaveAt(k, s), served = <<>>, Asked(k, slaveSees),
         Registered(k), call \in Request, call.op = IF k = "W1" THEN "write" ELSE "read"
  PROVE  Gave(After(k), s)'
<1>1. CASE k = "W1"
  <2>1. /\ aw = Goal /\ aw \in Target /\ slaveSees.wdata["low"] = call.data["low"]
        /\ call.data \in [{"low"} -> Half] /\ Lanes(call.size) = {"low"} /\ call.size \in {8, 32}
    BY <1>1, CallData DEF Registered, Asked
  <2>2. PICK w \in write_data(aw, slaveSees.wdata) : served' = <<w>> /\ s'.bresp = RespBits(w.resp)
    BY <1>1, SlaveEdge DEF Stage
  <2>3. /\ w.op = "write" /\ w.addr = call.addr /\ w.size = call.size
        /\ w.data = Extract(slaveSees.wdata, call.size) /\ w.resp \in Responses
    BY <2>1, WriteData DEF Goal
  <2>4. Extract(slaveSees.wdata, call.size) = call.data
    BY <2>1 DEF Extract
  <2>5. w.resp \in {OKAY, EXOKAY}
    BY <2>3 DEF ServedUse
  <2>6. After(k) = "W2" /\ Len(served') = 1 /\ served'[1] = w
    BY <1>1, <2>2, AfterStages
  <2> QED
    BY <1>1, <2>1, <2>2, <2>3, <2>4, <2>5, <2>6 DEF Gave
<1>2. CASE k = "R0"
  <2>1. /\ slaveSees.ar = Goal
        /\ Lanes(call.size) = {"low"} /\ call.size \in {8, 32}
    BY <1>2, CallData DEF Asked
  <2>2. slaveSees.ar \in Target /\ \E r \in read_data(slaveSees.ar) :
          /\ served' = <<r>> /\ s'.rresp = RespBits(r.resp)
          /\ "low" \in DOMAIN r.data => s'.rdata["low"] = r.data["low"]
    BY <1>2, SlaveEdge DEF Stage
  <2>3. PICK r \in read_data(slaveSees.ar) :
          /\ served' = <<r>> /\ s'.rresp = RespBits(r.resp)
          /\ "low" \in DOMAIN r.data => s'.rdata["low"] = r.data["low"]
    BY <2>2
  <2>4. /\ r.op = "read" /\ r.addr = call.addr /\ r.size = call.size /\ r.resp \in Responses
        /\ r.data \in [{"low"} -> Half]
    <3>1. /\ r.op = "read" /\ r.addr = slaveSees.ar.addr /\ r.size = slaveSees.ar.size
          /\ slaveSees.ar.size \in {8, 32} =>
               r.resp \in Responses /\ r.data \in [Lanes(slaveSees.ar.size) -> Half]
      BY <2>2, <2>3, ReadData
    <3>2. slaveSees.ar.addr = call.addr /\ slaveSees.ar.size = call.size
      BY <2>1 DEF Goal
    <3>3. Lanes(slaveSees.ar.size) = {"low"} /\ slaveSees.ar.size \in {8, 32}
      BY <2>1, <3>2
    <3> QED
      BY <3>1, <3>2, <3>3
  <2>5. r.resp \in {OKAY, EXOKAY}
    BY <2>4 DEF ServedUse
  <2>6. After(k) = "R1" /\ Len(served') = 1 /\ served'[1] = r
    BY <1>2, <2>3, AfterStages
  <2> QED
    BY <1>2, <2>3, <2>4, <2>5, <2>6 DEF Gave
<1> QED
  BY <1>1, <1>2

LEMMA SlaveActs ==
  ASSUME ServedUse, Inv, simbus_axi4_slave
  PROVE  Resets' /\ Handshake'
<1>1. /\ "slave" \in todo /\ todo' = todo \ {"slave"}
      /\ UNCHANGED <<phase, up, masterSees, slaveSees, m, at, call, left, timer, got, wasReset>>
      /\ Typed /\ m \in MasterSignals
  BY DEF simbus_axi4_slave, busVars, masterVars, Inv, Typed, TypeOK
<1>2. ~SlaveToGo' /\ (MasterToGo' <=> MasterToGo)
  BY <1>1 DEF SlaveToGo, MasterToGo
<1>3. slaveSees.areset_n = "0" => SlaveAt("I", s') /\ UNCHANGED <<aw, served>>
  BY <1>1, ResetEdge DEF simbus_axi4_slave
<1>4. Resets'
  <2>1. SlaveAt("I", s)' <=> SlaveAt("I", s')
    BY DEF SlaveAt
  <2>2. m.areset_n = "0" /\ (phase # 0 \/ MasterToGo) => SlaveAt("I", s')
    <3>1. m.areset_n = "0" => at # "finished"
      BY DEF Inv, Resets
    <3> QED
      BY <1>3, <3>1 DEF Inv, Resets
  <2>3. phase' = 3 \/ (phase' = 2 /\ todo' = {}) \/ (phase' = 0 /\ MasterToGo') => phase # 0 \/ MasterToGo
    BY <1>1, <1>2
  <2> QED
    BY <1>1, <1>2, <2>1, <2>2, <2>3 DEF Resets, Inv
<1>5. \A k : (Calling(k) => Calling(k)') /\ (MasterAt(k, m) => MasterAt(k, m)')
            /\ (SlaveAt(k, masterSees) => SlaveAt(k, masterSees)') /\ (SlaveAt(k, s') => SlaveAt(k, s)')
            /\ (Asked(k, m) => Asked(k, m)')
  BY <1>1 DEF Calling, MasterAt, SlaveAt, Asked, Goal
<1>6. ASSUME NEW k \in Stage, Calling(k), at = "wait", MasterAt(k, m)
      PROVE  k \in {"I", "Z"} /\ MasterAt("I", m) /\ Calling("I")'
  BY <1>1, <1>6 DEF Calling, MasterAt, Stage
<1>7. CASE at = "finished"
  BY <1>1, <1>4, <1>7 DEF Handshake
<1>8. CASE phase # 0 /\ at # "finished"
  <2>1. ~MasterToGo /\ ~SlaveToGo /\ slaveSees = m
    BY <1>8 DEF Inv, Resets, MasterToGo, SlaveToGo
  <2>2. PICK k \in Stage : Together(k)
    BY <1>8, <2>1 DEF Inv, Handshake
  <2>3. CASE slaveSees.areset_n = "0"
    <3>1. at = "wait"
      BY <2>1, <2>3 DEF Inv, Resets
    <3>2. k \in {"I", "Z"} /\ MasterAt("I", m) /\ Calling("I")'
      BY <1>6, <2>2, <3>1 DEF Together
    <3>3. Together("I")'
      BY <1>3, <1>5, <2>2, <2>3, <3>2 DEF Together, Asked, Registered, Gave
    <3> QED
      BY <1>2, <1>4, <2>1, <3>3 DEF Handshake, Stage
  <2>4. CASE slaveSees.areset_n # "0"
    <3>1. UNCHANGED <<s, aw, served>>
      BY <1>8, <2>4 DEF simbus_axi4_slave, slaveVars
    <3>2. Together(k)'
      BY <1>1, <1>5, <2>2, <3>1 DEF Together, SlaveAt, Registered, Gave, Goal
    <3> QED
      BY <1>2, <1>4, <2>1, <3>2 DEF Handshake
  <2> QED
    BY <2>3, <2>4
<1>9. CASE phase = 0 /\ at # "finished" /\ slaveSees.areset_n = "0"
  <2>0. SlaveToGo /\ at = "wait"
    BY <1>1, <1>9 DEF SlaveToGo, Inv, Resets
  <2>1. CASE MasterToGo
    <3>1. masterSees = s /\ slaveSees = m /\ SlaveAt("I", s)
      BY <1>9, <2>0, <2>1 DEF Inv, Handshake, Resets
    <3>2. PICK k \in Stage : Together(k)
      BY <1>9, <2>0, <2>1 DEF Inv, Handshake
    <3>3. k = "I"
      BY <1>6, <2>0, <3>1, <3>2 DEF Together, SlaveAt, Level
    <3>4. SlaveAhead("I")'
      BY <1>3, <1>5, <1>9, <3>1, <3>2, <3>3, AfterStages
      DEF Together, SlaveAhead, Asked, Registered, Gave
    <3> QED
      BY <1>2, <1>4, <2>1, <3>4 DEF Handshake, Stage
  <2>2. CASE ~MasterToGo
    <3>1. PICK k, j \in Stage : MasterAhead(k, j)
      BY <1>9, <2>0, <2>2 DEF Inv, Handshake
    <3>2. j \in {"I", "Z"} /\ MasterAt("I", m) /\ Calling("I")' /\ served = <<>>
      BY <1>6, <2>0, <3>1 DEF MasterAhead
    <3>3. Together("I")'
      BY <1>3, <1>5, <1>9, <3>2 DEF Together, Asked, Registered, Gave
    <3> QED
      BY <1>2, <1>4, <2>2, <3>3 DEF Handshake, Stage
  <2> QED
    BY <2>1, <2>2
<1>10. CASE phase = 0 /\ at # "finished" /\ slaveSees.areset_n # "0"
  <2>0. SlaveToGo /\ do_slave_machine
    BY <1>1, <1>10 DEF SlaveToGo, simbus_axi4_slave
  <2>1. CASE MasterToGo
    <3>1. masterSees = s /\ slaveSees = m
      BY <1>10, <2>0, <2>1 DEF Inv, Handshake, Resets
    <3>2. PICK k \in Stage : Together(k)
      BY <1>10, <2>0, <2>1 DEF Inv, Handshake
    <3>3. /\ Calling(k) /\ MasterAt(k, m) /\ SlaveAt(k, s) /\ Asked(k, m) /\ Registered(k)
          /\ Gave(k, s) /\ (k \notin {"W2", "R1"} => served = <<>>)
      BY <3>2 DEF Together, Gave
    <3>4. /\ SlaveAt(After(k), s') /\ aw' = IF k = "W0" THEN m.aw ELSE aw
          /\ k \notin {"W1", "R0"} => UNCHANGED served
      BY <1>1, <2>0, <3>1, <3>3, SlaveEdge
    <3>5. Asked(After(k), m)' /\ Registered(After(k))'
      <4>1. CASE k = "W0"
        BY <1>1, <3>3, <3>4, <4>1, AfterStages DEF Asked, Registered, Goal
      <4>2. CASE k # "W0"
        <5>1. After(k) \in {"Z", "I", "W2", "R1"}
          BY <4>2, AfterStages DEF Stage
        <5> QED
          BY <5>1 DEF Asked, Registered
      <4> QED
        BY <4>1, <4>2
    <3>6. IF k \in {"W2", "R1"} THEN Gave(k, masterSees)' ELSE Gave(After(k), s)'
      <4>1. CASE k \in {"W2", "R1"}
        BY <1>1, <3>1, <3>3, <3>4, <4>1 DEF Gave
      <4>2. CASE k \in {"W1", "R0"}
        <5>1. call \in Request /\ call.op = IF k = "W1" THEN "write" ELSE "read"
          BY <3>3, <4>2 DEF Calling
        <5> QED
          BY <1>1, <2>0, <3>1, <3>3, <4>2, <5>1, GaveEdge
      <4>3. CASE k \in {"Z", "I", "W0"}
        BY <3>3, <3>4, <4>3, AfterStages DEF Gave
      <4> QED
        BY <4>1, <4>2, <4>3 DEF Stage
    <3>7. SlaveAhead(k)'
      BY <1>5, <3>1, <3>3, <3>4, <3>5, <3>6 DEF SlaveAhead
    <3> QED
      BY <1>2, <1>4, <2>1, <3>7 DEF Handshake
  <2>2. CASE ~MasterToGo
    <3>1. PICK k, j \in Stage : MasterAhead(k, j)
      BY <1>10, <2>0, <2>2 DEF Inv, Handshake
    <3>2. /\ Calling(j) /\ MasterAt(j, m) /\ MasterAt(k, slaveSees) /\ SlaveAt(k, s)
          /\ j = After(k) \/ (k \in {"I", "W2", "R1"} /\ j \in {"I", "W0", "R0"})
          /\ Asked(j, m) /\ (k \in {"W0", "W1", "R0"} => Asked(k, slaveSees))
          /\ Registered(k) /\ served = <<>>
      BY <3>1 DEF MasterAhead
    <3>3. /\ SlaveAt(After(k), s') /\ aw' = IF k = "W0" THEN slaveSees.aw ELSE aw
          /\ k \notin {"W1", "R0"} => served' = <<>>
      BY <1>1, <2>0, <3>2, SlaveEdge
    <3>4. CASE j = After(k)
      <4>1. Registered(j)'
        <5>1. j = "W1" => k = "W0"
          BY <3>4 DEF After
        <5> QED
          BY <1>1, <3>2, <3>3, <5>1 DEF Registered, Asked, Goal
      <4>2. Gave(j, s)'
        <5>1. CASE k \in {"W1", "R0"}
          <6>1. call \in Request /\ call.op = IF k = "W1" THEN "write" ELSE "read"
            BY <3>2, <3>4, <5>1, AfterStages DEF Calling
          <6> QED
            BY <1>1, <2>0, <3>2, <3>4, <5>1, <6>1, GaveEdge
        <5>2. CASE k \notin {"W1", "R0"}
          <6>1. j \notin {"W2", "R1"}
            BY <3>4, <5>2, AfterStages DEF Stage
          <6> QED
            BY <3>3, <5>2, <6>1 DEF Gave
        <5> QED
          BY <5>1, <5>2
      <4> QED
        BY <1>2, <1>4, <1>5, <2>2, <3>2, <3>3, <3>4, <4>1, <4>2 DEF Handshake, Together
    <3>5. CASE k \in {"I", "W2", "R1"} /\ j \in {"I", "W0", "R0"}
      <4>1. SlaveAt(j, s') /\ served' = <<>>
        BY <3>3, <3>5, AfterStages DEF SlaveAt, Level
      <4>2. Together(j)'
        BY <1>5, <3>2, <3>5, <4>1 DEF Together, Registered, Gave
      <4> QED
        BY <1>2, <1>4, <2>2, <4>2 DEF Handshake
    <3> QED
      BY <3>2, <3>4, <3>5
  <2> QED
    BY <2>1, <2>2
<1> QED
  BY <1>7, <1>8, <1>9, <1>10


(* A phase of the clock hands each end what the other drives.              *)
LEMMA BusStep ==
  ASSUME ServedUse, Inv, run_run
  PROVE  up' /\ Resets' /\ Handshake'
<1>1. /\ todo = {} /\ at # "finished" /\ up' = TRUE /\ phase' = (phase + 1) % 4
      /\ slaveSees' = m /\ masterSees' = s /\ todo' = EndsAtEdge
      /\ UNCHANGED <<m, s, aw, at, call, left, timer, got, served, wasReset>>
  BY DEF run_run, advance_bus_clock_, ServedUse, Parsed, masterVars, slaveVars
<1>2. phase \in 0..3 /\ phase' \in 0..3 /\ (phase' = 0 => phase = 3) /\ (phase' = 3 => phase = 2)
  BY <1>1 DEF Inv, Typed, TypeOK
<1>3. /\ phase' = 0 => todo' = {"master", "slave"}
      /\ phase' # 0 => "master" \notin todo'
      /\ phase' = 2 => todo' # {}
  BY <1>1 DEF EndsAtEdge
<1>4. PICK k \in Stage : Together(k)
  BY <1>1 DEF Inv, Handshake, MasterToGo, SlaveToGo
<1>5. Together(k)'
  BY <1>1, <1>4 DEF Together, Calling, MasterAt, SlaveAt, Asked, Registered, Gave, Goal
<1>6. Resets'
  <2>1. m.areset_n = "0" <=> at = "wait" /\ left[2] > 0
    BY DEF Inv, Resets
  <2>2. at = "wait" => left[1] > 0
    BY DEF Inv, Resets
  <2>3. m.areset_n = "0" /\ (phase = 3 \/ phase = 2) => SlaveAt("I", s)
    BY <1>1 DEF Inv, Resets
  <2>4. SlaveAt("I", s) => SlaveAt("I", s)'
    BY <1>1 DEF SlaveAt
  <2> QED
    BY <1>1, <1>2, <1>3, <2>1, <2>2, <2>3, <2>4 DEF Resets
<1>7. CASE phase' # 0
  <2>1. ~MasterToGo' /\ ~SlaveToGo'
    BY <1>3, <1>7 DEF MasterToGo, SlaveToGo
  <2> QED
    BY <1>1, <1>5, <1>6, <2>1 DEF Handshake
<1>8. CASE phase' = 0
  <2>1. SlaveToGo' /\ (MasterToGo' <=> at \in {"write", "read", "wait"})
    BY <1>1, <1>3, <1>8 DEF MasterToGo, SlaveToGo
  <2>2. CASE MasterToGo'
    BY <1>1, <1>5, <1>6, <2>1, <2>2 DEF Handshake
  <2>3. CASE ~MasterToGo'
    <3>1. at = "idle"
      BY <1>1, <2>1, <2>3 DEF Inv, Typed, TypeOK
    <3>2. k \in {"I", "Z"} /\ After(k) = k
      BY <1>4, <3>1, AfterStages DEF Together, Calling, Stage
    <3>3. MasterAhead(k, k)'
      BY <1>1, <1>4, <1>5, <3>2 DEF Together, MasterAhead, MasterAt, Gave
    <3> QED
      BY <1>1, <1>6, <2>1, <2>3, <3>3 DEF Handshake
  <2> QED
    BY <2>2, <2>3
<1> QED
  BY <1>1, <1>7, <1>8

LEMMA InvStep ==
  ASSUME ServedUse, Inv, [Next]_vars
  PROVE  Inv'
<1>1. Typed'
  BY TypeStep DEF Inv
<1>2. CASE run_run
  BY <1>1, <1>2, BusStep DEF Inv
<1>3. CASE MasterLibrary \/ Application
  <2>0. Master
    BY <1>3, Zenon DEF MasterLibrary, Application, wait_for_resp, wait_for_read, WaitClock,
       simbus_axi4_write, simbus_axi4_read, simbus_axi4_wait, simbus_axi4_reset,
       simbus_axi4_end_simulation
  <2>1. up'
    BY <2>0 DEF Master, busVars, Inv
  <2>2. Resets' /\ Handshake'
    BY <1>3, CallBegins, WriteGoesOn, ReadGoesOn, WaitBegins, WaitGoesOn, Ends
    DEF MasterLibrary, Application
  <2> QED
    BY <1>1, <2>1, <2>2 DEF Inv
<1>4. CASE simbus_axi4_slave
  BY <1>1, <1>4, SlaveActs DEF simbus_axi4_slave, busVars, Inv
<1>5. CASE UNCHANGED vars
  <2>1. UNCHANGED <<phase, up, masterSees, slaveSees, m, at, call, left, timer, got, wasReset, s, aw, todo, served>>
    BY <1>5 DEF vars, busVars, masterVars, slaveVars
  <2>2. Resets' /\ (MasterToGo' <=> MasterToGo) /\ (SlaveToGo' <=> SlaveToGo)
    BY <2>1 DEF Inv, Resets, MasterToGo, SlaveToGo, SlaveAt
  <2>3. ASSUME NEW k
        PROVE  /\ Calling(k) => Calling(k)'
               /\ MasterAt(k, m) => MasterAt(k, m)'
               /\ MasterAt(k, slaveSees) => MasterAt(k, slaveSees)'
               /\ SlaveAt(k, s) => SlaveAt(k, s)'
               /\ SlaveAt(k, masterSees) => SlaveAt(k, masterSees)'
               /\ Asked(k, m) => Asked(k, m)'
               /\ Asked(k, slaveSees) => Asked(k, slaveSees)'
               /\ Registered(k) => Registered(k)'
               /\ Gave(k, s) => Gave(k, s)'
               /\ Gave(k, masterSees) => Gave(k, masterSees)'
    BY <2>1 DEF Calling, MasterAt, SlaveAt, Asked, Registered, Gave, Goal
  <2>4. \A k : (Together(k) => Together(k)') /\ (SlaveAhead(k) => SlaveAhead(k)')
    BY <2>3 DEF Together, SlaveAhead
  <2>5. \A k, j : MasterAhead(k, j) => MasterAhead(k, j)'
    BY <2>1, <2>3 DEF MasterAhead
  <2> QED
    BY <1>1, <2>1, <2>2, <2>4, <2>5 DEF Inv, Handshake
<1> QED
  BY <1>2, <1>3, <1>4, <1>5 DEF Next, Stopped

(* Used as ServedUse says, the ends of the bus go through the stages of a  *)
(* call together: neither drives, takes or answers anything out of turn,   *)
(* and the slave makes one access for a call.                              *)
THEOREM Invariance ==
  ASSUME ServedUse
  PROVE  Spec => []Inv
  BY InvInit, InvStep, PTL DEF Spec

-----------------------------------------------------------------------------
(* One access for a call                                                   *)

(* The bus stops with the master.                                          *)
Halted == at = "finished" => todo = {}

LEMMA HaltedStep == Halted /\ [Next]_vars => Halted'
  BY DEF Halted, Next, run_run, MasterLibrary, Application, wait_for_resp, wait_for_read,
     WaitClock, simbus_axi4_write, simbus_axi4_read, simbus_axi4_wait, simbus_axi4_reset,
     simbus_axi4_end_simulation, simbus_axi4_slave, Stopped, Master, GoOn, Return, Clocked,
     busVars, masterVars, slaveVars, vars

LEMMA OneIsSome == \A q : Len(q) = 1 => q # <<>>
<1>1. Len(<<>>) = 0
  OBVIOUS
<1> QED
  BY <1>1

(* What the access has given, in the words of the abstract specification.  *)
LEMMA GivenByAccess ==
  ASSUME ServedUse, call \in Request, NEW k \in {"W2", "R1"}, NEW o, Gave(k, o)
  PROVE  /\ Given = [resp |-> served[1].resp, data |-> served[1].data]
         /\ Given \in Answer /\ Given # None /\ call # None
<1>1. /\ Len(served) = 1 /\ served[1].op = call.op /\ served[1].addr = call.addr
      /\ served[1].size = call.size /\ served[1].resp \in {OKAY, EXOKAY}
      /\ served[1].data \in [{"low"} -> Half]
  BY DEF Gave
<1>2. served # <<>> /\ call # None
  <2>1. served # <<>>
    BY <1>1, OneIsSome
  <2>2. call # None
    BY NoneApart, Zenon DEF NoneApart
  <2> QED
    BY <2>1, <2>2
<1>3. served[1].data \in Word(Half)
  BY <1>1, CallData DEF Word
<1>4. [resp |-> served[1].resp, data |-> served[1].data] \in Answer
  BY <1>1, <1>3 DEF Answer, OKAY, EXOKAY, DECERR
<1>5. Given = [resp |-> served[1].resp, data |-> served[1].data]
  BY <1>1, <1>2 DEF Given
<1> QED
  BY <1>2, <1>4, <1>5, NoneApart DEF NoneApart

LEMMA ReturnsGiven ==
  ASSUME ServedUse, Inv, wait_for_resp \/ wait_for_read, ~GoOn
  PROVE  call # None /\ Given # None /\ result' = Given /\ call' = None /\ Given' = None
<1>1. Master /\ MasterToGo /\ at = IF wait_for_resp THEN "write" ELSE "read"
  BY DEF wait_for_resp, wait_for_read, Master, MasterToGo
<1>2. PICK k \in Stage :
        /\ Calling(k) /\ MasterAt(k, m) /\ SlaveAt(k, masterSees)
        /\ k \in {"W2", "R1"} => Gave(k, masterSees)
  BY <1>1 DEF Inv, Handshake, MasterToGo, Together, SlaveAhead
<1>3. call \in Request /\ call.op = at /\ Typed
  BY <1>1, <1>2 DEF Calling, Inv
<1>4. ASSUME k \in {"W2", "R1"}, Return, got'.resp = served[1].resp, got'.data = served[1].data,
             got' = [resp |-> got'.resp, data |-> got'.data]
      PROVE  call # None /\ Given # None /\ result' = Given /\ call' = None /\ Given' = None
  <2>1. Given = [resp |-> served[1].resp, data |-> served[1].data] /\ Given # None /\ call # None
    BY <1>2, <1>3, <1>4, GivenByAccess
  <2>2. result' = got' /\ call' = None /\ served' = <<>>
    BY <1>4 DEF Return
  <2>3. Given' = None
    BY <2>2 DEF Given
  <2> QED
    BY <1>4, <2>1, <2>2, <2>3
<1>5. CASE wait_for_resp
  <2>1. k \in {"W0", "W1", "W2"} /\ got \in Answer /\ got.data = call.data
    BY <1>1, <1>2, <1>5 DEF Calling
  <2>3. k = "W2" /\ Return /\ got' = [resp |-> RespCode(masterSees.bresp), data |-> got.data]
    BY <1>2, <1>3, <1>5, <2>1, WriteEdge
  <2>4. served[1].resp \in {OKAY, EXOKAY} /\ served[1].data = call.data
        /\ masterSees.bresp = RespBits(served[1].resp)
    BY <1>2, <2>3 DEF Gave
  <2> QED
    BY <1>4, <2>1, <2>3, <2>4, RespRoundTrip
<1>6. CASE wait_for_read /\ ~wait_for_resp
  <2>1. k \in {"R0", "R1"}
    BY <1>1, <1>2, <1>6 DEF Calling
  <2>2. k = "R1" /\ Return /\ got' = [resp |-> RespCode(masterSees.rresp),
                                      data |-> Extract(masterSees.rdata, call.size)]
    BY <1>2, <1>3, <1>6, <2>1, ReadEdge
  <2>3. served[1].resp \in {OKAY, EXOKAY} /\ served[1].data \in [{"low"} -> Half]
        /\ masterSees.rdata["low"] = served[1].data["low"]
        /\ masterSees.rresp = RespBits(served[1].resp)
    BY <1>2, <2>2 DEF Gave
  <2>4. Extract(masterSees.rdata, call.size) = served[1].data
    BY <1>3, <2>3, CallData DEF Extract
  <2> QED
    BY <1>4, <2>2, <2>3, <2>4, RespRoundTrip
<1> QED
  BY <1>5, <1>6

(* Between calls the slave has made no access.                             *)
LEMMA IdleGivesNone == Inv /\ at = "idle" => call = None /\ served = <<>> /\ Given = None
<1> SUFFICES ASSUME Inv, at = "idle" PROVE call = None /\ served = <<>> /\ Given = None
  OBVIOUS
<1>1. ~MasterToGo
  BY DEF MasterToGo
<1>2. call = None /\ served = <<>>
  <2>1. CASE SlaveToGo
    BY <1>1, <2>1 DEF Inv, Handshake, MasterAhead, Calling
  <2>2. CASE ~SlaveToGo
    <3>1. PICK k \in Stage : Together(k)
      BY <1>1, <2>2 DEF Inv, Handshake
    <3>2. k \in {"I", "Z"}
      BY <3>1 DEF Together, Calling, Stage
    <3> QED
      BY <3>1, <3>2 DEF Together, Calling, Gave
  <2> QED
    BY <2>1, <2>2
<1> QED
  BY <1>2 DEF Given

(* The slave makes an access when it takes what a call asks for.           *)
LEMMA SlaveGives ==
  ASSUME ServedUse, Inv, Halted, simbus_axi4_slave, served' # served
  PROVE  /\ call # None /\ Given = None /\ Given' \in Answer
         /\ call.op = "write" => Given'.data = call.data
<1>1. /\ "slave" \in todo /\ phase = 0 /\ SlaveToGo /\ at # "finished" /\ do_slave_machine
      /\ UNCHANGED call /\ Typed
  BY DEF simbus_axi4_slave, do_reset, Halted, SlaveToGo, masterVars, Inv
<1>2. PICK k \in Stage, j \in Stage :
        /\ MasterAt(k, slaveSees) /\ SlaveAt(k, s) /\ Registered(k) /\ Calling(j)
        /\ k \in {"W1", "R0"} => Asked(k, slaveSees) /\ served = <<>> /\ j \in {k, After(k)}
        /\ k \notin {"W1", "R0"} => k \in {"W2", "R1"} \/ served = <<>>
  <2>1. CASE MasterToGo
    <3>1. slaveSees = m
      BY <2>1 DEF Inv, Resets, MasterToGo
    <3>2. PICK k \in Stage : Together(k)
      BY <1>1, <2>1 DEF Inv, Handshake
    <3> QED
      BY <3>1, <3>2 DEF Together, Gave
  <2>2. CASE ~MasterToGo
    BY <1>1, <2>2 DEF Inv, Handshake, MasterAhead
  <2> QED
    BY <2>1, <2>2
<1>3. k \in {"W1", "R0"}
  <2>1. k \notin {"W1", "R0"} => UNCHANGED served
    BY <1>1, <1>2, SlaveEdge
  <2> QED
    BY <2>1
<1>4. call \in Request /\ call.op = IF k = "W1" THEN "write" ELSE "read"
  BY <1>2, <1>3, AfterStages DEF Calling
<1>5. Gave(After(k), s)' /\ After(k) \in {"W2", "R1"}
  BY <1>1, <1>2, <1>3, <1>4, GaveEdge, AfterStages
<1>6. /\ Len(served') = 1 /\ served'[1].op = call.op /\ served'[1].addr = call.addr
      /\ served'[1].size = call.size /\ served'[1].resp \in {OKAY, EXOKAY}
      /\ served'[1].data \in [{"low"} -> Half]
      /\ k = "W1" => served'[1].data = call.data
  BY <1>1, <1>3, <1>5, AfterStages DEF Gave
<1>7. served' # <<>> /\ call # None /\ served = <<>>
  <2>1. served' # <<>>
    BY <1>6, OneIsSome
  <2>2. call # None
    BY <1>4, NoneApart, Zenon DEF NoneApart
  <2> QED
    BY <1>2, <1>3, <2>1, <2>2
<1>8. Given' = [resp |-> served'[1].resp, data |-> served'[1].data] /\ Given = None
  BY <1>1, <1>6, <1>7 DEF Given
<1>9. served'[1].data \in Word(Half)
  BY <1>4, <1>6, CallData DEF Word
<1> QED
  BY <1>3, <1>4, <1>6, <1>7, <1>8, <1>9 DEF Answer, OKAY, EXOKAY, DECERR

LEMMA AbstractStep ==
  ASSUME ServedUse, Inv, Halted, [Next]_vars
  PROVE  [Abstract!Next]_(Abstract!vars)
<1> USE DEF Abstract!Next, Abstract!vars
<1>0. UNCHANGED <<call, served, result>> => UNCHANGED <<call, Given, result>>
  BY DEF Given
<1>1. CASE run_run \/ UNCHANGED vars
  BY <1>0, <1>1 DEF run_run, masterVars, vars
<1>2. CASE simbus_axi4_write \/ simbus_axi4_read
  <2>1. at = "idle" /\ UNCHANGED <<served, result>>
    <3>1. CASE simbus_axi4_write
      BY <3>1 DEF simbus_axi4_write, Ready
    <3>2. CASE simbus_axi4_read
      BY <3>2 DEF simbus_axi4_read, Ready
    <3> QED
      BY <1>2, <3>1, <3>2
  <2>2. call = None /\ served = <<>> /\ Given = None
    BY <2>1, IdleGivesNone
  <2>3. call' \in Request
    <3>1. CASE simbus_axi4_write
      <4>1. PICK t \in Target : \E d \in [Lanes(t.size) -> Half] :
              call' = [op |-> "write", addr |-> t.addr, size |-> t.size, data |-> d]
        BY <3>1 DEF simbus_axi4_write
      <4> QED
        BY <4>1 DEF Target, Request, Word
    <3>2. CASE simbus_axi4_read
      <4>1. PICK t \in Target :
              call' = [op |-> "read", addr |-> t.addr, size |-> t.size, data |-> None]
        BY <3>2 DEF simbus_axi4_read
      <4> QED
        BY <4>1 DEF Target, Request
    <3> QED
      BY <1>2, <3>1, <3>2
  <2>4. Given' = None
    BY <2>1, <2>2 DEF Given
  <2> QED
    BY <2>1, <2>2, <2>3, <2>4 DEF Abstract!Call
<1>3. CASE wait_for_resp \/ wait_for_read
  <2>1. CASE GoOn
    BY <1>0, <2>1 DEF GoOn
  <2>2. CASE ~GoOn
    BY <1>3, <2>2, ReturnsGiven DEF Abstract!Return
  <2> QED
    BY <2>1, <2>2
<1>4. CASE WaitClock \/ simbus_axi4_wait \/ simbus_axi4_reset \/ simbus_axi4_end_simulation
  BY <1>0, <1>4 DEF WaitClock, simbus_axi4_wait, simbus_axi4_reset, simbus_axi4_end_simulation
<1>5. CASE simbus_axi4_slave
  <2>1. UNCHANGED <<call, result>>
    BY <1>5 DEF simbus_axi4_slave, masterVars
  <2>2. CASE UNCHANGED served
    BY <1>0, <2>1, <2>2
  <2>3. CASE served' # served
    BY <1>5, <2>1, <2>3, SlaveGives DEF Abstract!Access
  <2> QED
    BY <2>2, <2>3
<1> QED
  BY <1>1, <1>2, <1>3, <1>4, <1>5 DEF Next, MasterLibrary, Application, Stopped

(* The bus implements RemoteAccess: a read or write of the application     *)
(* makes the slave access its device once, with its own operands, and      *)
(* returns what that access gave, for any addresses, data, limits and      *)
(* waits.                                                                  *)
THEOREM OneAccessPerCallHolds ==
  ASSUME ServedUse
  PROVE  Spec => OneAccessPerCall
<1>1. Init => Abstract!Init
  BY DEF Init, Abstract!Init, Given
<1>2. Init => Halted
  BY DEF Init, Halted
<1>3. Spec => []Halted
  BY <1>2, HaltedStep, PTL DEF Spec
<1>4. Inv /\ Halted /\ [Next]_vars => [Abstract!Next]_(Abstract!vars)
  BY AbstractStep
<1> QED
  BY <1>1, <1>3, <1>4, Invariance, PTL DEF Spec, OneAccessPerCall, Abstract!Spec
=============================================================================
