------------------------------ MODULE P2p_proof ------------------------------
(***************************************************************************)
(* Proofs about P2p, for vectors of any width: with the bus as wide as its *)
(* ends an end reads what was set up for its clock edge, and the device's  *)
(* clock has no short pulses.                                              *)
(***************************************************************************)
EXTENDS P2p, SequenceTheorems, TLAPS

-----------------------------------------------------------------------------
(* Vectors                                                                 *)

LEMMA Vector ==
  ASSUME NEW n \in Nat, NEW S, NEW f \in [1..n -> S]
  PROVE  f \in Seq(S) /\ Len(f) = n
<1>1. f \in Seq(S)
  BY SeqDef
<1>2. DOMAIN f = 1..n /\ DOMAIN f = 1..Len(f) /\ Len(f) \in Nat
  BY <1>1, LenProperties
<1> QED
  BY <1>1, <1>2

LEMMA ReverseVector ==
  ASSUME NEW v \in Seq(Bit)
  PROVE  /\ Reverse(v) \in Seq(Bit) /\ Len(Reverse(v)) = Len(v)
         /\ \A i \in 1..Len(v) : Reverse(v)[i] = v[(Len(v) - i) + 1]
<1>1. Len(v) \in Nat /\ \A i \in 1..Len(v) : v[i] \in Bit
  BY LenProperties, ElementOfSeq
<1>2. \A i \in 1..Len(v) : (Len(v) - i) + 1 \in 1..Len(v)
  BY <1>1
<1>3. Reverse(v) \in [1..Len(v) -> Bit]
  BY <1>1, <1>2 DEF Reverse
<1> QED
  BY <1>1, <1>3, Vector DEF Reverse

(* What a bus that is as wide as the vector makes of what an end sends.    *)
LEMMA ReverseTwice ==
  ASSUME NEW v \in Seq(Bit)
  PROVE  Reverse(Reverse(v)) = v
<1>1. Reverse(v) \in Seq(Bit) /\ Len(Reverse(v)) = Len(v)
  BY ReverseVector
<1>2. Reverse(Reverse(v)) \in Seq(Bit) /\ Len(Reverse(Reverse(v))) = Len(v)
  BY <1>1, ReverseVector
<1>3. ASSUME NEW i \in 1..Len(v) PROVE Reverse(Reverse(v))[i] = v[i]
  <2>1. Len(v) \in Nat
    BY LenProperties
  <2>2. (Len(v) - i) + 1 \in 1..Len(v) /\ (Len(v) - ((Len(v) - i) + 1)) + 1 = i
    BY <2>1
  <2>3. Reverse(Reverse(v))[i] = Reverse(v)[(Len(v) - i) + 1]
    BY <1>1, ReverseVector
  <2>4. Reverse(v)[(Len(v) - i) + 1] = v[i]
    BY <2>2, ReverseVector
  <2> QED
    BY <2>3, <2>4
<1> QED
  BY <1>2, <1>3, SeqEqual

LEMMA FittedVector ==
  ASSUME NEW v \in Seq(Bit), NEW n \in Nat
  PROVE  /\ fitted(v, n) \in Seq(Bit) /\ Len(fitted(v, n)) = n
         /\ n = Len(v) => fitted(v, n) = v
<1>1. Len(v) \in Nat /\ \A i \in 1..Len(v) : v[i] \in Bit
  BY LenProperties, ElementOfSeq
<1>2. fitted(v, n) \in [1..n -> Bit]
  BY <1>1 DEF fitted, Bit
<1>3. fitted(v, n) \in Seq(Bit) /\ Len(fitted(v, n)) = n
  BY <1>2, Vector
<1>4. ASSUME n = Len(v) PROVE fitted(v, n) = v
  <2>1. \A i \in 1..Len(v) : fitted(v, n)[i] = v[i]
    BY <1>1, <1>4 DEF fitted
  <2> QED
    BY <1>3, <1>4, <2>1, SeqEqual
<1> QED
  BY <1>3, <1>4

(* A register keeps its width, and takes over a text of that width.        *)
LEMMA UntilVector ==
  ASSUME NEW d \in Seq(Bit), NEW old \in Seq(Bit)
  PROVE  /\ until_vector(until_text(d), old) \in Seq(Bit)
         /\ Len(until_vector(until_text(d), old)) = Len(old)
         /\ Len(d) = Len(old) => until_vector(until_text(d), old) = d
<1> DEFINE w == until_text(d)
           u == until_vector(w, old)
<1>1. /\ Len(d) \in Nat /\ Len(old) \in Nat
      /\ \A i \in 1..Len(d) : d[i] \in Bit
      /\ \A i \in 1..Len(old) : old[i] \in Bit
  BY LenProperties, ElementOfSeq
<1>2. /\ w \in Seq(Bit) /\ Len(w) = Len(d)
      /\ \A i \in 1..Len(d) : w[i] = d[(Len(d) - i) + 1]
  BY ReverseVector DEF until_text
<1>3. \A i \in 1..Len(d) : w[i] \in Bit
  BY <1>2, ElementOfSeq
<1>4. u \in [1..Len(old) -> Bit]
  <2>1. ASSUME NEW i \in 1..Len(old), Len(old) - i + 1 <= Len(w)
        PROVE  w[Len(old) - i + 1] \in Bit
    <3>1. Len(old) - i + 1 \in 1..Len(d)
      BY <1>1, <1>2, <2>1
    <3> QED
      BY <1>3, <3>1
  <2> QED
    BY <1>1, <2>1 DEF until_vector, Bit
<1>5. u \in Seq(Bit) /\ Len(u) = Len(old)
  BY <1>1, <1>4, Vector
<1>6. ASSUME Len(d) = Len(old) PROVE u = d
  <2>1. ASSUME NEW i \in 1..Len(d) PROVE u[i] = d[i]
    <3>1. Len(old) - i + 1 \in 1..Len(d) /\ (Len(d) - (Len(old) - i + 1)) + 1 = i
      BY <1>1, <1>6
    <3>2. Len(old) - i + 1 <= Len(w)
      BY <1>1, <1>2, <1>6, <3>1
    <3>3. u[i] = w[Len(old) - i + 1]
      BY <1>6, <3>2 DEF until_vector
    <3>4. w[Len(old) - i + 1] = d[i]
      BY <1>2, <3>1
    <3> QED
      BY <3>3, <3>4
  <2> QED
    BY <1>5, <1>6, <2>1, SeqEqual
<1> QED
  BY <1>5, <1>6

-----------------------------------------------------------------------------
(* Types                                                                   *)

LEMMA Widths ==
  \A c \in Client : /\ OutWidth(c) \in Nat /\ BusWidth(c) \in Nat /\ Peer(c) \in Client
                    /\ SameWidths => BusWidth(c) = OutWidth(c)
  BY P2pConstantsOK DEF P2pConstantsOK, OutWidth, BusWidth, Peer, Client, SameWidths

LEMMA AllVector ==
  ASSUME NEW n \in Nat, NEW b \in Bit
  PROVE  All(n, b) \in Seq(Bit) /\ Len(All(n, b)) = n
  BY Vector DEF All

LEMMA TypeInit == Init => TypeOK
<1> SUFFICES ASSUME Init PROVE TypeOK
  OBVIOUS
<1>1. \A c \in Client :
        /\ All(OutWidth(c), "x") \in Seq(Bit) /\ Len(All(OutWidth(c), "x")) = OutWidth(c)
        /\ All(OutWidth(Peer(c)), "x") \in Seq(Bit)
        /\ Len(All(OutWidth(Peer(c)), "x")) = OutWidth(Peer(c))
        /\ All(BusWidth(Peer(c)), "z") \in Seq(Bit)
        /\ Len(All(BusWidth(Peer(c)), "z")) = BusWidth(Peer(c))
  BY Widths, AllVector DEF Bit
<1>2. /\ output \in [Client -> Seq(Bit)] /\ input \in [Client -> Seq(Bit)]
      /\ edge \in [Client -> Seq(Bit)] /\ send \in [Client -> [clock : Bit \ {"x"}, data : Seq(Bit)]]
      /\ \A c \in Client : /\ Len(output[c]) = OutWidth(c)
                           /\ {Len(input[c]), Len(edge[c])} = {OutWidth(Peer(c))}
                           /\ Len(send[c].data) = BusWidth(Peer(c))
  BY <1>1 DEF Init, Bit
<1>3. cycles \in [Client -> 0..MaxCycles]
  BY P2pConstantsOK DEF P2pConstantsOK, Init
<1>4. inbox \subseteq {c \in Client : pc[c] = "sent"} /\ finished \in BOOLEAN
  BY DEF Init
<1>5. /\ pc \in [Client -> {"idle", "clock", "sent", "done", "aborted"}]
      /\ goal \in [Client -> {"0", "1"}] /\ look \in [Client -> {"away", "edge"}]
      /\ clock \in [Client -> Bit]
      /\ clock_mode \in Mode /\ master_clock_mode_ \in Mode /\ phase_ \in 0..3
  BY DEF Init, Bit, Mode
<1> QED
  BY <1>2, <1>3, <1>4, <1>5 DEF TypeOK

(* What a look at the clock leaves of a call.                              *)
LEMMA LoopType ==
  ASSUME NEW to \in {"0", "1"}, NEW where \in {"away", "edge"}, NEW n \in 1..MaxCycles,
         NEW clk \in Bit
  PROVE  /\ Loop(to, where, n, clk).look \in {"away", "edge"}
         /\ Loop(to, where, n, clk).cycles \in 0..MaxCycles
         /\ Loop(to, where, n, clk).cycles = 0 => where = "edge" /\ clk = to
         /\ Loop(to, where, n, clk).look = "edge" => clk # to
         /\ Loop(to, where, n, clk).look = "edge" /\ clk = "x" => where = "edge"
  BY P2pConstantsOK DEF P2pConstantsOK, Loop, Bit

(* What the bus carries from an end to the other.                          *)
LEMMA DataType ==
  ASSUME TypeOK, NEW c \in Client
  PROVE  LET data == fitted(received(ready_vector(output[Peer(c)])), BusWidth(Peer(c)))
         IN  /\ data \in Seq(Bit) /\ Len(data) = BusWidth(Peer(c))
             /\ SameWidths => data = output[Peer(c)]
<1>1. output[Peer(c)] \in Seq(Bit) /\ Len(output[Peer(c)]) = OutWidth(Peer(c))
  BY Widths DEF TypeOK
<1>2. received(ready_vector(output[Peer(c)])) = output[Peer(c)]
  BY <1>1, ReverseTwice DEF received, ready_vector
<1> QED
  BY <1>1, <1>2, Widths, FittedVector


(* The parts of TypeOK, for the steps below.                               *)
Ends ==
  /\ pc \in [Client -> {"idle", "clock", "sent", "done", "aborted"}]
  /\ goal \in [Client -> {"0", "1"}] /\ look \in [Client -> {"away", "edge"}]
  /\ cycles \in [Client -> 0..MaxCycles] /\ clock \in [Client -> Bit]
Registers ==
  /\ output \in [Client -> Seq(Bit)] /\ input \in [Client -> Seq(Bit)]
  /\ edge \in [Client -> Seq(Bit)] /\ send \in [Client -> [clock : Bit \ {"x"}, data : Seq(Bit)]]
  /\ \A c \in Client : /\ Len(output[c]) = OutWidth(c)
                       /\ {Len(input[c]), Len(edge[c])} = {OutWidth(Peer(c))}
                       /\ Len(send[c].data) = BusWidth(Peer(c))
Server ==
  /\ clock_mode \in Mode /\ master_clock_mode_ \in Mode /\ phase_ \in 0..3
  /\ inbox \subseteq {c \in Client : pc[c] = "sent"} /\ finished \in BOOLEAN

LEMMA TypeParts == TypeOK <=> Ends /\ Registers /\ Server
  BY DEF TypeOK, Ends, Registers, Server

(* A call that waits stays with its end.                                   *)
LEMMA CallKept ==
  ASSUME TypeOK, NEW c \in Client, NEW to \in {"0", "1"}, NEW where \in {"away", "edge"},
         NEW n \in 1..MaxCycles, NEW clk \in Bit, InLoop(c, to, Loop(to, where, n, clk)),
         clock' \in [Client -> Bit]
  PROVE  Ends'
  BY LoopType DEF TypeOK, InLoop, Ends

LEMMA TypeStep == TypeOK /\ Waiting /\ [Next]_vars => TypeOK'
<1> SUFFICES ASSUME TypeOK, Waiting, [Next]_vars PROVE Ends' /\ Registers' /\ Server'
  BY DEF TypeOK, Ends, Registers, Server
<1>0. Ends /\ Registers /\ Server
  BY TypeParts
<1>1. ASSUME NEW c \in Client, simbus_p2p_out(c) PROVE Ends' /\ Registers' /\ Server'
  <2>1. Ends' /\ Server'
    BY <1>0, <1>1 DEF simbus_p2p_out, Ends, Server, callVars, regVars, busVars
  <2>2. PICK w \in Words[c] : output' = [output EXCEPT ![c] = w]
    BY <1>1 DEF simbus_p2p_out
  <2>3. w \in Seq(Bit) /\ Len(w) = OutWidth(c)
    <3>1. w \in Seq({"0", "1"}) /\ Len(w) = OutWidth(c)
      BY P2pConstantsOK DEF P2pConstantsOK
    <3>2. {"0", "1"} \subseteq Bit
      BY DEF Bit
    <3> QED
      BY <3>1, <3>2, SeqMonotonic
  <2> QED
    BY <1>0, <1>1, <2>1, <2>2, <2>3 DEF simbus_p2p_out, Registers, regVars, busVars
<1>2. ASSUME NEW c \in Client, Clocking(c) PROVE Ends' /\ Registers' /\ Server'
  <2>1. PICK to \in {"0", "1"} : \E n \in 1..MaxCycles : InLoop(c, to, Loop(to, "away", n, clock[c]))
    BY <1>2 DEF Clocking, simbus_p2p_clock_posedge, simbus_p2p_clock_negedge
  <2>2. PICK n \in 1..MaxCycles : InLoop(c, to, Loop(to, "away", n, clock[c]))
    BY <2>1
  <2>3. pc[c] = "idle" /\ UNCHANGED <<regVars, output, clock_mode, busVars, inbox>>
    BY <1>2 DEF Clocking, simbus_p2p_clock_posedge, simbus_p2p_clock_negedge
  <2>4. Ends'
    BY <1>0, <2>2, <2>3, CallKept DEF Ends, regVars
  <2>5. Registers'
    BY <1>0, <2>3 DEF Registers, regVars, busVars
  <2>6. pc' = [pc EXCEPT ![c] = pc'[c]]
    BY <1>0, <2>2 DEF InLoop, Ends
  <2>7. Server'
    BY <1>0, <2>3, <2>6 DEF Server, Ends, busVars
  <2> QED
    BY <2>4, <2>5, <2>7
<1>3. ASSUME NEW c \in Client, send_ready_p2p(c) PROVE Ends' /\ Registers' /\ Server'
  <2>1. Ends' /\ Registers'
    BY <1>0, <1>3 DEF send_ready_p2p, Ends, Registers, callVars, regVars, busVars
  <2>2. Server'
    BY <1>0, <1>3 DEF send_ready_p2p, Ends, Server, busVars
  <2> QED
    BY <2>1, <2>2
<1>4. ASSUME NEW c \in Client, until_received(c) PROVE Ends' /\ Registers' /\ Server'
  <2>1. pc[c] = "sent" /\ cycles[c] \in 1..MaxCycles
    BY <1>0, <1>4 DEF until_received, Server, Ends, Waiting
  <2>2. Ends'
    <3>1. CASE finished
      BY <1>0, <1>4, <3>1 DEF until_received, Ends, callVars, regVars
    <3>2. CASE ~finished
      <4>1. clock' \in [Client -> Bit]
        <5>1. clock' = [clock EXCEPT ![c] = send[c].clock]
          BY <1>4, <3>2 DEF until_received
        <5>2. send[c].clock \in Bit
          BY <1>0 DEF Registers
        <5> QED
          BY <1>0, <5>1, <5>2 DEF Ends
      <4>2. CASE until_text(send[c].data) = <<>>
        BY <1>0, <1>4, <3>2, <4>1, <4>2 DEF until_received, Ends, callVars
      <4>3. CASE until_text(send[c].data) # <<>>
        <5>1. InLoop(c, goal[c], Loop(goal[c], look[c], cycles[c], send[c].clock))
          BY <1>4, <3>2, <4>3 DEF until_received
        <5>2. goal[c] \in {"0", "1"} /\ look[c] \in {"away", "edge"} /\ send[c].clock \in Bit
          BY <1>0 DEF Ends, Registers
        <5> QED
          BY <2>1, <4>1, <5>1, <5>2, CallKept
      <4> QED
        BY <4>2, <4>3
    <3> QED
      BY <3>1, <3>2
  <2>3. Registers'
    <3>1. UNCHANGED <<output, edge, send>>
      BY <1>4 DEF until_received, busVars
    <3>2. input' \in [Client -> Seq(Bit)] /\ \A e \in Client : Len(input'[e]) = Len(input[e])
      <4>1. CASE UNCHANGED input
        BY <1>0, <4>1 DEF Registers
      <4>2. CASE input' = [input EXCEPT ![c] = until_vector(until_text(send[c].data), @)]
        BY <1>0, <4>2, UntilVector DEF Registers
      <4> QED
        BY <1>4, <4>1, <4>2 DEF until_received, regVars
    <3> QED
      BY <1>0, <3>1, <3>2 DEF Registers
  <2>4. inbox' = inbox \ {c} /\ UNCHANGED <<clock_mode, master_clock_mode_, phase_, finished>>
    BY <1>4 DEF until_received, busVars
  <2>5. \A e \in Client \ {c} : pc'[e] = pc[e]
    BY <1>0, <1>4 DEF until_received, InLoop, Ends
  <2>6. Server'
    BY <1>0, <2>4, <2>5 DEF Server
  <2> QED
    BY <2>2, <2>3, <2>6
<1>5. ASSUME NEW c \in Client, simbus_p2p_end_simulation(c) PROVE Ends' /\ Registers' /\ Server'
  <2>1. Ends' /\ Registers'
    BY <1>0, <1>5 DEF simbus_p2p_end_simulation, Ends, Registers, callVars, regVars, busVars
  <2>2. Server'
    BY <1>0, <1>5 DEF simbus_p2p_end_simulation, Ends, Server, busVars
  <2> QED
    BY <2>1, <2>2
<1>6. CASE simbus_p2p_clock_mode
  <2>1. Ends' /\ Registers'
    BY <1>0, <1>6 DEF simbus_p2p_clock_mode, Ends, Registers, callVars, regVars, busVars
  <2>2. Server'
    BY <1>0, <1>6 DEF simbus_p2p_clock_mode, Server, busVars
  <2> QED
    BY <2>1, <2>2
<1>7. CASE run_run
  <2>1. Ends'
    BY <1>0, <1>7 DEF run_run, Ends, callVars, regVars
  <2>2. Registers'
    <3> DEFINE data(c) == fitted(received(ready_vector(output[Peer(c)])), BusWidth(Peer(c)))
               clk(c)  == IF c = "host" THEN master_clock ELSE slave_clock
    <3>1. \A c \in Client : clk(c) \in Bit \ {"x"}
      BY <1>0 DEF Server, master_clock, slave_clock, bus_clk, gated, Mode, Bit
    <3>2. \A c \in Client : data(c) \in Seq(Bit) /\ Len(data(c)) = BusWidth(Peer(c))
      BY DataType
    <3>3. /\ send' = [c \in Client |-> [clock |-> clk(c), data |-> data(c)]]
          /\ edge' = [c \in Client |-> IF send[c].clock # "1" /\ clk(c) = "1"
                                       THEN output[Peer(c)] ELSE edge[c]]
          /\ UNCHANGED <<input, output>>
      BY <1>7 DEF run_run, regVars
    <3> HIDE DEF data, clk
    <3>4. /\ send' \in [Client -> [clock : Bit \ {"x"}, data : Seq(Bit)]]
          /\ \A c \in Client : Len(send'[c].data) = BusWidth(Peer(c))
      BY <3>1, <3>2, <3>3
    <3>5. edge' \in [Client -> Seq(Bit)] /\ \A c \in Client : Len(edge'[c]) = OutWidth(Peer(c))
      BY <1>0, <3>3, Widths DEF Registers
    <3> QED
      BY <1>0, <3>3, <3>4, <3>5 DEF Registers
  <2>3. Server'
    BY <1>0, <1>7 DEF run_run, Server, Ends, Gone, advance_bus_clock_
  <2> QED
    BY <2>1, <2>2, <2>3
<1>8. CASE UNCHANGED vars
  <2>1. Ends' /\ Registers'
    BY <1>0, <1>8 DEF vars, Ends, Registers, callVars, regVars, busVars
  <2>2. Server'
    BY <1>0, <1>8 DEF vars, Server, busVars
  <2> QED
    BY <2>1, <2>2
<1> QED
  BY <1>1, <1>2, <1>3, <1>4, <1>5, <1>6, <1>7, <1>8 DEF Next, Stopped


-----------------------------------------------------------------------------
(* Calls                                                                   *)

(* A step of an end between UNTILs: its call begins, goes on to its READY, *)
(* or it leaves; the registers and the bus stay as they are.               *)
LEMMA BetweenUntils ==
  ASSUME Calls, NEW c \in Client,
         simbus_p2p_out(c) \/ Clocking(c) \/ send_ready_p2p(c) \/ simbus_p2p_end_simulation(c)
  PROVE  /\ UNCHANGED <<regVars, clock_mode, busVars, inbox>>
         /\ pc[c] \in {"idle", "clock"} /\ pc'[c] \in {"idle", "clock", "sent", "done"}
         /\ pc'[c] = "idle" => pc[c] = "idle"
         /\ pc'[c] \in {"clock", "sent"} =>
              cycles'[c] > 0 /\ (look'[c] = "edge" => clock[c] \notin {goal'[c], "x"})
         /\ \A e \in Client \ {c} : UNCHANGED <<pc[e], goal[e], look[e], cycles[e]>>
<1> USE DEF Calls
<1>1. CASE simbus_p2p_out(c)
  BY <1>1 DEF simbus_p2p_out, callVars, TypeOK
<1>2. CASE Clocking(c)
  <2>1. PICK to \in {"0", "1"} : \E n \in 1..MaxCycles : InLoop(c, to, Loop(to, "away", n, clock[c]))
    BY <1>2 DEF Clocking, simbus_p2p_clock_posedge, simbus_p2p_clock_negedge
  <2>2. PICK n \in 1..MaxCycles : InLoop(c, to, Loop(to, "away", n, clock[c]))
    BY <2>1
  <2>3. pc[c] = "idle" /\ UNCHANGED <<regVars, output, clock_mode, busVars, inbox>>
    BY <1>2 DEF Clocking, simbus_p2p_clock_posedge, simbus_p2p_clock_negedge
  <2> DEFINE l == Loop(to, "away", n, clock[c])
  <2>4. clock[c] \in Bit
    BY DEF TypeOK
  <2>5. /\ l.cycles \in 0..MaxCycles /\ l.cycles # 0
        /\ l.look = "edge" => clock[c] \notin {to, "x"}
    BY <2>4, LoopType
  <2> HIDE DEF l
  <2>6. /\ goal' = [goal EXCEPT ![c] = to] /\ look' = [look EXCEPT ![c] = l.look]
        /\ cycles' = [cycles EXCEPT ![c] = l.cycles] /\ pc' = [pc EXCEPT ![c] = "clock"]
    BY <2>2, <2>5 DEF InLoop, l
  <2>7. l.cycles > 0
    BY <2>5, P2pConstantsOK DEF P2pConstantsOK
  <2> QED
    BY <2>3, <2>5, <2>6, <2>7 DEF TypeOK
<1>3. CASE send_ready_p2p(c)
  BY <1>3 DEF send_ready_p2p, callVars, TypeOK, Waiting
<1>4. CASE simbus_p2p_end_simulation(c)
  BY <1>4 DEF simbus_p2p_end_simulation, callVars, TypeOK
<1> QED
  BY <1>1, <1>2, <1>3, <1>4

(* The UNTIL of an end: it leaves, or its call goes on, or the clock has   *)
(* had the edge that the call waited for and it returns.                   *)
LEMMA UntilTaken ==
  ASSUME Calls, NEW c \in Client, until_received(c)
  PROVE  /\ inbox' = inbox \ {c} /\ c \in inbox /\ pc[c] = "sent"
         /\ UNCHANGED <<output, clock_mode, busVars>>
         /\ \A e \in Client \ {c} :
              UNCHANGED <<pc[e], goal[e], look[e], cycles[e], clock[e], input[e]>>
         /\ \/ pc'[c] \in {"done", "aborted"}
            \/ /\ pc'[c] = "clock" /\ clock'[c] = send[c].clock /\ cycles'[c] > 0
               /\ look'[c] = "edge" => clock'[c] \notin {goal'[c], "x"}
            \/ /\ pc'[c] = "idle" /\ clock'[c] = send[c].clock
               /\ look[c] = "edge" /\ send[c].clock = goal[c]
               /\ input'[c] = until_vector(until_text(send[c].data), input[c])
<1> USE DEF Calls
<1>1. /\ inbox' = inbox \ {c} /\ c \in inbox /\ pc[c] = "sent"
      /\ UNCHANGED <<output, clock_mode, busVars>>
  BY DEF until_received, TypeOK
<1>2. CASE finished
  BY <1>1, <1>2 DEF until_received, callVars, regVars, TypeOK
<1>3. CASE ~finished
  <2> DEFINE l == Loop(goal[c], look[c], cycles[c], send[c].clock)
  <2>1. /\ clock' = [clock EXCEPT ![c] = send[c].clock]
        /\ input' = [input EXCEPT ![c] = until_vector(until_text(send[c].data), input[c])]
    BY <1>3 DEF until_received
  <2>2. CASE until_text(send[c].data) = <<>>
    BY <1>1, <1>3, <2>1, <2>2 DEF until_received, callVars, TypeOK
  <2>3. CASE until_text(send[c].data) # <<>>
    <3>1. /\ goal' = [goal EXCEPT ![c] = goal[c]] /\ look' = [look EXCEPT ![c] = l.look]
          /\ cycles' = [cycles EXCEPT ![c] = l.cycles]
          /\ pc' = [pc EXCEPT ![c] = IF l.cycles = 0 THEN "idle" ELSE "clock"]
      BY <1>3, <2>3 DEF until_received, InLoop
    <3>2. /\ goal[c] \in {"0", "1"} /\ look[c] \in {"away", "edge"}
          /\ cycles[c] \in 1..MaxCycles /\ send[c].clock \in Bit \ {"x"}
      BY <1>1 DEF TypeOK, Waiting
    <3>3. /\ l.cycles \in 0..MaxCycles
          /\ l.cycles = 0 => look[c] = "edge" /\ send[c].clock = goal[c]
          /\ l.look = "edge" => send[c].clock # goal[c]
      BY <3>2, LoopType
    <3> HIDE DEF l
    <3>4. \A e \in Client \ {c} :
            UNCHANGED <<pc[e], goal[e], look[e], cycles[e], clock[e], input[e]>>
      BY <2>1, <3>1 DEF TypeOK
    <3>5. /\ pc'[c] = IF l.cycles = 0 THEN "idle" ELSE "clock"
          /\ goal'[c] = goal[c] /\ look'[c] = l.look /\ cycles'[c] = l.cycles
          /\ clock'[c] = send[c].clock
          /\ input'[c] = until_vector(until_text(send[c].data), input[c])
      BY <2>1, <3>1 DEF TypeOK
    <3>6. l.cycles # 0 => l.cycles > 0
      BY <3>3, P2pConstantsOK DEF P2pConstantsOK
    <3> QED
      BY <1>1, <3>2, <3>3, <3>4, <3>5, <3>6
  <2> QED
    BY <2>2, <2>3
<1> QED
  BY <1>2, <1>3

(* The bus steps when no end is between calls or has an UNTIL to come.     *)
LEMMA BusSteps ==
  ASSUME Calls, run_run
  PROVE  /\ UNCHANGED <<pc, callVars, regVars, output, clock_mode>>
         /\ \A c \in Client : Gone(c) \/ (pc[c] = "sent" /\ c \notin inbox /\ c \in inbox')
         /\ inbox' \subseteq {c \in Client : ~Gone(c)}
         /\ <<phase_, phase_'>> \in {<<0, 1>>, <<1, 2>>, <<2, 3>>, <<3, 0>>}
<1>1. phase_ \in 0..3 /\ phase_' = (phase_ + 1) % 4
  BY DEF Calls, TypeOK, run_run, advance_bus_clock_
<1>2. <<phase_, phase_'>> \in {<<0, 1>>, <<1, 2>>, <<2, 3>>, <<3, 0>>}
  <2>1. phase_ \in {0, 1, 2, 3}
    BY <1>1
  <2>2. phase_ = 0 => phase_' = 1
    BY <1>1
  <2>3. phase_ = 1 => phase_' = 2
    BY <1>1
  <2>4. phase_ = 2 => phase_' = 3
    BY <1>1
  <2>5. phase_ = 3 => phase_' = 0
    BY <1>1
  <2> QED
    BY <2>1, <2>2, <2>3, <2>4, <2>5
<1> QED
  BY <1>2 DEF run_run

LEMMA CallsStep == Calls /\ [Next]_vars => Calls'
<1> SUFFICES ASSUME Calls, [Next]_vars PROVE Waiting' /\ Told'
  BY TypeStep DEF Calls
<1>1. ASSUME NEW c \in Client,
             simbus_p2p_out(c) \/ Clocking(c) \/ send_ready_p2p(c) \/ simbus_p2p_end_simulation(c)
      PROVE  Waiting' /\ Told'
  BY <1>1, BetweenUntils DEF Calls, Waiting, Told, Gone, regVars, busVars
<1>2. ASSUME NEW c \in Client, until_received(c) PROVE Waiting' /\ Told'
  BY <1>2, UntilTaken DEF Calls, Waiting, Told, Gone, busVars
<1>3. CASE simbus_p2p_clock_mode
  BY <1>3 DEF simbus_p2p_clock_mode, Calls, Waiting, Told, Gone, callVars, regVars, busVars
<1>4. CASE run_run
  BY <1>4, BusSteps DEF Calls, Waiting, Told, Gone, callVars, regVars
<1>5. CASE UNCHANGED vars
  BY <1>5 DEF vars, Calls, Waiting, Told, Gone, callVars, regVars, busVars
<1> QED
  BY <1>1, <1>2, <1>3, <1>4, <1>5 DEF Next, Stopped

LEMMA CallsInit == Init => Calls
  BY TypeInit DEF Init, Calls, Waiting, Told

(* A call waits with cycles left, and an end knows the clock of its last   *)
(* UNTIL, for any widths.                                                  *)
THEOREM CallsHold == Spec => []Calls
<1> QED
  BY CallsInit, CallsStep, PTL DEF Spec

(* The types are right in every state, registers keep their width, and an  *)
(* UNTIL goes only to an end that has sent READY.                          *)
THEOREM TypeCorrect == Spec => []TypeOK
<1>1. Calls => TypeOK
  BY DEF Calls
<1> QED
  BY <1>1, CallsHold, PTL

-----------------------------------------------------------------------------
(* What an end reads                                                       *)

LEMMA ReadsStep ==
  ASSUME SameWidths
  PROVE  InvReads /\ [Next]_vars => InvReads'
<1> SUFFICES ASSUME InvReads, [Next]_vars PROVE Caught' /\ SetUp'
  BY CallsStep DEF InvReads
<1>0. Calls /\ Caught /\ SetUp
  BY DEF InvReads
<1>1. ASSUME NEW c \in Client,
             simbus_p2p_out(c) \/ Clocking(c) \/ send_ready_p2p(c) \/ simbus_p2p_end_simulation(c)
      PROVE  Caught' /\ SetUp'
  BY <1>0, <1>1, BetweenUntils DEF Caught, SetUp, regVars, busVars
<1>2. ASSUME NEW c \in Client, until_received(c) PROVE Caught' /\ SetUp'
  <2>1. inbox \subseteq Client /\ UNCHANGED <<send, edge>>
    BY <1>0, <1>2, UntilTaken DEF Calls, TypeOK, busVars
  <2>2. Caught'
    BY <1>0, <1>2, <2>1, UntilTaken DEF Caught
  <2>3. ASSUME pc'[c] = "idle", clock'[c] = "1" PROVE input'[c] = edge[c]
    <3>1. /\ look[c] = "edge" /\ send[c].clock = goal[c] /\ send[c].clock = "1"
          /\ input'[c] = until_vector(until_text(send[c].data), input[c])
          /\ c \in inbox /\ pc[c] = "sent"
      BY <1>0, <1>2, <2>3, UntilTaken
    <3>2. clock[c] \notin {"1", "x"}
      BY <1>0, <3>1 DEF Calls, Waiting
    <3>3. edge[c] = send[c].data
      BY <1>0, <3>1, <3>2 DEF Caught
    <3>4. /\ send[c].data \in Seq(Bit) /\ input[c] \in Seq(Bit)
          /\ Len(send[c].data) = Len(input[c])
      <4>1. /\ send[c].data \in Seq(Bit) /\ input[c] \in Seq(Bit)
            /\ Len(send[c].data) = BusWidth(Peer(c))
        BY <1>0 DEF Calls, TypeOK
      <4>2. {Len(input[c]), Len(edge[c])} = {OutWidth(Peer(c))}
        BY <1>0 DEF Calls, TypeOK
      <4>3. BusWidth(Peer(c)) = OutWidth(Peer(c))
        BY Widths
      <4> QED
        BY <4>1, <4>2, <4>3
    <3>5. input'[c] = send[c].data
      BY <3>1, <3>4, UntilVector
    <3> QED
      BY <3>3, <3>5
  <2>4. SetUp'
    BY <1>0, <1>2, <2>1, <2>3, UntilTaken DEF SetUp
  <2> QED
    BY <2>2, <2>4
<1>3. CASE simbus_p2p_clock_mode
  BY <1>0, <1>3 DEF simbus_p2p_clock_mode, Caught, SetUp, regVars, busVars
<1>4. CASE run_run
  <2> DEFINE data(c) == fitted(received(ready_vector(output[Peer(c)])), BusWidth(Peer(c)))
             clk(c)  == IF c = "host" THEN master_clock ELSE slave_clock
  <2>1. SetUp'
    BY <1>0, <1>4, BusSteps DEF SetUp, Gone, regVars
  <2>2. ASSUME NEW c \in inbox', clock'[c] \notin {"1", "x"}, send'[c].clock = "1"
        PROVE  edge'[c] = send'[c].data
    <3>1. c \in Client /\ clock[c] \notin {"1", "x"} /\ ~Gone(c) /\ c \notin inbox
      BY <1>0, <1>4, <2>2, BusSteps DEF regVars
    <3>2. send[c].clock # "1"
      BY <1>0, <3>1 DEF Calls, Told
    <3>3. /\ send' = [e \in Client |-> [clock |-> clk(e), data |-> data(e)]]
          /\ edge' = [e \in Client |-> IF send[e].clock # "1" /\ clk(e) = "1"
                                       THEN output[Peer(e)] ELSE edge[e]]
      BY <1>4 DEF run_run
    <3>4. data(c) = output[Peer(c)]
      BY <1>0, <3>1, DataType DEF Calls
    <3> HIDE DEF data, clk
    <3> QED
      BY <2>2, <3>1, <3>2, <3>3, <3>4
  <2> QED
    BY <2>1, <2>2 DEF Caught
<1>5. CASE UNCHANGED vars
  BY <1>0, <1>5 DEF vars, Caught, SetUp, regVars, busVars
<1> QED
  BY <1>1, <1>2, <1>3, <1>4, <1>5 DEF Next, Stopped

(* ReadsWhatWasSetUp: for vectors of any width, as long as the bus is as   *)
(* wide as its ends, an end that is back from a posedge reads what the     *)
(* other end had put out when the clock rose.                              *)
THEOREM ReadsWhatWasSetUpHolds ==
  ASSUME SameWidths
  PROVE  Spec => []ReadsWhatWasSetUp
<1>1. Init => InvReads
  BY CallsInit DEF Init, InvReads, Caught, SetUp
<1>2. InvReads /\ [Next]_vars => InvReads'
  BY ReadsStep
<1>3. InvReads => ReadsWhatWasSetUp
  BY DEF InvReads, SetUp, ReadsWhatWasSetUp
<1> QED
  BY <1>1, <1>2, <1>3, PTL DEF Spec

-----------------------------------------------------------------------------
(* The clocks                                                              *)

LEMMA ClockStep == InvClock /\ [Next]_vars => InvClock'
<1> SUFFICES ASSUME InvClock, [Next]_vars PROVE HostClock' /\ DeviceClock'
  BY CallsStep DEF InvClock
<1>0. Calls /\ HostClock /\ DeviceClock /\ "host" \in Client
  BY DEF InvClock, Client
<1>1. ASSUME NEW c \in Client,
             simbus_p2p_out(c) \/ Clocking(c) \/ send_ready_p2p(c) \/ simbus_p2p_end_simulation(c)
      PROVE  HostClock' /\ DeviceClock'
  <2>1. /\ pc'["host"] = "idle" => pc["host"] = "idle"
        /\ Gone("host") => Gone("host")'
    BY <1>0, <1>1, BetweenUntils DEF Gone
  <2>2. UNCHANGED <<clock, phase_, send, master_clock_mode_, clock_mode, inbox>>
    BY <1>0, <1>1, BetweenUntils DEF regVars, busVars
  <2> QED
    BY <1>0, <2>1, <2>2 DEF HostClock, DeviceClock
<1>2. ASSUME NEW c \in Client, until_received(c) PROVE HostClock' /\ DeviceClock'
  <2>1. UNCHANGED <<phase_, send, master_clock_mode_, clock_mode>> /\ inbox' = inbox \ {c}
    BY <1>0, <1>2, UntilTaken DEF busVars
  <2>2. DeviceClock'
    BY <1>0, <2>1 DEF DeviceClock
  <2>3. CASE c # "host"
    <3>1. UNCHANGED <<pc["host"], clock["host"]>>
      BY <1>0, <1>2, <2>3, UntilTaken
    <3> QED
      BY <1>0, <2>1, <2>2, <2>3, <3>1 DEF HostClock, Gone
  <2>4. CASE c = "host"
    <3>1. clock'["host"] = send["host"].clock \/ Gone("host")'
      BY <1>0, <1>2, <2>4, UntilTaken DEF Gone
    <3>2. ASSUME pc'["host"] = "idle" PROVE phase_ \in {0, 2}
      <4>1. look["host"] = "edge" /\ send["host"].clock = goal["host"]
            /\ "host" \in inbox /\ pc["host"] = "sent"
        BY <1>0, <1>2, <2>4, <3>2, UntilTaken
      <4>2. clock["host"] # send["host"].clock /\ clock["host"] # "x"
        BY <1>0, <4>1 DEF Calls, Waiting
      <4>3. phase_ \in 0..3
        BY <1>0 DEF Calls, TypeOK
      <4>4. clock["host"] = IF phase_ \in {1, 2} THEN "1" ELSE "0"
        BY <1>0, <4>1, <4>2 DEF HostClock, Gone
      <4>5. send["host"].clock = IF phase_ < 2 THEN "1" ELSE "0"
        BY <1>0 DEF HostClock
      <4> QED
        BY <4>2, <4>3, <4>4, <4>5
    <3>3. send["host"].clock # "x"
      BY <1>0 DEF HostClock
    <3> QED
      BY <1>0, <2>1, <2>2, <2>4, <3>1, <3>2, <3>3 DEF HostClock
  <2> QED
    BY <2>3, <2>4
<1>3. CASE simbus_p2p_clock_mode
  <2>1. phase_ \in {0, 2}
    BY <1>0, <1>3 DEF simbus_p2p_clock_mode, HostClock
  <2> QED
    BY <1>0, <1>3, <2>1
    DEF simbus_p2p_clock_mode, HostClock, DeviceClock, Gone, regVars, busVars
<1>4. CASE run_run
  <2>1. /\ send'["host"].clock = IF phase_' < 2 THEN "1" ELSE "0"
        /\ send'["device"].clock = gated(master_clock_mode_, send'["host"].clock)
    <3>1. phase_' \div 2 = 0 <=> phase_' < 2
      BY <1>0, <1>4, BusSteps
    <3>2. bus_clk = IF phase_' < 2 THEN "1" ELSE "0"
      BY <3>1 DEF bus_clk
    <3>3. send'["host"].clock = bus_clk /\ send'["device"].clock = gated(master_clock_mode_, bus_clk)
      BY <1>4 DEF run_run, master_clock, slave_clock, Client
    <3> QED
      BY <3>2, <3>3
  <2>2. HostClock'
    <3>1. UNCHANGED <<pc, clock>> /\ pc["host"] # "idle"
      BY <1>0, <1>4, BusSteps DEF regVars, Gone
    <3>2. ~Gone("host") => "host" \notin inbox /\ "host" \in inbox'
      BY <1>0, <1>4, BusSteps
    <3>3. ~Gone("host") => \/ clock["host"] = "x" /\ phase_ = 0
                           \/ clock["host"] = send["host"].clock
      BY <1>0, <3>2 DEF Calls, Told, HostClock
    <3>4. send["host"].clock = IF phase_ < 2 THEN "1" ELSE "0"
      BY <1>0 DEF HostClock
    <3> QED
      BY <1>0, <1>4, <2>1, <3>1, <3>2, <3>3, <3>4, BusSteps DEF HostClock, Gone
  <2>3. DeviceClock'
    <3>1. master_clock_mode_' = clock_mode /\ UNCHANGED clock_mode
      BY <1>4 DEF run_run
    <3>2. phase_' \in {0, 2} => phase_ \in {1, 3}
      BY <1>0, <1>4, BusSteps
    <3> QED
      BY <1>0, <2>1, <3>1, <3>2 DEF DeviceClock
  <2> QED
    BY <2>2, <2>3
<1>5. CASE UNCHANGED vars
  BY <1>0, <1>5 DEF vars, HostClock, DeviceClock, Gone, regVars, busVars
<1> QED
  BY <1>1, <1>2, <1>3, <1>4, <1>5 DEF Next, Stopped

(* In a phase without an edge of the host's clock the device's clock stays *)
(* as it is.                                                               *)
LEMMA NoPulse ==
  ASSUME InvClock, [Next]_vars, send'["device"].clock # send["device"].clock
  PROVE  send'["host"].clock # send["host"].clock
<1>0. Calls /\ HostClock /\ DeviceClock
  BY DEF InvClock
<1>1. run_run
  <2>1. ASSUME NEW c \in Client,
               simbus_p2p_out(c) \/ Clocking(c) \/ send_ready_p2p(c) \/ simbus_p2p_end_simulation(c)
        PROVE  UNCHANGED send
    BY <1>0, <2>1, BetweenUntils DEF busVars
  <2>2. ASSUME NEW c \in Client, until_received(c) PROVE UNCHANGED send
    BY <1>0, <2>2, UntilTaken DEF busVars
  <2>3. simbus_p2p_clock_mode \/ UNCHANGED vars => UNCHANGED send
    BY DEF simbus_p2p_clock_mode, vars, busVars
  <2> QED
    BY <2>1, <2>2, <2>3 DEF Next, Stopped
<1>2. /\ send["host"].clock = IF phase_ < 2 THEN "1" ELSE "0"
      /\ send'["host"].clock = IF phase_' < 2 THEN "1" ELSE "0"
  BY <1>0, ClockStep DEF InvClock, HostClock
<1>3. send'["device"].clock = gated(master_clock_mode_, send'["host"].clock)
  <2>1. phase_' \div 2 = 0 <=> phase_' < 2
    BY <1>0, <1>1, BusSteps
  <2>2. send'["device"].clock = gated(master_clock_mode_, bus_clk)
    BY <1>1 DEF run_run, slave_clock, Client
  <2> QED
    BY <1>2, <2>1, <2>2 DEF bus_clk
<1>4. phase_ \notin {0, 2}
  <2> SUFFICES ASSUME phase_ \in {0, 2} PROVE FALSE
    OBVIOUS
  <2>1. send'["host"].clock = send["host"].clock
    BY <1>0, <1>1, <1>2, BusSteps
  <2> QED
    BY <1>0, <1>3, <2>1 DEF DeviceClock
<1> QED
  BY <1>0, <1>1, <1>2, <1>4, BusSteps

(* NoShortPulse: for vectors of any width, and whatever modes the host     *)
(* asks for between its calls, the device's clock changes only where the   *)
(* host's does.                                                            *)
THEOREM NoShortPulseHolds == Spec => NoShortPulse
<1>1. Init => InvClock
  BY CallsInit DEF Init, InvClock, HostClock, DeviceClock, gated, Client
<1>2. InvClock /\ [Next]_vars => InvClock'
  BY ClockStep
<1>3. InvClock /\ [Next]_vars =>
        [send'["device"].clock # send["device"].clock
           => send'["host"].clock # send["host"].clock]_vars
  BY NoPulse
<1> QED
  BY <1>1, <1>2, <1>3, PTL DEF Spec, NoShortPulse
=============================================================================
