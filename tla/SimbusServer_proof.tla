------------------------- MODULE SimbusServer_proof -------------------------
(***************************************************************************)
(* Proofs about SimbusServer, for every configuration of busses, devices   *)
(* and clients.                                                            *)
(***************************************************************************)
EXTENDS SimbusServer, TLAPS, SequenceTheorems

(* What the messages of the connections are.                               *)
LEMMA Messages ==
  /\ Hello \in Message /\ Finish \in Message /\ YouAre \in Message /\ Nak \in Message
  /\ \A t \in Nat : Ready(t) \in Message /\ Until(t) \in Message
BY DEF Message, Hello, Finish, YouAre, Nak, Ready, Until

(* Queues of messages stay queues of messages.                             *)
LEMMA Queues ==
  ASSUME NEW q \in Seq(Message)
  PROVE  /\ q # <<>> => Head(q) \in Message /\ Head(q).time \in Nat /\ Tail(q) \in Seq(Message)
         /\ \A m \in Message : Append(q, m) \in Seq(Message)
         /\ <<>> \in Seq(Message)
<1>1. q # <<>> => Head(q) \in Message /\ Tail(q) \in Seq(Message)
  BY HeadTailProperties
<1>2. \A m \in Message : m.time \in Nat
  BY DEF Message
<1> QED
  BY <1>1, <1>2, AppendProperties, EmptySeq

-----------------------------------------------------------------------------
(* Type correctness                                                        *)

(* The initial state of the service loop, the plugs and the clients is     *)
(* well typed.                                                             *)
LEMMA TypeInit == Init => TypeOK
<1> SUFFICES ASSUME Init PROVE TypeOK
  OBVIOUS
<1>1. <<>> \in Seq(Message)
  BY EmptySeq
<1>2. [c \in Client |-> <<>>] \in [Client -> Seq(Message)]
  BY <1>1
<1>3. c2s \in [Client -> Seq(Message)] /\ s2c \in [Client -> Seq(Message)]
  BY <1>2 DEF Init
<1> QED
  BY <1>3 DEF Init, TypeOK, Running, ClientState

(* Every step of the server keeps the state well typed.                    *)
LEMMA TypeServer == TypeOK /\ ServerNext => TypeOK'
<1> SUFFICES ASSUME TypeOK, ServerNext PROVE TypeOK'
  OBVIOUS
<1> USE ConstantsOK DEF ConstantsOK
<1>1. CASE Interrupted
  BY <1>1 DEF TypeOK, Interrupted, EndProcess, Running, plugVars, clientVars
<1>2. CASE NothingToDo
  BY <1>2 DEF TypeOK, NothingToDo, EndProcess, Running, plugVars, clientVars
<1>3. CASE Select
  BY <1>3 DEF TypeOK, Select, ReadableBus, ReadableClient, Polled, Running,
     busVars, plugVars, clientVars
<1>4. ASSUME NEW b \in Bus, listen_ready(b) PROVE TypeOK'
  BY <1>4 DEF TypeOK, listen_ready, Running, busVars, plugVars, clientVars
<1>5. ASSUME NEW c \in Client, ServeClient(c) PROVE TypeOK'
  <2>1. ASSUME NEW type, Serve(c, type)
        PROVE  /\ c2s[c] # <<>> /\ Head(c2s[c]).time \in Nat
               /\ c2s' \in [Client -> Seq(Message)] /\ rfdClient' \in SUBSET Client
    <3>1. c2s[c] # <<>> /\ c2s[c] \in Seq(Message)
      BY <2>1 DEF Serve, TypeOK
    <3>2. Head(c2s[c]).time \in Nat /\ Tail(c2s[c]) \in Seq(Message)
      BY <3>1, Queues
    <3> QED
      BY <2>1, <3>1, <3>2 DEF Serve, TypeOK
  <2>2. \A m \in Message : [s2c EXCEPT ![c] = Append(@, m)] \in [Client -> Seq(Message)]
    <3>1. s2c[c] \in Seq(Message)
      BY DEF TypeOK
    <3>2. \A m \in Message : Append(s2c[c], m) \in Seq(Message)
      BY <3>1, Queues
    <3> QED
      BY <3>2 DEF TypeOK
  <2>3. CASE process_client_hello_nak(c)
    BY <2>1, <2>2, <2>3, Messages
    DEF TypeOK, process_client_hello_nak, MayFail, Running, busVars, plugVars, clientVars
  <2>4. CASE process_client_hello_(c)
    BY <2>1, <2>2, <2>4, Messages
    DEF TypeOK, process_client_hello_, Known, device_map, Running, busVars, clientVars
  <2>5. CASE process_client_hello_abort(c)
    BY <2>1, <2>5
    DEF TypeOK, process_client_hello_abort, EndProcess, Running, plugVars, clientVars
  <2>6. CASE process_client_ready_(c)
    BY <2>1, <2>6 DEF TypeOK, process_client_ready_, Running, busVars, clientVars
  <2>7. CASE process_client_finish_(c)
    BY <2>1, <2>7 DEF TypeOK, process_client_finish_, Running, busVars, clientVars
  <2>8. CASE read_eof(c)
    BY <2>8 DEF TypeOK, read_eof, ServeEOF, Running, busVars, clientVars
  <2>9. CASE read_eof_abort(c)
    BY <2>9 DEF TypeOK, read_eof_abort, ServeEOF, EndProcess, Running, plugVars, clientVars
  <2> QED
    BY <1>5, <2>3, <2>4, <2>5, <2>6, <2>7, <2>8, <2>9 DEF ServeClient
<1>6. CASE CheckBusses
  BY <1>6 DEF TypeOK, CheckBusses, Running, plugVars, clientVars
<1>7. ASSUME NEW b \in Bus, RunBus(b) PROVE TypeOK'
  <2>1. ASSUME RunProtocol(b)
        PROVE  /\ ready_flag' \in [Device -> BOOLEAN] /\ time' \in [Bus -> Nat]
               /\ time'[b] \in Nat
    BY <2>1 DEF TypeOK, RunProtocol
  <2>2. ASSUME NEW m \in Message, NEW S,
               s2c' = [c \in Client |-> IF c \in S THEN Append(s2c[c], m) ELSE s2c[c]]
        PROVE  s2c' \in [Client -> Seq(Message)]
    <3>1. \A c \in Client : s2c[c] \in Seq(Message)
      BY DEF TypeOK
    <3>2. \A c \in Client : Append(s2c[c], m) \in Seq(Message)
      BY <3>1, Queues
    <3> QED
      BY <2>2, <3>1, <3>2
  <2>3. CASE bus_ready_until(b)
    <3>1. Until(time'[b]) \in Message
      BY <2>1, <2>3, Messages DEF bus_ready_until
    <3>2. s2c' = [c \in Client |-> IF c \in {x \in Plugged(b) : cl[x] \notin Gone}
                  THEN Append(s2c[c], Until(time'[b])) ELSE s2c[c]]
      BY <2>3 DEF bus_ready_until
    <3>3. s2c' \in [Client -> Seq(Message)]
      BY <2>2, <3>1, <3>2
    <3> QED
      BY <2>1, <2>3, <3>3 DEF TypeOK, bus_ready_until, Running, clientVars
  <2>4. CASE bus_ready_abort(b)
    <3>1. Until(time'[b]) \in Message
      BY <2>1, <2>4, Messages DEF bus_ready_abort
    <3>2. s2c' \in [Client -> Seq(Message)]
      BY <2>2, <2>4, <3>1 DEF bus_ready_abort
    <3> QED
      BY <2>1, <2>4, <3>2 DEF TypeOK, bus_ready_abort, EndProcess, Running, clientVars
  <2>5. CASE bus_ready_finish(b)
    <3>1. s2c' = [c \in Client |-> IF c \in {x \in Plugged(b) : cl[x] \notin Gone}
                  THEN Append(s2c[c], Finish) ELSE s2c[c]]
      BY <2>5 DEF bus_ready_finish
    <3>2. s2c' \in [Client -> Seq(Message)]
      BY <2>2, <3>1, Messages
    <3> QED
      BY <2>1, <2>5, <3>2 DEF TypeOK, bus_ready_finish, Running, clientVars
  <2>6. CASE run_run_abort(b)
    BY <2>1, <2>6 DEF TypeOK, run_run_abort, EndProcess, Running, clientVars
  <2> QED
    BY <1>7, <2>3, <2>4, <2>5, <2>6 DEF RunBus
<1>8. CASE EndRun
  BY <1>8 DEF TypeOK, EndRun, Running, busVars, plugVars, clientVars
<1> QED
  BY <1>1, <1>2, <1>3, <1>4, <1>5, <1>6, <1>7, <1>8 DEF ServerNext

(* Every step of a client process keeps the state well typed.              *)
LEMMA TypeClient == ASSUME NEW c \in Client, TypeOK, ClientSteps(c) \/ Crash(c)
                    PROVE  TypeOK'
<1> USE DEF serverVars, busVars, plugVars
<1>1. \A m \in Message : Append(c2s[c], m) \in Seq(Message)
  <2>1. c2s[c] \in Seq(Message)
    BY DEF TypeOK
  <2> QED
    BY <2>1, Queues
<1>2. <<>> \in Seq(Message)
  BY EmptySeq
<1>3. s2c[c] # <<>> => Head(s2c[c]).time \in Nat
  <2>1. s2c[c] \in Seq(Message)
    BY DEF TypeOK
  <2> QED
    BY <2>1, Queues
<1>4. CASE Connect(c)
  BY <1>4 DEF TypeOK, Connect, ClientState
<1>5. ASSUME NEW m \in Message, NEW next \in ClientState, Send(c, m, next)
      PROVE  TypeOK'
  BY <1>1, <1>5, ZenonT(30) DEF TypeOK, Send, ClientState
<1>6. CASE SendHello(c)
  BY <1>5, <1>6, Messages DEF SendHello, ClientState
<1>7. CASE SendReady(c)
  <2>1. Ready(bus_time[c]) \in Message
    BY Messages DEF TypeOK
  <2> QED
    BY <1>5, <1>7, <2>1 DEF SendReady, ClientState
<1>8. CASE SendFinish(c)
  BY <1>5, <1>8, Messages DEF SendFinish, ClientState
<1>9. CASE RecvHello(c)
  BY <1>2, <1>9 DEF TypeOK, RecvHello, Receive, ClientState
<1>10. CASE HelloEOF(c)
  BY <1>10 DEF TypeOK, HelloEOF, AtEOF, ClientState
<1>11. CASE RecvUntil(c)
  BY <1>2, <1>3, <1>11 DEF TypeOK, RecvUntil, Receive, ClientState
<1>12. CASE RecvEnd(c)
  BY <1>2, <1>12 DEF TypeOK, RecvEnd, Receive, AtEOF, ClientState
<1>13. CASE RecvFinish(c)
  BY <1>2, <1>13, ZenonT(30) DEF TypeOK, RecvFinish, Receive, AtEOF, ClientState
<1>14. CASE RecvReset(c)
  BY <1>14 DEF TypeOK, RecvReset, ClientState
<1>15. CASE Disconnect(c)
  BY <1>15 DEF TypeOK, Disconnect, ClientState
<1>16. CASE Crash(c)
  BY <1>2, <1>16 DEF TypeOK, Crash, ClientState
<1> QED
  BY <1>4, <1>6, <1>7, <1>8, <1>9, <1>10, <1>11, <1>12, <1>13, <1>14, <1>15, <1>16
  DEF ClientSteps

(* No step leaves the types.                                               *)
LEMMA TypeNext == TypeOK /\ [Next]_vars => TypeOK'
<1> SUFFICES ASSUME TypeOK, [Next]_vars PROVE TypeOK'
  OBVIOUS
<1>1. CASE ServerNext
  BY <1>1, TypeServer
<1>2. CASE Sigint
  BY <1>2 DEF TypeOK, Sigint, Running, busVars, plugVars, clientVars
<1>3. CASE \E c \in Client : ClientSteps(c) \/ Crash(c)
  BY <1>3, TypeClient
<1>4. CASE UNCHANGED vars
  BY <1>4 DEF TypeOK, vars, serverVars, busVars, plugVars, clientVars
<1> QED
  BY <1>1, <1>2, <1>3, <1>4 DEF Next, Terminated

(* The state of the server and of its clients is well typed in every       *)
(* reachable state.                                                        *)
THEOREM TypeCorrect == Spec => []TypeOK
BY TypeInit, TypeNext, PTL DEF Spec

-----------------------------------------------------------------------------
(* The inductive invariant                                                 *)

(* Queues of length at most one.                                           *)
LEMMA Single ==
  ASSUME NEW m
  PROVE  /\ <<m>> # <<>> /\ Head(<<m>>) = m /\ Tail(<<m>>) = <<>>
         /\ Append(<<>>, m) = <<m>>
OBVIOUS

(* The messages differ by their type.                                      *)
LEMMA MessageTypes ==
  /\ Hello.type = "HELLO" /\ Finish.type = "FINISH" /\ YouAre.type = "YOU-ARE"
  /\ Nak.type = "NAK"
  /\ \A t : /\ Ready(t).type = "READY" /\ Ready(t).time = t
           /\ Until(t).type = "UNTIL" /\ Until(t).time = t
BY DEF Hello, Finish, YouAre, Nak, Ready, Until

(* The invariant holds in the initial state.                               *)
LEMMA InvInit == Init => Inv
<1> SUFFICES ASSUME Init PROVE Inv
  OBVIOUS
<1>1. TypeOK
  BY TypeInit
<1>2. Linked /\ Waiting /\ Times /\ RunList
  BY ConstantsOK DEF ConstantsOK, Init, Linked, Waiting, Times, RunList, device_map
<1>3. Traffic
  BY DEF Init, Traffic, ToServer, ToClient
<1>4. Lockstep
  BY DEF Init, Lockstep, Attached
<1> QED
  BY <1>1, <1>2, <1>3, <1>4 DEF Inv

(* What a client may do on its own to a connection that stays as it is,    *)
(* seen from the rest of the system.                                       *)
ClientMove(c) ==
  /\ UNCHANGED <<serverVars, busVars, plugVars, conn, plug>>
  /\ \A x \in Client \ {c} : /\ cl'[x] = cl[x] /\ bus_time'[x] = bus_time[x]
                             /\ c2s'[x] = c2s[x] /\ s2c'[x] = s2c[x]
  /\ cl[c] # "idle" /\ cl'[c] # "idle"
  /\ cl[c] \in Gone => cl'[c] \in Gone
  /\ cl[c] \in {"waiting", "finishing"} /\ c2s[c] = <<>> /\ s2c[c] = <<>> =>
       \/ cl'[c] \in Gone
       \/ s2c'[c] = <<>> /\ cl'[c] = cl[c]
  /\ cl[c] \in {"waiting", "finishing"} \cup Gone /\ c2s[c] = <<>> => c2s'[c] = <<>>
  /\ cl[c] = "finishing" => cl'[c] \in {"finishing"} \cup Gone
  /\ cl'[c] = "connected" => cl[c] = "connected"
  /\ cl'[c] = "hello" => cl[c] \in {"connected", "hello"}
  /\ cl'[c] \in {"connected", "hello"} => bus_time'[c] = bus_time[c]

(* Such a move preserves the invariant if it leaves the client's own       *)
(* connection and time in order.                                           *)
LEMMA InvMove ==
  ASSUME NEW c \in Client, Inv, TypeOK', ClientMove(c),
         ToServer(c)', ToClient(c)', c2s'[c] = <<>> \/ s2c'[c] = <<>>,
         cl'[c] \in {"running", "waiting", "finishing"} => plug[c] # NoDevice,
         Attached(c)' => View(c)' = time[Port[c]]
  PROVE  Inv'
<1> USE DEF ClientMove, serverVars, busVars, plugVars
<1>1. Linked'
  BY DEF Inv, Linked, Known, device_map
<1>2. Traffic'
  <2>1. ASSUME NEW x \in Client, x # c
        PROVE  /\ ToServer(x)' /\ ToClient(x)' /\ (c2s[x] = <<>> \/ s2c[x] = <<>>)'
               /\ (cl[x] = "idle" => conn[x] = "none")'
               /\ (cl[x] \in {"idle", "connected"} => plug[x] = NoDevice)'
               /\ (cl[x] \in {"running", "waiting", "finishing"} => plug[x] # NoDevice)'
    <3>1. ToServer(x)'
      BY <2>1 DEF Inv, Traffic, ToServer
    <3>2. ToClient(x)'
      BY <2>1 DEF Inv, Traffic, ToClient, Known, device_map
    <3> QED
      BY <2>1, <3>1, <3>2 DEF Inv, Traffic
  <2>2. /\ (cl[c] = "idle" => conn[c] = "none")'
        /\ (cl[c] \in {"idle", "connected"} => plug[c] = NoDevice)'
        /\ (cl[c] \in {"running", "waiting", "finishing"} => plug[c] # NoDevice)'
    BY DEF Inv, Traffic
  <2> QED
    BY <2>1, <2>2 DEF Traffic
<1>3. Waiting'
  <2> SUFFICES ASSUME NEW d \in Device, ready_flag[d]
               PROVE  /\ fd[d] # NoClient /\ c2s'[fd[d]] = <<>>
                      /\ pc \in Running => conn[fd[d]] = "accepted"
                      /\ \/ cl'[fd[d]] \in Gone
                         \/ s2c'[fd[d]] = <<>> /\ cl'[fd[d]] \in {"waiting", "finishing"}
    BY DEF Waiting
  <2>1. fd[d] \in Client
    BY DEF Inv, TypeOK, Waiting
  <2> QED
    BY <2>1 DEF Inv, Waiting
<1>4. Times'
  BY DEF Inv, Times, Known, device_map
<1>5. RunList'
  <2>1. ASSUME NEW d \in Device, exited_flag[d], listening[DevBus[d]]
        PROVE  fd[d] # NoClient /\ cl'[fd[d]] \in {"finishing"} \cup Gone
    <3>1. fd[d] \in Client
      BY <2>1 DEF Inv, TypeOK, RunList
    <3> QED
      BY <2>1, <3>1 DEF Inv, RunList
  <2> QED
    BY <2>1 DEF Inv, RunList, device_map
<1>6. Lockstep'
  BY DEF Inv, Lockstep, Attached, View
<1> QED
  BY <1>1, <1>2, <1>3, <1>4, <1>5, <1>6 DEF Inv

(* Every step of a client process preserves the invariant.                 *)
LEMMA InvClient == ASSUME NEW c \in Client, Inv, ClientSteps(c) \/ Crash(c)
                   PROVE  Inv'
<1>1. TypeOK /\ TypeOK'
  BY TypeClient DEF Inv
<1>2. /\ ToServer(c) /\ ToClient(c) /\ (c2s[c] = <<>> \/ s2c[c] = <<>>)
      /\ (cl[c] \in {"idle", "connected"} => plug[c] = NoDevice)
      /\ (cl[c] \in {"running", "waiting", "finishing"} => plug[c] # NoDevice)
      /\ (Attached(c) => View(c) = time[Port[c]])
  BY DEF Inv, Traffic, Lockstep
<1>3. CASE Connect(c)
  <2> USE DEF serverVars, busVars, plugVars
  <2>1. Linked'
    BY <1>1, <1>2, <1>3 DEF Inv, TypeOK, Connect, Linked, Known, device_map
  <2>2. Traffic'
    BY <1>1, <1>3 DEF Inv, TypeOK, Connect, Linked, Traffic, ToServer, ToClient, Known, Gone
  <2>3. Waiting'
    BY <1>1, <1>3 DEF Inv, TypeOK, Connect, Linked, Traffic, Waiting, Gone
  <2>4. Times'
    BY <1>1, <1>3 DEF Inv, TypeOK, Connect, Times, Known
  <2>5. RunList'
    BY <1>1, <1>3 DEF Inv, TypeOK, Connect, RunList, Traffic, Gone
  <2>6. Lockstep'
    BY <1>1, <1>3 DEF Inv, TypeOK, Connect, Lockstep, Attached, View
  <2> QED
    BY <1>1, <2>1, <2>2, <2>3, <2>4, <2>5, <2>6 DEF Inv
<1>4. CASE SendHello(c)
  <2>1. ClientMove(c)
    BY <1>1, <1>4 DEF TypeOK, SendHello, Send, ClientMove, Gone
  <2>2. ToServer(c)' /\ ToClient(c)' /\ (c2s'[c] = <<>> \/ s2c'[c] = <<>>)
    BY <1>1, <1>2, <1>4, Single
    DEF TypeOK, SendHello, Send, ToServer, ToClient, Known, Gone, busVars
  <2>3. cl'[c] \in {"running", "waiting", "finishing"} => plug[c] # NoDevice
    BY <1>1, <1>2, <1>4 DEF TypeOK, SendHello, Send
  <2>4. Attached(c)' => View(c)' = time[Port[c]]
    BY <1>1, <1>2, <1>4 DEF TypeOK, SendHello, Send, Attached, View, Gone
  <2> QED
    BY <1>1, <2>1, <2>2, <2>3, <2>4, InvMove
<1>5. CASE SendReady(c)
  <2>1. ClientMove(c)
    BY <1>1, <1>5 DEF TypeOK, SendReady, Send, ClientMove, Gone
  <2>2. ToServer(c)' /\ ToClient(c)' /\ (c2s'[c] = <<>> \/ s2c'[c] = <<>>)
    BY <1>1, <1>2, <1>5, Single
    DEF TypeOK, SendReady, Send, ToServer, ToClient, Known, Gone, busVars, Attached, View, Inv, Linked
  <2>3. cl'[c] \in {"running", "waiting", "finishing"} => plug[c] # NoDevice
    BY <1>1, <1>2, <1>5 DEF TypeOK, SendReady, Send
  <2>4. Attached(c)' => View(c)' = time[Port[c]]
    BY <1>1, <1>2, <1>5 DEF TypeOK, SendReady, Send, Attached, View, Gone
  <2> QED
    BY <1>1, <2>1, <2>2, <2>3, <2>4, InvMove
<1>6. CASE SendFinish(c)
  <2>1. ClientMove(c)
    BY <1>1, <1>6 DEF TypeOK, SendFinish, Send, ClientMove, Gone
  <2>2. ToServer(c)' /\ ToClient(c)' /\ (c2s'[c] = <<>> \/ s2c'[c] = <<>>)
    BY <1>1, <1>2, <1>6, Single
    DEF TypeOK, SendFinish, Send, ToServer, ToClient, Known, Gone, busVars
  <2>3. cl'[c] \in {"running", "waiting", "finishing"} => plug[c] # NoDevice
    BY <1>1, <1>2, <1>6 DEF TypeOK, SendFinish, Send
  <2>4. Attached(c)' => View(c)' = time[Port[c]]
    BY <1>1, <1>2, <1>6 DEF TypeOK, SendFinish, Send, Attached, View, Gone
  <2> QED
    BY <1>1, <2>1, <2>2, <2>3, <2>4, InvMove
<1>7. CASE RecvHello(c)
  <2>1. ClientMove(c)
    BY <1>1, <1>7 DEF TypeOK, RecvHello, Receive, ClientMove, Gone
  <2>2. ToServer(c)' /\ ToClient(c)' /\ (c2s'[c] = <<>> \/ s2c'[c] = <<>>)
    BY <1>1, <1>2, <1>7
    DEF TypeOK, RecvHello, Receive, ToServer, ToClient, Known, Gone, busVars
  <2>3. cl'[c] \in {"running", "waiting", "finishing"} => plug[c] # NoDevice
    BY <1>1, <1>2, <1>7, Single, MessageTypes DEF TypeOK, RecvHello, Receive, ToClient
  <2>4. Attached(c)' => View(c)' = time[Port[c]]
    BY <1>1, <1>2, <1>7, Single, MessageTypes
    DEF TypeOK, RecvHello, Receive, Attached, View, ToClient, Inv, Times, Linked
  <2> QED
    BY <1>1, <2>1, <2>2, <2>3, <2>4, InvMove
<1>8. CASE HelloEOF(c)
  <2>1. ClientMove(c)
    BY <1>1, <1>8 DEF TypeOK, HelloEOF, AtEOF, ClientMove, Gone
  <2>2. ToServer(c)' /\ ToClient(c)' /\ (c2s'[c] = <<>> \/ s2c'[c] = <<>>)
    BY <1>1, <1>2, <1>8
    DEF TypeOK, HelloEOF, AtEOF, ToServer, ToClient, Known, Gone, busVars
  <2>3. cl'[c] \in {"running", "waiting", "finishing"} => plug[c] # NoDevice
    BY <1>1, <1>2, <1>8 DEF TypeOK, HelloEOF, AtEOF
  <2>4. Attached(c)' => View(c)' = time[Port[c]]
    BY <1>1, <1>2, <1>8 DEF TypeOK, HelloEOF, AtEOF, Attached, View, Gone
  <2> QED
    BY <1>1, <2>1, <2>2, <2>3, <2>4, InvMove
<1>9. CASE RecvUntil(c)
  <2>1. ClientMove(c)
    BY <1>1, <1>9 DEF TypeOK, RecvUntil, Receive, ClientMove, Gone
  <2>2. ToServer(c)' /\ ToClient(c)' /\ (c2s'[c] = <<>> \/ s2c'[c] = <<>>)
    BY <1>1, <1>2, <1>9
    DEF TypeOK, RecvUntil, Receive, ToServer, ToClient, Known, Gone, busVars
  <2>3. cl'[c] \in {"running", "waiting", "finishing"} => plug[c] # NoDevice
    BY <1>1, <1>2, <1>9 DEF TypeOK, RecvUntil, Receive
  <2>4. Attached(c)' => View(c)' = time[Port[c]]
    BY <1>1, <1>2, <1>9, Single, MessageTypes
    DEF TypeOK, RecvUntil, Receive, Attached, View, ToClient
  <2> QED
    BY <1>1, <2>1, <2>2, <2>3, <2>4, InvMove
<1>10. CASE RecvEnd(c)
  <2>1. ClientMove(c)
    BY <1>1, <1>10 DEF TypeOK, RecvEnd, Receive, AtEOF, ClientMove, Gone
  <2>2. ToServer(c)' /\ ToClient(c)' /\ (c2s'[c] = <<>> \/ s2c'[c] = <<>>)
    BY <1>1, <1>2, <1>10
    DEF TypeOK, RecvEnd, Receive, AtEOF, ToServer, ToClient, Known, Gone, busVars
  <2>3. cl'[c] \in {"running", "waiting", "finishing"} => plug[c] # NoDevice
    BY <1>1, <1>2, <1>10 DEF TypeOK, RecvEnd, Receive, AtEOF
  <2>4. Attached(c)' => View(c)' = time[Port[c]]
    BY <1>1, <1>2, <1>10 DEF TypeOK, RecvEnd, Receive, AtEOF, Attached, View, Gone
  <2> QED
    BY <1>1, <2>1, <2>2, <2>3, <2>4, InvMove
<1>11. CASE RecvFinish(c)
  <2>1. ClientMove(c)
    BY <1>1, <1>11 DEF TypeOK, RecvFinish, Receive, AtEOF, ClientMove, Gone
  <2>2. ToServer(c)' /\ ToClient(c)' /\ (c2s'[c] = <<>> \/ s2c'[c] = <<>>)
    BY <1>1, <1>2, <1>11
    DEF TypeOK, RecvFinish, Receive, AtEOF, ToServer, ToClient, Known, Gone, busVars
  <2>3. cl'[c] \in {"running", "waiting", "finishing"} => plug[c] # NoDevice
    BY <1>1, <1>2, <1>11 DEF TypeOK, RecvFinish, Receive, AtEOF
  <2>4. Attached(c)' => View(c)' = time[Port[c]]
    BY <1>1, <1>2, <1>11 DEF TypeOK, RecvFinish, Receive, AtEOF, Attached, View, Gone
  <2> QED
    BY <1>1, <2>1, <2>2, <2>3, <2>4, InvMove
<1>12. CASE RecvReset(c)
  <2>1. ClientMove(c)
    BY <1>1, <1>12 DEF TypeOK, RecvReset, ClientMove, Gone
  <2>2. ToServer(c)' /\ ToClient(c)' /\ (c2s'[c] = <<>> \/ s2c'[c] = <<>>)
    BY <1>1, <1>2, <1>12
    DEF TypeOK, RecvReset, ToServer, ToClient, Known, Gone, busVars
  <2>3. cl'[c] \in {"running", "waiting", "finishing"} => plug[c] # NoDevice
    BY <1>1, <1>2, <1>12 DEF TypeOK, RecvReset
  <2>4. Attached(c)' => View(c)' = time[Port[c]]
    BY <1>1, <1>2, <1>12 DEF TypeOK, RecvReset, Attached, View, Gone
  <2> QED
    BY <1>1, <2>1, <2>2, <2>3, <2>4, InvMove
<1>13. CASE Disconnect(c)
  <2>1. ClientMove(c)
    BY <1>1, <1>13 DEF TypeOK, Disconnect, ClientMove, Gone
  <2>2. ToServer(c)' /\ ToClient(c)' /\ (c2s'[c] = <<>> \/ s2c'[c] = <<>>)
    BY <1>1, <1>2, <1>13
    DEF TypeOK, Disconnect, ToServer, ToClient, Known, Gone, busVars
  <2>3. cl'[c] \in {"running", "waiting", "finishing"} => plug[c] # NoDevice
    BY <1>1, <1>2, <1>13 DEF TypeOK, Disconnect
  <2>4. Attached(c)' => View(c)' = time[Port[c]]
    BY <1>1, <1>2, <1>13 DEF TypeOK, Disconnect, Attached, View, Gone
  <2> QED
    BY <1>1, <2>1, <2>2, <2>3, <2>4, InvMove
<1>14. CASE Crash(c)
  <2>1. ClientMove(c)
    BY <1>1, <1>14 DEF TypeOK, Crash, ClientMove, Gone
  <2>2. ToServer(c)' /\ ToClient(c)' /\ (c2s'[c] = <<>> \/ s2c'[c] = <<>>)
    BY <1>1, <1>2, <1>14
    DEF TypeOK, Crash, ToServer, ToClient, Known, Gone, busVars
  <2>3. cl'[c] \in {"running", "waiting", "finishing"} => plug[c] # NoDevice
    BY <1>1, <1>2, <1>14 DEF TypeOK, Crash
  <2>4. Attached(c)' => View(c)' = time[Port[c]]
    BY <1>1, <1>2, <1>14 DEF TypeOK, Crash, Attached, View, Gone
  <2> QED
    BY <1>1, <2>1, <2>2, <2>3, <2>4, InvMove
<1> QED
  BY <1>3, <1>4, <1>5, <1>6, <1>7, <1>8, <1>9, <1>10, <1>11, <1>12, <1>13, <1>14 DEF ClientSteps

(* The process ends: every connection is closed, and what the clients were *)
(* sent is still on its way to them.                                       *)
LEMMA InvEnd ==
  ASSUME Inv, TypeOK', NEW how \in {"stopped", "aborted"}, EndProcess(how),
         UNCHANGED <<finished, time, plugVars, plug, s2c, clientVars>>,
         \A c \in Client : c2s'[c] \in {c2s[c], <<>>}
  PROVE  Inv'
<1> USE DEF EndProcess, plugVars, clientVars
<1>1. Linked'
  BY DEF Inv, TypeOK, Linked, Known, device_map
<1>2. Traffic'
  BY DEF Inv, Traffic, ToServer, ToClient, Known, device_map
<1>3. Waiting'
  BY DEF Inv, TypeOK, Waiting, Running
<1>4. Times' /\ RunList' /\ Lockstep'
  BY ConstantsOK
  DEF ConstantsOK, Inv, Times, RunList, Known, device_map, Lockstep, Attached
<1> QED
  BY <1>1, <1>2, <1>3, <1>4 DEF Inv

(* A step of the server that only moves the loop along.                    *)
LEMMA InvLoop ==
  ASSUME Inv, TypeOK', pc \in Running, pc' \in Running,
         UNCHANGED <<busVars, plugVars, conn, plug, c2s, s2c, clientVars>>,
         RunList'
  PROVE  Inv'
<1> USE DEF busVars, plugVars, clientVars
<1>1. Linked' /\ Waiting' /\ Times' /\ Lockstep'
  BY DEF Inv, Linked, Known, device_map, Waiting, Times, Lockstep, Attached, View
<1>2. Traffic'
  BY DEF Inv, Traffic, ToServer, ToClient, Known, device_map
<1> QED
  BY <1>1, <1>2 DEF Inv

(* A step of the server's part of one connection: commands and end of file *)
(* change the plug of that connection and nothing else.                    *)
LEMMA InvServe ==
  ASSUME UniqueNames, NEW c \in Client, Inv, ServeClient(c)
  PROVE  Inv'
<1>1. TypeOK /\ TypeOK'
  BY TypeServer DEF Inv, ServerNext
<1>2. /\ ToServer(c) /\ ToClient(c) /\ (c2s[c] = <<>> \/ s2c[c] = <<>>)
      /\ (cl[c] \in {"idle", "connected"} => plug[c] = NoDevice)
      /\ (cl[c] \in {"running", "waiting", "finishing"} => plug[c] # NoDevice)
      /\ (plug[c] # NoDevice => plug[c] = Name[c] /\ Known(c) /\ fd[plug[c]] = c)
  BY DEF Inv, Traffic, Linked
<1>3. ASSUME NEW type, Serve(c, type)
      PROVE  /\ pc = "serve" /\ conn[c] = "accepted" /\ s2c[c] = <<>>
             /\ c2s[c] # <<>> /\ Head(c2s[c]).type = type
             /\ c2s' = [c2s EXCEPT ![c] = <<>>]
             /\ \A x \in rfdClient' : conn[x] = "accepted"
  BY <1>1, <1>2, <1>3, Single DEF Serve, ToServer, Inv, RunList
<1> USE DEF busVars, clientVars
<1>4. CASE process_client_hello_nak(c)
  <2>1. /\ pc = "serve" /\ conn[c] = "accepted" /\ s2c[c] = <<>> /\ ~Known(c)
        /\ c2s[c] = <<Hello>> /\ c2s' = [c2s EXCEPT ![c] = <<>>]
        /\ s2c'[c] \in {<<>>, <<Nak>>} /\ \A x \in Client \ {c} : s2c'[x] = s2c[x]
        /\ cl[c] \in {"hello"} \cup Gone /\ plug[c] = NoDevice
        /\ \A x \in rfdClient' : conn[x] = "accepted"
        /\ UNCHANGED <<pc, run, busVars, plugVars, conn, plug, clientVars>>
    <3>1. c2s[c] = <<Hello>> /\ cl[c] \in {"hello"} \cup Gone /\ plug[c] = NoDevice
      BY <1>2, <1>3, <1>4, Single, MessageTypes DEF process_client_hello_nak, ToServer
    <3>2. s2c[c] = <<>>
      BY <1>3, <1>4 DEF process_client_hello_nak
    <3>3. s2c'[c] \in {<<>>, <<Nak>>} /\ \A x \in Client \ {c} : s2c'[x] = s2c[x]
      BY <1>1, <1>4, <3>2, Single DEF TypeOK, process_client_hello_nak
    <3> QED
      BY <1>3, <1>4, <3>1, <3>2, <3>3 DEF process_client_hello_nak
  <2> USE DEF plugVars
  <2>2. Linked' /\ Waiting' /\ Times' /\ RunList'
    BY <1>1, <2>1 DEF TypeOK, Inv, Linked, Known, device_map, Waiting, Times, RunList
  <2>3. Traffic'
    BY <1>1, <2>1 DEF TypeOK, Inv, Traffic, ToServer, ToClient, Known, device_map
  <2>4. Lockstep'
    <3>1. ~Attached(c)'
      BY <2>1 DEF Attached, Gone
    <3>2. ASSUME NEW x \in Client, x # c, Attached(x)' PROVE View(x)' = time'[Port[x]]
      BY <2>1, <3>2 DEF Inv, Lockstep, Attached, View
    <3> QED
      BY <3>1, <3>2 DEF Lockstep
  <2> QED
    BY <1>1, <2>2, <2>3, <2>4 DEF Inv
<1>5. CASE process_client_hello_(c)
  <2>1. /\ pc = "serve" /\ conn[c] = "accepted" /\ s2c[c] = <<>> /\ Known(c)
        /\ c2s[c] = <<Hello>> /\ c2s' = [c2s EXCEPT ![c] = <<>>]
        /\ s2c' = [s2c EXCEPT ![c] = <<YouAre>>]
        /\ cl[c] \in {"hello"} \cup Gone /\ plug[c] = NoDevice
        /\ \A x \in rfdClient' : conn[x] = "accepted"
        /\ UNCHANGED <<pc, run, busVars, exited_flag, ready_time, conn, clientVars>>
    <3>1. c2s[c] = <<Hello>> /\ cl[c] \in {"hello"} \cup Gone /\ plug[c] = NoDevice
      BY <1>2, <1>3, <1>5, Single, MessageTypes DEF process_client_hello_, ToServer
    <3>2. s2c[c] = <<>>
      BY <1>3, <1>5 DEF process_client_hello_
    <3>3. s2c' = [s2c EXCEPT ![c] = <<YouAre>>]
      BY <1>1, <1>5, <3>2, Single DEF TypeOK, process_client_hello_
    <3> QED
      BY <1>3, <1>5, <3>1, <3>2, <3>3 DEF process_client_hello_
  <2>2. /\ plug' = [plug EXCEPT ![c] = Name[c]] /\ fd' = [fd EXCEPT ![Name[c]] = c]
        /\ ready_flag' = [ready_flag EXCEPT ![Name[c]] = FALSE]
        /\ Name[c] \in Device
    BY <1>5 DEF process_client_hello_, Known, device_map
  <2>3. fd[Name[c]] = NoClient
    <3> SUFFICES ASSUME fd[Name[c]] # NoClient PROVE FALSE
      OBVIOUS
    <3>1. fd[Name[c]] \in Client
      BY <1>1, <2>2 DEF TypeOK
    <3>2. plug[fd[Name[c]]] = Name[c] /\ Name[c] # NoDevice
      BY <2>2, ConstantsOK DEF Inv, Linked, ConstantsOK
    <3>3. Name[fd[Name[c]]] = Name[c]
      BY <3>1, <3>2 DEF Inv, Linked
    <3> QED
      BY <2>1, <3>1, <3>2, <3>3 DEF UniqueNames
  <2>4. Linked'
    <3>1. Name[c] # NoDevice
      BY <2>2, ConstantsOK DEF ConstantsOK
    <3>2. ASSUME NEW d \in Device, fd'[d] # NoClient PROVE plug'[fd'[d]] = d
      <4>1. CASE d = Name[c]
        BY <1>1, <2>2, <4>1 DEF TypeOK
      <4>2. CASE d # Name[c]
        <5>1. fd'[d] = fd[d] /\ fd[d] \in Client /\ plug[fd[d]] = d
          BY <1>1, <2>2, <3>2, <4>2 DEF TypeOK, Inv, Linked
        <5>2. fd[d] # c
          BY <2>1, <5>1, ConstantsOK DEF ConstantsOK
        <5> QED
          BY <1>1, <2>2, <5>1, <5>2 DEF TypeOK
      <4> QED
        BY <4>1, <4>2
    <3>3. ASSUME NEW x \in Client, plug'[x] # NoDevice
          PROVE  /\ plug'[x] = Name[x] /\ Known(x) /\ fd'[plug'[x]] = x
                 /\ conn'[x] \in {"accepted", "closed"}
      BY <1>1, <2>1, <2>2, <2>3, <3>1, <3>3, ConstantsOK, SMTT(30)
      DEF TypeOK, Inv, Linked, ConstantsOK
    <3> QED
      BY <3>2, <3>3 DEF Linked, Known, device_map
  <2>5. Traffic'
    <3>1. Name[c] # NoDevice
      BY <2>2, ConstantsOK DEF ConstantsOK
    <3>2. ASSUME NEW x \in Client, x # c
          PROVE  ToServer(x)' /\ ToClient(x)' /\ plug'[x] = plug[x]
      <4>1. plug'[x] = plug[x] /\ c2s'[x] = c2s[x] /\ s2c'[x] = s2c[x]
        BY <1>1, <2>1, <2>2, <3>2 DEF TypeOK
      <4>2. ToServer(x)'
        BY <2>1, <4>1 DEF Inv, Traffic, ToServer
      <4> QED
        BY <2>1, <4>1, <4>2 DEF Inv, Traffic, ToClient, Known, device_map
    <3>3. ToServer(c)' /\ ToClient(c)' /\ c2s'[c] = <<>>
      BY <1>1, <2>1, <2>2, <3>1 DEF TypeOK, ToServer, ToClient
    <3> QED
      BY <1>1, <2>1, <3>2, <3>3 DEF TypeOK, Inv, Traffic, Gone
  <2>6. Waiting' /\ Times' /\ RunList'
    BY <1>1, <2>1, <2>2, <2>3 DEF TypeOK, Inv, Linked, Waiting, Times, RunList, Known, device_map
  <2>7. Lockstep'
    BY <1>1, <2>1 DEF TypeOK, Inv, Lockstep, Attached, View, Gone
  <2> QED
    BY <1>1, <2>4, <2>5, <2>6, <2>7 DEF Inv
<1>6. CASE process_client_hello_abort(c)
  <2>1. \A x \in Client : c2s'[x] \in {c2s[x], <<>>}
    BY <1>1, <1>3, <1>6 DEF process_client_hello_abort, TypeOK
  <2> QED
    BY <1>1, <1>6, <2>1, InvEnd DEF process_client_hello_abort
<1>7. CASE process_client_ready_(c)
  <2>1. /\ pc = "serve" /\ conn[c] = "accepted" /\ s2c[c] = <<>>
        /\ c2s[c] = <<Ready(bus_time[c])>> /\ bus_time[c] = time[Port[c]]
        /\ c2s' = [c2s EXCEPT ![c] = <<>>]
        /\ cl[c] \in {"waiting"} \cup Gone /\ plug[c] # NoDevice
        /\ \A x \in rfdClient' : conn[x] = "accepted"
        /\ UNCHANGED <<pc, run, busVars, fd, exited_flag, conn, plug, s2c, clientVars>>
    BY <1>1, <1>2, <1>3, <1>7, Single, MessageTypes
    DEF TypeOK, process_client_ready_, ToServer
  <2>2. /\ plug[c] \in Device /\ fd[plug[c]] = c /\ DevBus[plug[c]] = Port[c]
        /\ ready_time' = [ready_time EXCEPT ![plug[c]] = time[Port[c]]]
        /\ ready_flag' = [ready_flag EXCEPT ![plug[c]] = TRUE]
    <3>1. plug[c] \in Device /\ fd[plug[c]] = c /\ DevBus[plug[c]] = Port[c]
      BY <1>1, <1>2, <2>1 DEF TypeOK, Known, device_map
    <3>2. Head(c2s[c]).time = time[Port[c]]
      BY <2>1, Single, MessageTypes
    <3> QED
      BY <1>7, <3>1, <3>2 DEF process_client_ready_
  <2>3. Linked' /\ Times' /\ RunList'
    BY <1>1, <2>1, <2>2 DEF TypeOK, Inv, Linked, Times, RunList, Known, device_map
  <2>4. Traffic'
    BY <1>1, <2>1 DEF TypeOK, Inv, Traffic, ToServer, ToClient, Known, device_map
  <2>5. Waiting'
    BY <1>1, <2>1, <2>2, ConstantsOK DEF ConstantsOK, TypeOK, Inv, Waiting
  <2>6. Lockstep'
    BY <2>1 DEF Inv, Lockstep, Attached, View
  <2> QED
    BY <1>1, <2>3, <2>4, <2>5, <2>6 DEF Inv
<1>8. ASSUME /\ pc = "serve" /\ conn[c] = "accepted" /\ plug[c] # NoDevice
             /\ cl[c] \in {"finishing"} \cup Gone
             /\ cl[c] \in Gone \/ s2c[c] = <<>>
             /\ c2s' = [c2s EXCEPT ![c] = <<>>]
             /\ \A x \in rfdClient' : conn[x] = "accepted"
             /\ ready_flag'  = [ready_flag EXCEPT ![plug[c]] = TRUE]
             /\ exited_flag' = [exited_flag EXCEPT ![plug[c]] = TRUE]
             /\ UNCHANGED <<pc, run, busVars, fd, ready_time, conn, plug, s2c, clientVars>>
      PROVE  Inv'
  <2>1. plug[c] \in Device /\ fd[plug[c]] = c
    BY <1>1, <1>2, <1>8 DEF TypeOK
  <2>2. Linked' /\ Times'
    BY <1>1, <1>8, <2>1 DEF TypeOK, Inv, Linked, Times, Known, device_map
  <2>3. RunList'
    <3>1. \A d \in Device : exited_flag[d] => exited_flag'[d]
      BY <1>1, <1>8 DEF TypeOK
    <3>2. \A b \in Bus : finished'[b] => \E d \in device_map(b) : exited_flag'[d]
      BY <1>8, <3>1 DEF Inv, RunList, device_map
    <3>3. \A d \in Device : exited_flag'[d] /\ listening'[DevBus[d]] =>
             fd'[d] # NoClient /\ cl'[fd'[d]] \in {"finishing"} \cup Gone
      BY <1>1, <1>8, <2>1, ConstantsOK, SMTT(30) DEF ConstantsOK, TypeOK, Inv, RunList
    <3> QED
      BY <1>8, <3>2, <3>3 DEF RunList, device_map
  <2>4. Traffic'
    BY <1>1, <1>8 DEF TypeOK, Inv, Traffic, ToServer, ToClient, Known, device_map
  <2>5. Waiting'
    <3> SUFFICES ASSUME NEW d \in Device, ready_flag'[d]
                 PROVE  /\ fd[d] # NoClient /\ c2s'[fd[d]] = <<>>
                        /\ conn[fd[d]] = "accepted"
                        /\ \/ cl[fd[d]] \in Gone
                           \/ s2c[fd[d]] = <<>> /\ cl[fd[d]] \in {"waiting", "finishing"}
      BY <1>8 DEF Waiting
    <3>1. CASE d = plug[c]
      BY <1>1, <1>8, <2>1, <3>1, ConstantsOK DEF ConstantsOK, TypeOK
    <3>2. CASE d # plug[c]
      BY <1>1, <1>8, <3>2 DEF TypeOK, Inv, Waiting, Running
    <3> QED
      BY <3>1, <3>2
  <2>6. Lockstep'
    BY <1>8 DEF Inv, Lockstep, Attached, View
  <2> QED
    BY <1>1, <2>2, <2>3, <2>4, <2>5, <2>6 DEF Inv
<1>9. CASE process_client_finish_(c)
  <2>1. c2s[c] = <<Finish>> /\ cl[c] \in {"finishing"} \cup Gone /\ plug[c] # NoDevice
    BY <1>2, <1>3, <1>9, Single, MessageTypes DEF process_client_finish_, ToServer
  <2> QED
    BY <1>3, <1>8, <1>9, <2>1 DEF process_client_finish_
<1>10. CASE read_eof(c)
  <2>1. conn[c] = "accepted" /\ \A x \in rfdClient' : conn[x] = "accepted"
    BY <1>10 DEF read_eof, ServeEOF, Inv, RunList
  <2>2. c2s' = [c2s EXCEPT ![c] = <<>>]
    BY <1>1, <1>10 DEF read_eof, ServeEOF, TypeOK
  <2> QED
    BY <1>8, <1>10, <2>1, <2>2 DEF read_eof, ServeEOF
<1>11. CASE read_eof_abort(c)
  <2>1. \A x \in Client : c2s'[x] \in {c2s[x], <<>>}
    BY <1>11 DEF read_eof_abort
  <2> QED
    BY <1>1, <1>11, <2>1, InvEnd DEF read_eof_abort
<1> QED
  BY <1>4, <1>5, <1>6, <1>7, <1>9, <1>10, <1>11 DEF ServeClient

(* A bus in the run list: its connections are quiet, and they are all the  *)
(* clients that the bus has.                                               *)
LEMMA BusReady ==
  ASSUME UniqueNames, Inv, NEW b \in Bus, pc = "run", b \in run
  PROVE  /\ \A c \in Plugged(b) :
              /\ c \in Client /\ Port[c] = b /\ conn[c] = "accepted"
              /\ plug[c] # NoDevice /\ c2s[c] = <<>>
              /\ cl[c] \in Gone \/ (s2c[c] = <<>> /\ cl[c] \in {"waiting", "finishing"})
         /\ \A c \in Client : Port[c] = b /\ (Known(c) \/ plug[c] # NoDevice) =>
              c \in Plugged(b)
<1>1. ASSUME NEW d \in device_map(b)
      PROVE  /\ d \in Device /\ d # NoDevice /\ fd[d] \in Client /\ plug[fd[d]] = d
             /\ conn[fd[d]] = "accepted" /\ c2s[fd[d]] = <<>> /\ fd[d] \in Plugged(b)
             /\ \/ cl[fd[d]] \in Gone
                \/ s2c[fd[d]] = <<>> /\ cl[fd[d]] \in {"waiting", "finishing"}
  <2>1. d \in Device /\ d # NoDevice /\ ready_flag[d] /\ fd[d] \in Plugged(b)
    BY ConstantsOK DEF ConstantsOK, Inv, RunList, device_map, Plugged
  <2>2. /\ fd[d] # NoClient /\ conn[fd[d]] = "accepted" /\ c2s[fd[d]] = <<>>
        /\ \/ cl[fd[d]] \in Gone
           \/ s2c[fd[d]] = <<>> /\ cl[fd[d]] \in {"waiting", "finishing"}
    BY <2>1 DEF Inv, Waiting, Running
  <2>3. fd[d] \in Client
    BY <2>1, <2>2 DEF Inv, TypeOK
  <2> QED
    BY <2>1, <2>2, <2>3 DEF Inv, Linked
<1>2. ASSUME NEW c \in Plugged(b)
      PROVE  /\ c \in Client /\ Port[c] = b /\ conn[c] = "accepted"
             /\ plug[c] # NoDevice /\ c2s[c] = <<>>
             /\ cl[c] \in Gone \/ (s2c[c] = <<>> /\ cl[c] \in {"waiting", "finishing"})
  <2>1. PICK d \in device_map(b) : c = fd[d]
    BY <1>2 DEF Plugged
  <2>2. c \in Client /\ plug[c] = d /\ d # NoDevice
    BY <1>1, <2>1
  <2>3. Port[c] = b
    BY <2>1, <2>2 DEF Inv, Linked, Known, device_map
  <2> QED
    BY <1>1, <2>1, <2>2, <2>3
<1>3. ASSUME NEW c \in Client, Port[c] = b, Known(c) \/ plug[c] # NoDevice
      PROVE  c \in Plugged(b)
  <2>1. Known(c) /\ Name[c] \in device_map(b)
    BY <1>3 DEF Inv, Linked, Known
  <2>2. Name[fd[Name[c]]] = Name[c]
    BY <1>1, <2>1 DEF Inv, Linked
  <2> QED
    BY <1>1, <2>1, <2>2 DEF UniqueNames
<1> QED
  BY <1>2, <1>3

(* What the three outcomes of a bus step have in common: every client of   *)
(* the bus that is still there is sent at most one message, an UNTIL or a  *)
(* FINISH.                                                                 *)
LEMMA BusStep ==
  ASSUME UniqueNames, Inv, TypeOK', NEW b \in Bus, NextToRun(b), RunProtocol(b),
         NEW S, S \subseteq {c \in Plugged(b) : cl[c] \notin Gone},
         NEW m, m = Finish \/ m = Until(m.time),
         s2c' = [c \in Client |-> IF c \in S THEN Append(s2c[c], m) ELSE s2c[c]],
         UNCHANGED <<fd, ready_time, plug, c2s, clientVars>>,
         \A d \in Device : DevBus[d] # b => exited_flag'[d] = exited_flag[d],
         \A c \in Client : conn'[c] \in {conn[c], "closed"},
         \A c \in Client : conn'[c] # conn[c] => cl[c] # "idle",
         pc' \in Running => \A c \in Client : Port[c] # b => conn'[c] = conn[c]
  PROVE  Traffic' /\ Waiting' /\ Times' /\ Linked'
<1> USE DEF clientVars, NextToRun
<1>1. /\ TypeOK /\ Linked /\ Traffic /\ Waiting /\ Times
      /\ pc = "run" /\ b \in run
  BY DEF Inv
<1>2. \A c \in S : /\ c \in Client /\ Port[c] = b /\ c2s[c] = <<>> /\ s2c[c] = <<>>
                   /\ s2c'[c] = <<m>> /\ cl[c] \in {"waiting", "finishing"}
  <2>1. \A c \in S : /\ c \in Client /\ Port[c] = b /\ c2s[c] = <<>> /\ s2c[c] = <<>>
                     /\ cl[c] \in {"waiting", "finishing"}
    BY <1>1, BusReady
  <2>2. Append(<<>>, m) = <<m>>
    BY Single
  <2> QED
    BY <2>1, <2>2
<1>3. \A c \in Client \ S : s2c'[c] = s2c[c]
  OBVIOUS
<1>4. \A x \in Bus \ {b} : time'[x] = time[x]
  BY <1>1 DEF RunProtocol, TypeOK
<1>5. ASSUME NEW c \in Client, ~(c2s[c] = <<>>), plug[c] # NoDevice
      PROVE  time'[Port[c]] = time[Port[c]]
  BY <1>1, <1>4, <1>5, BusReady, ConstantsOK DEF ConstantsOK
<1>6. Linked'
  BY <1>1 DEF Linked, Known, device_map
<1>7. Traffic'
  <2> SUFFICES ASSUME NEW c \in Client
               PROVE  /\ ToServer(c)' /\ ToClient(c)' /\ (c2s[c] = <<>> \/ s2c[c] = <<>>)'
                      /\ (cl[c] = "idle" => conn[c] = "none")'
                      /\ (cl[c] \in {"idle", "connected"} => plug[c] = NoDevice)'
                      /\ (cl[c] \in {"running", "waiting", "finishing"} => plug[c] # NoDevice)'
    BY DEF Traffic
  <2>1. ToServer(c)'
    BY <1>1, <1>5, Single DEF Traffic, ToServer
  <2>2. ToClient(c)'
    <3>1. CASE c \in S
      BY <1>2, <3>1, Single DEF ToClient
    <3>2. CASE c \notin S
      BY <1>1, <1>3, <3>2 DEF Traffic, ToClient, Known, device_map
    <3> QED
      BY <3>1, <3>2
  <2> QED
    BY <1>1, <1>2, <1>3, <2>1, <2>2 DEF Traffic
<1>8. Waiting'
  <2> SUFFICES ASSUME NEW d \in Device, ready_flag'[d]
               PROVE  /\ fd[d] # NoClient /\ c2s[fd[d]] = <<>>
                      /\ pc' \in Running => conn'[fd[d]] = "accepted"
                      /\ \/ cl[fd[d]] \in Gone
                         \/ s2c'[fd[d]] = <<>> /\ cl[fd[d]] \in {"waiting", "finishing"}
    BY DEF Waiting
  <2>1. ready_flag[d] /\ DevBus[d] # b
    BY <1>1 DEF RunProtocol, TypeOK
  <2>2. /\ fd[d] \in Client /\ fd[d] # NoClient /\ conn[fd[d]] = "accepted"
        /\ c2s[fd[d]] = <<>>
        /\ \/ cl[fd[d]] \in Gone
           \/ s2c[fd[d]] = <<>> /\ cl[fd[d]] \in {"waiting", "finishing"}
    BY <1>1, <2>1 DEF Waiting, Running, TypeOK
  <2>3. Port[fd[d]] = DevBus[d]
    <3>1. plug[fd[d]] = d /\ d # NoDevice
      BY <1>1, <2>2, ConstantsOK DEF Linked, ConstantsOK
    <3>2. d \in device_map(Port[fd[d]])
      BY <1>1, <2>2, <3>1 DEF Linked, Known
    <3> QED
      BY <3>2 DEF device_map
  <2> QED
    BY <1>2, <1>3, <2>1, <2>2, <2>3
<1>9. Times'
  <2>1. ASSUME NEW c \in Client, cl[c] \in {"idle", "connected", "hello"}
        PROVE  bus_time[c] = 0 /\ (Known(c) => time'[Port[c]] = 0)
    <3>1. Known(c) => Port[c] # b
      BY <1>1, <2>1, BusReady DEF Gone
    <3> QED
      BY <1>1, <1>4, <2>1, <3>1, ConstantsOK DEF Times, ConstantsOK
  <2>2. ASSUME NEW d \in Device, ready_flag'[d], ~exited_flag'[d]
        PROVE  ready_time[d] = time'[DevBus[d]]
    <3>1. ready_flag[d] /\ DevBus[d] # b
      BY <1>1, <2>2 DEF RunProtocol, TypeOK
    <3> QED
      BY <1>1, <1>4, <2>2, <3>1, ConstantsOK DEF Times, ConstantsOK
  <2> QED
    BY <2>1, <2>2 DEF Times, Known, device_map
<1> QED
  BY <1>6, <1>7, <1>8, <1>9

(* When the server dies in a step of a bus, some of its clients have been  *)
(* sent their UNTIL, or none has.                                          *)
LEMMA AbortSends ==
  ASSUME TypeOK, NEW b \in Bus, bus_ready_abort(b) \/ run_run_abort(b)
  PROVE  \E S \in SUBSET {c \in Plugged(b) : cl[c] \notin Gone} :
           s2c' = [c \in Client |-> IF c \in S THEN Append(s2c[c], Until(time'[b])) ELSE s2c[c]]
<1>1. CASE bus_ready_abort(b)
  BY <1>1 DEF bus_ready_abort
<1>2. CASE run_run_abort(b)
  <2>1. s2c' = [c \in Client |-> s2c[c]]
    BY <1>2 DEF run_run_abort, TypeOK
  <2>2. s2c' = [c \in Client |-> IF c \in {} THEN Append(s2c[c], Until(time'[b])) ELSE s2c[c]]
    BY <2>1
  <2>3. {} \in SUBSET {c \in Plugged(b) : cl[c] \notin Gone}
    OBVIOUS
  <2> QED
    BY <2>2, <2>3, ZenonT(30)
<1> QED
  BY <1>1, <1>2

(* A step of a bus preserves the invariant, whichever way it ends.         *)
LEMMA InvBus ==
  ASSUME UniqueNames, NEW b \in Bus, Inv, RunBus(b)
  PROVE  Inv'
<1>1. TypeOK /\ TypeOK' /\ Lockstep /\ RunList /\ Linked /\ Traffic
  BY TypeServer DEF Inv, ServerNext
<1>2. /\ NextToRun(b) /\ RunProtocol(b) /\ pc = "run" /\ b \in run
      /\ UNCHANGED <<fd, ready_time, plug, c2s, clientVars>>
  BY DEF RunBus, run_run_abort, bus_ready_until, bus_ready_abort, bus_ready_finish,
     NextToRun
<1>3. ASSUME NEW d \in Device, DevBus[d] # b PROVE ready_flag'[d] = ready_flag[d]
  BY <1>1, <1>2, <1>3 DEF RunProtocol, TypeOK
<1>4. \A x \in Bus \ {b} : time'[x] = time[x]
  BY <1>1, <1>2 DEF RunProtocol, TypeOK
<1>5. CASE bus_ready_until(b)
  <2> DEFINE S == {c \in Plugged(b) : cl[c] \notin Gone}
  <2>1. Until(time'[b]) = Until(Until(time'[b]).time)
    BY MessageTypes
  <2>2. /\ s2c' = [c \in Client |-> IF c \in S THEN Append(s2c[c], Until(time'[b])) ELSE s2c[c]]
        /\ UNCHANGED <<pc, rfdClient, listening, finished, exited_flag, conn>>
        /\ run' = run \ {b}
    BY <1>5 DEF bus_ready_until
  <2>3. Traffic' /\ Waiting' /\ Times' /\ Linked'
    <3> HIDE DEF S
    <3>1. S \subseteq {c \in Plugged(b) : cl[c] \notin Gone}
      BY DEF S
    <3> QED
      BY <1>1, <1>2, <2>1, <2>2, <3>1, BusStep
  <2>4. RunList'
    BY <1>1, <1>2, <1>3, <2>2 DEF RunList, device_map, clientVars
  <2>5. Lockstep'
    <3> SUFFICES ASSUME NEW c \in Client, Attached(c)' PROVE View(c)' = time'[Port[c]]
      BY DEF Lockstep
    <3>1. Attached(c) /\ plug[c] # NoDevice /\ cl[c] \notin Gone /\ View(c) = time[Port[c]]
      BY <1>1, <1>2, <2>2 DEF Attached, Gone, clientVars, Traffic, Lockstep
    <3>2. CASE Port[c] = b
      <4>1. c \in S /\ s2c[c] = <<>>
        BY <1>1, <1>2, <3>1, <3>2, BusReady
      <4>2. s2c'[c] = <<Until(time'[b])>>
        BY <2>2, <4>1, Single
      <4> QED
        BY <3>2, <4>2, Single, MessageTypes DEF View
    <3>3. CASE Port[c] # b
      <4>1. s2c'[c] = s2c[c] /\ time'[Port[c]] = time[Port[c]]
        BY <1>2, <1>4, <2>2, <3>3, BusReady, ConstantsOK DEF ConstantsOK
      <4> QED
        BY <1>2, <3>1, <4>1 DEF View, clientVars
    <3> QED
      BY <3>2, <3>3
  <2> QED
    BY <1>1, <2>3, <2>4, <2>5 DEF Inv
<1>6. CASE bus_ready_abort(b) \/ run_run_abort(b)
  <2>1. PICK S \in SUBSET {c \in Plugged(b) : cl[c] \notin Gone} :
          s2c' = [c \in Client |-> IF c \in S THEN Append(s2c[c], Until(time'[b])) ELSE s2c[c]]
    BY <1>1, <1>6, AbortSends
  <2>2. /\ EndProcess("aborted") /\ pc' = "aborted" /\ pc' \notin Running
        /\ UNCHANGED <<finished, exited_flag>>
    BY <1>6 DEF bus_ready_abort, run_run_abort, EndProcess, Running
  <2>3. Until(time'[b]) = Until(Until(time'[b]).time)
    BY MessageTypes
  <2>4. \A c \in Client : /\ conn'[c] \in {conn[c], "closed"} /\ conn'[c] # "accepted"
                          /\ conn'[c] # conn[c] => cl[c] # "idle"
    BY <1>1, <2>2 DEF EndProcess, Traffic, TypeOK
  <2>5. Traffic' /\ Waiting' /\ Times' /\ Linked'
    BY <1>1, <1>2, <2>1, <2>2, <2>3, <2>4, BusStep
  <2>6. RunList' /\ Lockstep'
    BY <1>1, <2>2, <2>4, ConstantsOK
    DEF ConstantsOK, EndProcess, RunList, device_map, Lockstep, Attached
  <2> QED
    BY <1>1, <2>5, <2>6 DEF Inv
<1>7. CASE bus_ready_finish(b)
  <2> DEFINE S == {c \in Plugged(b) : cl[c] \notin Gone}
  <2>1. /\ s2c' = [c \in Client |-> IF c \in S THEN Append(s2c[c], Finish) ELSE s2c[c]]
        /\ UNCHANGED <<pc, rfdClient, finished>>
        /\ run' = run \ {b} /\ listening' = [listening EXCEPT ![b] = FALSE]
        /\ exited_flag' = [d \in Device |-> exited_flag[d] \/ DevBus[d] = b]
        /\ conn' = [c \in Client |->
                      IF c \in Plugged(b) \/ (Port[c] = b /\ conn[c] = "backlog")
                      THEN "closed" ELSE conn[c]]
        /\ finished[b]
    BY <1>7 DEF bus_ready_finish
  <2>2. \A c \in Client : /\ conn'[c] \in {conn[c], "closed"}
                          /\ conn'[c] # conn[c] => cl[c] # "idle"
                          /\ Port[c] # b => conn'[c] = conn[c]
                          /\ Port[c] = b /\ plug[c] # NoDevice => conn'[c] = "closed"
    <3>1. \A c \in Plugged(b) : cl[c] # "idle" /\ Port[c] = b
      BY <1>2, BusReady DEF Gone
    <3>2. \A c \in Client : Port[c] = b /\ plug[c] # NoDevice => c \in Plugged(b)
      BY <1>2, BusReady
    <3> QED
      BY <1>1, <2>1, <3>1, <3>2 DEF Traffic
  <2>3. \A d \in Device : /\ DevBus[d] # b => exited_flag'[d] = exited_flag[d]
                          /\ exited_flag[d] => exited_flag'[d]
    BY <1>1, <2>1 DEF TypeOK
  <2>4. Traffic' /\ Waiting' /\ Times' /\ Linked'
    <3> HIDE DEF S
    <3>1. S \subseteq {c \in Plugged(b) : cl[c] \notin Gone}
      BY DEF S
    <3>2. s2c' = [c \in Client |-> IF c \in S THEN Append(s2c[c], Finish) ELSE s2c[c]]
      BY <2>1
    <3> QED
      BY <1>1, <1>2, <2>2, <2>3, <3>1, <3>2, BusStep, ZenonT(30)
  <2>5. RunList'
    <3>1. \A x \in Bus : finished'[x] => \E d \in device_map(x) : exited_flag'[d]
      BY <1>1, <2>1, <2>3 DEF RunList, device_map
    <3>2. ASSUME NEW d \in Device, exited_flag'[d], listening'[DevBus[d]]
          PROVE  fd'[d] # NoClient /\ cl'[fd'[d]] \in {"finishing"} \cup Gone
      <4>1. DevBus[d] # b /\ listening[DevBus[d]]
        BY <1>1, <2>1, <3>2, ConstantsOK DEF ConstantsOK, TypeOK
      <4> QED
        BY <1>1, <1>2, <2>3, <3>2, <4>1 DEF RunList, clientVars
    <3>3. ASSUME NEW x \in run', NEW d \in device_map(x)
          PROVE  ready_flag'[d] /\ (exited_flag'[d] => finished'[x])
      <4>1. d \in Device /\ DevBus[d] # b /\ x \in run
        BY <2>1, <3>3 DEF device_map
      <4> QED
        BY <1>1, <1>2, <1>3, <2>1, <2>3, <4>1 DEF RunList
    <3> QED
      BY <1>2, <2>1, <3>1, <3>2, <3>3 DEF RunList, device_map
  <2>6. Lockstep'
    <3> SUFFICES ASSUME NEW c \in Client, Attached(c)' PROVE View(c)' = time'[Port[c]]
      BY DEF Lockstep
    <3>1. Attached(c) /\ plug[c] # NoDevice /\ View(c) = time[Port[c]] /\ Port[c] # b
      BY <1>1, <1>2, <2>2 DEF Attached, clientVars, Traffic, Lockstep
    <3>2. s2c'[c] = s2c[c] /\ time'[Port[c]] = time[Port[c]]
      BY <1>2, <1>4, <2>1, <3>1, BusReady, ConstantsOK DEF ConstantsOK
    <3> QED
      BY <1>2, <3>1, <3>2 DEF View, clientVars
  <2> QED
    BY <1>1, <2>4, <2>5, <2>6 DEF Inv
<1> QED
  BY <1>5, <1>6, <1>7 DEF RunBus

(* Every step preserves the invariant.                                     *)
LEMMA InvNext ==
  ASSUME UniqueNames, Inv, [Next]_vars
  PROVE  Inv'
<1>1. TypeOK /\ TypeOK' /\ RunList
  BY TypeNext DEF Inv
<1>2. CASE Interrupted
  BY <1>1, <1>2, InvEnd DEF Interrupted
<1>3. CASE NothingToDo
  BY <1>1, <1>3, InvEnd DEF NothingToDo
<1>4. CASE Select
  <2>1. RunList'
    BY <1>1, <1>4
    DEF Select, RunList, ReadableClient, Polled, busVars, plugVars, clientVars, device_map
  <2> QED
    BY <1>1, <1>4, <2>1, InvLoop DEF Select, Running
<1>5. ASSUME NEW b \in Bus, listen_ready(b) PROVE Inv'
  <2>1. PICK c \in Client : /\ Port[c] = b /\ conn[c] = "backlog"
                            /\ conn' = [conn EXCEPT ![c] = "accepted"]
    BY <1>5 DEF listen_ready
  <2>2. UNCHANGED <<pc, rfdClient, run, busVars, plugVars, plug, c2s, s2c, clientVars>>
    BY <1>5 DEF listen_ready
  <2> USE DEF busVars, plugVars, clientVars
  <2>3. plug[c] = NoDevice /\ cl[c] \notin {"idle", "running", "waiting", "finishing"}
    BY <2>1 DEF Inv, Linked, Traffic
  <2>4. Linked' /\ Waiting' /\ Times'
    BY <1>1, <2>1, <2>2, <2>3 DEF TypeOK, Inv, Linked, Waiting, Times, Known, device_map
  <2>5. Traffic'
    BY <1>1, <2>1, <2>2, <2>3
    DEF TypeOK, Inv, Traffic, ToServer, ToClient, Known, device_map
  <2>6. RunList' /\ Lockstep'
    BY <1>1, <2>1, <2>2, <2>3 DEF TypeOK, Inv, RunList, device_map, Lockstep, Attached, View
  <2> QED
    BY <1>1, <2>4, <2>5, <2>6 DEF Inv
<1>6. CASE \E c \in Client : ServeClient(c)
  BY <1>6, InvServe
<1>7. CASE CheckBusses
  <2> USE DEF CheckBusses, plugVars, clientVars
  <2>1. RunList'
    <3>1. \A b \in run' : AllReady(b)
      BY <1>7
    <3>2. \A b \in run' : \A d \in device_map(b) : exited_flag[d] => finished'[b]
      BY <1>7
    <3>3. \A b \in Bus : finished'[b] => \E d \in device_map(b) : exited_flag[d]
      BY <1>1, <1>7 DEF RunList
    <3> QED
      BY <1>1, <1>7, <3>1, <3>2, <3>3 DEF RunList, AllReady, device_map
  <2>2. Linked' /\ Waiting' /\ Times' /\ Lockstep'
    BY <1>7 DEF Inv, Linked, Waiting, Running, Times, Known, device_map, Lockstep, Attached, View
  <2>3. Traffic'
    BY <1>7 DEF Inv, Traffic, ToServer, ToClient, Known, device_map
  <2> QED
    BY <1>1, <2>1, <2>2, <2>3 DEF Inv
<1>8. CASE \E b \in Bus : RunBus(b)
  BY <1>8, InvBus
<1>9. CASE EndRun
  <2>1. RunList'
    BY <1>1, <1>9 DEF EndRun, RunList, busVars, plugVars, clientVars, device_map
  <2> QED
    BY <1>1, <1>9, <2>1, InvLoop DEF EndRun, Running
<1>10. CASE Sigint
  <2>1. RunList'
    BY <1>1, <1>10 DEF Sigint, RunList, busVars, plugVars, clientVars, device_map
  <2> QED
    BY <1>1, <1>10, <2>1, InvLoop DEF Sigint
<1>11. CASE \E c \in Client : ClientSteps(c) \/ Crash(c)
  BY <1>11, InvClient
<1>12. CASE UNCHANGED vars
  <2> USE DEF vars, serverVars, busVars, plugVars, clientVars
  <2>1. Linked' /\ Waiting' /\ Times' /\ RunList' /\ Lockstep'
    BY <1>12 DEF Inv, Linked, Known, device_map, Waiting, Times, RunList, Lockstep, Attached, View
  <2>2. Traffic'
    BY <1>12 DEF Inv, Traffic, ToServer, ToClient, Known, device_map
  <2> QED
    BY <1>1, <2>1, <2>2 DEF Inv
<1> QED
  BY <1>2, <1>3, <1>4, <1>5, <1>6, <1>7, <1>8, <1>9, <1>10, <1>11, <1>12
  DEF Next, ServerNext, Terminated

(* The invariant of the service loop, for any number of busses, devices    *)
(* and clients, with clients crashing and the user interrupting at will.   *)
THEOREM Invariance == ASSUME UniqueNames PROVE Spec => []Inv
<1>1. Inv /\ [Next]_vars => Inv'
  BY InvNext
<1> QED
  BY <1>1, InvInit, PTL DEF Spec

-----------------------------------------------------------------------------
(* What follows from it                                                    *)

(* A connection never carries two messages, and a message from the server  *)
(* finds its client waiting for it: that each end handles one line per     *)
(* read loses nothing.                                                     *)
THEOREM OneOutstandingHolds == ASSUME UniqueNames PROVE Spec => []OneOutstanding
<1>1. Inv => OneOutstanding
  <2> SUFFICES ASSUME Inv, NEW c \in Client
               PROVE  /\ Len(c2s[c]) + Len(s2c[c]) <= 1
                      /\ s2c[c] # <<>> => cl[c] \in {"hello", "waiting", "finishing"} \cup Gone
    BY DEF OneOutstanding
  <2>1. ToServer(c) /\ ToClient(c) /\ (c2s[c] = <<>> \/ s2c[c] = <<>>)
    BY DEF Inv, Traffic
  <2>2. Len(<<>>) = 0 /\ \A m : Len(<<m>>) = 1
    OBVIOUS
  <2>3. (Len(c2s[c]) = 0 \/ Len(c2s[c]) = 1) /\ (Len(s2c[c]) = 0 \/ Len(s2c[c]) = 1)
    BY <2>1, <2>2 DEF ToServer, ToClient
  <2>4. Len(c2s[c]) = 0 \/ Len(s2c[c]) = 0
    BY <2>1, <2>2
  <2>5. Len(c2s[c]) + Len(s2c[c]) <= 1
    <3>1. \A m, n \in Nat : m \in {0, 1} /\ n \in {0, 1} /\ (m = 0 \/ n = 0) => m + n <= 1
      OBVIOUS
    <3>2. Len(c2s[c]) \in Nat /\ Len(s2c[c]) \in Nat
      BY <2>3
    <3> QED
      BY <2>3, <2>4, <3>1, <3>2
  <2> QED
    BY <2>1, <2>5 DEF ToClient
<1> QED
  BY <1>1, Invariance, PTL

(* A client attached to a bus has, or is about to read, the time of the    *)
(* bus.                                                                    *)
THEOREM LockstepHolds == ASSUME UniqueNames PROVE Spec => []Lockstep
<1>1. Inv => Lockstep
  BY DEF Inv
<1> QED
  BY <1>1, Invariance, PTL

(* bus_ready acts on READY messages for the current time of the bus only.  *)
THEOREM ReadyForThisStepHolds == ASSUME UniqueNames PROVE Spec => []ReadyForThisStep
<1>1. Inv => ReadyForThisStep
  BY DEF Inv, RunList, Times, ReadyForThisStep, device_map
<1> QED
  BY <1>1, Invariance, PTL

(* Only bus_ready of a bus that is not finished tells a client to go on.   *)
LEMMA UntilFrom ==
  ASSUME UniqueNames, Inv, [Next]_vars, NEW c \in Client,
         s2c'[c] # s2c[c], s2c'[c] # <<>>, Head(s2c'[c]).type = "UNTIL"
  PROVE  \E b \in Bus : NextToRun(b) /\ ~finished[b] /\ c \in Plugged(b)
<1>1. TypeOK /\ Traffic
  BY DEF Inv
<1>2. ASSUME NEW x \in Client, ServeClient(x) PROVE FALSE
  <2>1. PICK m \in {Nak, YouAre} : s2c'[c] = Append(s2c[c], m)
    BY <1>1, <1>2
    DEF ServeClient, process_client_hello_nak, process_client_hello_,
        process_client_hello_abort, process_client_ready_, process_client_finish_,
        read_eof, read_eof_abort, TypeOK
  <2>2. s2c[c] = <<>>
    <3>1. x = c
      BY <1>1, <1>2
      DEF ServeClient, process_client_hello_nak, process_client_hello_,
          process_client_hello_abort, process_client_ready_, process_client_finish_,
          read_eof, read_eof_abort, TypeOK
    <3>2. c2s[c] # <<>>
      BY <1>2, <3>1
      DEF ServeClient, process_client_hello_nak, process_client_hello_,
          process_client_hello_abort, process_client_ready_, process_client_finish_,
          read_eof, read_eof_abort, Serve
    <3> QED
      BY <1>1, <3>2 DEF Traffic
  <2> QED
    BY <2>1, <2>2, Single, MessageTypes
<1>3. ASSUME NEW b \in Bus, RunBus(b)
      PROVE  NextToRun(b) /\ ~finished[b] /\ c \in Plugged(b)
  <2>1. CASE bus_ready_until(b)
    BY <2>1 DEF bus_ready_until
  <2>2. CASE bus_ready_abort(b)
    BY <2>2 DEF bus_ready_abort
  <2>3. ~run_run_abort(b)
    BY DEF run_run_abort
  <2>4. CASE bus_ready_finish(b)
    <3>1. c \in Plugged(b) /\ cl[c] \notin Gone /\ s2c'[c] = Append(s2c[c], Finish)
      BY <2>4 DEF bus_ready_finish
    <3>2. s2c[c] = <<>>
      BY <2>4, <3>1, BusReady DEF bus_ready_finish, NextToRun
    <3> QED
      BY <3>1, <3>2, Single, MessageTypes
  <2> QED
    BY <1>3, <2>1, <2>2, <2>3, <2>4 DEF RunBus
<1>4. ASSUME NEW x \in Client, ClientSteps(x) \/ Crash(x) PROVE FALSE
  BY <1>1, <1>4
  DEF ClientSteps, Connect, SendHello, SendReady, SendFinish, Send, RecvHello, HelloEOF,
      RecvUntil, RecvEnd, RecvFinish, RecvReset, Disconnect, Crash, Receive, AtEOF, TypeOK
<1>5. ~(UNCHANGED vars)
  BY DEF vars
<1>6. CASE Interrupted \/ NothingToDo \/ Select \/ CheckBusses \/ EndRun \/ Sigint
  BY <1>6 DEF Interrupted, NothingToDo, Select, CheckBusses, EndRun, Sigint
<1>7. ASSUME NEW b \in Bus, listen_ready(b) PROVE FALSE
  BY <1>7 DEF listen_ready
<1> QED
  BY <1>2, <1>3, <1>4, <1>5, <1>6, <1>7 DEF Next, ServerNext, Terminated

(* Once a device has left its bus, no client of the bus is told to go on.  *)
THEOREM NoUntilAfterExitHolds == ASSUME UniqueNames PROVE Spec => NoUntilAfterExit
<1>1. Inv /\ [Next]_vars =>
        [\A c \in Client :
           s2c'[c] # s2c[c] /\ s2c'[c] # <<>> /\ Head(s2c'[c]).type = "UNTIL"
             => \A d \in device_map(Port[c]) : ~exited_flag[d]]_vars
  <2> SUFFICES ASSUME Inv, [Next]_vars, NEW c \in Client,
                      s2c'[c] # s2c[c], s2c'[c] # <<>>, Head(s2c'[c]).type = "UNTIL",
                      NEW d \in device_map(Port[c])
               PROVE  ~exited_flag[d]
    OBVIOUS
  <2>1. PICK b \in Bus : NextToRun(b) /\ ~finished[b] /\ c \in Plugged(b)
    BY UntilFrom
  <2>2. Port[c] = b
    BY <2>1, BusReady DEF NextToRun
  <2> QED
    BY <2>1, <2>2 DEF Inv, RunList, NextToRun
<1> QED
  BY <1>1, Invariance, PTL DEF Spec, NoUntilAfterExit

(* A bus is closed under a running server only because a client of that    *)
(* bus finished or went away.                                              *)
THEOREM BusEndsForCauseHolds == ASSUME UniqueNames PROVE Spec => BusEndsForCause
<1>1. Inv /\ [Next]_vars =>
        [\A b \in Bus :
           listening[b] /\ ~listening'[b] /\ pc' \in Running
             => \E c \in Client : Port[c] = b /\ cl[c] \in {"finishing"} \cup Gone]_vars
  <2> SUFFICES ASSUME Inv, [Next]_vars, NEW b \in Bus,
                      listening[b], ~listening'[b], pc' \in Running
               PROVE  \E c \in Client : Port[c] = b /\ cl[c] \in {"finishing"} \cup Gone
    OBVIOUS
  <2>1. bus_ready_finish(b)
    <3>1. CASE Interrupted \/ NothingToDo \/ Select \/ CheckBusses \/ EndRun \/ Sigint
      BY <3>1
      DEF Interrupted, NothingToDo, Select, CheckBusses, EndRun, Sigint, EndProcess,
          Running, busVars
    <3>2. ASSUME NEW x \in Bus, listen_ready(x) PROVE FALSE
      BY <3>2 DEF listen_ready, busVars
    <3>3. ASSUME NEW x \in Client, ServeClient(x) PROVE FALSE
      BY <3>3
      DEF ServeClient, process_client_hello_nak, process_client_hello_,
          process_client_hello_abort, process_client_ready_, process_client_finish_,
          read_eof, read_eof_abort, EndProcess, Running, busVars
    <3>4. ASSUME NEW x \in Bus, RunBus(x) PROVE x = b /\ bus_ready_finish(x)
      BY <3>4
      DEF RunBus, run_run_abort, bus_ready_until, bus_ready_abort, bus_ready_finish,
          EndProcess, Running, Inv, TypeOK
    <3>5. ASSUME NEW x \in Client, ClientSteps(x) \/ Crash(x) PROVE FALSE
      BY <3>5
      DEF ClientSteps, Connect, SendHello, SendReady, SendFinish, Send, RecvHello,
          HelloEOF, RecvUntil, RecvEnd, RecvFinish, RecvReset, Disconnect, Crash,
          Receive, AtEOF, busVars
    <3>6. ~(UNCHANGED vars)
      BY DEF vars, busVars
    <3> QED
      BY <3>1, <3>2, <3>3, <3>4, <3>5, <3>6 DEF Next, ServerNext, Terminated
  <2>2. PICK d \in device_map(b) : exited_flag[d]
    BY <2>1 DEF bus_ready_finish, Inv, RunList
  <2>3. d \in Device /\ DevBus[d] = b
    BY DEF device_map
  <2>4. fd[d] # NoClient /\ cl[fd[d]] \in {"finishing"} \cup Gone
    BY <2>2, <2>3 DEF Inv, RunList
  <2>5. fd[d] \in Client /\ Port[fd[d]] = b
    BY <2>1, <2>3, <2>4, BusReady
    DEF bus_ready_finish, NextToRun, Inv, TypeOK, Plugged
  <2> QED
    BY <2>4, <2>5
<1> QED
  BY <1>1, Invariance, PTL DEF Spec, BusEndsForCause

(* Until a client crashes or a refused one leaves, the server's view of    *)
(* who is gone is never behind when it writes to them.                     *)
LEMMA OrderlyNext ==
  ASSUME UniqueNames, Inv, Silent, Orderly, [Next]_vars, ~Disorder, ~Disorder'
  PROVE  Orderly'
<1>1. TypeOK /\ TypeOK' /\ Traffic /\ Linked /\ Waiting /\ RunList
  BY TypeNext DEF Inv
<1>2. ASSUME EndProcess("stopped"), UNCHANGED <<plug, c2s, cl>> PROVE Orderly'
  BY <1>1, <1>2 DEF Orderly, EndProcess, Running, TypeOK, Traffic
<1>3. CASE Interrupted \/ NothingToDo
  BY <1>2, <1>3 DEF Interrupted, NothingToDo, clientVars
<1>4. CASE Select \/ CheckBusses \/ EndRun \/ Sigint
  BY <1>4 DEF Select, CheckBusses, EndRun, Sigint, Orderly, Running, plugVars, clientVars
<1>5. ASSUME NEW b \in Bus, listen_ready(b) PROVE Orderly'
  BY <1>1, <1>5 DEF listen_ready, Orderly, Running, plugVars, clientVars, TypeOK
<1>6. ASSUME NEW c \in Client, ServeClient(c) PROVE Orderly'
  <2>1. pc = "serve" /\ conn[c] = "accepted"
    BY <1>1, <1>6
    DEF ServeClient, process_client_hello_nak, process_client_hello_,
        process_client_hello_abort, process_client_ready_, process_client_finish_,
        read_eof, read_eof_abort, Serve, ServeEOF, RunList
  <2>2. cl[c] \in Gone => plug[c] # NoDevice /\ c2s[c] = <<>>
    BY <2>1 DEF Orderly
  <2>3. CASE process_client_hello_nak(c)
    <3>1. /\ cl[c] \notin Gone
          /\ \A x \in Client \ {c} : c2s'[x] = c2s[x]
          /\ UNCHANGED <<pc, conn, plug, fd, ready_flag, exited_flag, cl>>
      BY <1>1, <2>3 DEF process_client_hello_nak, Serve, Disorder, plugVars, clientVars, TypeOK
    <3> QED
      BY <3>1 DEF Orderly
  <2>4. ~process_client_hello_abort(c)
    BY <2>2 DEF process_client_hello_abort, MayFail, Serve
  <2>5. ~read_eof_abort(c)
    BY <2>2 DEF read_eof_abort, ServeEOF
  <2>6. CASE process_client_hello_(c)
    <3>1. /\ cl[c] \notin Gone /\ Name[c] \in Device
          /\ \A x \in Client \ {c} : plug'[x] = plug[x] /\ c2s'[x] = c2s[x]
          /\ UNCHANGED <<pc, conn, exited_flag, cl>>
      BY <1>1, <2>2, <2>6
      DEF process_client_hello_, Serve, Known, device_map, clientVars, TypeOK
    <3>2. \A d \in Device : ready_flag'[d] => ready_flag[d] /\ fd'[d] = fd[d]
      BY <1>1, <2>6, <3>1 DEF process_client_hello_, TypeOK
    <3> QED
      BY <3>1, <3>2 DEF Orderly
  <2>7. CASE process_client_ready_(c)
    <3>1. cl[c] \notin Gone /\ plug[c] # NoDevice
      BY <1>1, <2>2, <2>7, Single, MessageTypes
      DEF process_client_ready_, Serve, Traffic, ToServer
    <3>2. plug[c] \in Device /\ fd[plug[c]] = c
      BY <1>1, <3>1 DEF Linked, TypeOK
    <3>3. /\ \A x \in Client \ {c} : c2s'[x] = c2s[x]
          /\ \A d \in Device : ready_flag'[d] => ready_flag[d] \/ d = plug[c]
          /\ UNCHANGED <<pc, conn, plug, fd, exited_flag, cl>>
      BY <1>1, <2>7 DEF process_client_ready_, Serve, clientVars, TypeOK
    <3> QED
      BY <3>1, <3>2, <3>3 DEF Orderly
  <2>8. CASE process_client_finish_(c)
    <3>1. cl[c] \notin Gone
      BY <2>2, <2>8 DEF process_client_finish_, Serve
    <3>2. /\ \A x \in Client \ {c} : c2s'[x] = c2s[x]
          /\ \A d \in Device : /\ ready_flag'[d] => ready_flag[d] \/ exited_flag'[d]
                               /\ exited_flag[d] => exited_flag'[d]
          /\ UNCHANGED <<pc, conn, plug, fd, cl>>
      BY <1>1, <2>8 DEF process_client_finish_, Serve, clientVars, TypeOK
    <3> QED
      BY <3>1, <3>2 DEF Orderly
  <2>9. CASE read_eof(c)
    <3>1. /\ \A d \in Device : /\ ready_flag'[d] => ready_flag[d] \/ exited_flag'[d]
                               /\ exited_flag[d] => exited_flag'[d]
          /\ UNCHANGED <<pc, conn, plug, fd, cl, c2s>>
      BY <1>1, <2>9 DEF read_eof, clientVars, TypeOK
    <3> QED
      BY <3>1 DEF Orderly
  <2> QED
    BY <1>6, <2>3, <2>4, <2>5, <2>6, <2>7, <2>8, <2>9 DEF ServeClient
<1>7. ASSUME NEW b \in Bus, RunBus(b) PROVE Orderly'
  <2>1. /\ NextToRun(b) /\ RunProtocol(b) /\ pc = "run" /\ b \in run
        /\ UNCHANGED <<fd, plug, c2s, cl>>
    BY <1>7
    DEF RunBus, run_run_abort, bus_ready_until, bus_ready_abort, bus_ready_finish,
        NextToRun, clientVars
  <2>2. \A d \in Device : ready_flag'[d] => ready_flag[d] /\ DevBus[d] # b
    BY <1>1, <2>1 DEF RunProtocol, TypeOK
  <2>3. ~bus_ready_abort(b)
    <3> SUFFICES ASSUME NEW c \in Plugged(b), cl[c] \in Gone, ~finished[b] PROVE FALSE
      BY DEF bus_ready_abort, MayFail
    <3>1. PICK d \in device_map(b) : c = fd[d]
      BY DEF Plugged
    <3>2. d \in Device /\ ready_flag[d] /\ (exited_flag[d] => finished[b])
      BY <1>1, <2>1 DEF RunList, device_map
    <3> QED
      BY <2>1, <3>1, <3>2 DEF Orderly, Running
  <2>4. CASE bus_ready_until(b)
    BY <2>1, <2>2, <2>4 DEF bus_ready_until, Orderly
  <2>5. CASE bus_ready_finish(b)
    BY <1>1, <2>1, <2>2, <2>5 DEF bus_ready_finish, Orderly, TypeOK, Running
  <2>6. ~run_run_abort(b)
    <3> SUFFICES ASSUME NEW d \in device_map(b), ~signals[d], b \in Checked PROVE FALSE
      BY DEF run_run_abort, SignalsThere
    <3>1. d \in Device /\ ready_flag[d]
      BY <1>1, <2>1 DEF RunList, device_map
    <3>2. /\ fd[d] \in Client /\ Port[fd[d]] = b /\ c2s[fd[d]] = <<>>
          /\ Name[fd[d]] = d /\ Known(fd[d])
      BY <1>1, <2>1, <3>1, BusReady, ConstantsOK
      DEF Plugged, Waiting, Linked, TypeOK, ConstantsOK
    <3> QED
      BY <3>1, <3>2 DEF Silent, Disorder, LeftEarly
  <2> QED
    BY <1>7, <2>3, <2>4, <2>5, <2>6 DEF RunBus
<1>8. ASSUME NEW c \in Client, ClientSteps(c) PROVE Orderly'
  <2>1. ToServer(c) /\ ToClient(c) /\ (c2s[c] = <<>> \/ s2c[c] = <<>>)
    BY <1>1 DEF Traffic
  <2>2. /\ UNCHANGED <<pc, fd, ready_flag, exited_flag, plug>>
        /\ \A x \in Client \ {c} : cl'[x] = cl[x] /\ c2s'[x] = c2s[x] /\ conn'[x] = conn[x]
    <3>0. /\ cl \in [Client -> ClientState] /\ c2s \in [Client -> Seq(Message)]
          /\ conn \in [Client -> {"none", "backlog", "accepted", "closed"}]
      BY <1>1 DEF TypeOK
    <3>1. CASE SendHello(c) \/ SendReady(c) \/ SendFinish(c)
      BY <3>0, <3>1 DEF SendHello, SendReady, SendFinish, Send, serverVars, plugVars
    <3>2. CASE RecvHello(c) \/ RecvUntil(c)
      BY <3>0, <3>2 DEF RecvHello, RecvUntil, Receive, serverVars, plugVars
    <3>3. CASE HelloEOF(c) \/ RecvEnd(c) \/ RecvFinish(c)
      BY <3>0, <3>3 DEF HelloEOF, RecvEnd, RecvFinish, Receive, AtEOF, serverVars, plugVars
    <3>4. CASE Connect(c) \/ Disconnect(c) \/ RecvReset(c)
      BY <3>0, <3>4 DEF Connect, Disconnect, RecvReset, serverVars, plugVars
    <3> QED
      BY <1>8, <3>1, <3>2, <3>3, <3>4 DEF ClientSteps
  <2>3. cl[c] \notin Gone
    BY <1>8
    DEF ClientSteps, Connect, SendHello, SendReady, SendFinish, RecvHello, HelloEOF,
        RecvUntil, RecvEnd, RecvFinish, RecvReset, Disconnect, Gone
  <2>4. ASSUME cl'[c] \in Gone
        PROVE  /\ conn'[c] = conn[c]
               /\ conn[c] # "closed" => /\ plug[c] # NoDevice /\ c2s'[c] = <<>>
                                        /\ s2c[c] # <<>> \/ cl[c] = "running"
    <3>1. CASE SendHello(c) \/ SendReady(c) \/ SendFinish(c)
      BY <1>1, <2>4, <3>1 DEF SendHello, SendReady, SendFinish, Send, Gone, TypeOK
    <3>2. CASE RecvHello(c)
      <4>1. Known(c)
        BY <2>4 DEF Disorder
      <4> QED
        BY <1>1, <2>1, <2>4, <3>2, <4>1, Single DEF RecvHello, Receive, ToClient, Gone, TypeOK
    <3>3. CASE HelloEOF(c) \/ RecvReset(c)
      BY <3>3 DEF HelloEOF, AtEOF, RecvReset
    <3>4. CASE RecvEnd(c) \/ RecvFinish(c)
      BY <1>1, <2>1, <3>4 DEF RecvEnd, RecvFinish, Receive, AtEOF, Traffic
    <3>5. CASE Disconnect(c)
      BY <1>1, <2>1, <3>5 DEF Disconnect, ToServer, Traffic, Gone
    <3>6. CASE Connect(c) \/ RecvUntil(c)
      BY <1>1, <2>4, <3>6 DEF Connect, RecvUntil, Gone, TypeOK
    <3> QED
      BY <1>8, <3>1, <3>2, <3>3, <3>4, <3>5, <3>6 DEF ClientSteps
  <2>5. ASSUME pc \in Running, NEW d \in Device, ready_flag[d], cl'[fd[d]] \in Gone
        PROVE  exited_flag[d]
    <3>1. /\ fd[d] \in Client /\ conn[fd[d]] = "accepted"
          /\ cl[fd[d]] \in Gone \/ (s2c[fd[d]] = <<>> /\ cl[fd[d]] \in {"waiting", "finishing"})
      BY <1>1, <2>5 DEF Waiting, TypeOK
    <3>2. fd[d] # c
      BY <2>3, <2>4, <2>5, <3>1
    <3> QED
      BY <2>2, <2>5, <3>1, <3>2 DEF Orderly
  <2> QED
    BY <2>2, <2>4, <2>5 DEF Orderly
<1>9. ASSUME NEW c \in Client, Crash(c) PROVE FALSE
  <2>1. c \in Crashing /\ cl'[c] = "dead"
    BY <1>1, <1>9 DEF Crash, TypeOK
  <2> QED
    BY <2>1 DEF Disorder
<1>10. CASE UNCHANGED vars
  BY <1>10 DEF vars, serverVars, plugVars, clientVars, Orderly
<1> QED
  BY <1>3, <1>4, <1>5, <1>6, <1>7, <1>8, <1>9, <1>10 DEF Next, ServerNext, Terminated

(* Signals are filled, and never emptied, by serving a READY only.         *)
LEMMA SignalsFrom ==
  ASSUME TypeOK, [Next]_vars, NEW d \in Device
  PROVE  \/ signals'[d] = signals[d]
         \/ \E c \in Client : /\ process_client_ready_(c) /\ plug[c] = d
                              /\ signals'[d] = TRUE
<1>1. CASE ServerNext
  <2>1. CASE \E c \in Client : ServeClient(c)
    BY <2>1
    DEF ServeClient, process_client_hello_nak, process_client_hello_,
        process_client_hello_abort, process_client_ready_, process_client_finish_,
        read_eof, read_eof_abort, plugVars, TypeOK
  <2>2. CASE \E b \in Bus : RunBus(b)
    BY <2>2 DEF RunBus, run_run_abort, bus_ready_until, bus_ready_abort, bus_ready_finish
  <2> QED
    BY <1>1, <2>1, <2>2
    DEF ServerNext, Interrupted, NothingToDo, Select, listen_ready, CheckBusses, EndRun,
        plugVars
<1>2. CASE \E c \in Client : ClientSteps(c) \/ Crash(c)
  BY <1>2
  DEF ClientSteps, Connect, SendHello, SendReady, SendFinish, Send, RecvHello, HelloEOF,
      RecvUntil, RecvEnd, RecvFinish, RecvReset, Disconnect, Crash, Receive, AtEOF, plugVars
<1>3. CASE Sigint \/ UNCHANGED vars
  BY <1>3 DEF Sigint, vars, plugVars
<1> QED
  BY <1>1, <1>2, <1>3 DEF Next, Terminated

(* Who is finishing, or gone, stays so, and sends nothing more.            *)
LEMMA LeftStays ==
  ASSUME TypeOK, [Next]_vars, NEW c \in Client, cl[c] \in {"finishing"} \cup Gone
  PROVE  /\ cl'[c] \in {"finishing"} \cup Gone /\ bus_time'[c] = bus_time[c]
         /\ cl[c] \in Gone => cl'[c] = cl[c]
         /\ c2s'[c] \in {c2s[c], <<>>, Tail(c2s[c])}
<1>1. CASE Interrupted \/ NothingToDo \/ Select \/ CheckBusses \/ EndRun \/ Sigint
  BY <1>1 DEF Interrupted, NothingToDo, Select, CheckBusses, EndRun, Sigint, clientVars
<1>2. ASSUME NEW b \in Bus, listen_ready(b) \/ RunBus(b)
      PROVE  UNCHANGED <<cl, c2s, bus_time>>
  BY <1>2
  DEF listen_ready, RunBus, run_run_abort, bus_ready_until, bus_ready_abort,
      bus_ready_finish, clientVars
<1>3. ASSUME NEW x \in Client, ServeClient(x)
      PROVE  UNCHANGED <<cl, bus_time>> /\ c2s'[c] \in {c2s[c], Tail(c2s[c])}
  BY <1>3
  DEF ServeClient, process_client_hello_nak, process_client_hello_,
      process_client_hello_abort, process_client_ready_, process_client_finish_,
      read_eof, read_eof_abort, Serve, clientVars, TypeOK
<1>4. ASSUME NEW x \in Client, ClientSteps(x) \/ Crash(x), x # c
      PROVE  cl'[c] = cl[c] /\ bus_time'[c] = bus_time[c] /\ c2s'[c] = c2s[c]
  BY <1>4
  DEF ClientSteps, Connect, SendHello, SendReady, SendFinish, Send, RecvHello, HelloEOF,
      RecvUntil, RecvEnd, RecvFinish, RecvReset, Disconnect, Crash, Receive, AtEOF, TypeOK
<1>5. ASSUME ClientSteps(c) \/ Crash(c)
      PROVE  /\ cl[c] \notin Gone /\ cl'[c] \in Gone /\ bus_time'[c] = bus_time[c]
             /\ c2s'[c] \in {c2s[c], <<>>}
  BY <1>5
  DEF ClientSteps, Connect, SendHello, SendReady, SendFinish, RecvHello, HelloEOF,
      RecvUntil, RecvEnd, RecvFinish, RecvReset, Disconnect, Crash, Receive, AtEOF, TypeOK, Gone
<1>6. CASE UNCHANGED vars
  BY <1>6 DEF vars, clientVars
<1> QED
  BY <1>1, <1>2, <1>3, <1>4, <1>5, <1>6 DEF Next, ServerNext, Terminated

(* A device becomes ready by a READY, which brings its signals, or by      *)
(* leaving.                                                                *)
LEMMA SilentNext ==
  ASSUME UniqueNames, Inv, Silent, [Next]_vars
  PROVE  Silent'
<1>1. TypeOK /\ TypeOK' /\ Traffic /\ Linked /\ Waiting
  BY TypeNext DEF Inv
<1> SUFFICES ASSUME NEW d \in Device, ready_flag'[d], ~signals'[d]
             PROVE  cl'[fd'[d]] \in {"finishing"} \cup Gone
  BY DEF Silent
<1>2. ~signals[d]
  BY <1>1, SignalsFrom DEF TypeOK
<1>3. ASSUME ready_flag[d], fd'[d] = fd[d] PROVE cl'[fd'[d]] \in {"finishing"} \cup Gone
  <2>1. fd[d] \in Client /\ cl[fd[d]] \in {"finishing"} \cup Gone
    BY <1>1, <1>2, <1>3 DEF Silent, Waiting, TypeOK
  <2> QED
    BY <1>1, <1>3, <2>1, LeftStays
<1>4. CASE Interrupted \/ NothingToDo \/ Select \/ CheckBusses \/ EndRun \/ Sigint
  BY <1>3, <1>4
  DEF Interrupted, NothingToDo, Select, CheckBusses, EndRun, Sigint, plugVars
<1>5. ASSUME NEW b \in Bus, listen_ready(b) \/ RunBus(b)
      PROVE  cl'[fd'[d]] \in {"finishing"} \cup Gone
  <2>1. fd' = fd /\ ready_flag[d]
    BY <1>5
    DEF listen_ready, RunBus, run_run_abort, bus_ready_until, bus_ready_abort,
        bus_ready_finish, RunProtocol, plugVars
  <2> QED
    BY <1>3, <2>1
<1>6. ASSUME NEW c \in Client, ServeClient(c) PROVE cl'[fd'[d]] \in {"finishing"} \cup Gone
  <2>1. CASE process_client_hello_nak(c) \/ process_client_hello_abort(c) \/ read_eof_abort(c)
    BY <1>3, <2>1
    DEF process_client_hello_nak, process_client_hello_abort, read_eof_abort, plugVars
  <2>2. CASE process_client_hello_(c)
    <3>1. ready_flag[d] /\ fd'[d] = fd[d]
      BY <1>1, <2>2 DEF process_client_hello_, TypeOK
    <3> QED
      BY <1>3, <3>1
  <2>3. CASE process_client_ready_(c)
    <3>1. d # plug[c]
      BY <1>1, <2>3 DEF process_client_ready_, TypeOK
    <3>2. ready_flag[d] /\ fd'[d] = fd[d]
      BY <1>1, <2>3, <3>1 DEF process_client_ready_, TypeOK
    <3> QED
      BY <1>3, <3>2
  <2>4. CASE process_client_finish_(c) \/ read_eof(c)
    <3>1. UNCHANGED <<fd, cl>> /\ ready_flag' = [ready_flag EXCEPT ![plug[c]] = TRUE]
      BY <2>4 DEF process_client_finish_, read_eof, clientVars
    <3>2. plug[c] # NoDevice /\ cl[c] \in {"finishing"} \cup Gone
      BY <1>1, <2>4, Single, MessageTypes
      DEF process_client_finish_, read_eof, Serve, ServeEOF, Traffic, ToServer
    <3>3. CASE d = plug[c]
      BY <1>1, <3>1, <3>2, <3>3 DEF Linked
    <3>4. CASE d # plug[c]
      BY <1>1, <1>3, <3>1, <3>4 DEF TypeOK
    <3> QED
      BY <3>3, <3>4
  <2> QED
    BY <1>6, <2>1, <2>2, <2>3, <2>4 DEF ServeClient
<1>7. ASSUME NEW c \in Client, ClientSteps(c) \/ Crash(c)
      PROVE  cl'[fd'[d]] \in {"finishing"} \cup Gone
  <2>1. UNCHANGED <<fd, ready_flag>>
    BY <1>7
    DEF ClientSteps, Connect, SendHello, SendReady, SendFinish, Send, RecvHello, HelloEOF,
        RecvUntil, RecvEnd, RecvFinish, RecvReset, Disconnect, Crash, Receive, AtEOF, plugVars
  <2> QED
    BY <1>3, <2>1
<1>8. CASE UNCHANGED vars
  BY <1>3, <1>8 DEF vars, plugVars
<1> QED
  BY <1>4, <1>5, <1>6, <1>7, <1>8 DEF Next, ServerNext, Terminated

(* Nobody who is gone comes back, and who left early sends no READY.       *)
LEMMA DisorderStays ==
  ASSUME UniqueNames, Inv, [Next]_vars, Disorder
  PROVE  Disorder'
<1>1. TypeOK /\ Traffic /\ Linked
  BY DEF Inv
<1>2. CASE \E c \in Crashing : cl[c] = "dead"
  BY <1>1, <1>2, LeftStays, ConstantsOK DEF ConstantsOK, Disorder, Gone
<1>3. CASE \E c \in Client : ~Known(c) /\ cl[c] \in Gone
  BY <1>1, <1>3, LeftStays DEF Disorder, Known, device_map
<1>4. ASSUME NEW c \in Client, LeftEarly(c) PROVE LeftEarly(c)'
  <2>1. /\ Port[c] \in Checked /\ Known(c) /\ cl[c] \in {"finishing"} \cup Gone
        /\ ~signals[Name[c]] /\ c2s[c] # <<Ready(bus_time[c])>>
        /\ Name[c] \in Device
    BY <1>4 DEF LeftEarly, Known, device_map
  <2>2. /\ cl'[c] \in {"finishing"} \cup Gone /\ bus_time'[c] = bus_time[c]
        /\ c2s'[c] \in {c2s[c], <<>>, Tail(c2s[c])}
    BY <1>1, <2>1, LeftStays
  <2>3. c2s'[c] # <<Ready(bus_time[c])>>
    <3>1. c2s[c] = <<>> \/ Tail(c2s[c]) = <<>>
      BY <1>1, Single DEF Traffic, ToServer
    <3>2. c2s'[c] \in {c2s[c], <<>>} \/ (c2s[c] = <<>> /\ c2s'[c] = Tail(c2s[c]))
      BY <2>2, <3>1
    <3>3. <<>> # <<Ready(bus_time[c])>> /\ Tail(<<>>) # <<Ready(bus_time[c])>>
      OBVIOUS
    <3> QED
      BY <2>1, <3>2, <3>3
  <2>4. ~signals'[Name[c]]
    <3> SUFFICES ASSUME NEW x \in Client, process_client_ready_(x), plug[x] = Name[c]
                 PROVE  FALSE
      BY <1>1, <2>1, SignalsFrom
    <3>1. Name[x] = Name[c]
      BY <1>1, <2>1, ConstantsOK DEF Linked, ConstantsOK
    <3>2. x = c
      BY <3>1 DEF UniqueNames
    <3>3. c2s[c] # <<>> /\ Head(c2s[c]).type = "READY"
      BY <3>2 DEF process_client_ready_, Serve
    <3> QED
      BY <1>1, <2>1, <3>3, Single, MessageTypes DEF Traffic, ToServer
  <2> QED
    BY <2>1, <2>2, <2>3, <2>4 DEF LeftEarly, Known, device_map
<1> QED
  BY <1>2, <1>3, <1>4 DEF Disorder

(* An assertion of the server fails only after a client process has died,  *)
(* a client that was refused has left, or a device has left a bus that     *)
(* asserts its signals before it ever sent them: any number of clients     *)
(* with names of their own may otherwise come, step, finish and go in any  *)
(* order.                                                                  *)
THEOREM AbortForCauseHolds ==
  ASSUME UniqueNames PROVE Spec => []AbortForCause
<1> DEFINE Calm == Silent /\ (Disorder \/ Orderly)
<1>1. Init => Calm
  BY DEF Init, Silent, Orderly, Gone
<1>2. Inv /\ Calm /\ [Next]_vars => Calm'
  BY OrderlyNext, DisorderStays, SilentNext
<1>3. Calm => AbortForCause
  BY DEF Orderly, AbortForCause
<1> HIDE DEF Calm
<1> QED
  BY <1>1, <1>2, <1>3, Invariance, PTL DEF Spec

(* No assertion of the server fails at all when every client comes with a  *)
(* name of its own that its bus knows, none crashes, and the server has no *)
(* bus that asserts its signals.                                           *)
THEOREM NoAbortHolds ==
  ASSUME UniqueNames, AllKnown, Crashing = {}, Checked = {} PROVE Spec => []NoAbort
<1>1. AbortForCause => NoAbort
  BY DEF AbortForCause, Disorder, LeftEarly, AllKnown, NoAbort
<1> QED
  BY <1>1, AbortForCauseHolds, PTL

-----------------------------------------------------------------------------
(* The barrier                                                             *)

(* Where a client is, by its state and its connection's.                   *)
LEMMA Places ==
  ASSUME NEW c \in Client, TypeOK
  PROVE  /\ cl[c] \in {"idle", "connected", "hello"} => Place(c) = "out"
         /\ cl[c] = "running" => Place(c) = "computing"
         /\ cl[c] = "waiting" /\ Told(c) => Place(c) = "released"
         /\ cl[c] = "waiting" /\ ~Told(c) /\ conn[c] # "closed" => Place(c) = "ready"
         /\ cl[c] = "waiting" /\ ~Told(c) /\ conn[c] = "closed" => Place(c) = "left"
         /\ cl[c] \in {"finishing"} \cup Gone => Place(c) = "left"
BY DEF Place, Gone

(* The same after a step.                                                  *)
LEMMA PlacesNext ==
  ASSUME NEW c \in Client, TypeOK'
  PROVE  /\ cl'[c] \in {"idle", "connected", "hello"} => Place(c)' = "out"
         /\ cl'[c] = "running" => Place(c)' = "computing"
         /\ cl'[c] = "waiting" /\ Told(c)' => Place(c)' = "released"
         /\ cl'[c] = "waiting" /\ ~Told(c)' /\ conn'[c] # "closed" => Place(c)' = "ready"
         /\ cl'[c] = "waiting" /\ ~Told(c)' /\ conn'[c] = "closed" => Place(c)' = "left"
         /\ cl'[c] \in {"finishing"} \cup Gone => Place(c)' = "left"
BY DEF Place, Gone

(* A place depends on the client's own connection only.                    *)
LEMMA PlaceSame ==
  ASSUME NEW c \in Client, cl'[c] = cl[c], s2c'[c] = s2c[c],
         conn'[c] # "closed" <=> conn[c] # "closed"
  PROVE  Place(c)' = Place(c) /\ (Told(c)' <=> Told(c))
BY DEF Place, Told

(* A step that moves no client is a step of the barrier that changes       *)
(* nothing.                                                                *)
LEMMA NoMove ==
  ASSUME \A c \in Client : Place(c)' = Place(c), UNCHANGED <<time, bus_time>>
  PROVE  UNCHANGED Abstract!vars
BY DEF Abstract!vars, Member, Known, device_map

(* What a step of one client may do to its place.                          *)
OneMove(c) ==
  \/ Place(c)' = Place(c) /\ bus_time'[c] = bus_time[c]
  \/ /\ Known(c) => time[Port[c]] = 0
     /\ Place(c) = "out" /\ Place(c)' = "computing" /\ bus_time'[c] = bus_time[c]
  \/ Place(c) = "computing" /\ Place(c)' = "ready" /\ bus_time'[c] = bus_time[c]
  \/ /\ Place(c) = "released" /\ Place(c)' = "computing"
     /\ bus_time'[c] = time[Port[c]]
  \/ Place(c)' = "left" /\ bus_time'[c] = bus_time[c]

(* Such a step is one of the barrier.                                      *)
LEMMA MoveIsStep ==
  ASSUME NEW c \in Client, UNCHANGED time, OneMove(c),
         \A x \in Client \ {c} : Place(x)' = Place(x) /\ bus_time'[x] = bus_time[x]
  PROVE  [Abstract!Next]_(Abstract!vars)
<1> DEFINE P == [x \in Member |-> Place(x)]
           T == [x \in Member |-> bus_time[x]]
<1>1. Member \subseteq Client /\ Member' = Member
  BY DEF Member, Known, device_map
<1>2. P' = [x \in Member |-> Place(x)'] /\ T' = [x \in Member |-> bus_time'[x]]
  BY <1>1
<1>3. CASE c \notin Member
  <2>1. P' = P /\ T' = T
    BY <1>1, <1>2, <1>3
  <2> QED
    BY <2>1 DEF Abstract!vars
<1>4. CASE c \in Member
  <2>1. /\ P' = [P EXCEPT ![c] = Place(c)'] /\ T' = [T EXCEPT ![c] = bus_time'[c]]
        /\ P[c] = Place(c) /\ T[c] = bus_time[c]
    BY <1>1, <1>2, <1>4
  <2>2. bus_time'[c] = bus_time[c] => T' = T
    BY <2>1
  <2>3. Known(c)
    BY <1>4 DEF Member
  <2>4. CASE Place(c)' = Place(c) /\ bus_time'[c] = bus_time[c]
    <3>1. P' = P /\ T' = T
      BY <2>1, <2>2, <2>4
    <3> QED
      BY <3>1 DEF Abstract!vars
  <2>5. CASE time[Port[c]] = 0 /\ Place(c) = "out" /\ Place(c)' = "computing"
             /\ bus_time'[c] = bus_time[c]
    <3>1. Abstract!Join(c)
      BY <2>1, <2>2, <2>5 DEF Abstract!Join, Abstract!Move
    <3> QED
      BY <1>4, <3>1 DEF Abstract!Next
  <2>6. CASE Place(c) = "computing" /\ Place(c)' = "ready" /\ bus_time'[c] = bus_time[c]
    <3>1. Abstract!Arrive(c)
      BY <2>1, <2>2, <2>6 DEF Abstract!Arrive, Abstract!Move
    <3> QED
      BY <1>4, <3>1 DEF Abstract!Next
  <2>7. CASE Place(c) = "released" /\ Place(c)' = "computing"
             /\ bus_time'[c] = time[Port[c]]
    <3>1. Abstract!Proceed(c)
      BY <2>1, <2>7 DEF Abstract!Proceed, Abstract!Move
    <3> QED
      BY <1>4, <3>1 DEF Abstract!Next
  <2>8. CASE Place(c)' = "left" /\ bus_time'[c] = bus_time[c]
    <3>1. Abstract!Leave(c)
      BY <2>1, <2>2, <2>8 DEF Abstract!Leave
    <3> QED
      BY <1>4, <3>1 DEF Abstract!Next
  <2> QED
    BY <2>3, <2>4, <2>5, <2>6, <2>7, <2>8 DEF OneMove
<1> QED
  BY <1>3, <1>4

(* A client arrives with its READY, goes on with the UNTIL that carries    *)
(* the time of its bus, and otherwise stays where it is or leaves.         *)
LEMMA ClientMoves ==
  ASSUME NEW c \in Client, Inv, ToldNow, ClientSteps(c) \/ Crash(c)
  PROVE  [Abstract!Next]_(Abstract!vars) /\ ToldNow'
<1>1. TypeOK /\ TypeOK' /\ ToServer(c) /\ ToClient(c) /\ Times
  BY TypeClient DEF Inv, Traffic
<1>2. /\ UNCHANGED time
      /\ \A x \in Client \ {c} : /\ cl'[x] = cl[x] /\ s2c'[x] = s2c[x]
                                 /\ conn'[x] = conn[x] /\ bus_time'[x] = bus_time[x]
  <2>1. CASE Connect(c) \/ SendHello(c) \/ SendReady(c) \/ SendFinish(c)
    BY <1>1, <2>1, SMTT(30) DEF TypeOK, Connect, SendHello, SendReady, SendFinish, Send, busVars
  <2>2. CASE RecvHello(c) \/ RecvUntil(c) \/ RecvEnd(c) \/ RecvFinish(c)
    BY <1>1, <2>2, SMTT(30)
    DEF TypeOK, RecvHello, RecvUntil, RecvEnd, RecvFinish, Receive, AtEOF, busVars
  <2>3. CASE HelloEOF(c) \/ RecvReset(c) \/ Disconnect(c) \/ Crash(c)
    BY <1>1, <2>3 DEF TypeOK, HelloEOF, RecvReset, Disconnect, Crash, AtEOF, busVars
  <2> QED
    BY <2>1, <2>2, <2>3 DEF ClientSteps
<1>3. \A x \in Client \ {c} : /\ Place(x)' = Place(x) /\ (Told(x)' <=> Told(x))
                              /\ bus_time'[x] = bus_time[x]
  BY <1>2, PlaceSame
<1>4. OneMove(c) /\ (cl'[c] = "waiting" => ~Told(c)')
  <2> USE DEF OneMove
  <2>1. cl[c] # "waiting" /\ cl[c] # "finishing" /\ cl[c] \notin {"done", "dead"} => ~Told(c)
    BY <1>1, Single, MessageTypes DEF ToClient, Told, Gone
  <2>2. CASE Connect(c)
    BY <1>1, <2>2, Places, PlacesNext DEF TypeOK, Connect
  <2>3. CASE SendHello(c)
    BY <1>1, <2>3, Places, PlacesNext DEF TypeOK, SendHello, Send, Gone
  <2>4. CASE SendReady(c)
    <3>1. ~Told(c)' /\ UNCHANGED <<conn, bus_time>> /\ cl[c] = "running"
          /\ (cl'[c] = "waiting" \/ cl'[c] = "dead")
      BY <1>1, <2>1, <2>4 DEF TypeOK, SendReady, Send, Told
    <3> QED
      BY <1>1, <3>1, Places, PlacesNext DEF Gone
  <2>5. CASE SendFinish(c) \/ HelloEOF(c) \/ RecvEnd(c) \/ RecvFinish(c) \/ RecvReset(c)
             \/ Disconnect(c) \/ Crash(c)
    <3>1. UNCHANGED bus_time /\ cl'[c] \in {"finishing"} \cup Gone
      BY <1>1, <2>5
      DEF TypeOK, SendFinish, Send, HelloEOF, RecvEnd, RecvFinish, RecvReset, Disconnect,
          Crash, Receive, AtEOF, Gone
    <3> QED
      BY <1>1, <3>1, PlacesNext DEF Gone
  <2>6. CASE RecvHello(c)
    <3>1. UNCHANGED bus_time /\ cl[c] = "hello" /\ (cl'[c] = "running" \/ cl'[c] = "done")
      BY <1>1, <2>6 DEF TypeOK, RecvHello, Receive
    <3>2. Known(c) => time[Port[c]] = 0
      BY <1>1, <3>1 DEF Times
    <3> QED
      BY <1>1, <3>1, <3>2, Places, PlacesNext DEF Gone
  <2>7. CASE RecvUntil(c)
    <3>1. /\ cl[c] = "waiting" /\ Told(c) /\ cl'[c] = "running"
          /\ bus_time'[c] = Head(s2c[c]).time
      BY <1>1, <2>7 DEF TypeOK, RecvUntil, Receive, Told
    <3>2. bus_time'[c] = time[Port[c]]
      BY <3>1 DEF ToldNow
    <3> QED
      BY <1>1, <3>1, <3>2, Places, PlacesNext
  <2> QED
    BY <2>2, <2>3, <2>4, <2>5, <2>6, <2>7 DEF ClientSteps
<1>5. ToldNow'
  BY <1>2, <1>3, <1>4 DEF ToldNow
<1> QED
  BY <1>2, <1>3, <1>4, <1>5, MoveIsStep

(* The server's process ends: who waits for it is let down.                *)
LEMMA EndMoves ==
  ASSUME Inv, ToldNow, TypeOK', NEW how, EndProcess(how),
         UNCHANGED <<time, s2c, clientVars>>
  PROVE  [Abstract!Next]_(Abstract!vars) /\ ToldNow'
<1> USE DEF clientVars
<1>1. TypeOK /\ Linked /\ Traffic
  BY DEF Inv
<1>2. ASSUME NEW c \in Client
      PROVE  /\ Told(c)' <=> Told(c)
             /\ Place(c)' = IF Place(c) = "ready" THEN "left" ELSE Place(c)
  <2>1. Told(c)' <=> Told(c)
    BY DEF Told
  <2>2. cl[c] = "waiting" => conn'[c] = "closed"
    BY <1>1 DEF Linked, Traffic, EndProcess
  <2>3. CASE cl[c] = "waiting"
    BY <1>1, <2>1, <2>2, <2>3, Places, PlacesNext
  <2>4. CASE cl[c] # "waiting"
    <3>1. cl[c] \in {"idle", "connected", "hello", "running", "finishing"} \cup Gone
      BY <1>1, <2>4 DEF TypeOK, ClientState, Gone
    <3> QED
      BY <1>1, <2>1, <3>1, Places, PlacesNext
  <2> QED
    BY <2>1, <2>3, <2>4
<1>3. Abstract!End
  <2>1. [c \in Member |-> Place(c)]' = [c \in Member |-> Abstract!Ended(c)]
    BY <1>2 DEF Abstract!Ended, Member, Known, device_map
  <2>2. [c \in Member |-> bus_time[c]]' = [c \in Member |-> bus_time[c]]
    BY DEF Member, Known, device_map
  <2> QED
    BY <2>1, <2>2 DEF Abstract!End
<1> QED
  BY <1>2, <1>3 DEF Abstract!Next, ToldNow

(* A step of the server that answers no client leaves everyone in place.   *)
LEMMA QuietMoves ==
  ASSUME ToldNow, UNCHANGED <<time, s2c, clientVars>>,
         \A c \in Client : conn'[c] # "closed" <=> conn[c] # "closed"
  PROVE  [Abstract!Next]_(Abstract!vars) /\ ToldNow'
<1> USE DEF clientVars
<1>1. \A c \in Client : Place(c)' = Place(c) /\ (Told(c)' <=> Told(c))
  BY PlaceSame
<1> QED
  BY <1>1, NoMove DEF ToldNow

(* A command served moves nobody: its answer goes to a client that says    *)
(* HELLO, or that is gone.                                                 *)
LEMMA ServeMoves ==
  ASSUME NEW c \in Client, Inv, ToldNow, ServeClient(c)
  PROVE  [Abstract!Next]_(Abstract!vars) /\ ToldNow'
<1> USE DEF clientVars
<1>1. TypeOK /\ TypeOK' /\ ToServer(c)
  BY TypeServer DEF Inv, Traffic, ServerNext
<1>2. CASE process_client_hello_abort(c) \/ read_eof_abort(c)
  <2>1. EndProcess("aborted") /\ UNCHANGED <<time, s2c, clientVars>>
    BY <1>2 DEF process_client_hello_abort, read_eof_abort
  <2> QED
    BY <1>1, <2>1, EndMoves
<1>3. CASE process_client_ready_(c) \/ process_client_finish_(c) \/ read_eof(c)
  <2>1. UNCHANGED <<time, s2c, clientVars, conn>>
    BY <1>3 DEF process_client_ready_, process_client_finish_, read_eof, busVars
  <2> QED
    BY <2>1, QuietMoves
<1>4. CASE process_client_hello_nak(c) \/ process_client_hello_(c)
  <2>1. Serve(c, "HELLO") /\ UNCHANGED <<time, conn, clientVars>>
    BY <1>4 DEF process_client_hello_nak, process_client_hello_, busVars
  <2>2. \A x \in Client \ {c} : s2c'[x] = s2c[x]
    BY <1>1, <1>4 DEF TypeOK, process_client_hello_nak, process_client_hello_
  <2>3. cl[c] \in {"hello"} \cup Gone
    BY <1>1, <2>1, Single, MessageTypes DEF Serve, ToServer
  <2>4. Place(c)' = Place(c) /\ cl[c] # "waiting"
    BY <1>1, <2>1, <2>3, Places, PlacesNext DEF Gone
  <2>5. \A x \in Client \ {c} : Place(x)' = Place(x) /\ (Told(x)' <=> Told(x))
    BY <2>1, <2>2, PlaceSame
  <2>6. ToldNow'
    BY <2>1, <2>2, <2>4, <2>5 DEF ToldNow
  <2> QED
    BY <2>1, <2>4, <2>5, <2>6, NoMove
<1> QED
  BY <1>2, <1>3, <1>4 DEF ServeClient

(* A step of a bus: everyone at its barrier has arrived or left, and each  *)
(* of those that have arrived is let go, or is not.                        *)
LEMMA BusMoves ==
  ASSUME UniqueNames, Inv, ToldNow, NEW b \in Bus, RunBus(b)
  PROVE  [Abstract!Next]_(Abstract!vars) /\ ToldNow'
<1> USE DEF clientVars
<1>1. /\ TypeOK /\ TypeOK' /\ Traffic /\ Linked
      /\ NextToRun(b) /\ RunProtocol(b) /\ pc = "run" /\ b \in run
      /\ UNCHANGED clientVars
  BY TypeServer
  DEF Inv, ServerNext, RunBus, run_run_abort, bus_ready_until, bus_ready_abort,
      bus_ready_finish, NextToRun
<1>2. ASSUME NEW c \in Client
      PROVE  /\ Port[c] # b => c \notin Plugged(b) /\ time'[Port[c]] = time[Port[c]]
             /\ Port[c] = b /\ (Known(c) \/ cl[c] \in {"running", "waiting"}) =>
                  /\ c \in Plugged(b) /\ conn[c] = "accepted"
                  /\ cl[c] \in Gone \cup {"finishing"} \/ (cl[c] = "waiting" /\ s2c[c] = <<>>)
  <2>1. cl[c] \in {"running", "waiting"} => plug[c] # NoDevice
    BY <1>1 DEF Traffic
  <2>2. Port[c] # b => time'[Port[c]] = time[Port[c]]
    BY <1>1, ConstantsOK DEF RunProtocol, TypeOK, ConstantsOK
  <2> QED
    BY <1>1, <2>1, <2>2, BusReady
<1>3. \A c \in Client : s2c[c] = <<>> => ~Told(c)
  BY DEF Told
<1>4. ASSUME NEW c \in Member, Port[c] = b
      PROVE  /\ Place(c) \in {"ready", "left"}
             /\ Place(c) = "ready" => /\ cl[c] = "waiting" /\ s2c[c] = <<>>
                                      /\ c \in Plugged(b) /\ conn[c] = "accepted"
             /\ Place(c) = "left" => cl[c] \in {"finishing"} \cup Gone
  <2>1. c \in Client /\ Known(c)
    BY DEF Member
  <2> QED
    BY <1>1, <1>2, <1>3, <1>4, <2>1, Places
<1>5. Abstract!Advance(b)
  <2>1. [c \in Member |-> bus_time[c]]' = [c \in Member |-> bus_time[c]]
    BY <1>1 DEF Member, Known, device_map
  <2>2. time' = [time EXCEPT ![b] = @ + Step[b]]
    BY <1>1 DEF RunProtocol
  <2>3. \A c \in Member : Port[c] = b => [x \in Member |-> Place(x)][c] \in {"ready", "left"}
    BY <1>4
  <2> QED
    BY <2>1, <2>2, <2>3 DEF Abstract!Advance
<1>6. Abstract!Arrived(b) = {c \in Member : Port[c] = b /\ Place(c) = "ready"}
  BY DEF Abstract!Arrived
<1>7. /\ [c \in Member |-> Place(c)]' = [c \in Member |-> Place(c)']
      /\ Member \subseteq Client
  BY DEF Member, Known, device_map
<1>8. ASSUME NEW c \in Client, s2c'[c] = s2c[c], conn'[c] = conn[c]
      PROVE  Place(c)' = Place(c) /\ (Told(c)' <=> Told(c))
  BY <1>1, <1>8, PlaceSame
<1>9. ASSUME NEW c \in Client, cl[c] = "waiting", s2c[c] = <<>>,
             s2c'[c] = Append(s2c[c], Until(time'[b]))
      PROVE  Told(c)' /\ Place(c)' = "released" /\ Head(s2c'[c]).time = time'[b]
  <2>1. s2c'[c] = <<Until(time'[b])>>
    BY <1>9, Single
  <2>2. Told(c)' /\ Head(s2c'[c]).time = time'[b]
    BY <2>1, Single, MessageTypes DEF Told
  <2> QED
    BY <1>1, <1>9, <2>2, PlacesNext
<1>10. ASSUME NEW c \in Client, cl[c] \in {"finishing"} \cup Gone
       PROVE  Place(c)' = "left" /\ Place(c) = "left" /\ cl'[c] # "waiting"
  BY <1>1, <1>10, Places, PlacesNext DEF Gone
<1>11. CASE bus_ready_until(b)
  <2>1. /\ UNCHANGED conn
        /\ s2c' = [c \in Client |-> IF c \in Plugged(b) /\ cl[c] \notin Gone
                                    THEN Append(s2c[c], Until(time'[b])) ELSE s2c[c]]
    BY <1>11 DEF bus_ready_until
  <2>2. ASSUME NEW c \in Client, Port[c] # b \/ c \notin Plugged(b)
        PROVE  Place(c)' = Place(c) /\ (Told(c)' <=> Told(c)) /\ s2c'[c] = s2c[c]
    BY <1>2, <1>8, <2>1, <2>2
  <2>3. ASSUME NEW c \in Member
        PROVE  Place(c)' = IF c \in Abstract!Arrived(b) THEN "released" ELSE Place(c)
    <3>1. CASE Port[c] = b /\ Place(c) = "ready"
      BY <1>4, <1>6, <1>7, <1>9, <2>1, <3>1 DEF Gone
    <3>2. CASE Port[c] = b /\ Place(c) = "left"
      BY <1>4, <1>6, <1>7, <1>10, <3>2
    <3>3. CASE Port[c] # b
      BY <1>6, <1>7, <2>2, <3>3
    <3> QED
      BY <1>4, <3>1, <3>2, <3>3
  <2>4. Abstract!Release(b)
    BY <1>5, <1>7, <2>3 DEF Abstract!Release
  <2>5. ToldNow'
    <3> SUFFICES ASSUME NEW c \in Client, cl'[c] = "waiting", Told(c)'
                 PROVE  Head(s2c'[c]).time = time'[Port[c]]
      BY DEF ToldNow
    <3>1. cl[c] = "waiting"
      BY <1>1
    <3>2. CASE Port[c] = b
      BY <1>2, <1>9, <2>1, <3>1, <3>2 DEF Gone
    <3>3. CASE Port[c] # b
      BY <1>2, <2>2, <3>1, <3>3 DEF ToldNow
    <3> QED
      BY <3>2, <3>3
  <2> QED
    BY <2>4, <2>5 DEF Abstract!Next
<1>12. CASE bus_ready_abort(b) \/ run_run_abort(b)
  <2>1. PICK S \in SUBSET {c \in Plugged(b) : cl[c] \notin Gone} :
          s2c' = [c \in Client |-> IF c \in S THEN Append(s2c[c], Until(time'[b])) ELSE s2c[c]]
    BY <1>1, <1>12, AbortSends
  <2>2. \A c \in Client : cl[c] = "waiting" => conn'[c] = "closed"
    BY <1>1, <1>12 DEF bus_ready_abort, run_run_abort, EndProcess, Traffic, Linked
  <2>3. ASSUME NEW c \in Client, c \notin S
        PROVE  /\ Told(c)' <=> Told(c)
               /\ s2c'[c] = s2c[c]
               /\ Place(c)' = IF Place(c) = "ready" THEN "left" ELSE Place(c)
    <3>1. s2c'[c] = s2c[c] /\ (Told(c)' <=> Told(c))
      BY <2>1, <2>3 DEF Told
    <3>2. CASE cl[c] = "waiting"
      BY <1>1, <2>2, <3>1, <3>2, Places, PlacesNext
    <3>3. CASE cl[c] # "waiting"
      <4>1. cl[c] \in {"idle", "connected", "hello", "running", "finishing"} \cup Gone
        BY <1>1, <3>3 DEF TypeOK, ClientState, Gone
      <4> QED
        BY <1>1, <3>1, <4>1, Places, PlacesNext
    <3> QED
      BY <3>1, <3>2, <3>3
  <2> DEFINE R == {c \in Member : c \in S /\ cl[c] = "waiting"}
  <2>4. R \subseteq Abstract!Arrived(b)
    <3> SUFFICES ASSUME NEW c \in R PROVE Port[c] = b /\ Place(c) = "ready"
      BY <1>6
    <3>1. c \in Client /\ c \in Plugged(b) /\ cl[c] = "waiting"
      BY <1>7, <2>1
    <3>2. Port[c] = b
      BY <1>2, <3>1
    <3> QED
      BY <1>4, <1>10, <3>1, <3>2 DEF Gone
  <2>5. ASSUME NEW c \in Member
        PROVE  Place(c)' = IF c \in R THEN "released" ELSE Abstract!Ended(c)
    <3>1. Abstract!Ended(c) = IF Place(c) = "ready" THEN "left" ELSE Place(c)
      BY DEF Abstract!Ended
    <3>2. CASE c \in R
      <4>1. Port[c] = b /\ Place(c) = "ready"
        BY <1>6, <2>4, <3>2
      <4> QED
        BY <1>4, <1>7, <1>9, <2>1, <3>2, <4>1
    <3>3. CASE c \in S /\ cl[c] # "waiting"
      <4>1. c \in Client /\ Port[c] = b /\ Place(c) \in {"ready", "left"}
        BY <1>2, <1>4, <1>7, <2>1, <3>3
      <4>2. cl[c] \in {"finishing"} \cup Gone
        BY <1>4, <3>3, <4>1
      <4> QED
        BY <1>10, <3>1, <3>3, <4>1, <4>2
    <3>4. CASE c \notin S
      BY <1>7, <2>3, <3>1, <3>4
    <3> QED
      BY <3>2, <3>3, <3>4
  <2>6. Abstract!Break(b)
    <3> HIDE DEF R
    <3> QED
      BY <1>5, <1>7, <2>4, <2>5 DEF Abstract!Break
  <2>7. ToldNow'
    <3> SUFFICES ASSUME NEW c \in Client, cl'[c] = "waiting", Told(c)'
                 PROVE  Head(s2c'[c]).time = time'[Port[c]]
      BY DEF ToldNow
    <3>1. cl[c] = "waiting"
      BY <1>1
    <3>2. CASE c \in S
      <4>1. Port[c] = b
        BY <1>2, <2>1, <3>2
      <4> QED
        BY <1>2, <1>9, <2>1, <3>1, <3>2, <4>1 DEF Gone
    <3>3. CASE c \notin S
      <4>1. Port[c] # b
        BY <1>2, <1>3, <2>3, <3>1, <3>3 DEF Gone
      <4> QED
        BY <1>2, <2>3, <3>1, <3>3, <4>1 DEF ToldNow
    <3> QED
      BY <3>2, <3>3
  <2> QED
    BY <2>6, <2>7 DEF Abstract!Next
<1>13. CASE bus_ready_finish(b)
  <2>1. /\ s2c' = [c \in Client |-> IF c \in Plugged(b) /\ cl[c] \notin Gone
                                    THEN Append(s2c[c], Finish) ELSE s2c[c]]
        /\ conn' = [c \in Client |->
                      IF c \in Plugged(b) \/ (Port[c] = b /\ conn[c] = "backlog")
                      THEN "closed" ELSE conn[c]]
    BY <1>13 DEF bus_ready_finish
  <2>2. ASSUME NEW c \in Client, Port[c] # b
        PROVE  Place(c)' = Place(c) /\ (Told(c)' <=> Told(c)) /\ s2c'[c] = s2c[c]
    BY <1>2, <1>8, <2>1, <2>2
  <2>3. ASSUME NEW c \in Client, Port[c] = b, cl[c] = "waiting"
        PROVE  ~Told(c)' /\ Place(c)' = "left"
    <3>1. c \in Plugged(b) /\ cl[c] \notin Gone /\ s2c[c] = <<>>
      BY <1>2, <2>3 DEF Gone
    <3>2. s2c'[c] = <<Finish>> /\ conn'[c] = "closed"
      BY <2>1, <3>1, Single
    <3>3. ~Told(c)'
      BY <3>2, Single, MessageTypes DEF Told
    <3> QED
      BY <1>1, <2>3, <3>2, <3>3, PlacesNext
  <2>4. ASSUME NEW c \in Member
        PROVE  Place(c)' = IF c \in Abstract!Arrived(b) THEN "left" ELSE Place(c)
    <3>1. CASE Port[c] = b /\ Place(c) = "ready"
      BY <1>4, <1>6, <1>7, <2>3, <3>1
    <3>2. CASE Port[c] = b /\ Place(c) = "left"
      BY <1>4, <1>6, <1>7, <1>10, <3>2
    <3>3. CASE Port[c] # b
      BY <1>6, <1>7, <2>2, <3>3
    <3> QED
      BY <1>4, <3>1, <3>2, <3>3
  <2>5. Abstract!Close(b)
    BY <1>5, <1>7, <2>4 DEF Abstract!Close
  <2>6. ToldNow'
    BY <1>1, <1>2, <2>2, <2>3 DEF ToldNow
  <2> QED
    BY <2>5, <2>6 DEF Abstract!Next
<1> QED
  BY <1>11, <1>12, <1>13 DEF RunBus

(* Each bus of the server is a barrier, for any number of busses, devices  *)
(* and clients.                                                            *)
THEOREM BusIsBarrierHolds == ASSUME UniqueNames PROVE Spec => BusIsBarrier
<1>1. Init => Abstract!Init /\ ToldNow
  <2> SUFFICES ASSUME Init PROVE Abstract!Init /\ ToldNow
    OBVIOUS
  <2>1. \A c \in Client : Place(c) = "out" /\ bus_time[c] = 0
    BY TypeInit, Places DEF Init
  <2>2. [c \in Member |-> Place(c)] = [c \in Member |-> "out"]
    BY <2>1 DEF Member
  <2>3. [c \in Member |-> bus_time[c]] = [c \in Member |-> 0]
    BY <2>1 DEF Member
  <2>4. ToldNow
    BY DEF Init, ToldNow
  <2> QED
    BY <2>2, <2>3, <2>4 DEF Abstract!Init, Init
<1>2. Inv /\ ToldNow /\ [Next]_vars => [Abstract!Next]_(Abstract!vars) /\ ToldNow'
  <2> SUFFICES ASSUME Inv, ToldNow, [Next]_vars
               PROVE  [Abstract!Next]_(Abstract!vars) /\ ToldNow'
    OBVIOUS
  <2>1. TypeOK /\ TypeOK'
    BY TypeNext DEF Inv
  <2>2. CASE Interrupted \/ NothingToDo
    <3>1. EndProcess("stopped") /\ UNCHANGED <<time, s2c, clientVars>>
      BY <2>2 DEF Interrupted, NothingToDo
    <3> QED
      BY <2>1, <3>1, EndMoves
  <2>3. CASE Select \/ CheckBusses \/ EndRun \/ Sigint \/ UNCHANGED vars
    <3>1. UNCHANGED <<time, s2c, clientVars, conn>>
      BY <2>3 DEF Select, CheckBusses, EndRun, Sigint, vars, busVars, clientVars
    <3> QED
      BY <3>1, QuietMoves
  <2>4. ASSUME NEW b \in Bus, listen_ready(b)
        PROVE  [Abstract!Next]_(Abstract!vars) /\ ToldNow'
    <3>1. UNCHANGED <<time, s2c, clientVars>>
      BY <2>4 DEF listen_ready, busVars
    <3>2. \A c \in Client : conn'[c] # "closed" <=> conn[c] # "closed"
      BY <2>1, <2>4 DEF listen_ready, TypeOK
    <3> QED
      BY <3>1, <3>2, QuietMoves
  <2>5. CASE \E c \in Client : ServeClient(c)
    BY <2>5, ServeMoves
  <2>6. CASE \E b \in Bus : RunBus(b)
    BY <2>6, BusMoves
  <2>7. CASE \E c \in Client : ClientSteps(c) \/ Crash(c)
    BY <2>7, ClientMoves
  <2> QED
    BY <2>2, <2>3, <2>4, <2>5, <2>6, <2>7 DEF Next, ServerNext, Terminated
<1> QED
  BY <1>1, <1>2, Invariance, PTL DEF Spec, BusIsBarrier, Abstract!Spec
=============================================================================
