---------------------------- MODULE SimbusServer ----------------------------
(***************************************************************************)
(* The simbus server's service loop (server/service.cc), the connections   *)
(* it keeps (server/client.cc), the per-bus step (server/protocol.cc,      *)
(* bus_ready) and the library end of a connection (libsimbus/simbus.c).    *)
(*                                                                         *)
(* The server is one thread: select, accept, one command of every readable *)
(* client, assembly of complete busses, one step of every bus whose        *)
(* devices are all ready.  Clients are processes of their own; each sends  *)
(* one command and blocks for the reply.                                   *)
(*                                                                         *)
(* Signal values are left to the protocol modules: a step of a bus is      *)
(* visible here by the time it carries.  But run_run may need signals that *)
(* a device has never sent: AXI4Protocol asserts the width of each, and    *)
(* client_signals is filled by the first READY only.                       *)
(***************************************************************************)
EXTENDS Integers, Sequences, FiniteSets

CONSTANTS
  Bus,            \* the configured busses (bus_map)
  Device,         \* the plugs of all the device maps
  DevBus,         \* the bus of each device
  Client,         \* connections that client processes may open
  Port,           \* the bus whose port a client connects to
  Name,           \* the device a client's HELLO names
  Step,           \* duration of one step of a bus (the phase table)
  Checked,        \* busses whose run_run asserts the signals' widths (AXI4)
  MaxTime,        \* bound: a client that has reached it steps no further
  Crashing,       \* clients that may die at any moment
  MayInterrupt,   \* whether the user may send SIGINT
  NoDevice, NoClient

ASSUME ConstantsOK ==
  /\ IsFiniteSet(Bus) /\ IsFiniteSet(Device) /\ IsFiniteSet(Client)
  /\ DevBus \in [Device -> Bus]
  /\ Port \in [Client -> Bus]
  /\ Step \in [Bus -> Nat \ {0}]
  /\ Checked \subseteq Bus
  /\ MaxTime \in Nat
  /\ Crashing \subseteq Client
  /\ MayInterrupt \in BOOLEAN
  /\ NoDevice \notin Device
  /\ NoClient \notin Client

VARIABLES
  (* the service loop *)
  pc,             \* "select" | "serve" | "run" | "stopped" | "aborted"
  interrupted,    \* interrupted_flag, set by the SIGINT and SIGPIPE handler
  rfdBus,         \* bus sockets that select reported and are not yet served
  rfdClient,      \* client sockets that select reported, not yet served
  run,            \* busses left in this iteration's run list
  (* bus_state *)
  listening,      \* bus -> its fd >= 0
  assembled,      \* bus -> not in need_initialization
  finished,       \* bus -> finished
  time,           \* bus -> the protocol's time_
  (* bus_device_plug *)
  fd,             \* device -> connection that UNTIL and FINISH are written to
  ready_flag, exited_flag, ready_time,
  signals,        \* device -> a READY has filled its client_signals
  (* client_state_t and its socket *)
  conn,           \* client -> "none" | "backlog" | "accepted" | "closed"
  plug,           \* client -> bus_interface_
  c2s, s2c,       \* client -> bytes under way, as sequences of messages
  (* the client process *)
  cl,             \* client -> where the process is
  bus_time        \* client -> the time of the last UNTIL it received

serverVars == <<pc, interrupted, rfdBus, rfdClient, run>>
busVars    == <<listening, assembled, finished, time>>
plugVars   == <<fd, ready_flag, exited_flag, ready_time, signals>>
clientVars == <<cl, bus_time>>
vars == <<serverVars, busVars, plugVars, conn, plug, c2s, s2c, clientVars>>

Hello      == [type |-> "HELLO", time |-> 0]
Ready(t)   == [type |-> "READY", time |-> t]
Finish     == [type |-> "FINISH", time |-> 0]
YouAre     == [type |-> "YOU-ARE", time |-> 0]
Nak        == [type |-> "NAK", time |-> 0]
Until(t)   == [type |-> "UNTIL", time |-> t]
Message    == [type : {"HELLO", "READY", "FINISH", "YOU-ARE", "NAK", "UNTIL"},
               time : Nat]

Running    == {"select", "serve", "run"}
Gone       == {"done", "dead"}              \* the client's end is closed

device_map(b) == {d \in Device : DevBus[d] = b}

Init ==
  /\ pc = "select" /\ interrupted = FALSE
  /\ rfdBus = {} /\ rfdClient = {} /\ run = {}
  /\ listening = [b \in Bus |-> TRUE]
  /\ assembled = [b \in Bus |-> FALSE]
  /\ finished  = [b \in Bus |-> FALSE]
  /\ time      = [b \in Bus |-> 0]
  /\ fd          = [d \in Device |-> NoClient]
  /\ ready_flag  = [d \in Device |-> FALSE]
  /\ exited_flag = [d \in Device |-> FALSE]
  /\ ready_time  = [d \in Device |-> 0]
  /\ signals     = [d \in Device |-> FALSE]
  /\ conn = [c \in Client |-> "none"]
  /\ plug = [c \in Client |-> NoDevice]
  /\ c2s  = [c \in Client |-> <<>>]
  /\ s2c  = [c \in Client |-> <<>>]
  /\ cl   = [c \in Client |-> "idle"]
  /\ bus_time = [c \in Client |-> 0]

-----------------------------------------------------------------------------
(* The service loop: select                                                *)

is_exited(c) == plug[c] # NoDevice /\ exited_flag[plug[c]]

(* The sockets in the fd set, and those of them that are readable.  A      *)
(* closed peer makes a socket readable.                                    *)
Polled == {c \in Client : conn[c] = "accepted" /\ ~is_exited(c)}
ReadableBus ==
  {b \in Bus : listening[b] /\ \E c \in Client : Port[c] = b /\ conn[c] = "backlog"}
ReadableClient == {c \in Polled : c2s[c] # <<>> \/ cl[c] \in Gone}

(* The process ends: the kernel closes every socket.                       *)
EndProcess(how) ==
  /\ pc' = how
  /\ conn' = [c \in Client |-> IF conn[c] = "none" THEN "none" ELSE "closed"]
  /\ listening' = [b \in Bus |-> FALSE]

Interrupted ==
  /\ pc = "select" /\ interrupted
  /\ EndProcess("stopped")
  /\ UNCHANGED <<interrupted, rfdBus, rfdClient, run, assembled, finished, time,
                 plugVars, plug, c2s, s2c, clientVars>>

NothingToDo ==
  /\ pc = "select" /\ ~interrupted
  /\ \A b \in Bus : ~listening[b]
  /\ Polled = {}
  /\ EndProcess("stopped")
  /\ UNCHANGED <<interrupted, rfdBus, rfdClient, run, assembled, finished, time,
                 plugVars, plug, c2s, s2c, clientVars>>

Select ==
  /\ pc = "select" /\ ~interrupted
  /\ ReadableBus \cup ReadableClient # {}
  /\ rfdBus' = ReadableBus
  /\ rfdClient' = ReadableClient
  /\ pc' = "serve"
  /\ UNCHANGED <<interrupted, run, busVars, plugVars, conn, plug, c2s, s2c, clientVars>>

(* SIGINT from the user; the flag is looked at when the loop restarts.     *)
Sigint ==
  /\ MayInterrupt /\ pc \in Running /\ ~interrupted
  /\ interrupted' = TRUE
  /\ UNCHANGED <<pc, rfdBus, rfdClient, run, busVars, plugVars, conn, plug,
                 c2s, s2c, clientVars>>

listen_ready(b) ==
  /\ pc = "serve" /\ b \in rfdBus
  /\ \E c \in Client :
       /\ Port[c] = b /\ conn[c] = "backlog"
       /\ conn' = [conn EXCEPT ![c] = "accepted"]
  /\ rfdBus' = rfdBus \ {b}
  /\ UNCHANGED <<pc, interrupted, rfdClient, run, busVars, plugVars, plug,
                 c2s, s2c, clientVars>>

-----------------------------------------------------------------------------
(* client_state_t::read_from_socket: one command per readable client.      *)

(* A write to a client whose end is closed may still be taken by the       *)
(* kernel, or fail with EPIPE, which also raises SIGPIPE.                  *)
MayFail(c) == cl[c] \in Gone

Serve(c, type) ==
  /\ pc = "serve" /\ rfdBus = {} /\ c \in rfdClient
  /\ c2s[c] # <<>> /\ Head(c2s[c]).type = type
  /\ rfdClient' = rfdClient \ {c}
  /\ c2s' = [c2s EXCEPT ![c] = Tail(@)]

(* The device_map of the client's own bus has the name.                    *)
Known(c) == Name[c] \in device_map(Port[c])

process_client_hello_nak(c) ==
  /\ Serve(c, "HELLO") /\ ~Known(c)
  /\ \E fails \in {FALSE, MayFail(c)} :
       /\ s2c' = IF fails THEN s2c ELSE [s2c EXCEPT ![c] = Append(@, Nak)]
       /\ interrupted' = (interrupted \/ fails)
  /\ UNCHANGED <<pc, rfdBus, run, busVars, plugVars, conn, plug, clientVars>>

(* Faulty variants: bus_interface_ is not linked; ready_flag is not        *)
(* cleared but set.                                                        *)
process_client_hello_unlinked(c) ==
  /\ Serve(c, "HELLO") /\ Known(c)
  /\ fd' = [fd EXCEPT ![Name[c]] = c]
  /\ ready_flag' = [ready_flag EXCEPT ![Name[c]] = FALSE]
  /\ s2c' = [s2c EXCEPT ![c] = Append(@, YouAre)]
  /\ UNCHANGED <<pc, interrupted, rfdBus, run, busVars, exited_flag, ready_time, signals,
                 conn, plug, clientVars>>

process_client_hello_ready(c) ==
  /\ Serve(c, "HELLO") /\ Known(c)
  /\ plug' = [plug EXCEPT ![c] = Name[c]]
  /\ fd' = [fd EXCEPT ![Name[c]] = c]
  /\ ready_flag' = [ready_flag EXCEPT ![Name[c]] = TRUE]
  /\ s2c' = [s2c EXCEPT ![c] = Append(@, YouAre)]
  /\ UNCHANGED <<pc, interrupted, rfdBus, run, busVars, exited_flag, ready_time, signals,
                 conn, clientVars>>

process_client_hello_(c) ==
  /\ Serve(c, "HELLO") /\ Known(c)
  /\ plug' = [plug EXCEPT ![c] = Name[c]]
  /\ fd' = [fd EXCEPT ![Name[c]] = c]
  /\ ready_flag' = [ready_flag EXCEPT ![Name[c]] = FALSE]
  /\ s2c' = [s2c EXCEPT ![c] = Append(@, YouAre)]
  /\ UNCHANGED <<pc, interrupted, rfdBus, run, busVars, exited_flag, ready_time, signals,
                 conn, clientVars>>

(* The YOU-ARE write fails: assert(rc == strlen(outbuf)).                  *)
process_client_hello_abort(c) ==
  /\ Serve(c, "HELLO") /\ Known(c) /\ MayFail(c)
  /\ EndProcess("aborted")
  /\ UNCHANGED <<interrupted, rfdBus, run, assembled, finished, time, plugVars,
                 plug, s2c, clientVars>>

(* Faulty variant: the signals of the READY are parsed and not kept.       *)
process_client_ready_unkept(c) ==
  /\ Serve(c, "READY")
  /\ ready_time' = [ready_time EXCEPT ![plug[c]] = Head(c2s[c]).time]
  /\ ready_flag' = [ready_flag EXCEPT ![plug[c]] = TRUE]
  /\ UNCHANGED <<pc, interrupted, rfdBus, run, busVars, fd, exited_flag, signals,
                 conn, plug, s2c, clientVars>>

(* A READY carries all the signals of its device, in the widths of the bus *)
(* (what the device modules send; a bus configured with other widths than  *)
(* its devices fails its first step).                                      *)
process_client_ready_(c) ==
  /\ Serve(c, "READY")
  /\ ready_time' = [ready_time EXCEPT ![plug[c]] = Head(c2s[c]).time]
  /\ ready_flag' = [ready_flag EXCEPT ![plug[c]] = TRUE]
  /\ signals'    = [signals EXCEPT ![plug[c]] = TRUE]
  /\ UNCHANGED <<pc, interrupted, rfdBus, run, busVars, fd, exited_flag, conn,
                 plug, s2c, clientVars>>

process_client_finish_(c) ==
  /\ Serve(c, "FINISH")
  /\ ready_flag'  = [ready_flag EXCEPT ![plug[c]] = TRUE]
  /\ exited_flag' = [exited_flag EXCEPT ![plug[c]] = TRUE]
  /\ UNCHANGED <<pc, interrupted, rfdBus, run, busVars, fd, ready_time, signals,
                 conn, plug, s2c, clientVars>>

(* End of file, a reset, or another read error.                            *)
ServeEOF(c) ==
  /\ pc = "serve" /\ rfdBus = {} /\ c \in rfdClient
  /\ c2s[c] = <<>> /\ cl[c] \in Gone
  /\ rfdClient' = rfdClient \ {c}

(* Faulty variant: the end of file is reported, the plug left as it is.    *)
read_eof_ignored(c) ==
  /\ ServeEOF(c) /\ plug[c] # NoDevice
  /\ UNCHANGED <<pc, interrupted, rfdBus, run, busVars, plugVars, conn, plug,
                 c2s, s2c, clientVars>>

read_eof(c) ==
  /\ ServeEOF(c) /\ plug[c] # NoDevice
  /\ ready_flag'  = [ready_flag EXCEPT ![plug[c]] = TRUE]
  /\ exited_flag' = [exited_flag EXCEPT ![plug[c]] = TRUE]
  /\ UNCHANGED <<pc, interrupted, rfdBus, run, busVars, fd, ready_time, signals,
                 conn, plug, c2s, s2c, clientVars>>

(* "EOF from client before HELLO": assert(0).                              *)
read_eof_abort(c) ==
  /\ ServeEOF(c) /\ plug[c] = NoDevice
  /\ EndProcess("aborted")
  /\ UNCHANGED <<interrupted, rfdBus, run, assembled, finished, time, plugVars,
                 plug, c2s, s2c, clientVars>>

-----------------------------------------------------------------------------
(* The rest of the loop: assembly and the run list.                        *)

(* Faulty variant: a device that is not attached is not waited for.        *)
AttachedReady(b) == \A d \in device_map(b) : fd[d] # NoClient => ready_flag[d]

AllReady(b) == \A d \in device_map(b) : ready_flag[d]

(* Faulty variants: an exited device does not finish its bus; a device of  *)
(* another bus does.                                                       *)
CheckBussesNoFinish ==
  /\ pc = "serve" /\ rfdBus = {} /\ rfdClient = {}
  /\ assembled' = [b \in Bus |-> assembled[b] \/ AllReady(b)]
  /\ run' = {b \in Bus : AllReady(b)}
  /\ pc' = "run"
  /\ UNCHANGED <<interrupted, rfdBus, rfdClient, listening, finished, time,
                 plugVars, conn, plug, c2s, s2c, clientVars>>

CheckBussesAnyDevice ==
  /\ pc = "serve" /\ rfdBus = {} /\ rfdClient = {}
  /\ assembled' = [b \in Bus |-> assembled[b] \/ AllReady(b)]
  /\ run' = {b \in Bus : AllReady(b)}
  /\ finished' = [b \in Bus |-> \/ finished[b]
                                \/ AllReady(b) /\ \E d \in Device : exited_flag[d]]
  /\ pc' = "run"
  /\ UNCHANGED <<interrupted, rfdBus, rfdClient, listening, time, plugVars, conn,
                 plug, c2s, s2c, clientVars>>

(* Both scans of the device maps.  The code may set finished on a scan     *)
(* that stops at a device that is not ready; it is read only once all are. *)
CheckBusses ==
  /\ pc = "serve" /\ rfdBus = {} /\ rfdClient = {}
  /\ assembled' = [b \in Bus |-> assembled[b] \/ AllReady(b)]
  /\ run' = {b \in Bus : AllReady(b)}
  /\ finished' = [b \in Bus |-> \/ finished[b]
                                \/ /\ AllReady(b)
                                   /\ \E d \in device_map(b) : exited_flag[d]]
  /\ pc' = "run"
  /\ UNCHANGED <<interrupted, rfdBus, rfdClient, listening, time, plugVars, conn,
                 plug, c2s, s2c, clientVars>>

(* run is a multimap ordered by peek_time().                               *)
NextToRun(b) == /\ pc = "run" /\ b \in run
                /\ \A o \in run : time[b] <= time[o]

(* Faulty variants: the ready flags survive the step; a phase of negative  *)
(* length.                                                                 *)
RunProtocolKeepsReady(b) ==
  /\ UNCHANGED ready_flag
  /\ time' = [time EXCEPT ![b] = @ + Step[b]]

RunProtocolBackwards(b) ==
  /\ ready_flag' = [d \in Device |-> ready_flag[d] /\ DevBus[d] # b]
  /\ time' = [time EXCEPT ![b] = @ - Step[b]]

(* protocol_t::bus_ready clears the ready flags and lets the protocol      *)
(* compute the step (run_run, which advances the time).                    *)
RunProtocol(b) ==
  /\ ready_flag' = [d \in Device |-> ready_flag[d] /\ DevBus[d] # b]
  /\ time' = [time EXCEPT ![b] = @ + Step[b]]

(* The signals that run_run asserts the widths of are there.               *)
SignalsThere(b) == b \in Checked => \A d \in device_map(b) : signals[d]

(* The assertion fails: nobody has been sent anything yet.                 *)
run_run_abort(b) ==
  /\ NextToRun(b) /\ ~SignalsThere(b)
  /\ RunProtocol(b)
  /\ EndProcess("aborted")
  /\ UNCHANGED <<interrupted, rfdBus, rfdClient, run, assembled, finished, fd,
                 exited_flag, ready_time, signals, plug, c2s, s2c, clientVars>>

Plugged(b) == {fd[d] : d \in device_map(b)}

(* Faulty variant: UNTIL is formatted before the protocol has run.         *)
bus_ready_until_stale(b) ==
  /\ NextToRun(b) /\ SignalsThere(b) /\ ~finished[b]
  /\ RunProtocol(b)
  /\ s2c' = [c \in Client |-> IF c \in Plugged(b) /\ cl[c] \notin Gone
                              THEN Append(s2c[c], Until(time[b])) ELSE s2c[c]]
  /\ run' = run \ {b}
  /\ UNCHANGED <<pc, interrupted, rfdBus, rfdClient, listening, assembled,
                 finished, fd, exited_flag, ready_time, signals, conn, plug, c2s,
                 clientVars>>

bus_ready_until(b) ==
  /\ NextToRun(b) /\ SignalsThere(b) /\ ~finished[b]
  /\ RunProtocol(b)
  /\ s2c' = [c \in Client |-> IF c \in Plugged(b) /\ cl[c] \notin Gone
                              THEN Append(s2c[c], Until(time'[b])) ELSE s2c[c]]
  /\ run' = run \ {b}
  /\ UNCHANGED <<pc, interrupted, rfdBus, rfdClient, listening, assembled,
                 finished, fd, exited_flag, ready_time, signals, conn, plug, c2s,
                 clientVars>>

(* An UNTIL write fails: assert(rc == (cp-buf)).  The devices before it in *)
(* the map have had theirs.                                                *)
bus_ready_abort(b) ==
  /\ NextToRun(b) /\ SignalsThere(b) /\ ~finished[b]
  /\ \E c \in Plugged(b) : MayFail(c)
  /\ RunProtocol(b)
  /\ \E sent \in SUBSET {c \in Plugged(b) : cl[c] \notin Gone} :
       s2c' = [c \in Client |-> IF c \in sent
                                THEN Append(s2c[c], Until(time'[b])) ELSE s2c[c]]
  /\ EndProcess("aborted")
  /\ UNCHANGED <<interrupted, rfdBus, rfdClient, run, assembled, finished, fd,
                 exited_flag, ready_time, signals, plug, c2s, clientVars>>

(* FINISH to every device, failed writes ignored but for their SIGPIPE;    *)
(* closing the listening socket resets the connections in its backlog.     *)
bus_ready_finish(b) ==
  /\ NextToRun(b) /\ SignalsThere(b) /\ finished[b]
  /\ RunProtocol(b)
  /\ \E fails \in SUBSET {c \in Plugged(b) : MayFail(c)} :
       interrupted' = (interrupted \/ fails # {})
  /\ s2c' = [c \in Client |-> IF c \in Plugged(b) /\ cl[c] \notin Gone
                              THEN Append(s2c[c], Finish) ELSE s2c[c]]
  /\ conn' = [c \in Client |->
                IF c \in Plugged(b) \/ (Port[c] = b /\ conn[c] = "backlog")
                THEN "closed" ELSE conn[c]]
  /\ exited_flag' = [d \in Device |-> exited_flag[d] \/ DevBus[d] = b]
  /\ listening' = [listening EXCEPT ![b] = FALSE]
  /\ run' = run \ {b}
  /\ UNCHANGED <<pc, rfdBus, rfdClient, assembled, finished, fd, ready_time,
                 signals, plug, c2s, clientVars>>

EndRun ==
  /\ pc = "run" /\ run = {}
  /\ pc' = "select"
  /\ UNCHANGED <<interrupted, rfdBus, rfdClient, run, busVars, plugVars, conn,
                 plug, c2s, s2c, clientVars>>

-----------------------------------------------------------------------------
(* The client process: libsimbus/simbus.c and the calls that use it.       *)

Connect(c) ==
  /\ cl[c] = "idle" /\ listening[Port[c]]
  /\ cl' = [cl EXCEPT ![c] = "connected"]
  /\ conn' = [conn EXCEPT ![c] = "backlog"]
  /\ UNCHANGED <<serverVars, busVars, plugVars, plug, c2s, s2c, bus_time>>

(* A write on a connection the server has closed is lost, or raises        *)
(* SIGPIPE, which a client does not handle.                                *)
Send(c, msg, next) ==
  /\ \/ /\ c2s' = IF conn[c] = "closed" THEN c2s
                  ELSE [c2s EXCEPT ![c] = Append(@, msg)]
        /\ cl' = [cl EXCEPT ![c] = next]
     \/ /\ conn[c] = "closed"
        /\ cl' = [cl EXCEPT ![c] = "dead"]
        /\ UNCHANGED c2s
  /\ UNCHANGED <<serverVars, busVars, plugVars, conn, plug, s2c, bus_time>>

SendHello(c)  == cl[c] = "connected" /\ Send(c, Hello, "hello")
SendReady(c)  == /\ cl[c] = "running" /\ bus_time[c] < MaxTime
                 /\ Send(c, Ready(bus_time[c]), "waiting")
SendFinish(c) == cl[c] = "running" /\ Send(c, Finish, "finishing")

(* One read() takes all there is; only the first line is looked at.        *)
Receive(c) == /\ s2c[c] # <<>>
              /\ s2c' = [s2c EXCEPT ![c] = <<>>]
              /\ UNCHANGED <<serverVars, busVars, plugVars, conn, plug, c2s>>

AtEOF(c) == /\ s2c[c] = <<>> /\ conn[c] = "closed"
            /\ UNCHANGED <<serverVars, busVars, plugVars, conn, plug, c2s, s2c, bus_time>>

(* __simbus_server_hello                                                   *)
RecvHello(c) ==
  /\ cl[c] = "hello" /\ Receive(c)
  /\ cl' = [cl EXCEPT ![c] = IF Head(s2c[c]) = YouAre THEN "running" ELSE "done"]
  /\ UNCHANGED bus_time

HelloEOF(c) ==
  /\ cl[c] = "hello" /\ AtEOF(c)
  /\ cl' = [cl EXCEPT ![c] = "dead"]

(* __simbus_server_send_recv and the send_ready functions above it         *)
RecvUntil(c) ==
  /\ cl[c] = "waiting" /\ Receive(c) /\ Head(s2c[c]).type = "UNTIL"
  /\ cl' = [cl EXCEPT ![c] = "running"]
  /\ bus_time' = [bus_time EXCEPT ![c] = Head(s2c[c]).time]

(* FINISH, or end of file: the caller disconnects.                         *)
RecvEnd(c) ==
  /\ cl[c] = "waiting"
  /\ \/ Receive(c) /\ Head(s2c[c]) = Finish /\ UNCHANGED bus_time
     \/ AtEOF(c)
  /\ cl' = [cl EXCEPT ![c] = "done"]

(* __simbus_server_finish asserts that the reply is FINISH and only that.  *)
RecvFinish(c) ==
  /\ cl[c] = "finishing"
  /\ \/ /\ Receive(c)
        /\ cl' = [cl EXCEPT ![c] = IF s2c[c] = <<Finish>> THEN "done" ELSE "dead"]
        /\ UNCHANGED bus_time
     \/ AtEOF(c) /\ cl' = [cl EXCEPT ![c] = "dead"]

(* The server died with bytes of ours unread: the read fails with          *)
(* ECONNRESET and the client's assert(rc >= 0) ends it.                    *)
RecvReset(c) ==
  /\ cl[c] \in {"hello", "waiting", "finishing"}
  /\ conn[c] = "closed" /\ c2s[c] # <<>>
  /\ cl' = [cl EXCEPT ![c] = "dead"]
  /\ UNCHANGED <<serverVars, busVars, plugVars, conn, plug, c2s, s2c, bus_time>>

(* simbus_*_disconnect, without a FINISH.                                  *)
Disconnect(c) ==
  /\ cl[c] = "running"
  /\ cl' = [cl EXCEPT ![c] = "done"]
  /\ UNCHANGED <<serverVars, busVars, plugVars, conn, plug, c2s, s2c, bus_time>>

(* The process dies.  What it had sent may be lost with a reset.           *)
Crash(c) ==
  /\ c \in Crashing /\ cl[c] \notin Gone \cup {"idle"}
  /\ cl' = [cl EXCEPT ![c] = "dead"]
  /\ c2s' \in {c2s, [c2s EXCEPT ![c] = <<>>]}
  /\ UNCHANGED <<serverVars, busVars, plugVars, conn, plug, s2c, bus_time>>

-----------------------------------------------------------------------------
(* The shutdown is complete: the server has ended and so has every client  *)
(* that ever connected.                                                    *)
Terminated ==
  /\ pc \notin Running
  /\ \A c \in Client : cl[c] \in Gone \cup {"idle"}
  /\ UNCHANGED vars

ServeClient(c) ==
  \/ process_client_hello_nak(c)
  \/ process_client_hello_(c)
  \/ process_client_hello_abort(c)
  \/ process_client_ready_(c)
  \/ process_client_finish_(c)
  \/ read_eof(c)
  \/ read_eof_abort(c)

RunBus(b) ==
  \/ run_run_abort(b)
  \/ bus_ready_until(b)
  \/ bus_ready_abort(b)
  \/ bus_ready_finish(b)

ServerNext ==
  \/ Interrupted
  \/ NothingToDo
  \/ Select
  \/ \E b \in Bus : listen_ready(b)
  \/ \E c \in Client : ServeClient(c)
  \/ CheckBusses
  \/ \E b \in Bus : RunBus(b)
  \/ EndRun

ClientSteps(c) ==
  \/ Connect(c) \/ SendHello(c) \/ RecvHello(c) \/ HelloEOF(c)
  \/ SendReady(c) \/ SendFinish(c) \/ Disconnect(c)
  \/ RecvUntil(c) \/ RecvEnd(c) \/ RecvFinish(c) \/ RecvReset(c)

Next ==
  \/ ServerNext
  \/ Sigint
  \/ \E c \in Client : ClientSteps(c) \/ Crash(c)
  \/ Terminated

Spec == Init /\ [][Next]_vars

(* The server thread and every client process keep running; nothing makes  *)
(* a client crash or the user interrupt.                                   *)
Fairness == /\ WF_vars(ServerNext)
            /\ \A c \in Client : WF_vars(ClientSteps(c))

FairSpec == Spec /\ Fairness

-----------------------------------------------------------------------------
(* Properties                                                              *)

ClientState == {"idle", "connected", "hello", "running", "waiting",
                "finishing", "done", "dead"}

(* Type correctness of the service loop's, the plugs' and the clients'     *)
(* state.                                                                  *)
TypeOK ==
  /\ pc \in Running \cup {"stopped", "aborted"}
  /\ interrupted \in BOOLEAN
  /\ rfdBus \in SUBSET Bus /\ rfdClient \in SUBSET Client /\ run \in SUBSET Bus
  /\ listening \in [Bus -> BOOLEAN] /\ assembled \in [Bus -> BOOLEAN]
  /\ finished \in [Bus -> BOOLEAN] /\ time \in [Bus -> Nat]
  /\ fd \in [Device -> Client \cup {NoClient}]
  /\ ready_flag \in [Device -> BOOLEAN] /\ exited_flag \in [Device -> BOOLEAN]
  /\ ready_time \in [Device -> Nat] /\ signals \in [Device -> BOOLEAN]
  /\ conn \in [Client -> {"none", "backlog", "accepted", "closed"}]
  /\ plug \in [Client -> Device \cup {NoDevice}]
  /\ c2s \in [Client -> Seq(Message)] /\ s2c \in [Client -> Seq(Message)]
  /\ cl \in [Client -> ClientState] /\ bus_time \in [Client -> Nat]

(* Two clients that name one device, and a client the server does not      *)
(* know, are configuration mistakes; most properties are stated without.   *)
UniqueNames == \A c1, c2 \in Client : Name[c1] = Name[c2] => c1 = c2
AllKnown    == \A c \in Client : Known(c)

(* read_from_socket handles one line per read, and the library looks at    *)
(* the first line of one read() only.  Neither loses a message, because a  *)
(* connection never carries more than one, and a message from the server   *)
(* only ever goes to a client that is blocked waiting for it.              *)
OneOutstanding ==
  \A c \in Client :
    /\ Len(c2s[c]) + Len(s2c[c]) <= 1
    /\ s2c[c] # <<>> => cl[c] \in {"hello", "waiting", "finishing"} \cup Gone

(* A client attached to a running bus never lags behind or runs ahead of   *)
(* it: the time it has, or is about to read, is the time of the bus.       *)
View(c) == IF s2c[c] # <<>> /\ Head(s2c[c]).type = "UNTIL"
           THEN Head(s2c[c]).time ELSE bus_time[c]
Attached(c) == conn[c] = "accepted" /\ cl[c] \in {"running", "waiting", "finishing"}
Lockstep == \A c \in Client : Attached(c) => View(c) = time[Port[c]]

(* bus_ready never looks at the time of the READY messages it acts on.  It *)
(* need not: each one that it acts on was sent for the current time.       *)
ReadyForThisStep ==
  \A b \in run : pc = "run" =>
    \A d \in device_map(b) : exited_flag[d] \/ ready_time[d] = time[b]

(* No assertion of the server fails as long as clients come with known     *)
(* names and leave through the library, and no bus asserts its signals.    *)
NoAbort == pc # "aborted"

(* A client has left a bus that asserts its signals, by FINISH or by       *)
(* closing, with no READY ever delivered to the server or under way.       *)
LeftEarly(c) ==
  /\ Port[c] \in Checked /\ Known(c)
  /\ cl[c] \in {"finishing"} \cup Gone
  /\ ~signals[Name[c]] /\ c2s[c] # <<Ready(bus_time[c])>>

(* A client process has died, one whose name is unknown has left, or one   *)
(* has left too early.                                                     *)
Disorder == \/ \E c \in Crashing : cl[c] = "dead"
            \/ \E c \in Client : ~Known(c) /\ cl[c] \in Gone
            \/ \E c \in Client : LeftEarly(c)

(* An assertion of the server, which ends every bus, fails only after a    *)
(* client process has died, a client with an unknown name has left, or a   *)
(* device of an AXI4 bus has left before its first READY (run_run comes    *)
(* before finished is looked at): nothing else that clients do, in         *)
(* whatever order, can bring it about.                                     *)
AbortForCause == pc = "aborted" => Disorder

(* Once a device has left its bus, by FINISH or by closing, no client of   *)
(* that bus is told to go on: the next message of each is FINISH.          *)
NoUntilAfterExit ==
  [][\A c \in Client :
       s2c'[c] # s2c[c] /\ s2c'[c] # <<>> /\ Head(s2c'[c]).type = "UNTIL"
         => \A d \in device_map(Port[c]) : ~exited_flag[d]]_vars

(* A bus is closed under a running server only because a client of this    *)
(* bus finished or went away, never because of what another bus does.      *)
BusEndsForCause ==
  [][\A b \in Bus :
       listening[b] /\ ~listening'[b] /\ pc' \in Running
         => \E c \in Client : Port[c] = b /\ cl[c] \in {"finishing"} \cup Gone]_vars

(* Where the server and its clients stand, as the barrier of each bus sees *)
(* it.  A client waits at the barrier from its READY on; it is let go when *)
(* its UNTIL is under way.                                                 *)
Member == {c \in Client : Known(c)}
Told(c) == s2c[c] # <<>> /\ Head(s2c[c]).type = "UNTIL"
Place(c) ==
  CASE cl[c] \in {"idle", "connected", "hello"} -> "out"
    [] cl[c] = "running" -> "computing"
    [] cl[c] = "waiting" /\ Told(c) -> "released"
    [] cl[c] = "waiting" /\ ~Told(c) /\ conn[c] # "closed" -> "ready"
    [] OTHER -> "left"

Abstract == INSTANCE Barrier WITH
  BusOf <- Port,
  now   <- time,
  place <- [c \in Member |-> Place(c)],
  clock <- [c \in Member |-> bus_time[c]]

(* README.txt and protocol.h, bus_ready: a bus is a barrier.  The server   *)
(* does not start it until all its devices have attached, steps it only    *)
(* when each of its clients has sent its READY or has left, lets all of    *)
(* them go on or none (unless it fails in the midst of it), and a client   *)
(* goes on at the time the bus has reached.                                *)
BusIsBarrier == Abstract!Spec

(* README.txt, READY: every READY is answered, by UNTIL or FINISH (or the  *)
(* connection ends with the server).                                       *)
ReadyAnswered == \A c \in Client : cl[c] = "waiting" ~> cl[c] # "waiting"

(* README.txt, FINISH: when one client finishes or goes away, the whole    *)
(* bus closes down: every client of the bus ends.                          *)
BusDown(b) == \A c \in Client : Port[c] = b => cl[c] \in Gone \cup {"idle"}
FinishEndsBus ==
  \A c \in Client : cl[c] \in {"finishing"} \cup Gone ~> BusDown(Port[c])

-----------------------------------------------------------------------------
(* The inductive invariant behind Lockstep and the other safety            *)
(* properties.  It needs UniqueNames: process_client_hello_ gives a plug   *)
(* that is taken to whoever names it.                                      *)

(* A plug and the connection that took it point at each other.             *)
Linked ==
  /\ \A d \in Device : fd[d] # NoClient => plug[fd[d]] = d
  /\ \A c \in Client : plug[c] # NoDevice =>
       /\ plug[c] = Name[c] /\ Known(c) /\ fd[plug[c]] = c
       /\ conn[c] \in {"accepted", "closed"}

(* What a connection may carry, by where its client is.                    *)
ToServer(c) ==
  \/ c2s[c] = <<>>
  \/ /\ c2s[c] = <<Hello>> /\ cl[c] \in {"hello"} \cup Gone
     /\ plug[c] = NoDevice
  \/ /\ c2s[c] = <<Ready(bus_time[c])>> /\ cl[c] \in {"waiting"} \cup Gone
     /\ plug[c] # NoDevice /\ bus_time[c] = time[Port[c]]
  \/ /\ c2s[c] = <<Finish>> /\ cl[c] \in {"finishing"} \cup Gone
     /\ plug[c] # NoDevice
ToClient(c) ==
  \/ s2c[c] = <<>>
  \/ /\ s2c[c] = <<Nak>> /\ cl[c] \in {"hello"} \cup Gone /\ ~Known(c)
  \/ /\ s2c[c] = <<YouAre>> /\ cl[c] \in {"hello"} \cup Gone
     /\ plug[c] # NoDevice
  \/ /\ cl[c] \in {"waiting", "finishing"} \cup Gone
     /\ \/ s2c[c] = <<Finish>>
        \/ s2c[c] = <<Until(Head(s2c[c]).time)>>
Traffic ==
  \A c \in Client :
    /\ ToServer(c) /\ ToClient(c)
    /\ c2s[c] = <<>> \/ s2c[c] = <<>>
    /\ cl[c] = "idle" => conn[c] = "none"
    /\ cl[c] \in {"idle", "connected"} => plug[c] = NoDevice
    /\ cl[c] \in {"running", "waiting", "finishing"} => plug[c] # NoDevice

(* A ready flag stands for a client that is blocked with nothing under way *)
(* in either direction, or that is gone.                                   *)
Waiting ==
  \A d \in Device : ready_flag[d] =>
    /\ fd[d] # NoClient /\ c2s[fd[d]] = <<>>
    /\ pc \in Running => conn[fd[d]] = "accepted"
    /\ \/ cl[fd[d]] \in Gone
       \/ s2c[fd[d]] = <<>> /\ cl[fd[d]] \in {"waiting", "finishing"}

(* Times: a bus stands at 0 until all its clients are connected.           *)
Times ==
  /\ \A c \in Client : cl[c] \in {"idle", "connected", "hello"} =>
       bus_time[c] = 0 /\ (Known(c) => time[Port[c]] = 0)
  /\ \A d \in Device : ready_flag[d] /\ ~exited_flag[d] =>
       ready_time[d] = time[DevBus[d]]

(* The run list holds ready busses, and a bus that a device has left is    *)
(* marked finished before it runs.                                         *)
RunList ==
  /\ pc = "serve" => \A c \in rfdClient : conn[c] = "accepted"
  /\ pc = "run" => \A b \in run : \A d \in device_map(b) :
       ready_flag[d] /\ (exited_flag[d] => finished[b])
  /\ \A b \in Bus : finished[b] => \E d \in device_map(b) : exited_flag[d]
  /\ \A d \in Device : exited_flag[d] /\ listening[DevBus[d]] =>
       fd[d] # NoClient /\ cl[fd[d]] \in {"finishing"} \cup Gone

(* The whole of it: what the service loop maintains between any two steps, *)
(* with which Lockstep is inductive.                                       *)
Inv == TypeOK /\ Linked /\ Traffic /\ Waiting /\ Times /\ RunList /\ Lockstep

(* With Inv, what BusIsBarrier needs: an UNTIL that a client has not read  *)
(* carries the time of its bus, also once the connection is closed.        *)
ToldNow ==
  \A c \in Client : cl[c] = "waiting" /\ Told(c) => Head(s2c[c]).time = time[Port[c]]

(* A device that is ready and has never sent its signals has left.         *)
Silent ==
  \A d \in Device :
    ready_flag[d] /\ ~signals[d] => cl[fd[d]] \in {"finishing"} \cup Gone

(* As long as there has been no Disorder: a client that is gone has been   *)
(* heard, and its plug says so.                                            *)
Orderly ==
  /\ pc # "aborted"
  /\ \A c \in Client : cl[c] \in Gone /\ conn[c] # "closed" =>
       plug[c] # NoDevice /\ c2s[c] = <<>>
  /\ pc \in Running => \A d \in Device :
       ready_flag[d] /\ cl[fd[d]] \in Gone => exited_flag[d]
=============================================================================
