# simbus: TLA+ models, model checking and proofs

simbus lets independent programs - C programs, Verilog simulations - meet on a
simulated hardware bus. A **server** owns the busses; every device of a bus is a
**client process** with a TCP or Unix connection to it. A client computes its
outputs for the present time, sends `READY <time> <signals>` and blocks; when
every device of a bus has done so the server runs one step of the bus protocol
and answers each with `UNTIL <time> <signals>`. The step is a barrier: everything
the bus protocols (PCI, AXI4, PCIe TLP, point-to-point) promise rests on it.

## 1. Inventory

### Server (`server/`, C++, one thread)

| component | state | operations | interacts with |
|---|---|---|---|
| service loop, `service.cc` | `bus_map`, `client_map`, `interrupted_flag`, fd sets, the run list | `select`, accept, serve the readable clients, assemble, build the run list, run each ready bus in time order, finish a bus | signals, sockets, sessions, protocols |
| client sessions, `client.cc` | `bus_interface_`, receive buffer; the plug's `ready_flag`, `exited_flag`, `fd`, `ready_time`, `client_signals` | HELLO, READY, FINISH, end of file | the plug is shared with the service loop and the protocol |
| bus step, `protocol.cc` | `time_`, the bus's `device_map` | `bus_ready`: clear flags, `run_run`, send UNTIL (or FINISH) | calls the protocol subclass |
| simulation time, `simtime.h` | 64-bit mantissa, exponent | addition, comparison, text | every protocol |
| PCI, `PciProtocol.cc` | `phase_`, `req_n_`, `granted_`, `master_`, the signals | clock phases, arbiter, master tracking, blending, reset, interrupt routing | plugs' signal maps |
| point-to-point, AXI4, PCIe TLP | clock phase table, signal maps | clock generation, forwarding of signals | plugs' signal maps |
| configuration, launcher, LXT2 | parse trees, child processes, trace file | parse, fork/exec, write | outside |

### Client library (`libsimbus/`, C) and Verilog side (`vpi/`, `ver/`)

| component | state | operations |
|---|---|---|
| connection, `simbus.c` | fd, ident, time of the last UNTIL | connect, HELLO, send/receive, finish |
| PCI master, `simbus_pci*.c` | the `out_*` and `pci_*` signals | wait for the posedge, request the bus, address, data, completion, configuration cycles, reset |
| PCI target, `simbus_pci_target.c` | `target_state`, claimed command, split transactions | a state machine run from inside every wait |
| AXI4 master and slave | channel signals, slave machines and callbacks | write, read, response with timers; ready, decode, respond |
| PCIe TLP root | transmit queue, tags, completions, INTx | send, receive, credits, reset |
| point-to-point | the clocked signals | clock edges |
| VPI client | VPI callbacks, delta-cycle bookkeeping | the same messages from a simulator |
| PCIe slot, `ver/xilinx_pcie_slot.v` | configuration space, `tlp`, `cmp_data`/`ncmp`, receive buffer, transmit arbiter | complete configuration TLPs, pass the others to the design, turn its interrupts into messages; `cmp_data` serves completions and messages |
| other slots in `ver/` | ports | `$simbus_connect`, then ready, poll, until for ever |

### What is hard here

* **The barrier.** Messages carry no sequence number that anybody checks:
  `ready_time` is stored and never compared. The receive loops on both ends look
  at one line per readable event or per `read()`. Both are right only if a
  connection never carries two messages, which no single place enforces.
* **Departures.** A client may finish, disconnect or die at any point: before its
  HELLO, between READY and UNTIL, while the other clients are computing. The
  server learns by end of file, by `EPIPE` on a write (with `SIGPIPE`, which shares
  its handler with `SIGINT`), or not at all.
* **Several busses in one loop**, of different speed, sharing `select`, the run
  list and the signal handler.
* **PCI ownership.** REQ#, GNT# and FRAME# travel with a clock of latency; the
  grant moves, is parked or is randomly recalled while a master that has seen it
  may be starting. The library's wait for a grant re-enters the target machine,
  which may request the bus itself.
* **A step of an AXI4 bus looks at signals** before it looks at who has left: a device
  that leaves before its first READY has none, and the assertion ends the server.
* **Timers and re-entrancy** in AXI4 and PCIe TLP clients: whatever clocks a PCIe bus
  receives TLPs, and answers them from within the send that is under way.
* **Several slots in one Verilog simulator**: one thread waits for several servers'
  answers, must block none of the slots and must keep simulated time standing still.
* **One completion buffer** in the PCIe slot for what the root asked and for what the
  design raises, at independent times.
* **A gated clock** in point-to-point busses: its mode may change at any phase, and the
  ends wait for edges that may not come.

What makes each part correct, in short. Server: no client runs ahead or behind,
no message is lost, a READY is answered, a departure ends its bus and only its
bus. PCI: one grant, one owner, the tracked master is the real one, requests are
granted in bounded time. Library protocols: a transaction returns the data and
status the target gave, and returns at all.

The exact places are listed under `hazards` in `PROJECT.json`.

## 2. Modules

| module | models | state and actions |
|---|---|---|
| `SimbusServer` | `service.cc`, `client.cc`, `protocol_t::bus_ready`, `libsimbus/simbus.c` | One variable per field of the service loop, `bus_state`, `bus_device_plug`, `client_state_t`, and per client process; sockets are sequences of messages. One action per handler or system call: `Select`, `listen_ready`, `process_client_hello_` / `_ready_` / `_finish_`, `read_eof`, `CheckBusses`, `bus_ready_until` / `_finish`, `run_run_abort`, each failure path by itself (`..._abort`, `..._nak`), and the client's `Connect`, `Send...`, `Recv...`, `Disconnect`, `Crash`. |
| `PciArbiter` | `PciProtocol.cc` | the clock phases, `track_req_n_`, master tracking, `arbitrate_`, blending of FRAME# and IRDY# with feedback subtracted |
| `PciBus` | `simbus_pci.c`, the burst writes of `simbus_pci_rw32.c`, the split reads of `simbus_pci_target.c` | composes the arbiter with masters: one action per thing a library call does between two posedges |
| `PciTarget` | `simbus_pci.c`, `_rw32.c`, `_rw64.c`, `_config.c` against `simbus_pci_target.c` | one transaction at a time, phase by phase: the master's request, DAC, address, DEVSEL# and data waits, retry and settling, and the target's state machine with its handlers, one clock each |
| `Axi4` | `AXI4Protocol.cc`, `simbus_axi4.c`, `simbus_axi4_read.c`, `simbus_axi4_write.c`, `simbus_axi4_slave.c` | the four clock phases and the copying of the channels (`run_run`), the master's calls and the loops they wait in, the slave's machine and reset |
| `PcieTlp` | `PCIeTLP.cc`, `simbus_pcie_tlp.c`, `_tlp.c`, `_read.c`, `_write.c`, `_cfg.c`, `_reset.c`, `ver/xilinx_pcie_slot.v` | the server's clock, the root library with its re-entered transmit queue, receive buffer, completions, tags and interrupts, the application's calls, and the slot (`endpoint`) with its completions and interrupt messages and any design behind it |
| `P2p` | `PointToPoint.cc`, `simbus_p2p.c` | the gated clock and the exchange of vectors in the server; the waits for an edge, outputs, inputs and clock mode at both ends |
| `VpiClient` | `vpi/simbus.c`, the loop common to the slots in `ver/` | simulators with slots of several busses: `$simbus_connect`, `_ready`, `_poll`, `_until`, the select callback, simulated time, messages in pieces |
| `Barrier` | - | abstract: a bus starts when all its members have joined, moves on when each has arrived or left, and lets all of them go or none; `SimbusServer` is shown to implement it |
| `RemoteAccess` | - | abstract: a call makes one access to the device and returns what it gave; `Axi4` and `PcieTlp` are shown to implement it |
| `Fifo` | - | abstract: items are taken whole, once and in order; both directions of `PcieTlp` are shown to implement it |
| `SimbusServer_proof`, `PciBus_proof`, `PciBusWait_proof`, `PciTarget_proof`, `VpiClient_proof`, `P2p_proof`, `Axi4_proof`, `PcieTlp_proof` | - | theorems and proofs about the module of the name (section 4) |
| `MCSimbusServer`, `MCPciTarget`, `MCPcieTlp`, `MCP2p`, `MCVpiClient` | - | the instances for TLC |

`SimbusServer` shows that a bus steps only when each of its devices has reacted to
the previous step: it implements `Barrier` (`BusIsBarrier`). The protocol modules use
exactly this: a phase of the bus is one step (`Bus`, `run_run`, `Clock`, `bus_step`),
and between two steps every device reacts once, in any order.

### Abstractions

* `SimbusServer`: a message is its type and its time; signal values belong to the
  protocol modules. A message is delivered whole. (TCP could split an UNTIL, and
  `simbus.c:240` would then fail its assertion: listed as a hazard. `VpiClient`, whose
  code puts pieces together, has messages in pieces.)
* Of the signals the server keeps (`client_signals`) one thing is modelled, `signals`:
  whether a READY has filled them. `run_run` of a bus in `Checked`, an AXI4 bus, asserts
  their widths (`SignalsThere`, `run_run_abort`); a READY is taken to carry all signals of
  its device in the configured widths, as the device modules send them.
* `assembled` joins `need_initialization` and the effect of leaving it. The code
  may set `finished` in a scan that stops at a device that is not ready; nobody
  reads it before all are ready, so `CheckBusses` sets it then.
* The set of readable sockets is fixed when `select` returns, and served bus
  sockets first, as in the code. The order among clients is left open; the code
  has that of the map.
* A write to a closed peer may be accepted by the kernel or fail; a crash may
  lose what was sent (reset). An assertion that fails, and `SIGPIPE` in a client,
  end the process.
* Time is in units of the shortest step; `Step[b]` stands for the phase table.
* `PciArbiter`: `req_n_` is the set of idents at `BIT_0`; the random numbers of
  the recall and of the first grantee are nondeterministic choices.
* `PciBus`: a transaction is known by its bus ownership alone: how long FRAME#
  and IRDY# are held and in which order released. What the target answers only
  changes those lengths, which are chosen in `1..MaxAddress` and `1..MaxData`.
* `PciTarget`: the other half of the same calls. The bus is granted after a number of
  clocks from `Grants` (0 where it is parked on the master), after a retry from
  `Regrants`. A word has two byte lanes; an address is a page and a word. The bus is
  conventional PCI of 32 bits, so that a 64-bit access is a burst of two words.
  `asked` is a ghost: the words as the calls should have left them.
* `Axi4`: the signals that a library looks at are kept, with their four values;
  lengths, strobes, caches and protection bits are not. Data is kept by 32-bit lane,
  because the upper one of a 64-bit write is treated differently. The response is
  converted to bits and back as the code does, and so is the copy of BID that is
  stored in front of its array. The device behind the slave's callbacks may answer
  anything in `Responses`. The refinement maps the abstract `access` to the accesses
  the slave has made since the call began: a second one, or one after the return, is
  no abstract step.
* `PcieTlp`: a TLP is a record whose 32-bit words are numbered, and two of them make a
  beat of the stream. The four phases of a clock are one step, because the library
  acts on the posedge only. The endpoint is the slot and the design in it. The slot's
  part is `xilinx_pcie_slot.v`: a configuration TLP is completed from `cmp_data`, an
  interrupt becomes a message in `cmp_data`, one raised in the clock of a completion
  replaces it (`Overwrites`), and a configuration TLP that finds a message there ends the
  slot's simulation (`CompletionOverrun`). The design, which is the user's, is external:
  any that answers a read once and sends at most `OwnLimit` TLPs unasked, interrupts
  included. What both send is one queue in the order in which they get the link; a
  message that waits for `cmp_data` is in it already, behind what it waits for. The slot's
  ready line is free to rise and fall, which includes what its receive buffer does as
  long as it does not overflow. The bus is reset once, before it is used.
* `P2p`: a vector is a sequence of bits; the order in which each side writes and reads
  it, and the padding of one that is too short, are kept.
* `VpiClient`: the server is seen as `bus_step`: a bus starts when all its slots have been
  greeted and are ready or gone (`AllReady`), goes on when they are, and finishes when one
  has left. A slot may be refused, which takes the server down when it reads the end of
  that connection (`server_abort`), or may find nobody; its connection then stays
  ungreeted and its bus is never assembled. At the end of a connection `select` reports it
  for ever (`AtEOF`) and the callback passes over the empty read. A message has two pieces, which arrive at any time. The scheduler of
  the Verilog simulator is external: processes of the present time, then
  `cbReadWriteSynch` callbacks, then time goes on.

## 3. Runs

| run | instance | shows |
|---|---|---|
| `server_one_bus` | 1 bus, 3 devices, a client of unknown name, a crashing client, SIGINT | `OneOutstanding`, `Lockstep`, `ReadyForThisStep`, `NoUntilAfterExit`, `AbortForCause`, `BusIsBarrier` (refinement of `Barrier`), types |
| `server_two_bus` | 2 busses of speed 1 and 2, the faster one asserting its signals, a crashing client, fair | `AbortForCause`, `BusEndsForCause`, `ReadyAnswered`, `FinishEndsBus` |
| `server_restart` | a device restarted after a crash, fair | violates `ReadyAnswered` (finding) |
| `pci_arbitration` | 3 masters, one with split reads, with and without parking, random recall | `OneGrant`, `OneOwner`, `MasterTracked`, `RequestGranted` |
| `pci_split` | 2 masters with split reads | violates `RequestHeld` (finding) |
| `pci_transfer` | all kinds of transfer between a master and a target, retried reads, fair | `WrittenAsAsked`, `Answered`, `Turnaround`, `CallReturns` |
| `pci_retry` | retried reads of a master the bus is parked on | violates `Answered` (finding) |
| `axi4_access` | reads and writes of 8 and 32 bits, resets, waits, a response timer that runs out, fair | `OneAccessPerCall` (refinement of `RemoteAccess`), `CallReturns`, types |
| `axi4_response` | a 16-bit write | violates `ResponseReturned` (finding) |
| `pcie_link` | reads, writes, configuration accesses and waits against the slot and a design with reads, writes and interrupts of its own, fair | `DownInOrder`, `UpInOrder` (refinements of `Fifo`), `OneAccessPerCall` (of `RemoteAccess`), `OwnCompletion`, `DmaAnsweredOnce`, `AnsweredBeforeReturn`, `IntxFollows`, `BytesEnabled`, `CallReturns` (while `InterruptsApart`), types |
| `p2p_gated` | all clock modes, waits for both edges, fair | `ReadsWhatWasSetUp`, `NoShortPulse`, `HostReturns`, types |
| `vpi_cross` | 2 simulators, each with a slot of each of 2 busses, that may be refused or find no server, fair | `UntilNeverBlocks`, `InStep`, `TimeStandsStill`, `RunsToTheEnd` (where all are greeted) |

Two liveness properties carry a condition, `CallReturns` of `PcieTlp` and `RunsToTheEnd`:
the code does not keep the unconditional ones, as `PcieInterrupt.cfg` and
`VpiRefused.cfg` of section 5 show. The condition is a part of the property and not of the
model, so the safety properties of both runs are checked in the refused, overwritten and
overrun cases too. `InterruptsApart` is met by an application that configures the device
before it lets it raise interrupts, `AllConnect` by a configuration that names every slot.

### Bounds

* Server, `MaxTime = 2`: a client that has reached it takes no more READY and
  finishes or disconnects. Nothing in the server depends on the value of the time
  except its order among busses and equality with `ready_time`; two steps let a
  message of one step meet the next, and busses of speed 1 and 2 pass each other.
  The safety theorems hold for every `MaxTime`.
* Three clients are the least with which one is computing, one waiting and one
  gone, or with which two share a bus and one has another.
* PCI idents 0, 3, 15: neighbours across the wrap of the round robin, and a gap.
  The library's count of 4096 becomes `Timeout`; with the transactions of
  `pci_arbitration` 13 is the least count for which `RequestGrantedHolds` is proved
  (one more than three turns of four clocks), and the least that suffices: with 12 TLC
  finds a request that gives up. `MaxNest = 1`: one split read inside a request;
  deeper nesting repeats it.
* `PciTarget`: three words of memory, so that a burst is longer than the pair of a
  64-bit access and can run over its end; grants at once, after one and after two
  clocks, which puts the request on every clock of the previous transaction's end.
* AXI4: two addresses and two values tell a mixed-up access from the right one; the
  number of calls is not bounded. With `TimeLimit = 1` the response timer runs out on
  the way of a write, since a library slave takes two clocks, and the run shows what the
  code's giving up comes to: the call goes on, is one access and returns. `axi4_access` starts with a reset, uses the widths
  the slave serves and responses without the upper bit, and ids of equal width above
  1: section 5 says what happens outside each of these conditions.
* PCIe: two tags in place of 32, so that they are reused at once; two unasked TLPs of
  the endpoint, so that a second read arrives while the first one's answer is in the
  queue; writes of one and two words, with bytes left out at both ends; two values in
  the endpoint's registers and one in the root's memory.
* P2p: two bits to the device, whose order shows, and one back, whose value is set
  once; calls of one and two cycles. The safety theorems hold for all words and counts.
* VPI: busses of period 2 and 3 meet, pass and miss each other up to time 4.

### Fairness

`FairSpec` of `SimbusServer` gives weak fairness to the server thread as a whole and
to each client process as a whole, which is what an operating system's scheduler
gives. Neither crashes nor SIGINT are fair. A client that is computing will thus, in
time, send READY, send FINISH or disconnect: a device that computes for ever stops
its bus by design, so no liveness property holds without this.

The protocol modules follow the same rule: the server's step and the libraries are
weakly fair, since both are loops that run when scheduled and `ReadyAnswered` is what
the server gives them. Beyond that:

* `Axi4`, `PcieTlp`: the application is not fair. The endpoint of `PcieTlp` goes on
  clocking and, strongly fair, does not refuse beats for ever, nor hold back its own,
  as the stream protocol asks of a receiver and a sender.
* `P2p`: the two applications keep clocking the bus, since the one waits for the other.
* `PciTarget`: strong fairness of a decode without a retry, because the retries are
  drawn at random (`choose_to_retry_r`).
* `VpiClient`: simulators, busses and the network are weakly fair.

Deadlock checking is on in every run except `server_restart`, in which the restarted
client waits for ever, and `vpi_cross`, in which the slots of a bus that one of them never
joins do. The end of a system is an explicit stuttering step
(`Terminated`, `Stopped`).

## 4. Proofs

Each `X_proof` module extends `X` (`PciBusWait_proof` extends `PciBus_proof`). The theorems hold for every value of the constants
of `X`, except where an assumption is named; each such assumption is one that the code
needs, and the configuration that shows so is given.

### Server (`SimbusServer_proof`)

For every number of busses, devices, clients, every `Step` and `MaxTime`:

* `TypeCorrect`: `Spec => []TypeOK`, without further assumption.
* `Invariance`: `Spec => []Inv` when no two clients name one device
  (`UniqueNames`; needed because `client.cc:175` gives a plug that is in use to whoever
  names it).
* `OneOutstandingHolds`, `LockstepHolds`, `ReadyForThisStepHolds`: from `Inv`.
* `NoUntilAfterExitHolds`, `BusEndsForCauseHolds`: action properties, from `Inv`.
* `BusIsBarrierHolds`: `SimbusServer` implements `Barrier`. The clients that the server
  knows are the members of the barrier; a client is ready from its READY on, released
  when its UNTIL is under way, computing once it has read it. The lemmas take the steps
  one by one: a client's own step moves that client only (`ClientMoves`, `MoveIsStep`),
  serving a command moves nobody (`ServeMoves`), the end of the process lets down
  everybody who waits (`EndMoves`), and the three outcomes of a bus step are `Release`,
  `Close` and `Break` of the barrier (`BusMoves`). Besides `Inv` this needs `ToldNow`:
  an UNTIL still unread carries the time of the bus even after the connection was
  closed, where `Lockstep` says nothing. `ServerRestart.cfg` with this property shows
  that `UniqueNames` is needed.
* `AbortForCauseHolds`: an assertion of the server fails only after a client process
  has died, one whose name the server does not know has left, or a device of a bus that
  asserts its signals has left before its first READY (`LeftEarly`): `bus_ready` calls
  `run_run` before it looks at `finished`. It needs a strengthening of its own: `Disorder` names such a cause, the lemma `DisorderStays`
  shows that it is never forgotten, and as long as there is none `Orderly` says that
  whoever is gone has been heard, and that a plug that is ready for a client that is
  gone says so. `Silent` adds that a device that is ready and whose signals the server
  has never got is one that leaves.
* `NoAbortHolds`: its corollary when the server knows every name (`AllKnown`), no
  client crashes and no bus asserts its signals (`Checked = {}`). `ServerNak.cfg` and
  `ServerEarlyFinish.cfg` (section 5) show that the first and the last are needed.

`Lockstep` alone is not inductive: that UNTIL may be sent to a client depends on
its plug's ready flag meaning what it should. `Inv` therefore adds

* `Linked` - plug and connection point at each other;
* `Traffic` - which message can be under way, by where the client is, at most one
  in both directions together;
* `Waiting` - a set ready flag means that the client is blocked with nothing under
  way in either direction, or gone;
* `Times` - a bus stands at 0 until all its clients have connected, and a ready
  flag carries the present time;
* `RunList` - the run list holds only ready busses, marked finished if a device has
  left.

The proof goes by action. Client steps that change only the client's own state
share the lemma `InvMove`; steps of the session handlers are `InvServe`; the steps
of the barrier (`BusReady`, `BusStep`, `InvBus`) use `Waiting` to show that every
attached client of the bus is at its end of an empty connection.

### PCI arbitration (`PciBus_proof`, `PciBusWait_proof`)

For any devices, grants, recalls and lengths of transactions, without assumption:
`TypeCorrect`, `OneGrantHolds`, `OneOwnerHolds`, `MasterTrackedHolds`.

That at most one master drives FRAME# or IRDY# does not follow from `OneGrant`: a
master starts on the grant and the lines of the last posedge, when both may have
changed. `Inv` adds what connects the two: `Lines` (what a device drives, by where it is
in the library), `Held` (a device that drives has the grant, or everybody else has been
told that the bus is in use, or it is about to let go), `Handover` (two devices drive
only where one has reacted to this posedge and the other will let go at the same one),
`Sampled` (a REQ# that the arbiter has sampled stays low or has been answered by a
FRAME#) and `Tracking` (grant and FRAME# belong to the tracked master or to a device
whose request is still sampled). `SoleOwner` derives `OneOwner`.

With `LongEnough`, a count that exceeds one turn of every device:
`RequestGrantedHolds`, no device whose REQ# is low runs into `assert(count > 0)`. A turn is
`MaxAddress + MaxData + 1` clocks, from one start to the next, and `SplitDelay` more for a
device that takes a split read while it has the grant. For the code's count of 4096 and
16 slots `RequestGrantedIn4096` allows turns of 255 clocks. The library itself bounds
neither the waits of a target nor the length of a burst, so `LongEnough` is a condition on
the use of the bus.

`RequestGranted` speaks of a device that is dead already, so all of the argument is in
`WaitInv`. `Room(d)` is the number of clocks that `d` can still wait, `Busy(e)` the number
that `e` can still be seen to hold the bus, both counted from the end of the present clock,
so that they do not depend on who has reacted to it. `Patience` bounds the first from below
by what still comes first (`InTurn`): nothing but the present transaction where `d` has the
grant (`OwnTurn`); a turn of every other device where nobody has it (`AnyTurn`); and where
`g` has it, the turns of the devices between `g` and `d` in the round robin, `Rank(g, d)` of
them, together with the rest of `g`'s turn, which depends on whether `g` has still to start
(`BeforeTurn`) or not (`AfterTurn`). A grant lowers `Rank` (`RankDrops`); a posedge takes one
off `Room`, and one off `Busy` or the rest of the turn (`PatiencePosedge`); a device's
reaction lengthens `Busy` only by a start, which only the grantee can make
(`PatienceMaster`). `Asking` and `Arbitrated` say where in the library REQ# is low, and that
a sampled request is withdrawn only by a start. Besides the instance of `pci_arbitration`
TLC checked `WaitInv` with two and three devices, split delays of 1 and 2 and nested split
reads, with the least count that `LongEnough` allows.

### PCI transfers (`PciTarget_proof`)

With `ServedUse`, for any memory, bursts of any length, byte enables, waits for the bus
and retries: `Invariance`, `WrittenAsAskedHolds`, `AnsweredHolds`, and the action property
`TurnaroundHolds`. `ServedUse` says that writes are not retried (`PciRetryWrite.cfg`), that
a retried master does not have the bus back at once (`PciRetry.cfg`), that what nobody
claims is a single word (`PciBusBusy.cfg`), that configuration cycles are of one word and
64-bit accesses of more than one, as the library's are, and that reads stay within the
memory, outside of which the model has no word to compare.

The invariant has a part for each place of the master (`AtIdle`, `AtRequest`, `AtAddress`,
`AtDevsel`, `AtNobody`, `AtTrdy`, `AtEnd`), before and after the target has reacted to the
posedge. Each part names what the master drives, where the target is (`Selected`,
`Decoded`, `Serves(i)`, ...) and what the lines have shown the master (`Shown(i)`: a retry,
a word to come, or the word itself). `ToCome(i)` relates the memory to what was asked:
they differ by the words from `i` on, merged under their byte enables; with none left they
are equal. `Turnaround` needs one more fact, `OneDriver`: in no state do both sides drive
the AD lines, and no step changes both sides.

### Verilog client (`VpiClient_proof`)

* For any simulators, busses, slots and precision: `TypeCorrect`, `PollingHolds`,
  `UntilNeverBlocksHolds`. The invariant adds to `UntilNeverBlocks` that the slots that
  wait without a message are those the select callback looks at, and that it stays
  registered while there is one (`Polled`): without this a trigger could be a stale one.
* With `Unit = 1`, the precision being the time unit: `Invariance`, `InStepHolds`,
  `TimeStandsStillHolds`. `Answers` says that a slot is ready or has its one message
  while it waits and at no other time, `Onward` that the times of a slot's UNTILs do not
  decrease, so that no delay is negative. `VpiPrecision.cfg` shows that `Unit = 1` is
  needed.

### Point-to-point (`P2p_proof`)

* For any widths: `CallsHold` (`TypeOK`; a call waits with cycles left; an end knows
  the clock of its last UNTIL), `TypeCorrect`, and the action property
  `NoShortPulseHolds`, from `HostClock` and `DeviceClock`, which tie what each end last
  saw of the clock to the phase of the server and to the mode then in force. A mode is in
  force one phase after the one whose READY carried it; because the host's calls return
  at edges, that is always the next edge.
* With `SameWidths`, a bus as wide as its ends: `ReadsWhatWasSetUpHolds`, from `Caught`
  and `SetUp`: the UNTIL that raises an end's clock carries what was put out before the
  edge, and the end that is back from the edge still has it. Vectors of different widths are truncated or padded by design
  (`PointToPoint.cc:122`), so the property is about equal ones.

### AXI4 (`Axi4_proof`)

* For any constants: `TypeCorrect`.
* With `ServedUse` - a reset first, widths of 8 and 32 bits, responses without the upper
  bit, ids of equal width above 1 - and for every limit of the response timer:
  `Invariance`, and `OneAccessPerCallHolds`: `Axi4` implements `RemoteAccess`.
  Every part of `ServedUse` keeps one of the defects of section 5 out.

No signal is a property of one side alone, so the invariant `Handshake` names the
stages of a call (idle; address and data offered, accepted, answered; read offered,
answered) and, for each, the signals that the master, the server and the slave have;
both ends are at the same stage, or one of them a stage ahead by the clock that its
signals take. The refinement maps the abstract access to the entry that the slave's
machine has made since the call began.

### PCIe TLP (`PcieTlp_proof`)

For any tags, operands, spans and endpoint TLPs, and any number of them under way:
`TypeCorrect`, `Invariance`, `OwnCompletionHolds`, `DmaAnsweredOnceHolds`,
`AnsweredBeforeReturnHolds`, `IntxFollowsHolds`; the refinements `DownInOrderHolds`
and `UpInOrderHolds` (of `Fifo`) and `OneAccessPerCallHolds` (of `RemoteAccess`).
`BytesEnabledHolds` assumes that a write within one word begins at byte 0
(`\A p \in Spans : p.n = 1 => p.off = 0`), the complement of what `PcieBytes.cfg` shows.

The invariant has three layers. `Clocks`: what each side has seen of the other's ready
and valid lines. `DownStream`, `UpStream`: where every beat of every TLP is - queue,
wire, server, receive buffer - so that the streams are sequences with each TLP once.
`Protocol`: a request is pending for exactly the call that waits (`Pending`), a read of
the endpoint is on its way up, being answered, or its answer is on its way down (`Dma`),
and the interrupt messages on the way explain the difference between mask and endpoint
(`Follows`). A pending request is on its way, or its completion is, or it has arrived, or
the slot has lost it to an interrupt (`Lost`): all of the theorems hold in that case too,
there is only no return. A send that is under way receives TLPs and may send their answers; the
invariant is therefore stated for every place inside the send and not only between calls.

### Only model-checked

* The liveness properties (`ReadyAnswered`, `FinishEndsBus`, `CallReturns` of three
  modules, `HostReturns`, `RunsToTheEnd`): fairness is beyond the prover.
* The findings of section 5, which are counterexamples.

## 5. Findings

Each of these is a run that TLC finds violated:

1. `client.cc:191` (`server_restart`): HELLO does not clear `exited_flag`; a restarted
   device is greeted and never polled again.
2. `simbus_pci.c:478` (`pci_split`): a split completion inside a bus request leaves
   REQ# high, and the request's count runs out.
3. `simbus_axi4_slave.c:459`, `:482` (`axi4_response`): the upper response bit becomes
   X: an error of the slave is reported as success.
4. `simbus_pci_target.c:654` (`pci_retry`): a target that has retried misses the address
   of a master that starts again at once; its read ends in a master abort.

Further configurations, kept beside the runs, which TLC finds violated:

| configuration, module | property | what happens |
|---|---|---|
| `ServerNak.cfg`, `MCSimbusServer` | `NoAbort` | `client.cc:96`: a refused client (NAK) closes, as the library does, and the end of file without a plug runs `assert(0)`: the server ends, with all busses |
| `ServerEarlyFinish.cfg`, `MCSimbusServer` | `NoAbort` | `protocol.cc:109`, `AXI4Protocol.cc:312`: a known device of an AXI4 bus says HELLO and FINISH; `run_run` asserts the widths of signals it never sent, and the server ends |
| `Axi4Limit.cfg`, `Axi4` | `ResponseLimited` | `simbus_axi4_write.c:143`: a comparison in place of an assignment; the response timer never ends a wait, which `simbus_axi4_priv.h:23-27` says it does ("limit the time (in ACLK) that we wait for a response") |
| `PcieInterrupt.cfg`, `MCPcieTlp` | `AlwaysReturns` | `xilinx_pcie_slot.v:967`, `:700`: an interrupt and a configuration TLP meet in the slot's one completion buffer: the completion is replaced, or the slot's simulation ends; the root's call never returns |
| `PcieBytes.cfg`, `MCPcieTlp` | `BytesEnabled` | `simbus_pcie_tlp_write.c:83`: a write within one word that does not begin at byte 0 enables too few bytes |
| `PciRetryWrite.cfg`, `MCPciTarget` | `CallReturns` | `simbus_pci.c:824`: a write looks for TRDY# alone; one that the target retries never returns |
| `PciBusBusy.cfg`, `MCPciTarget` | `Answered` | `simbus_pci_target.c:924`: after a 64-bit access that nobody claims FRAME# goes from 0 to Z, the target waits for a 1 and misses the next access |
| `P2pOneWay.cfg`, `MCP2p` | `NeverAborts` | `PointToPoint.cc:122`, `simbus_p2p.c:262`: on a bus with data in one direction only the other vector is empty, which the library asserts against |
| `P2pMode.cfg`, `MCP2p` | `ModeAtNextPhase` | `PointToPoint.cc:147-164`: the device's clock is set before the new mode is read; `simbus_p2p.h:84-87` says that it "will take effect at the next clock phase", and it does one phase later. `NoShortPulse` holds because of that: taken up at once, in the hold or setup phase, a mode would cut a pulse short |
| `VpiRefused.cfg`, `MCVpiClient` | `AlwaysEnds` | `service.cc:403`, `client.cc:96`: a slot that never connects leaves its bus in need_initialization for good, one that is refused takes the server down; the slots that did connect spin or wait |
| `VpiPrecision.cfg`, `MCVpiClient` | `InStep` | `vpi/simbus.c:1032`: with a precision finer than the time unit the delay is computed from the deadline in place of the present time |

Also met while modelling. The models contain the behaviour, the runs stay clear of it
by the value of a constant:

* `client.cc:175`: a second HELLO with a name in use takes over the plug; the first
  client is left without messages (`UniqueNames`).
* `PciProtocol.cc:422`: `gnt_linger = 0`, documented as "off", divides by zero
  (`Linger`).
* `simbus_axi4_slave.c:471`: the truth value of ARREADY; a read before the first reset
  is made twice (`ResetFirst`).
* `simbus_axi4.c:323`: BID stored by token number, over AWREADY for one-bit ids
  (`WidWidth`).
* `AXI4Protocol.cc:394`: ARID checked against the width of the write ids (`RidWidth`).
* `simbus_axi4_write.c:178`: the upper half of a 64-bit write is overwritten with X
  (`Sizes`).

And outside the models:

* `simbus_pci.c:324`: the wait for a posedge ignores that the bus has finished, and
  never ends.
* `vpi/simbus.c:107`: an end of file of the server is ignored, and the client spins.
* `simbus_pci_rw64.c:155`, `:57`: `write64b` advances by 4 bytes a word of 8; `read64`
  returns 48 ones after a master abort.
* `xilinx_pcie_slot.v:1243`: the receive buffer of four beats is filled without a look at
  its fill; a design that does not take its beats loses some of a longer TLP.
* `simbus_pcie_tlp_reset.c:27`: a reset clears neither the receive buffer nor the
  completions.
* `simtime.h:72`: 64 bits of picoseconds without a check for overflow.
* `service.cc:462`: the trace may be given an earlier time of a slower bus.

## 6. Not modelled, and plan

Not modelled, with the reason:

* simulation time (`simtime.h`): sequential arithmetic whose edges lie at 2^64;
* the PCI memory device front end and the sample devices: sequences of library calls;
* configuration, main program, process launcher: sequential code before the service
  starts; it fixes the constants of the models;
* the LXT2 writer and the random number generators: third-party code, and
  nondeterministic choices in the models;
* within modelled parts: the PCI-X attribute phase, 64-bit data phases (ACK64#),
  target disconnect, parity, reset and interrupt routing of PCI; AXI4 interrupts,
  which the library slave never drives; `simbus_pcie_tlp_buf_avail`, and a PCIe reset
  while TLPs are under way, which the design behind the slot would have to take part
  in; of `xilinx_pcie_slot.v` the contents of its configuration space, the match of
  addresses with its BARs and its receive buffer; the argument parsing of the Verilog
  tasks.

Next: `SimTime` modulo 2^64 against the rational reference, for TLC only: its loops are
recursions over the data, which the prover does not reach.
