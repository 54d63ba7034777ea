------------------------------- MODULE PcieTlp -------------------------------
(***************************************************************************)
(* A PCIe bus: the server (server/PCIeTLP.cc) and the root library         *)
(* (libsimbus/simbus_pcie_tlp*.c), with an application on the library, and *)
(* at the other end of the link the slot of ver/xilinx_pcie_slot.v with a  *)
(* design in it.                                                           *)
(*                                                                         *)
(* The library is sequential, and re-entered: whatever clocks the bus      *)
(* receives TLPs, and the answer to a received read is sent from there.    *)
(* tlp_out_list is what keeps the answers of the inner calls out of the    *)
(* TLP that the outer one is in the middle of.                             *)
(*                                                                         *)
(* A TLP is a record, its 32-bit words are numbered, and two of them make  *)
(* up a beat of the AXI4 stream.  The slot completes configuration TLPs    *)
(* and turns the design's interrupts into messages, both in one buffer;    *)
(* the rest it passes to and from the design.  The design, which is the    *)
(* user's, is any that follows the stream protocol, answers a read once,   *)
(* and has at most OwnLimit TLPs of its own to send.                       *)
(***************************************************************************)
EXTENDS Integers, Sequences, FiniteSets

CONSTANTS
  Low, High,      \* addresses of 32 bits, and those that take 64
  Value,          \* words of the endpoint's registers; "ones" is 0xffffffff
  RootValue,      \* words that the application writes, and of the root's memory
  Spans,          \* ndata, off and len of the application's writes
  ReadSizes,      \* ndata of the application's reads
  CfgSizes,       \* bytes of the application's configuration writes
  Tags,           \* the tags the library uses in turn: 32
  Intx,           \* interrupts of the endpoint
  OwnLimit,       \* bound: TLPs that the endpoint sends unasked
  EpTags, EpAddr, \* tags and addresses of the endpoint's reads and writes
  MaxWait,        \* bound: clocks of a wait, a reset or a settling time
  None

Addr == Low \cup High

ASSUME PcieConstantsOK ==
  /\ Low \cap High = {} /\ EpAddr \subseteq Addr /\ "ones" \notin Value \cup RootValue
  /\ \A p \in Spans : p.n \in Nat \ {0} /\ p.off \in 0..3 /\ p.len \in Nat \ {0}
                      /\ p.off + p.len \in (4 * p.n - 3)..(4 * p.n)
  /\ ReadSizes \subseteq Nat \ {0} /\ CfgSizes \subseteq {1, 2, 4}
  /\ Tags \in Nat \ {0} /\ OwnLimit \in Nat /\ MaxWait \in Nat \ {0}
  /\ Intx \subseteq Nat /\ EpTags \subseteq Nat

VARIABLES
  rootSees, epSees,  \* what root and endpoint have been sent (send_signals)
  todo,           \* who has not yet acted at this posedge
  at,             \* where the application is
  call,           \* the read or write in progress
  left,           \* clocks left of a wait, and of the settling after it
  enable,         \* the interrupts a wait looks for
  wasReset,       \* the application has reset the bus
  reset,          \* user_reset_out
  rx,             \* the beat that the root drives: m_axis_rx_*
  out, sent,      \* tlp_out_list, and the words sent of its first TLP
  buf,            \* s_tlp_buf
  completions, tlp_next_tag, intx_mask,
  result,         \* what a read, or configuration access, has just returned
  tx, ready,      \* the endpoint: s_axis_tx_*, m_axis_rx_tready
  epBuf,          \* words it has received
  epQueue, epSent,   \* TLPs it has to send, and the words sent of the first
  epReads,        \* its reads without an answer
  level,          \* its interrupts
  own,            \* TLPs it has sent unasked
  given,          \* what it has given to the call in progress
  handled, took   \* the TLP that root and endpoint have received at this clock

busVars  == <<rootSees, epSees>>
appVars  == <<at, call, left, enable, wasReset, reset, result>>
sendVars == <<rx, out, sent>>
recvVars == <<buf, completions, intx_mask, handled>>
epVars   == <<tx, ready, epBuf, epQueue, epSent, epReads, level, own, took>>
vars == <<busVars, todo, appVars, sendVars, recvVars, tlp_next_tag, epVars, given>>

-----------------------------------------------------------------------------
(* TLPs.  The configuration access and the memory access of the library,   *)
(* completions with and without data, and the interrupt messages.          *)

Tlp(kind, tag, addr, n, data, be) ==
  [kind |-> kind, tag |-> tag, addr |-> addr, n |-> n, data |-> data, be |-> be]

AllBytes(n) == 0..(4 * n - 1)
CfgRd(tag, a)            == Tlp("CfgRd", tag, a, 1, <<>>, AllBytes(1))
CfgWr(tag, a, data, be)  == Tlp("CfgWr", tag, a, 1, data, be)
MRd(tag, a, n)           == Tlp("MRd", tag, a, n, <<>>, AllBytes(n))
MWr(a, data, be)         == Tlp("MWr", 0, a, Len(data), data, be)
CplD(tag, data)          == Tlp("CplD", tag, None, Len(data), data, {})
Cpl(tag)                 == Tlp("Cpl", tag, None, 0, <<>>, {})
Msg(kind, intx)          == Tlp(kind, intx, None, 0, <<>>, {})

(* Three words of header, four with a 64-bit address or in a message.      *)
Length(t) == (IF t.addr \in High \/ t.kind \in {"Assert", "Deassert"} THEN 4 ELSE 3)
             + Len(t.data)
Words(t) == [i \in 1..Length(t) |-> [of |-> t, word |-> i]]

(* The one or two words that follow the first i of a TLP.                  *)
Beat(t, i) == [words |-> SubSeq(Words(t), i + 1, IF i + 2 <= Length(t) THEN i + 2 ELSE i + 1),
               last  |-> i + 2 >= Length(t)]

(* What a receiver makes of the words up to tlast.                         *)
Garbled == Tlp("garbled", 0, None, 0, <<>>, {})
Assembled(words) == IF words = Words(words[1].of) THEN words[1].of ELSE Garbled

Data(n) == [1..n -> Value]
RootData(n) == [1..n -> RootValue]
Ones(n) == [i \in 1..n |-> "ones"]

-----------------------------------------------------------------------------
(* init_simbus_pcie_tlp, simbus_pcie_tlp_connect, PCIeTLP::run_init; an X  *)
(* on a tvalid or a tready is not a 1.                                     *)
Init ==
  /\ rootSees = [tx |-> None, ready |-> FALSE]
  /\ epSees = [reset |-> TRUE, rx |-> None]
  /\ todo = {"root"}
  /\ at = "idle" /\ call = None /\ left = <<0, 0>> /\ enable = {}
  /\ wasReset = FALSE /\ reset = FALSE /\ result = None
  /\ rx = None /\ out = <<>> /\ sent = 0
  /\ buf = <<>> /\ completions = [t \in 0..(Tags - 1) |-> None]
  /\ tlp_next_tag = 0 /\ intx_mask = {}
  /\ tx = None /\ ready = FALSE /\ epBuf = <<>> /\ epQueue = <<>> /\ epSent = 0
  /\ epReads = {} /\ level = {} /\ own = 0 /\ given = None
  /\ handled = None /\ took = None

-----------------------------------------------------------------------------
(* The server.                                                             *)

(* A clock.  run_run is called for each of the four phases and carries the *)
(* signals across each time; nobody changes one between the posedges, so   *)
(* the posedge's call does what the four do.                               *)
run_run ==
  /\ todo = {} /\ at # "finished"
  /\ rootSees' = [tx |-> tx, ready |-> ready]
  /\ epSees' = [reset |-> reset, rx |-> rx]
  /\ todo' = {"endpoint", "root"} \cup (IF tx = None THEN {} ELSE {"recv"})
  /\ result' = None /\ handled' = None
  /\ UNCHANGED <<at, call, left, enable, wasReset, reset, sendVars, buf, completions,
                 intx_mask, tlp_next_tag, epVars, given>>

-----------------------------------------------------------------------------
(* The library: sending.                                                   *)

(* The library runs, having received what this posedge brought.            *)
Running == todo = {"root"}

(* Go on at the next posedge; drive a beat and do so.                      *)
Clocked == todo' = todo \ {"root"}
Drive(t, i) == rx' = Beat(t, i) /\ sent' = i

(* Faulty variant: a TLP is sent at once, whatever is being sent.          *)
send_at_once(t, now) ==
  /\ out' = <<t>> \o (IF out = <<>> THEN out ELSE Tail(out))
  /\ Drive(t, 0) /\ todo' = now \ {"root"}

(* __pcie_tlp_send_tlp: send a TLP and all that is queued meanwhile, or    *)
(* leave it to the call that is already sending.                           *)
pcie_tlp_send_tlp(t, now) ==
  /\ out' = Append(out, t)
  /\ IF out = <<>> THEN Drive(t, 0) /\ todo' = now \ {"root"}
     ELSE UNCHANGED <<rx, sent>> /\ todo' = now

(* Faulty variant: the stream's ready is not looked at.                    *)
do_send_tlp_raw_blind ==
  /\ Running /\ out # <<>>
  /\ \/ /\ ~rx.last
        /\ Drive(Head(out), sent + 2) /\ Clocked /\ UNCHANGED out
     \/ /\ rx.last
        /\ out' = Tail(out)
        /\ IF out' # <<>> THEN Drive(Head(out'), 0) /\ Clocked
           ELSE rx' = None /\ sent' = 0 /\ UNCHANGED todo
  /\ UNCHANGED <<busVars, appVars, recvVars, tlp_next_tag, epVars, given>>

(* do_send_tlp_raw after its posedge, with the loop around it: the next    *)
(* beat, the next TLP of the queue, or the return of the outermost call.   *)
do_send_tlp_raw ==
  /\ Running /\ out # <<>>
  /\ \/ /\ ~rootSees.ready
        /\ Clocked /\ UNCHANGED sendVars
     \/ /\ rootSees.ready /\ ~rx.last
        /\ Drive(Head(out), sent + 2) /\ Clocked /\ UNCHANGED out
     \/ /\ rootSees.ready /\ rx.last
        /\ out' = Tail(out)
        /\ IF out' # <<>> THEN Drive(Head(out'), 0) /\ Clocked
           ELSE rx' = None /\ sent' = 0 /\ UNCHANGED todo
  /\ UNCHANGED <<busVars, appVars, recvVars, tlp_next_tag, epVars, given>>

-----------------------------------------------------------------------------
(* The library: receiving, first thing after a posedge.                    *)

Receiving == /\ "recv" \in todo /\ "endpoint" \notin todo
             /\ UNCHANGED <<busVars, appVars, tlp_next_tag, epVars, given>>
Received == todo \ {"recv"}

(* __pcie_tlp_recv_tlp with a beat that is not the last; without a beat it *)
(* has nothing to do.                                                      *)
pcie_tlp_recv_tlp ==
  /\ Receiving /\ todo' = Received
  /\ ~rootSees.tx.last
  /\ buf' = buf \o rootSees.tx.words
  /\ UNCHANGED <<sendVars, completions, intx_mask, handled>>

(* assert(bus->completions[tag] == 0)                                      *)
copy_tlp_to_completion(t) ==
  [completions EXCEPT ![t.tag] = IF @ = None THEN t ELSE Garbled]

(* Faulty variant: Deassert clears every interrupt but its own.            *)
process_INTx_others(t) ==
  IF t.kind = "Assert" THEN intx_mask \cup {t.tag} ELSE intx_mask \cap {t.tag}

process_INTx(t) == IF t.kind = "Assert" THEN intx_mask \cup {t.tag} ELSE intx_mask \ {t.tag}

(* Faulty variant: the buffer is erased only where no answer is sent.      *)
buffer_after_kept(words, t) == IF t.kind = "MRd" THEN buf \o words ELSE <<>>

(* The buffer is erased before the answer is sent: sending it receives.    *)
buffer_after(words, t) == <<>>

(* complete_recv_tlp, at the last beat: dispatch on the header.  A read is *)
(* answered with what the application's read_fun gives; a write is given   *)
(* to its write_fun.                                                       *)
complete_recv_tlp ==
  LET words == rootSees.tx.words
      t == (buf \o words)[1].of
  IN  /\ Receiving
      /\ rootSees.tx.last
      /\ handled' = Assembled(buf \o words)
      /\ buf' = buffer_after(words, t)
      /\ completions' = IF t.kind \in {"Cpl", "CplD"} THEN copy_tlp_to_completion(t)
                        ELSE completions
      /\ intx_mask' = IF t.kind \in {"Assert", "Deassert"} THEN process_INTx(t)
                      ELSE intx_mask
      /\ \/ t.kind = "MRd" /\ \E d \in RootData(t.n) : pcie_tlp_send_tlp(CplD(t.tag, d), Received)
         \/ t.kind # "MRd" /\ todo' = Received /\ UNCHANGED sendVars

-----------------------------------------------------------------------------
(* The library: the calls of the application.                              *)

(* The application has the bus: no call of it is in progress.              *)
Calling == /\ Running /\ at = "idle"
           /\ UNCHANGED <<busVars, recvVars, epVars, given>>

(* Faulty variant: every byte from off on is enabled.                      *)
ByteEnables_all(p) == {i \in AllBytes(p.n) : i >= p.off}

(* The enables of simbus_pcie_tlp_write.  With one word, the bytes up to   *)
(* len are and-ed with those from off.                                     *)
ByteEnables(p) ==
  LET olen == IF (p.off + p.len) % 4 = 0 THEN 4 ELSE (p.off + p.len) % 4
  IN  {i \in AllBytes(p.n) : i >= p.off /\ i < IF p.n = 1 THEN p.len
                                              ELSE 4 * (p.n - 1) + olen}

(* Faulty variant: the tag is not wrapped around.                          *)
pcie_tlp_choose_tag_on == tlp_next_tag' = tlp_next_tag + 1

(* Tags are used in turn, by the calls that wait for a completion.         *)
pcie_tlp_choose_tag == tlp_next_tag' = (tlp_next_tag + 1) % Tags

(* Send a request and wait for its completion.                             *)
Ask(t, op) ==
  /\ Calling /\ wasReset
  /\ pcie_tlp_send_tlp(t, todo)
  /\ pcie_tlp_choose_tag
  /\ call' = [op |-> op, tag |-> t.tag, addr |-> t.addr, n |-> t.n, data |-> t.data]
  /\ at' = "await"
  /\ UNCHANGED <<left, enable, wasReset, reset, result>>

simbus_pcie_tlp_read ==
  \E a \in Addr, n \in ReadSizes : Ask(MRd(tlp_next_tag, a, n), "read")

simbus_pcie_tlp_cfg_read32 ==
  \E a \in Low : Ask(CfgRd(tlp_next_tag, a), "read")

(* simbus_pcie_tlp_cfg_write32, 16 and 8: the bytes from addr%4 on.        *)
simbus_pcie_tlp_cfg_write ==
  \E a \in Low, d \in RootData(1), size \in CfgSizes : \E shift \in {0, 1, 2, 3} :
    /\ shift % size = 0
    /\ Ask(CfgWr(tlp_next_tag, a, d, shift..(shift + size - 1)), "write")

(* A memory write is posted.                                               *)
simbus_pcie_tlp_write ==
  /\ Calling /\ wasReset
  /\ \E a \in Addr, p \in Spans : \E d \in RootData(p.n) :
       /\ pcie_tlp_send_tlp(MWr(a, d, ByteEnables(p)), todo)
       /\ call' = [op |-> "post", addr |-> a, span |-> p]
  /\ at' = "write"
  /\ UNCHANGED <<left, enable, wasReset, reset, result, tlp_next_tag>>

(* With no clocks to wait for it only looks at the interrupts.             *)
simbus_pcie_tlp_wait ==
  /\ Calling
  /\ \E clks \in 1..MaxWait : left' = <<clks, 0>>
  /\ enable' \in SUBSET Intx
  /\ at' = "wait" /\ Clocked
  /\ UNCHANGED <<call, wasReset, reset, result, sendVars, tlp_next_tag>>

(* The application resets the bus before it uses it.                       *)
simbus_pcie_tlp_reset ==
  /\ Calling /\ ~wasReset
  /\ \E width \in 1..MaxWait, settle \in 0..MaxWait : left' = <<width, settle>>
  /\ reset' = TRUE /\ enable' = {}
  /\ at' = "reset" /\ Clocked
  /\ UNCHANGED <<call, wasReset, result, sendVars, tlp_next_tag>>

simbus_pcie_tlp_end_simulation ==
  /\ Calling
  /\ at' = "finished" /\ todo' = {}
  /\ UNCHANGED <<call, left, enable, wasReset, reset, result, sendVars, tlp_next_tag>>

(* Faulty variant: a call goes on although TLPs are still queued.          *)
Looping_early ==
  /\ Running
  /\ UNCHANGED <<busVars, sendVars, buf, intx_mask, handled, tlp_next_tag, epVars>>

(* The loops of the calls, after a posedge at which nothing is left to     *)
(* send.                                                                   *)
Looping == /\ Running /\ out = <<>>
           /\ UNCHANGED <<busVars, sendVars, buf, intx_mask, handled, tlp_next_tag, epVars>>

(* Back to the application, which goes on at this posedge.                 *)
Return == /\ at' = "idle" /\ call' = None /\ given' = None
          /\ UNCHANGED todo

(* Faulty variant: the completion is left where it is.                     *)
take_completion_not(tag) == completions

take_completion(tag) == [completions EXCEPT ![tag] = None]

(* A call that waits for a completion.  A read that is refused, or fails,  *)
(* reads as ones.                                                          *)
await_completion ==
  /\ Looping /\ at = "await"
  /\ \/ /\ completions[call.tag] = None
        /\ Clocked /\ UNCHANGED <<completions, at, call, result, given>>
     \/ /\ completions[call.tag] # None
        /\ result' = [data |-> IF call.op = "write" THEN call.data
                               ELSE IF completions[call.tag].kind = "CplD"
                               THEN completions[call.tag].data ELSE Ones(call.n)]
        /\ completions' = take_completion(call.tag)
        /\ Return
  /\ UNCHANGED <<left, enable, wasReset, reset>>

(* A write returns once it, and what was queued meanwhile, is sent.        *)
write_sent ==
  /\ Looping /\ at = "write"
  /\ Return /\ UNCHANGED <<completions, left, enable, wasReset, reset, result>>

(* A clock of a wait; its end, or an interrupt; the end of a reset.        *)
wait_clock ==
  /\ Looping
  /\ \/ /\ at \in {"wait", "reset"} /\ left[1] > 1 /\ enable \cap intx_mask = {}
        /\ left' = <<left[1] - 1, left[2]>>
        /\ Clocked /\ UNCHANGED <<at, call, given, enable, wasReset, reset>>
     \/ /\ at = "wait" /\ (left[1] = 1 \/ enable \cap intx_mask # {})
        /\ left' = <<0, 0>> /\ enable' = {}
        /\ Return /\ UNCHANGED <<wasReset, reset>>
     \/ /\ at = "reset" /\ left[1] = 1
        /\ reset' = FALSE /\ wasReset' = TRUE
        /\ left' = <<left[2], 0>>
        /\ IF left[2] > 0 THEN at' = "wait" /\ Clocked /\ UNCHANGED <<call, given>>
           ELSE Return
        /\ UNCHANGED enable
  /\ UNCHANGED <<completions, result>>

RootLibrary == \/ do_send_tlp_raw \/ pcie_tlp_recv_tlp \/ complete_recv_tlp
               \/ await_completion \/ write_sent \/ wait_clock
Application == \/ simbus_pcie_tlp_read \/ simbus_pcie_tlp_write
               \/ simbus_pcie_tlp_cfg_read32 \/ simbus_pcie_tlp_cfg_write
               \/ simbus_pcie_tlp_wait \/ simbus_pcie_tlp_reset
               \/ simbus_pcie_tlp_end_simulation

-----------------------------------------------------------------------------
(* The endpoint: the slot and the design in it.  What it sends is in one   *)
(* queue, in the order in which slot and design get the link.              *)

(* The completion of a configuration TLP, and what the design may answer   *)
(* to a read: data, or a refusal.                                          *)
Answers(t) ==
  CASE t.kind = "CfgRd" -> {<<CplD(t.tag, d)>> : d \in Data(t.n)}
    [] t.kind = "CfgWr" -> {<<Cpl(t.tag)>>}
    [] t.kind = "MRd"   -> {<<CplD(t.tag, d)>> : d \in Data(t.n)} \cup {<<Cpl(t.tag)>>}
    [] OTHER -> {<<>>}

(* What it may send unasked: the design's reads and writes of the root's   *)
(* memory, and the slot's messages of its interrupts' levels.  One that    *)
(* has to wait for cmp_data to be free is queued behind what is in it.     *)
Unasked ==
  IF own = OwnLimit THEN {}
  ELSE {MRd(t, a, 1) : t \in EpTags \ {r.tag : r \in epReads}, a \in EpAddr}
       \cup {MWr(a, d, AllBytes(1)) : a \in EpAddr, d \in RootData(1)}
       \cup {Msg("Assert", i) : i \in Intx \ level}
       \cup {Msg("Deassert", i) : i \in level}

IsConfig(t) == t.kind \in {"CfgRd", "CfgWr"}
IsMessage(t) == t.kind \in {"Assert", "Deassert"}

(* make_completion and interrupts_machine fill cmp_data.  An interrupt     *)
(* raised in the clock in which a configuration TLP is complete replaces   *)
(* its completion.                                                         *)
Overwrites(t, more) == IsConfig(t) /\ more # <<>> /\ IsMessage(more[1])

(* "Completion buffer overrun": a configuration TLP is complete while a    *)
(* message is in cmp_data, and the slot's simulation ends.  The end of its *)
(* connection ends the bus, and the call that waits does not look for it.  *)
CompletionOverrun ==
  /\ "endpoint" \in todo /\ epSees.rx # None /\ ready /\ epSees.rx.last
  /\ IsConfig(Assembled(epBuf \o epSees.rx.words))
  /\ \E i \in DOMAIN epQueue : IsMessage(epQueue[i])

(* What a request of the root got of the device, or that it is not the one *)
(* the application made.                                                   *)
Gave(t, answer) ==
  IF given # None \/ call = None \/ t.addr # call.addr \/ t.tag # call.tag THEN "wrong access"
  ELSE [data |-> CASE call.op = "write" -> t.data
                   [] answer.kind = "CplD" -> answer.data
                   [] OTHER -> Ones(call.n)]

endpoint ==
  LET taken == epSees.rx # None /\ ready
      words == IF taken THEN epBuf \o epSees.rx.words ELSE epBuf
      done  == taken /\ epSees.rx.last
      t     == IF done THEN Assembled(words) ELSE Garbled
      rest  == IF tx # None /\ tx.last THEN Tail(epQueue) ELSE epQueue
  IN  /\ "endpoint" \in todo /\ todo' = todo \ {"endpoint"}
      /\ wasReset /\ ~epSees.reset /\ ~CompletionOverrun
      /\ epBuf' = IF done THEN <<>> ELSE words
      /\ took' = IF done THEN t ELSE None
      /\ \E answer \in Answers(t), more \in {<<>>} \cup {<<u>> : u \in Unasked} :
           /\ answer = <<>> \/ more = <<>> \/ Overwrites(t, more)
           /\ epQueue' = rest \o (IF more = <<>> THEN answer ELSE more)
           /\ given' = IF answer = <<>> THEN given ELSE Gave(t, answer[1])
           /\ own' = own + Len(more)
           /\ epReads' = {r \in epReads : ~(t.kind = "CplD" /\ r.tag = t.tag)}
                         \cup {u \in {more[i] : i \in DOMAIN more} : u.kind = "MRd"}
           /\ level' = CASE more # <<>> /\ more[1].kind = "Assert" -> level \cup {more[1].tag}
                         [] more # <<>> /\ more[1].kind = "Deassert" -> level \ {more[1].tag}
                         [] OTHER -> level
      /\ epSent' = IF tx = None THEN epSent ELSE IF tx.last THEN 0 ELSE epSent + 2
      /\ tx' \in {None} \cup (IF epQueue' = <<>> THEN {} ELSE {Beat(Head(epQueue'), epSent')})
      /\ ready' \in BOOLEAN
      /\ UNCHANGED <<busVars, appVars, sendVars, recvVars, tlp_next_tag>>

(* In its first reset, and before it, it drives nothing.                   *)
endpoint_in_reset ==
  /\ "endpoint" \in todo /\ todo' = todo \ {"endpoint"}
  /\ ~wasReset \/ epSees.reset
  /\ UNCHANGED <<busVars, appVars, sendVars, recvVars, tlp_next_tag, epVars, given>>

-----------------------------------------------------------------------------
Stopped == (at = "finished" \/ CompletionOverrun) /\ UNCHANGED vars

Next == run_run \/ RootLibrary \/ Application \/ endpoint \/ endpoint_in_reset \/ Stopped

Spec == Init /\ [][Next]_vars

(* Server and library run, and the endpoint neither stops taking beats nor *)
(* stops sending; what the application calls is left open.                 *)
FairSpec ==
  /\ Spec
  /\ WF_vars(run_run) /\ WF_vars(RootLibrary) /\ WF_vars(endpoint_in_reset)
  /\ WF_vars(endpoint)
  /\ SF_vars(endpoint /\ ready' /\ (epQueue' # <<>> => tx' # None))

-----------------------------------------------------------------------------
(* Properties                                                              *)

AnyData == UNION {[1..n -> Value \cup RootValue] : n \in {0} \cup ReadSizes \cup {p.n : p \in Spans} \cup {1}}
TlpSet ==
  [kind : {"CfgRd", "CfgWr", "MRd", "MWr", "Cpl", "CplD", "Assert", "Deassert"},
   tag : Nat, addr : Addr \cup {None}, n : Nat, data : AnyData, be : SUBSET Nat]

(* Types of the library's and the endpoint's state.                        *)
TypeOK ==
  /\ todo \subseteq {"endpoint", "recv", "root"}
  /\ at \in {"idle", "await", "write", "wait", "reset", "finished"}
  /\ left \in (0..MaxWait) \X (0..MaxWait) /\ enable \subseteq Intx
  /\ wasReset \in BOOLEAN /\ reset \in BOOLEAN
  /\ out \in Seq(TlpSet) /\ epQueue \in Seq(TlpSet)
  /\ sent \in Nat /\ epSent \in Nat
  /\ completions \in [0..(Tags - 1) -> TlpSet \cup {None, Garbled}]
  /\ tlp_next_tag \in 0..(Tags - 1) /\ intx_mask \subseteq Intx /\ level \subseteq Intx
  /\ ready \in BOOLEAN /\ own \in 0..OwnLimit
  /\ epReads \subseteq TlpSet

(* What is on its way, down and up, at any moment of a posedge: the        *)
(* endpoint acts first, and what it has taken the library has yet to drop, *)
(* what it has dropped the library has yet to take.                        *)
Down == IF "endpoint" \notin todo /\ "root" \in todo
           /\ rx # None /\ rx.last /\ rootSees.ready
        THEN Tail(out) ELSE out
Up == IF "endpoint" \notin todo /\ "recv" \in todo /\ rootSees.tx.last
      THEN <<rootSees.tx.words[1].of>> \o epQueue ELSE epQueue

(* simbus_pcie_tlp_tlp.c, "If we are recursing, then just push the TLP     *)
(* onto the end of a work queue": the TLPs of calls and of answers reach   *)
(* the endpoint whole, once and in the order they were handed over.        *)
DownLink == INSTANCE Fifo WITH Item <- TlpSet, queue <- Down, taken <- took
DownInOrder == DownLink!Spec

(* simbus_pcie_tlp_tlp.c, "Now erase the buffer and make ready to receive  *)
(* more TLPs": the library handles the endpoint's TLPs whole, once and in  *)
(* order, those included that arrive while it is sending an answer.        *)
UpLink == INSTANCE Fifo WITH Item <- TlpSet, queue <- Up, taken <- handled
UpInOrder == UpLink!Spec

(* simbus_pcie_tlp_priv.h, "A requestor expecting a completion can wait it *)
(* to show up here": a call that waits makes one access of the device and  *)
(* returns what that access gave.                                          *)
Request == [op : {"read", "write"}, tag : Nat, addr : Addr, n : Nat, data : AnyData]
Answer == [data : AnyData \cup {Ones(n) : n \in ReadSizes \cup {1}}]
Abstract == INSTANCE RemoteAccess WITH
              call <- IF at = "await" THEN call ELSE None, access <- given
OneAccessPerCall == Abstract!Spec

AnyBeat == [words : Seq([of : TlpSet, word : Nat]), last : BOOLEAN]

ASSUME NoneApart == None \notin TlpSet \cup {Garbled} \cup AnyBeat \cup Request \cup Answer

(* simbus_pcie_tlp.c, choose_tag: a slot holds a completion only while its *)
(* own call waits for it, so a tag is free when its turn comes again.      *)
OwnCompletion ==
  \A tag \in DOMAIN completions : completions[tag] # None =>
    at = "await" /\ call.tag = tag /\ completions[tag] # Garbled

(* complete_recv_tlp: a read of the endpoint is on its way up, or its one  *)
(* answer is on its way down; and every answer has a read.                 *)
DmaAnsweredOnce ==
  LET Asks(r) == {i \in DOMAIN Up : Up[i] = r}
      IsAnswer(t) == t.kind = "CplD"
      Answering(r) == {i \in DOMAIN Down : IsAnswer(Down[i]) /\ Down[i].tag = r.tag
                                           /\ Down[i].n = r.n}
  IN  /\ \A r \in epReads : Cardinality(Asks(r)) + Cardinality(Answering(r)) = 1
      /\ \A i \in DOMAIN Down : IsAnswer(Down[i]) =>
           \E r \in epReads : i \in Answering(r)

(* __pcie_tlp_send_tlp, "The root call will notice it and process it when  *)
(* it is done": no read that the library has received waits for its answer *)
(* while the application has control and may never clock the bus again.    *)
AnsweredBeforeReturn ==
  at = "idle" => \A r \in epReads : \E i \in DOMAIN Up : Up[i] = r

(* process_Assert_INTx and process_Deassert_INTx: the mask shows the       *)
(* endpoint's interrupts as of the messages that have arrived.             *)
IntxFollows ==
  \A x \in Intx :
    LET about == {i \in DOMAIN Up : Up[i].kind \in {"Assert", "Deassert"} /\ Up[i].tag = x}
        last  == CHOOSE i \in about : \A j \in about : j <= i
    IN  x \in level <=> IF about = {} THEN x \in intx_mask ELSE Up[last].kind = "Assert"

(* simbus_pcie_tlp.h, "The off/len will be used to configure the first and *)
(* last byte enables": a write enables the caller's bytes and no others.   *)
BytesEnabled ==
  at = "write" => \A i \in DOMAIN out : out[i].kind = "MWr" =>
    out[i].be = call.span.off..(call.span.off + call.span.len - 1)

(* A configuration TLP and an interrupt's message are not under way at the *)
(* same time.                                                              *)
InterruptsApart == (\E i \in DOMAIN out : IsConfig(out[i]))
                     => \A i \in DOMAIN epQueue : ~IsMessage(epQueue[i])

(* A call returns, whatever reads of the endpoint have to be answered      *)
(* meanwhile (simbus_pcie_tlp_tlp.c, "the processing may generate new TLPs *)
(* on the output queue").  The slot loses a completion to an interrupt, or *)
(* stops, so this is said of the runs in which the application configures  *)
(* the device while it raises none, as example_root.c does.                *)
CallReturns ==
  []InterruptsApart => (at \in {"await", "write", "wait", "reset"} ~> at = "idle")

(* The same without that condition, which the slot does not keep.          *)
AlwaysReturns == at \in {"await", "write", "wait", "reset"} ~> at = "idle"

-----------------------------------------------------------------------------
(* An inductive invariant                                                  *)

(* How many TLPs of a kind are in a queue: none, or one.                   *)
Zero(q, kind) == \A i \in DOMAIN q : q[i] \notin kind
One(q, kind) == \E i \in DOMAIN q : q[i] \in kind /\ \A j \in DOMAIN q : q[j] \in kind => j = i

(* The clock: the endpoint acts, what it sent is received, the root acts;  *)
(* before the reset there is nothing to send.                              *)
Clocks ==
  /\ todo \in {{}, {"root"}, {"recv", "root"}, {"endpoint", "root"}, {"endpoint", "recv", "root"}}
  /\ "endpoint" \in todo =>
       /\ rootSees = [tx |-> tx, ready |-> ready] /\ epSees = [reset |-> reset, rx |-> rx]
       /\ "recv" \in todo <=> tx # None
  /\ wasReset => ~reset
  /\ ~wasReset => out = <<>> /\ epQueue = <<>> /\ tx = None /\ "recv" \notin todo
  /\ at = "idle" => todo = {"root"} /\ out = <<>>
  /\ at = "finished" => todo = {}

(* The words of a TLP that have been passed on when i have been sent.      *)
First(t, i) == SubSeq(Words(t), 1, i)
Passed(q, i) == IF q = <<>> THEN <<>> ELSE First(Head(q), i)
Sending(q, i) == IF q = <<>> THEN i = 0 ELSE i < Length(Head(q))

(* The root drives a beat of the first TLP; the endpoint has what came     *)
(* before it, and the beat too once it has taken it.                       *)
TakenByEp == "endpoint" \notin todo /\ "root" \in todo /\ rx # None /\ rootSees.ready
DownStream ==
  /\ Sending(out, sent)
  /\ rx = IF out = <<>> THEN None ELSE Beat(Head(out), sent)
  /\ epBuf = IF ~TakenByEp THEN Passed(out, sent)
             ELSE IF rx.last THEN <<>> ELSE First(Head(out), sent + 2)

(* The endpoint likewise; the library has what it sent but for the beat    *)
(* that it has yet to receive.                                             *)
EpTlp == {t \in TlpSet : t.kind \in {"Assert", "Deassert"} => t.tag \in Intx}
Arriving(t, i) ==
  /\ t \in EpTlp /\ i \in Nat /\ i < Length(t)
  /\ rootSees.tx = Beat(t, i) /\ buf = First(t, i)
  /\ IF rootSees.tx.last THEN epSent = 0
     ELSE epQueue # <<>> /\ Head(epQueue) = t /\ epSent = i + 2
UpStream ==
  /\ epQueue \in Seq(EpTlp)
  /\ Sending(epQueue, epSent)
  /\ tx # None => epQueue # <<>> /\ tx = Beat(Head(epQueue), epSent)
  /\ IF "endpoint" \notin todo /\ "recv" \in todo
     THEN Arriving(rootSees.tx.words[1].of, rootSees.tx.words[1].word - 1)
     ELSE buf = Passed(epQueue, epSent)

(* The call in progress: its request is on the way, or its answer is, or   *)
(* its completion has arrived, or the slot has lost it.  c is the call, g  *)
(* what it has been given, d and u what is under way, comps the            *)
(* completions.                                                            *)
Req  == {t \in TlpSet : t.kind \in {"MRd", "CfgRd", "CfgWr"}}
Comp == {t \in TlpSet : t.kind \in {"Cpl", "CplD"}}
Asked(c) == {t \in Req : /\ t.addr = c.addr /\ t.tag = c.tag /\ t.n = c.n /\ t.data = c.data
                         /\ t.kind = "CfgWr" <=> c.op = "write"}
GivenBy(c, t) ==
  [data |-> IF c.op = "write" THEN c.data
            ELSE IF t.kind = "CplD" THEN t.data ELSE Ones(c.n)]
Answering(c, g) == {t \in Comp : t.tag = c.tag /\ g = GivenBy(c, t)}
Holding(comps, tag, t) == comps = [x \in 0..(Tags - 1) |-> IF x = tag THEN t ELSE None]

Asking(c, g, d, u, comps) ==
  /\ g = None /\ One(d, Req) /\ Zero(d, Req \ Asked(c)) /\ Zero(u, Comp)
  /\ Holding(comps, c.tag, None)
Replying(c, g, d, u, comps) ==
  /\ g \in Answer /\ Zero(d, Req) /\ One(u, Comp) /\ Zero(u, Comp \ Answering(c, g))
  /\ Holding(comps, c.tag, None)
Replied(c, g, d, u, comps) ==
  /\ g \in Answer /\ Zero(d, Req) /\ Zero(u, Comp)
  /\ comps[c.tag] \in Answering(c, g) /\ Holding(comps, c.tag, comps[c.tag])
Lost(c, g, d, u, comps) ==
  /\ g \in Answer /\ Zero(d, Req) /\ Zero(u, Comp)
  /\ Holding(comps, c.tag, None)
Pending(where, c, g, d, u, comps) ==
  IF where = "await"
  THEN /\ c \in Request /\ c.tag \in 0..(Tags - 1) /\ c.n \in ReadSizes \cup {1}
       /\ \/ Asking(c, g, d, u, comps) \/ Replying(c, g, d, u, comps)
          \/ Replied(c, g, d, u, comps) \/ Lost(c, g, d, u, comps)
  ELSE g = None /\ Zero(d, Req) /\ Zero(u, Comp) /\ Holding(comps, 0, None)

(* The reads of the endpoint: one with a tag, and either it or its answer  *)
(* is on the way.                                                          *)
Reads   == {t \in TlpSet : t.kind = "MRd"}
CplDs   == {t \in TlpSet : t.kind = "CplD"}
For(r)  == {t \in CplDs : t.tag = r.tag /\ t.n = r.n}
Orphans(reads) == {t \in CplDs : \A r \in reads : t \notin For(r)}
Dma(reads, d, u) ==
  /\ reads \subseteq {t \in Reads : t.n = 1}
  /\ \A r, q \in reads : r.tag = q.tag => r = q
  /\ \A r \in reads : \/ One(u, {r}) /\ Zero(d, For(r))
                      \/ Zero(u, {r}) /\ One(d, For(r))
  /\ Zero(u, Reads \ reads) /\ Zero(d, Orphans(reads))

(* The level of an interrupt is that of its last message under way.        *)
About(x) == {t \in TlpSet : t.kind \in {"Assert", "Deassert"} /\ t.tag = x}
Follows(x, lv, mask, u) ==
  \/ Zero(u, About(x)) /\ (x \in lv <=> x \in mask)
  \/ \E i \in DOMAIN u : /\ u[i] \in About(x) /\ (x \in lv <=> u[i].kind = "Assert")
                         /\ \A j \in DOMAIN u : u[j] \in About(x) => j <= i

(* A write that is on its way is the call's.                               *)
Enables ==
  at = "write" =>
    /\ call.span \in Spans
    /\ \A i \in DOMAIN out : out[i].kind = "MWr" => out[i].be = ByteEnables(call.span)

Protocol ==
  /\ Pending(at, call, given, Down, Up, completions)
  /\ Dma(epReads, Down, Up)
  /\ \A x \in Intx : Follows(x, level, intx_mask, Up)

Inv == TypeOK /\ Clocks /\ DownStream /\ UpStream /\ Protocol /\ Enables
=============================================================================
