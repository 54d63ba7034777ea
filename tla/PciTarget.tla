------------------------------ MODULE PciTarget ------------------------------
(***************************************************************************)
(* Transactions of a conventional PCI bus: a master and a target that both *)
(* use libsimbus (simbus_pci.c, simbus_pci_rw32.c, _rw64.c, _config.c on   *)
(* one side, simbus_pci_target.c on the other).                            *)
(*                                                                         *)
(* Who gets the bus is the matter of PciBus; here the master has its grant *)
(* after some clocks, or at once where the bus is parked on it.  Outputs   *)
(* change after a posedge and are seen at the next one, so the two sides   *)
(* are coupled through the server's lines only.                            *)
(*                                                                         *)
(* A word has two byte lanes.  An address is a page (a region of the       *)
(* target above or below 4G, its configuration space, or nobody's) and a   *)
(* word of it.                                                             *)
(***************************************************************************)
EXTENDS Integers, Sequences, FiniteSets

CONSTANTS
  Calls,          \* what the application asks for
  Words,          \* words in the memory; the next one is the configuration's
  Grants,         \* clocks that a request for the bus may take; 0: parked
  Regrants,       \* the same for the request that follows a retry
  Retries,        \* "read", "write": SIMBUS_XLATE_RANDOM_RETRY_READ, _WRITE is set
  None

Cell == 0..Words
Lane == {1, 2}
Value == {0, 1}
Both(v) == [l \in Lane |-> v]

ASSUME PciTargetConstantsOK ==
  /\ Words \in Nat /\ Grants \cup Regrants \subseteq Nat /\ Retries \subseteq {"read", "write"}
  /\ Calls \subseteq [op : {"read", "write"}, page : {"low", "high", "config", "none"},
                      word : 0..Words, n : Nat \ {0}, data : Seq(Value),
                      be : Seq(SUBSET Lane), flag64 : BOOLEAN]
  /\ \A c \in Calls : /\ Len(c.be) = c.n
                      /\ c.op = "write" => Len(c.data) = c.n
                      /\ (c.page = "config") = (c.word = Words)

VARIABLES
  turn,           \* the master has not yet reacted to this posedge
  line,           \* what the target has driven up to this posedge
  at, left,       \* where the master is in the library, and clocks left there
  call, got,      \* the call in progress, the words it has moved
  m,              \* what the master drives: AD an address or data, C/BE# likewise
  target_state,   \* TARG_IDLE, TARG_DAC, TARG_BUS_BUSY
  in,             \* where in a handler the target is, or None
  addr, dac_addr_lo,
  t,              \* what the target drives
  mem,            \* the words behind the target's callbacks
  asked,          \* the words as the calls should have left them
  result          \* what the last call returned

masterVars == <<at, left, call, got, m, asked, result>>
targetVars == <<target_state, in, addr, dac_addr_lo, t, mem>>
vars == <<turn, line, masterVars, targetVars>>

Undriven == [frame |-> "Z", irdy |-> "Z", addr |-> None, data |-> None, cmd |-> None,
             be |-> {}]
Released == [devsel |-> "Z", trdy |-> "Z", stop |-> "Z", ad |-> None]

(* init_simbus_pci on both sides.                                          *)
Init ==
  /\ turn = TRUE /\ line = Released
  /\ at = "idle" /\ left = 0 /\ call = None /\ got = <<>> /\ m = Undriven
  /\ target_state = "IDLE" /\ in = None /\ addr = 0 /\ dac_addr_lo = 0 /\ t = Released
  /\ mem = [c \in Cell |-> Both(0)] /\ asked = [c \in Cell |-> Both(0)]
  /\ result = None

(* A word written under byte enables.                                      *)
Merge(old, v, be) == [l \in Lane |-> IF l \in be THEN v ELSE old[l]]

-----------------------------------------------------------------------------
(* The target, at a posedge.                                               *)

(* Faulty variant: a burst stays on its first word.                        *)
next_addr_same(a) == a

next_addr(a) == a + 1

Address(page, word) == [page |-> page, word |-> word]

ASSUME NoneApart ==
  /\ None \notin {"turn", "config_turn", "read", "config_read", "write", "config_write",
                  "retry", "retried", "release", "settle"}
  /\ \A c \in Calls : None # Address(c.page, c.word)

(* get_addr: after a DAC the AD lines carry the upper half only.  Data is  *)
(* the address of nobody.                                                  *)
get_addr == IF target_state = "DAC" /\ m.addr # None THEN Address(m.addr.page, dac_addr_lo) ELSE m.addr

(* match_mem_target, get_idsel.                                            *)
match_mem_target(a) == a # None /\ a.page \in {"low", "high"}
get_idsel(a) == a # None /\ a.page = "config"

(* need32 and recv32 of the application.                                   *)
need32(a) == IF a \in Cell THEN mem[a] ELSE Both(1)
recv32(a, v, be) == mem' = IF a \in Cell THEN [mem EXCEPT ![a] = Merge(@, v, be)] ELSE mem

Claim(trdy, stop, ad) == t' = [devsel |-> "0", trdy |-> trdy, stop |-> stop, ad |-> ad]
Deassert == t' = [devsel |-> "1", trdy |-> "1", stop |-> "1", ad |-> None]

(* Faulty variant: no turnaround cycle of the AD lines.                    *)
do_target_memory_read_fast(word) ==
  Claim("0", "1", need32(word)) /\ in' = "read" /\ UNCHANGED mem

(* DEVSEL# without TRDY#, for the AD lines to turn around.                 *)
do_target_memory_read(word) ==
  Claim("1", "1", None) /\ in' = "turn" /\ UNCHANGED mem

do_target_memory_rw_retry == Claim("1", "0", None) /\ in' = "retry" /\ UNCHANGED mem
do_target_memory_write    == Claim("0", "1", None) /\ in' = "write" /\ UNCHANGED mem
do_target_config_read     == Claim("1", "1", None) /\ in' = "config_turn" /\ UNCHANGED mem
do_target_config_write    == Claim("0", "1", None) /\ in' = "config_write" /\ UNCHANGED mem

(* A command that is for the target.  After a DAC there are none for the   *)
(* configuration.                                                          *)
Mine == CASE m.cmd = "DAC" -> FALSE
          [] m.cmd \in {"config_read", "config_write"} ->
               get_idsel(get_addr) /\ target_state = "IDLE"
          [] OTHER -> match_mem_target(get_addr)

(* The target takes a command, or chooses to retry it.                     *)
Decode(retry) ==
  /\ target_state # "BUS_BUSY" /\ m.frame = "0" /\ Mine
  /\ retry => m.cmd \in Retries
  /\ addr' = get_addr.word
  /\ \/ retry /\ do_target_memory_rw_retry
     \/ /\ ~retry
        /\ CASE m.cmd = "read"         -> do_target_memory_read(get_addr.word)
             [] m.cmd = "write"        -> do_target_memory_write
             [] m.cmd = "config_read"  -> do_target_config_read
             [] m.cmd = "config_write" -> do_target_config_write
  /\ UNCHANGED <<target_state, dac_addr_lo>>

(* The rest of __pci_target_state_machine: the first half of an address, a *)
(* command for someone else, the end of one, and nothing to do.            *)
Watch ==
  LET first == target_state = "IDLE" /\ m.cmd = "DAC"
      over  == \/ target_state = "BUS_BUSY" /\ m.frame = "1"
               \/ target_state = "DAC" /\ m.frame # "0"
      other == target_state # "BUS_BUSY" /\ m.frame = "0" /\ ~Mine
  IN  /\ CASE other /\ first  -> target_state' = "DAC" /\ dac_addr_lo' = m.addr.word
           [] other /\ ~first -> target_state' = "BUS_BUSY" /\ UNCHANGED dac_addr_lo
           [] over            -> target_state' = "IDLE" /\ UNCHANGED dac_addr_lo
           [] OTHER           -> UNCHANGED <<target_state, dac_addr_lo>>
      /\ target_state # "BUS_BUSY" /\ m.frame = "0" => ~Mine
      /\ UNCHANGED <<in, addr, t, mem>>

state_machine(retry) ==
  /\ in = None
  /\ Decode(retry) \/ (Watch /\ ~retry)

(* The clocks of the handlers.                                             *)
Drive(a) == t' = [t EXCEPT !.trdy = "0", !.ad = need32(a)]

read_cycle ==
  \/ /\ in \in {"turn", "config_turn"}
     /\ Drive(addr) /\ in' = (IF in = "turn" THEN "read" ELSE "config_read")
     /\ UNCHANGED addr
  \/ /\ in \in {"read", "config_read"} /\ m.irdy = "1"
     /\ UNCHANGED <<t, in, addr>>
  \/ /\ in \in {"read", "config_read"} /\ m.irdy # "1"
     /\ addr' = next_addr(addr)
     /\ IF in = "read" /\ m.frame = "0" THEN Drive(addr') /\ UNCHANGED in
        ELSE Deassert /\ in' = "release"

write_cycle ==
  /\ in \in {"write", "config_write"}
  /\ \/ /\ m.irdy = "1"
        /\ UNCHANGED <<t, in, addr, mem>>
     \/ /\ m.irdy # "1"
        /\ recv32(addr, m.data, m.be)
        /\ addr' = next_addr(addr)
        /\ CASE in = "write" /\ m.frame = "0" -> UNCHANGED <<t, in>>
             [] in = "write" /\ m.frame # "0" -> t' = Released /\ in' = "settle"
             [] in = "config_write"           -> Deassert /\ in' = "release"

retry_cycle ==
  \/ in = "retry" /\ t' = [t EXCEPT !.stop = "1"] /\ in' = "retried"
  \/ in = "retried" /\ t' = Released /\ in' = "settle"

(* The handler returns; FRAME# is next looked at one posedge later.        *)
handler_return ==
  /\ in \in {"release", "settle"}
  /\ t' = Released /\ in' = None /\ target_state' = "IDLE" /\ addr' = 0

handler ==
  /\ \/ read_cycle /\ UNCHANGED <<target_state, mem>>
     \/ write_cycle /\ UNCHANGED target_state
     \/ retry_cycle /\ UNCHANGED <<target_state, addr, mem>>
     \/ handler_return /\ UNCHANGED mem
  /\ UNCHANGED dac_addr_lo

(* A posedge: what was driven is seen.                                     *)
Clock(retry) ==
  /\ ~turn /\ turn' = TRUE
  /\ line' = t
  /\ state_machine(retry) \/ (handler /\ ~retry)
  /\ UNCHANGED masterVars

-----------------------------------------------------------------------------
(* The master.                                                             *)

(* Within this posedge, and until the next one.                            *)
Master(where) == turn /\ at = where /\ UNCHANGED <<line, targetVars>>
GoOn == UNCHANGED turn
NextPosedge == turn' = FALSE

Claimed(c) == c.page # "none"
Effect(c, cells) == [a \in Cell |-> IF a - c.word \in 0..(c.n - 1)
                                    THEN Merge(cells[a], c.data[a - c.word + 1], c.be[a - c.word + 1])
                                    ELSE cells[a]]

(* The application does something else.                                     *)
Idle ==
  /\ Master("idle") /\ NextPosedge
  /\ call' = None /\ got' = <<>> /\ result' = None
  /\ UNCHANGED <<at, left, m, asked>>

(* simbus_pci_read32, _write32, _write32b, _read64, _write64,              *)
(* _config_read, _config_write.                                            *)
Call ==
  /\ Master("idle") /\ GoOn
  /\ call' \in Calls
  /\ asked' = IF call'.op = "write" /\ Claimed(call') THEN Effect(call', asked) ELSE asked
  /\ at' = "request" /\ left' \in Grants /\ got' = <<>> /\ result' = None
  /\ UNCHANGED m

Command(c) == CASE c.page = "config" /\ c.op = "read"  -> "config_read"
                [] c.page = "config" /\ c.op = "write" -> "config_write"
                [] OTHER -> c.op

pci_request_bus ==
  /\ Master("request") /\ left > 0 /\ NextPosedge
  /\ left' = left - 1
  /\ UNCHANGED <<at, call, got, m, asked, result>>

(* The address, of which the lower half goes first where it is a long one. *)
address_command ==
  LET long == call.page = "high"
  IN  /\ Master("request") /\ left = 0 /\ NextPosedge
      /\ m' = [frame |-> "0", irdy |-> "1", addr |-> Address(call.page, call.word),
               data |-> None, cmd |-> IF long THEN "DAC" ELSE Command(call), be |-> {}]
      /\ at' = IF long THEN "dac" ELSE "address"
      /\ UNCHANGED <<left, call, got, asked, result>>

dac ==
  /\ Master("dac") /\ NextPosedge
  /\ m' = [m EXCEPT !.cmd = Command(call)]
  /\ at' = "address"
  /\ UNCHANGED <<left, call, got, asked, result>>

(* Faulty variant: all words have the byte enables of the first.           *)
BEn_first(i) == call.be[1]

BEn(i) == call.be[i]

(* The data of a word, or none of it for a read.                           *)
Drives(i, last) ==
  m' = [frame |-> IF last THEN "1" ELSE "0", irdy |-> "0",
        addr |-> None, data |-> IF call.op = "write" THEN call.data[i] ELSE None,
        cmd |-> None, be |-> BEn(i)]

(* IRDY#.  A read of 64 bits looks for DEVSEL# within the same posedge.    *)
setup ==
  /\ Master("address")
  /\ IF call.op = "read" /\ call.flag64 THEN GoOn ELSE NextPosedge
  /\ Drives(1, ~call.flag64 /\ call.n = 1)
  /\ at' = "devsel" /\ left' = 3
  /\ UNCHANGED <<call, got, asked, result>>

gives_up(n) == n = 0

wait_for_devsel ==
  /\ Master("devsel")
  /\ \/ /\ line.devsel = "0"
        /\ at' = "trdy" /\ GoOn
        /\ UNCHANGED <<left, m, result>>
     \/ /\ line.devsel # "0" /\ ~gives_up(left)
        /\ left' = left - 1 /\ NextPosedge
        /\ UNCHANGED <<at, m, result>>
     \/ /\ line.devsel # "0" /\ gives_up(left)
        /\ m' = Undriven /\ result' = "abort" /\ UNCHANGED left
        /\ at' = "settle"
        /\ IF call.op = "read" /\ ~call.flag64 THEN NextPosedge ELSE GoOn
  /\ UNCHANGED <<call, got, asked>>

(* Faulty variant: the data is taken with DEVSEL#.                         *)
ready_early == TRUE

ready == line.trdy = "0"

(* A word has been moved: the next one, or the end.                        *)
word_done ==
  LET i == Len(got) + 2
  IN  /\ Master("trdy") /\ ready /\ NextPosedge
      /\ got' = Append(got, line.ad)
      /\ \/ i <= call.n /\ Drives(i, i = call.n) /\ UNCHANGED <<at, result>>
         \/ i > call.n /\ m' = Undriven /\ at' = "settle" /\ result' = "ok"
      /\ UNCHANGED <<left, call, asked>>

(* Faulty variant: a read does not look at STOP# either.                   *)
stopped_ignored == FALSE

(* Only reads look at STOP#.                                               *)
stopped == call.op = "read" /\ line.stop = "0"

(* __wait_for_read, or the loop of a write.                                *)
wait_for_trdy ==
  /\ Master("trdy") /\ ~ready /\ NextPosedge
  /\ \/ /\ stopped
        /\ m' = Undriven /\ at' = "retry"
     \/ /\ ~stopped
        /\ UNCHANGED <<m, at>>
  /\ UNCHANGED <<left, call, got, asked, result>>

(* GPCI_TARGET_RETRY: ask for the bus again.                               *)
retry_read ==
  /\ Master("retry") /\ GoOn
  /\ at' = "request" /\ left' \in Regrants
  /\ UNCHANGED <<call, got, m, asked, result>>

Return ==
  /\ Master("settle") /\ GoOn
  /\ at' = "idle" /\ left' = 0
  /\ UNCHANGED <<call, got, m, asked, result>>

MasterStep == \/ pci_request_bus \/ address_command \/ dac \/ setup \/ wait_for_devsel
              \/ word_done \/ wait_for_trdy \/ retry_read \/ Return

Next == Idle \/ Call \/ MasterStep \/ \E retry \in BOOLEAN : Clock(retry)

Spec == Init /\ [][Next]_vars

(* Retries are drawn at random, so one after the other they do not go on   *)
(* for ever; nothing else holds up the clock or the library.               *)
FairSpec == /\ Spec
            /\ WF_vars(MasterStep) /\ WF_vars(Idle \/ Call)
            /\ WF_vars(\E retry \in BOOLEAN : Clock(retry))
            /\ SF_vars(Clock(FALSE) /\ Decode(FALSE))

-----------------------------------------------------------------------------
(* Properties                                                              *)

(* simbus_pci.h on write32, write32b and write64: when the master is back  *)
(* the target's words are what all calls so far asked for, each under its  *)
(* byte enables.                                                           *)
WrittenAsAsked == at = "idle" => mem = asked

(* simbus_pci.h, "The return value is the result of the read", and         *)
(* simbus_pci_rw32.c, "Automatically retry until the target responds with  *)
(* something other then retry": a call to the target succeeds, and a read  *)
(* returns the words that are there.                                       *)
Answered ==
  at = "idle" /\ call # None =>
    IF Claimed(call)
    THEN /\ result = "ok"
         /\ call.op = "read" => \A i \in 1..call.n : got[i] = asked[call.word + i - 1]
    ELSE result = "abort"

(* do_target_memory_read, "to insert a turnaround cycle for the AD bus":   *)
(* the AD lines never pass from one driver to the other without a clock on *)
(* which neither drives them.                                              *)
Turnaround ==
  [][/\ m.addr # None \/ m.data # None => t'.ad = None
     /\ t.ad # None => m'.addr = None /\ m'.data = None]_vars

(* Every call returns, however often a read is retried.                    *)
CallReturns == at = "request" ~> at = "idle"

-----------------------------------------------------------------------------
(* An inductive invariant                                                  *)

(* The use that the target serves.  The configuration cycles are of one    *)
(* word and the 64-bit accesses of two; reads stay within the memory; a    *)
(* burst that nobody claims leaves the target busy (PciBusBusy.cfg),       *)
(* writes are not retried (PciRetryWrite.cfg) and a master that is retried *)
(* does not have the bus back at once (PciRetry.cfg).                      *)
ServedUse ==
  /\ Retries \subseteq {"read"} /\ 0 \notin Regrants
  /\ \A c \in Calls : /\ c.page \in {"config", "none"} => c.n = 1 /\ ~c.flag64
                      /\ c.flag64 => c.n > 1
                      /\ c.op = "read" => c.word + c.n - 1 \in Cell

(* What the master drives for an address, and for word i.                  *)
Addressed(cmd) == [frame |-> "0", irdy |-> "1", addr |-> Address(call.page, call.word),
                   data |-> None, cmd |-> cmd, be |-> {}]
Offered(i) == [frame |-> IF i = call.n THEN "1" ELSE "0", irdy |-> "0", addr |-> None,
               data |-> IF call.op = "write" THEN call.data[i] ELSE None, cmd |-> None,
               be |-> call.be[i]]

(* What the target drives while it has the transaction, and after it.      *)
Claims(trdy, stop, ad) == [devsel |-> "0", trdy |-> trdy, stop |-> stop, ad |-> ad]
Deasserted == [devsel |-> "1", trdy |-> "1", stop |-> "1", ad |-> None]

(* Where the target is: at rest, at an address, retrying, at word i that   *)
(* the next posedge moves, or behind the last one.                         *)
Listens(state) == in = None /\ t = Released /\ target_state = state
Quiet == Listens("IDLE")
Settling == in = "settle" /\ t = Released
Selected == IF call.page = "high" THEN Listens("DAC") /\ dac_addr_lo = call.word ELSE Quiet
Turning == /\ call.op = "read" /\ addr = call.word /\ t = Claims("1", "1", None)
           /\ in = IF call.page = "config" THEN "config_turn" ELSE "turn"
Retrying == call.op = "read" /\ in = "retry" /\ t = Claims("1", "0", None)
Retried == call.op = "read" /\ in = "retried" /\ t = Claims("1", "1", None)
Serves(i) ==
  /\ addr = call.word + i - 1
  /\ IF call.op = "read"
     THEN /\ t = Claims("0", "1", asked[addr])
          /\ in = IF call.page = "config" THEN "config_read" ELSE "read"
     ELSE /\ t = Claims("0", "1", None)
          /\ in = IF call.page = "config" THEN "config_write" ELSE "write"
Ends == in \in {"release", "settle"} /\ t \in {Deasserted, Released}
Decoded ==
  IF Claimed(call) THEN Turning \/ Retrying \/ (call.op = "write" /\ Serves(1))
  ELSE Listens("BUS_BUSY")

(* The words behind the target, when those from word i on are to come.     *)
ToCome(i) ==
  asked = [a \in Cell |-> IF /\ call.op = "write" /\ Claimed(call)
                             /\ a - call.word \in (i - 1)..(call.n - 1)
                          THEN Merge(mem[a], call.data[a - call.word + 1], call.be[a - call.word + 1])
                          ELSE mem[a]]

(* What the posedge has shown the master of word i: a retry, that it is to *)
(* come, or the word itself, which has then been moved.                    *)
Shown(i) ==
  \/ i = 1 /\ line = Claims("1", "0", None) /\ Retried /\ ToCome(1)
  \/ i = 1 /\ line = Claims("1", "1", None) /\ call.op = "read" /\ Serves(1) /\ ToCome(1)
  \/ /\ line = Claims("0", "1", IF call.op = "read" THEN asked[call.word + i - 1] ELSE None)
     /\ ToCome(i + 1)
     /\ IF i < call.n THEN Serves(i + 1) ELSE Ends

(* Both sides between two calls, and at each place of one.                 *)
AtIdle == at = "idle" => m = Undriven /\ Quiet /\ mem = asked /\ Answered

AtRequest ==
  at = "request" => /\ m = Undriven /\ got = <<>> /\ ToCome(1)
                    /\ Quiet \/ (Settling /\ (turn => left > 0))

AtAddress ==
  /\ at = "dac" => /\ call.page = "high" /\ m = Addressed("DAC") /\ got = <<>> /\ ToCome(1)
                   /\ IF turn THEN Selected ELSE Quiet
  /\ at = "address" => /\ m = Addressed(Command(call)) /\ got = <<>> /\ ToCome(1)
                       /\ IF turn THEN Decoded /\ line = Released ELSE Selected

AtDevsel ==
  at = "devsel" /\ Claimed(call) =>
    /\ m = Offered(1) /\ got = <<>>
    /\ ~turn => Decoded /\ ToCome(1)
    /\ turn => \/ call.op = "read" /\ left > 0 /\ line = Released /\ Decoded /\ ToCome(1)
               \/ Shown(1)
AtNobody ==
  at = "devsel" /\ ~Claimed(call) =>
    /\ m = Offered(1) /\ got = <<>> /\ ToCome(1)
    /\ IF turn THEN Quiet /\ line = Released ELSE Quiet \/ Listens("BUS_BUSY")

AtTrdy ==
  at = "trdy" => /\ Claimed(call) /\ Len(got) < call.n /\ m = Offered(Len(got) + 1)
                 /\ IF turn THEN Shown(Len(got) + 1)
                    ELSE Serves(Len(got) + 1) /\ ToCome(Len(got) + 1)

AtEnd ==
  /\ at = "retry" => /\ m = Undriven /\ got = <<>> /\ ToCome(1)
                     /\ IF turn THEN Settling ELSE Retried
  /\ at = "settle" => /\ m = Undriven /\ mem = asked
                      /\ IF turn THEN Quiet ELSE Quiet \/ Ends
                      /\ IF Claimed(call) THEN result = "ok" /\ Len(got) = call.n
                         ELSE result = "abort"

Typed ==
  /\ turn \in BOOLEAN /\ left \in Nat
  /\ at \in {"idle", "request", "dac", "address", "devsel", "trdy", "retry", "settle"}
  /\ at # "idle" => call \in Calls
  /\ mem \in [Cell -> [Lane -> Value]] /\ asked \in [Cell -> [Lane -> Value]]
  /\ got \in Seq([Lane -> Value] \cup {None})
  /\ at # "idle" /\ call.op = "read" =>
       \A i \in DOMAIN got : i <= call.n /\ got[i] = asked[call.word + i - 1]

Inv == Typed /\ AtIdle /\ AtRequest /\ AtAddress /\ AtDevsel /\ AtNobody /\ AtTrdy /\ AtEnd
=============================================================================
