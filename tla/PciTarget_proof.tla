--------------------------- MODULE PciTarget_proof ---------------------------
(***************************************************************************)
(* Proofs about PciTarget: with the calls that ServedUse describes, master *)
(* and target go through a transaction together, whatever the memory, the  *)
(* lengths of bursts, the byte enables, the waits for the bus and the      *)
(* retries.                                                                *)
(***************************************************************************)
EXTENDS PciTarget, SequenceTheorems, TLAPS

-----------------------------------------------------------------------------
(* Calls                                                                   *)

LEMMA CallFacts ==
  ASSUME ServedUse, NEW c \in Calls
  PROVE  /\ c.op \in {"read", "write"} /\ c.page \in {"low", "high", "config", "none"}
         /\ c.word \in 0..Words /\ c.word \in Nat /\ c.n \in Nat \ {0} /\ c.flag64 \in BOOLEAN
         /\ \A i \in 1..c.n : c.be[i] \in SUBSET Lane
         /\ c.op = "write" => \A i \in 1..c.n : c.data[i] \in Value
         /\ c.page \in {"config", "none"} => c.n = 1 /\ ~c.flag64
         /\ c.flag64 => c.n > 1
         /\ c.op = "read" => \A i \in 1..c.n : c.word + i - 1 \in Cell
<1>1. /\ c.op \in {"read", "write"} /\ c.page \in {"low", "high", "config", "none"}
      /\ c.word \in 0..Words /\ c.n \in Nat \ {0} /\ c.flag64 \in BOOLEAN
      /\ c.data \in Seq(Value) /\ c.be \in Seq(SUBSET Lane)
      /\ Len(c.be) = c.n /\ (c.op = "write" => Len(c.data) = c.n)
      /\ Words \in Nat
  BY PciTargetConstantsOK
<1>2. \A i \in 1..c.n : c.be[i] \in SUBSET Lane
  BY <1>1
<1>3. c.op = "write" => \A i \in 1..c.n : c.data[i] \in Value
  BY <1>1
<1>4. /\ c.page \in {"config", "none"} => c.n = 1 /\ ~c.flag64
      /\ c.flag64 => c.n > 1
      /\ c.op = "read" => c.word + c.n - 1 \in Cell
  BY DEF ServedUse
<1>5. c.op = "read" => \A i \in 1..c.n : c.word + i - 1 \in Cell
  BY <1>1, <1>4 DEF Cell
<1> QED
  BY <1>1, <1>2, <1>3, <1>4, <1>5

LEMMA Merges ==
  ASSUME NEW old \in [Lane -> Value], NEW v \in Value, NEW be
  PROVE  Merge(old, v, be) \in [Lane -> Value]
  BY DEF Merge

(* With no word to come the words are as asked.                            *)
LEMMA AllCame ==
  ASSUME Typed, call \in Calls, ServedUse, NEW i \in Nat, ToCome(i),
         call.op = "read" \/ ~Claimed(call) \/ i > call.n
  PROVE  mem = asked
<1>1. \A a \in Cell : asked[a] = mem[a]
  <2> SUFFICES ASSUME NEW a \in Cell PROVE asked[a] = mem[a]
    OBVIOUS
  <2>1. call.n \in Nat /\ call.word \in Nat /\ a \in Int
    BY CallFacts, PciTargetConstantsOK DEF Cell
  <2>2. ~(call.op = "write" /\ Claimed(call) /\ a - call.word \in (i - 1)..(call.n - 1))
    BY <2>1, CallFacts
  <2> QED
    BY <2>2 DEF ToCome
<1> QED
  BY <1>1 DEF Typed

(* Steps that leave the target alone.                                      *)
LEMMA Same ==
  ASSUME UNCHANGED <<call, asked, targetVars>>, NEW i
  PROVE  /\ (Quiet' <=> Quiet) /\ (Settling' <=> Settling)
         /\ (Selected' <=> Selected) /\ (Decoded' <=> Decoded)
         /\ (Retried' <=> Retried) /\ (Ends' <=> Ends)
         /\ Listens("BUS_BUSY")' <=> Listens("BUS_BUSY")
         /\ (Serves(i)' <=> Serves(i)) /\ (ToCome(i)' <=> ToCome(i))
<1>1. UNCHANGED <<call, asked, target_state, in, addr, dac_addr_lo, t, mem>>
  BY DEF targetVars
<1>2. ToCome(i)' <=> ToCome(i)
  BY <1>1 DEF ToCome, Claimed, Merge
<1>3. Serves(i)' <=> Serves(i)
  BY <1>1 DEF Serves, Claims
<1>4. Serves(1)' <=> Serves(1)
  BY <1>1 DEF Serves, Claims
<1>5. Decoded' <=> Decoded
  BY <1>1, <1>4 DEF Decoded, Claimed, Turning, Retrying, Claims, Listens, Released
<1> QED
  BY <1>1, <1>2, <1>3, <1>5
  DEF Quiet, Settling, Selected, Retried, Ends, Listens, Claims, Deasserted, Released

LEMMA SameShown ==
  ASSUME UNCHANGED <<call, asked, targetVars, line>>, NEW i \in Nat
  PROVE  Shown(i)' <=> Shown(i)
<1>1. UNCHANGED <<call, asked, line>>
  OBVIOUS
<1>2. PICK j : j = i + 1
  OBVIOUS
<1>3. /\ (Serves(1)' <=> Serves(1)) /\ (ToCome(1)' <=> ToCome(1))
      /\ (Serves(j)' <=> Serves(j)) /\ (ToCome(j)' <=> ToCome(j))
      /\ (Retried' <=> Retried) /\ (Ends' <=> Ends)
  BY Same
<1> QED
  BY <1>1, <1>2, <1>3 DEF Shown, Claims


-----------------------------------------------------------------------------
(* The master's steps                                                      *)

LEMMA StepIdle ==
  ASSUME Inv, Idle
  PROVE  Inv'
<1>1. /\ at = "idle" /\ at' = at /\ turn' = FALSE /\ call' = None /\ got' = <<>>
      /\ UNCHANGED <<left, m, asked, mem, in, t, target_state>>
  BY DEF Idle, Master, NextPosedge, targetVars
<1>2. Typed'
  <2>1. Typed
    BY DEF Inv
  <2>2. got' \in Seq([Lane -> Value] \cup {None})
    <3>1. got' = <<>>
      BY <1>1
    <3> QED
      BY <3>1
  <2>3. turn' \in BOOLEAN
    BY <1>1
  <2> QED
    BY <1>1, <2>1, <2>2, <2>3 DEF Typed
<1>3. AtIdle'
  BY <1>1 DEF Inv, AtIdle, Answered, Quiet, Listens, Released
<1> QED
  BY <1>1, <1>2, <1>3 DEF Inv, AtRequest, AtAddress, AtDevsel, AtNobody, AtTrdy, AtEnd

LEMMA StepCall ==
  ASSUME ServedUse, Inv, Call
  PROVE  Inv'
<1>1. /\ at = "idle" /\ at' = "request" /\ turn /\ turn' = turn /\ call' \in Calls /\ got' = <<>>
      /\ left' \in Nat
      /\ UNCHANGED <<m, mem, in, t, target_state>>
  BY PciTargetConstantsOK DEF Call, Master, GoOn, targetVars
<1>2. mem = asked /\ Quiet /\ m = Undriven /\ asked \in [Cell -> [Lane -> Value]]
  BY <1>1 DEF Inv, AtIdle, Typed
<1>3. PICK c \in Calls : c = call'
  BY <1>1
<1>4. asked' = IF c.op = "write" /\ Claimed(c) THEN Effect(c, asked) ELSE asked
  BY <1>3 DEF Call
<1>5. asked' \in [Cell -> [Lane -> Value]]
  <2>1. ASSUME NEW a \in Cell, c.op = "write", a - c.word \in 0..(c.n - 1)
        PROVE  Merge(asked[a], c.data[a - c.word + 1], c.be[a - c.word + 1]) \in [Lane -> Value]
    <3>1. a - c.word + 1 \in 1..c.n
      BY <2>1, CallFacts, PciTargetConstantsOK DEF Cell
    <3> QED
      BY <3>1, <2>1, <1>2, CallFacts, Merges
  <2>2. c.op = "write" => Effect(c, asked) \in [Cell -> [Lane -> Value]]
    BY <2>1, <1>2 DEF Effect
  <2> QED
    BY <2>2, <1>4, <1>2
<1>6. ToCome(1)'
  <2>1. CASE c.op = "write" /\ Claimed(c)
    <3>1. asked' = [a \in Cell |-> IF a - c.word \in 0..(c.n - 1)
                                   THEN Merge(mem[a], c.data[a - c.word + 1], c.be[a - c.word + 1])
                                   ELSE mem[a]]
      BY <2>1, <1>4, <1>2 DEF Effect
    <3>2. call'.op = "write" /\ Claimed(call)' /\ mem' = mem /\ call' = c
      BY <1>1, <1>3, <2>1 DEF Claimed
    <3> QED
      BY <3>1, <3>2 DEF ToCome, Merge
  <2>2. CASE ~(c.op = "write" /\ Claimed(c))
    <3>1. asked' = mem /\ mem' = mem /\ ~(call'.op = "write" /\ Claimed(call)')
      BY <2>2, <1>1, <1>2, <1>3, <1>4 DEF Claimed
    <3> QED
      BY <3>1, <1>2 DEF ToCome
  <2> QED
    BY <2>1, <2>2
<1>7. Typed'
  BY <1>1, <1>2, <1>5 DEF Inv, Typed
<1>8. AtRequest'
  BY <1>1, <1>2, <1>6 DEF AtRequest, Quiet, Listens, Released, Undriven
<1> QED
  BY <1>1, <1>7, <1>8 DEF Inv, AtIdle, AtAddress, AtDevsel, AtNobody, AtTrdy, AtEnd

(* A step that leaves the call and its words alone keeps the types.        *)
LEMMA TypedStays ==
  ASSUME Typed, UNCHANGED <<call, got, asked, mem>>, at # "idle",
         turn' \in BOOLEAN, left' \in Nat,
         at' \in {"idle", "request", "dac", "address", "devsel", "trdy", "retry", "settle"}
  PROVE  Typed'
  BY DEF Typed

LEMMA StepRequest ==
  ASSUME Inv, pci_request_bus
  PROVE  Inv'
<1>1. /\ at = "request" /\ at' = at /\ turn /\ turn' = FALSE /\ left' = left - 1 /\ left > 0
      /\ UNCHANGED <<call, got, m, asked, targetVars, mem>>
  BY DEF pci_request_bus, Master, NextPosedge, targetVars
<1>2. Typed'
  <2>1. Typed /\ left' \in Nat
    BY <1>1 DEF Inv, Typed
  <2> QED
    BY <1>1, <2>1, TypedStays
<1>3. AtRequest'
  BY <1>1, Same DEF Inv, AtRequest, Undriven
<1> QED
  BY <1>1, <1>2, <1>3 DEF Inv, AtIdle, AtAddress, AtDevsel, AtNobody, AtTrdy, AtEnd

LEMMA StepAddress ==
  ASSUME ServedUse, Inv, address_command
  PROVE  Inv'
<1>1. /\ at = "request" /\ turn /\ turn' = FALSE /\ left = 0
      /\ at' = (IF call.page = "high" THEN "dac" ELSE "address")
      /\ UNCHANGED <<left, call, got, asked, targetVars, mem>>
  BY DEF address_command, Master, NextPosedge, targetVars
<1>2. /\ at' = "dac" => m' = Addressed("DAC") /\ call.page = "high"
      /\ at' = "address" => m' = Addressed(Command(call)) /\ call.page # "high"
  BY <1>1 DEF address_command, Addressed
<1>3. Typed'
  BY <1>1, TypedStays DEF Inv, Typed
<1>4. Quiet /\ got = <<>> /\ ToCome(1)
  BY <1>1 DEF Inv, AtRequest
<1>5. Quiet' /\ got' = <<>> /\ ToCome(1)'
  BY <1>1, <1>4, Same
<1>6. at' = "address" => Selected'
  BY <1>1, <1>2, <1>5 DEF Selected
<1>7. AtAddress'
  BY <1>1, <1>2, <1>5, <1>6 DEF AtAddress, Addressed, Command, Address
<1> QED
  BY <1>1, <1>3, <1>7 DEF Inv, AtIdle, AtRequest, AtDevsel, AtNobody, AtTrdy, AtEnd

LEMMA StepDac ==
  ASSUME ServedUse, Inv, dac
  PROVE  Inv'
<1>1. /\ at = "dac" /\ turn /\ turn' = FALSE /\ at' = "address"
      /\ m' = [m EXCEPT !.cmd = Command(call)]
      /\ UNCHANGED <<left, call, got, asked, targetVars, mem>>
  BY DEF dac, Master, NextPosedge, targetVars
<1>2. m = Addressed("DAC") /\ got = <<>> /\ ToCome(1) /\ Selected
  BY <1>1 DEF Inv, AtAddress
<1>3. m' = Addressed(Command(call))
  BY <1>1, <1>2 DEF Addressed
<1>4. Typed'
  BY <1>1, TypedStays DEF Inv, Typed
<1>5. AtAddress'
  BY <1>1, <1>2, <1>3, Same DEF AtAddress, Addressed, Command, Address
<1> QED
  BY <1>1, <1>4, <1>5 DEF Inv, AtIdle, AtRequest, AtDevsel, AtNobody, AtTrdy, AtEnd

LEMMA StepSetup ==
  ASSUME ServedUse, Inv, setup
  PROVE  Inv'
<1>1. /\ at = "address" /\ turn /\ at' = "devsel" /\ left' = 3
      /\ turn' \in BOOLEAN /\ (turn' => call.op = "read" /\ call.flag64)
      /\ UNCHANGED <<line, call, got, asked, targetVars, mem>>
  BY DEF setup, Master, NextPosedge, GoOn, targetVars
<1>2. got = <<>> /\ ToCome(1) /\ Decoded /\ line = Released /\ call \in Calls
  BY <1>1 DEF Inv, AtAddress, Typed
<1>3. m' = Offered(1)
  <2>1. (~call.flag64 /\ call.n = 1) <=> call.n = 1
    BY <1>2, CallFacts
  <2> QED
    BY <2>1 DEF setup, Drives, BEn, Offered
<1>4. Typed'
  BY <1>1, TypedStays DEF Inv, Typed
<1>5. Offered(1)' = Offered(1)
  BY <1>1 DEF Offered
<1>6. AtDevsel'
  BY <1>1, <1>2, <1>3, <1>5, Same DEF AtDevsel, Released
<1>7. AtNobody'
  <2> SUFFICES ASSUME ~Claimed(call) PROVE AtNobody'
    BY <1>1 DEF AtNobody, Claimed
  <2>1. ~call.flag64 /\ Listens("BUS_BUSY")
    BY <1>2, CallFacts DEF Claimed, Decoded
  <2> QED
    BY <2>1, <1>1, <1>2, <1>3, <1>5, Same DEF AtNobody
<1> QED
  BY <1>1, <1>4, <1>6, <1>7 DEF Inv, AtIdle, AtRequest, AtAddress, AtTrdy, AtEnd

LEMMA StepDevsel ==
  ASSUME ServedUse, Inv, wait_for_devsel
  PROVE  Inv'
<1>1. /\ at = "devsel" /\ turn /\ left \in Nat /\ call \in Calls
      /\ UNCHANGED <<line, call, got, asked, targetVars, mem>>
  BY DEF wait_for_devsel, Master, targetVars, Inv, Typed
<1>2. m = Offered(1) /\ got = <<>>
  BY <1>1 DEF Inv, AtDevsel, AtNobody
<1>3. Offered(1)' = Offered(1)
  BY <1>1 DEF Offered
<1>4. ASSUME line.devsel = "0" PROVE Inv'
  <2>1. at' = "trdy" /\ UNCHANGED <<turn, left, m>>
    BY <1>1, <1>4 DEF wait_for_devsel, GoOn
  <2>2. Claimed(call) /\ Shown(1)
    BY <1>1, <1>4 DEF Inv, AtDevsel, AtNobody, Released
  <2>3. Shown(1)'
    BY <2>2, <1>1, SameShown
  <2>4. Len(got') = 0 /\ Len(got') + 1 = 1 /\ 0 < call.n
    BY <1>1, <1>2, CallFacts
  <2>5. AtTrdy'
    BY <2>1, <2>2, <2>3, <2>4, <1>1, <1>2, <1>3 DEF AtTrdy, Claimed
  <2>6. Typed'
    BY <1>1, <2>1, TypedStays DEF Inv, Typed
  <2> QED
    BY <2>1, <2>5, <2>6 DEF Inv, AtIdle, AtRequest, AtAddress, AtDevsel, AtNobody, AtEnd
<1>5. ASSUME line.devsel # "0", left # 0 PROVE Inv'
  <2>1. left' = left - 1 /\ turn' = FALSE /\ UNCHANGED <<at, m>>
    BY <1>1, <1>5 DEF wait_for_devsel, NextPosedge, gives_up
  <2>2. Typed'
    <3>1. Typed /\ left' \in Nat
      BY <1>1, <1>5, <2>1 DEF Inv
    <3> QED
      BY <1>1, <2>1, <3>1, TypedStays
  <2>3. Claimed(call) => Decoded /\ ToCome(1)
    BY <1>1, <1>5 DEF Inv, AtDevsel, Shown, Claims
  <2>4. AtDevsel'
    BY <2>1, <2>3, <1>1, <1>2, <1>3, Same DEF AtDevsel, Claimed
  <2>5. ~Claimed(call) => Quiet /\ ToCome(1)
    BY <1>1 DEF Inv, AtNobody
  <2>6. AtNobody'
    BY <2>1, <2>5, <1>1, <1>2, <1>3, Same DEF AtNobody, Claimed
  <2> QED
    BY <1>1, <2>1, <2>2, <2>4, <2>6 DEF Inv, AtIdle, AtRequest, AtAddress, AtTrdy, AtEnd
<1>6. ASSUME line.devsel # "0", left = 0 PROVE Inv'
  <2>1. m' = Undriven /\ result' = "abort" /\ at' = "settle" /\ turn' \in BOOLEAN /\ left' = left
    BY <1>1, <1>6 DEF wait_for_devsel, NextPosedge, GoOn, gives_up
  <2>2. ~Claimed(call)
    BY <1>1, <1>6 DEF Inv, AtDevsel, Shown, Claims
  <2>3. Quiet /\ ToCome(1)
    BY <1>1, <2>2 DEF Inv, AtNobody
  <2>4. mem = asked
    BY <2>2, <2>3, <1>1, AllCame DEF Inv
  <2>5. Typed'
    BY <1>1, <2>1, TypedStays DEF Inv, Typed
  <2>6. AtEnd'
    BY <1>1, <2>1, <2>2, <2>3, <2>4, Same DEF AtEnd, Claimed, Undriven
  <2> QED
    BY <2>1, <2>5, <2>6 DEF Inv, AtIdle, AtRequest, AtAddress, AtDevsel, AtNobody, AtTrdy
<1> QED
  BY <1>4, <1>5, <1>6

(* The words that a read has brought so far.                               *)
LEMMA TypedAppend ==
  ASSUME Typed, UNCHANGED <<call, asked, mem>>, at # "idle", at' # "idle", call \in Calls,
         turn' \in BOOLEAN, left' \in Nat,
         at' \in {"idle", "request", "dac", "address", "devsel", "trdy", "retry", "settle"},
         NEW w \in [Lane -> Value] \cup {None}, got' = Append(got, w),
         Len(got) + 1 <= call.n,
         call.op = "read" => w = asked[call.word + Len(got)]
  PROVE  Typed'
<1>1. got \in Seq([Lane -> Value] \cup {None})
  BY DEF Typed
<1>2. /\ got' \in Seq([Lane -> Value] \cup {None}) /\ Len(got') = Len(got) + 1
      /\ DOMAIN got' = 1..(Len(got) + 1) /\ DOMAIN got = 1..Len(got) /\ Len(got) \in Nat
      /\ got'[Len(got) + 1] = w
      /\ \A i \in DOMAIN got : got'[i] = got[i]
  BY <1>1
<1>3. ASSUME call.op = "read", NEW i \in DOMAIN got'
      PROVE  i <= call.n /\ got'[i] = asked[call.word + i - 1]
  <2>1. CASE i \in DOMAIN got
    BY <1>2, <1>3, <2>1 DEF Typed
  <2>2. CASE i = Len(got) + 1
    <3>1. call.word \in Int /\ i \in Int /\ call.word + i - 1 = call.word + Len(got)
      BY <1>2, <2>2, PciTargetConstantsOK
    <3> QED
      BY <3>1, <1>2, <1>3, <2>2
  <2> QED
    BY <1>2, <1>3, <2>1, <2>2
<1> QED
  BY <1>2, <1>3 DEF Typed

LEMMA StepWord ==
  ASSUME ServedUse, Inv, word_done
  PROVE  Inv'
<1>1. /\ at = "trdy" /\ turn /\ turn' = FALSE /\ line.trdy = "0" /\ call \in Calls
      /\ got' = Append(got, line.ad) /\ left \in Nat /\ left' = left
      /\ UNCHANGED <<call, asked, targetVars, mem>>
  BY DEF word_done, Master, NextPosedge, ready, targetVars, Inv, Typed
<1>2. PICK k \in Nat : k = Len(got) + 1 /\ Len(got) \in Nat
  <2>1. Len(got) \in Nat
    BY DEF Inv, Typed
  <2> QED
    BY <2>1
<1>3. Claimed(call) /\ k <= call.n /\ Shown(k) /\ call.n \in Nat /\ k \in 1..call.n
  <2>1. call.n \in Nat
    BY <1>1, CallFacts
  <2> QED
    BY <1>1, <1>2, <2>1 DEF Inv, AtTrdy
<1>4. /\ line = Claims("0", "1", IF call.op = "read" THEN asked[call.word + k - 1] ELSE None)
      /\ ToCome(k + 1)
      /\ IF k < call.n THEN Serves(k + 1) ELSE Ends
  BY <1>1, <1>3 DEF Shown, Claims
<1>5. line.ad = IF call.op = "read" THEN asked[call.word + k - 1] ELSE None
  BY <1>4 DEF Claims
<1>6. line.ad \in [Lane -> Value] \cup {None}
  <2>1. call.op = "read" => call.word + k - 1 \in Cell
    BY <1>1, <1>3, CallFacts
  <2> QED
    BY <1>5, <2>1 DEF Inv, Typed
<1>7. got \in Seq([Lane -> Value] \cup {None}) /\ Len(got') = k
  <2>1. got \in Seq([Lane -> Value] \cup {None})
    BY DEF Inv, Typed
  <2> QED
    BY <1>1, <1>2, <1>6, <2>1
<1>8. at' \in {"trdy", "settle"}
  BY <1>1 DEF word_done
<1>9. Typed'
  <2>1. call.word + Len(got) = call.word + k - 1
    BY <1>1, <1>2, CallFacts
  <2>2. Typed /\ turn' \in BOOLEAN /\ Len(got) + 1 <= call.n
    BY <1>1, <1>2, <1>3 DEF Inv
  <2> QED
    BY <1>1, <1>5, <1>6, <1>8, <2>1, <2>2, TypedAppend
<1>10. Len(got) + 2 = k + 1
  BY <1>2
<1>11. CASE k < call.n
  <2>1. at' = "trdy" /\ Drives(k + 1, k + 1 = call.n)
    BY <1>1, <1>3, <1>10, <1>11 DEF word_done
  <2>2. m' = Offered(k + 1)
    BY <2>1 DEF Drives, BEn, Offered
  <2>3. PICK j \in Nat : j = k + 1
    BY <1>2
  <2>4. Serves(j) /\ ToCome(j) /\ j = Len(got') + 1 /\ m' = Offered(j) /\ Len(got') < call.n
    BY <1>4, <1>7, <1>11, <2>2, <2>3
  <2>5. Serves(j)' /\ ToCome(j)' /\ Offered(j)' = Offered(j)
    BY <2>4, <1>1, Same DEF Offered
  <2>6. AtTrdy'
    BY <1>1, <1>3, <2>4, <2>5 DEF AtTrdy, Claimed
  <2> QED
    BY <1>9, <2>1, <2>6 DEF Inv, AtIdle, AtRequest, AtAddress, AtDevsel, AtNobody, AtEnd
<1>12. CASE k = call.n
  <2>1. at' = "settle" /\ m' = Undriven /\ result' = "ok"
    BY <1>3, <1>10, <1>12 DEF word_done
  <2>2. mem = asked
    <3>1. k + 1 > call.n /\ k + 1 \in Nat
      BY <1>12, <1>2
    <3> QED
      BY <3>1, <1>1, <1>4, AllCame DEF Inv
  <2>3. Ends'
    BY <1>4, <1>12, <1>1, Same
  <2>4. AtEnd'
    BY <1>1, <1>3, <1>7, <1>12, <2>1, <2>2, <2>3 DEF AtEnd, Claimed, Undriven
  <2> QED
    BY <1>9, <2>1, <2>4 DEF Inv, AtIdle, AtRequest, AtAddress, AtDevsel, AtNobody, AtTrdy
<1> QED
  BY <1>2, <1>3, <1>11, <1>12

LEMMA StepWait ==
  ASSUME ServedUse, Inv, wait_for_trdy
  PROVE  Inv'
<1>1. /\ at = "trdy" /\ turn /\ turn' = FALSE /\ line.trdy # "0" /\ call \in Calls /\ left \in Nat
      /\ UNCHANGED <<left, call, got, asked, targetVars, mem>>
  BY DEF wait_for_trdy, Master, NextPosedge, ready, targetVars, Inv, Typed
<1>2. PICK k \in Nat : k = Len(got) + 1 /\ Len(got) \in Nat
  <2>1. Len(got) \in Nat
    BY DEF Inv, Typed
  <2> QED
    BY <2>1
<1>3. Claimed(call) /\ Shown(k) /\ m = Offered(k) /\ Len(got) < call.n
  BY <1>1, <1>2 DEF Inv, AtTrdy
<1>4. k = 1 /\ got = <<>> /\ ToCome(1) /\ call.op = "read"
  <2>1. k = 1 /\ ToCome(1) /\ call.op = "read"
    BY <1>1, <1>3 DEF Shown, Claims, Retried
  <2> QED
    BY <2>1, <1>2 DEF Inv, Typed
<1>5. CASE line.stop = "0"
  <2>1. m' = Undriven /\ at' = "retry"
    BY <1>1, <1>4, <1>5 DEF wait_for_trdy, stopped
  <2>2. Retried
    BY <1>1, <1>3, <1>5 DEF Shown, Claims
  <2>3. Typed'
    BY <1>1, <2>1, TypedStays DEF Inv
  <2>4. AtEnd'
    BY <1>1, <1>4, <2>1, <2>2, Same DEF AtEnd, Undriven
  <2> QED
    BY <2>1, <2>3, <2>4 DEF Inv, AtIdle, AtRequest, AtAddress, AtDevsel, AtNobody, AtTrdy
<1>6. CASE line.stop # "0"
  <2>1. m' = m /\ at' = at
    BY <1>6 DEF wait_for_trdy, stopped
  <2>2. Serves(1)
    BY <1>1, <1>3, <1>6 DEF Shown, Claims
  <2>3. Typed'
    BY <1>1, <2>1, TypedStays DEF Inv
  <2>4. Len(got') + 1 = 1 /\ Len(got') < call.n
    BY <1>1, <1>2, <1>3, <1>4
  <2>5. Serves(1)' /\ ToCome(1)' /\ m' = Offered(1)'
    BY <1>1, <1>3, <1>4, <2>1, <2>2, Same DEF Offered
  <2>6. AtTrdy'
    BY <1>1, <1>3, <2>4, <2>5 DEF AtTrdy, Claimed
  <2> QED
    BY <1>1, <2>1, <2>3, <2>6 DEF Inv, AtIdle, AtRequest, AtAddress, AtDevsel, AtNobody, AtEnd
<1> QED
  BY <1>5, <1>6

LEMMA StepRetry ==
  ASSUME ServedUse, Inv, retry_read
  PROVE  Inv'
<1>1. /\ at = "retry" /\ turn /\ turn' = turn /\ at' = "request" /\ left' \in Nat \ {0}
      /\ UNCHANGED <<call, got, m, asked, targetVars, mem>>
  BY PciTargetConstantsOK DEF retry_read, Master, GoOn, targetVars, ServedUse
<1>2. Typed'
  BY <1>1, TypedStays DEF Inv, Typed
<1>3. AtRequest'
  BY <1>1, Same DEF Inv, AtRequest, AtEnd, Undriven
<1> QED
  BY <1>1, <1>2, <1>3 DEF Inv, AtIdle, AtAddress, AtDevsel, AtNobody, AtTrdy, AtEnd

LEMMA StepReturn ==
  ASSUME ServedUse, Inv, Return
  PROVE  Inv'
<1>1. /\ at = "settle" /\ turn /\ turn' = turn /\ at' = "idle" /\ left' = 0 /\ call \in Calls
      /\ UNCHANGED <<call, got, m, asked, result, targetVars, mem>>
  BY DEF Return, Master, GoOn, targetVars, Inv, Typed
<1>2. Typed'
  BY <1>1, TypedStays DEF Inv, Typed
<1>3. /\ m = Undriven /\ mem = asked /\ Quiet
      /\ IF Claimed(call) THEN result = "ok" /\ Len(got) = call.n ELSE result = "abort"
  BY <1>1 DEF Inv, AtEnd
<1>4. Claimed(call) /\ call.op = "read" =>
        \A i \in 1..call.n : got[i] = asked[call.word + i - 1]
  <2>1. got \in Seq([Lane -> Value] \cup {None})
    BY DEF Inv, Typed
  <2>2. DOMAIN got = 1..Len(got)
    BY <2>1
  <2> QED
    BY <1>1, <1>3, <2>2 DEF Inv, Typed
<1>5. Answered'
  BY <1>1, <1>3, <1>4 DEF Answered, Claimed
<1>6. AtIdle'
  BY <1>1, <1>3, <1>5, Same DEF AtIdle, Undriven
<1> QED
  BY <1>1, <1>2, <1>6 DEF Inv, AtRequest, AtAddress, AtDevsel, AtNobody, AtTrdy, AtEnd

-----------------------------------------------------------------------------
(* The target's steps, by where it is                                      *)

(* Nobody asks for anything.                                               *)
LEMMA RestQuiet ==
  ASSUME NEW retry \in BOOLEAN, Clock(retry), Quiet, m.frame # "0"
  PROVE  Quiet' /\ mem' = mem /\ line' = Released
<1>1. in = None /\ t = Released /\ target_state = "IDLE" /\ line' = t
  BY DEF Quiet, Listens, Clock
<1>2. ~handler
  BY <1>1, NoneApart DEF handler, read_cycle, write_cycle, retry_cycle, handler_return
<1>3. Watch
  BY <1>1, <1>2 DEF Clock, state_machine, Decode
<1>4. UNCHANGED <<in, t, mem, target_state>>
  BY <1>1, <1>3 DEF Watch
<1> QED
  BY <1>1, <1>4 DEF Quiet, Listens, Released

(* Someone else's transaction ends with FRAME#.                            *)
LEMMA RestBusy ==
  ASSUME NEW retry \in BOOLEAN, Clock(retry), Listens("BUS_BUSY"), m.frame = "1"
  PROVE  Quiet' /\ mem' = mem /\ line' = Released
<1>1. in = None /\ t = Released /\ target_state = "BUS_BUSY" /\ line' = t
  BY DEF Listens, Clock
<1>2. ~handler
  BY <1>1, NoneApart DEF handler, read_cycle, write_cycle, retry_cycle, handler_return
<1>3. Watch
  BY <1>1, <1>2 DEF Clock, state_machine, Decode
<1>4. UNCHANGED <<in, t, mem>> /\ target_state' = "IDLE"
  BY <1>1, <1>3 DEF Watch
<1> QED
  BY <1>1, <1>4 DEF Quiet, Listens, Released

(* A handler returns.                                                      *)
LEMMA HandlerReturns ==
  ASSUME NEW retry \in BOOLEAN, Clock(retry), in \in {"release", "settle"}
  PROVE  Quiet' /\ mem' = mem
<1>1. handler
  BY NoneApart DEF Clock, state_machine
<1>2. handler_return /\ UNCHANGED mem
  BY <1>1 DEF handler, read_cycle, write_cycle, retry_cycle
<1> QED
  BY <1>2 DEF handler_return, Quiet, Listens

(* The first half of a long address.                                       *)
LEMMA TakesDac ==
  ASSUME NEW retry \in BOOLEAN, Clock(retry), Quiet, m = Addressed("DAC"), call.page = "high"
  PROVE  Selected' /\ mem' = mem
<1>1. in = None /\ t = Released /\ target_state = "IDLE"
  BY DEF Quiet, Listens
<1>2. m.frame = "0" /\ m.cmd = "DAC" /\ m.addr = Address(call.page, call.word)
  BY DEF Addressed
<1>3. ~Mine
  BY <1>2 DEF Mine
<1>4. ~handler
  BY <1>1, NoneApart DEF handler, read_cycle, write_cycle, retry_cycle, handler_return
<1>5. Watch
  BY <1>1, <1>3, <1>4 DEF Clock, state_machine, Decode
<1>6. UNCHANGED <<in, t, mem>> /\ target_state' = "DAC" /\ dac_addr_lo' = m.addr.word
  BY <1>1, <1>2, <1>3, <1>5 DEF Watch
<1>7. call' = call
  BY DEF Clock, masterVars
<1> QED
  BY <1>1, <1>2, <1>6, <1>7 DEF Selected, Listens, Released, Address

(* The command.                                                            *)
LEMMA TakesCommand ==
  ASSUME ServedUse, call \in Calls, NEW retry \in BOOLEAN, Clock(retry), Selected,
         m = Addressed(Command(call))
  PROVE  Decoded' /\ mem' = mem /\ line' = Released
<1>1. in = None /\ t = Released /\ target_state \in {"IDLE", "DAC"} /\ line' = t
      /\ (target_state = "DAC" <=> call.page = "high")
      /\ (call.page = "high" => dac_addr_lo = call.word)
  BY DEF Selected, Quiet, Listens, Clock
<1>2. /\ m.frame = "0" /\ m.cmd = Command(call) /\ m.addr = Address(call.page, call.word)
      /\ m.addr # None
  BY NoneApart DEF Addressed
<1>3. get_addr = Address(call.page, call.word)
  BY <1>1, <1>2 DEF get_addr, Address
<1>4. ~handler
  BY <1>1, NoneApart DEF handler, read_cycle, write_cycle, retry_cycle, handler_return
<1>5. /\ call.op \in {"read", "write"} /\ call.page \in {"low", "high", "config", "none"}
      /\ call.word \in Nat
  BY CallFacts
<1>6. /\ get_addr # None /\ get_addr.page = call.page /\ get_addr.word = call.word
  BY <1>2, <1>3 DEF Address
<1>7. Mine <=> Claimed(call)
  <2>1. CASE call.page = "config"
    BY <2>1, <1>1, <1>2, <1>5, <1>6 DEF Mine, Claimed, Command, get_idsel
  <2>2. CASE call.page # "config"
    BY <2>2, <1>1, <1>2, <1>5, <1>6 DEF Mine, Claimed, Command, match_mem_target
  <2> QED
    BY <2>1, <2>2
<1>8. UNCHANGED <<call, asked>>
  BY DEF Clock, masterVars
<1>9. CASE ~Claimed(call)
  <2>1. Watch /\ m.cmd # "DAC" /\ ~Mine
    BY <1>1, <1>2, <1>4, <1>5, <1>7, <1>9 DEF Clock, state_machine, Decode, Command
  <2>2. UNCHANGED <<in, t, mem>> /\ target_state' = "BUS_BUSY"
    BY <1>1, <1>2, <2>1 DEF Watch
  <2> QED
    BY <1>1, <1>8, <1>9, <2>2 DEF Decoded, Claimed, Listens, Released
<1>10. CASE Claimed(call)
  <2>1. Decode(retry)
    BY <1>1, <1>2, <1>4, <1>7, <1>10 DEF Clock, state_machine, Watch
  <2>2. addr' = call.word
    BY <2>1, <1>6 DEF Decode
  <2>3. CASE retry
    <3>1. do_target_memory_rw_retry /\ m.cmd \in Retries
      BY <2>1, <2>3 DEF Decode
    <3>2. call.op = "read"
      BY <3>1, <1>2, <1>5 DEF Command, ServedUse
    <3>3. Retrying' /\ mem' = mem
      BY <3>1, <3>2, <1>8 DEF Retrying, do_target_memory_rw_retry, Claim, Claims
    <3> QED
      BY <3>3, <1>1, <1>8, <1>10 DEF Decoded, Claimed, Released
  <2>4. CASE ~retry
    <3>1. /\ m.cmd = "read" => do_target_memory_read(get_addr.word)
          /\ m.cmd = "write" => do_target_memory_write
          /\ m.cmd = "config_read" => do_target_config_read
          /\ m.cmd = "config_write" => do_target_config_write
      BY <2>1, <2>4 DEF Decode
    <3>2. CASE call.op = "read"
      <4>1. Turning' /\ mem' = mem
        BY <3>1, <3>2, <2>2, <1>2, <1>5, <1>8
        DEF Turning, Command, do_target_memory_read, do_target_config_read, Claim, Claims
      <4> QED
        BY <4>1, <1>1, <1>8, <1>10 DEF Decoded, Claimed, Released
    <3>3. CASE call.op = "write"
      <4>1. /\ t' = Claims("0", "1", None) /\ mem' = mem
            /\ in' = IF call.page = "config" THEN "config_write" ELSE "write"
        BY <3>1, <3>3, <1>2, <1>5
        DEF Command, do_target_memory_write, do_target_config_write, Claim, Claims
      <4>2. addr' = call'.word + 1 - 1
        BY <2>2, <1>5, <1>8
      <4>3. Serves(1)'
        BY <4>1, <4>2, <3>3, <1>8 DEF Serves, Claims
      <4> QED
        BY <4>1, <4>3, <3>3, <1>1, <1>8, <1>10 DEF Decoded, Claimed, Released
    <3> QED
      BY <3>2, <3>3, <1>5
  <2> QED
    BY <2>3, <2>4
<1> QED
  BY <1>9, <1>10

(* The clock for the AD lines to turn around.                              *)
LEMMA TurnsAround ==
  ASSUME ServedUse, Typed, call \in Calls, NEW retry \in BOOLEAN, Clock(retry),
         Turning, Claimed(call), ToCome(1)
  PROVE  Shown(1)' /\ mem' = mem
<1>1. /\ call.op = "read" /\ addr = call.word /\ t = Claims("1", "1", None)
      /\ in = (IF call.page = "config" THEN "config_turn" ELSE "turn")
      /\ line' = t /\ UNCHANGED <<call, asked>>
  BY DEF Turning, Clock, masterVars
<1>2. handler
  BY <1>1, NoneApart DEF Clock, state_machine
<1>3. /\ Drive(addr) /\ UNCHANGED <<addr, mem>>
      /\ in' = (IF in = "turn" THEN "read" ELSE "config_read")
  BY <1>1, <1>2 DEF handler, read_cycle, write_cycle, retry_cycle, handler_return
<1>4. mem = asked
  BY <1>1, AllCame
<1>5. call.word \in Cell /\ call.word \in Nat /\ call.word + 1 - 1 = call.word
  BY CallFacts DEF Cell
<1>6. t' = Claims("0", "1", asked[call.word])
  BY <1>1, <1>3, <1>4, <1>5 DEF Drive, need32, Claims
<1>7. Serves(1)'
  BY <1>1, <1>3, <1>5, <1>6 DEF Serves, Claims
<1>8. ToCome(1)'
  BY <1>1, <1>3 DEF ToCome, Claimed, Merge
<1> QED
  BY <1>1, <1>3, <1>7, <1>8 DEF Shown, Claims

(* A retry: STOP# has been seen, and is taken back.                        *)
LEMMA ShowsRetry ==
  ASSUME NEW retry \in BOOLEAN, Clock(retry), Retrying, ToCome(1)
  PROVE  Shown(1)' /\ mem' = mem
<1>1. /\ call.op = "read" /\ in = "retry" /\ t = Claims("1", "0", None)
      /\ line' = t /\ UNCHANGED <<call, asked>>
  BY DEF Retrying, Clock, masterVars
<1>2. handler
  BY <1>1, NoneApart DEF Clock, state_machine
<1>3. in' = "retried" /\ t' = [t EXCEPT !.stop = "1"] /\ mem' = mem
  BY <1>1, <1>2 DEF handler, read_cycle, write_cycle, retry_cycle, handler_return
<1>4. Retried'
  BY <1>1, <1>3 DEF Retried, Claims
<1>5. ToCome(1)'
  BY <1>1, <1>3 DEF ToCome, Claimed, Merge
<1> QED
  BY <1>1, <1>3, <1>4, <1>5 DEF Shown, Claims

LEMMA EndsRetry ==
  ASSUME NEW retry \in BOOLEAN, Clock(retry), Retried
  PROVE  Settling' /\ mem' = mem
<1>1. in = "retried"
  BY DEF Retried
<1>2. handler
  BY <1>1, NoneApart DEF Clock, state_machine
<1> QED
  BY <1>1, <1>2 DEF handler, read_cycle, write_cycle, retry_cycle, handler_return, Settling

(* A posedge moves word i of a read.                                       *)
LEMMA ReadsWord ==
  ASSUME ServedUse, Typed, call \in Calls, Claimed(call), NEW retry \in BOOLEAN, Clock(retry),
         NEW i \in Nat \ {0}, i <= call.n, Serves(i), ToCome(i), m = Offered(i),
         call.op = "read"
  PROVE  Shown(i)' /\ mem' = mem
<1>1. /\ addr = call.word + i - 1 /\ t = Claims("0", "1", asked[addr])
      /\ in = (IF call.page = "config" THEN "config_read" ELSE "read")
      /\ line' = t /\ UNCHANGED <<call, asked>>
  BY DEF Serves, Clock, masterVars
<1>2. m.irdy = "0" /\ m.frame = IF i = call.n THEN "1" ELSE "0"
  BY DEF Offered
<1>3. handler
  BY <1>1, NoneApart DEF Clock, state_machine
<1>4. /\ addr' = addr + 1 /\ mem' = mem
      /\ IF in = "read" /\ m.frame = "0" THEN Drive(addr') /\ in' = in
         ELSE Deassert /\ in' = "release"
  BY <1>1, <1>2, <1>3
  DEF handler, read_cycle, write_cycle, retry_cycle, handler_return, next_addr
<1>5. mem = asked
  BY AllCame
<1>6. call.word \in Nat /\ call.n \in Nat /\ (call.page = "config" => i = call.n)
  BY CallFacts
<1>7. PICK j \in Nat : j = i + 1
  OBVIOUS
<1>8. ToCome(j)'
  BY <1>1, <1>4, <1>5 DEF ToCome, Typed
<1>9. i < call.n => Serves(j)'
  <2> SUFFICES ASSUME i < call.n PROVE Serves(j)'
    OBVIOUS
  <2>1. j \in 1..call.n /\ addr' = call.word + j - 1
    BY <1>1, <1>4, <1>6, <1>7
  <2>2. call.word + j - 1 \in Cell
    BY <2>1, CallFacts
  <2>3. Drive(addr') /\ in' = "read" /\ call.page # "config"
    BY <1>1, <1>2, <1>4, <1>6
  <2>4. t' = Claims("0", "1", asked[addr'])
    BY <1>1, <1>5, <2>1, <2>2, <2>3 DEF Drive, need32, Claims
  <2> QED
    BY <1>1, <2>1, <2>3, <2>4 DEF Serves, Claims
<1>10. i = call.n => Ends'
  BY <1>2, <1>4 DEF Ends, Deassert, Deasserted
<1>11. line' = Claims("0", "1", asked[call.word + i - 1])
  BY <1>1
<1> QED
  BY <1>1, <1>4, <1>6, <1>7, <1>8, <1>9, <1>10, <1>11 DEF Shown, Claims

(* A posedge moves word i of a write.                                      *)
LEMMA WritesWord ==
  ASSUME ServedUse, Typed, call \in Calls, Claimed(call), NEW retry \in BOOLEAN, Clock(retry),
         NEW i \in Nat \ {0}, i <= call.n, Serves(i), ToCome(i), m = Offered(i),
         call.op = "write"
  PROVE  Shown(i)' /\ mem' \in [Cell -> [Lane -> Value]]
<1>1. /\ addr = call.word + i - 1 /\ t = Claims("0", "1", None)
      /\ in = (IF call.page = "config" THEN "config_write" ELSE "write")
      /\ line' = t /\ UNCHANGED <<call, asked>>
  BY DEF Serves, Clock, masterVars
<1>2. /\ m.irdy = "0" /\ m.frame = (IF i = call.n THEN "1" ELSE "0")
      /\ m.data = call.data[i] /\ m.be = call.be[i]
  BY DEF Offered
<1>3. handler
  BY <1>1, NoneApart DEF Clock, state_machine
<1>4. write_cycle
  BY <1>1, <1>3 DEF handler, read_cycle, retry_cycle, handler_return
<1>5. /\ recv32(addr, m.data, m.be) /\ addr' = addr + 1
      /\ in = "write" /\ m.frame = "0" => UNCHANGED <<t, in>>
      /\ in = "write" /\ m.frame # "0" => t' = Released /\ in' = "settle"
      /\ in = "config_write" => Deassert /\ in' = "release"
  BY <1>1, <1>2, <1>4 DEF write_cycle, next_addr
<1>6. /\ call.word \in Nat /\ call.n \in Nat /\ (call.page = "config" => i = call.n)
      /\ call.data[i] \in Value
  BY CallFacts
<1>7. PICK j \in Nat : j = i + 1
  OBVIOUS
<1>8. mem \in [Cell -> [Lane -> Value]] /\ asked \in [Cell -> [Lane -> Value]]
  BY DEF Typed
<1>9. addr \in Cell => Merge(mem[addr], call.data[i], call.be[i]) \in [Lane -> Value]
  BY <1>6, <1>8, Merges
<1>10. mem' = IF addr \in Cell THEN [mem EXCEPT ![addr] = Merge(mem[addr], call.data[i], call.be[i])]
              ELSE mem
  BY <1>2, <1>5 DEF recv32
<1>11. mem' \in [Cell -> [Lane -> Value]]
  BY <1>8, <1>9, <1>10
<1>12. ASSUME NEW a \in Cell
       PROVE  asked[a] = IF a - call.word \in (j - 1)..(call.n - 1)
                         THEN Merge(mem'[a], call.data[a - call.word + 1], call.be[a - call.word + 1])
                         ELSE mem'[a]
  <2>1. a \in Int
    BY PciTargetConstantsOK DEF Cell
  <2>2. asked[a] = IF a - call.word \in (i - 1)..(call.n - 1)
                   THEN Merge(mem[a], call.data[a - call.word + 1], call.be[a - call.word + 1])
                   ELSE mem[a]
    BY DEF ToCome
  <2>3. CASE a = addr
    <3>1. /\ a - call.word \in (i - 1)..(call.n - 1) /\ a - call.word + 1 = i
          /\ a - call.word \notin (j - 1)..(call.n - 1)
      BY <2>3, <1>1, <1>6, <1>7
    <3>2. asked[a] = Merge(mem[a], call.data[i], call.be[i])
      BY <2>2, <3>1
    <3> QED
      BY <3>1, <3>2, <2>3, <1>8, <1>10
  <2>4. CASE a # addr
    <3>1. a - call.word \in (i - 1)..(call.n - 1) <=> a - call.word \in (j - 1)..(call.n - 1)
      BY <2>1, <2>4, <1>1, <1>6, <1>7
    <3>2. mem'[a] = mem[a]
      BY <2>4, <1>8, <1>10
    <3> QED
      BY <3>1, <3>2, <2>2
  <2> QED
    BY <2>3, <2>4
<1>13. ToCome(j)'
  <2>1. asked' = [a \in Cell |-> IF a - call.word \in (j - 1)..(call.n - 1)
                                 THEN Merge(mem'[a], call.data[a - call.word + 1],
                                                     call.be[a - call.word + 1])
                                 ELSE mem'[a]]
    BY <1>1, <1>8, <1>12
  <2>2. call'.op = "write" /\ Claimed(call)' /\ call' = call
    BY <1>1 DEF Claimed
  <2> QED
    BY <2>1, <2>2 DEF ToCome, Merge
<1>14. i < call.n => Serves(j)'
  <2> SUFFICES ASSUME i < call.n PROVE Serves(j)'
    OBVIOUS
  <2>1. addr' = call.word + j - 1
    BY <1>1, <1>5, <1>6, <1>7
  <2>2. t' = t /\ in' = in /\ call.page # "config" /\ in = "write"
    BY <1>1, <1>2, <1>5, <1>6
  <2> QED
    BY <1>1, <2>1, <2>2 DEF Serves, Claims
<1>15. i = call.n => Ends'
  BY <1>1, <1>2, <1>5 DEF Ends, Deassert, Deasserted, Released
<1>16. line' = Claims("0", "1", None) /\ call'.op = "write"
  BY <1>1
<1>17. IF i < call'.n THEN Serves(i + 1)' ELSE Ends'
  BY <1>1, <1>6, <1>7, <1>14, <1>15
<1>18. ToCome(i + 1)'
  BY <1>7, <1>13
<1> QED
  BY <1>11, <1>16, <1>17, <1>18 DEF Shown, Claims

-----------------------------------------------------------------------------
(* A posedge, by where the master is                                       *)

LEMMA StepClock ==
  ASSUME ServedUse, Inv, NEW retry \in BOOLEAN, Clock(retry)
  PROVE  Inv'
<1>1. /\ turn = FALSE /\ turn' = TRUE /\ line' = t
      /\ UNCHANGED <<at, left, call, got, m, asked, result>>
  BY DEF Clock, masterVars, Inv, Typed
<1>2. at # "idle" => call \in Calls
  BY DEF Inv, Typed
<1>3. ASSUME mem' \in [Cell -> [Lane -> Value]] PROVE Typed'
  BY <1>1, <1>3 DEF Inv, Typed
<1>4. ASSUME mem' = mem PROVE Typed'
  BY <1>3, <1>4 DEF Inv, Typed
<1>5. ASSUME mem' = mem PROVE ToCome(1)' <=> ToCome(1)
  BY <1>1, <1>5 DEF ToCome, Claimed, Merge
<1>6. CASE at = "idle"
  <2>1. m = Undriven /\ Quiet /\ mem = asked /\ Answered
    BY <1>6 DEF Inv, AtIdle
  <2>2. Quiet' /\ mem' = mem
    BY <2>1, RestQuiet DEF Undriven
  <2>3. AtIdle'
    BY <1>1, <2>1, <2>2 DEF AtIdle, Answered, Undriven, Claimed
  <2> QED
    BY <1>1, <1>4, <1>6, <2>2, <2>3
    DEF Inv, AtRequest, AtAddress, AtDevsel, AtNobody, AtTrdy, AtEnd
<1>7. CASE at = "request"
  <2>1. m = Undriven /\ got = <<>> /\ ToCome(1) /\ (Quiet \/ Settling)
    BY <1>7 DEF Inv, AtRequest
  <2>2. Quiet' /\ mem' = mem
    BY <2>1, RestQuiet, HandlerReturns DEF Undriven, Settling
  <2>3. AtRequest'
    BY <1>1, <1>5, <2>1, <2>2 DEF AtRequest, Undriven
  <2> QED
    BY <1>1, <1>4, <1>7, <2>2, <2>3
    DEF Inv, AtIdle, AtAddress, AtDevsel, AtNobody, AtTrdy, AtEnd
<1>8. CASE at = "dac"
  <2>1. call.page = "high" /\ m = Addressed("DAC") /\ got = <<>> /\ ToCome(1) /\ Quiet
    BY <1>1, <1>8 DEF Inv, AtAddress
  <2>2. Selected' /\ mem' = mem
    BY <2>1, TakesDac
  <2>3. AtAddress'
    BY <1>1, <1>5, <1>8, <2>1, <2>2 DEF AtAddress, Addressed, Address
  <2> QED
    BY <1>1, <1>4, <1>8, <2>2, <2>3
    DEF Inv, AtIdle, AtRequest, AtDevsel, AtNobody, AtTrdy, AtEnd
<1>9. CASE at = "address"
  <2>1. m = Addressed(Command(call)) /\ got = <<>> /\ ToCome(1) /\ Selected
    BY <1>1, <1>9 DEF Inv, AtAddress
  <2>2. Decoded' /\ mem' = mem /\ line' = Released
    BY <1>2, <1>9, <2>1, TakesCommand
  <2>3. AtAddress'
    BY <1>1, <1>5, <1>9, <2>1, <2>2 DEF AtAddress, Addressed, Address, Command, Released
  <2> QED
    BY <1>1, <1>4, <1>9, <2>2, <2>3
    DEF Inv, AtIdle, AtRequest, AtDevsel, AtNobody, AtTrdy, AtEnd
<1>10. CASE at = "devsel" /\ Claimed(call)
  <2>1. m = Offered(1) /\ got = <<>> /\ Decoded /\ ToCome(1)
    BY <1>1, <1>10 DEF Inv, AtDevsel
  <2>2. 1 \in Nat \ {0} /\ 1 <= call.n /\ call \in Calls
    BY <1>2, <1>10, CallFacts
  <2>3. Shown(1)' /\ mem' \in [Cell -> [Lane -> Value]]
    <3>1. Typed /\ mem \in [Cell -> [Lane -> Value]]
      BY DEF Inv, Typed
    <3>2. CASE Turning
      BY <1>10, <2>1, <2>2, <3>1, <3>2, TurnsAround
    <3>3. CASE Retrying
      BY <2>1, <3>1, <3>3, ShowsRetry
    <3>4. CASE call.op = "write" /\ Serves(1)
      BY <1>10, <2>1, <2>2, <3>1, <3>4, WritesWord
    <3> QED
      BY <1>10, <2>1, <3>2, <3>3, <3>4 DEF Decoded
  <2>4. AtDevsel' /\ Claimed(call)'
    BY <1>1, <1>10, <2>1, <2>3 DEF AtDevsel, Offered, Claimed
  <2> QED
    BY <1>1, <1>3, <1>10, <2>3, <2>4
    DEF Inv, AtIdle, AtRequest, AtAddress, AtNobody, AtTrdy, AtEnd
<1>11. CASE at = "devsel" /\ ~Claimed(call)
  <2>1. m = Offered(1) /\ got = <<>> /\ ToCome(1) /\ (Quiet \/ Listens("BUS_BUSY"))
    BY <1>1, <1>11 DEF Inv, AtNobody
  <2>2. m.frame = "1"
    BY <1>2, <1>11, <2>1, CallFacts DEF Claimed, Offered
  <2>3. Quiet' /\ mem' = mem /\ line' = Released
    BY <2>1, <2>2, RestQuiet, RestBusy
  <2>4. AtNobody' /\ ~Claimed(call)'
    BY <1>1, <1>5, <1>11, <2>1, <2>3 DEF AtNobody, Offered, Claimed, Released
  <2> QED
    BY <1>1, <1>4, <1>11, <2>3, <2>4
    DEF Inv, AtIdle, AtRequest, AtAddress, AtDevsel, AtTrdy, AtEnd
<1>12. CASE at = "trdy"
  <2>1. PICK k \in Nat \ {0} : k = Len(got) + 1
    <3>1. Len(got) \in Nat
      BY DEF Inv, Typed
    <3> QED
      BY <3>1
  <2>2. /\ Claimed(call) /\ Len(got) < call.n /\ m = Offered(k) /\ Serves(k) /\ ToCome(k)
    BY <1>1, <1>12, <2>1 DEF Inv, AtTrdy
  <2>3. Typed /\ mem \in [Cell -> [Lane -> Value]] /\ call \in Calls /\ Len(got) \in Nat
    BY <1>2, <1>12 DEF Inv, Typed
  <2>4. call.n \in Nat /\ k <= call.n /\ call.op \in {"read", "write"}
    BY <2>1, <2>2, <2>3, CallFacts
  <2>5. Shown(k)' /\ mem' \in [Cell -> [Lane -> Value]]
    BY <2>2, <2>3, <2>4, ReadsWord, WritesWord
  <2>6. k = Len(got') + 1 /\ m' = Offered(k)' /\ Claimed(call)'
    BY <1>1, <2>1, <2>2 DEF Offered, Claimed
  <2>7. AtTrdy'
    BY <1>1, <2>2, <2>5, <2>6 DEF AtTrdy
  <2> QED
    BY <1>1, <1>3, <1>12, <2>5, <2>7
    DEF Inv, AtIdle, AtRequest, AtAddress, AtDevsel, AtNobody, AtEnd
<1>13. CASE at = "retry"
  <2>1. m = Undriven /\ got = <<>> /\ ToCome(1) /\ Retried
    BY <1>1, <1>13 DEF Inv, AtEnd
  <2>2. Settling' /\ mem' = mem
    BY <2>1, EndsRetry
  <2>3. AtEnd'
    BY <1>1, <1>5, <1>13, <2>1, <2>2 DEF AtEnd, Undriven
  <2> QED
    BY <1>1, <1>4, <1>13, <2>2, <2>3
    DEF Inv, AtIdle, AtRequest, AtAddress, AtDevsel, AtNobody, AtTrdy
<1>14. CASE at = "settle"
  <2>1. /\ m = Undriven /\ mem = asked /\ (Quiet \/ Ends)
        /\ IF Claimed(call) THEN result = "ok" /\ Len(got) = call.n ELSE result = "abort"
    BY <1>1, <1>14 DEF Inv, AtEnd
  <2>2. Quiet' /\ mem' = mem
    BY <2>1, RestQuiet, HandlerReturns DEF Undriven, Ends
  <2>3. AtEnd'
    BY <1>1, <1>14, <2>1, <2>2 DEF AtEnd, Undriven, Claimed
  <2> QED
    BY <1>1, <1>4, <1>14, <2>2, <2>3
    DEF Inv, AtIdle, AtRequest, AtAddress, AtDevsel, AtNobody, AtTrdy
<1> QED
  BY <1>6, <1>7, <1>8, <1>9, <1>10, <1>11, <1>12, <1>13, <1>14 DEF Inv, Typed

-----------------------------------------------------------------------------
(* The theorems                                                            *)

LEMMA InvInit == Init => Inv
<1> SUFFICES ASSUME Init PROVE Inv
  OBVIOUS
<1>1. Typed
  <2>1. Both(0) \in [Lane -> Value]
    BY DEF Both, Value
  <2>2. mem \in [Cell -> [Lane -> Value]] /\ asked \in [Cell -> [Lane -> Value]]
    BY <2>1 DEF Init
  <2>3. got \in Seq([Lane -> Value] \cup {None})
    BY DEF Init
  <2>4. turn \in BOOLEAN
    BY DEF Init
  <2> QED
    BY <2>2, <2>3, <2>4 DEF Init, Typed
<1>2. AtIdle
  BY DEF Init, AtIdle, Quiet, Listens, Answered
<1> QED
  BY <1>1, <1>2 DEF Init, Inv, AtRequest, AtAddress, AtDevsel, AtNobody, AtTrdy, AtEnd

LEMMA InvStep ==
  ASSUME ServedUse, Inv, [Next]_vars
  PROVE  Inv'
<1>1. CASE UNCHANGED vars
  <2>1. UNCHANGED <<turn, line, at, left, call, got, m, asked, result, targetVars, mem>>
    BY <1>1 DEF vars, masterVars, targetVars
  <2>2. Typed'
    BY <2>1 DEF Inv, Typed
  <2>3. PICK k : k = Len(got) + 1
    OBVIOUS
  <2>4. /\ (ToCome(1)' <=> ToCome(1)) /\ (Serves(k)' <=> Serves(k)) /\ (ToCome(k)' <=> ToCome(k))
    BY <2>1, Same
  <2>5. (Shown(1)' <=> Shown(1)) /\ (at = "trdy" => (Shown(k)' <=> Shown(k)))
    <3>1. at = "trdy" => k \in Nat
      BY <2>3 DEF Inv, Typed
    <3> QED
      BY <2>1, <3>1, SameShown
  <2>6. /\ AtIdle' /\ AtRequest' /\ AtEnd'
    BY <2>1, <2>4, Same DEF Inv, AtIdle, AtRequest, AtEnd, Answered, Claimed, Undriven
  <2>7. AtAddress'
    BY <2>1, <2>4, Same DEF Inv, AtAddress, Addressed, Address, Command, Released
  <2>8. AtDevsel' /\ AtNobody'
    BY <2>1, <2>4, <2>5, Same DEF Inv, AtDevsel, AtNobody, Offered, Claimed, Released
  <2>9. AtTrdy'
    BY <2>1, <2>3, <2>4, <2>5 DEF Inv, AtTrdy, Offered, Claimed
  <2> QED
    BY <2>2, <2>6, <2>7, <2>8, <2>9 DEF Inv
<1>2. CASE Next
  BY <1>2, StepIdle, StepCall, StepRequest, StepAddress, StepDac, StepSetup, StepDevsel,
     StepWord, StepWait, StepRetry, StepReturn, StepClock
  DEF Next, MasterStep
<1> QED
  BY <1>1, <1>2

(* Used as ServedUse says, master and target go through a transaction      *)
(* together: at every posedge the target is where the lines that the       *)
(* master looks at say it is.                                              *)
THEOREM Invariance ==
  ASSUME ServedUse
  PROVE  Spec => []Inv
  BY InvInit, InvStep, PTL DEF Spec

(* WrittenAsAsked, for any memory, bursts of any length and any byte       *)
(* enables: when a call is back the target's words are what the calls      *)
(* asked for.                                                              *)
THEOREM WrittenAsAskedHolds ==
  ASSUME ServedUse
  PROVE  Spec => []WrittenAsAsked
<1>1. Inv => WrittenAsAsked
  BY DEF Inv, AtIdle, WrittenAsAsked
<1> QED
  BY <1>1, Invariance, PTL

(* Answered, for any memory, waits for the bus and retries: a call to the  *)
(* target succeeds and a read returns the words that are there, one to     *)
(* nobody ends in a master abort.                                          *)
THEOREM AnsweredHolds ==
  ASSUME ServedUse
  PROVE  Spec => []Answered
<1>1. Inv => Answered
  BY DEF Inv, AtIdle, Answered
<1> QED
  BY <1>1, Invariance, PTL

(* Master and target never both drive the AD lines.                        *)
LEMMA OneDriver ==
  ASSUME ServedUse, Inv
  PROVE  t.ad = None \/ (m.addr = None /\ m.data = None)
<1>1. ASSUME Quiet \/ Settling \/ Selected \/ Retried \/ Ends \/ Listens("BUS_BUSY")
      PROVE  t.ad = None
  BY <1>1 DEF Quiet, Settling, Selected, Retried, Ends, Listens, Released, Deasserted, Claims
<1>2. ASSUME m = Undriven PROVE m.addr = None /\ m.data = None
  BY <1>2 DEF Undriven
<1>3. ASSUME NEW k, m = Offered(k), call.op = "read" PROVE m.addr = None /\ m.data = None
  BY <1>3 DEF Offered
<1>4. ASSUME call.op = "write", NEW k, Serves(k) PROVE t.ad = None
  BY <1>4 DEF Serves, Claims
<1>5. ASSUME Decoded PROVE t.ad = None
  BY <1>1, <1>4, <1>5 DEF Decoded, Turning, Retrying, Claims
<1>6. ASSUME NEW k, call.op = "write", Shown(k) PROVE t.ad = None
  BY <1>1, <1>4, <1>6 DEF Shown
<1>7. CASE at \in {"idle", "request", "retry", "settle"}
  BY <1>2, <1>7 DEF Inv, AtIdle, AtRequest, AtEnd
<1>8. CASE at \in {"dac", "address"}
  BY <1>1, <1>5, <1>8 DEF Inv, AtAddress
<1>9. CASE at \in {"devsel", "trdy"}
  <2>1. call.op \in {"read", "write"}
    BY <1>9, CallFacts DEF Inv, Typed
  <2>2. CASE call.op = "read"
    BY <1>3, <1>9, <2>2 DEF Inv, AtDevsel, AtNobody, AtTrdy
  <2>3. CASE call.op = "write"
    BY <1>1, <1>4, <1>5, <1>6, <1>9, <2>3 DEF Inv, AtDevsel, AtNobody, AtTrdy
  <2> QED
    BY <2>1, <2>2, <2>3
<1> QED
  BY <1>7, <1>8, <1>9 DEF Inv, Typed

(* Turnaround, for any calls that the target serves: the AD lines never    *)
(* pass from one driver to the other without a clock on which neither      *)
(* drives them.                                                            *)
THEOREM TurnaroundHolds ==
  ASSUME ServedUse
  PROVE  Spec => Turnaround
<1> DEFINE Single == t.ad = None \/ (m.addr = None /\ m.data = None)
<1>1. Inv => Single
  BY OneDriver
<1>2. Single /\ Single' /\ [Next]_vars =>
        [/\ m.addr # None \/ m.data # None => t'.ad = None
         /\ t.ad # None => m'.addr = None /\ m'.data = None]_vars
  <2> SUFFICES ASSUME Single, Single', Next
               PROVE  /\ m.addr # None \/ m.data # None => t'.ad = None
                      /\ t.ad # None => m'.addr = None /\ m'.data = None
    OBVIOUS
  <2>1. m' = m \/ t' = t
    BY DEF Next, MasterStep, Idle, Call, pci_request_bus, address_command, dac, setup,
           wait_for_devsel, word_done, wait_for_trdy, retry_read, Return, Clock,
           Master, masterVars, targetVars
  <2> QED
    BY <2>1
<1> HIDE DEF Single
<1> QED
  BY <1>1, <1>2, Invariance, PTL DEF Spec, Turnaround
=============================================================================
