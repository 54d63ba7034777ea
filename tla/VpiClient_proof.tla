--------------------------- MODULE VpiClient_proof ---------------------------
(***************************************************************************)
(* Proofs about VpiClient, for any simulators, busses and slots: a slot    *)
(* never blocks its simulator, and where the precision of the simulator is *)
(* the time unit the slots keep step with their busses.                    *)
(***************************************************************************)
EXTENDS VpiClient, NaturalsInduction, WellFoundedInduction, TLAPS

(* The earliest of some times is one of them.                              *)
LEMMA Earliest ==
  ASSUME NEW S, S \subseteq Nat, S # {}
  PROVE  Min(S) \in S
<1>1. PICK x \in S : \A y \in S : ~(<<y, x>> \in OpToRel(<, Nat))
  BY WFMin, NatLessThanWellFounded
<1>2. \A y \in S : ~(y < x)
  BY <1>1 DEF OpToRel
<1>3. \A y \in S : x <= y
  BY <1>2
<1> QED
  BY <1>3 DEF Min

LEMMA Product ==
  ASSUME NEW a \in Nat, NEW b \in Nat
  PROVE  a * b \in Nat
  OBVIOUS

LEMMA NoneOfThree ==
  ASSUME NEW a \in Nat, NEW b \in Nat, NEW c \in Nat, a + b + c = 0
  PROVE  b = 0 /\ c = 0
  OBVIOUS

-----------------------------------------------------------------------------
(* Types                                                                   *)

LEMMA TypeInit == Init => TypeOK
  BY VpiConstantsOK DEF VpiConstantsOK, Init, TypeOK

(* The delay to the time of an UNTIL is not negative.                      *)
LEMMA DelayType ==
  ASSUME TypeOK, NEW t \in Nat, NEW m \in Sim
  PROVE  now[m] + Unit * deltatime(t, m) \in Nat
<1>1. now[m] \in Nat
  BY DEF TypeOK
<1>2. deltatime(t, m) \in Nat
  BY <1>1 DEF deltatime
<1>3. Unit * deltatime(t, m) \in Nat
  BY <1>2, Product, VpiConstantsOK DEF VpiConstantsOK
<1> QED
  BY <1>1, <1>3

LEMMA FinishType ==
  ASSUME TypeOK, NEW m \in Sim, Finish(m)
  PROVE  /\ pc' \in [Slot -> {"connect", "delay", "poll", "wait", "done"}]
         /\ inst_trig' \in [Slot -> BOOLEAN]
         /\ cbs' \in [Sim -> Nat] /\ batch' \in [Sim -> Nat]
  BY DEF Finish, TypeOK

LEMMA TypeStep == TypeOK /\ [Next]_vars => TypeOK'
<1> SUFFICES ASSUME TypeOK, [Next]_vars PROVE TypeOK'
  OBVIOUS
<1> USE VpiConstantsOK DEF VpiConstantsOK
<1>1. ASSUME NEW s \in Slot, simbus_connect_calltf(s) PROVE TypeOK'
  <2>1. CASE pc' = [pc EXCEPT ![s] = "delay"] /\ wake' = [wake EXCEPT ![s] = Unit]
             /\ greeted' = greeted \cup {s} /\ UNCHANGED <<inst_trig, cbs, batch, server>>
    BY <1>1, <2>1 DEF simbus_connect_calltf, TypeOK
  <2>2. CASE Finish(SimOf[s]) /\ UNCHANGED <<wake, greeted>> /\ server' \in {"refused", server}
    BY <1>1, <2>2, FinishType DEF simbus_connect_calltf, TypeOK
  <2> QED
    BY <1>1, <2>1, <2>2 DEF simbus_connect_calltf
<1>2. ASSUME NEW s \in Slot, simbus_ready_calltf(s) PROVE TypeOK'
  <2>1. CASE pc' = [pc EXCEPT ![s] = "poll"] /\ UNCHANGED <<inst_trig, cbs, batch>>
             /\ ready' = [ready EXCEPT ![BusOf[s]] = @ \cup {s}]
    BY <1>2, <2>1 DEF simbus_ready_calltf, TypeOK
  <2>2. CASE Finish(SimOf[s]) /\ UNCHANGED ready
    BY <1>2, <2>2, FinishType DEF simbus_ready_calltf, TypeOK
  <2> QED
    BY <1>2, <2>1, <2>2 DEF simbus_ready_calltf
<1>3. ASSUME NEW s \in Slot, simbus_poll_calltf(s) PROVE TypeOK'
  BY <1>3 DEF simbus_poll_calltf, poll_trig, check_readable, TypeOK, busVars
<1>4. ASSUME NEW s \in Slot, simbus_until_calltf(s) PROVE TypeOK'
  <2> DEFINE m == SimOf[s]
             fil == IF check_readable(buf[s]) THEN buf[s] ELSE buf[s] + sock[s]
  <2>1. buf' \in [Slot -> Nat]
    <3>1. fil = Pieces
      BY <1>4 DEF simbus_until_calltf, check_readable
    <3> QED
      BY <1>4, <3>1 DEF simbus_until_calltf, line_taken, Pieces, TypeOK
  <2>2. sock' \in [Slot -> Nat]
    BY <1>4 DEF simbus_until_calltf, TypeOK
  <2>3. CASE msg[s] = FINISH /\ Finish(m) /\ UNCHANGED <<until, wake>>
    BY <1>4, <2>1, <2>2, <2>3, FinishType DEF simbus_until_calltf, TypeOK, busVars
  <2>4. CASE msg[s] # FINISH
    <3>1. msg[s] \in Nat /\ m \in Sim
      BY <2>4 DEF TypeOK
    <3>2. now[m] + Unit * deltatime(msg[s], m) \in Nat
      BY <3>1, DelayType
    <3>3. wake' \in [Slot -> Nat]
      BY <1>4, <2>4, <3>2 DEF simbus_until_calltf, TypeOK
    <3> QED
      BY <1>4, <2>1, <2>2, <2>4, <3>1, <3>3 DEF simbus_until_calltf, TypeOK, busVars
  <2> QED
    BY <1>4, <2>3, <2>4 DEF simbus_until_calltf
<1>5. ASSUME NEW m \in Sim, ReadWriteSynch(m) PROVE TypeOK'
  BY <1>5 DEF ReadWriteSynch, slotVars, TypeOK, busVars
<1>6. ASSUME NEW m \in Sim, poll_for_simbus_bus(m) PROVE TypeOK'
  BY <1>6 DEF poll_for_simbus_bus, registered_again, TypeOK, busVars
<1>7. ASSUME NEW m \in Sim, AdvanceTime(m) PROVE TypeOK'
  <2> DEFINE delays == {wake[s] : s \in {s \in SlotsOf(m) : pc[s] = "delay"}}
  <2>0. \A s \in Slot : wake[s] \in Nat
    BY DEF TypeOK
  <2>1. delays \subseteq Nat /\ delays # {}
    BY <1>7, <2>0 DEF AdvanceTime, SlotsOf
  <2>2. Min(delays) \in Nat
    BY <2>1, Earliest
  <2>3. now' \in [Sim -> Nat]
    BY <1>7, <2>2 DEF AdvanceTime, TypeOK
  <2> QED
    BY <1>7, <2>3 DEF AdvanceTime, slotVars, TypeOK, busVars
<1>8. ASSUME NEW b \in Bus, bus_step(b) PROVE TypeOK'
  BY <1>8 DEF bus_step, slotVars, simVars, Pieces, TypeOK
<1>9. ASSUME NEW s \in Slot, Arrive(s) PROVE TypeOK'
  BY <1>9 DEF Arrive, slotVars, simVars, TypeOK, busVars
<1>10. CASE UNCHANGED vars
  BY <1>10 DEF vars, slotVars, simVars, TypeOK, busVars
<1>11. CASE server_abort
  BY <1>11 DEF server_abort, slotVars, simVars, TypeOK
<1> QED
  BY <1>1, <1>2, <1>3, <1>4, <1>5, <1>6, <1>7, <1>8, <1>9, <1>10, <1>11
  DEF Next, Simulator, SlotsOf, Stopped


-----------------------------------------------------------------------------
(* The callback                                                            *)

(* A simulator that ends leaves nothing that waits in it.                  *)
LEMMA FinishPolled ==
  ASSUME TypeOK, Polled, UntilNeverBlocks, NEW m \in Sim, Finish(m), UNCHANGED trig,
         \A s \in Slot : SimOf[s] # m => buf'[s] = buf[s]
  PROVE  Polled' /\ UntilNeverBlocks'
  BY VpiConstantsOK DEF VpiConstantsOK, Finish, TypeOK, Polled, UntilNeverBlocks, check_readable

LEMMA PolledStep == Polling /\ [Next]_vars => Polled' /\ UntilNeverBlocks'
<1> SUFFICES ASSUME Polling, [Next]_vars PROVE Polled' /\ UntilNeverBlocks'
  OBVIOUS
<1> USE VpiConstantsOK DEF VpiConstantsOK, Polling, check_readable
<1>1. ASSUME NEW s \in Slot, simbus_connect_calltf(s) PROVE Polled' /\ UntilNeverBlocks'
  <2>1. CASE pc' = [pc EXCEPT ![s] = "delay"] /\ UNCHANGED <<inst_trig, cbs, batch>>
    BY <1>1, <2>1 DEF simbus_connect_calltf, TypeOK, Polled, UntilNeverBlocks
  <2>2. CASE Finish(SimOf[s])
    BY <1>1, <2>2, FinishPolled DEF simbus_connect_calltf, TypeOK
  <2> QED
    BY <1>1, <2>1, <2>2 DEF simbus_connect_calltf
<1>2. ASSUME NEW s \in Slot, simbus_ready_calltf(s) PROVE Polled' /\ UntilNeverBlocks'
  <2>1. CASE pc' = [pc EXCEPT ![s] = "poll"] /\ UNCHANGED <<inst_trig, cbs, batch>>
    BY <1>2, <2>1 DEF simbus_ready_calltf, TypeOK, Polled, UntilNeverBlocks
  <2>2. CASE Finish(SimOf[s])
    BY <1>2, <2>2, FinishPolled DEF simbus_ready_calltf, TypeOK
  <2> QED
    BY <1>2, <2>1, <2>2 DEF simbus_ready_calltf
<1>3. ASSUME NEW s \in Slot, simbus_poll_calltf(s) PROVE Polled' /\ UntilNeverBlocks'
  <2>1. /\ trig' = [trig EXCEPT ![s] = buf[s] = Pieces]
        /\ inst_trig' = [inst_trig EXCEPT ![s] = ~(buf[s] = Pieces)]
        /\ pc' = [pc EXCEPT ![s] = "wait"]
        /\ UNCHANGED <<batch, buf>>
    BY <1>3 DEF simbus_poll_calltf, poll_trig
  <2>2. /\ \A m \in Sim : cbs[m] > 0 => cbs'[m] > 0
        /\ buf[s] # Pieces => cbs'[SimOf[s]] > 0
    BY <1>3 DEF simbus_poll_calltf, TypeOK
  <2>3. \A t \in Slot \ {s} : trig'[t] = trig[t] /\ inst_trig'[t] = inst_trig[t] /\ pc'[t] = pc[t]
    BY <2>1 DEF TypeOK
  <2>4. trig'[s] = (buf[s] = Pieces) /\ inst_trig'[s] = (buf[s] # Pieces) /\ pc'[s] = "wait"
    BY <2>1 DEF TypeOK
  <2>5. Polled'
    BY <2>1, <2>2, <2>3, <2>4, ZenonT(30) DEF TypeOK, Polled
  <2>6. UntilNeverBlocks'
    BY <2>1, <2>3, <2>4, ZenonT(30) DEF UntilNeverBlocks
  <2> QED
    BY <2>5, <2>6
<1>4. ASSUME NEW s \in Slot, simbus_until_calltf(s) PROVE Polled' /\ UntilNeverBlocks'
  <2>1. \A t \in Slot \ {s} : buf'[t] = buf[t]
    BY <1>4 DEF simbus_until_calltf, TypeOK
  <2>2. CASE Finish(SimOf[s])
    BY <1>4, <2>1, <2>2, FinishPolled DEF simbus_until_calltf, TypeOK
  <2>3. CASE /\ pc' = [pc EXCEPT ![s] = "delay"]
             /\ inst_trig' = [inst_trig EXCEPT ![s] = FALSE]
             /\ UNCHANGED <<cbs, batch>>
    BY <1>4, <2>1, <2>3 DEF simbus_until_calltf, TypeOK, Polled, UntilNeverBlocks
  <2> QED
    BY <1>4, <2>2, <2>3 DEF simbus_until_calltf
<1>5. ASSUME NEW m \in Sim, ReadWriteSynch(m) PROVE Polled' /\ UntilNeverBlocks'
  BY <1>5 DEF ReadWriteSynch, slotVars, TypeOK, Polled, UntilNeverBlocks
<1>6. ASSUME NEW m \in Sim, poll_for_simbus_bus(m) PROVE Polled' /\ UntilNeverBlocks'
  BY <1>6 DEF poll_for_simbus_bus, registered_again, SlotsOf, TypeOK, Polled, UntilNeverBlocks
<1>7. ASSUME NEW m \in Sim, AdvanceTime(m) PROVE Polled' /\ UntilNeverBlocks'
  BY <1>7 DEF AdvanceTime, slotVars, Polled, UntilNeverBlocks
<1>8. ASSUME NEW b \in Bus, bus_step(b) PROVE Polled' /\ UntilNeverBlocks'
  BY <1>8 DEF bus_step, slotVars, simVars, Polled, UntilNeverBlocks
<1>9. ASSUME NEW s \in Slot, Arrive(s) PROVE Polled' /\ UntilNeverBlocks'
  BY <1>9 DEF Arrive, slotVars, simVars, Polled, UntilNeverBlocks
<1>10. CASE UNCHANGED vars
  BY <1>10 DEF vars, slotVars, simVars, Polled, UntilNeverBlocks
<1>11. CASE server_abort
  BY <1>11 DEF server_abort, slotVars, simVars, Polled, UntilNeverBlocks
<1> QED
  BY <1>1, <1>2, <1>3, <1>4, <1>5, <1>6, <1>7, <1>8, <1>9, <1>10, <1>11
  DEF Next, Simulator, SlotsOf, Stopped

(* The types are right in every state.                                     *)
THEOREM TypeCorrect == Spec => []TypeOK
<1> QED
  BY TypeInit, TypeStep, PTL DEF Spec

(* The slots that wait without their message are those the callback looks  *)
(* at, it stays registered while there is one, and a slot that has been    *)
(* triggered has a whole message.                                          *)
THEOREM PollingHolds == Spec => []Polling
<1>1. Init => Polling
  BY TypeInit DEF Init, Polling, Polled, UntilNeverBlocks
<1>2. Polling /\ [Next]_vars => Polling'
  BY TypeStep, PolledStep DEF Polling
<1> QED
  BY <1>1, <1>2, PTL DEF Spec

(* UntilNeverBlocks holds for any simulators, busses and slots, whatever   *)
(* the precision: a slot that passes its wait has its whole message, so    *)
(* $simbus_until does not hold up the other slots of the simulator.        *)
THEOREM UntilNeverBlocksHolds == Spec => []UntilNeverBlocks
<1>1. Polling => UntilNeverBlocks
  BY DEF Polling
<1> QED
  BY <1>1, PollingHolds, PTL

-----------------------------------------------------------------------------
(* Messages and times                                                      *)

(* The message is in the buffer when the slot takes it.                    *)
LEMMA LineTaken ==
  ASSUME TypeOK, NEW s \in Slot, simbus_until_calltf(s), buf[s] = Pieces
  PROVE  buf' = [buf EXCEPT ![s] = 0] /\ sock' = sock
<1>1. /\ buf' = [buf EXCEPT ![s] = buf[s] - Pieces]
      /\ sock' = [sock EXCEPT ![s] = sock[s] + buf[s] - buf[s]]
  BY DEF simbus_until_calltf, line_taken, check_readable
<1>2. buf[s] - Pieces = 0 /\ sock[s] + buf[s] - buf[s] = sock[s]
  BY DEF TypeOK, Pieces
<1> QED
  BY <1>1, <1>2 DEF TypeOK

LEMMA AnswersStep == Inv /\ [Next]_vars => Answers'
<1> SUFFICES ASSUME Inv, [Next]_vars PROVE Answers'
  OBVIOUS
<1> USE VpiConstantsOK DEF VpiConstantsOK, Inv, Polling, check_readable, Pieces
<1>1. ASSUME NEW s \in Slot, simbus_connect_calltf(s) PROVE Answers'
  <2>1. \A t \in Slot : pc'[t] = pc[t] \/ pc'[t] = "done" \/ t = s
    BY <1>1 DEF simbus_connect_calltf, Finish, TypeOK
  <2> QED
    BY <1>1, <2>1 DEF simbus_connect_calltf, TypeOK, Answers
<1>2. ASSUME NEW s \in Slot, simbus_ready_calltf(s) PROVE Answers'
  <2>1. CASE /\ pc' = [pc EXCEPT ![s] = "poll"]
             /\ ready' = [ready EXCEPT ![BusOf[s]] = @ \cup {s}]
    BY <1>2, <2>1 DEF simbus_ready_calltf, TypeOK, Answers
  <2>2. CASE Finish(SimOf[s]) /\ UNCHANGED ready
    BY <1>2, <2>2 DEF simbus_ready_calltf, Finish, TypeOK, Answers
  <2> QED
    BY <1>2, <2>1, <2>2 DEF simbus_ready_calltf
<1>3. ASSUME NEW s \in Slot, simbus_poll_calltf(s) PROVE Answers'
  BY <1>3 DEF simbus_poll_calltf, TypeOK, Answers, busVars
<1>4. ASSUME NEW s \in Slot, simbus_until_calltf(s) PROVE Answers'
  <2>1. \A t \in Slot \ {s} : pc'[t] = pc[t] \/ pc'[t] = "done"
    BY <1>4 DEF simbus_until_calltf, Finish, TypeOK
  <2>2. buf[s] = Pieces
    BY <1>4 DEF simbus_until_calltf, UntilNeverBlocks
  <2>3. buf' = [buf EXCEPT ![s] = 0] /\ sock' = sock
    BY <1>4, <2>2, LineTaken
  <2>4. UNCHANGED <<net, ready>>
    BY <1>4 DEF simbus_until_calltf, busVars
  <2>5. pc[s] # "done"
    BY <1>4 DEF simbus_until_calltf
  <2> QED
    <3>1. net[s] + sock[s] + buf[s] = 2 /\ s \notin ready[BusOf[s]]
      BY <2>2, <2>5 DEF Answers, TypeOK
    <3>2. net'[s] + sock'[s] + buf'[s] = 0 /\ s \notin ready'[BusOf[s]]
      BY <2>2, <2>3, <2>4, <3>1, SMTT(30) DEF TypeOK
    <3>3. \A t \in Slot \ {s} :
            UNCHANGED <<net[t], sock[t], buf[t], ready[BusOf[t]]>>
      BY <2>3, <2>4 DEF TypeOK
    <3> QED
      BY <2>1, <3>2, <3>3 DEF Answers
<1>5. ASSUME NEW m \in Sim, ReadWriteSynch(m) PROVE Answers'
  BY <1>5 DEF ReadWriteSynch, slotVars, Answers, busVars
<1>6. ASSUME NEW m \in Sim, poll_for_simbus_bus(m) PROVE Answers'
  <2>1. \A s \in Slot : net'[s] + sock'[s] + buf'[s] = net[s] + sock[s] + buf[s]
    BY <1>6 DEF poll_for_simbus_bus, SlotsOf, TypeOK
  <2>2. UNCHANGED <<pc, net, ready>>
    BY <1>6 DEF poll_for_simbus_bus, busVars
  <2> QED
    BY <2>1, <2>2 DEF Answers
<1>7. ASSUME NEW m \in Sim, AdvanceTime(m) PROVE Answers'
  BY <1>7 DEF AdvanceTime, slotVars, Answers, busVars
<1>8. ASSUME NEW b \in Bus, bus_step(b) PROVE Answers'
  <2>1. \A s \in Slot : BusOf[s] = b /\ pc[s] # "done" =>
          s \in ready[b] /\ net'[s] = Pieces /\ UNCHANGED <<sock[s], buf[s]>>
    BY <1>8 DEF bus_step, AllReady, Devices
  <2>2. \A s \in Slot : BusOf[s] # b =>
          UNCHANGED <<net[s], sock[s], buf[s], ready[BusOf[s]]>>
    BY <1>8 DEF bus_step, Devices, TypeOK
  <2>3. UNCHANGED pc /\ ready'[b] = {}
    BY <1>8 DEF bus_step, slotVars, TypeOK
  <2>4. \A s \in Slot : BusOf[s] = b /\ pc[s] # "done" =>
          net'[s] + sock'[s] + buf'[s] = 2 /\ pc[s] \notin {"connect", "delay"}
    <3>1. \A s \in Slot : BusOf[s] = b /\ pc[s] # "done" =>
            net[s] + sock[s] + buf[s] = 0 /\ pc[s] \notin {"connect", "delay"}
      BY <2>1 DEF TypeOK, Answers
    <3>2. \A s \in Slot : BusOf[s] = b /\ pc[s] # "done" => sock[s] = 0 /\ buf[s] = 0
      <4> SUFFICES ASSUME NEW s \in Slot, net[s] + sock[s] + buf[s] = 0
                   PROVE  sock[s] = 0 /\ buf[s] = 0
        BY <3>1
      <4>1. net[s] \in Nat /\ sock[s] \in Nat /\ buf[s] \in Nat
        BY DEF TypeOK
      <4> QED
        BY <4>1, NoneOfThree
    <3> QED
      BY <2>1, <3>1, <3>2
  <2> QED
    BY <2>2, <2>3, <2>4 DEF Answers
<1>9. ASSUME NEW s \in Slot, Arrive(s) PROVE Answers'
  BY <1>9 DEF Arrive, slotVars, simVars, TypeOK, Answers, busVars
<1>10. CASE UNCHANGED vars
  BY <1>10 DEF vars, slotVars, simVars, Answers, busVars
<1>11. CASE server_abort
  BY <1>11 DEF server_abort, slotVars, Answers
<1> QED
  BY <1>1, <1>2, <1>3, <1>4, <1>5, <1>6, <1>7, <1>8, <1>9, <1>10, <1>11
  DEF Next, Simulator, SlotsOf, Stopped

LEMMA OnwardStep == Inv /\ [Next]_vars => Onward'
<1> SUFFICES ASSUME Inv, [Next]_vars PROVE Onward'
  OBVIOUS
<1> USE VpiConstantsOK DEF VpiConstantsOK, Inv, Polling, check_readable, Pieces, FINISH
<1>1. ASSUME NEW s \in Slot, simbus_connect_calltf(s) PROVE Onward'
  <2>1. \A t \in Slot : pc'[t] = pc[t] \/ pc'[t] \in {"done", "delay"}
    BY <1>1 DEF simbus_connect_calltf, Finish, TypeOK
  <2>2. \A t \in Slot : pc'[t] # "done" => pc[t] # "done"
    BY <1>1 DEF simbus_connect_calltf, Finish, TypeOK
  <2> QED
    BY <1>1, <2>1, <2>2 DEF simbus_connect_calltf, TypeOK, Onward
<1>2. ASSUME NEW s \in Slot, simbus_ready_calltf(s) PROVE Onward'
  <2>1. \A t \in Slot : pc'[t] = pc[t] \/ pc'[t] \in {"done", "poll"}
    BY <1>2 DEF simbus_ready_calltf, Finish, TypeOK
  <2>2. \A t \in Slot : pc'[t] # "done" => pc[t] # "done"
    BY <1>2 DEF simbus_ready_calltf, Finish, TypeOK
  <2> QED
    BY <1>2, <2>1, <2>2 DEF simbus_ready_calltf, Onward
<1>3. ASSUME NEW s \in Slot, simbus_poll_calltf(s) PROVE Onward'
  BY <1>3 DEF simbus_poll_calltf, TypeOK, Onward, busVars
<1>4. ASSUME NEW s \in Slot, simbus_until_calltf(s) PROVE Onward'
  <2>2. buf[s] = Pieces /\ pc[s] # "done"
    BY <1>4 DEF simbus_until_calltf, UntilNeverBlocks
  <2>3. buf' = [buf EXCEPT ![s] = 0] /\ sock' = sock
    BY <1>4, <2>2, LineTaken
  <2>4. UNCHANGED <<net, msg, time>>
    BY <1>4 DEF simbus_until_calltf, busVars
  <2>5. net[s] + sock[s] = 0
    <3>1. net[s] + sock[s] + buf[s] \in {0, 2}
      BY <2>2 DEF Answers
    <3> QED
      BY <2>2, <3>1 DEF TypeOK
  <2>6. CASE Finish(SimOf[s]) /\ UNCHANGED until
    BY <2>3, <2>4, <2>6 DEF Finish, TypeOK, Onward
  <2>7. CASE msg[s] # FINISH
    <3>1. until' = [until EXCEPT ![s] = msg[s]] /\ pc' = [pc EXCEPT ![s] = "delay"]
      BY <1>4, <2>7 DEF simbus_until_calltf
    <3>2. msg[s] <= time[BusOf[s]] /\ msg[s] \in Nat
      BY <2>2, <2>7 DEF Onward, TypeOK
    <3> QED
      BY <2>2, <2>3, <2>4, <2>5, <3>1, <3>2 DEF TypeOK, Onward
  <2> QED
    BY <1>4, <2>6, <2>7 DEF simbus_until_calltf
<1>5. ASSUME NEW m \in Sim, ReadWriteSynch(m) PROVE Onward'
  BY <1>5 DEF ReadWriteSynch, slotVars, Onward, busVars
<1>6. ASSUME NEW m \in Sim, poll_for_simbus_bus(m) PROVE Onward'
  <2>1. \A s \in Slot : net'[s] + sock'[s] + buf'[s] = net[s] + sock[s] + buf[s]
    BY <1>6 DEF poll_for_simbus_bus, SlotsOf, TypeOK
  <2>2. UNCHANGED <<pc, until, msg, time>>
    BY <1>6 DEF poll_for_simbus_bus, busVars
  <2> QED
    BY <2>1, <2>2 DEF Onward
<1>7. ASSUME NEW m \in Sim, AdvanceTime(m) PROVE Onward'
  BY <1>7 DEF AdvanceTime, slotVars, Onward, busVars
<1>8. ASSUME NEW b \in Bus, bus_step(b) PROVE Onward'
  <2>1. \A s \in Slot : BusOf[s] = b /\ pc[s] # "done" =>
          s \in ready[b] /\ msg'[s] \in {FINISH, time'[b]}
    BY <1>8 DEF bus_step, AllReady, Devices
  <2>2. \A s \in Slot : BusOf[s] # b =>
          UNCHANGED <<net[s], sock[s], buf[s], msg[s], time[BusOf[s]]>>
    BY <1>8 DEF bus_step, Devices, TypeOK
  <2>3. UNCHANGED <<pc, until>>
    BY <1>8 DEF bus_step, slotVars
  <2>4. time'[b] \in Nat /\ time[b] \in Nat /\ time'[b] >= time[b]
    BY <1>8 DEF bus_step, TypeOK
  <2>5. \A s \in Slot : BusOf[s] = b /\ pc[s] # "done" /\ msg'[s] # FINISH =>
          until[s] <= time'[b] /\ msg'[s] = time'[b]
    <3>1. ~ended'[b] => time'[b] = time[b] + Period[b]
      BY <1>8 DEF bus_step, TypeOK
    <3>2. \A s \in Slot : BusOf[s] = b /\ pc[s] # "done" /\ msg'[s] # FINISH => ~ended'[b]
      BY <1>8 DEF bus_step, Devices
    <3>3. Period[b] \in Nat /\ Period[b] >= 1
      OBVIOUS
    <3> QED
      BY <2>1, <2>4, <3>1, <3>2, <3>3 DEF Onward, TypeOK
  <2>6. \A s \in Slot : pc[s] # "connect" \/ until[s] = 1 \/ pc[s] = "done"
    BY DEF Onward
  <2>7. \A s \in Slot : BusOf[s] = b /\ pc[s] # "done" => until[s] <= time'[b] + 1
    BY <2>4 DEF Onward, TypeOK
  <2> QED
    BY <2>2, <2>3, <2>4, <2>5, <2>6, <2>7 DEF Onward
<1>9. ASSUME NEW s \in Slot, Arrive(s) PROVE Onward'
  <2>1. \A t \in Slot : net'[t] + sock'[t] + buf'[t] = net[t] + sock[t] + buf[t]
    BY <1>9 DEF Arrive, TypeOK
  <2>2. UNCHANGED <<pc, until, msg, time>>
    BY <1>9 DEF Arrive, slotVars, busVars
  <2> QED
    BY <2>1, <2>2 DEF Onward
<1>10. CASE UNCHANGED vars
  BY <1>10 DEF vars, slotVars, simVars, Onward, busVars
<1>11. CASE server_abort
  BY <1>11 DEF server_abort, slotVars, Onward
<1> QED
  BY <1>1, <1>2, <1>3, <1>4, <1>5, <1>6, <1>7, <1>8, <1>9, <1>10, <1>11
  DEF Next, Simulator, SlotsOf, Stopped

(* Time advances only in a simulator none of whose slots waits.            *)
LEMMA NoneWaits ==
  ASSUME Polling, NEW m \in Sim, AdvanceTime(m), NEW s \in Slot, SimOf[s] = m
  PROVE  pc[s] \notin {"poll", "wait"}
  BY DEF Polling, TypeOK, Polled, AdvanceTime, Active, SlotsOf

LEMMA InStepStep == Unit = 1 /\ Inv /\ [Next]_vars => InStep' /\ TimeStandsStill'
<1> SUFFICES ASSUME Unit = 1, Inv, [Next]_vars PROVE InStep' /\ TimeStandsStill'
  OBVIOUS
<1> USE VpiConstantsOK DEF VpiConstantsOK, Inv, Polling, InStep, TimeStandsStill
<1>1. ASSUME NEW s \in Slot, simbus_connect_calltf(s) PROVE InStep' /\ TimeStandsStill'
  BY <1>1 DEF simbus_connect_calltf, Finish, TypeOK, Onward
<1>2. ASSUME NEW s \in Slot, simbus_ready_calltf(s) PROVE InStep' /\ TimeStandsStill'
  BY <1>2 DEF simbus_ready_calltf, Finish, TypeOK
<1>3. ASSUME NEW s \in Slot, simbus_poll_calltf(s) PROVE InStep' /\ TimeStandsStill'
  BY <1>3 DEF simbus_poll_calltf, TypeOK
<1>4. ASSUME NEW s \in Slot, simbus_until_calltf(s) PROVE InStep' /\ TimeStandsStill'
  <2>1. buf[s] = Pieces /\ pc[s] = "wait" /\ UNCHANGED now
    BY <1>4 DEF simbus_until_calltf, UntilNeverBlocks, check_readable
  <2>2. CASE Finish(SimOf[s]) /\ UNCHANGED <<until, wake>>
    BY <2>1, <2>2 DEF Finish, TypeOK
  <2>3. CASE msg[s] # FINISH
    <3> DEFINE m == SimOf[s]
    <3>1. /\ until' = [until EXCEPT ![s] = msg[s]]
          /\ wake' = [wake EXCEPT ![s] = now[m] + Unit * deltatime(msg[s], m)]
          /\ pc' = [pc EXCEPT ![s] = "delay"]
      BY <1>4, <2>3 DEF simbus_until_calltf
    <3>2. until[s] <= msg[s] /\ msg[s] \in Nat
      BY <2>1, <2>3 DEF Onward, TypeOK, Pieces
    <3>3. now[m] = until[s] /\ until[s] \in Nat
      BY <2>1 DEF TypeOK
    <3>4. now[m] + Unit * deltatime(msg[s], m) = msg[s]
      BY <3>2, <3>3 DEF deltatime
    <3> QED
      BY <2>1, <3>1, <3>2, <3>4 DEF TypeOK
  <2> QED
    BY <1>4, <2>2, <2>3 DEF simbus_until_calltf
<1>5. ASSUME NEW m \in Sim, ReadWriteSynch(m) PROVE InStep' /\ TimeStandsStill'
  BY <1>5 DEF ReadWriteSynch, slotVars
<1>6. ASSUME NEW m \in Sim, poll_for_simbus_bus(m) PROVE InStep' /\ TimeStandsStill'
  BY <1>6 DEF poll_for_simbus_bus
<1>7. ASSUME NEW m \in Sim, AdvanceTime(m) PROVE InStep' /\ TimeStandsStill'
  <2>1. \A s \in Slot : pc[s] \in {"poll", "wait"} => SimOf[s] # m
    BY <1>7, NoneWaits
  <2>2. UNCHANGED <<pc, wake, until>> /\ \A n \in Sim \ {m} : now'[n] = now[n]
    BY <1>7 DEF AdvanceTime, slotVars, TypeOK
  <2> QED
    BY <2>1, <2>2
<1>8. ASSUME NEW b \in Bus, bus_step(b) PROVE InStep' /\ TimeStandsStill'
  BY <1>8 DEF bus_step, slotVars, simVars
<1>9. ASSUME NEW s \in Slot, Arrive(s) PROVE InStep' /\ TimeStandsStill'
  BY <1>9 DEF Arrive, slotVars, simVars
<1>10. CASE UNCHANGED vars
  BY <1>10 DEF vars, slotVars, simVars
<1>11. CASE server_abort
  BY <1>11 DEF server_abort, slotVars, simVars
<1> QED
  BY <1>1, <1>2, <1>3, <1>4, <1>5, <1>6, <1>7, <1>8, <1>9, <1>10, <1>11
  DEF Next, Simulator, SlotsOf, Stopped

(* The invariant of a simulator whose precision is its time unit.          *)
THEOREM Invariance ==
  ASSUME Unit = 1
  PROVE  Spec => []Inv
<1>1. Init => Inv
  <2> SUFFICES ASSUME Init PROVE Inv
    OBVIOUS
  <2>1. Polling
    BY TypeInit DEF Init, Polling, Polled, UntilNeverBlocks
  <2> QED
    BY <2>1, VpiConstantsOK
    DEF VpiConstantsOK, Init, Inv, Answers, Onward, InStep, TimeStandsStill
<1>2. Inv /\ [Next]_vars => Inv'
  BY TypeStep, PolledStep, AnswersStep, OnwardStep, InStepStep DEF Inv, Polling
<1> QED
  BY <1>1, <1>2, PTL DEF Spec

(* InStep: with the precision equal to the time unit, every delay of a     *)
(* slot ends at the time of its last UNTIL, for any simulators, busses,    *)
(* slots and periods.  VpiPrecision.cfg shows that a finer precision       *)
(* breaks this.                                                            *)
THEOREM InStepHolds ==
  ASSUME Unit = 1
  PROVE  Spec => []InStep
<1>1. Inv => InStep
  BY DEF Inv
<1> QED
  BY <1>1, Invariance, PTL

(* TimeStandsStill: with the precision equal to the time unit, the time of *)
(* a simulator is the one of the last UNTIL of each slot that waits.       *)
THEOREM TimeStandsStillHolds ==
  ASSUME Unit = 1
  PROVE  Spec => []TimeStandsStill
<1>1. Inv => TimeStandsStill
  BY DEF Inv
<1> QED
  BY <1>1, Invariance, PTL
=============================================================================
