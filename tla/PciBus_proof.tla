---------------------------- MODULE PciBus_proof ----------------------------
(***************************************************************************)
(* Proofs about PciBus, for every set of devices, both parking modes and   *)
(* transactions of any length.                                             *)
(***************************************************************************)
EXTENDS PciBus, TLAPS, FiniteSetTheorems, SequenceTheorems, WellFoundedInduction

(* The search of the round robin ends at one of the requesters, and passes *)
(* none.                                                                   *)
LEMMA NearestRequester ==
  ASSUME NEW from \in 0..(Slots - 1), NEW D, D \subseteq Dev, D # {}
  PROVE  /\ Nearest(from, D) \in D
         /\ \A e \in D : Distance(from, Nearest(from, D)) <= Distance(from, e)
<1> DEFINE T == {Distance(from, d) : d \in D}
<1>1. \A d \in D : Distance(from, d) \in Nat
  BY ArbiterConstantsOK DEF ArbiterConstantsOK, Distance, Slots
<1>2. T \subseteq Nat /\ T # {}
  BY <1>1
<1>3. PICK x \in T : \A y \in T : ~ (<<y, x>> \in OpToRel(<, Nat))
  BY <1>2, WFMin, NatLessThanWellFounded
<1>4. \A y \in T : ~ (y < x)
  BY <1>2, <1>3 DEF OpToRel
<1>5. \E d \in D : \A e \in D : Distance(from, d) <= Distance(from, e)
  BY <1>1, <1>4
<1> QED
  BY <1>5 DEF Nearest

(* A line that a single device drives has that device's value.             *)
LEMMA BlendSole ==
  ASSUME NEW out \in [Dev -> Bit], NEW d \in Dev, out[d] # "Z",
         \A e \in Dev \ {d} : out[e] = "Z"
  PROVE  Blend(out) = out[d]
<1>1. {out[e] : e \in Dev} \ {"Z"} = {out[d]}
  OBVIOUS
<1>2. Cardinality({out[d]}) = 1
  BY FS_Singleton
<1> QED
  BY <1>1, <1>2 DEF Blend

(* Blended lines have values of a line.                                    *)
LEMMA BlendType ==
  ASSUME NEW out \in [Dev -> Bit]
  PROVE  /\ Blend(out) \in Bit
         /\ \A ref \in Bit : subtract_feedback(Blend(out), ref) \in Bit
<1>1. Blend(out) \in Bit
  <2> DEFINE driven == {out[e] : e \in Dev} \ {"Z"}
  <2>1. driven \subseteq Bit
    OBVIOUS
  <2>2. driven # {} => (CHOOSE v \in Bit : v \in driven) \in Bit
    BY <2>1
  <2> QED
    BY <2>2 DEF Blend, Bit
<1> QED
  BY <1>1 DEF subtract_feedback, Bit

-----------------------------------------------------------------------------
(* Type correctness                                                        *)

(* The first state is well typed.                                          *)
LEMMA TypeInit == Init => TypeOK
<1> SUFFICES ASSUME Init PROVE TypeOK
  OBVIOUS
<1>1. [d \in Dev |-> <<>>] \in [Dev -> Seq(Nat)]
  BY EmptySeq
<1>2. outer \in [Dev -> Seq(Nat)]
  BY <1>1 DEF Init
<1>3. fault \in BOOLEAN
  BY DEF Init, ArbiterInit
<1>4. ArbiterTypeOK
  BY <1>3 DEF Init, ArbiterInit, ArbiterTypeOK, Bit
<1> QED
  BY <1>2, <1>4, BusConstantsOK DEF BusConstantsOK, Init, TypeOK

(* The grant goes to a requester.                                          *)
LEMMA GrantRequester ==
  ASSUME TypeOK, Grant
  PROVE  granted' \in req_n /\ gnt' = (gnt \ {granted}) \cup {granted'}
<1>1. req_n \subseteq Dev /\ req_n # {}
  BY DEF TypeOK, ArbiterTypeOK, Grant
<1>2. \A from \in 0..(Slots - 1) : Nearest(from, req_n) \in req_n
  BY <1>1, NearestRequester
<1>3. granted # None => granted \in 0..(Slots - 1)
  BY ArbiterConstantsOK DEF ArbiterConstantsOK, TypeOK, ArbiterTypeOK
<1>4. PICK from \in 0..(Slots - 1) :
        granted' = Nearest(from, req_n) /\ gnt' = (gnt \ {granted}) \cup {granted'}
  BY <1>3 DEF Grant
<1> QED
  BY <1>2, <1>4

(* A phase of the bus keeps the types, and the grant among the devices.    *)
LEMMA TypeBus == TypeOK /\ Bus => TypeOK'
<1> SUFFICES ASSUME TypeOK, Bus PROVE TypeOK'
  OBVIOUS
<1>1. pci_frame' \in [Dev -> Bit] /\ pci_irdy' \in [Dev -> Bit]
  BY BlendType DEF Bus, run_run, blend_bi_signals_, TypeOK, ArbiterTypeOK
<1>2. phase' \in 0..3
  BY DEF Bus, run_run, TypeOK, ArbiterTypeOK
<1>3. /\ req_n' \subseteq Dev /\ gnt' \subseteq Dev /\ fault' \in BOOLEAN
      /\ granted' \in Dev \cup {None} /\ master' \in Dev \cup {None}
  <2>1. CASE phase' = 0
    BY <2>1 DEF Bus, run_run, track_req_n_, track_master, TypeOK, ArbiterTypeOK
  <2>2. CASE phase' = 1
    <3>1. CASE Recall
      <4>1. fault' \in BOOLEAN
        BY <3>1 DEF Recall, TypeOK, ArbiterTypeOK
      <4>2. granted' \in {granted, None} /\ gnt' \subseteq gnt
        BY <3>1 DEF Recall
      <4> QED
        BY <2>2, <4>1, <4>2 DEF Bus, run_run, arbitrate_, TypeOK, ArbiterTypeOK
    <3>2. CASE Keep
      BY <2>2, <3>2 DEF Bus, run_run, arbitrate_, Keep, TypeOK, ArbiterTypeOK
    <3>3. CASE Grant
      <4>1. granted' \in req_n /\ gnt' = (gnt \ {granted}) \cup {granted'}
        BY <3>3, GrantRequester
      <4> QED
        BY <2>2, <3>3, <4>1, SMTT(30) DEF Bus, run_run, arbitrate_, Grant, TypeOK, ArbiterTypeOK
    <3> QED
      BY <2>2, <3>1, <3>2, <3>3 DEF Bus, run_run, arbitrate_
  <2>3. CASE phase' \notin {0, 1}
    BY <2>3 DEF Bus, run_run, TypeOK, ArbiterTypeOK
  <2> QED
    BY <2>1, <2>2, <2>3
<1>4. UNCHANGED <<park_mode, outVars, masterVars>> /\ todo' \subseteq Dev
  BY DEF Bus, run_run
<1> QED
  BY <1>1, <1>2, <1>3, <1>4 DEF TypeOK, ArbiterTypeOK, outVars, masterVars

(* A reaction of a device keeps the types.                                 *)
LEMMA TypeMaster == ASSUME TypeOK, NEW d \in Dev, Master(d) PROVE TypeOK'
<1> USE DEF Master, Idle, Request, Wait, RequestTimeout, Hold, Data, LastWord, Raise,
      Undrive, Return, MasterAbort, SplitRead, SplitCompletion, Dead, Start
<1>1. UNCHANGED <<arbiterVars, sendVars>> /\ todo' \subseteq Dev
  BY DEF TypeOK, React
<1>2. at' \in [Dev -> {"idle", "request", "address", "data", "raise", "settle",
                       "split", "dead"}]
  BY DEF TypeOK, masterVars
<1>3. \/ UNCHANGED outVars
      \/ \E r, f, i \in Bit : Drive(d, r, f, i)
  <2>1. out_req[d] \in Bit /\ out_frame[d] \in Bit /\ out_irdy[d] \in Bit
    BY DEF TypeOK, ArbiterTypeOK
  <2>2. {"0", "1", "Z"} \subseteq Bit
    BY DEF Bit
  <2> QED
    BY <2>1, <2>2
<1>4. /\ out_req' \in [Dev -> Bit] /\ out_frame' \in [Dev -> Bit]
      /\ out_irdy' \in [Dev -> Bit]
  <2>1. CASE UNCHANGED outVars
    BY <2>1 DEF TypeOK, ArbiterTypeOK, outVars
  <2>2. ASSUME NEW r \in Bit, NEW f \in Bit, NEW i \in Bit, Drive(d, r, f, i)
        PROVE  /\ out_req' \in [Dev -> Bit] /\ out_frame' \in [Dev -> Bit]
               /\ out_irdy' \in [Dev -> Bit]
    BY <2>2 DEF TypeOK, ArbiterTypeOK, Drive
  <2> QED
    BY <1>3, <2>1, <2>2
<1>5. left' \in [Dev -> Nat]
  BY BusConstantsOK DEF TypeOK, BusConstantsOK, masterVars
<1>6. Completing(d) => Head(outer[d]) \in Nat /\ Tail(outer[d]) \in Seq(Nat)
  BY HeadTailProperties DEF TypeOK, Completing
<1>7. count' \in [Dev -> Nat]
  BY <1>6, BusConstantsOK DEF TypeOK, BusConstantsOK, Interrupting, masterVars
<1>8. \A n \in Nat : <<n>> \o outer[d] \in Seq(Nat)
  BY ConcatProperties DEF TypeOK
<1>9. outer' \in [Dev -> Seq(Nat)]
  <2>1. count[d] \in Nat /\ NoRequest \in Nat
    BY DEF TypeOK, NoRequest
  <2>2. \/ UNCHANGED outer
        \/ Completing(d) /\ outer' = [outer EXCEPT ![d] = Tail(outer[d])]
        \/ \E n \in Nat : outer' = [outer EXCEPT ![d] = <<n>> \o outer[d]]
    <3>1. CASE SplitRead(d)
      BY <2>1, <3>1
    <3>2. CASE Return(d)
      BY <3>2 DEF TypeOK
    <3>3. CASE ~SplitRead(d) /\ ~Return(d)
      BY <3>3 DEF masterVars
    <3> QED
      BY <3>1, <3>2, <3>3
  <2> QED
    BY <1>6, <1>8, <2>2 DEF TypeOK
<1> QED
  BY <1>1, <1>2, <1>3, <1>5, <1>7, <1>9, <1>4
  DEF TypeOK, ArbiterTypeOK, arbiterVars, sendVars

(* Arbiter, signals and masters keep the types of their state, whatever    *)
(* the devices do and the arbiter draws.                                   *)
THEOREM TypeCorrect == Spec => []TypeOK
<1>1. TypeOK /\ [Next]_vars => TypeOK'
  <2>1. TypeOK /\ UNCHANGED vars => TypeOK'
    BY DEF vars, arbiterVars, outVars, sendVars, masterVars, TypeOK, ArbiterTypeOK
  <2> QED
    BY <2>1, TypeBus, TypeMaster DEF Next
<1> QED
  BY <1>1, TypeInit, PTL DEF Spec

-----------------------------------------------------------------------------
(* One grant, one owner, the tracked master                                *)

(* The devices other than d, the arbiter and what it sends are left alone. *)
Alone(d) ==
  /\ d \in todo /\ todo' \in {todo, todo \ {d}}
  /\ UNCHANGED <<arbiterVars, sendVars>>
  /\ \A e \in Dev \ {d} : /\ at'[e] = at[e] /\ out_req'[e] = out_req[e]
                          /\ out_frame'[e] = out_frame[e] /\ out_irdy'[e] = out_irdy[e]

(* The three things that a reaction can be to the bus.                     *)
Quiet(d) == ~Drives(d)' /\ out_req'[d] \in {out_req[d], "0"}
Starts(d) ==
  /\ MayStart(d) /\ ~Drives(d)
  /\ d \notin todo' /\ out_frame'[d] = "0"
GoesOn(d) ==
  /\ at[d] \in {"address", "data"} /\ Drives(d)
  /\ d \notin todo' /\ out_req'[d] = out_req[d]
  /\ out_frame'[d] = "0" => out_frame[d] = "0"

(* Every reaction leaves the others alone.                                 *)
LEMMA MasterAlone == ASSUME TypeOK, NEW d \in Dev, Master(d) PROVE Alone(d)
<1> USE DEF Master, Idle, Request, Wait, RequestTimeout, Hold, Data, LastWord, Raise,
      Undrive, Return, MasterAbort, SplitRead, SplitCompletion, Dead, Start, React
<1>1. d \in todo /\ todo' \in {todo, todo \ {d}} /\ UNCHANGED <<arbiterVars, sendVars>>
  OBVIOUS
<1>2. ASSUME NEW e \in Dev \ {d} PROVE at'[e] = at[e]
  BY DEF TypeOK, masterVars
<1>3. UNCHANGED outVars \/ \E r, f, i : Drive(d, r, f, i)
  OBVIOUS
<1>4. ASSUME NEW e \in Dev \ {d}
      PROVE  /\ out_req'[e] = out_req[e] /\ out_frame'[e] = out_frame[e]
             /\ out_irdy'[e] = out_irdy[e]
  BY <1>3 DEF TypeOK, ArbiterTypeOK, Drive, outVars
<1> QED
  BY <1>1, <1>2, <1>4 DEF Alone

(* What a reaction is to the bus, and that the device then drives what its *)
(* place in the library says.                                              *)
LEMMA MasterKinds ==
  ASSUME TypeOK, Lines, NEW d \in Dev, Master(d)
  PROVE  Lines' /\ (Quiet(d) \/ Starts(d) \/ GoesOn(d))
<1> USE DEF TypeOK, ArbiterTypeOK, Bit, Drive, Quiet, GoesOn, Drives, outVars, masterVars
<1> DEFINE LinesOf(e) ==
      /\ at[e] \in {"idle", "request", "split", "settle", "dead"} => ~Drives(e)
      /\ at[e] = "address" => out_frame[e] = "0" /\ out_irdy[e] # "0"
      /\ at[e] = "data" => out_frame[e] \in {"0", "1"} /\ out_irdy[e] = "0"
      /\ at[e] = "raise" => out_frame[e] = "1" /\ out_irdy[e] = "1"
<1>1. LinesOf(d)
  BY DEF Lines
<1>2. ASSUME Start(d), React(d), MayStart(d), at[d] \in {"idle", "request", "split"}
      PROVE  LinesOf(d)' /\ Starts(d)
  BY <1>1, <1>2 DEF Start, React, Starts
<1>3. ASSUME NEW e \in Dev \ {d} PROVE LinesOf(e)'
  BY MasterAlone DEF Alone, Lines
<1>4. SUFFICES LinesOf(d)' /\ (Quiet(d) \/ Starts(d) \/ GoesOn(d))
  BY <1>3 DEF Lines
<1>5. CASE Idle(d)
  BY <1>1, <1>5 DEF Idle
<1>6. CASE Request(d)
  BY <1>1, <1>2, <1>6 DEF Request
<1>7. CASE Wait(d)
  BY <1>1, <1>2, <1>7 DEF Wait
<1>8. CASE RequestTimeout(d)
  BY <1>1, <1>8 DEF RequestTimeout
<1>9. CASE Hold(d)
  BY <1>1, <1>9 DEF Hold, React
<1>10. CASE Data(d)
  BY <1>1, <1>10 DEF Data, React
<1>11. CASE LastWord(d)
  BY <1>1, <1>11 DEF LastWord, React
<1>12. CASE Raise(d)
  BY <1>1, <1>12 DEF Raise, React
<1>13. CASE Undrive(d)
  BY <1>1, <1>13 DEF Undrive
<1>14. CASE Return(d)
  BY <1>1, <1>14 DEF Return
<1>15. CASE MasterAbort(d)
  BY <1>1, <1>15 DEF MasterAbort
<1>16. CASE SplitRead(d)
  BY <1>1, <1>16 DEF SplitRead
<1>17. CASE SplitCompletion(d)
  BY <1>1, <1>2, <1>17 DEF SplitCompletion
<1>18. CASE Dead(d)
  BY <1>1, <1>18 DEF Dead
<1> QED
  BY <1>5, <1>6, <1>7, <1>8, <1>9, <1>10, <1>11, <1>12, <1>13, <1>14, <1>15, <1>16,
     <1>17, <1>18 DEF Master

(* A reaction keeps the invariant.                                         *)
LEMMA InvMaster == ASSUME Inv, NEW d \in Dev, Master(d) PROVE Inv'
<1> USE DEF Inv
<1>1. TypeOK'
  BY TypeMaster
<1>2. Alone(d)
  BY MasterAlone
<1>3. Lines' /\ (Quiet(d) \/ Starts(d) \/ GoesOn(d))
  BY MasterKinds
<1>4. /\ UNCHANGED <<phase, req_n, granted, master, gnt, pci_frame, pci_irdy>>
      /\ d \in todo /\ \A e \in Dev \ {d} : e \in todo' <=> e \in todo
  BY <1>2 DEF Alone, arbiterVars, sendVars
<1>5. \A e \in Dev \ {d} : /\ Drives(e)' <=> Drives(e)
                           /\ out_frame'[e] = out_frame[e] /\ out_req'[e] = out_req[e]
                           /\ at'[e] = at[e]
  BY <1>2 DEF Alone, Drives
<1>6. \A e \in Dev : Seen(e)' <=> Seen(e)
  BY <1>4 DEF Seen
<1>7. OneGrant'
  BY <1>4 DEF OneGrant
<1>8. Held'
  <2>1. Drives(d)' => d \notin todo' /\ (d \in gnt \/ Seen(d))
    BY <1>3, <1>4 DEF Quiet, Starts, GoesOn, MayStart, Held
  <2> QED
    BY <1>4, <1>5, <1>6, <2>1 DEF Held
<1>9. Handover'
  <2>1. ASSUME NEW e \in Dev \ {d}, Drives(d)', Drives(e)
        PROVE  e \in todo /\ d \notin todo' /\ at[e] = "raise"
    <3>1. CASE Starts(d)
      <4>1. ~Seen(e) /\ e \notin gnt
        BY <3>1 DEF Starts, MayStart, Seen, OneGrant
      <4> QED
        BY <1>4, <2>1, <3>1, <4>1 DEF Starts, Held
    <3>2. CASE GoesOn(d)
      BY <1>4, <2>1, <3>2 DEF GoesOn, Handover
    <3> QED
      BY <1>3, <2>1, <3>1, <3>2 DEF Quiet
  <2> QED
    BY <1>4, <1>5, <2>1 DEF Handover
<1>10. Sampled'
  <2>1. d \in req_n => out_req'[d] = "0" \/ (d \notin todo' /\ out_frame'[d] = "0")
    BY <1>3, <1>4 DEF Sampled, Quiet, Starts, GoesOn
  <2> QED
    BY <1>4, <1>5, <2>1 DEF Sampled, TypeOK, ArbiterTypeOK
<1>11. Tracking'
  <2>1. out_frame'[d] = "0" => master = d \/ (granted = d /\ d \in req_n)
    <3>1. CASE Quiet(d)
      BY <3>1 DEF Quiet, Drives
    <3>2. CASE Starts(d)
      BY <3>2 DEF Starts, MayStart, OneGrant, Tracking
    <3>3. CASE GoesOn(d)
      BY <3>3 DEF GoesOn, Tracking
    <3> QED
      BY <1>3, <3>1, <3>2, <3>3
  <2> QED
    BY <1>4, <1>5, <2>1 DEF Tracking
<1>12. MasterTracked'
  <2>1. d \in todo' => out_frame'[d] # "0"
    BY <1>3 DEF Quiet, Starts, GoesOn, Drives
  <2>2. todo' = Dev => todo = Dev /\ d \in todo'
    BY <1>2 DEF Alone, TypeOK
  <2> QED
    BY <1>4, <1>5, <2>1, <2>2 DEF MasterTracked
<1> QED
  BY <1>1, <1>3, <1>7, <1>8, <1>9, <1>10, <1>11, <1>12

(* Once every device has reacted one of them at most drives the bus.       *)
LEMMA SoleOwner == Inv => OneOwner
BY DEF Inv, Handover, OneOwner, Drives

(* The tracking finds the device that has FRAME# low.                      *)
LEMMA TracksOwner ==
  ASSUME Inv, todo = {}, track_master
  PROVE  /\ \A d \in Dev : out_frame[d] = "0" => master' = d
         /\ granted # None /\ granted = master => master' = granted
<1> USE ArbiterConstantsOK DEF ArbiterConstantsOK, Inv, TypeOK, ArbiterTypeOK
<1>1. ASSUME NEW d \in Dev, out_frame[d] = "0" PROVE master' = d
  <2>1. CASE master = d
    BY <1>1, <2>1 DEF track_master, Holds
  <2>2. CASE master # d
    <3>1. granted = d
      BY <1>1, <2>2 DEF Tracking
    <3>2. master # None => ~Holds(master)
      BY <1>1, <2>2, SoleOwner DEF OneOwner, Holds
    <3> QED
      BY <1>1, <2>2, <3>1, <3>2 DEF track_master
  <2> QED
    BY <2>1, <2>2
<1>2. granted # None /\ granted = master => master' = granted
  BY DEF track_master
<1> QED
  BY <1>1, <1>2

(* A phase of the bus keeps the invariant.                                 *)
LEMMA InvBus == Inv /\ Bus => Inv'
<1> SUFFICES ASSUME Inv, Bus PROVE Inv'
  OBVIOUS
<1> USE DEF Inv
<1>1. TypeOK'
  BY TypeBus
<1>2. /\ todo = {} /\ UNCHANGED <<at, out_req, out_frame, out_irdy>>
      /\ todo' = IF phase' = 0 THEN Dev ELSE {}
  BY DEF Bus, outVars, masterVars
<1>3. \A d \in Dev : Drives(d)' <=> Drives(d)
  BY <1>2 DEF Drives
<1>4. Lines'
  BY <1>2, <1>3 DEF Lines
<1>5. \A d, e \in Dev : Drives(d) /\ Drives(e) => d = e
  BY <1>2, SoleOwner DEF OneOwner, Drives
<1>6. Handover'
  BY <1>3, <1>5 DEF Handover
<1>7. Held'
  <2>1. ASSUME NEW d \in Dev, phase' = 0, Drives(d), at[d] # "raise"
        PROVE  Seen(d)'
    <3>1. out_frame[d] = "0" \/ out_irdy[d] = "0"
      BY <2>1 DEF Lines, TypeOK
    <3>2. \A e \in Dev \ {d} : out_frame[e] = "Z" /\ out_irdy[e] = "Z"
      BY <1>5, <2>1 DEF Drives
    <3>3. CASE out_frame[d] = "0"
      <4>1. Blend(out_frame) = "0"
        BY <3>2, <3>3, BlendSole DEF TypeOK, ArbiterTypeOK
      <4> QED
        BY <3>2, <4>1
        DEF Bus, run_run, blend_bi_signals_, subtract_feedback, Seen
    <3>4. CASE out_irdy[d] = "0"
      <4>1. Blend(out_irdy) = "0"
        BY <3>2, <3>4, BlendSole DEF TypeOK, ArbiterTypeOK
      <4> QED
        BY <3>2, <4>1
        DEF Bus, run_run, blend_bi_signals_, subtract_feedback, Seen
    <3> QED
      BY <3>1, <3>3, <3>4
  <2> QED
    BY <1>2, <1>3, <2>1 DEF Held
<1>8. CASE phase' = 0
  <2>1. /\ req_n' = {d \in Dev : out_req[d] = "0"} /\ track_master
        /\ UNCHANGED <<granted, gnt>>
    BY <1>8 DEF Bus, run_run, track_req_n_
  <2>2. OneGrant' /\ Sampled'
    BY <1>2, <2>1 DEF OneGrant, Sampled
  <2>3. Tracking'
    <3>1. \A d \in Dev : out_frame[d] = "0" => master' = d
      BY <1>2, <2>1, TracksOwner
    <3>2. granted # None => granted = master' \/ granted \in req_n'
      <4>1. CASE granted # None /\ granted = master
        BY <1>2, <2>1, <4>1, TracksOwner
      <4>2. CASE granted # None /\ granted \in req_n
        BY <1>2, <2>1, <3>1, <4>2 DEF Sampled, TypeOK, ArbiterTypeOK
      <4> QED
        BY <4>1, <4>2 DEF Tracking
    <3> QED
      BY <1>2, <2>1, <3>1, <3>2 DEF Tracking
  <2>4. MasterTracked'
    BY <1>2, <2>1, TracksOwner DEF MasterTracked
  <2> QED
    BY <1>1, <1>4, <1>6, <1>7, <2>2, <2>3, <2>4
<1>9. CASE phase' = 1
  <2>1. (Recall \/ Keep \/ Grant) /\ UNCHANGED <<req_n, master>>
    BY <1>9 DEF Bus, run_run, arbitrate_
  <2>2. /\ OneGrant'
        /\ granted \in req_n => granted' = granted
        /\ granted' = None \/ granted' = granted \/ granted' \in req_n
    <3>1. CASE Recall
      BY <3>1 DEF Recall, OneGrant
    <3>2. CASE Keep
      BY <3>2 DEF Keep, OneGrant
    <3>3. CASE Grant
      <4>1. granted' \in req_n /\ gnt' = (gnt \ {granted}) \cup {granted'}
        BY <3>3, GrantRequester
      <4>2. granted' # None
        BY <4>1, ArbiterConstantsOK DEF ArbiterConstantsOK, TypeOK, ArbiterTypeOK
      <4> QED
        BY <3>3, <4>1, <4>2 DEF Grant, OneGrant
    <3> QED
      BY <2>1, <3>1, <3>2, <3>3
  <2>3. Sampled'
    BY <1>2, <1>9, <2>1 DEF Sampled
  <2>4. Tracking'
    BY <1>2, <2>1, <2>2 DEF Tracking
  <2> QED
    BY <1>1, <1>4, <1>6, <1>7, <1>9, <2>2, <2>3, <2>4 DEF MasterTracked
<1>10. CASE phase' \notin {0, 1}
  <2>1. UNCHANGED <<req_n, granted, master, gnt>>
    BY <1>10 DEF Bus, run_run
  <2> QED
    BY <1>1, <1>2, <1>4, <1>6, <1>7, <1>10, <2>1
    DEF OneGrant, Sampled, Tracking, MasterTracked
<1> QED
  BY <1>8, <1>9, <1>10

(* The first state, with all lines released, satisfies the invariant.      *)
LEMMA InvInit == Init => Inv
<1> SUFFICES ASSUME Init PROVE Inv
  OBVIOUS
<1>1. TypeOK
  BY TypeInit
<1>2. \A d \in Dev : at[d] = "idle" /\ out_frame[d] = "Z" /\ out_irdy[d] = "Z"
  BY DEF Init, ArbiterInit
<1> QED
  BY <1>1, <1>2
  DEF Init, ArbiterInit, Inv, OneGrant, Lines, Held, Handover, Sampled, Tracking,
      Drives, MasterTracked

(* A step that changes nothing keeps the invariant.                        *)
LEMMA UnchangedInv == Inv /\ UNCHANGED vars => Inv'
<1> SUFFICES ASSUME Inv, UNCHANGED vars PROVE Inv'
  OBVIOUS
<1> USE DEF vars, arbiterVars, outVars, sendVars, masterVars, Inv
<1>1. TypeOK'
  BY DEF TypeOK, ArbiterTypeOK
<1>2. Lines' /\ OneGrant' /\ Sampled' /\ Tracking' /\ MasterTracked'
  BY DEF Lines, OneGrant, Sampled, Tracking, MasterTracked, Drives
<1>3. Held' /\ Handover'
  BY DEF Held, Handover, Seen, Drives
<1> QED
  BY <1>1, <1>2, <1>3

(* The invariant that the next three theorems rest on.                     *)
THEOREM Invariance == Spec => []Inv
<1>1. Inv /\ [Next]_vars => Inv'
  BY UnchangedInv, InvBus, InvMaster DEF Next
<1> QED
  BY <1>1, InvInit, PTL DEF Spec

(* arbitrate_, "This should always leave us with no more then 1 device     *)
(* granted": GNT# is low for the device that the arbiter takes for granted *)
(* and for no other, for any devices and any recalls.                      *)
THEOREM OneGrantHolds == Spec => []OneGrant
BY Invariance, PTL DEF Inv

(* Between two posedges at most one of any number of devices drives FRAME# *)
(* or IRDY#, although devices decide on their own from lines and grants    *)
(* that are a clock old, and start parked without asking.                  *)
THEOREM OneOwnerHolds == Spec => []OneOwner
<1>1. Inv => OneOwner
  BY SoleOwner
<1> QED
  BY <1>1, Invariance, PTL

(* The arbiter's master is the device whose FRAME# the posedge sees, even  *)
(* where it started on a grant that was given to another meanwhile.        *)
THEOREM MasterTrackedHolds == Spec => []MasterTracked
BY Invariance, PTL DEF Inv
=============================================================================
