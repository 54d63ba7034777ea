-------------------------- MODULE PciBusWait_proof --------------------------
(***************************************************************************)
(* Proofs about how long a device of PciBus waits for the bus.             *)
(***************************************************************************)
EXTENDS PciBus_proof

-----------------------------------------------------------------------------
(* Turns and their order                                                   *)

(* The clocks of a number of turns.                                        *)
LEMMA TurnFacts ==
  /\ Longest \in Nat /\ Longest >= 3 /\ Longest = MaxAddress + MaxData + 1
  /\ Turn \in Nat /\ Turn = Longest + SplitDelay /\ SplitDelay \in Nat
  /\ MaxAddress \in Nat /\ MaxData \in Nat
BY BusConstantsOK DEF BusConstantsOK, Longest, Turn

(* Turns add up.                                                           *)
LEMMA TurnsFacts ==
  /\ \A n \in Nat : Turns(n) \in Nat /\ Turns(n + 1) = Turns(n) + Turn
  /\ \A m, n \in Nat : m <= n => Turns(m) <= Turns(n)
<1> DEFINE T == Turn
<1>1. T \in Nat
  BY TurnFacts
<1> HIDE DEF T
<1>2. \A n \in Nat : n * T \in Nat /\ (n + 1) * T = n * T + T
  BY <1>1
<1>3. ASSUME NEW m \in Nat, NEW n \in Nat, m <= n PROVE m * T <= n * T
  <2>1. PICK k \in Nat : n = m + k
    <3>1. n - m \in Nat /\ n = m + (n - m)
      BY <1>3
    <3> QED
      BY <3>1
  <2>2. (m + k) * T = m * T + k * T
    BY <1>1
  <2>3. k * T \in Nat /\ m * T \in Nat
    BY <1>1
  <2> QED
    BY <2>1, <2>2, <2>3
<1> QED
  BY <1>2, <1>3 DEF T, Turns

(* The distance without the remainder.                                     *)
LEMMA DistanceCases ==
  ASSUME NEW g \in 0..(Slots - 1), NEW d \in 0..(Slots - 1)
  PROVE  Distance(g, d) = IF d > g THEN d - g ELSE d - g + 16
BY DEF Distance, Slots

(* The devices are finitely many.                                          *)
LEMMA DevFinite ==
  /\ IsFiniteSet(Dev) /\ Cardinality(Dev) \in Nat
  /\ \A S \in SUBSET Dev : IsFiniteSet(S) /\ Cardinality(S) \in Nat
                           /\ Cardinality(S) <= Cardinality(Dev)
<1>1. IsFiniteSet(0..(Slots - 1))
  <2>1. 0 \in Int /\ 15 \in Int /\ Slots - 1 = 15
    BY DEF Slots
  <2> QED
    BY <2>1, FS_Interval, Zenon
<1>2. IsFiniteSet(Dev)
  BY <1>1, FS_Subset, ArbiterConstantsOK DEF ArbiterConstantsOK
<1> QED
  BY <1>2, FS_Subset, FS_CardinalityType

(* One turn of every device is one turn, and one of each of the others.    *)
LEMMA AllTurns ==
  ASSUME NEW d \in Dev
  PROVE  LET N == Cardinality(Dev)
         IN  /\ N \in Nat /\ N - 1 \in Nat /\ Turns(N) \in Nat /\ Turns(N - 1) \in Nat
             /\ Turns(N) = Turns(N - 1) + Turn
<1> DEFINE N == Cardinality(Dev)
<1>1. N \in Nat /\ N # 0
  BY DevFinite, FS_EmptySet
<1> HIDE DEF N
<1>2. N - 1 \in Nat /\ N = (N - 1) + 1
  BY <1>1
<1> QED
  BY <1>1, <1>2, TurnsFacts DEF N

(* Between a device and another are at least the other, and never the      *)
(* device itself.                                                          *)
LEMMA RankBounds ==
  ASSUME NEW g \in Dev, NEW d \in Dev, g # d
  PROVE  /\ Rank(g, d) \in Nat /\ 1 <= Rank(g, d)
         /\ Rank(g, d) <= Cardinality(Dev) - 1
<1> DEFINE S == {e \in Dev : Distance(g, e) <= Distance(g, d)}
<1>1. \A e \in Dev : e \in 0..(Slots - 1)
  BY ArbiterConstantsOK DEF ArbiterConstantsOK
<1>2. d \in S /\ g \notin S
  BY <1>1, DistanceCases DEF Slots
<1>3. IsFiniteSet(S) /\ Cardinality(S) \in Nat
  BY DevFinite
<1>4. Cardinality(S) >= 1
  <2>1. Cardinality(S) # 0
    BY <1>2, <1>3, FS_EmptySet
  <2> QED
    BY <1>3, <2>1
<1>5. Cardinality(S) <= Cardinality(Dev \ {g})
  <2>1. S \subseteq Dev \ {g}
    BY <1>2
  <2> QED
    BY <2>1, DevFinite, FS_Subset
<1>6. Cardinality(Dev \ {g}) = Cardinality(Dev) - 1
  BY DevFinite, FS_RemoveElement
<1> QED
  BY <1>3, <1>4, <1>5, <1>6 DEF Rank

(* Each grant brings the devices that are passed over nearer their turn.   *)
LEMMA RankDrops ==
  ASSUME NEW g \in Dev, NEW D, D \subseteq Dev, NEW d \in D,
         Nearest(g, D) # d, g # d
  PROVE  Rank(Nearest(g, D), d) + 1 <= Rank(g, d)
<1> DEFINE h == Nearest(g, D)
           S == {e \in Dev : Distance(g, e) <= Distance(g, d)}
           T == {e \in Dev : Distance(h, e) <= Distance(h, d)}
<1>1. \A e \in Dev : e \in 0..(Slots - 1)
  BY ArbiterConstantsOK DEF ArbiterConstantsOK
<1>2. h \in D /\ h \in Dev
  BY <1>1, NearestRequester
<1>3. Distance(g, h) <= Distance(g, d)
  BY <1>1, NearestRequester
<1>4. h \in S
  BY <1>2, <1>3
<1>5. h \notin T
  BY <1>1, <1>2, DistanceCases DEF Slots
<1>6. ASSUME NEW e \in T PROVE e \in S
  <2> HIDE DEF h
  <2>1. Distance(h, e) <= Distance(h, d) /\ e \in Dev /\ d \in Dev
    OBVIOUS
  <2>2. /\ Distance(h, e) = IF e > h THEN e - h ELSE e - h + 16
        /\ Distance(h, d) = IF d > h THEN d - h ELSE d - h + 16
        /\ Distance(g, h) = IF h > g THEN h - g ELSE h - g + 16
        /\ Distance(g, d) = IF d > g THEN d - g ELSE d - g + 16
        /\ Distance(g, e) = IF e > g THEN e - g ELSE e - g + 16
    BY <1>1, <1>2, <2>1, DistanceCases
  <2>3. d # h
    BY DEF h
  <2>4. g \in 0..15 /\ h \in 0..15 /\ d \in 0..15 /\ e \in 0..15
    BY <1>1, <1>2, <2>1 DEF Slots
  <2>5. Distance(g, e) <= Distance(g, d)
    BY <1>3, <2>1, <2>2, <2>3, <2>4
  <2> QED
    BY <2>1, <2>5
<1>7. T \subseteq S \ {h}
  BY <1>5, <1>6
<1>8. Cardinality(T) <= Cardinality(S \ {h})
  BY <1>7, DevFinite, FS_Subset
<1>9. Cardinality(S \ {h}) = Cardinality(S) - 1
  BY <1>4, DevFinite, FS_RemoveElement
<1>10. Cardinality(S) \in Nat /\ Cardinality(T) \in Nat
  BY DevFinite
<1> QED
  BY <1>8, <1>9, <1>10 DEF Rank

-----------------------------------------------------------------------------
(* What the invariant says of a state                                      *)

(* Nobody holds the bus longer than a transaction can.                     *)
LEMMA BusyBounds ==
  ASSUME TypeOK, Asking, NEW e \in Dev
  PROVE  /\ Busy(e) \in Nat /\ Busy(e) <= Longest - 1
         /\ e \in todo => Busy(e) <= Longest - 2
<1>1. /\ at[e] = "address" => left[e] \in 1..MaxAddress
      /\ at[e] = "data" => left[e] \in 1..MaxData
  BY DEF Asking
<1>2. CASE at[e] = "address"
  BY <1>1, <1>2, TurnFacts DEF Busy
<1>3. CASE at[e] = "data"
  BY <1>1, <1>3, TurnFacts DEF Busy
<1>4. CASE at[e] \notin {"address", "data"}
  BY <1>4, TurnFacts DEF Busy
<1> QED
  BY <1>2, <1>3, <1>4

(* The clocks that are left are a number.                                  *)
LEMMA RoomType == ASSUME TypeOK, NEW d \in Dev PROVE Room(d) \in Int
BY DEF TypeOK, Room

(* The bus is free at some clock, and the wait goes on from there.         *)
LEMMA LastsRoom ==
  ASSUME TypeOK, Asking, NEW d \in Dev, NEW n \in Nat, Lasts(d, n)
  PROVE  Room(d) >= n
<1>1. Room(d) >= Busy(d) + n /\ Busy(d) \in Nat /\ Room(d) \in Int
  BY BusyBounds, RoomType DEF Lasts
<1> QED
  BY <1>1

(* With a turn of every device to come a request may wait, whoever has the *)
(* grant.                                                                  *)
LEMMA FreshWaits ==
  ASSUME TypeOK, Asking, NEW d \in Dev, d \in req_n, AnyTurn(d),
         Room(d) >= Turns(Cardinality(Dev)) - 1
  PROVE  InTurn(d)
<1> DEFINE N == Cardinality(Dev)
<1>1. /\ N - 1 \in Nat /\ Turns(N - 1) \in Nat
      /\ Turns(N) = Turns(N - 1) + Turn
  BY AllTurns
<1> HIDE DEF N
<1>2. /\ \A e \in Dev : Room(d) >= Busy(e) + (1 + Turns(N - 1)) /\ Busy(e) \in Nat
      /\ Room(d) \in Int /\ Room(d) >= Turns(N) - 1
  BY BusyBounds, RoomType DEF AnyTurn, Lasts, N
<1>3. OwnTurn(d)
  BY <1>1, <1>2, TurnFacts DEF OwnTurn, Lasts
<1>4. ASSUME granted \notin {d, None}
      PROVE  LET n == Turns(Rank(granted, d) - 1)
             IN  IF granted \in req_n /\ out_req[granted] = "0"
                 THEN BeforeTurn(granted, d, n)
                 ELSE AfterTurn(granted, d, n)
  <2> DEFINE g == granted
             n == Turns(Rank(g, d) - 1)
  <2>1. g \in Dev
    BY <1>4 DEF TypeOK, ArbiterTypeOK
  <2>2. /\ Rank(g, d) - 1 \in Nat /\ Rank(g, d) \in Nat /\ Rank(g, d) <= N - 1
        /\ Rank(g, d) = (Rank(g, d) - 1) + 1
    BY <1>4, <2>1, RankBounds DEF N
  <2>3. n \in Nat /\ n + Turn <= Turns(N - 1)
    <3>1. n \in Nat /\ Turns(Rank(g, d)) = n + Turn
      BY <2>2, TurnsFacts
    <3> QED
      BY <1>1, <2>2, <3>1, TurnsFacts
  <2> HIDE DEF n
  <2>4. Delay(g) \in Nat /\ Delay(g) <= SplitDelay
    BY <2>1, TurnFacts DEF Delay, Asking
  <2>5. Room(d) >= Delay(g) + Longest + n
    BY <1>1, <1>2, <2>3, <2>4, TurnFacts
  <2>6. \A e \in Dev : Room(d) >= Busy(e) + (1 + Turn + n)
    BY <1>1, <1>2, <2>3, TurnFacts
  <2>7. BeforeTurn(g, d, n)
    BY <2>5, <2>6 DEF BeforeTurn, Lasts
  <2>8. AfterTurn(g, d, n)
    <3>1. \A e \in Dev : Room(d) >= Busy(e) + (1 + n)
      BY <1>2, <2>3, <2>6, TurnFacts
    <3> QED
      BY <1>2, <2>3, <2>4, <2>5, <3>1, TurnFacts DEF AfterTurn, Lasts
  <2> QED
    BY <1>4, <2>7, <2>8 DEF n
<1> QED
  BY <1>3, <1>4, ArbiterConstantsOK DEF ArbiterConstantsOK, InTurn

(* Who may start sees a free bus: nobody else is in a transaction.         *)
LEMMA FreeBus ==
  ASSUME Inv, NEW g \in Dev, g \in todo, MayStart(g), at[g] \notin {"address", "data"}
  PROVE  \A e \in Dev : Busy(e) = 0
<1>1. ASSUME NEW e \in Dev PROVE at[e] \notin {"address", "data"}
  <2>1. CASE e = g
    BY <2>1
  <2>2. CASE e # g
    <3>1. ~Seen(e) /\ e \notin gnt
      BY <2>2 DEF Inv, OneGrant, MayStart, Seen
    <3>2. at[e] # "raise" => ~Drives(e)
      BY <3>1 DEF Inv, Held
    <3> QED
      BY <3>2 DEF Inv, Lines, Drives
  <2> QED
    BY <2>1, <2>2
<1> QED
  BY <1>1 DEF Busy

(* The two facts as predicates of a state.                                 *)
BusyBounded ==
  \A e \in Dev : /\ Busy(e) \in Nat /\ Busy(e) <= Longest - 1
                 /\ e \in todo => Busy(e) <= Longest - 2
FreshWait ==
  \A d \in Dev :
    d \in req_n /\ AnyTurn(d) /\ Room(d) >= Turns(Cardinality(Dev)) - 1 => InTurn(d)

(* They hold in the state that a step leads to.                            *)
LEMMA AfterStep == TypeOK' /\ Asking' => BusyBounded' /\ FreshWait'
<1>1. TypeOK /\ Asking => BusyBounded /\ FreshWait
  BY BusyBounds, FreshWaits DEF BusyBounded, FreshWait
<1> QED
  BY <1>1, PTL

(* A device that waits has a clock left when it reacts.                    *)
LEMMA Patient ==
  ASSUME WaitInv, NEW d \in Dev, Waiting(d), d \in todo
  PROVE  Room(d) >= 0 /\ d \in req_n
<1> USE DEF WaitInv, Inv
<1>1. Room(d) \in Int /\ \A e \in Dev : Busy(e) \in Nat
  BY BusyBounds, RoomType
<1>2. d \in req_n
  BY DEF Patience
<1>3. CASE granted = d
  <2>1. OwnTurn(d)
    BY <1>2, <1>3 DEF Patience, InTurn
  <2>2. Lasts(d, 1) => Room(d) >= 1
    BY LastsRoom
  <2> QED
    BY <1>1, <1>2, <2>1, <2>2 DEF OwnTurn
<1>4. CASE granted # d /\ granted = None
  <2>1. 1 + Turns(Cardinality(Dev) - 1) \in Nat
    BY AllTurns
  <2>2. AnyTurn(d)
    BY <1>2, <1>4 DEF Patience, InTurn
  <2> QED
    BY <1>1, <1>2, <2>1, <2>2, LastsRoom DEF AnyTurn
<1>5. CASE granted # d /\ granted # None
  <2> DEFINE n == Turns(Rank(granted, d) - 1)
  <2>1. granted \in Dev
    BY <1>5 DEF TypeOK, ArbiterTypeOK
  <2>2. n \in Nat
    BY <1>5, <2>1, RankBounds, TurnsFacts
  <2>3. BeforeTurn(granted, d, n) \/ AfterTurn(granted, d, n)
    BY <1>2, <1>5 DEF Patience, InTurn
  <2> HIDE DEF n
  <2>4. Delay(granted) \in Nat
    BY <2>1 DEF Delay, Asking
  <2>5. /\ 1 + Turn + n \in Nat /\ 1 + n \in Nat
        /\ Delay(granted) + Longest + n \in Nat
    BY <2>2, <2>4, TurnFacts
  <2>6. \A k \in Nat : Lasts(d, k) => Room(d) >= 0
    BY <1>1, LastsRoom
  <2> QED
    BY <1>1, <1>2, <2>2, <2>3, <2>4, <2>5, <2>6, TurnFacts DEF BeforeTurn, AfterTurn
<1> QED
  BY <1>2, <1>3, <1>4, <1>5

-----------------------------------------------------------------------------
(* Reactions of the devices                                                *)

(* Reactions leave the clocks of the other devices alone.                  *)
LEMMA OthersClocks ==
  ASSUME TypeOK, NEW e \in Dev, Master(e), NEW d \in Dev \ {e}
  PROVE  /\ left'[d] = left[d] /\ count'[d] = count[d]
         /\ Busy(d)' = Busy(d) /\ Room(d)' = Room(d) /\ Delay(d)' = Delay(d)
<1> USE DEF Master, Idle, Request, Wait, RequestTimeout, Hold, Data, LastWord, Raise,
      Undrive, Return, MasterAbort, SplitRead, SplitCompletion, Dead, Start
<1>1. left'[d] = left[d]
  BY DEF TypeOK, masterVars
<1>2. count'[d] = count[d]
  BY DEF TypeOK, masterVars
<1>3. at'[d] = at[d] /\ (d \in todo' <=> d \in todo)
  BY MasterAlone DEF Alone
<1> QED
  BY <1>1, <1>2, <1>3 DEF Busy, Room, Delay

(* A device begins a transaction.                                          *)
Begins(e) ==
  /\ at[e] \in {"idle", "request", "split"} /\ MayStart(e)
  /\ at'[e] = "address" /\ left'[e] \in 1..MaxAddress
  /\ e \notin todo' /\ out_req'[e] = "1"

(* A reaction keeps to the bounds of the transaction, and takes nothing    *)
(* off the bus time of the others unless it begins one.                    *)
LEMMA MasterClocks ==
  ASSUME WaitInv, NEW e \in Dev, Master(e)
  PROVE  Asking' /\ (Begins(e) \/ Busy(e)' <= Busy(e))
<1> USE DEF WaitInv, Inv, TypeOK, ArbiterTypeOK, Drive, outVars, masterVars
<1> DEFINE AskingOf(d) ==
      /\ out_req[d] = "0" => at[d] \in {"request", "split"}
      /\ at[d] = "address" => left[d] \in 1..MaxAddress
      /\ at[d] = "data" => left[d] \in 1..MaxData
      /\ at[d] = "split" => left[d] \in 0..SplitDelay
<1>1. AskingOf(e) /\ e \in todo
  BY MasterAlone DEF Asking, Alone
<1>2. ASSUME Start(e), React(e), MayStart(e), at[e] \in {"idle", "request", "split"}
      PROVE  AskingOf(e)' /\ Begins(e)
  BY <1>2 DEF Start, React, Begins
<1>3. /\ Busy(e) \in Nat
      /\ at[e] = "address" => Busy(e) = left[e] + MaxData - 1
      /\ at[e] = "data" => Busy(e) = left[e] - 1
      /\ at'[e] = "address" /\ e \notin todo' => Busy(e)' = left'[e] + MaxData
      /\ at'[e] = "data" /\ e \notin todo' => Busy(e)' = left'[e]
      /\ at'[e] \notin {"address", "data"} => Busy(e)' = 0
  <2>1. Busy(e) \in Nat
    BY BusyBounds
  <2>2. left[e] \in Nat /\ left'[e] \in Nat
    BY TypeMaster
  <2>3. at[e] = "address" => Busy(e) = left[e] + MaxData - 1
    BY <1>1, <2>2, TurnFacts DEF Busy
  <2>4. at[e] = "data" => Busy(e) = left[e] - 1
    BY <1>1, <2>2, TurnFacts DEF Busy
  <2>5. at'[e] = "address" /\ e \notin todo' => Busy(e)' = left'[e] + MaxData
    BY <2>2, TurnFacts DEF Busy
  <2>6. at'[e] = "data" /\ e \notin todo' => Busy(e)' = left'[e]
    BY <2>2, TurnFacts DEF Busy
  <2>7. at'[e] \notin {"address", "data"} => Busy(e)' = 0
    BY DEF Busy
  <2> QED
    BY <2>1, <2>3, <2>4, <2>5, <2>6, <2>7
<1>4. ASSUME NEW d \in Dev \ {e} PROVE AskingOf(d)'
  <2>1. AskingOf(d)
    BY DEF Asking
  <2> QED
    BY <2>1, MasterAlone, OthersClocks DEF Alone
<1>5. SUFFICES AskingOf(e)' /\ (Begins(e) \/ Busy(e)' <= Busy(e))
  BY <1>4 DEF Asking
<1>6. CASE Idle(e)
  BY <1>1, <1>2, <1>3, <1>6, TurnFacts DEF Idle, React
<1>7. CASE Request(e)
  BY <1>1, <1>2, <1>3, <1>7, TurnFacts DEF Request, React
<1>8. CASE Wait(e)
  BY <1>1, <1>2, <1>3, <1>8, TurnFacts DEF Wait, React
<1>9. CASE RequestTimeout(e)
  <2>1. ~Waiting(e)
    BY <1>1, <1>9, Patient DEF RequestTimeout, Room
  <2> QED
    BY <1>1, <1>3, <1>9, <2>1 DEF RequestTimeout, Waiting
<1>10. CASE Hold(e)
  BY <1>1, <1>2, <1>3, <1>10, TurnFacts DEF Hold, React
<1>11. CASE Data(e)
  BY <1>1, <1>2, <1>3, <1>11, TurnFacts DEF Data, React
<1>12. CASE LastWord(e)
  BY <1>1, <1>2, <1>3, <1>12, TurnFacts DEF LastWord, React
<1>13. CASE Raise(e)
  BY <1>1, <1>2, <1>3, <1>13, TurnFacts DEF Raise, React
<1>14. CASE Undrive(e)
  BY <1>1, <1>2, <1>3, <1>14, TurnFacts DEF Undrive, React
<1>15. CASE Return(e)
  BY <1>1, <1>2, <1>3, <1>15, TurnFacts DEF Return, React
<1>16. CASE MasterAbort(e)
  BY <1>1, <1>2, <1>3, <1>16, TurnFacts DEF MasterAbort, React
<1>17. CASE SplitRead(e)
  BY <1>1, <1>2, <1>3, <1>17, TurnFacts DEF SplitRead, React
<1>18. CASE SplitCompletion(e)
  BY <1>1, <1>2, <1>3, <1>18, TurnFacts DEF SplitCompletion, React
<1>19. CASE Dead(e)
  BY <1>1, <1>2, <1>3, <1>19, TurnFacts DEF Dead, React
<1> QED
  BY <1>6, <1>7, <1>8, <1>9, <1>10, <1>11, <1>12, <1>13, <1>14, <1>15,
     <1>16, <1>17, <1>18, <1>19 DEF Master

(* A device whose REQ# is low begins a transaction, or goes on asking.  On *)
(* a free bus that is granted to it only a split read holds it up.         *)
LEMMA AskerReacts ==
  ASSUME WaitInv, NEW e \in Dev, Master(e), out_req[e] = "0"
  PROVE  /\ e \notin todo'
         /\ \/ Begins(e)
            \/ /\ out_req'[e] = "0"
               /\ MayStart(e) => Delay(e) \in Nat /\ Delay(e)' = Delay(e) - 1
<1> USE DEF WaitInv, Inv, TypeOK, ArbiterTypeOK, Drive, outVars, masterVars
<1>1. at[e] \in {"request", "split"} /\ e \in todo
  BY MasterAlone DEF Asking, Alone
<1>2. ASSUME Start(e), React(e), MayStart(e)
      PROVE  Begins(e)
  BY <1>1, <1>2 DEF Start, React, Begins
<1>3. CASE Wait(e)
  BY <1>2, <1>3 DEF Wait, React
<1>4. CASE RequestTimeout(e)
  BY <1>1, <1>4, Patient DEF RequestTimeout, Room, Waiting
<1>5. CASE SplitRead(e)
  BY <1>5 DEF SplitRead, React, MayStart
<1>6. CASE SplitCompletion(e)
  <2>1. CASE left[e] > 0
    BY <1>6, <2>1 DEF SplitCompletion, React, Delay
  <2>2. CASE ~(left[e] > 0)
    BY <1>2, <1>6, <2>2 DEF SplitCompletion, React
  <2> QED
    BY <2>1, <2>2
<1>7. Wait(e) \/ RequestTimeout(e) \/ SplitRead(e) \/ SplitCompletion(e)
  BY <1>1 DEF Master, Idle, Request, Hold, Data, LastWord, Raise, Undrive, Return,
              MasterAbort, Dead
<1> QED
  BY <1>3, <1>4, <1>5, <1>6, <1>7

(* A device that waits after a reaction has waited before it with as many  *)
(* clocks left, or has just asked.                                         *)
LEMMA WaiterReacts ==
  ASSUME WaitInv, NEW e \in Dev, Master(e), NEW d \in Dev, Waiting(d)'
  PROVE  \/ /\ Waiting(d) /\ Room(d)' = Room(d)
            /\ d \in todo' => d \in todo
            /\ d = e => ~MayStart(d)
         \/ d = e /\ d \notin todo' /\ count'[d] = Timeout
<1> USE DEF WaitInv, Inv
<1>1. Alone(e)
  BY MasterAlone
<1>2. CASE d # e
  BY <1>1, <1>2, OthersClocks DEF Alone, Waiting
<1>3. CASE d = e
  <2> USE DEF TypeOK, ArbiterTypeOK, Drive, outVars, masterVars
  <2>1. at'[e] = "request" /\ out_req'[e] = "0" /\ e \in todo
    BY <1>1, <1>3 DEF Waiting, Alone
  <2>2. CASE Wait(e)
    BY <1>3, <2>1, <2>2 DEF Wait, React, Start, Waiting, Room
  <2>3. CASE Request(e)
    BY <1>3, <2>1, <2>3 DEF Request, React, Start
  <2>4. CASE SplitCompletion(e)
    BY <1>3, <2>1, <2>4 DEF SplitCompletion, React, Start
  <2>5. ~Return(e)
    BY <2>1 DEF Return, Asking
  <2>6. Wait(e) \/ Request(e) \/ SplitCompletion(e)
    BY <2>1, <2>5 DEF Master, Idle, RequestTimeout, Hold, Data, LastWord, Raise, Undrive,
                     MasterAbort, SplitRead, Dead
  <2> QED
    BY <2>2, <2>3, <2>4, <2>6
<1> QED
  BY <1>2, <1>3

(* A reaction keeps the clocks that are left to those who wait.            *)
LEMMA PatienceMaster ==
  ASSUME LongEnough, WaitInv, NEW e \in Dev, Master(e)
  PROVE  Patience'
<1> SUFFICES ASSUME NEW d \in Dev, Waiting(d)'
             PROVE  IF d \in req_n' THEN InTurn(d)'
                    ELSE d \notin todo' /\ Room(d)' >= Turns(Cardinality(Dev))
  BY DEF Patience
<1> USE DEF WaitInv, Inv
<1> DEFINE N == Cardinality(Dev)
<1>1. /\ UNCHANGED <<phase, req_n, granted, gnt, pci_frame, pci_irdy>>
      /\ e \in todo /\ todo' \subseteq todo
      /\ \A o \in Dev \ {e} : (o \in todo' <=> o \in todo) /\ out_req'[o] = out_req[o]
                             /\ at'[o] = at[o]
  BY MasterAlone DEF Alone, arbiterVars, sendVars
<1>2. \A o \in Dev : MayStart(o)' <=> MayStart(o)
  BY <1>1 DEF MayStart
<1>3. Begins(e) => granted = e
  BY DEF Begins, MayStart, OneGrant
<1>4. TypeOK' /\ Asking'
  BY TypeMaster, MasterClocks
<1>5. /\ \A o \in Dev : Busy(o) \in Nat /\ Busy(o)' \in Nat /\ Busy(o)' <= Longest - 1
      /\ Room(d) \in Int /\ Room(d)' \in Int
  <2>1. \A o \in Dev : Busy(o) \in Nat
    BY BusyBounds
  <2>2. \A o \in Dev : Busy(o)' \in Nat /\ Busy(o)' <= Longest - 1
    BY <1>4, AfterStep DEF BusyBounded
  <2>3. Room(d) \in Int /\ Room(d)' \in Int
    <3>1. count[d] \in Nat /\ count'[d] \in Nat
      BY <1>4 DEF TypeOK
    <3> QED
      BY <3>1 DEF Room
  <2> QED
    BY <2>1, <2>2, <2>3
<1>6. \A o \in Dev : Busy(o)' <= Busy(o) \/ (o = e /\ Begins(e))
  BY <1>5, MasterClocks, OthersClocks
<1>7. CASE d = e /\ d \notin todo' /\ count'[d] = Timeout
  <2>1. Turns(N) \in Nat /\ Turns(N) = Turns(N - 1) + Turn /\ Turns(N - 1) \in Nat
    BY AllTurns
  <2>2. Room(d)' >= Turns(N)
    BY <1>7, <2>1, BusConstantsOK DEF Room, LongEnough, BusConstantsOK
  <2> HIDE DEF N
  <2>3. ASSUME NEW o \in Dev PROVE Room(d)' >= Busy(o)' + (1 + Turns(N - 1))
    <3>1. Busy(o)' \in Nat /\ Busy(o)' <= Longest - 1 /\ Room(d)' \in Int
      BY <1>5, TurnFacts
    <3> QED
      BY <2>1, <2>2, <3>1, TurnFacts
  <2>4. AnyTurn(d)' /\ Room(d)' >= Turns(N) - 1
    BY <1>5, <2>1, <2>2, <2>3, TurnFacts DEF AnyTurn, Lasts, N
  <2> QED
    BY <1>4, <1>7, <2>2, <2>4, AfterStep DEF FreshWait, N
<1>8. CASE /\ Waiting(d) /\ Room(d)' = Room(d)
           /\ d \in todo' => d \in todo
           /\ d = e => ~MayStart(d)
  <2>1. CASE d \notin req_n
    BY <1>1, <1>8, <2>1 DEF Patience
  <2>2. CASE d \in req_n
    <3>1. InTurn(d)
      BY <1>8, <2>2 DEF Patience
    <3>2. ASSUME NEW n \in Int, Lasts(d, n), ~Begins(e) PROVE Lasts(d, n)'
      BY <1>6, <1>5, <1>8, <3>2 DEF Lasts
    <3>3. granted = d => OwnTurn(d)'
      <4> SUFFICES ASSUME granted = d PROVE OwnTurn(d)'
        OBVIOUS
      <4>1. OwnTurn(d)
        BY <3>1 DEF InTurn
      <4>2. ~Begins(e)
        BY <1>3, <1>8 DEF Begins
      <4> QED
        BY <1>1, <1>2, <1>8, <3>2, <4>1, <4>2 DEF OwnTurn
    <3>4. granted = None => AnyTurn(d)'
      <4>1. ASSUME granted = None PROVE ~Begins(e)
        BY <1>3, <4>1, ArbiterConstantsOK DEF ArbiterConstantsOK
      <4>2. 1 + Turns(N - 1) \in Int
        BY AllTurns
      <4> QED
        BY <3>1, <3>2, <4>1, <4>2 DEF InTurn, AnyTurn
    <3>5. ASSUME granted \notin {d, None}
          PROVE  (LET n == Turns(Rank(granted, d) - 1)
                  IN  IF granted \in req_n /\ out_req[granted] = "0"
                      THEN BeforeTurn(granted, d, n)
                      ELSE AfterTurn(granted, d, n))'
      <4>1. PICK g \in Dev : g = granted /\ g # d
        BY <3>5 DEF TypeOK, ArbiterTypeOK
      <4>2. PICK n \in Nat : n = Turns(Rank(granted, d) - 1)
        BY <4>1, RankBounds, TurnsFacts
      <4>3. IF g \in req_n /\ out_req[g] = "0"
            THEN BeforeTurn(g, d, n) ELSE AfterTurn(g, d, n)
        BY <3>1, <3>5, <4>1, <4>2 DEF InTurn
      <4> SUFFICES IF g \in req_n /\ out_req'[g] = "0"
                   THEN BeforeTurn(g, d, n)' ELSE AfterTurn(g, d, n)'
        BY <1>1, <4>1, <4>2
      <4>4. /\ Delay(g) \in Nat /\ Longest \in Nat /\ Longest + n \in Nat
            /\ 1 + n \in Nat /\ 1 + Turn + n \in Nat
        BY <4>1, <4>2, TurnFacts DEF Asking, Delay
      <4>5. ASSUME Room(d) >= Longest + n PROVE Lasts(d, 1 + n)'
        <5>1. ASSUME NEW o \in Dev PROVE Room(d)' >= Busy(o)' + (1 + n)
          <6>1. /\ Busy(o)' \in Nat /\ Busy(o)' <= Longest - 1
                /\ Room(d) \in Int /\ Room(d)' = Room(d)
            BY <1>5, <1>8
          <6> QED
            BY <4>2, <4>4, <4>5, <6>1
        <5> QED
          BY <5>1 DEF Lasts
      <4>6. CASE ~(g \in req_n /\ out_req[g] = "0")
        <5>1. AfterTurn(g, d, n)
          BY <4>3, <4>6
        <5>2. ~(g \in req_n /\ out_req'[g] = "0")
          BY <1>1, <4>1, <4>6 DEF Arbitrated
        <5>3. Lasts(d, 1 + n)'
          <6>1. CASE Begins(e)
            <7>1. phase = 0 /\ g \in todo /\ at[g] # "address"
              BY <1>1, <1>3, <4>1, <6>1 DEF Begins, Held
            <7> QED
              BY <4>5, <5>1, <7>1 DEF AfterTurn
          <6>2. CASE ~Begins(e)
            BY <3>2, <4>4, <5>1, <6>2 DEF AfterTurn
          <6> QED
            BY <6>1, <6>2
        <5>4. phase = 0 /\ g \in todo' /\ at'[g] # "address" => Room(d)' >= Longest + n
          <6>1. at[e] = "address" => e \notin todo'
            BY DEF Master, Idle, Request, Wait, RequestTimeout, Hold, Data, LastWord, Raise,
                   Undrive, Return, MasterAbort, SplitRead, SplitCompletion, Dead, React
          <6>2. g \in todo' /\ at'[g] # "address" => g \in todo /\ at[g] # "address"
            BY <1>1, <4>1, <6>1
          <6> QED
            BY <1>8, <5>1, <6>2 DEF AfterTurn
        <5> QED
          BY <1>1, <5>2, <5>3, <5>4 DEF AfterTurn
      <4>7. CASE g \in req_n /\ out_req[g] = "0" /\ g = e
        <5>1. BeforeTurn(g, d, n) /\ g \in todo /\ g \notin todo'
          BY <1>1, <4>3, <4>7, AskerReacts
        <5>2. CASE Begins(e)
          <6>1. Room(d) >= Delay(g) + Longest + n
            BY <4>7, <5>1, <5>2 DEF Begins, BeforeTurn
          <6>2. Lasts(d, 1 + n)'
            BY <1>5, <4>2, <4>4, <4>5, <6>1
          <6> QED
            BY <1>1, <4>7, <5>1, <5>2, <6>2 DEF AfterTurn, Begins
        <5>3. CASE ~Begins(e)
          <6>1. out_req'[g] = "0"
            BY <4>7, <5>3, AskerReacts
          <6>2. CASE MayStart(g)
            <7>1. Room(d) >= Delay(g) + Longest + n
              BY <5>1, <6>2 DEF BeforeTurn
            <7>2. Delay(g)' = Delay(g) - 1
              BY <4>7, <5>3, <6>2, AskerReacts
            <7>3. Room(d)' >= 1 + Delay(g)' + Longest + n
              BY <1>5, <1>8, <4>2, <4>4, <7>1, <7>2
            <7>4. \A o \in Dev : Busy(o)' = 0
              <8>1. \A o \in Dev : Busy(o) = 0
                BY <4>7, <5>1, <6>2, FreeBus DEF Asking
              <8> QED
                BY <1>6, <1>5, <5>3, <8>1
            <7> QED
              BY <1>1, <4>7, <5>1, <6>1, <7>3, <7>4 DEF BeforeTurn
          <6>3. CASE ~MayStart(g)
            <7>1. Lasts(d, 1 + Turn + n)'
              BY <3>2, <4>4, <5>1, <5>3, <6>3 DEF BeforeTurn
            <7> QED
              BY <1>1, <4>7, <5>1, <6>1, <7>1 DEF BeforeTurn
          <6> QED
            BY <6>2, <6>3
        <5> QED
          BY <5>2, <5>3
      <4>8. CASE g \in req_n /\ out_req[g] = "0" /\ g # e
        <5>1. /\ out_req'[g] = "0" /\ ~Begins(e) /\ Delay(g)' = Delay(g)
              /\ g \in todo' <=> g \in todo
          BY <1>1, <1>3, <4>1, <4>8, OthersClocks
        <5>2. Lasts(d, 1 + Turn + n) => Lasts(d, 1 + Turn + n)'
          BY <3>2, <4>4, <5>1
        <5>3. (\A o \in Dev : Busy(o) = 0) => \A o \in Dev : Busy(o)' = 0
          BY <1>6, <1>5, <5>1
        <5>4. BeforeTurn(g, d, n)
          BY <4>3, <4>8
        <5>5. BeforeTurn(g, d, n)'
          BY <1>1, <1>2, <1>8, <4>1, <5>1, <5>2, <5>3, <5>4 DEF BeforeTurn
        <5> QED
          BY <1>1, <4>8, <5>1, <5>5
      <4> QED
        BY <4>6, <4>7, <4>8
    <3> QED
      BY <1>1, <2>2, <3>3, <3>4, <3>5 DEF InTurn
  <2> QED
    BY <2>1, <2>2
<1> QED
  BY <1>7, <1>8, WaiterReacts

(* A reaction keeps the invariant.                                         *)
LEMMA WaitMaster ==
  ASSUME LongEnough, WaitInv, NEW e \in Dev, Master(e)
  PROVE  WaitInv'
<1> USE DEF WaitInv
<1>1. Inv'
  BY InvMaster
<1>2. Asking'
  BY MasterClocks
<1>3. Patience'
  BY PatienceMaster
<1>4. Arbitrated'
  <2>1. Alone(e)
    BY MasterAlone DEF Inv
  <2>2. UNCHANGED <<phase, req_n, granted>>
    BY <2>1 DEF Alone, arbiterVars
  <2>3. ASSUME NEW d \in req_n, out_req'[d] # "0"
        PROVE  at'[d] = "address" /\ d \notin todo'
    <3>1. d \in Dev
      BY DEF Inv, TypeOK, ArbiterTypeOK
    <3>2. CASE out_req[d] # "0"
      BY <2>1, <3>1, <3>2 DEF Arbitrated, Alone
    <3>3. CASE out_req[d] = "0"
      <4>1. d = e
        BY <2>1, <2>3, <3>1, <3>3 DEF Alone
      <4> QED
        BY <2>3, <3>3, <4>1, AskerReacts DEF Begins
    <3> QED
      BY <3>2, <3>3
  <2> QED
    BY <2>2, <2>3 DEF Arbitrated
<1> QED
  BY <1>1, <1>2, <1>3, <1>4

-----------------------------------------------------------------------------
(* Phases of the bus                                                       *)

(* A line that nobody drives low is not seen low.                          *)
LEMMA BlendHigh ==
  ASSUME NEW out \in [Dev -> Bit], \A d \in Dev : out[d] # "0", NEW ref
  PROVE  subtract_feedback(Blend(out), ref) # "0"
<1> DEFINE driven == {out[d] : d \in Dev} \ {"Z"}
<1>1. driven # {} => (CHOOSE v \in Bit : v \in driven) \in driven
  <2>1. driven \subseteq Bit
    OBVIOUS
  <2> QED
    BY <2>1
<1>2. Blend(out) # "0"
  BY <1>1 DEF Blend
<1> QED
  BY <1>2 DEF subtract_feedback

(* With nobody in a transaction the posedge lets the grantee start.        *)
LEMMA FreeSeen ==
  ASSUME Inv, Asking, Bus, phase' = 0, NEW g \in Dev, granted = g,
         \A e \in Dev : Busy(e) = 0
  PROVE  MayStart(g)'
<1> USE DEF Inv
<1>1. todo = {} /\ gnt' = gnt /\ blend_bi_signals_
  BY DEF Bus, run_run, track_req_n_
<1>2. ASSUME NEW e \in Dev PROVE at[e] \notin {"address", "data"}
  <2>1. Busy(e) = 0
    OBVIOUS
  <2> QED
    BY <1>1, <2>1, TurnFacts DEF Busy, Asking
<1>3. \A e \in Dev : out_frame[e] # "0" /\ out_irdy[e] # "0"
  BY <1>2 DEF Lines, Drives, TypeOK
<1>4. pci_frame'[g] # "0" /\ pci_irdy'[g] # "0"
  BY <1>1, <1>3, BlendHigh DEF blend_bi_signals_, TypeOK, ArbiterTypeOK
<1> QED
  BY <1>1, <1>4, ArbiterConstantsOK DEF ArbiterConstantsOK, MayStart, OneGrant

(* What a phase does to the clocks: the posedge takes one off all of them. *)
LEMMA BusClocks ==
  ASSUME WaitInv, Bus, NEW d \in Dev
  PROVE  /\ Delay(d)' = Delay(d) /\ (Waiting(d)' <=> Waiting(d))
         /\ phase' # 0 => Room(d)' = Room(d) /\ Busy(d)' = Busy(d)
         /\ phase' = 0 => /\ Room(d)' = Room(d) - 1
                          /\ Busy(d)' = IF Busy(d) = 0 THEN 0 ELSE Busy(d) - 1
<1> USE DEF WaitInv, Inv
<1>1. /\ todo = {} /\ UNCHANGED <<at, left, count, out_req>>
      /\ todo' = IF phase' = 0 THEN Dev ELSE {}
  BY DEF Bus, outVars, masterVars
<1>2. count[d] \in Nat /\ left[d] \in Nat
  BY DEF TypeOK
<1>3. Delay(d)' = Delay(d) /\ (Waiting(d)' <=> Waiting(d))
  BY <1>1 DEF Delay, Waiting
<1>4. ASSUME phase' # 0 PROVE Room(d)' = Room(d) /\ Busy(d)' = Busy(d)
  BY <1>1, <1>4 DEF Room, Busy
<1>5. ASSUME phase' = 0 PROVE Room(d)' = Room(d) - 1
  BY <1>1, <1>2, <1>5 DEF Room
<1>6. ASSUME phase' = 0
      PROVE  Busy(d)' = IF Busy(d) = 0 THEN 0 ELSE Busy(d) - 1
  <2>1. CASE at[d] \notin {"address", "data"}
    BY <1>1, <2>1 DEF Busy
  <2>2. CASE at[d] = "address"
    <3>1. left[d] \in 1..MaxAddress
      BY <2>2 DEF Asking
    <3> QED
      BY <1>1, <1>6, <2>2, <3>1, TurnFacts DEF Busy
  <2>3. CASE at[d] = "data"
    <3>1. left[d] \in 1..MaxData
      BY <2>3 DEF Asking
    <3> QED
      BY <1>1, <1>6, <2>3, <3>1, TurnFacts DEF Busy
  <2> QED
    BY <2>1, <2>2, <2>3
<1> QED
  BY <1>3, <1>4, <1>5, <1>6

(* A posedge that sees the bus in use leaves the wait after it as it is.   *)
LEMMA LastsPosedge ==
  ASSUME WaitInv, Bus, phase' = 0, NEW d \in Dev, NEW n \in Nat, Lasts(d, n),
         NEW o \in Dev, Busy(o) # 0
  PROVE  Lasts(d, n)'
<1> USE DEF WaitInv, Inv
<1>1. Room(d) \in Int /\ Busy(o) \in Nat /\ Room(d) >= Busy(o) + n
  BY BusyBounds, RoomType DEF Lasts
<1>2. ASSUME NEW e \in Dev PROVE Room(d)' >= Busy(e)' + n
  <2>1. Busy(e) \in Nat /\ Room(d) >= Busy(e) + n
    BY BusyBounds DEF Lasts
  <2>2. /\ Room(d)' = Room(d) - 1
        /\ Busy(e)' = IF Busy(e) = 0 THEN 0 ELSE Busy(e) - 1
    BY BusClocks
  <2> QED
    BY <1>1, <2>1, <2>2
<1> QED
  BY <1>2 DEF Lasts

(* A phase without a posedge and without a new grant leaves all as it is.  *)
LEMMA PatienceKept ==
  ASSUME WaitInv, Bus, phase' # 0, UNCHANGED <<req_n, granted>>
  PROVE  Patience'
<1> SUFFICES ASSUME NEW d \in Dev, Waiting(d)'
             PROVE  IF d \in req_n' THEN InTurn(d)'
                    ELSE d \notin todo' /\ Room(d)' >= Turns(Cardinality(Dev))
  BY DEF Patience
<1> USE DEF WaitInv, Inv
<1>1. todo = {} /\ todo' = {} /\ UNCHANGED <<at, out_req>>
  BY DEF Bus, outVars, masterVars
<1>2. /\ Waiting(d) /\ Room(d)' = Room(d)
      /\ \A e \in Dev : Busy(e)' = Busy(e) /\ Delay(e)' = Delay(e)
  BY BusClocks
<1>3. CASE d \notin req_n
  BY <1>1, <1>2, <1>3 DEF Patience
<1>4. CASE d \in req_n
  <2>1. InTurn(d)
    BY <1>2, <1>4 DEF Patience
  <2>2. ASSUME NEW n, Lasts(d, n) PROVE Lasts(d, n)'
    BY <1>2, <2>2 DEF Lasts
  <2>3. granted = d => OwnTurn(d)'
    BY <1>1, <2>1, <2>2 DEF InTurn, OwnTurn
  <2>4. granted = None => AnyTurn(d)'
    BY <2>1, <2>2 DEF InTurn, AnyTurn
  <2>5. ASSUME granted \notin {d, None}
        PROVE  (LET n == Turns(Rank(granted, d) - 1)
                IN  IF granted \in req_n /\ out_req[granted] = "0"
                    THEN BeforeTurn(granted, d, n)
                    ELSE AfterTurn(granted, d, n))'
    <3>1. PICK g \in Dev : g = granted
      BY <2>5 DEF TypeOK, ArbiterTypeOK
    <3>2. PICK n : n = Turns(Rank(granted, d) - 1)
      OBVIOUS
    <3>3. IF g \in req_n /\ out_req[g] = "0"
          THEN BeforeTurn(g, d, n) ELSE AfterTurn(g, d, n)
      BY <2>1, <2>5, <3>1, <3>2 DEF InTurn
    <3>4. BeforeTurn(g, d, n) => BeforeTurn(g, d, n)'
      BY <1>1, <1>2, <2>2 DEF BeforeTurn
    <3>5. AfterTurn(g, d, n) => AfterTurn(g, d, n)'
      BY <1>1, <1>2, <2>2 DEF AfterTurn
    <3> QED
      BY <1>1, <3>1, <3>2, <3>3, <3>4, <3>5
  <2> QED
    BY <1>4, <2>3, <2>4, <2>5 DEF InTurn
<1> QED
  BY <1>3, <1>4

(* A new grant takes one turn off the wait of those it passes over.        *)
LEMMA PatienceGrant ==
  ASSUME WaitInv, Bus, phase' = 1, Grant
  PROVE  Patience'
<1> SUFFICES ASSUME NEW d \in Dev, Waiting(d)'
             PROVE  IF d \in req_n' THEN InTurn(d)'
                    ELSE d \notin todo' /\ Room(d)' >= Turns(Cardinality(Dev))
  BY DEF Patience
<1> USE DEF WaitInv, Inv
<1> DEFINE N == Cardinality(Dev)
<1>1. /\ todo = {} /\ todo' = {} /\ UNCHANGED <<at, out_req>>
      /\ req_n' = req_n /\ req_n \subseteq Dev
  BY DEF Bus, run_run, arbitrate_, outVars, masterVars, TypeOK, ArbiterTypeOK
<1>2. /\ Waiting(d) /\ Room(d)' = Room(d) /\ Room(d) \in Int
      /\ \A e \in Dev : Busy(e)' = Busy(e) /\ Busy(e) \in Nat
  BY BusClocks, BusyBounds, RoomType
<1>3. CASE d \notin req_n
  BY <1>1, <1>2, <1>3 DEF Patience
<1>4. CASE d \in req_n
  <2>1. InTurn(d)
    BY <1>2, <1>4 DEF Patience
  <2>2. granted \notin req_n
    BY DEF Grant
  <2>3. PICK from \in 0..(Slots - 1) :
          granted' = Nearest(from, req_n) /\ (granted # None => from = granted)
    <3>1. granted # None => granted \in 0..(Slots - 1)
      BY ArbiterConstantsOK DEF ArbiterConstantsOK, TypeOK, ArbiterTypeOK
    <3> QED
      BY <3>1 DEF Grant
  <2>4. PICK h \in Dev : h = granted' /\ h \in req_n
    <3>1. Nearest(from, req_n) \in req_n
      BY <1>1, <1>4, NearestRequester
    <3> QED
      BY <1>1, <2>3, <3>1
  <2>5. ASSUME NEW m \in Nat, NEW n \in Nat, m <= n, Lasts(d, 1 + n)
        PROVE  Lasts(d, 1 + m)'
    <3>1. ASSUME NEW e \in Dev PROVE Room(d)' >= Busy(e)' + (1 + m)
      <4>1. /\ Room(d) >= Busy(e) + (1 + n) /\ Busy(e)' = Busy(e) /\ Busy(e) \in Nat
            /\ Room(d)' = Room(d) /\ Room(d) \in Int
        BY <1>2, <2>5 DEF Lasts
      <4> QED
        BY <2>5, <4>1
    <3> QED
      BY <3>1 DEF Lasts
  <2>6. N - 1 \in Nat
    BY AllTurns
  <2>7. \E n \in Nat : Lasts(d, 1 + Turns(n)) /\ (h # d => Rank(h, d) <= n)
    <3>1. CASE granted = None
      <4>1. Lasts(d, 1 + Turns(N - 1))
        BY <2>1, <3>1 DEF InTurn, AnyTurn
      <4>2. h # d => Rank(h, d) <= N - 1
        BY RankBounds
      <4> QED
        BY <2>6, <4>1, <4>2
    <3>2. CASE granted # None
      <4>1. granted \in Dev /\ granted # d /\ from = granted
        <5>1. granted \in Dev
          BY <3>2 DEF TypeOK, ArbiterTypeOK
        <5> QED
          BY <1>4, <2>2, <2>3, <3>2, <5>1
      <4>2. Lasts(d, 1 + Turns(Rank(granted, d) - 1))
        BY <2>1, <2>2, <3>2, <4>1 DEF InTurn, AfterTurn
      <4>3. h # d => Rank(h, d) + 1 <= Rank(granted, d)
        <5>1. PICK g \in Dev : g = granted /\ g # d /\ h = Nearest(g, req_n)
          BY <2>3, <2>4, <4>1
        <5>2. PICK D : D = req_n /\ d \in D /\ D \subseteq Dev
          BY <1>1, <1>4
        <5>3. Nearest(g, D) # d => Rank(Nearest(g, D), d) + 1 <= Rank(g, d)
          BY <5>1, <5>2, RankDrops
        <5> QED
          BY <5>1, <5>2, <5>3
      <4>4. Rank(granted, d) \in Nat /\ Rank(granted, d) >= 1
        BY <4>1, RankBounds
      <4>5. h # d => Rank(h, d) \in Nat
        BY RankBounds
      <4> QED
        BY <4>2, <4>3, <4>4, <4>5
    <3> QED
      BY <3>1, <3>2
  <2>8. PICK n \in Nat : Lasts(d, 1 + Turns(n)) /\ (h # d => Rank(h, d) <= n)
    BY <2>7
  <2>9. Turns(n) \in Nat
    BY TurnsFacts
  <2>10. CASE h = d
    <3>1. Lasts(d, 1)'
      <4>1. Lasts(d, 1 + 0)'
        BY <2>5, <2>8, <2>9
      <4> QED
        BY <4>1
    <3> QED
      BY <1>1, <1>4, <2>4, <2>10, <3>1, ArbiterConstantsOK
      DEF ArbiterConstantsOK, InTurn, OwnTurn
  <2>11. CASE h # d
    <3>1. PICK r \in Nat : r + 1 = Rank(h, d)
      <4>1. Rank(h, d) - 1 \in Nat
        BY <2>11, RankBounds
      <4> QED
        BY <2>11, <4>1, RankBounds
    <3>2. PICK m \in Nat : m = Turns(r)
      BY TurnsFacts
    <3>3. Turns(r + 1) = m + Turn /\ Turns(r + 1) <= Turns(n)
      BY <2>8, <2>11, <3>1, <3>2, TurnsFacts
    <3>4. Lasts(d, 1 + (Turn + m))' /\ Lasts(d, 1 + m)'
      <4>1. /\ Turn + m \in Nat /\ Turn + m <= Turns(n) /\ m <= Turns(n)
        BY <2>9, <3>3, TurnFacts
      <4> QED
        BY <2>5, <2>8, <2>9, <4>1
    <3>5. 1 + (Turn + m) = 1 + Turn + m
      BY TurnFacts
    <3>6. BeforeTurn(h, d, m)' /\ AfterTurn(h, d, m)'
      BY <1>1, <3>4, <3>5 DEF BeforeTurn, AfterTurn
    <3>7. m = Turns(Rank(h, d) - 1)
      BY <3>1, <3>2
    <3>8. granted' # None
      BY <2>4, ArbiterConstantsOK DEF ArbiterConstantsOK
    <3> QED
      BY <1>1, <1>4, <2>4, <2>11, <3>6, <3>7, <3>8 DEF InTurn
  <2> QED
    BY <2>10, <2>11
<1> QED
  BY <1>3, <1>4

(* The posedge takes a clock off the wait, and one off the transaction or  *)
(* the turn that is waited for.                                            *)
LEMMA PatiencePosedge ==
  ASSUME WaitInv, Bus, phase' = 0, TypeOK', Asking'
  PROVE  Patience'
<1> SUFFICES ASSUME NEW d \in Dev, Waiting(d)' PROVE d \in req_n' /\ InTurn(d)'
  BY DEF Patience
<1> USE DEF WaitInv, Inv
<1> DEFINE N == Cardinality(Dev)
<1>1. /\ todo = {} /\ todo' = Dev /\ UNCHANGED <<at, out_req, granted>>
      /\ req_n' = {e \in Dev : out_req[e] = "0"}
  BY DEF Bus, run_run, track_req_n_, outVars, masterVars
<1>2. /\ Waiting(d) /\ Room(d)' = Room(d) - 1 /\ Room(d) \in Int
      /\ \A e \in Dev : /\ Busy(e)' = IF Busy(e) = 0 THEN 0 ELSE Busy(e) - 1
                       /\ Busy(e) \in Nat /\ Busy(e)' \in Nat /\ Busy(e)' <= Longest - 2
  <2>1. \A e \in Dev : Busy(e)' \in Nat /\ Busy(e)' <= Longest - 2
    BY <1>1, AfterStep DEF BusyBounded
  <2> QED
    BY <2>1, BusClocks, BusyBounds, RoomType
<1>3. d \in req_n'
  BY <1>1, <1>2 DEF Waiting
<1>4. CASE d \notin req_n
  <2>1. Turns(N) \in Nat /\ Turns(N) = Turns(N - 1) + Turn /\ Turns(N - 1) \in Nat
    BY AllTurns
  <2>2. Room(d)' >= Turns(N) - 1
    BY <1>2, <1>4, <2>1 DEF Patience
  <2> HIDE DEF N
  <2>3. ASSUME NEW e \in Dev PROVE Room(d)' >= Busy(e)' + (1 + Turns(N - 1))
    <3>1. Busy(e)' \in Nat /\ Busy(e)' <= Longest - 2 /\ Room(d)' \in Int
      BY <1>2
    <3> QED
      BY <2>1, <2>2, <3>1, TurnFacts
  <2>4. AnyTurn(d)'
    BY <2>3 DEF AnyTurn, Lasts, N
  <2> QED
    BY <1>3, <2>2, <2>4, AfterStep DEF FreshWait, N
<1>5. CASE d \in req_n
  <2>1. InTurn(d)
    BY <1>2, <1>5 DEF Patience
  <2>2. phase # 0
    BY DEF Bus, run_run, TypeOK, ArbiterTypeOK
  <2>3. PICK g \in Dev : g = granted /\ g \in req_n
    BY <1>5, <2>2 DEF Arbitrated, TypeOK, ArbiterTypeOK
  <2>4. (\A e \in Dev : Busy(e) = 0) => MayStart(g)'
    BY <2>3, FreeSeen
  <2>5. ASSUME NEW n \in Nat, Lasts(d, n), ~(\A e \in Dev : Busy(e) = 0)
        PROVE  Lasts(d, n)'
    BY <2>5, LastsPosedge
  <2>6. CASE g = d
    <3>1. Lasts(d, 1)
      BY <1>1, <2>1, <2>3, <2>6 DEF InTurn, OwnTurn
    <3>2. Room(d)' >= 0
      BY <1>2, <3>1, LastsRoom
    <3>3. ~MayStart(d)' => Lasts(d, 1)'
      BY <2>4, <2>5, <2>6, <3>1
    <3>4. OwnTurn(d)'
      BY <1>1, <3>2, <3>3 DEF OwnTurn
    <3> QED
      BY <1>1, <1>3, <2>3, <2>6, <3>4, ArbiterConstantsOK DEF ArbiterConstantsOK, InTurn
  <2>7. CASE g # d
    <3>1. PICK n \in Nat : n = Turns(Rank(g, d) - 1)
      BY <2>7, RankBounds, TurnsFacts
    <3>2. IF out_req[g] = "0" THEN BeforeTurn(g, d, n) ELSE AfterTurn(g, d, n)
      BY <2>1, <2>3, <2>7, <3>1, ArbiterConstantsOK DEF ArbiterConstantsOK, InTurn
    <3>3. /\ 1 + n \in Nat /\ 1 + Turn + n \in Nat
          /\ Delay(g) \in Nat /\ Delay(g) <= SplitDelay /\ Delay(g)' = Delay(g)
      BY TurnFacts, BusClocks DEF Delay, Asking
    <3>4. CASE out_req[g] = "0"
      <4>1. \/ Lasts(d, 1 + Turn + n)
            \/ (\A e \in Dev : Busy(e) = 0) /\ Room(d) >= 1 + Delay(g) + Longest + n
        BY <1>1, <3>2, <3>4 DEF BeforeTurn
      <4>2. Room(d)' >= Delay(g)' + Longest + n
        <5>1. Lasts(d, 1 + Turn + n) => Room(d) >= 1 + Turn + n
          BY <3>3, LastsRoom
        <5> QED
          BY <1>2, <3>3, <4>1, <5>1, TurnFacts
      <4>3. ~MayStart(g)' => Lasts(d, 1 + Turn + n)'
        BY <2>4, <2>5, <3>3, <4>1
      <4>4. BeforeTurn(g, d, n)'
        BY <1>1, <4>2, <4>3 DEF BeforeTurn
      <4> QED
        BY <1>1, <1>3, <2>3, <2>7, <3>1, <3>4, <4>4, ArbiterConstantsOK
        DEF ArbiterConstantsOK, InTurn
    <3>5. CASE out_req[g] # "0"
      <4>1. at[g] = "address" /\ Busy(g) # 0
        <5>1. at[g] = "address" /\ left[g] \in 1..MaxAddress
          BY <2>3, <3>5 DEF Arbitrated, Asking
        <5> QED
          BY <1>1, <5>1, TurnFacts DEF Busy
      <4>2. Lasts(d, 1 + n)'
        BY <2>5, <3>2, <3>3, <3>5, <4>1 DEF AfterTurn
      <4>3. AfterTurn(g, d, n)'
        BY <1>1, <4>1, <4>2 DEF AfterTurn
      <4> QED
        BY <1>1, <1>3, <2>3, <2>7, <3>1, <3>5, <4>3, ArbiterConstantsOK
        DEF ArbiterConstantsOK, InTurn
    <3> QED
      BY <3>4, <3>5
  <2> QED
    BY <2>6, <2>7
<1> QED
  BY <1>4, <1>5

(* A phase of the bus keeps the invariant.                                 *)
LEMMA WaitBus == WaitInv /\ Bus => WaitInv'
<1> SUFFICES ASSUME WaitInv, Bus PROVE WaitInv'
  OBVIOUS
<1> USE DEF WaitInv
<1>1. Inv' /\ TypeOK'
  BY InvBus, TypeBus DEF Inv
<1>2. /\ todo = {} /\ UNCHANGED <<at, left, out_req>>
      /\ todo' = IF phase' = 0 THEN Dev ELSE {}
  BY DEF Bus, outVars, masterVars
<1>3. Asking'
  BY <1>2 DEF Asking
<1>4. CASE phase' = 0
  <2>1. Patience'
    BY <1>1, <1>3, <1>4, PatiencePosedge
  <2>2. Arbitrated'
    BY <1>2, <1>4 DEF Arbitrated, Bus, run_run, track_req_n_
  <2> QED
    BY <1>1, <1>3, <2>1, <2>2
<1>5. CASE phase' = 1
  <2>1. (Recall \/ Keep \/ Grant) /\ UNCHANGED req_n
    BY <1>5 DEF Bus, run_run, arbitrate_
  <2>2. \A d \in req_n' : out_req'[d] # "0" => at'[d] = "address" /\ d \notin todo'
    BY <1>2, <1>5, <2>1 DEF Arbitrated
  <2>3. CASE Grant
    <3>1. Patience'
      BY <1>5, <2>3, PatienceGrant
    <3>2. granted' \in req_n
      BY <2>3, GrantRequester DEF Inv
    <3> QED
      BY <1>1, <1>3, <2>1, <2>2, <3>1, <3>2 DEF Arbitrated
  <2>4. CASE Keep
    <3>1. Patience'
      BY <1>5, <2>1, <2>4, PatienceKept DEF Keep
    <3> QED
      BY <1>1, <1>3, <2>1, <2>2, <2>4, <3>1 DEF Arbitrated, Keep
  <2>5. CASE Recall
    <3>1. req_n = {}
      BY <2>5 DEF Recall
    <3>2. ASSUME NEW d \in Dev, Waiting(d)'
          PROVE  d \notin todo' /\ Room(d)' >= Turns(Cardinality(Dev))
      <4>1. Waiting(d) /\ Room(d)' = Room(d)
        BY <1>5, <3>2, BusClocks
      <4> QED
        BY <1>2, <1>5, <3>1, <4>1 DEF Patience
    <3>3. Patience'
      BY <2>1, <3>1, <3>2 DEF Patience
    <3> QED
      BY <1>1, <1>3, <2>1, <2>2, <3>1, <3>3 DEF Arbitrated
  <2> QED
    BY <2>1, <2>3, <2>4, <2>5
<1>6. CASE phase' \notin {0, 1}
  <2>1. UNCHANGED <<req_n, granted>> /\ phase # 0
    BY <1>6 DEF Bus, run_run, Inv, TypeOK, ArbiterTypeOK
  <2>2. Patience'
    BY <1>6, <2>1, PatienceKept
  <2>3. Arbitrated'
    BY <1>2, <1>6, <2>1 DEF Arbitrated
  <2> QED
    BY <1>1, <1>3, <2>2, <2>3
<1> QED
  BY <1>4, <1>5, <1>6

-----------------------------------------------------------------------------
(* The wait of a device that asks ends                                     *)

(* The invariant of the wait, where the time limit is longer than a turn   *)
(* of every device.                                                        *)
THEOREM WaitInvariance == ASSUME LongEnough PROVE Spec => []WaitInv
<1>1. Init => WaitInv
  <2> SUFFICES ASSUME Init PROVE WaitInv
    OBVIOUS
  <2>1. \A d \in Dev : at[d] = "idle" /\ out_req[d] = "1"
    BY DEF Init, ArbiterInit
  <2>2. phase = 0 /\ req_n = {}
    BY DEF Init, ArbiterInit
  <2> QED
    BY <2>1, <2>2, InvInit DEF WaitInv, Asking, Arbitrated, Patience, Waiting
<1>2. WaitInv /\ UNCHANGED vars => WaitInv'
  <2> SUFFICES ASSUME WaitInv, UNCHANGED vars PROVE WaitInv'
    OBVIOUS
  <2> USE DEF vars, arbiterVars, outVars, sendVars, masterVars, WaitInv
  <2>1. Inv'
    BY UnchangedInv DEF vars
  <2>2. Asking' /\ Arbitrated'
    BY DEF Asking, Arbitrated
  <2>3. Patience'
    BY DEF Patience, InTurn, OwnTurn, AnyTurn, BeforeTurn, AfterTurn, Lasts, Waiting,
           MayStart, Room, Busy, Delay
  <2> QED
    BY <2>1, <2>2, <2>3
<1>3. WaitInv /\ [Next]_vars => WaitInv'
  BY <1>2, WaitBus, WaitMaster DEF Next
<1> QED
  BY <1>1, <1>3, PTL DEF Spec

(* No device whose REQ# is low waits until assert(count > 0) ends it: the  *)
(* round robin serves each of any number of devices within one turn of all *)
(* the others, although transactions are of any length up to their bounds, *)
(* parked devices start unasked and split reads hold up a granted device.  *)
THEOREM RequestGrantedHolds == ASSUME LongEnough PROVE Spec => []RequestGranted
<1>1. WaitInv => RequestGranted
  BY DEF WaitInv, Asking, RequestGranted
<1> QED
  BY <1>1, WaitInvariance, PTL

(* With the count of __pci_request_bus, 4096, and the 16 slots of the bus  *)
(* a turn of up to 255 clocks keeps every request from the assertion.      *)
THEOREM RequestGrantedIn4096 ==
  ASSUME Timeout = 4096, Turn <= 255
  PROVE  Spec => []RequestGranted
<1>1. Cardinality(Dev) \in Nat /\ Cardinality(Dev) <= 16
  <2>1. 0 \in Int /\ 15 \in Int /\ Slots - 1 = 15
    BY DEF Slots
  <2>2. IsFiniteSet(0..15) /\ Cardinality(0..15) = IF 0 > 15 THEN 0 ELSE 15 - 0 + 1
    BY <2>1, FS_Interval, Zenon
  <2>3. Dev \subseteq 0..15
    BY <2>1, ArbiterConstantsOK DEF ArbiterConstantsOK
  <2>4. Cardinality(0..15) = 16
    BY <2>2
  <2>5. Cardinality(Dev) <= Cardinality(0..15)
    BY <2>2, <2>3, FS_Subset
  <2> QED
    BY <2>4, <2>5, DevFinite
<1>2. Turns(Cardinality(Dev)) <= Turns(16) /\ Turns(16) = 16 * Turn
  BY <1>1, TurnsFacts DEF Turns
<1>3. LongEnough
  <2>1. Turns(Cardinality(Dev)) \in Nat
    BY <1>1, TurnsFacts
  <2> QED
    BY <1>2, <2>1, TurnFacts DEF LongEnough
<1> QED
  BY <1>3, RequestGrantedHolds
=============================================================================
