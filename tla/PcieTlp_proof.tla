----------------------------- MODULE PcieTlp_proof -----------------------------
(***************************************************************************)
(* Proofs about PcieTlp, for any addresses, values, numbers of tags and of *)
(* interrupts, and any endpoint: its types, the order of TLPs on either    *)
(* direction of the link, and what becomes of a request and its answer.    *)
(***************************************************************************)
EXTENDS PcieTlp, SequenceTheorems, FiniteSetTheorems, TLAPS

-----------------------------------------------------------------------------
(* Queues                                                                  *)

(* A queue of which one item has been taken, or to which one was added.    *)
LEMMA TailItems ==
  ASSUME NEW S, NEW q \in Seq(S), q # <<>>
  PROVE  /\ Head(q) \in S /\ Tail(q) \in Seq(S) /\ Len(q) \in Nat \ {0} /\ q[1] = Head(q)
         /\ DOMAIN q = 1..Len(q) /\ DOMAIN Tail(q) = 1..(Len(q) - 1) /\ Len(Tail(q)) = Len(q) - 1
         /\ \A i \in 1..(Len(q) - 1) : Tail(q)[i] = q[i + 1]
  BY HeadTailProperties, EmptySeq, LenProperties

LEMMA AppendBasics ==
  ASSUME NEW S, NEW q \in Seq(S), NEW t \in S
  PROVE  /\ Append(q, t) \in Seq(S) /\ Len(Append(q, t)) = Len(q) + 1
         /\ DOMAIN q = 1..Len(q) /\ DOMAIN Append(q, t) = 1..(Len(q) + 1) /\ Len(q) \in Nat
         /\ Append(q, t)[Len(q) + 1] = t /\ \A i \in 1..Len(q) : Append(q, t)[i] = q[i]
<1>1. Append(q, t) \in Seq(S) /\ Len(Append(q, t)) = Len(q) + 1
  OBVIOUS
<1> QED
  BY <1>1

LEMMA AppendItems ==
  ASSUME NEW S, NEW q \in Seq(S), NEW t \in S
  PROVE  /\ Append(q, t) \in Seq(S) /\ Append(q, t) # <<>> /\ Len(Append(q, t)) = Len(q) + 1
         /\ DOMAIN q = 1..Len(q) /\ DOMAIN Append(q, t) = 1..(Len(q) + 1)
         /\ Append(q, t)[Len(q) + 1] = t /\ Len(q) \in Nat
         /\ \A i \in 1..Len(q) : Append(q, t)[i] = q[i]
         /\ q # <<>> => Head(Append(q, t)) = Head(q) /\ Tail(Append(q, t)) = Append(Tail(q), t)
         /\ q = <<>> => Head(Append(q, t)) = t /\ Tail(Append(q, t)) = <<>>
<1>1. Append(q, t) \in Seq(S) /\ Len(Append(q, t)) = Len(q) + 1 /\ Append(q, t) # <<>>
  BY AppendBasics, EmptySeq
<1>2. /\ DOMAIN q = 1..Len(q) /\ DOMAIN Append(q, t) = 1..(Len(q) + 1) /\ Len(q) \in Nat
      /\ Append(q, t)[Len(q) + 1] = t /\ \A i \in 1..Len(q) : Append(q, t)[i] = q[i]
  BY AppendBasics
<1>3. ASSUME q # <<>> PROVE Head(Append(q, t)) = Head(q) /\ Tail(Append(q, t)) = Append(Tail(q), t)
  <2>1. Head(Append(q, t)) = Head(q)
    BY <1>1, <1>2, <1>3, TailItems
  <2>2. Tail(Append(q, t)) \in Seq(S) /\ Append(Tail(q), t) \in Seq(S)
    BY <1>1, <1>3, TailItems
  <2>3. Len(Tail(Append(q, t))) = Len(Append(Tail(q), t))
    BY <1>1, <1>3, TailItems
  <2>4. \A i \in 1..Len(Tail(Append(q, t))) : Tail(Append(q, t))[i] = Append(Tail(q), t)[i]
    <3>1. Len(q) \in Nat \ {0} /\ Len(Tail(Append(q, t))) = Len(q)
      BY <1>1, <1>3, TailItems
    <3> SUFFICES ASSUME NEW i \in 1..Len(q) PROVE Tail(Append(q, t))[i] = Append(Tail(q), t)[i]
      BY <3>1
    <3>2. Tail(Append(q, t))[i] = Append(q, t)[i + 1]
      BY <1>1, <3>1, TailItems
    <3>3. CASE i < Len(q)
      <4>1. Tail(q)[i] = q[i + 1] /\ Tail(q) \in Seq(S) /\ Len(Tail(q)) = Len(q) - 1
        BY <1>3, <3>1, <3>3, TailItems
      <4>2. Append(Tail(q), t)[i] = Tail(q)[i]
        <5>1. \A j \in 1..Len(Tail(q)) : Append(Tail(q), t)[j] = Tail(q)[j]
          BY <4>1, AppendBasics
        <5>2. i \in 1..Len(Tail(q))
          BY <3>1, <3>3, <4>1
        <5> QED
          BY <5>1, <5>2
      <4>3. Append(q, t)[i + 1] = q[i + 1]
        BY <1>2, <3>1, <3>3
      <4> QED
        BY <3>2, <4>1, <4>2, <4>3
    <3>4. CASE i = Len(q)
      <4>1. Tail(q) \in Seq(S) /\ Len(Tail(q)) = Len(q) - 1
        BY <1>3, <3>1, <3>4, TailItems
      <4>2. Append(Tail(q), t)[i] = t
        BY <3>1, <3>4, <4>1, AppendBasics
      <4> QED
        BY <1>2, <3>1, <3>2, <3>4, <4>2
    <3> QED
      BY <3>1, <3>3, <3>4
  <2> QED
    BY <2>1, <2>2, <2>3, <2>4, SeqEqual
<1>4. ASSUME q = <<>> PROVE Head(Append(q, t)) = t /\ Tail(Append(q, t)) = <<>>
  BY <1>4
<1> QED
  BY <1>1, <1>2, <1>3, <1>4

LEMMA ZeroAppend ==
  ASSUME NEW S, NEW q \in Seq(S), NEW t \in S, NEW K
  PROVE  Zero(Append(q, t), K) <=> Zero(q, K) /\ t \notin K
<1>1. /\ Len(q) \in Nat /\ DOMAIN q = 1..Len(q) /\ DOMAIN Append(q, t) = 1..(Len(q) + 1)
      /\ Append(q, t)[Len(q) + 1] = t /\ \A i \in 1..Len(q) : Append(q, t)[i] = q[i]
  BY AppendItems
<1> QED
  BY <1>1 DEF Zero

LEMMA OneAppend ==
  ASSUME NEW S, NEW q \in Seq(S), NEW t \in S, NEW K
  PROVE  /\ t \in K => (Zero(q, K) => One(Append(q, t), K))
         /\ t \notin K => (One(q, K) => One(Append(q, t), K))
<1>1. /\ Len(q) \in Nat /\ DOMAIN q = 1..Len(q) /\ DOMAIN Append(q, t) = 1..(Len(q) + 1)
      /\ Append(q, t)[Len(q) + 1] = t /\ \A i \in 1..Len(q) : Append(q, t)[i] = q[i]
  BY AppendItems
<1>2. ASSUME t \in K, Zero(q, K) PROVE One(Append(q, t), K)
  <2>1. \A j \in 1..(Len(q) + 1) : Append(q, t)[j] \in K => j = Len(q) + 1
    BY <1>1, <1>2 DEF Zero
  <2> QED
    BY <1>1, <1>2, <2>1 DEF One
<1>3. ASSUME t \notin K, One(q, K) PROVE One(Append(q, t), K)
  <2>1. PICK i \in 1..Len(q) : q[i] \in K /\ \A j \in 1..Len(q) : q[j] \in K => j = i
    BY <1>1, <1>3 DEF One
  <2>2. \A j \in 1..(Len(q) + 1) : Append(q, t)[j] \in K => j = i
    BY <1>1, <1>3, <2>1
  <2>3. i \in 1..(Len(q) + 1) /\ Append(q, t)[i] \in K
    BY <1>1, <2>1
  <2> QED
    BY <1>1, <2>2, <2>3 DEF One
<1> QED
  BY <1>2, <1>3

LEMMA ZeroTail ==
  ASSUME NEW S, NEW q \in Seq(S), q # <<>>, NEW K
  PROVE  Zero(q, K) <=> Head(q) \notin K /\ Zero(Tail(q), K)
<1>1. /\ Len(q) \in Nat \ {0} /\ q[1] = Head(q) /\ DOMAIN q = 1..Len(q)
      /\ DOMAIN Tail(q) = 1..(Len(q) - 1) /\ \A i \in 1..(Len(q) - 1) : Tail(q)[i] = q[i + 1]
  BY TailItems
<1>2. ASSUME Zero(q, K) PROVE Head(q) \notin K /\ Zero(Tail(q), K)
  BY <1>1, <1>2 DEF Zero
<1>3. ASSUME Head(q) \notin K, Zero(Tail(q), K), NEW j \in 1..Len(q) PROVE q[j] \notin K
  <2>1. CASE j = 1
    BY <1>1, <1>3, <2>1
  <2>2. CASE j # 1
    <3>1. j - 1 \in 1..(Len(q) - 1) /\ Tail(q)[j - 1] = q[j]
      BY <1>1, <2>2
    <3> QED
      BY <1>1, <1>3, <3>1 DEF Zero
  <2> QED
    BY <2>1, <2>2
<1> QED
  BY <1>1, <1>2, <1>3 DEF Zero

LEMMA OneTail ==
  ASSUME NEW S, NEW q \in Seq(S), q # <<>>, NEW K, One(q, K)
  PROVE  /\ Head(q) \in K => Zero(Tail(q), K)
         /\ Head(q) \notin K => One(Tail(q), K)
<1>1. /\ Len(q) \in Nat \ {0} /\ q[1] = Head(q) /\ DOMAIN q = 1..Len(q)
      /\ DOMAIN Tail(q) = 1..(Len(q) - 1) /\ \A i \in 1..(Len(q) - 1) : Tail(q)[i] = q[i + 1]
  BY TailItems
<1>2. PICK i \in 1..Len(q) : q[i] \in K /\ \A j \in 1..Len(q) : q[j] \in K => j = i
  BY <1>1 DEF One
<1>3. ASSUME Head(q) \in K PROVE Zero(Tail(q), K)
  <2>1. i = 1
    BY <1>1, <1>2, <1>3
  <2> QED
    BY <1>1, <1>2, <2>1 DEF Zero
<1>4. ASSUME Head(q) \notin K PROVE One(Tail(q), K)
  <2>1. i - 1 \in 1..(Len(q) - 1) /\ Tail(q)[i - 1] = q[i]
    BY <1>1, <1>2, <1>4
  <2>2. \A j \in 1..(Len(q) - 1) : Tail(q)[j] \in K => j = i - 1
    BY <1>1, <1>2
  <2> QED
    BY <1>1, <1>2, <2>1, <2>2 DEF One
<1> QED
  BY <1>3, <1>4

LEMMA ZeroPart == \A q, K, L : Zero(q, L) /\ K \subseteq L => Zero(q, K)
  BY DEF Zero

LEMMA ZeroEmpty == \A K : Zero(<<>>, K)
  BY DEF Zero


-----------------------------------------------------------------------------
(* TLPs and their words                                                    *)

WordSet == [of : TlpSet, word : Nat]

LEMMA TlpWords ==
  ASSUME NEW t \in TlpSet
  PROVE  /\ Length(t) \in Nat /\ Length(t) >= 3
         /\ Words(t) \in Seq(WordSet) /\ Len(Words(t)) = Length(t)
         /\ \A i \in 1..Length(t) : Words(t)[i] = [of |-> t, word |-> i]
<1>1. Len(t.data) \in Nat
  <2>1. PICK n \in {0} \cup ReadSizes \cup {p.n : p \in Spans} \cup {1} :
          t.data \in [1..n -> Value \cup RootValue]
    BY DEF TlpSet, AnyData
  <2>2. n \in Nat
    BY PcieConstantsOK DEF PcieConstantsOK
  <2> QED
    BY <2>1, <2>2
<1>2. Length(t) \in Nat /\ Length(t) >= 3
  <2> DEFINE h == IF t.addr \in High \/ t.kind \in {"Assert", "Deassert"} THEN 4 ELSE 3
  <2>1. h \in {3, 4} /\ Length(t) = h + Len(t.data)
    BY DEF Length
  <2> HIDE DEF h
  <2> QED
    BY <1>1, <2>1
<1>3. Words(t) = [i \in 1..Length(t) |-> [of |-> t, word |-> i]]
  BY DEF Words
<1>4. \A i \in 1..Length(t) : [of |-> t, word |-> i] \in WordSet
  BY <1>2 DEF WordSet
<1>5. Words(t) \in Seq(WordSet)
  BY <1>2, <1>3, <1>4
<1>6. Len(Words(t)) = Length(t)
  BY <1>2, <1>3
<1> QED
  BY <1>2, <1>3, <1>5, <1>6

LEMMA BeatData ==
  ASSUME NEW t, NEW i
  PROVE  Beat(t, i).words = SubSeq(Words(t), i + 1, IF i + 2 <= Length(t) THEN i + 2 ELSE i + 1)
  BY Zenon DEF Beat

LEMMA BeatLast ==
  ASSUME NEW t, NEW i
  PROVE  Beat(t, i).last <=> i + 2 >= Length(t)
  BY Zenon DEF Beat

LEMMA BeatWords ==
  ASSUME NEW t \in TlpSet, NEW i \in Nat, i < Length(t)
  PROVE  /\ Beat(t, i) \in AnyBeat /\ Beat(t, i) # None
         /\ Beat(t, i).last <=> i + 2 >= Length(t)
         /\ Beat(t, i).words[1] = [of |-> t, word |-> i + 1]
         /\ First(t, i) \o Beat(t, i).words
              = IF i + 2 >= Length(t) THEN Words(t) ELSE First(t, i + 2)
<1> DEFINE n == IF i + 2 <= Length(t) THEN i + 2 ELSE i + 1
<1>1. /\ Length(t) \in Nat /\ Words(t) \in Seq(WordSet) /\ Len(Words(t)) = Length(t)
      /\ \A j \in 1..Length(t) : Words(t)[j] = [of |-> t, word |-> j]
  BY TlpWords
<1>2. n \in (i + 1)..Length(t)
  BY <1>1
<1>3. Beat(t, i) = [words |-> SubSeq(Words(t), i + 1, n), last |-> i + 2 >= Length(t)]
  BY DEF Beat
<1> HIDE DEF n
<1>4. SubSeq(Words(t), i + 1, n) \in Seq(WordSet) /\ SubSeq(Words(t), i + 1, n)[1] = Words(t)[i + 1]
  <2>1. \A j \in (i + 1)..n : Words(t)[j] \in WordSet
    BY <1>1, <1>2 DEF WordSet
  <2>2. /\ SubSeq(Words(t), i + 1, n) \in Seq(WordSet)
        /\ \A j \in 1..(n - (i + 1) + 1) : SubSeq(Words(t), i + 1, n)[j] = Words(t)[i + 1 + j - 1]
    BY <1>1, <1>2, <2>1, SubSeqProperties
  <2> QED
    BY <1>1, <1>2, <2>2
<1>5. First(t, i) \o SubSeq(Words(t), i + 1, n) = SubSeq(Words(t), 1, n)
  BY <1>1, <1>2, ConcatAdjacentSubSeq DEF First
<1>6. SubSeq(Words(t), 1, n) = IF i + 2 >= Length(t) THEN Words(t) ELSE First(t, i + 2)
  <2>1. i + 2 >= Length(t) => n = Length(t)
    BY <1>1, <1>2 DEF n
  <2>2. i + 2 < Length(t) => n = i + 2
    BY <1>1 DEF n
  <2> QED
    BY <1>1, <2>1, <2>2, SubSeqFull DEF First
<1>7. (i + 2 >= Length(t)) \in BOOLEAN
  OBVIOUS
<1>8. Beat(t, i) \in AnyBeat
  BY <1>3, <1>4, <1>7 DEF AnyBeat, WordSet
<1>9. Beat(t, i) # None
  BY <1>8, NoneApart, Zenon DEF NoneApart
<1>10. Beat(t, i).words = SubSeq(Words(t), i + 1, n) /\ (Beat(t, i).last <=> i + 2 >= Length(t))
  BY BeatData, BeatLast DEF n
<1>11. Beat(t, i).words[1] = [of |-> t, word |-> i + 1]
  BY <1>1, <1>2, <1>4, <1>10
<1> QED
  BY <1>5, <1>6, <1>8, <1>9, <1>10, <1>11

LEMMA FirstNone == \A t : First(t, 0) = <<>>
  BY SubSeqEmpty DEF First

(* A TLP is put together from its words.                                   *)
LEMMA Whole ==
  ASSUME NEW t \in TlpSet
  PROVE  Assembled(Words(t)) = t /\ Words(t)[1].of = t
<1>1. Words(t)[1] = [of |-> t, word |-> 1]
  BY TlpWords
<1> QED
  BY <1>1 DEF Assembled

(* The last beat completes the TLP.                                        *)
LEMMA LastBeat ==
  ASSUME NEW t \in TlpSet, NEW i \in Nat, i < Length(t), Beat(t, i).last
  PROVE  First(t, i) \o Beat(t, i).words = Words(t)
  BY BeatWords

LEMMA NextBeat ==
  ASSUME NEW t \in TlpSet, NEW i \in Nat, i < Length(t), ~Beat(t, i).last
  PROVE  First(t, i) \o Beat(t, i).words = First(t, i + 2) /\ i + 2 < Length(t)
<1>1. Length(t) \in Nat
  BY TlpWords
<1>2. Beat(t, i).last <=> i + 2 >= Length(t)
  BY BeatWords
<1>3. First(t, i) \o Beat(t, i).words = IF i + 2 >= Length(t) THEN Words(t) ELSE First(t, i + 2)
  BY BeatWords
<1> QED
  BY <1>1, <1>2, <1>3


-----------------------------------------------------------------------------
(* The call in progress                                                    *)

LEMMA PendingAsks ==
  ASSUME NEW w, w # "await", NEW c0, NEW g, NEW d \in Seq(TlpSet), NEW u, NEW comps,
         Pending(w, c0, g, d, u, comps),
         NEW c \in Request, c.tag \in 0..(Tags - 1), c.n \in ReadSizes \cup {1}, NEW t \in Asked(c)
  PROVE  Pending("await", c, g, Append(d, t), u, comps)
<1>1. g = None /\ Zero(d, Req) /\ Zero(u, Comp) /\ Holding(comps, c.tag, None)
  BY DEF Pending, Holding
<1>2. t \in TlpSet /\ t \in Req /\ t \notin Req \ Asked(c)
  BY DEF Asked, Req
<1>3. Zero(d, Req \ Asked(c))
  BY <1>1, ZeroPart
<1>4. One(Append(d, t), Req) /\ Zero(Append(d, t), Req \ Asked(c))
  BY <1>1, <1>2, <1>3, OneAppend, ZeroAppend
<1> QED
  BY <1>1, <1>4 DEF Pending, Asking

(* The endpoint takes the request and gives its answer, which the slot     *)
(* sends or loses.                                                         *)
LEMMA PendingGives ==
  ASSUME NEW w, NEW c, NEW g, NEW d \in Seq(TlpSet), d # <<>>, NEW u \in Seq(TlpSet), NEW comps,
         Pending(w, c, g, d, u, comps), Head(d) \in Req
  PROVE  /\ w = "await" /\ g = None /\ c # None /\ Head(d) \in Asked(c) /\ c.n \in ReadSizes \cup {1}
         /\ c \in Request
         /\ \A a \in Comp : a.tag = Head(d).tag /\ GivenBy(c, a) \in Answer =>
              /\ Pending(w, c, GivenBy(c, a), Tail(d), Append(u, a), comps)
              /\ Pending(w, c, GivenBy(c, a), Tail(d), u, comps)
<1>1. ~Zero(d, Req)
  BY ZeroTail
<1>2. w = "await" /\ c \in Request /\ c.tag \in 0..(Tags - 1) /\ c.n \in ReadSizes \cup {1}
      /\ Asking(c, g, d, u, comps)
  BY <1>1 DEF Pending, Replying, Replied, Lost
<1>3. Head(d) \in Asked(c) /\ Zero(Tail(d), Req)
  BY <1>2, ZeroTail, OneTail DEF Asking
<1>4. c # None
  BY <1>2, NoneApart, Zenon DEF NoneApart
<1>5. ASSUME NEW a \in Comp, a.tag = Head(d).tag, GivenBy(c, a) \in Answer
      PROVE  /\ Pending(w, c, GivenBy(c, a), Tail(d), Append(u, a), comps)
             /\ Pending(w, c, GivenBy(c, a), Tail(d), u, comps)
  <2>1. a \in TlpSet /\ a.tag = c.tag /\ a \notin Comp \ Answering(c, GivenBy(c, a))
    BY <1>3, <1>5 DEF Comp, Asked, Answering
  <2>2. Zero(u, Comp) /\ Zero(u, Comp \ Answering(c, GivenBy(c, a)))
    BY <1>2, ZeroPart DEF Asking
  <2>3. One(Append(u, a), Comp) /\ Zero(Append(u, a), Comp \ Answering(c, GivenBy(c, a)))
    BY <2>1, <2>2, OneAppend, ZeroAppend
  <2>4. Pending(w, c, GivenBy(c, a), Tail(d), Append(u, a), comps)
    BY <1>2, <1>3, <1>5, <2>3 DEF Pending, Asking, Replying
  <2>5. Pending(w, c, GivenBy(c, a), Tail(d), u, comps)
    BY <1>2, <1>3, <1>5, <2>2 DEF Pending, Asking, Lost
  <2> QED
    BY <2>4, <2>5
<1> QED
  BY <1>2, <1>3, <1>4, <1>5 DEF Asking

(* TLPs that have nothing to do with the call.                             *)
LEMMA PendingOthers ==
  ASSUME NEW w, NEW c, NEW g, NEW d \in Seq(TlpSet), NEW u \in Seq(TlpSet), NEW comps,
         Pending(w, c, g, d, u, comps)
  PROVE  /\ \A t \in TlpSet : t \notin Req => Pending(w, c, g, Append(d, t), u, comps)
         /\ \A t \in TlpSet : t \notin Comp => Pending(w, c, g, d, Append(u, t), comps)
         /\ d # <<>> /\ Head(d) \notin Req => Pending(w, c, g, Tail(d), u, comps)
         /\ u # <<>> /\ Head(u) \notin Comp => Pending(w, c, g, d, Tail(u), comps)
<1>1. ASSUME NEW t \in TlpSet, t \notin Req PROVE Pending(w, c, g, Append(d, t), u, comps)
  <2>1. t \notin Req \ Asked(c)
    BY <1>1
  <2> QED
    BY <1>1, <2>1, OneAppend, ZeroAppend DEF Pending, Asking, Replying, Replied, Lost
<1>2. ASSUME NEW t \in TlpSet, t \notin Comp PROVE Pending(w, c, g, d, Append(u, t), comps)
  <2>1. t \notin Comp \ Answering(c, g)
    BY <1>2
  <2> QED
    BY <1>2, <2>1, OneAppend, ZeroAppend DEF Pending, Asking, Replying, Replied, Lost
<1>3. ASSUME d # <<>>, Head(d) \notin Req PROVE Pending(w, c, g, Tail(d), u, comps)
  BY <1>3, OneTail, ZeroTail DEF Pending, Asking, Replying, Replied, Lost
<1>4. ASSUME u # <<>>, Head(u) \notin Comp PROVE Pending(w, c, g, d, Tail(u), comps)
  BY <1>4, OneTail, ZeroTail DEF Pending, Asking, Replying, Replied, Lost
<1> QED
  BY <1>1, <1>2, <1>3, <1>4

(* The completion arrives in the slot of its tag.                          *)
LEMMA PendingArrives ==
  ASSUME NEW w, NEW c, NEW g, NEW d \in Seq(TlpSet), NEW u \in Seq(TlpSet), u # <<>>, NEW comps,
         Pending(w, c, g, d, u, comps), Head(u) \in Comp
  PROVE  /\ Head(u).tag \in DOMAIN comps /\ comps[Head(u).tag] = None
         /\ Pending(w, c, g, d, Tail(u), [comps EXCEPT ![Head(u).tag] = Head(u)])
<1>1. ~Zero(u, Comp)
  BY ZeroTail
<1>2. w = "await" /\ c \in Request /\ c.tag \in 0..(Tags - 1) /\ c.n \in ReadSizes \cup {1}
      /\ Replying(c, g, d, u, comps)
  BY <1>1 DEF Pending, Asking, Replied, Lost
<1>3. Head(u) \in Answering(c, g) /\ Zero(Tail(u), Comp)
  BY <1>2, ZeroTail, OneTail DEF Replying
<1>4. Head(u).tag = c.tag
  BY <1>3 DEF Answering
<1>5. comps = [x \in 0..(Tags - 1) |-> None]
  BY <1>2 DEF Replying, Holding
<1>6. [comps EXCEPT ![c.tag] = Head(u)] = [x \in 0..(Tags - 1) |-> IF x = c.tag THEN Head(u) ELSE None]
  BY <1>2, <1>5
<1> QED
  BY <1>2, <1>3, <1>4, <1>5, <1>6 DEF Pending, Replying, Replied, Holding

(* The call returns with it.                                               *)
LEMMA PendingReturns ==
  ASSUME NEW c, NEW g, NEW d, NEW u, NEW comps, Pending("await", c, g, d, u, comps),
         comps[c.tag] # None
  PROVE  /\ comps[c.tag] \in Answering(c, g) /\ g \in Answer
         /\ \A w, c1 : w # "await" =>
              Pending(w, c1, None, d, u, [comps EXCEPT ![c.tag] = None])
<1>1. c.tag \in 0..(Tags - 1)
  BY DEF Pending
<1>2. Replied(c, g, d, u, comps)
  BY <1>1 DEF Pending, Asking, Replying, Lost, Holding
<1>3. [comps EXCEPT ![c.tag] = None] = [x \in 0..(Tags - 1) |-> IF x = 0 THEN None ELSE None]
  BY <1>1, <1>2 DEF Replied, Holding
<1> QED
  BY <1>2, <1>3 DEF Replied, Pending, Holding

LEMMA PendingElse ==
  ASSUME NEW w, NEW c, NEW g, NEW d, NEW u, NEW comps, Pending(w, c, g, d, u, comps), w # "await"
  PROVE  g = None /\ \A v, c1 : v # "await" => Pending(v, c1, g, d, u, comps)
  BY DEF Pending

-----------------------------------------------------------------------------
(* The endpoint's reads                                                    *)

LEMMA DmaAsks ==
  ASSUME NEW reads, NEW d \in Seq(TlpSet), NEW u \in Seq(TlpSet), Dma(reads, d, u),
         NEW r \in Reads, r.n = 1, \A q \in reads : q.tag # r.tag
  PROVE  Dma(reads \cup {r}, d, Append(u, r))
<1>1. r \in TlpSet /\ r \notin reads
  BY DEF Reads
<1>2. One(Append(u, r), {r}) /\ Zero(d, For(r))
  <2>1. Zero(u, {r})
    BY <1>1, ZeroPart DEF Dma
  <2>2. For(r) \subseteq Orphans(reads)
    BY DEF For, Orphans
  <2> QED
    BY <1>1, <2>1, <2>2, OneAppend, ZeroPart DEF Dma
<1>3. ASSUME NEW q \in reads
      PROVE  \/ One(Append(u, r), {q}) /\ Zero(d, For(q))
             \/ Zero(Append(u, r), {q}) /\ One(d, For(q))
  BY <1>1, <1>3, OneAppend, ZeroAppend DEF Dma
<1>4. Zero(Append(u, r), Reads \ (reads \cup {r}))
  <2>1. Zero(u, Reads \ (reads \cup {r}))
    BY ZeroPart DEF Dma
  <2> QED
    BY <1>1, <2>1, ZeroAppend
<1>5. Zero(d, Orphans(reads \cup {r}))
  BY ZeroPart DEF Dma, Orphans
<1>6. \A p, q \in reads \cup {r} : p.tag = q.tag => p = q
  BY DEF Dma
<1> QED
  BY <1>2, <1>3, <1>4, <1>5, <1>6 DEF Dma

(* The library answers a read.                                             *)
LEMMA DmaAnswers ==
  ASSUME NEW reads, NEW d \in Seq(TlpSet), NEW u \in Seq(TlpSet), u # <<>>, Dma(reads, d, u),
         Head(u) \in Reads, NEW a \in CplDs, a.tag = Head(u).tag, a.n = Head(u).n
  PROVE  Head(u) \in reads /\ Dma(reads, Append(d, a), Tail(u))
<1> DEFINE t == Head(u)
<1>1. t \in reads /\ a \in TlpSet
  BY ZeroTail DEF Dma, CplDs
<1>2. a \in For(t)
  BY DEF For
<1>3. ASSUME NEW q \in reads
      PROVE  \/ One(Tail(u), {q}) /\ Zero(Append(d, a), For(q))
             \/ Zero(Tail(u), {q}) /\ One(Append(d, a), For(q))
  <2>1. CASE q = t
    <3>1. One(u, {q}) /\ Zero(d, For(q))
      BY <2>1, ZeroTail DEF Dma
    <3> QED
      BY <1>1, <1>2, <2>1, <3>1, OneTail, OneAppend
  <2>2. CASE q # t
    <3>1. a \notin For(q)
      BY <1>1, <1>3, <2>2 DEF Dma, For
    <3> QED
      BY <1>1, <1>3, <2>2, <3>1, OneTail, ZeroTail, OneAppend, ZeroAppend DEF Dma
  <2> QED
    BY <2>1, <2>2
<1>4. Zero(Tail(u), Reads \ reads)
  BY ZeroTail DEF Dma
<1>5. Zero(Append(d, a), Orphans(reads))
  BY <1>1, <1>2, ZeroAppend DEF Dma, Orphans
<1> QED
  BY <1>1, <1>3, <1>4, <1>5 DEF Dma

(* The endpoint takes an answer.                                           *)
LEMMA DmaTakes ==
  ASSUME NEW reads, NEW d \in Seq(TlpSet), NEW u, d # <<>>, Dma(reads, d, u),
         Head(d) \in CplDs
  PROVE  Dma({r \in reads : r.tag # Head(d).tag}, Tail(d), u)
<1> DEFINE t == Head(d)
           rest == {r \in reads : r.tag # Head(d).tag}
<1>1. PICK p \in reads : t \in For(p)
  BY ZeroTail DEF Dma, Orphans
<1>2. rest = reads \ {p}
  BY <1>1 DEF Dma, For
<1>3. One(d, For(p)) /\ Zero(u, {p}) /\ Zero(Tail(d), For(p))
  BY <1>1, ZeroTail, OneTail DEF Dma
<1>4. ASSUME NEW q \in rest
      PROVE  \/ One(u, {q}) /\ Zero(Tail(d), For(q))
             \/ Zero(u, {q}) /\ One(Tail(d), For(q))
  <2>1. q \in reads /\ t \notin For(q)
    BY <1>4 DEF For
  <2> QED
    BY <2>1, ZeroTail, OneTail DEF Dma
<1>5. Zero(u, Reads \ rest)
  <2>1. Zero(u, Reads \ reads)
    BY DEF Dma
  <2> QED
    BY <1>2, <1>3, <2>1 DEF Zero
<1>6. Zero(Tail(d), Orphans(rest))
  <2>1. Zero(Tail(d), Orphans(reads))
    BY ZeroTail DEF Dma
  <2>2. \A a \in Orphans(rest) : a \in Orphans(reads) \/ a \in For(p)
    BY <1>2 DEF Orphans
  <2> QED
    BY <1>3, <2>1, <2>2 DEF Zero
<1> QED
  BY <1>4, <1>5, <1>6 DEF Dma

LEMMA DmaOthers ==
  ASSUME NEW reads, NEW d \in Seq(TlpSet), NEW u \in Seq(TlpSet), Dma(reads, d, u)
  PROVE  /\ \A t \in TlpSet : t \notin CplDs => Dma(reads, Append(d, t), u)
         /\ \A t \in TlpSet : t \notin Reads => Dma(reads, d, Append(u, t))
         /\ d # <<>> /\ Head(d) \notin CplDs => Dma(reads, Tail(d), u)
         /\ u # <<>> /\ Head(u) \notin Reads => Dma(reads, d, Tail(u))
<1>0. \A r : For(r) \subseteq CplDs /\ Orphans(reads) \subseteq CplDs
  BY DEF For, Orphans
<1>1. ASSUME NEW t \in TlpSet, t \notin CplDs PROVE Dma(reads, Append(d, t), u)
  BY <1>0, <1>1, OneAppend, ZeroAppend DEF Dma
<1>2. ASSUME NEW t \in TlpSet, t \notin Reads PROVE Dma(reads, d, Append(u, t))
  <2>1. \A r \in reads : t \notin {r}
    BY <1>2 DEF Dma
  <2>2. t \notin Reads \ reads
    BY <1>2
  <2> QED
    BY <2>1, <2>2, OneAppend, ZeroAppend DEF Dma
<1>3. ASSUME d # <<>>, Head(d) \notin CplDs PROVE Dma(reads, Tail(d), u)
  BY <1>0, <1>3, OneTail, ZeroTail DEF Dma
<1>4. ASSUME u # <<>>, Head(u) \notin Reads PROVE Dma(reads, d, Tail(u))
  <2>1. \A r \in reads : Head(u) \notin {r}
    BY <1>4 DEF Dma
  <2> QED
    BY <1>4, <2>1, OneTail, ZeroTail DEF Dma
<1> QED
  BY <1>1, <1>2, <1>3, <1>4

-----------------------------------------------------------------------------
(* Interrupts                                                              *)

LEMMA FollowsLevel ==
  ASSUME NEW x, NEW lv, NEW mask, NEW u \in Seq(TlpSet), Follows(x, lv, mask, u), NEW t \in TlpSet,
         NEW lv1, IF t \in About(x) THEN x \in lv1 <=> t.kind = "Assert" ELSE x \in lv1 <=> x \in lv
  PROVE  Follows(x, lv1, mask, Append(u, t))
<1>1. /\ Len(u) \in Nat /\ DOMAIN u = 1..Len(u) /\ DOMAIN Append(u, t) = 1..(Len(u) + 1)
      /\ Append(u, t)[Len(u) + 1] = t /\ \A i \in 1..Len(u) : Append(u, t)[i] = u[i]
  BY AppendItems
<1>2. CASE t \in About(x)
  <2>1. \A j \in DOMAIN Append(u, t) : j <= Len(u) + 1
    BY <1>1
  <2> QED
    BY <1>1, <1>2, <2>1 DEF Follows
<1>3. CASE t \notin About(x)
  <2>1. CASE Zero(u, About(x)) /\ (x \in lv <=> x \in mask)
    BY <1>3, <2>1, ZeroAppend DEF Follows
  <2>2. CASE ~(Zero(u, About(x)) /\ (x \in lv <=> x \in mask))
    <3>1. PICK i \in DOMAIN u : /\ u[i] \in About(x) /\ (x \in lv <=> u[i].kind = "Assert")
                                /\ \A j \in DOMAIN u : u[j] \in About(x) => j <= i
      BY <2>2 DEF Follows
    <3>2. i \in DOMAIN Append(u, t) /\ Append(u, t)[i] = u[i]
      BY <1>1, <3>1
    <3>3. \A j \in DOMAIN Append(u, t) : Append(u, t)[j] \in About(x) => j <= i
      BY <1>1, <1>3, <3>1
    <3> QED
      BY <1>3, <3>1, <3>2, <3>3 DEF Follows
  <2> QED
    BY <2>1, <2>2
<1> QED
  BY <1>2, <1>3

LEMMA FollowsMask ==
  ASSUME NEW x, NEW lv, NEW mask, NEW u \in Seq(TlpSet), u # <<>>, Follows(x, lv, mask, u),
         NEW mask1,
         IF Head(u) \in About(x) THEN x \in mask1 <=> Head(u).kind = "Assert"
         ELSE x \in mask1 <=> x \in mask
  PROVE  Follows(x, lv, mask1, Tail(u))
<1>1. /\ Len(u) \in Nat \ {0} /\ u[1] = Head(u) /\ DOMAIN u = 1..Len(u)
      /\ DOMAIN Tail(u) = 1..(Len(u) - 1) /\ \A i \in 1..(Len(u) - 1) : Tail(u)[i] = u[i + 1]
  BY TailItems
<1>2. CASE Zero(u, About(x)) /\ (x \in lv <=> x \in mask)
  BY <1>2, ZeroTail DEF Follows
<1>3. CASE ~(Zero(u, About(x)) /\ (x \in lv <=> x \in mask))
  <2>1. PICK i \in DOMAIN u : /\ u[i] \in About(x) /\ (x \in lv <=> u[i].kind = "Assert")
                              /\ \A j \in DOMAIN u : u[j] \in About(x) => j <= i
    BY <1>3 DEF Follows
  <2>2. CASE i = 1
    <3>1. Zero(Tail(u), About(x))
      BY <1>1, <2>1, <2>2 DEF Zero
    <3> QED
      BY <1>1, <2>1, <2>2, <3>1 DEF Follows
  <2>3. CASE i # 1
    <3>1. i - 1 \in DOMAIN Tail(u) /\ Tail(u)[i - 1] = u[i]
      BY <1>1, <2>1, <2>3
    <3>2. \A j \in DOMAIN Tail(u) : Tail(u)[j] \in About(x) => j <= i - 1
      BY <1>1, <2>1
    <3> QED
      BY <2>1, <3>1, <3>2 DEF Follows
  <2> QED
    BY <2>2, <2>3
<1> QED
  BY <1>2, <1>3

-----------------------------------------------------------------------------
(* The TLPs that are sent                                                  *)

LEMMA DataSets ==
  /\ <<>> \in AnyData
  /\ \A n \in {1} \cup ReadSizes \cup {p.n : p \in Spans} :
       /\ n \in Nat
       /\ \A d \in [1..n -> Value \cup RootValue] : d \in AnyData /\ Len(d) = n
       /\ \A d \in RootData(n) : d \in AnyData /\ Len(d) = n
       /\ \A d \in Data(n) : d \in AnyData /\ Len(d) = n
<1>1. <<>> \in [1..0 -> Value \cup RootValue]
  OBVIOUS
<1>2. <<>> \in AnyData
  BY <1>1 DEF AnyData
<1>3. ASSUME NEW n \in {1} \cup ReadSizes \cup {p.n : p \in Spans}
      PROVE  n \in Nat /\ \A d \in [1..n -> Value \cup RootValue] : d \in AnyData /\ Len(d) = n
  <2>1. n \in Nat
    BY PcieConstantsOK DEF PcieConstantsOK
  <2>2. [1..n -> Value \cup RootValue] \subseteq AnyData
    BY DEF AnyData
  <2> QED
    BY <2>1, <2>2
<1>4. ASSUME NEW n \in {1} \cup ReadSizes \cup {p.n : p \in Spans}
      PROVE  /\ \A d \in RootData(n) : d \in [1..n -> Value \cup RootValue]
             /\ \A d \in Data(n) : d \in [1..n -> Value \cup RootValue]
  BY DEF RootData, Data
<1> QED
  BY <1>2, <1>3, <1>4

LEMMA Fields ==
  \A kind, tag, addr, n, data, be :
    /\ Tlp(kind, tag, addr, n, data, be).kind = kind /\ Tlp(kind, tag, addr, n, data, be).tag = tag
    /\ Tlp(kind, tag, addr, n, data, be).addr = addr /\ Tlp(kind, tag, addr, n, data, be).n = n
    /\ Tlp(kind, tag, addr, n, data, be).data = data /\ Tlp(kind, tag, addr, n, data, be).be = be
  BY DEF Tlp

LEMMA IsTlp ==
  ASSUME NEW kind \in {"CfgRd", "CfgWr", "MRd", "MWr", "Cpl", "CplD", "Assert", "Deassert"},
         NEW tag \in Nat, NEW addr \in Addr \cup {None}, NEW n \in Nat, NEW data \in AnyData,
         NEW be \in SUBSET Nat
  PROVE  Tlp(kind, tag, addr, n, data, be) \in TlpSet
  BY DEF Tlp, TlpSet

LEMMA ReadTlp ==
  ASSUME NEW tag \in Nat, NEW a \in Addr, NEW n \in {1} \cup ReadSizes
  PROVE  /\ MRd(tag, a, n) \in TlpSet /\ MRd(tag, a, n) \in Reads
         /\ MRd(tag, a, n).kind = "MRd" /\ MRd(tag, a, n).tag = tag /\ MRd(tag, a, n).addr = a
         /\ MRd(tag, a, n).n = n /\ MRd(tag, a, n).data = <<>>
         /\ CfgRd(tag, a) \in TlpSet /\ CfgRd(tag, a).kind = "CfgRd" /\ CfgRd(tag, a).tag = tag
         /\ CfgRd(tag, a).addr = a /\ CfgRd(tag, a).n = 1 /\ CfgRd(tag, a).data = <<>>
<1>1. /\ AllBytes(n) \in SUBSET Nat /\ AllBytes(1) \in SUBSET Nat /\ n \in Nat
      /\ <<>> \in AnyData
  BY DataSets DEF AllBytes
<1>2. MRd(tag, a, n) \in TlpSet /\ CfgRd(tag, a) \in TlpSet
  BY <1>1, IsTlp DEF MRd, CfgRd
<1> QED
  BY <1>2, Fields DEF MRd, CfgRd, Reads

(* What a read of the application is.                                      *)
LEMMA MRdTlp ==
  \A tag \in Nat, a \in Addr, n \in ReadSizes :
    /\ MRd(tag, a, n) \in TlpSet /\ MRd(tag, a, n).kind = "MRd"
    /\ MRd(tag, a, n).tag = tag /\ MRd(tag, a, n).addr = a /\ MRd(tag, a, n).n = n
<1> SUFFICES ASSUME NEW tag \in Nat, NEW a \in Addr, NEW n \in ReadSizes
             PROVE  /\ MRd(tag, a, n) \in TlpSet /\ MRd(tag, a, n).kind = "MRd"
                    /\ MRd(tag, a, n).tag = tag /\ MRd(tag, a, n).addr = a
                    /\ MRd(tag, a, n).n = n
  OBVIOUS
<1>1. n \in {1} \cup ReadSizes
  OBVIOUS
<1> QED
  BY <1>1, ReadTlp

LEMMA WriteTlp ==
  ASSUME NEW a \in Addr, NEW n \in {1} \cup {p.n : p \in Spans}, NEW d \in RootData(n),
         NEW be \in SUBSET Nat
  PROVE  MWr(a, d, be) \in TlpSet /\ MWr(a, d, be).kind = "MWr" /\ MWr(a, d, be).be = be
<1>1. n \in Nat /\ d \in AnyData /\ Len(d) = n
  BY DataSets
<1>2. MWr(a, d, be) \in TlpSet
  BY <1>1, IsTlp DEF MWr
<1> QED
  BY <1>2, Fields DEF MWr

LEMMA CfgWriteTlp ==
  ASSUME NEW tag \in Nat, NEW a \in Addr, NEW d \in RootData(1), NEW be \in SUBSET Nat
  PROVE  /\ CfgWr(tag, a, d, be) \in TlpSet /\ CfgWr(tag, a, d, be).kind = "CfgWr"
         /\ CfgWr(tag, a, d, be).tag = tag /\ CfgWr(tag, a, d, be).addr = a
         /\ CfgWr(tag, a, d, be).n = 1
<1>1. d \in AnyData
  BY DataSets
<1>2. CfgWr(tag, a, d, be) \in TlpSet
  BY <1>1, IsTlp DEF CfgWr
<1> QED
  BY <1>2, Fields DEF CfgWr

LEMMA AnswerTlp ==
  ASSUME NEW tag \in Nat
  PROVE  /\ Cpl(tag) \in Comp /\ Cpl(tag) \notin CplDs /\ Cpl(tag).tag = tag
         /\ Cpl(tag).kind = "Cpl"
         /\ \A n \in {1} \cup ReadSizes : \A d \in RootData(n) \cup Data(n) :
              /\ CplD(tag, d) \in Comp /\ CplD(tag, d) \in CplDs /\ CplD(tag, d).tag = tag
              /\ CplD(tag, d).n = n /\ CplD(tag, d).data = d /\ CplD(tag, d).kind = "CplD"
<1>1. <<>> \in AnyData /\ {} \in SUBSET Nat /\ None \in Addr \cup {None}
  BY DataSets
<1>2. Cpl(tag) \in TlpSet
  BY <1>1, IsTlp DEF Cpl
<1>3. ASSUME NEW n \in {1} \cup ReadSizes, NEW d \in RootData(n) \cup Data(n)
      PROVE  CplD(tag, d) \in TlpSet /\ Len(d) = n
  <2>1. n \in Nat /\ d \in AnyData /\ Len(d) = n
    BY DataSets
  <2> QED
    BY <1>1, <2>1, IsTlp DEF CplD
<1>4. /\ Cpl(tag).tag = tag /\ Cpl(tag).kind = "Cpl"
      /\ \A d : /\ CplD(tag, d).tag = tag /\ CplD(tag, d).kind = "CplD"
                /\ CplD(tag, d).n = Len(d) /\ CplD(tag, d).data = d
  BY Fields DEF Cpl, CplD
<1> QED
  BY <1>2, <1>3, <1>4 DEF Comp, CplDs

LEMMA MsgTlp ==
  ASSUME NEW kind \in {"Assert", "Deassert"}, NEW x \in Intx
  PROVE  /\ Msg(kind, x) \in TlpSet /\ Msg(kind, x).kind = kind /\ Msg(kind, x).tag = x
         /\ Msg(kind, x) \in About(x)
<1>1. <<>> \in AnyData /\ {} \in SUBSET Nat /\ None \in Addr \cup {None} /\ x \in Nat
  BY DataSets, PcieConstantsOK DEF PcieConstantsOK
<1>2. Msg(kind, x) \in TlpSet
  BY <1>1, IsTlp DEF Msg
<1> QED
  BY <1>2, Fields DEF Msg, About

(* What the endpoint may send unasked.                                     *)
LEMMA UnaskedTlp ==
  ASSUME NEW u \in Unasked, level \subseteq Intx
  PROVE  /\ own # OwnLimit /\ u \in EpTlp /\ u \notin Comp
         /\ u.kind \in {"MRd", "MWr", "Assert", "Deassert"}
         /\ u.kind = "MRd" => u \in Reads /\ u.n = 1 /\ \A r \in epReads : r.tag # u.tag
         /\ u.kind \in {"Assert", "Deassert"} => u.tag \in Intx /\ u \in About(u.tag)
<1>1. /\ own # OwnLimit
      /\ u \in {MRd(t, a, 1) : t \in EpTags \ {r.tag : r \in epReads}, a \in EpAddr}
               \cup {MWr(a, d, AllBytes(1)) : a \in EpAddr, d \in RootData(1)}
               \cup {Msg("Assert", i) : i \in Intx \ level} \cup {Msg("Deassert", i) : i \in level}
  BY DEF Unasked
<1>2. EpTags \subseteq Nat /\ EpAddr \subseteq Addr
  BY PcieConstantsOK DEF PcieConstantsOK
<1>3. ASSUME NEW t \in EpTags \ {r.tag : r \in epReads}, NEW a \in EpAddr, u = MRd(t, a, 1)
      PROVE  u \in TlpSet /\ u.kind = "MRd" /\ u.n = 1 /\ \A r \in epReads : r.tag # u.tag
  BY <1>2, <1>3, ReadTlp
<1>4. ASSUME NEW a \in EpAddr, NEW d \in RootData(1), u = MWr(a, d, AllBytes(1))
      PROVE  u \in TlpSet /\ u.kind = "MWr"
  <2>1. AllBytes(1) \in SUBSET Nat
    BY DEF AllBytes
  <2> QED
    BY <1>2, <1>4, <2>1, WriteTlp
<1>5. ASSUME NEW kind \in {"Assert", "Deassert"}, NEW x \in Intx, u = Msg(kind, x)
      PROVE  u \in TlpSet /\ u.kind = kind /\ u.tag \in Intx /\ u \in About(u.tag)
  BY <1>5, MsgTlp
<1>6. /\ u \in TlpSet /\ u.kind \in {"MRd", "MWr", "Assert", "Deassert"}
      /\ u.kind = "MRd" => u.n = 1 /\ \A r \in epReads : r.tag # u.tag
      /\ u.kind \in {"Assert", "Deassert"} => u.tag \in Intx /\ u \in About(u.tag)
  <2>1. CASE u \in {MRd(t, a, 1) : t \in EpTags \ {r.tag : r \in epReads}, a \in EpAddr}
    BY <1>3, <2>1
  <2>2. CASE u \in {MWr(a, d, AllBytes(1)) : a \in EpAddr, d \in RootData(1)}
    BY <1>4, <2>2
  <2>3. CASE u \in {Msg("Assert", i) : i \in Intx \ level}
    BY <1>5, <2>3
  <2>4. CASE u \in {Msg("Deassert", i) : i \in level}
    <3>1. PICK i \in level : u = Msg("Deassert", i)
      BY <2>4
    <3> QED
      BY <1>5, <3>1
  <2> QED
    BY <1>1, <2>1, <2>2, <2>3, <2>4
<1> QED
  BY <1>1, <1>6 DEF EpTlp, Comp, Reads

-----------------------------------------------------------------------------
(* What is under way                                                       *)

LEMMA Prepend ==
  ASSUME NEW S, NEW t \in S, NEW q \in Seq(S)
  PROVE  /\ <<t>> \o q \in Seq(S) /\ <<t>> \o q # <<>>
         /\ Head(<<t>> \o q) = t /\ Tail(<<t>> \o q) = q
         /\ \A a \in S : <<t>> \o Append(q, a) = Append(<<t>> \o q, a)
<1>1. /\ <<t>> \in Seq(S) /\ Len(<<t>>) = 1 /\ <<t>>[1] = t
  OBVIOUS
<1>2. /\ <<t>> \o q \in Seq(S) /\ Len(<<t>> \o q) = Len(q) + 1 /\ Len(q) \in Nat
      /\ (<<t>> \o q)[1] = t /\ \A i \in 1..Len(q) : (<<t>> \o q)[i + 1] = q[i]
  BY <1>1, ConcatProperties
<1>3. <<t>> \o q # <<>>
  BY <1>2
<1>4. Tail(<<t>> \o q) = q
  BY <1>2, <1>3, TailItems, SeqEqual
<1>5. ASSUME NEW a \in S PROVE <<t>> \o Append(q, a) = Append(<<t>> \o q, a)
  <2>1. Append(q, a) = q \o <<a>> /\ Append(<<t>> \o q, a) = (<<t>> \o q) \o <<a>>
    BY <1>2, AppendIsConcat
  <2>2. <<a>> \in Seq(S)
    OBVIOUS
  <2> QED
    BY <1>1, <2>1, <2>2, ConcatAssociative
<1> QED
  BY <1>2, <1>3, <1>4, <1>5, TailItems

LEMMA HeadTailConcat ==
  ASSUME NEW S, NEW q \in Seq(S), q # <<>>
  PROVE  q = <<Head(q)>> \o Tail(q)
<1>1. /\ Head(q) \in S /\ Tail(q) \in Seq(S) /\ Len(q) \in Nat \ {0} /\ q[1] = Head(q)
      /\ Len(Tail(q)) = Len(q) - 1 /\ \A i \in 1..(Len(q) - 1) : Tail(q)[i] = q[i + 1]
  BY TailItems
<1>2. <<Head(q)>> \o Tail(q) \in Seq(S)
  BY <1>1, Prepend
<1>3. Len(<<Head(q)>> \o Tail(q)) = Len(q) /\ \A i \in 1..Len(q) : (<<Head(q)>> \o Tail(q))[i] = q[i]
  BY <1>1, ConcatProperties
<1> QED
  BY <1>2, <1>3, SeqEqual

LEMMA Sends ==
  ASSUME Inv
  PROVE  /\ out \in Seq(TlpSet) /\ Down \in Seq(TlpSet) /\ sent \in Nat
         /\ out = <<>> => rx = None /\ Down = <<>> /\ sent = 0 /\ epBuf = <<>>
         /\ out # <<>> =>
              /\ rx # None /\ rx = Beat(Head(out), sent) /\ Head(out) \in TlpSet
              /\ sent < Length(Head(out)) /\ Tail(out) \in Seq(TlpSet)
<1>1. out \in Seq(TlpSet) /\ sent \in Nat
  BY DEF Inv, TypeOK
<1>2. ASSUME out = <<>> PROVE rx = None /\ Down = <<>> /\ sent = 0 /\ epBuf = <<>>
  BY <1>2 DEF Inv, DownStream, Down, Sending, TakenByEp, Passed
<1>3. ASSUME out # <<>>
      PROVE  /\ rx # None /\ rx = Beat(Head(out), sent) /\ Head(out) \in TlpSet
             /\ sent < Length(Head(out)) /\ Tail(out) \in Seq(TlpSet)
  <2>1. Head(out) \in TlpSet /\ Tail(out) \in Seq(TlpSet)
    BY <1>1, <1>3, TailItems
  <2>2. rx = Beat(Head(out), sent) /\ sent < Length(Head(out))
    BY <1>3 DEF Inv, DownStream, Sending
  <2> QED
    BY <1>1, <2>1, <2>2, BeatWords
<1>4. Down \in Seq(TlpSet)
  BY <1>1, <1>2, <1>3 DEF Down
<1> QED
  BY <1>1, <1>2, <1>3, <1>4

LEMMA EpSends ==
  ASSUME Inv
  PROVE  /\ epQueue \in Seq(EpTlp) /\ epQueue \in Seq(TlpSet) /\ epSent \in Nat
         /\ epQueue = <<>> => tx = None /\ epSent = 0
         /\ epQueue # <<>> =>
              /\ Head(epQueue) \in EpTlp /\ Head(epQueue) \in TlpSet
              /\ Tail(epQueue) \in Seq(EpTlp) /\ Tail(epQueue) \in Seq(TlpSet)
              /\ epSent < Length(Head(epQueue))
         /\ tx # None => epQueue # <<>> /\ tx = Beat(Head(epQueue), epSent)
<1>1. epQueue \in Seq(EpTlp) /\ epSent \in Nat
  BY DEF Inv, TypeOK, UpStream
<1>2. epQueue \in Seq(TlpSet)
  BY DEF Inv, TypeOK
<1>4. Sending(epQueue, epSent)
  BY DEF Inv, UpStream
<1>5. ASSUME epQueue # <<>>
      PROVE /\ Head(epQueue) \in EpTlp /\ Head(epQueue) \in TlpSet
            /\ Tail(epQueue) \in Seq(EpTlp) /\ Tail(epQueue) \in Seq(TlpSet)
            /\ epSent < Length(Head(epQueue))
  BY <1>1, <1>2, <1>4, <1>5, TailItems DEF Sending
<1>6. tx # None => epQueue # <<>> /\ tx = Beat(Head(epQueue), epSent)
  BY DEF Inv, UpStream
<1> QED
  BY <1>1, <1>2, <1>4, <1>5, <1>6 DEF Sending

(* The beat that the library has before it.                                *)
LEMMA Receives ==
  ASSUME Inv, "recv" \in todo, "endpoint" \notin todo
  PROVE  LET b == rootSees.tx
             t == b.words[1].of
         IN  /\ todo = {"recv", "root"} /\ t \in EpTlp /\ t \in TlpSet
             /\ b.last => /\ Up = <<t>> \o epQueue /\ epSent = 0
                          /\ Assembled(buf \o b.words) = t /\ (buf \o b.words)[1].of = t
             /\ ~b.last => /\ Up = epQueue /\ epQueue # <<>> /\ Head(epQueue) = t
                           /\ buf \o b.words = First(t, epSent)
<1> DEFINE b == rootSees.tx
           t == b.words[1].of
           i == b.words[1].word - 1
<1>1. todo = {"recv", "root"}
  BY DEF Inv, Clocks
<1>2. Arriving(t, i)
  BY DEF Inv, UpStream
<1> HIDE DEF t, i
<1>3. /\ t \in EpTlp /\ t \in TlpSet /\ i \in Nat /\ i < Length(t) /\ b = Beat(t, i) /\ buf = First(t, i)
  BY <1>2 DEF Arriving, EpTlp
<1>4. ASSUME b.last
      PROVE  /\ Up = <<t>> \o epQueue /\ epSent = 0
             /\ Assembled(buf \o b.words) = t /\ (buf \o b.words)[1].of = t
  <2>1. buf \o b.words = Words(t)
    BY <1>3, <1>4, LastBeat
  <2>2. epSent = 0
    BY <1>2, <1>4 DEF Arriving
  <2>3. Up = <<t>> \o epQueue
    BY <1>1, <1>4 DEF Up, t
  <2> QED
    BY <1>3, <2>1, <2>2, <2>3, Whole
<1>5. ASSUME ~b.last
      PROVE  /\ Up = epQueue /\ epQueue # <<>> /\ Head(epQueue) = t
             /\ buf \o b.words = First(t, epSent)
  <2>1. epQueue # <<>> /\ Head(epQueue) = t /\ epSent = i + 2
    BY <1>2, <1>5 DEF Arriving
  <2>2. Up = epQueue
    BY <1>5 DEF Up
  <2> QED
    BY <1>3, <1>5, <2>1, <2>2, NextBeat
<1> QED
  BY <1>1, <1>3, <1>4, <1>5 DEF t

LEMMA UpQueue ==
  ASSUME Inv
  PROVE  Up \in Seq(TlpSet)
<1>1. CASE "endpoint" \notin todo /\ "recv" \in todo /\ rootSees.tx.last
  BY <1>1, Receives, EpSends, Prepend
<1>2. CASE ~("endpoint" \notin todo /\ "recv" \in todo /\ rootSees.tx.last)
  BY <1>2, EpSends DEF Up
<1> QED
  BY <1>1, <1>2

(* Protocol, of the next state.                                            *)
LEMMA ProtocolNext ==
  ASSUME Pending(at', call', given', Down', Up', completions'), Dma(epReads', Down', Up'),
         \A x \in Intx : Follows(x, level', intx_mask', Up')
  PROVE  Protocol'
BY DEF Protocol, Pending, Asking, Replying, Replied, Lost, Holding, Zero, One, Req, Comp, Asked,
       GivenBy, Answering, Dma, Reads, CplDs, For, Orphans, Follows, About

-----------------------------------------------------------------------------
(* The initial state                                                       *)

LEMMA InvInit == Init => Inv
<1> SUFFICES ASSUME Init PROVE Inv
  OBVIOUS
<1> USE DEF Init
<1>1. TypeOK
  <2>1. /\ todo \subseteq {"endpoint", "recv", "root"}
        /\ at \in {"idle", "await", "write", "wait", "reset", "finished"} /\ enable \subseteq Intx
        /\ out \in Seq(TlpSet) /\ epQueue \in Seq(TlpSet) /\ sent \in Nat /\ epSent \in Nat
        /\ intx_mask \subseteq Intx /\ level \subseteq Intx /\ epReads \subseteq TlpSet
    OBVIOUS
  <2>2. wasReset \in BOOLEAN /\ reset \in BOOLEAN /\ ready \in BOOLEAN
    BY Zenon
  <2>3. left \in (0..MaxWait) \X (0..MaxWait) /\ tlp_next_tag \in 0..(Tags - 1) /\ own \in 0..OwnLimit
    BY PcieConstantsOK DEF PcieConstantsOK
  <2>4. completions \in [0..(Tags - 1) -> TlpSet \cup {None, Garbled}]
    OBVIOUS
  <2> QED
    BY <2>1, <2>2, <2>3, <2>4 DEF TypeOK
<1>2. Clocks
  BY DEF Clocks
<1>3. DownStream
  BY DEF DownStream, TakenByEp, Passed, Sending
<1>4. UpStream
  BY DEF UpStream, Passed, Sending
<1>5. Down = <<>> /\ Up = <<>>
  BY DEF Down, Up
<1>6. Pending(at, call, given, Down, Up, completions)
  BY <1>5, ZeroEmpty DEF Pending, Holding
<1>7. Dma(epReads, Down, Up)
  BY <1>5, ZeroEmpty DEF Dma
<1>8. \A x \in Intx : Follows(x, level, intx_mask, Up)
  BY <1>5, ZeroEmpty DEF Follows
<1>9. Enables
  BY DEF Enables
<1> QED
  BY <1>1, <1>2, <1>3, <1>4, <1>6, <1>7, <1>8, <1>9 DEF Inv, Protocol

-----------------------------------------------------------------------------
(* What a step does to what is under way                                   *)

LEMMA KeepsDown ==
  ASSUME Inv, UNCHANGED <<rx, out, sent, epBuf, rootSees>>,
         \/ out = <<>>
         \/ ("endpoint" \in todo' <=> "endpoint" \in todo) /\ ("root" \in todo' <=> "root" \in todo)
  PROVE  Down' = Down /\ DownStream'
<1>1. out = <<>> => rx = None /\ Down = <<>> /\ sent = 0 /\ epBuf = <<>>
  BY Sends
<1>2. CASE out = <<>>
  BY <1>1, <1>2 DEF Down, DownStream, Sending, TakenByEp, Passed
<1>3. CASE out # <<>>
  <2>1. Down' = Down
    BY <1>3 DEF Down
  <2>2. TakenByEp' <=> TakenByEp
    BY <1>3 DEF TakenByEp
  <2>3. DownStream
    BY DEF Inv
  <2> QED
    BY <1>3, <2>1, <2>2, <2>3 DEF DownStream, Sending, Passed
<1> QED
  BY <1>2, <1>3

LEMMA KeepsUp ==
  ASSUME Inv, UNCHANGED <<epQueue, epSent, tx, buf>>,
         "endpoint" \in todo \/ "recv" \notin todo, "endpoint" \in todo' \/ "recv" \notin todo'
  PROVE  Up' = Up /\ UpStream'
<1>1. UpStream
  BY DEF Inv
<1> QED
  BY <1>1 DEF Up, UpStream, Sending, Passed

LEMMA SendsTlp ==
  ASSUME Inv, NEW t \in TlpSet, NEW now, now = {"root"}, todo \in {{"root"}, {"recv", "root"}},
         pcie_tlp_send_tlp(t, now), UNCHANGED <<rootSees, epBuf>>
  PROVE  /\ out' = Append(out, t) /\ out' \in Seq(TlpSet) /\ sent' \in Nat
         /\ Down' = Append(Down, t) /\ DownStream'
         /\ todo' = IF out = <<>> THEN {} ELSE {"root"}
<1>1. /\ out' = Append(out, t) /\ out' \in Seq(TlpSet)
  BY Sends, AppendItems DEF pcie_tlp_send_tlp
<1>2. CASE out = <<>>
  <2>1. /\ rx' = Beat(t, 0) /\ sent' = 0 /\ todo' = {}
        /\ Down = <<>> /\ epBuf = <<>>
    BY <1>2, Sends DEF pcie_tlp_send_tlp, Drive
  <2>2. out' # <<>> /\ Head(out') = t /\ Append(Down, t) = out'
    BY <1>1, <1>2, <2>1, AppendItems
  <2>3. Down' = out' /\ ~TakenByEp'
    BY <2>1 DEF Down, TakenByEp
  <2>4. Sending(out, sent)'
    BY <2>1, <2>2, TlpWords DEF Sending
  <2>5. Passed(out, sent)' = <<>>
    BY <2>1, <2>2, FirstNone DEF Passed
  <2> QED
    BY <1>1, <1>2, <2>1, <2>2, <2>3, <2>4, <2>5 DEF DownStream
<1>3. CASE out # <<>>
  <2>1. rx' = rx /\ sent' = sent /\ todo' = {"root"}
    BY <1>3 DEF pcie_tlp_send_tlp
  <2>2. /\ out' # <<>> /\ Head(out') = Head(out) /\ Tail(out') = Append(Tail(out), t)
    BY <1>1, <1>3, Sends, AppendItems
  <2>3. TakenByEp' <=> TakenByEp
    BY <2>1 DEF TakenByEp
  <2>4. Down' = Append(Down, t)
    BY <1>1, <2>1, <2>2 DEF Down
  <2>5. DownStream
    BY DEF Inv
  <2>6. DownStream'
    BY <1>3, <2>1, <2>2, <2>3, <2>5 DEF DownStream, Sending, Passed
  <2> QED
    BY <1>1, <1>3, <2>1, <2>4, <2>6, Sends
<1> QED
  BY <1>2, <1>3

-----------------------------------------------------------------------------
(* The clock, and the steps that send and receive nothing                  *)

LEMMA StepRun == Inv /\ run_run => Inv' /\ Down' = Down /\ Up' = Up
<1> SUFFICES ASSUME Inv, run_run PROVE Inv' /\ Down' = Down /\ Up' = Up
  OBVIOUS
<1>1. /\ todo = {} /\ at # "finished" /\ rootSees' = [tx |-> tx, ready |-> ready]
      /\ epSees' = [reset |-> reset, rx |-> rx]
      /\ todo' = {"endpoint", "root"} \cup (IF tx = None THEN {} ELSE {"recv"})
  BY DEF run_run
<1>2. /\ UNCHANGED <<at, call, left, enable, wasReset, reset, rx, out, sent, buf, completions,
                     intx_mask, tlp_next_tag>>
      /\ UNCHANGED <<tx, ready, epBuf, epQueue, epSent, epReads, level, own, took, given>>
  BY DEF run_run, sendVars, epVars
<1>3. TypeOK'
  BY <1>1, <1>2 DEF Inv, TypeOK
<1>4. Clocks'
  BY <1>1, <1>2 DEF Inv, Clocks
<1>5. Down' = Down /\ DownStream'
  <2>1. ~TakenByEp /\ ~TakenByEp'
    BY <1>1 DEF TakenByEp
  <2>2. DownStream
    BY DEF Inv
  <2> QED
    BY <1>1, <1>2, <2>1, <2>2 DEF Down, DownStream, Sending, Passed
<1>6. Up' = Up /\ UpStream'
  BY <1>1, <1>2, KeepsUp
<1>7. Protocol'
  BY <1>2, <1>5, <1>6, ProtocolNext DEF Inv, Protocol
<1>8. Enables'
  BY <1>2 DEF Inv, Enables
<1> QED
  BY <1>3, <1>4, <1>5, <1>6, <1>7, <1>8 DEF Inv

(* The library runs and has nothing to send: what is under way stays.      *)
LEMMA Quiet ==
  ASSUME Inv, Running, out = <<>>, todo' \in {{}, {"root"}},
         UNCHANGED <<busVars, sendVars, buf, intx_mask, epVars>>
  PROVE  /\ Down' = Down /\ Up' = Up /\ DownStream' /\ UpStream'
         /\ Dma(epReads', Down', Up') /\ \A x \in Intx : Follows(x, level', intx_mask', Up')
         /\ Pending(at, call, given, Down', Up', completions)
<1>1. /\ todo = {"root"}
      /\ UNCHANGED <<rx, out, sent, buf, rootSees, epSees, intx_mask, level, epReads>>
      /\ UNCHANGED <<tx, epQueue, epSent, epBuf, ready, own>>
  BY DEF Running, busVars, sendVars, epVars
<1>2. Down' = Down /\ DownStream'
  BY <1>1, KeepsDown
<1>3. Up' = Up /\ UpStream'
  BY <1>1, KeepsUp
<1> QED
  BY <1>1, <1>2, <1>3 DEF Inv, Protocol, Clocks, Enables

LEMMA StepWait == Inv /\ simbus_pcie_tlp_wait => Inv' /\ Down' = Down /\ Up' = Up
<1> SUFFICES ASSUME Inv, simbus_pcie_tlp_wait PROVE Inv' /\ Down' = Down /\ Up' = Up
  OBVIOUS
<1>1. /\ todo = {"root"} /\ Running /\ at = "idle" /\ at' = "wait" /\ todo' = {}
      /\ UNCHANGED <<busVars, recvVars, epVars, sendVars>>
      /\ UNCHANGED <<call, given, wasReset, reset, tlp_next_tag>>
      /\ enable' \in SUBSET Intx /\ \E clks \in 1..MaxWait : left' = <<clks, 0>>
  BY DEF simbus_pcie_tlp_wait, Calling, Running, Clocked
<1>2. /\ UNCHANGED <<out, sent, rx, buf, completions, intx_mask, rootSees, epSees>>
      /\ UNCHANGED <<tx, ready, epQueue, epSent, epReads, level, own>>
  BY <1>1 DEF busVars, recvVars, epVars, sendVars
<1>3. out = <<>>
  BY <1>1 DEF Inv, Clocks
<1>4. TypeOK'
  <2>1. left' \in (0..MaxWait) \X (0..MaxWait)
    BY <1>1, PcieConstantsOK DEF PcieConstantsOK
  <2> QED
    BY <1>1, <1>2, <2>1 DEF Inv, TypeOK
<1>5. Clocks'
  BY <1>1, <1>2 DEF Inv, Clocks
<1>6. /\ Down' = Down /\ Up' = Up /\ DownStream' /\ UpStream'
      /\ Dma(epReads', Down', Up') /\ \A x \in Intx : Follows(x, level', intx_mask', Up')
      /\ Pending(at, call, given, Down', Up', completions)
  BY <1>1, <1>2, <1>3, Quiet
<1>7. Pending(at', call', given', Down', Up', completions')
  BY <1>1, <1>2, <1>6, PendingElse
<1>8. Protocol'
  BY <1>6, <1>7, ProtocolNext
<1> QED
  BY <1>1, <1>4, <1>5, <1>6, <1>8 DEF Inv, Enables

LEMMA StepReset == Inv /\ simbus_pcie_tlp_reset => Inv' /\ Down' = Down /\ Up' = Up
<1> SUFFICES ASSUME Inv, simbus_pcie_tlp_reset PROVE Inv' /\ Down' = Down /\ Up' = Up
  OBVIOUS
<1>1. /\ todo = {"root"} /\ Running /\ at = "idle" /\ at' = "reset" /\ todo' = {} /\ ~wasReset
      /\ UNCHANGED <<busVars, recvVars, epVars, sendVars>>
      /\ UNCHANGED <<call, given, wasReset, tlp_next_tag>> /\ reset' = TRUE /\ enable' = {}
      /\ \E width \in 1..MaxWait, settle \in 0..MaxWait : left' = <<width, settle>>
  BY DEF simbus_pcie_tlp_reset, Calling, Running, Clocked
<1>2. /\ UNCHANGED <<out, sent, rx, buf, completions, intx_mask, rootSees, epSees>>
      /\ UNCHANGED <<tx, ready, epQueue, epSent, epReads, level, own>>
  BY <1>1 DEF busVars, recvVars, epVars, sendVars
<1>3. out = <<>>
  BY <1>1 DEF Inv, Clocks
<1>4. TypeOK'
  <2>1. left' \in (0..MaxWait) \X (0..MaxWait)
    BY <1>1, PcieConstantsOK DEF PcieConstantsOK
  <2>2. reset' \in BOOLEAN
    BY <1>1, Zenon
  <2> QED
    BY <1>1, <1>2, <2>1, <2>2 DEF Inv, TypeOK
<1>5. Clocks'
  BY <1>1, <1>2 DEF Inv, Clocks
<1>6. /\ Down' = Down /\ Up' = Up /\ DownStream' /\ UpStream'
      /\ Dma(epReads', Down', Up') /\ \A x \in Intx : Follows(x, level', intx_mask', Up')
      /\ Pending(at, call, given, Down', Up', completions)
  BY <1>1, <1>2, <1>3, Quiet
<1>7. Pending(at', call', given', Down', Up', completions')
  BY <1>1, <1>2, <1>6, PendingElse
<1>8. Protocol'
  BY <1>6, <1>7, ProtocolNext
<1> QED
  BY <1>1, <1>4, <1>5, <1>6, <1>8 DEF Inv, Enables

LEMMA StepEnd == Inv /\ simbus_pcie_tlp_end_simulation => Inv' /\ Down' = Down /\ Up' = Up
<1> SUFFICES ASSUME Inv, simbus_pcie_tlp_end_simulation PROVE Inv' /\ Down' = Down /\ Up' = Up
  OBVIOUS
<1>1. /\ todo = {"root"} /\ Running /\ at = "idle" /\ at' = "finished" /\ todo' = {}
      /\ UNCHANGED <<busVars, recvVars, epVars, sendVars>>
      /\ UNCHANGED <<call, left, enable, given, wasReset, reset, tlp_next_tag>>
  BY DEF simbus_pcie_tlp_end_simulation, Calling, Running
<1>2. /\ UNCHANGED <<out, sent, rx, buf, completions, intx_mask, rootSees, epSees>>
      /\ UNCHANGED <<tx, ready, epQueue, epSent, epReads, level, own>>
  BY <1>1 DEF busVars, recvVars, epVars, sendVars
<1>3. out = <<>>
  BY <1>1 DEF Inv, Clocks
<1>4. TypeOK'
  BY <1>1, <1>2 DEF Inv, TypeOK
<1>5. Clocks'
  BY <1>1, <1>2 DEF Inv, Clocks
<1>6. /\ Down' = Down /\ Up' = Up /\ DownStream' /\ UpStream'
      /\ Dma(epReads', Down', Up') /\ \A x \in Intx : Follows(x, level', intx_mask', Up')
      /\ Pending(at, call, given, Down', Up', completions)
  BY <1>1, <1>2, <1>3, Quiet
<1>7. Pending(at', call', given', Down', Up', completions')
  BY <1>1, <1>2, <1>6, PendingElse
<1>8. Protocol'
  BY <1>6, <1>7, ProtocolNext
<1> QED
  BY <1>1, <1>4, <1>5, <1>6, <1>8 DEF Inv, Enables

LEMMA StepAwait == Inv /\ await_completion => Inv' /\ Down' = Down /\ Up' = Up
<1> SUFFICES ASSUME Inv, await_completion PROVE Inv' /\ Down' = Down /\ Up' = Up
  OBVIOUS
<1>1. /\ todo = {"root"} /\ Running /\ at = "await" /\ out = <<>>
      /\ UNCHANGED <<busVars, sendVars, buf, epVars>>
      /\ UNCHANGED <<intx_mask, tlp_next_tag, left, enable, wasReset, reset>>
      /\ \/ /\ todo' = {} /\ UNCHANGED <<completions, at, call, given>>
         \/ /\ completions[call.tag] # None
            /\ completions' = [completions EXCEPT ![call.tag] = None]
            /\ at' = "idle" /\ call' = None /\ given' = None /\ todo' = {"root"}
  BY DEF await_completion, Looping, Running, Clocked, Return, take_completion
<1>2. /\ UNCHANGED <<out, sent, rx, buf, rootSees, epSees>>
      /\ UNCHANGED <<tx, ready, epQueue, epSent, epReads, level, own>>
  BY <1>1 DEF busVars, epVars, sendVars
<1>3. TypeOK'
  <2>1. completions' \in [0..(Tags - 1) -> TlpSet \cup {None, Garbled}]
    BY <1>1 DEF Inv, TypeOK
  <2>2. /\ todo' \subseteq {"endpoint", "recv", "root"}
        /\ at' \in {"idle", "await", "write", "wait", "reset", "finished"}
    BY <1>1
  <2> QED
    BY <1>1, <1>2, <2>1, <2>2 DEF Inv, TypeOK
<1>4. Clocks'
  BY <1>1, <1>2 DEF Inv, Clocks
<1>5. /\ Down' = Down /\ Up' = Up /\ DownStream' /\ UpStream'
      /\ Dma(epReads', Down', Up') /\ \A x \in Intx : Follows(x, level', intx_mask', Up')
      /\ Pending(at, call, given, Down', Up', completions)
  <2>1. todo' \in {{}, {"root"}}
    BY <1>1
  <2> QED
    BY <1>1, <2>1, Quiet
<1>6. Pending(at', call', given', Down', Up', completions')
  <2>1. CASE todo' = {} /\ UNCHANGED <<completions, at, call, given>>
    BY <1>5, <2>1
  <2>2. CASE /\ completions[call.tag] # None
             /\ completions' = [completions EXCEPT ![call.tag] = None]
             /\ at' = "idle" /\ call' = None /\ given' = None
    <3>1. Pending("await", call, given, Down', Up', completions)
      BY <1>1, <1>5
    <3> QED
      BY <2>2, <3>1, PendingReturns
  <2> QED
    BY <1>1, <2>1, <2>2
<1>7. Protocol'
  BY <1>5, <1>6, ProtocolNext
<1> QED
  BY <1>1, <1>3, <1>4, <1>5, <1>7 DEF Inv, Enables

LEMMA StepWritten == Inv /\ write_sent => Inv' /\ Down' = Down /\ Up' = Up
<1> SUFFICES ASSUME Inv, write_sent PROVE Inv' /\ Down' = Down /\ Up' = Up
  OBVIOUS
<1>1. /\ todo = {"root"} /\ Running /\ at = "write" /\ at' = "idle" /\ out = <<>> /\ todo' = {"root"}
      /\ UNCHANGED <<busVars, sendVars, buf, epVars>>
      /\ UNCHANGED <<intx_mask, tlp_next_tag, left, enable, wasReset, reset, completions>>
      /\ given' = None
  BY DEF write_sent, Looping, Running, Return
<1>2. /\ UNCHANGED <<out, sent, rx, buf, rootSees, epSees>>
      /\ UNCHANGED <<tx, ready, epQueue, epSent, epReads, level, own>>
  BY <1>1 DEF busVars, epVars, sendVars
<1>3. TypeOK'
  BY <1>1, <1>2 DEF Inv, TypeOK
<1>4. Clocks'
  BY <1>1, <1>2 DEF Inv, Clocks
<1>5. /\ Down' = Down /\ Up' = Up /\ DownStream' /\ UpStream'
      /\ Dma(epReads', Down', Up') /\ \A x \in Intx : Follows(x, level', intx_mask', Up')
      /\ Pending(at, call, given, Down', Up', completions)
  BY <1>1, Quiet
<1>6. Pending(at', call', given', Down', Up', completions')
  BY <1>1, <1>5, PendingElse
<1>7. Protocol'
  BY <1>5, <1>6, ProtocolNext
<1> QED
  BY <1>1, <1>3, <1>4, <1>5, <1>7 DEF Inv, Enables

LEMMA StepWaitClock == Inv /\ wait_clock => Inv' /\ Down' = Down /\ Up' = Up
<1> SUFFICES ASSUME Inv, wait_clock PROVE Inv' /\ Down' = Down /\ Up' = Up
  OBVIOUS
<1>1. /\ todo = {"root"} /\ Running /\ at \in {"wait", "reset"} /\ out = <<>>
      /\ UNCHANGED <<busVars, sendVars, buf, epVars>>
      /\ UNCHANGED <<intx_mask, tlp_next_tag, completions>>
      /\ \/ /\ at' = at /\ left[1] > 1 /\ left' = <<left[1] - 1, left[2]>> /\ todo' = {}
            /\ UNCHANGED <<given, enable, wasReset, reset>>
         \/ /\ left' = <<0, 0>> /\ enable' = {} /\ at' = "idle" /\ given' = None /\ todo' = {"root"}
            /\ UNCHANGED <<wasReset, reset>>
         \/ /\ reset' = FALSE /\ wasReset' = TRUE /\ left' = <<left[2], 0>> /\ enable' = enable
            /\ \/ at' = "wait" /\ todo' = {} /\ UNCHANGED given
               \/ at' = "idle" /\ given' = None /\ todo' = {"root"}
  BY DEF wait_clock, Looping, Running, Clocked, Return
<1>2. /\ UNCHANGED <<out, sent, rx, buf, rootSees, epSees>>
      /\ UNCHANGED <<tx, ready, epQueue, epSent, epReads, level, own>>
  BY <1>1 DEF busVars, epVars, sendVars
<1>3. /\ todo' \in {{}, {"root"}} /\ at' \in {"idle", "wait", "reset"}
      /\ at' = "idle" => todo' = {"root"}
      /\ given' \in {given, None}
  BY <1>1
<1>4. TypeOK'
  <2>1. left' \in (0..MaxWait) \X (0..MaxWait)
    <3>1. left \in (0..MaxWait) \X (0..MaxWait) /\ MaxWait \in Nat \ {0}
      BY PcieConstantsOK DEF PcieConstantsOK, Inv, TypeOK
    <3>2. left[1] \in 0..MaxWait /\ left[2] \in 0..MaxWait /\ 0 \in 0..MaxWait
      BY <3>1
    <3>3. CASE left[1] > 1 /\ left' = <<left[1] - 1, left[2]>>
      <4>1. left[1] - 1 \in 0..MaxWait
        BY <3>1, <3>2, <3>3
      <4> QED
        BY <3>2, <3>3, <4>1
    <3>4. CASE left' = <<0, 0>>
      BY <3>2, <3>4
    <3>5. CASE left' = <<left[2], 0>>
      BY <3>2, <3>5
    <3> QED
      BY <1>1, <3>3, <3>4, <3>5
  <2>2. wasReset' \in BOOLEAN /\ reset' \in BOOLEAN
    <3>1. wasReset \in BOOLEAN /\ reset \in BOOLEAN
      BY DEF Inv, TypeOK
    <3>2. (UNCHANGED <<wasReset, reset>>) \/ (reset' = FALSE /\ wasReset' = TRUE)
      BY <1>1
    <3> QED
      BY <3>1, <3>2
  <2>3. enable' \subseteq Intx
    BY <1>1 DEF Inv, TypeOK
  <2> QED
    BY <1>1, <1>2, <1>3, <2>1, <2>2, <2>3 DEF Inv, TypeOK
<1>5. Clocks'
  BY <1>1, <1>2, <1>3 DEF Inv, Clocks
<1>6. /\ Down' = Down /\ Up' = Up /\ DownStream' /\ UpStream'
      /\ Dma(epReads', Down', Up') /\ \A x \in Intx : Follows(x, level', intx_mask', Up')
      /\ Pending(at, call, given, Down', Up', completions)
  BY <1>1, <1>3, Quiet
<1>7. Pending(at', call', given', Down', Up', completions')
  <2>1. given = None /\ \A v, c1 : v # "await" => Pending(v, c1, given, Down', Up', completions)
    BY <1>1, <1>6, PendingElse
  <2> QED
    BY <1>1, <1>3, <2>1
<1>8. Protocol'
  BY <1>6, <1>7, ProtocolNext
<1> QED
  BY <1>3, <1>4, <1>5, <1>6, <1>8 DEF Inv, Enables

-----------------------------------------------------------------------------
(* Sending and receiving                                                   *)

LEMMA StepSend == Inv /\ do_send_tlp_raw => Inv' /\ Down' = Down /\ Up' = Up
<1> SUFFICES ASSUME Inv, do_send_tlp_raw PROVE Inv' /\ Down' = Down /\ Up' = Up
  OBVIOUS
<1>1. /\ todo = {"root"} /\ out # <<>>
      /\ UNCHANGED <<rootSees, epSees, at, call, left, enable, wasReset, reset>>
      /\ UNCHANGED <<buf, completions, intx_mask, tlp_next_tag>>
      /\ UNCHANGED <<tx, ready, epBuf, epQueue, epSent, epReads, level, own, given>>
  BY DEF do_send_tlp_raw, Running, busVars, appVars, recvVars, epVars
<1>2. \/ ~rootSees.ready /\ todo' = {} /\ UNCHANGED <<rx, out, sent>>
      \/ /\ rootSees.ready /\ ~rx.last /\ rx' = Beat(Head(out), sent + 2) /\ sent' = sent + 2
         /\ out' = out /\ todo' = {}
      \/ /\ rootSees.ready /\ rx.last /\ out' = Tail(out) /\ sent' = 0
         /\ \/ out' # <<>> /\ rx' = Beat(Head(out'), 0) /\ todo' = {}
            \/ out' = <<>> /\ rx' = None /\ todo' = {"root"}
  BY DEF do_send_tlp_raw, Running, sendVars, Clocked, Drive
<1>3. /\ out \in Seq(TlpSet) /\ rx # None /\ rx = Beat(Head(out), sent) /\ Head(out) \in TlpSet
      /\ sent \in Nat /\ sent < Length(Head(out)) /\ Tail(out) \in Seq(TlpSet)
  BY <1>1, Sends
<1>4. out' \in Seq(TlpSet) /\ sent' \in Nat /\ todo' \in {{}, {"root"}}
  BY <1>2, <1>3, SMTT(30)
<1>5. TypeOK'
  BY <1>1, <1>4 DEF Inv, TypeOK
<1>6. Clocks'
  BY <1>1, <1>2, <1>4 DEF Inv, Clocks
<1>7. Down' = Down /\ DownStream'
  <2>1. DownStream
    BY DEF Inv
  <2>2. CASE ~rootSees.ready /\ todo' = {} /\ UNCHANGED <<rx, out, sent>>
    <3>1. ~TakenByEp /\ ~TakenByEp'
      BY <2>2 DEF TakenByEp
    <3> QED
      BY <1>1, <2>1, <2>2, <3>1 DEF Down, DownStream, Sending, Passed
  <2>3. CASE /\ rootSees.ready /\ ~rx.last /\ rx' = Beat(Head(out), sent + 2) /\ sent' = sent + 2
             /\ out' = out /\ todo' = {}
    <3>1. TakenByEp /\ ~TakenByEp'
      BY <1>1, <1>3, <2>3 DEF TakenByEp
    <3>2. sent + 2 < Length(Head(out))
      BY <1>3, <2>3, NextBeat
    <3>3. epBuf = First(Head(out), sent + 2)
      BY <2>1, <2>3, <3>1 DEF DownStream
    <3> QED
      BY <1>1, <2>3, <3>1, <3>2, <3>3 DEF Down, DownStream, Sending, Passed
  <2>4. CASE rootSees.ready /\ rx.last /\ out' = Tail(out) /\ sent' = 0
    <3>1. TakenByEp /\ epBuf = <<>> /\ Down = Tail(out)
      BY <1>1, <1>3, <2>1, <2>4 DEF TakenByEp, DownStream, Down
    <3>2. ~TakenByEp' /\ Down' = out'
      BY <1>2, <2>4 DEF TakenByEp, Down
    <3>3. Passed(out, sent)' = <<>>
      BY <2>4, FirstNone DEF Passed
    <3>4. Sending(out, sent)'
      <4>1. out' # <<>> => Head(out') \in TlpSet
        BY <1>4, TailItems
      <4> QED
        BY <2>4, <4>1, TlpWords DEF Sending
    <3>5. rx' = IF out' = <<>> THEN None ELSE Beat(Head(out'), 0)
      BY <1>2, <2>4
    <3> QED
      BY <1>1, <2>4, <3>1, <3>2, <3>3, <3>4, <3>5 DEF DownStream
  <2> QED
    BY <1>2, <2>2, <2>3, <2>4
<1>8. Up' = Up /\ UpStream'
  BY <1>1, <1>4, KeepsUp
<1>9. Protocol'
  BY <1>1, <1>7, <1>8, ProtocolNext DEF Inv, Protocol
<1>10. Enables'
  <2>1. \A i \in DOMAIN out' : \E j \in DOMAIN out : out'[i] = out[j]
    BY <1>1, <1>2, <1>3, TailItems, SMTT(30)
  <2> QED
    BY <1>1, <2>1 DEF Inv, Enables
<1> QED
  BY <1>5, <1>6, <1>7, <1>8, <1>9, <1>10 DEF Inv

LEMMA StepReceive == Inv /\ pcie_tlp_recv_tlp => Inv' /\ Down' = Down /\ Up' = Up
<1> SUFFICES ASSUME Inv, pcie_tlp_recv_tlp PROVE Inv' /\ Down' = Down /\ Up' = Up
  OBVIOUS
<1>1. /\ "recv" \in todo /\ "endpoint" \notin todo /\ todo' = todo \ {"recv"} /\ ~rootSees.tx.last
      /\ buf' = buf \o rootSees.tx.words
      /\ UNCHANGED <<rootSees, epSees, at, call, left, enable, wasReset, reset>>
      /\ UNCHANGED <<rx, out, sent, completions, intx_mask, tlp_next_tag>>
      /\ UNCHANGED <<tx, ready, epBuf, epQueue, epSent, epReads, level, own, given>>
  BY DEF pcie_tlp_recv_tlp, Receiving, Received, busVars, appVars, sendVars, epVars
<1>2. /\ todo = {"recv", "root"} /\ todo' = {"root"} /\ Up = epQueue /\ epQueue # <<>>
      /\ buf' = First(Head(epQueue), epSent)
  BY <1>1, Receives
<1>3. TypeOK'
  BY <1>1, <1>2 DEF Inv, TypeOK
<1>4. Clocks'
  BY <1>1, <1>2 DEF Inv, Clocks
<1>5. Down' = Down /\ DownStream'
  BY <1>1, <1>2, KeepsDown
<1>6. Up' = Up /\ UpStream'
  BY <1>1, <1>2 DEF Inv, UpStream, Up, Sending, Passed
<1>7. Protocol'
  BY <1>1, <1>5, <1>6, ProtocolNext DEF Inv, Protocol
<1>8. Enables'
  BY <1>1 DEF Inv, Enables
<1> QED
  BY <1>3, <1>4, <1>5, <1>6, <1>7, <1>8 DEF Inv

(* A read of the endpoint that arrives is one that awaits its answer.      *)
LEMMA ReadArrives ==
  ASSUME Inv, Up # <<>>, NEW t, t = Head(Up), t.kind = "MRd"
  PROVE  /\ t \in epReads /\ t.n = 1
         /\ \A v \in RootData(t.n) :
              /\ CplD(t.tag, v) \in TlpSet /\ CplD(t.tag, v) \in CplDs
              /\ CplD(t.tag, v).tag = t.tag /\ CplD(t.tag, v).n = t.n
              /\ CplD(t.tag, v).kind = "CplD" /\ CplD(t.tag, v) \notin Req
<1>1. Up \in Seq(TlpSet)
  BY UpQueue
<1>2. t \in TlpSet
  BY <1>1, TailItems
<1>3. t \in Reads /\ t.tag \in Nat
  BY <1>2 DEF Reads, TlpSet
<1>4. Zero(Up, Reads \ epReads) /\ \A r \in epReads : r.n = 1
  BY DEF Inv, Protocol, Dma
<1>5. t \in epReads /\ t.n = 1
  BY <1>1, <1>3, <1>4, ZeroTail
<1>6. ASSUME NEW v \in RootData(t.n)
      PROVE  /\ CplD(t.tag, v) \in Comp /\ CplD(t.tag, v) \in CplDs
             /\ CplD(t.tag, v).tag = t.tag /\ CplD(t.tag, v).n = t.n
             /\ CplD(t.tag, v).kind = "CplD"
  <2>1. v \in RootData(1) \cup Data(1) /\ 1 \in {1} \cup ReadSizes
    BY <1>5
  <2> QED
    BY <1>3, <1>5, <2>1, AnswerTlp
<1>7. \A a \in Comp : a \in TlpSet /\ a \notin Req
  BY DEF Comp, Req
<1> QED
  BY <1>5, <1>6, <1>7

(* A TLP of the endpoint is dispatched on its kind.                        *)
LEMMA Dispatch ==
  ASSUME Inv, NEW t \in EpTlp, Up # <<>>, t = Head(Up), NEW d \in Seq(TlpSet), NEW mask, NEW comps,
         comps = IF t.kind \in {"Cpl", "CplD"} THEN copy_tlp_to_completion(t) ELSE completions,
         mask = IF t.kind \in {"Assert", "Deassert"} THEN process_INTx(t) ELSE intx_mask,
         \/ t.kind = "MRd" /\ \E v \in RootData(t.n) : d = Append(Down, CplD(t.tag, v))
         \/ t.kind # "MRd" /\ d = Down
  PROVE  /\ Pending(at, call, given, d, Tail(Up), comps) /\ Dma(epReads, d, Tail(Up))
         /\ \A x \in Intx : Follows(x, level, mask, Tail(Up))
         /\ comps \in [0..(Tags - 1) -> TlpSet \cup {None, Garbled}] /\ mask \subseteq Intx
         /\ t.kind = "MRd" => \A v \in RootData(t.n) :
              CplD(t.tag, v) \in TlpSet /\ CplD(t.tag, v).kind = "CplD"
<1>1. /\ Pending(at, call, given, Down, Up, completions) /\ Dma(epReads, Down, Up)
      /\ \A x \in Intx : Follows(x, level, intx_mask, Up)
  BY DEF Inv, Protocol
<1>2. /\ t \in TlpSet /\ Down \in Seq(TlpSet) /\ Up \in Seq(TlpSet) /\ Tail(Up) \in Seq(TlpSet)
      /\ t.tag \in Nat
      /\ t.kind \in {"CfgRd", "CfgWr", "MRd", "MWr", "Cpl", "CplD", "Assert", "Deassert"}
  BY Sends, UpQueue, TailItems DEF EpTlp, TlpSet
<1>3. /\ t \in Comp <=> t.kind \in {"Cpl", "CplD"}
      /\ t \in Reads <=> t.kind = "MRd"
      /\ \A x : t \in About(x) <=> t.kind \in {"Assert", "Deassert"} /\ t.tag = x
  BY <1>2 DEF Comp, Reads, About
<1>4. ASSUME t.kind = "MRd"
      PROVE \A v \in RootData(t.n) :
              /\ CplD(t.tag, v) \in TlpSet /\ CplD(t.tag, v).kind = "CplD" /\ CplD(t.tag, v) \in CplDs
              /\ CplD(t.tag, v).tag = t.tag /\ CplD(t.tag, v).n = t.n /\ CplD(t.tag, v) \notin Req
  BY <1>4, ReadArrives
<1>5. Pending(at, call, given, d, Tail(Up), comps)
  <2>1. CASE t.kind \in {"Cpl", "CplD"}
    <3>1. Head(Up) \in Comp
      BY <1>3, <2>1
    <3>2. /\ Head(Up).tag \in DOMAIN completions /\ completions[Head(Up).tag] = None
          /\ Pending(at, call, given, Down, Tail(Up), [completions EXCEPT ![Head(Up).tag] = Head(Up)])
      BY <1>1, <1>2, <3>1, PendingArrives
    <3>3. comps = [completions EXCEPT ![t.tag] = t]
      BY <2>1, <3>2 DEF copy_tlp_to_completion
    <3> QED
      BY <2>1, <3>2, <3>3
  <2>2. CASE t.kind = "MRd"
    <3>1. Pending(at, call, given, Down, Tail(Up), completions)
      BY <1>1, <1>2, <1>3, <2>2, PendingOthers
    <3> QED
      BY <1>2, <1>4, <2>2, <3>1, PendingOthers, ZenonT(30)
  <2>3. CASE t.kind \notin {"Cpl", "CplD", "MRd"}
    BY <1>1, <1>2, <1>3, <2>3, PendingOthers
  <2> QED
    BY <2>1, <2>2, <2>3
<1>6. Dma(epReads, d, Tail(Up))
  <2>1. CASE t.kind = "MRd"
    <3>1. PICK v \in RootData(t.n) : d = Append(Down, CplD(t.tag, v))
      BY <2>1
    <3> QED
      BY <1>1, <1>2, <1>3, <1>4, <2>1, <3>1, DmaAnswers
  <2>2. CASE t.kind # "MRd"
    BY <1>1, <1>2, <1>3, <2>2, DmaOthers
  <2> QED
    BY <2>1, <2>2
<1>7. \A x \in Intx : Follows(x, level, mask, Tail(Up))
  <2> SUFFICES ASSUME NEW x \in Intx PROVE Follows(x, level, mask, Tail(Up))
    OBVIOUS
  <2>1. CASE t \in About(x)
    <3>1. x \in mask <=> t.kind = "Assert"
      BY <1>3, <2>1 DEF process_INTx
    <3> QED
      BY <1>1, <1>2, <2>1, <3>1, FollowsMask
  <2>2. CASE t \notin About(x)
    <3>1. x \in mask <=> x \in intx_mask
      BY <1>3, <2>2 DEF process_INTx
    <3> QED
      BY <1>1, <1>2, <2>2, <3>1, FollowsMask
  <2> QED
    BY <2>1, <2>2
<1>8. comps \in [0..(Tags - 1) -> TlpSet \cup {None, Garbled}] /\ mask \subseteq Intx
  <2>1. comps \in [0..(Tags - 1) -> TlpSet \cup {None, Garbled}]
    BY <1>2 DEF Inv, TypeOK, copy_tlp_to_completion
  <2>2. mask \subseteq Intx
    BY DEF Inv, TypeOK, process_INTx, EpTlp
  <2> QED
    BY <2>1, <2>2
<1> QED
  BY <1>4, <1>5, <1>6, <1>7, <1>8

LEMMA StepComplete ==
  Inv /\ complete_recv_tlp =>
    /\ Inv' /\ Up # <<>> /\ handled' = Head(Up) /\ Up' = Tail(Up)
    /\ Down' = Down \/ \E t \in TlpSet : Down' = Append(Down, t)
<1> SUFFICES ASSUME Inv, complete_recv_tlp
             PROVE  /\ Inv' /\ Up # <<>> /\ handled' = Head(Up) /\ Up' = Tail(Up)
                    /\ Down' = Down \/ \E t \in TlpSet : Down' = Append(Down, t)
  OBVIOUS
<1> DEFINE words == rootSees.tx.words
           t == words[1].of
<1>1. /\ "recv" \in todo /\ "endpoint" \notin todo /\ rootSees.tx.last
      /\ UNCHANGED <<rootSees, epSees, at, call, left, enable, wasReset, reset, tlp_next_tag>>
      /\ UNCHANGED <<tx, ready, epBuf, epQueue, epSent, epReads, level, own, given>>
  BY DEF complete_recv_tlp, Receiving, busVars, appVars, epVars
<1>2. /\ todo = {"recv", "root"} /\ t \in EpTlp /\ t \in TlpSet /\ epSent = 0
      /\ Up = <<t>> \o epQueue /\ Assembled(buf \o words) = t /\ (buf \o words)[1].of = t
  BY <1>1, Receives
<1>3. /\ handled' = t /\ buf' = <<>>
      /\ completions' = IF t.kind \in {"Cpl", "CplD"} THEN copy_tlp_to_completion(t) ELSE completions
      /\ intx_mask' = IF t.kind \in {"Assert", "Deassert"} THEN process_INTx(t) ELSE intx_mask
      /\ \/ t.kind = "MRd" /\ \E v \in RootData(t.n) : pcie_tlp_send_tlp(CplD(t.tag, v), Received)
         \/ t.kind # "MRd" /\ todo' = Received /\ UNCHANGED sendVars
  BY <1>2 DEF complete_recv_tlp, buffer_after
<1> HIDE DEF t, words
<1>4. Up # <<>> /\ Head(Up) = t /\ Tail(Up) = epQueue
  BY <1>2, EpSends, Prepend
<1>5. Received = {"root"}
  BY <1>2 DEF Received
<1>6. t.kind = "MRd" => \A v \in RootData(t.n) :
        CplD(t.tag, v) \in TlpSet /\ CplD(t.tag, v).kind = "CplD"
  BY <1>4, ReadArrives
<1>7. /\ out' \in Seq(TlpSet) /\ sent' \in Nat /\ DownStream' /\ todo' \in {{}, {"root"}}
      /\ \A i \in DOMAIN out' : out'[i].kind = "MWr" => \E j \in DOMAIN out : out'[i] = out[j]
      /\ \/ t.kind = "MRd" /\ \E v \in RootData(t.n) : Down' = Append(Down, CplD(t.tag, v))
         \/ t.kind # "MRd" /\ Down' = Down
  <2>1. CASE t.kind = "MRd"
    <3>1. PICK v \in RootData(t.n) : pcie_tlp_send_tlp(CplD(t.tag, v), Received)
      BY <1>3, <2>1
    <3>2. CplD(t.tag, v) \in TlpSet /\ CplD(t.tag, v).kind = "CplD"
      BY <1>6, <2>1
    <3>3. /\ out' = Append(out, CplD(t.tag, v)) /\ out' \in Seq(TlpSet) /\ sent' \in Nat
          /\ Down' = Append(Down, CplD(t.tag, v)) /\ DownStream'
          /\ todo' = IF out = <<>> THEN {} ELSE {"root"}
      BY <1>1, <1>2, <1>5, <3>1, <3>2, SendsTlp
    <3>4. out \in Seq(TlpSet)
      BY Sends
    <3>5. \A i \in DOMAIN out' : out'[i].kind = "MWr" => \E j \in DOMAIN out : out'[i] = out[j]
      BY <3>2, <3>3, <3>4, AppendBasics
    <3> QED
      BY <2>1, <3>3, <3>5
  <2>2. CASE t.kind # "MRd"
    <3>1. UNCHANGED <<rx, out, sent>> /\ todo' = {"root"}
      BY <1>3, <1>5, <2>2 DEF sendVars
    <3> QED
      BY <1>1, <1>2, <2>2, <3>1, KeepsDown, Sends
  <2> QED
    BY <1>3, <2>1, <2>2
<1>8. Down' \in Seq(TlpSet)
  <2>1. Down \in Seq(TlpSet)
    BY Sends
  <2>2. \A a \in TlpSet : Append(Down, a) \in Seq(TlpSet)
    BY <2>1, AppendBasics
  <2> QED
    BY <1>6, <1>7, <2>1, <2>2
<1>9. /\ Pending(at, call, given, Down', Tail(Up), completions') /\ Dma(epReads, Down', Tail(Up))
      /\ \A x \in Intx : Follows(x, level, intx_mask', Tail(Up))
      /\ completions' \in [0..(Tags - 1) -> TlpSet \cup {None, Garbled}] /\ intx_mask' \subseteq Intx
  BY <1>2, <1>3, <1>4, <1>7, <1>8, Dispatch
<1>10. Up' = Tail(Up) /\ UpStream'
  <2>1. Up' = epQueue' /\ "recv" \notin todo'
    BY <1>7 DEF Up
  <2>2. Passed(epQueue, epSent)' = <<>>
    BY <1>1, <1>2, FirstNone DEF Passed
  <2> QED
    BY <1>1, <1>3, <1>4, <2>1, <2>2 DEF Inv, UpStream, Sending
<1>11. Protocol'
  BY <1>1, <1>9, <1>10, ProtocolNext
<1>12. TypeOK'
  BY <1>1, <1>7, <1>9 DEF Inv, TypeOK
<1>13. Clocks'
  BY <1>1, <1>2, <1>7 DEF Inv, Clocks
<1>14. Enables'
  BY <1>1, <1>7 DEF Inv, Enables
<1> QED
  BY <1>3, <1>4, <1>6, <1>7, <1>10, <1>11, <1>12, <1>13, <1>14 DEF Inv

-----------------------------------------------------------------------------
(* The endpoint                                                            *)

(* At its turn, nothing of this posedge has been taken yet.                *)
LEMMA EpTurn ==
  ASSUME Inv, "endpoint" \in todo
  PROVE  /\ rootSees = [tx |-> tx, ready |-> ready] /\ epSees = [reset |-> reset, rx |-> rx]
         /\ "recv" \in todo <=> tx # None
         /\ todo \in {{"endpoint", "root"}, {"endpoint", "recv", "root"}}
         /\ Down = out /\ Up = epQueue /\ at \notin {"idle", "finished"}
         /\ epBuf = Passed(out, sent) /\ buf = Passed(epQueue, epSent)
<1>1. /\ rootSees = [tx |-> tx, ready |-> ready] /\ epSees = [reset |-> reset, rx |-> rx]
      /\ todo \in {{"endpoint", "root"}, {"endpoint", "recv", "root"}} /\ at \notin {"idle", "finished"}
  BY DEF Inv, Clocks
<1>2. "recv" \in todo <=> tx # None
  BY DEF Inv, Clocks
<1>3. Down = out /\ Up = epQueue
  BY DEF Down, Up
<1>4. epBuf = Passed(out, sent)
  BY DEF Inv, DownStream, TakenByEp
<1>5. buf = Passed(epQueue, epSent)
  BY DEF Inv, UpStream
<1> QED
  BY <1>1, <1>2, <1>3, <1>4, <1>5

LEMMA EpTakes ==
  ASSUME Inv, "endpoint" \in todo, todo' = todo \ {"endpoint"},
         UNCHANGED <<rootSees, rx, out, sent>>,
         NEW taken, taken = (rx # None /\ ready),
         NEW words, words = IF taken THEN epBuf \o rx.words ELSE epBuf,
         NEW done, done = (taken /\ rx.last), epBuf' = IF done THEN <<>> ELSE words
  PROVE  /\ DownStream'
         /\ done => /\ Down # <<>> /\ Assembled(words) = Head(Down) /\ Down' = Tail(Down)
                    /\ Head(Down) \in TlpSet
         /\ ~done => Down' = Down
<1>1. /\ Down = out /\ epBuf = Passed(out, sent) /\ rootSees.ready = ready
      /\ "endpoint" \notin todo' /\ "root" \in todo'
  BY EpTurn
<1>2. /\ out \in Seq(TlpSet) /\ sent \in Nat
      /\ rx # None => /\ out # <<>> /\ rx = Beat(Head(out), sent) /\ Head(out) \in TlpSet
                      /\ sent < Length(Head(out))
  BY Sends
<1>3. DownStream
  BY DEF Inv
<1>4. CASE ~taken
  <2>1. ~TakenByEp' /\ epBuf' = epBuf /\ Down' = out /\ ~done
    BY <1>1, <1>4 DEF TakenByEp, Down
  <2>2. rx' = rx /\ out' = out /\ sent' = sent
    OBVIOUS
  <2>3. Sending(out, sent)' /\ rx' = IF out' = <<>> THEN None ELSE Beat(Head(out'), sent')
    BY <1>3, <2>2 DEF DownStream, Sending
  <2>4. epBuf' = Passed(out, sent)'
    BY <1>1, <2>1, <2>2 DEF Passed
  <2>5. DownStream'
    BY <2>1, <2>3, <2>4 DEF DownStream
  <2> QED
    BY <1>1, <2>1, <2>5
<1>5. CASE taken /\ ~rx.last
  <2>1. /\ TakenByEp' /\ Down' = out /\ ~done /\ epBuf' = epBuf \o rx.words
    BY <1>1, <1>5 DEF TakenByEp, Down
  <2>2. epBuf = First(Head(out), sent)
    BY <1>1, <1>2, <1>5 DEF Passed
  <2>3. epBuf' = First(Head(out), sent + 2)
    BY <1>2, <1>5, <2>1, <2>2, NextBeat
  <2> QED
    BY <1>1, <1>3, <1>5, <2>1, <2>3 DEF DownStream, Sending
<1>6. CASE taken /\ rx.last
  <2>1. TakenByEp' /\ Down' = Tail(out) /\ done /\ epBuf' = <<>> /\ words = epBuf \o rx.words
    BY <1>1, <1>6 DEF TakenByEp, Down
  <2>2. epBuf = First(Head(out), sent)
    BY <1>1, <1>2, <1>6 DEF Passed
  <2>3. words = Words(Head(out))
    BY <1>2, <1>6, <2>1, <2>2, LastBeat
  <2>4. Assembled(words) = Head(out)
    BY <1>2, <1>6, <2>3, Whole
  <2>5. DownStream'
    BY <1>1, <1>3, <1>6, <2>1 DEF DownStream, Sending
  <2> QED
    BY <1>1, <1>2, <1>6, <2>1, <2>4, <2>5
<1> QED
  BY <1>4, <1>5, <1>6

(* The endpoint queues a TLP, or none.                                     *)
LEMMA EpQueues ==
  ASSUME Inv, "endpoint" \in todo, todo' = todo \ {"endpoint"}, UNCHANGED <<rootSees, buf>>,
         NEW rest, rest = IF tx # None /\ tx.last THEN Tail(epQueue) ELSE epQueue,
         epQueue' = rest \/ \E a \in EpTlp : epQueue' = Append(rest, a),
         epSent' = IF tx = None THEN epSent ELSE IF tx.last THEN 0 ELSE epSent + 2,
         tx' \in {None} \cup (IF epQueue' = <<>> THEN {} ELSE {Beat(Head(epQueue'), epSent')})
  PROVE  /\ UpStream' /\ epQueue' \in Seq(EpTlp) /\ epSent' \in Nat
         /\ epQueue' = rest => Up' = Up
         /\ \A a \in EpTlp : epQueue' = Append(rest, a) => Up' = Append(Up, a)
<1>1. /\ Up = epQueue /\ rootSees.tx = tx /\ buf = Passed(epQueue, epSent)
      /\ "endpoint" \notin todo'
      /\ "recv" \in todo' <=> tx # None
  BY EpTurn
<1>2. /\ epQueue \in Seq(EpTlp) /\ epSent \in Nat
      /\ epQueue = <<>> => epSent = 0 /\ tx = None
      /\ epQueue # <<>> => /\ Head(epQueue) \in EpTlp /\ Head(epQueue) \in TlpSet
                           /\ Tail(epQueue) \in Seq(EpTlp) /\ epSent < Length(Head(epQueue))
      /\ tx # None => epQueue # <<>> /\ tx = Beat(Head(epQueue), epSent)
  BY EpSends
<1>3. rest \in Seq(EpTlp)
  BY <1>2
<1>4. \A a \in EpTlp : /\ Append(rest, a) \in Seq(EpTlp) /\ Append(rest, a) # <<>>
                       /\ rest # <<>> => Head(Append(rest, a)) = Head(rest)
  BY <1>3, AppendItems
<1>5. epQueue' \in Seq(EpTlp) /\ (rest # <<>> => epQueue' # <<>> /\ Head(epQueue') = Head(rest))
  BY <1>3, <1>4
<1>6. tx' # None => epQueue' # <<>> /\ tx' = Beat(Head(epQueue'), epSent')
  OBVIOUS
<1>7. epQueue' # <<>> => 0 < Length(Head(epQueue'))
  <2>1. \A t \in EpTlp : Length(t) \in Nat /\ 0 < Length(t)
    BY TlpWords DEF EpTlp
  <2> QED
    BY <1>5, <2>1, TailItems
<1>8. CASE tx = None
  <2>1. rest = epQueue /\ epSent' = epSent /\ "recv" \notin todo' /\ Up' = epQueue'
    BY <1>1, <1>8 DEF Up
  <2>2. Sending(epQueue', epSent')
    BY <1>2, <1>5, <1>7, <2>1 DEF Sending
  <2>3. buf' = Passed(epQueue', epSent')
    BY <1>1, <1>2, <1>5, <2>1, FirstNone DEF Passed
  <2>4. UpStream'
    BY <1>5, <1>6, <2>1, <2>2, <2>3 DEF UpStream, Sending, Passed
  <2> QED
    BY <1>1, <1>2, <1>5, <2>1, <2>4
<1>9. CASE tx # None
  <2> DEFINE t == Head(epQueue)
  <2>1. /\ epQueue # <<>> /\ tx = Beat(t, epSent) /\ t \in EpTlp /\ t \in TlpSet /\ epSent \in Nat
        /\ epSent < Length(t) /\ Length(t) \in Nat /\ "recv" \in todo'
        /\ buf' = First(t, epSent)
    BY <1>1, <1>2, <1>9, TlpWords DEF Passed
  <2>2. tx.words[1] = [of |-> t, word |-> epSent + 1]
    BY <2>1, BeatWords
  <2>3. tx.words[1].of = t /\ tx.words[1].word - 1 = epSent
    BY <2>1, <2>2
  <2>4. CASE tx.last
    <3>1. rest = Tail(epQueue) /\ epSent' = 0
      BY <1>9, <2>4
    <3>2. Sending(epQueue, epSent)'
      BY <1>7, <3>1 DEF Sending
    <3>3. UpStream'
      BY <1>1, <1>5, <1>6, <2>1, <2>3, <2>4, <3>1, <3>2 DEF UpStream, Arriving
    <3>4. Up' = <<t>> \o epQueue'
      BY <1>1, <2>1, <2>3, <2>4 DEF Up
    <3>5. <<t>> \o rest = epQueue
      BY <1>2, <2>1, <3>1, HeadTailConcat
    <3>6. \A a \in EpTlp : <<t>> \o Append(rest, a) = Append(<<t>> \o rest, a)
      BY <1>3, <2>1, Prepend, SMTT(30)
    <3>7. epQueue' = rest => Up' = Up
      BY <1>1, <3>4, <3>5
    <3>8. ASSUME NEW a \in EpTlp, epQueue' = Append(rest, a) PROVE Up' = Append(Up, a)
      BY <1>1, <3>4, <3>5, <3>6, <3>8
    <3> HIDE DEF t
    <3> QED
      BY <1>5, <3>1, <3>3, <3>7, <3>8
  <2>5. CASE ~tx.last
    <3>1. rest = epQueue /\ epSent' = epSent + 2 /\ epSent + 2 < Length(t)
      BY <1>9, <2>1, <2>5, NextBeat
    <3>2. epQueue' # <<>> /\ Head(epQueue') = t
      BY <1>5, <2>1, <3>1
    <3>3. Sending(epQueue, epSent)'
      BY <3>1, <3>2 DEF Sending
    <3>4. UpStream'
      BY <1>1, <1>5, <1>6, <2>1, <2>3, <2>5, <3>1, <3>2, <3>3 DEF UpStream, Arriving
    <3>5. Up' = epQueue'
      BY <1>1, <2>5 DEF Up
    <3> QED
      BY <1>1, <1>2, <1>5, <3>1, <3>4, <3>5
  <2> QED
    BY <2>4, <2>5
<1> QED
  BY <1>8, <1>9

(* The request of the call is answered, once, with what the device gave;   *)
(* the answer is sent, or lost.                                            *)
LEMMA EpAnswers ==
  ASSUME Inv, Down # <<>>, NEW t, t = Head(Down), NEW answer, answer \in Answers(t), answer # <<>>
  PROVE  /\ answer[1] \in EpTlp /\ answer = <<answer[1]>> /\ t \in Req /\ t.kind # "CplD"
         /\ call # None /\ at = "await" /\ given = None
         /\ Gave(t, answer[1]) \in Answer
         /\ call.op = "write" => Gave(t, answer[1]).data = call.data
         /\ Pending(at, call, Gave(t, answer[1]), Tail(Down), Append(Up, answer[1]), completions)
         /\ Pending(at, call, Gave(t, answer[1]), Tail(Down), Up, completions)
         /\ Dma(epReads, Tail(Down), Append(Up, answer[1])) /\ Dma(epReads, Tail(Down), Up)
         /\ \A x \in Intx : Follows(x, level, intx_mask, Append(Up, answer[1]))
<1> DEFINE a == answer[1]
<1>1. /\ Down \in Seq(TlpSet) /\ Up \in Seq(TlpSet) /\ t \in TlpSet /\ t.tag \in Nat
  <2>1. Down \in Seq(TlpSet) /\ Up \in Seq(TlpSet)
    BY Sends, UpQueue
  <2>2. t \in TlpSet
    BY <2>1, TailItems
  <2> QED
    BY <2>1, <2>2 DEF TlpSet
<1>2. /\ Pending(at, call, given, Down, Up, completions) /\ Dma(epReads, Down, Up)
      /\ \A x \in Intx : Follows(x, level, intx_mask, Up)
  BY DEF Inv, Protocol
<1>3. /\ t.kind \in {"MRd", "CfgRd", "CfgWr"} /\ t \in Req
      /\ \/ t.kind # "CfgWr" /\ \E d \in Data(t.n) : answer = <<CplD(t.tag, d)>>
         \/ answer = <<Cpl(t.tag)>>
  <2>1. CASE t.kind = "MRd"
    BY <1>1, <2>1 DEF Answers, Req
  <2>2. CASE t.kind = "CfgRd"
    BY <1>1, <2>2 DEF Answers, Req
  <2>3. CASE t.kind = "CfgWr"
    BY <1>1, <2>3 DEF Answers, Req
  <2>4. CASE t.kind \notin {"MRd", "CfgRd", "CfgWr"}
    BY <2>4 DEF Answers
  <2> QED
    BY <2>1, <2>2, <2>3, <2>4
<1>4. /\ at = "await" /\ given = None /\ call # None /\ t \in Asked(call)
      /\ call.n \in ReadSizes \cup {1} /\ call \in Request
      /\ \A c \in Comp : c.tag = t.tag /\ GivenBy(call, c) \in Answer =>
           /\ Pending(at, call, GivenBy(call, c), Tail(Down), Append(Up, c), completions)
           /\ Pending(at, call, GivenBy(call, c), Tail(Down), Up, completions)
  BY <1>1, <1>2, <1>3, PendingGives
<1>5. /\ t.addr = call.addr /\ t.tag = call.tag /\ t.n = call.n /\ t.data = call.data
      /\ t.kind = "CfgWr" <=> call.op = "write"
  BY <1>4 DEF Asked
<1>6. /\ a \in Comp /\ a.tag = t.tag /\ answer = <<a>> /\ a.kind \in {"Cpl", "CplD"}
      /\ a.kind = "CplD" => call.op # "write" /\ a.data \in Data(call.n)
  <2>1. CASE answer = <<Cpl(t.tag)>>
    BY <1>1, <2>1, AnswerTlp
  <2>2. CASE t.kind # "CfgWr" /\ \E d \in Data(t.n) : answer = <<CplD(t.tag, d)>>
    <3>1. PICK d \in Data(t.n) : answer = <<CplD(t.tag, d)>>
      BY <2>2
    <3>2. t.n \in {1} \cup ReadSizes /\ d \in RootData(t.n) \cup Data(t.n)
      BY <1>4, <1>5
    <3>3. /\ CplD(t.tag, d) \in Comp /\ CplD(t.tag, d).tag = t.tag
          /\ CplD(t.tag, d).data = d /\ CplD(t.tag, d).kind = "CplD"
      <4> HIDE DEF a
      <4>1. /\ t.tag \in Nat
            /\ \A n \in {1} \cup ReadSizes : \A v \in RootData(n) \cup Data(n) :
                 /\ CplD(t.tag, v) \in Comp /\ CplD(t.tag, v).tag = t.tag
                 /\ CplD(t.tag, v).data = v /\ CplD(t.tag, v).kind = "CplD"
        BY <1>1, AnswerTlp
      <4> QED
        BY <3>2, <4>1
    <3> QED
      BY <1>5, <2>2, <3>1, <3>3
  <2> QED
    BY <1>3, <2>1, <2>2
<1> HIDE DEF a
<1>7. Gave(t, a) = GivenBy(call, a)
  <2>1. Gave(t, a) = [data |-> CASE call.op = "write" -> t.data
                                 [] a.kind = "CplD" -> a.data
                                 [] OTHER -> Ones(call.n)]
    BY <1>4, <1>5 DEF Gave
  <2>2. CASE call.op = "write"
    BY <1>5, <1>6, <2>1, <2>2 DEF GivenBy
  <2>3. CASE call.op # "write" /\ a.kind = "CplD"
    BY <2>1, <2>3 DEF GivenBy
  <2>4. CASE call.op # "write" /\ a.kind # "CplD"
    BY <2>1, <2>4 DEF GivenBy
  <2> QED
    BY <2>2, <2>3, <2>4
<1>8. GivenBy(call, a) \in Answer /\ (call.op = "write" => GivenBy(call, a).data = call.data)
  <2>1. call.data \in AnyData
    BY <1>4 DEF Request
  <2>2. a.kind = "CplD" => a.data \in AnyData
    BY <1>4, <1>6, DataSets
  <2>3. Ones(call.n) \in {Ones(n) : n \in ReadSizes \cup {1}}
    BY <1>4
  <2> QED
    BY <2>1, <2>2, <2>3 DEF GivenBy, Answer
<1>9. /\ Pending(at, call, Gave(t, a), Tail(Down), Append(Up, a), completions)
      /\ Pending(at, call, Gave(t, a), Tail(Down), Up, completions)
  BY <1>4, <1>6, <1>7, <1>8
<1>10. /\ a \in TlpSet /\ a \notin Reads /\ t \notin CplDs /\ a \in EpTlp
       /\ \A x : a \notin About(x)
  BY <1>3, <1>6 DEF Comp, Reads, CplDs, EpTlp, About, Req
<1>11. Dma(epReads, Tail(Down), Append(Up, a)) /\ Dma(epReads, Tail(Down), Up)
  <2>1. Dma(epReads, Tail(Down), Up) /\ Tail(Down) \in Seq(TlpSet)
    BY <1>1, <1>2, <1>10, DmaOthers, TailItems
  <2> QED
    BY <1>1, <1>10, <2>1, DmaOthers
<1>12. \A x \in Intx : Follows(x, level, intx_mask, Append(Up, a))
  BY <1>1, <1>2, <1>10, FollowsLevel
<1> QED
  BY <1>3, <1>4, <1>6, <1>7, <1>8, <1>9, <1>10, <1>11, <1>12 DEF a

(* Another TLP is taken, or none: answers to the endpoint's reads among    *)
(* them.                                                                   *)
LEMMA EpDrops ==
  ASSUME Inv, NEW d, NEW t,
         \/ Down # <<>> /\ t = Head(Down) /\ d = Tail(Down) /\ <<>> \in Answers(t)
         \/ t = Garbled /\ d = Down
  PROVE  /\ d \in Seq(TlpSet) /\ Pending(at, call, given, d, Up, completions)
         /\ Dma({r \in epReads : ~(t.kind = "CplD" /\ r.tag = t.tag)}, d, Up)
<1>1. /\ Down \in Seq(TlpSet) /\ Up \in Seq(TlpSet)
      /\ Pending(at, call, given, Down, Up, completions) /\ Dma(epReads, Down, Up)
  BY Sends, UpQueue DEF Inv, Protocol
<1>2. CASE t = Garbled /\ d = Down
  <2>1. t.kind = "garbled"
    BY <1>2, Fields DEF Garbled
  <2>2. {r \in epReads : ~(t.kind = "CplD" /\ r.tag = t.tag)} = epReads
    BY <2>1
  <2> QED
    BY <1>1, <1>2, <2>2
<1>3. CASE Down # <<>> /\ t = Head(Down) /\ d = Tail(Down) /\ <<>> \in Answers(t)
  <2>1. t \in TlpSet /\ d \in Seq(TlpSet)
    BY <1>1, <1>3, TailItems
  <2>2. t \notin Req
    <3>1. CASE t.kind = "MRd"
      BY <1>3, <3>1 DEF Answers
    <3>2. CASE t.kind = "CfgRd"
      BY <1>3, <3>2 DEF Answers
    <3>3. CASE t.kind = "CfgWr"
      BY <1>3, <3>3 DEF Answers
    <3> QED
      BY <3>1, <3>2, <3>3 DEF Req
  <2>3. Pending(at, call, given, d, Up, completions)
    BY <1>1, <1>3, <2>2, PendingOthers
  <2>4. Dma({r \in epReads : ~(t.kind = "CplD" /\ r.tag = t.tag)}, d, Up)
    <3>1. CASE t.kind = "CplD"
      <4>1. {r \in epReads : ~(t.kind = "CplD" /\ r.tag = t.tag)} = {r \in epReads : r.tag # t.tag}
        BY <3>1
      <4>2. Head(Down) \in CplDs
        BY <1>3, <2>1, <3>1 DEF CplDs
      <4> QED
        BY <1>1, <1>3, <4>1, <4>2, DmaTakes
    <3>2. CASE t.kind # "CplD"
      <4>1. {r \in epReads : ~(t.kind = "CplD" /\ r.tag = t.tag)} = epReads
        BY <3>2
      <4>2. Head(Down) \notin CplDs
        BY <1>3, <3>2 DEF CplDs
      <4> QED
        BY <1>1, <1>3, <4>1, <4>2, DmaOthers
    <3> QED
      BY <3>1, <3>2
  <2> QED
    BY <2>1, <2>3, <2>4
<1> QED
  BY <1>2, <1>3

(* It sends a TLP of its own.  g is what the call has been given.          *)
LEMMA EpUnasked ==
  ASSUME Inv, NEW d \in Seq(TlpSet), NEW reads \in SUBSET epReads, NEW u \in Unasked, NEW g,
         Pending(at, call, g, d, Up, completions), Dma(reads, d, Up),
         NEW lv, lv = CASE u.kind = "Assert" -> level \cup {u.tag}
                        [] u.kind = "Deassert" -> level \ {u.tag}
                        [] OTHER -> level
  PROVE  /\ Pending(at, call, g, d, Append(Up, u), completions)
         /\ Dma(reads \cup (IF u.kind = "MRd" THEN {u} ELSE {}), d, Append(Up, u))
         /\ \A x \in Intx : Follows(x, lv, intx_mask, Append(Up, u))
         /\ lv \subseteq Intx /\ own # OwnLimit /\ u \in EpTlp /\ u \in TlpSet
<1>1. /\ level \subseteq Intx /\ \A x \in Intx : Follows(x, level, intx_mask, Up)
  BY DEF Inv, TypeOK, Protocol
<1>2. /\ own # OwnLimit /\ u \in EpTlp /\ u \notin Comp
      /\ u.kind \in {"MRd", "MWr", "Assert", "Deassert"}
      /\ u.kind = "MRd" => u \in Reads /\ u.n = 1 /\ \A r \in epReads : r.tag # u.tag
      /\ u.kind \in {"Assert", "Deassert"} => u.tag \in Intx /\ u \in About(u.tag)
  BY <1>1, UnaskedTlp
<1>3. u \in TlpSet /\ Up \in Seq(TlpSet)
  BY <1>2, UpQueue DEF EpTlp
<1>4. Pending(at, call, g, d, Append(Up, u), completions)
  BY <1>2, <1>3, PendingOthers
<1>5. Dma(reads \cup (IF u.kind = "MRd" THEN {u} ELSE {}), d, Append(Up, u))
  <2>1. CASE u.kind = "MRd"
    <3>1. u \in Reads /\ u.n = 1 /\ \A r \in reads : r.tag # u.tag
      BY <1>2, <2>1
    <3>2. Dma(reads \cup {u}, d, Append(Up, u))
      BY <1>3, <3>1, DmaAsks
    <3> QED
      BY <2>1, <3>2
  <2>2. CASE u.kind # "MRd"
    <3>1. u \notin Reads
      BY <2>2 DEF Reads
    <3>2. Dma(reads, d, Append(Up, u))
      BY <1>3, <3>1, DmaOthers
    <3> QED
      BY <2>2, <3>2
  <2> QED
    BY <2>1, <2>2
<1>6. \A x \in Intx : Follows(x, lv, intx_mask, Append(Up, u))
  <2> SUFFICES ASSUME NEW x \in Intx PROVE Follows(x, lv, intx_mask, Append(Up, u))
    OBVIOUS
  <2>1. IF u \in About(x) THEN x \in lv <=> u.kind = "Assert" ELSE x \in lv <=> x \in level
    BY <1>2, <1>3 DEF About
  <2> QED
    BY <1>1, <1>3, <2>1, FollowsLevel
<1>7. lv \subseteq Intx
  BY <1>1, <1>2
<1> QED
  BY <1>2, <1>3, <1>4, <1>5, <1>6, <1>7

LEMMA StepEndpoint ==
  Inv /\ endpoint =>
    /\ Inv'
    /\ \/ Down # <<>> /\ Down' = Tail(Down) /\ took' = Head(Down)
       \/ Down' = Down /\ took' = None
    /\ Up' = Up \/ \E a \in TlpSet : Up' = Append(Up, a)
    /\ \/ given' = given
       \/ /\ at = "await" /\ given = None /\ given' \in Answer
          /\ call.op = "write" => given'.data = call.data
    /\ UNCHANGED <<handled, result, at, call>>
<1> SUFFICES ASSUME Inv, endpoint
             PROVE  /\ Inv'
                    /\ \/ Down # <<>> /\ Down' = Tail(Down) /\ took' = Head(Down)
                       \/ Down' = Down /\ took' = None
                    /\ Up' = Up \/ \E a \in TlpSet : Up' = Append(Up, a)
                    /\ \/ given' = given
                       \/ /\ at = "await" /\ given = None /\ given' \in Answer
                          /\ call.op = "write" => given'.data = call.data
                    /\ UNCHANGED <<handled, result, at, call>>
  OBVIOUS
<1> DEFINE taken == epSees.rx # None /\ ready
           words == IF taken THEN epBuf \o epSees.rx.words ELSE epBuf
           done  == taken /\ epSees.rx.last
           t     == IF done THEN Assembled(words) ELSE Garbled
           rest  == IF tx # None /\ tx.last THEN Tail(epQueue) ELSE epQueue
           d     == IF done THEN Tail(Down) ELSE Down
           reads == {r \in epReads : ~(t.kind = "CplD" /\ r.tag = t.tag)}
<1>1. /\ "endpoint" \in todo /\ todo' = todo \ {"endpoint"} /\ wasReset /\ epSees.rx = rx
      /\ rootSees = [tx |-> tx, ready |-> ready]
      /\ todo \in {{"endpoint", "root"}, {"endpoint", "recv", "root"}} /\ at \notin {"idle", "finished"}
  BY EpTurn DEF endpoint
<1>2. /\ UNCHANGED <<rootSees, epSees, at, call, left, enable, wasReset, reset, result>>
      /\ UNCHANGED <<rx, out, sent, buf, completions, intx_mask, handled, tlp_next_tag>>
  BY DEF endpoint, busVars, appVars, sendVars, recvVars
<1>3. /\ epBuf' = IF done THEN <<>> ELSE words
      /\ took' = IF done THEN t ELSE None
      /\ epSent' = IF tx = None THEN epSent ELSE IF tx.last THEN 0 ELSE epSent + 2
      /\ tx' \in {None} \cup (IF epQueue' = <<>> THEN {} ELSE {Beat(Head(epQueue'), epSent')})
      /\ ready' \in BOOLEAN
  BY <1>1 DEF endpoint
<1>4. PICK answer \in Answers(t), more \in {<<>>} \cup {<<u>> : u \in Unasked} :
        /\ answer = <<>> \/ more = <<>> \/ Overwrites(t, more)
        /\ epQueue' = rest \o (IF more = <<>> THEN answer ELSE more)
        /\ given' = IF answer = <<>> THEN given ELSE Gave(t, answer[1])
        /\ own' = own + Len(more)
        /\ epReads' = reads \cup {u \in {more[i] : i \in DOMAIN more} : u.kind = "MRd"}
        /\ level' = CASE more # <<>> /\ more[1].kind = "Assert" -> level \cup {more[1].tag}
                      [] more # <<>> /\ more[1].kind = "Deassert" -> level \ {more[1].tag}
                      [] OTHER -> level
  BY DEF endpoint
<1>5. /\ DownStream'
      /\ done => Down # <<>> /\ t = Head(Down) /\ Down' = Tail(Down) /\ Head(Down) \in TlpSet
      /\ ~done => Down' = Down /\ t = Garbled
  <2>1. UNCHANGED <<rootSees, rx, out, sent>>
    BY <1>2
  <2> HIDE DEF taken, words, done
  <2>2. /\ taken = (rx # None /\ ready) /\ words = IF taken THEN epBuf \o rx.words ELSE epBuf
        /\ done = (taken /\ rx.last)
    BY <1>1, Zenon DEF taken, words, done
  <2>3. /\ DownStream'
        /\ done => /\ Down # <<>> /\ Assembled(words) = Head(Down) /\ Down' = Tail(Down)
                   /\ Head(Down) \in TlpSet
        /\ ~done => Down' = Down
    BY <1>1, <1>3, <2>1, <2>2, EpTakes
  <2> QED
    BY <2>3 DEF t
<1>6. rest \in Seq(EpTlp)
  BY EpSends
<1> HIDE DEF taken, words, done, rest, t, reads
<1>7. Down' = d
  BY <1>5
<1>8. \/ Down # <<>> /\ Down' = Tail(Down) /\ took' = Head(Down)
      \/ Down' = Down /\ took' = None
  BY <1>3, <1>5
<1>9. Clocks'
  BY <1>1, <1>2 DEF Inv, Clocks
<1>10. Enables'
  BY <1>2 DEF Inv, Enables
<1>11. /\ epQueue \in Seq(EpTlp) /\ epReads \subseteq TlpSet /\ own \in 0..OwnLimit /\ level \subseteq Intx
       /\ Seq(EpTlp) \subseteq Seq(TlpSet) /\ reads \subseteq epReads
  <2>1. EpTlp \subseteq TlpSet
    BY DEF EpTlp
  <2>2. Seq(EpTlp) \subseteq Seq(TlpSet)
    BY <2>1
  <2> QED
    BY <2>2, EpSends DEF Inv, TypeOK, reads
<1>12. ASSUME epQueue' \in Seq(EpTlp), epSent' \in Nat, own' \in 0..OwnLimit, level' \subseteq Intx,
              epReads' \subseteq TlpSet
       PROVE  TypeOK'
  <2>1. todo' \subseteq {"endpoint", "recv", "root"}
    BY <1>1
  <2> QED
    BY <1>2, <1>3, <1>11, <1>12, <2>1 DEF Inv, TypeOK
<1>13. /\ \/ epQueue' = rest
          \/ \E a \in EpTlp : epQueue' = Append(rest, a)
       => /\ UpStream' /\ epQueue' \in Seq(EpTlp) /\ epSent' \in Nat
          /\ epQueue' = rest => Up' = Up
          /\ \A a \in EpTlp : epQueue' = Append(rest, a) => Up' = Append(Up, a)
  <2>1. rest = IF tx # None /\ tx.last THEN Tail(epQueue) ELSE epQueue
    BY DEF rest
  <2>2. UNCHANGED <<rootSees, buf>>
    BY <1>2
  <2> QED
    BY <1>1, <1>3, <2>1, <2>2, EpQueues
<1>14. /\ answer # <<>> =>
            /\ answer[1] \in EpTlp /\ answer = <<answer[1]>>
            /\ at = "await" /\ given = None /\ given' \in Answer
            /\ call.op = "write" => given'.data = call.data
            /\ Pending(at, call, given', d, Append(Up, answer[1]), completions)
            /\ Dma(reads, d, Append(Up, answer[1]))
            /\ \A x \in Intx : Follows(x, level, intx_mask, Append(Up, answer[1]))
       /\ answer = <<>> => given' = given
       /\ d \in Seq(TlpSet) /\ Pending(at, call, given', d, Up, completions) /\ Dma(reads, d, Up)
  <2>1. CASE answer # <<>>
    <3>1. done
      <4>1. Garbled.kind = "garbled"
        BY Fields DEF Garbled
      <4>2. Answers(Garbled) = {<<>>}
        BY <4>1 DEF Answers
      <4> QED
        BY <1>4, <1>5, <2>1, <4>2
    <3>2. d = Tail(Down) /\ Tail(Down) \in Seq(TlpSet)
      <4>1. Down \in Seq(TlpSet)
        BY Sends
      <4> QED
        BY <1>5, <3>1, <4>1, TailItems
    <3>3. /\ answer[1] \in EpTlp /\ answer = <<answer[1]>> /\ t \in Req /\ t.kind # "CplD"
          /\ at = "await" /\ given = None /\ given' \in Answer
          /\ call.op = "write" => given'.data = call.data
          /\ Pending(at, call, given', Tail(Down), Append(Up, answer[1]), completions)
          /\ Pending(at, call, given', Tail(Down), Up, completions)
          /\ Dma(epReads, Tail(Down), Append(Up, answer[1])) /\ Dma(epReads, Tail(Down), Up)
          /\ \A x \in Intx : Follows(x, level, intx_mask, Append(Up, answer[1]))
      BY <1>4, <1>5, <2>1, <3>1, EpAnswers
    <3>4. reads = epReads
      BY <3>3 DEF reads
    <3> HIDE DEF d
    <3> QED
      BY <2>1, <3>2, <3>3, <3>4
  <2>2. CASE answer = <<>>
    <3>1. \/ Down # <<>> /\ t = Head(Down) /\ d = Tail(Down) /\ <<>> \in Answers(t)
          \/ t = Garbled /\ d = Down
      BY <1>4, <1>5, <2>2
    <3>2. given' = given
      BY <1>4, <2>2
    <3> HIDE DEF d
    <3>3. d \in Seq(TlpSet) /\ Pending(at, call, given, d, Up, completions) /\ Dma(reads, d, Up)
      BY <3>1, EpDrops DEF reads
    <3> QED
      BY <2>2, <3>2, <3>3
  <2> QED
    BY <2>1, <2>2
<1> HIDE DEF d
<1>15. CASE answer # <<>> /\ more = <<>>
  <2> DEFINE b == answer[1]
  <2> HIDE DEF b
  <2>1. answer = <<b>> /\ b \in EpTlp /\ b \in TlpSet
    BY <1>14, <1>15 DEF b, EpTlp
  <2>2. epQueue' = Append(rest, b)
    BY <1>4, <1>6, <1>15, <2>1
  <2>3. UpStream' /\ epQueue' \in Seq(EpTlp) /\ epSent' \in Nat /\ Up' = Append(Up, b)
    BY <1>13, <2>1, <2>2
  <2>4. Len(more) = 0 /\ own' = own /\ level' = level
    BY <1>4, <1>11, <1>15
  <2>5. epReads' = reads
    <3>1. {u \in {more[i] : i \in DOMAIN more} : u.kind = "MRd"} = {}
      BY <1>15
    <3> QED
      BY <1>4, <3>1
  <2>6. /\ Pending(at, call, given', d, Append(Up, b), completions) /\ Dma(reads, d, Append(Up, b))
        /\ \A x \in Intx : Follows(x, level, intx_mask, Append(Up, b))
    BY <1>14, <1>15 DEF b
  <2>7. Protocol'
    BY <1>2, <1>7, <2>3, <2>4, <2>5, <2>6, ProtocolNext
  <2>8. TypeOK'
    BY <1>11, <1>12, <2>3, <2>4, <2>5
  <2>9. Inv'
    BY <1>5, <1>9, <1>10, <2>3, <2>7, <2>8 DEF Inv
  <2> QED
    BY <1>2, <1>8, <1>14, <1>15, <2>1, <2>3, <2>9
<1>16. CASE answer = <<>> /\ more = <<>>
  <2>1. epQueue' = rest /\ Len(more) = 0 /\ own' = own /\ level' = level
    BY <1>4, <1>6, <1>11, <1>16
  <2>2. UpStream' /\ epQueue' \in Seq(EpTlp) /\ epSent' \in Nat /\ Up' = Up
    BY <1>13, <2>1
  <2>3. epReads' = reads
    BY <1>4, <1>16
  <2>4. \A x \in Intx : Follows(x, level, intx_mask, Up)
    BY DEF Inv, Protocol
  <2>5. Protocol'
    BY <1>2, <1>7, <1>14, <2>1, <2>2, <2>3, <2>4, ProtocolNext
  <2>6. TypeOK'
    BY <1>11, <1>12, <2>1, <2>2, <2>3
  <2>7. Inv'
    BY <1>5, <1>9, <1>10, <2>2, <2>5, <2>6 DEF Inv
  <2> QED
    BY <1>2, <1>8, <1>14, <1>16, <2>2, <2>7
<1>17. CASE more # <<>>
  <2>1. PICK u \in Unasked : more = <<u>>
    BY <1>17
  <2>2. more[1] = u /\ Len(more) = 1 /\ {more[i] : i \in DOMAIN more} = {u}
    BY <2>1
  <2>3. level' = CASE u.kind = "Assert" -> level \cup {u.tag}
                   [] u.kind = "Deassert" -> level \ {u.tag}
                   [] OTHER -> level
    <3>1. more # <<>>
      BY <1>17
    <3> QED
      BY <1>4, <2>2, <3>1
  <2>4. epReads' = reads \cup (IF u.kind = "MRd" THEN {u} ELSE {})
    BY <1>4, <2>2
  <2>5. /\ Pending(at, call, given', d, Append(Up, u), completions)
        /\ Dma(epReads', d, Append(Up, u))
        /\ \A x \in Intx : Follows(x, level', intx_mask, Append(Up, u))
        /\ level' \subseteq Intx /\ own # OwnLimit /\ u \in EpTlp /\ u \in TlpSet
    BY <1>11, <1>14, <2>3, <2>4, EpUnasked, ZenonT(30)
  <2>6. epQueue' = Append(rest, u)
    BY <1>4, <1>6, <1>17, <2>1, <2>5
  <2>7. UpStream' /\ epQueue' \in Seq(EpTlp) /\ epSent' \in Nat /\ Up' = Append(Up, u)
    BY <1>13, <2>5, <2>6
  <2>8. own' \in 0..OwnLimit /\ epReads' \subseteq TlpSet
    <3>1. OwnLimit \in Nat /\ own' = own + 1
      BY <1>4, <2>2, PcieConstantsOK DEF PcieConstantsOK
    <3>2. own' \in 0..OwnLimit
      BY <1>11, <2>5, <3>1
    <3> QED
      BY <1>11, <2>4, <2>5, <3>2
  <2>9. Protocol'
    BY <1>2, <1>7, <2>5, <2>7, ProtocolNext
  <2>10. TypeOK'
    BY <1>12, <2>5, <2>7, <2>8
  <2>11. Inv'
    BY <1>5, <1>9, <1>10, <2>7, <2>9, <2>10 DEF Inv
  <2> QED
    BY <1>2, <1>8, <1>14, <2>5, <2>7, <2>11
<1> QED
  BY <1>15, <1>16, <1>17

-----------------------------------------------------------------------------
(* The calls that send                                                     *)

LEMMA StepAsk ==
  ASSUME Inv, NEW op \in {"read", "write"}, NEW t \in Req, Ask(t, op),
         t.tag = tlp_next_tag, t.addr \in Addr, t.n \in ReadSizes \cup {1},
         t.kind = "CfgWr" <=> op = "write"
  PROVE  /\ Inv' /\ Down' = Append(Down, t) /\ Up' = Up /\ at = "idle" /\ at' = "await"
         /\ call' \in Request /\ UNCHANGED <<given, result, took, handled>>
<1>1. /\ todo = {"root"} /\ at = "idle" /\ at' = "await" /\ wasReset
      /\ UNCHANGED <<rootSees, epSees, buf, completions, intx_mask, handled>>
      /\ UNCHANGED <<tx, ready, epBuf, epQueue, epSent, epReads, level, own, took, given>>
      /\ UNCHANGED <<left, enable, wasReset, reset, result>>
      /\ pcie_tlp_send_tlp(t, todo) /\ tlp_next_tag' = (tlp_next_tag + 1) % Tags
      /\ call' = [op |-> op, tag |-> t.tag, addr |-> t.addr, n |-> t.n, data |-> t.data]
  BY DEF Ask, Calling, Running, busVars, recvVars, epVars, pcie_tlp_choose_tag
<1>2. out = <<>> /\ Down = <<>> /\ t \in TlpSet /\ Down \in Seq(TlpSet)
  BY <1>1, Sends DEF Inv, Clocks, Req
<1>3. /\ out' \in Seq(TlpSet) /\ sent' \in Nat /\ Down' = Append(Down, t) /\ DownStream' /\ todo' = {}
      /\ out' = Append(out, t)
  BY <1>1, <1>2, SendsTlp
<1>4. Up' = Up /\ UpStream'
  BY <1>1, <1>3, KeepsUp
<1>5. /\ call' \in Request /\ call'.tag \in 0..(Tags - 1) /\ call'.n \in ReadSizes \cup {1}
      /\ t \in Asked(call')
  <2>1. t.tag \in Nat /\ t.n \in Nat /\ t.data \in AnyData
    BY <1>2 DEF TlpSet
  <2>2. tlp_next_tag \in 0..(Tags - 1)
    BY DEF Inv, TypeOK
  <2>3. call' \in Request
    BY <1>1, <2>1 DEF Request
  <2> QED
    BY <1>1, <2>2, <2>3 DEF Asked
<1>6. Pending(at', call', given', Down', Up', completions')
  <2>1. Pending(at, call, given, Down, Up, completions)
    BY DEF Inv, Protocol
  <2> QED
    BY <1>1, <1>2, <1>3, <1>4, <1>5, <2>1, PendingAsks
<1>7. Dma(epReads', Down', Up')
  <2>1. Dma(epReads, Down, Up) /\ Up \in Seq(TlpSet)
    BY UpQueue DEF Inv, Protocol
  <2>2. t \notin CplDs
    BY DEF Req, CplDs
  <2> QED
    BY <1>1, <1>2, <1>3, <1>4, <2>1, <2>2, DmaOthers
<1>8. Protocol'
  BY <1>1, <1>4, <1>6, <1>7, ProtocolNext DEF Inv, Protocol
<1>9. TypeOK'
  <2>1. tlp_next_tag' \in 0..(Tags - 1)
    <3>1. Tags \in Nat \ {0} /\ tlp_next_tag \in 0..(Tags - 1)
      BY PcieConstantsOK DEF PcieConstantsOK, Inv, TypeOK
    <3> QED
      BY <1>1, <3>1
  <2> QED
    BY <1>1, <1>3, <2>1 DEF Inv, TypeOK
<1>10. Clocks'
  BY <1>1, <1>3 DEF Inv, Clocks
<1> QED
  BY <1>1, <1>3, <1>4, <1>5, <1>8, <1>9, <1>10 DEF Inv, Enables

LEMMA StepRead ==
  Inv /\ (simbus_pcie_tlp_read \/ simbus_pcie_tlp_cfg_read32 \/ simbus_pcie_tlp_cfg_write) =>
    /\ Inv' /\ Up' = Up /\ \E t \in TlpSet : Down' = Append(Down, t)
    /\ at = "idle" /\ at' = "await" /\ call' \in Request /\ UNCHANGED <<given, result, took, handled>>
<1> SUFFICES ASSUME Inv,
                    simbus_pcie_tlp_read \/ simbus_pcie_tlp_cfg_read32 \/ simbus_pcie_tlp_cfg_write
             PROVE  \E t \in Req, op \in {"read", "write"} :
                      /\ Ask(t, op) /\ t.tag = tlp_next_tag /\ t.addr \in Addr
                      /\ t.n \in ReadSizes \cup {1}
                      /\ t.kind = "CfgWr" <=> op = "write"
  <2>1. Req \subseteq TlpSet
    BY DEF Req
  <2> QED
    BY <2>1, StepAsk
<1>1. tlp_next_tag \in Nat /\ Low \subseteq Addr
  BY PcieConstantsOK DEF PcieConstantsOK, Inv, TypeOK, Addr
<1>2. CASE simbus_pcie_tlp_read
  <2>1. PICK a \in Addr, n \in ReadSizes : Ask(MRd(tlp_next_tag, a, n), "read")
    BY <1>2 DEF simbus_pcie_tlp_read
  <2>2. /\ MRd(tlp_next_tag, a, n) \in TlpSet /\ MRd(tlp_next_tag, a, n).kind = "MRd"
        /\ MRd(tlp_next_tag, a, n).tag = tlp_next_tag /\ MRd(tlp_next_tag, a, n).addr = a
        /\ MRd(tlp_next_tag, a, n).n = n
    BY <1>1, MRdTlp
  <2> QED
    BY <2>1, <2>2 DEF Req
<1>3. CASE simbus_pcie_tlp_cfg_read32
  <2>1. PICK a \in Low : Ask(CfgRd(tlp_next_tag, a), "read")
    BY <1>3 DEF simbus_pcie_tlp_cfg_read32
  <2>2. a \in Addr /\ 1 \in {1} \cup ReadSizes
    BY <1>1
  <2>3. /\ CfgRd(tlp_next_tag, a) \in TlpSet /\ CfgRd(tlp_next_tag, a).kind = "CfgRd"
        /\ CfgRd(tlp_next_tag, a).tag = tlp_next_tag /\ CfgRd(tlp_next_tag, a).addr = a
        /\ CfgRd(tlp_next_tag, a).n = 1
    BY <1>1, <2>2, ReadTlp
  <2> QED
    BY <2>1, <2>2, <2>3 DEF Req
<1>4. CASE simbus_pcie_tlp_cfg_write
  <2>1. PICK a \in Low, v \in RootData(1), size \in CfgSizes, shift \in {0, 1, 2, 3} :
          Ask(CfgWr(tlp_next_tag, a, v, shift..(shift + size - 1)), "write")
    BY <1>4 DEF simbus_pcie_tlp_cfg_write
  <2> DEFINE be == shift..(shift + size - 1)
             t  == CfgWr(tlp_next_tag, a, v, be)
  <2>2. be \in SUBSET Nat
    BY PcieConstantsOK DEF PcieConstantsOK
  <2> HIDE DEF be
  <2>3. a \in Addr
    BY <1>1
  <2>4. /\ t \in TlpSet /\ t.kind = "CfgWr" /\ t.tag = tlp_next_tag /\ t.addr = a /\ t.n = 1
    BY <1>1, <2>2, <2>3, CfgWriteTlp
  <2>5. Ask(t, "write")
    BY <2>1 DEF be
  <2> HIDE DEF t
  <2> QED
    BY <2>3, <2>4, <2>5 DEF Req
<1> QED
  BY <1>2, <1>3, <1>4

LEMMA StepWrite ==
  Inv /\ simbus_pcie_tlp_write =>
    /\ Inv' /\ Up' = Up /\ \E t \in TlpSet : Down' = Append(Down, t)
    /\ at = "idle" /\ at' = "write" /\ UNCHANGED <<given, result, took, handled>>
<1> SUFFICES ASSUME Inv, simbus_pcie_tlp_write
             PROVE  /\ Inv' /\ Up' = Up /\ \E t \in TlpSet : Down' = Append(Down, t)
                    /\ at = "idle" /\ at' = "write" /\ UNCHANGED <<given, result, took, handled>>
  OBVIOUS
<1>1. /\ todo = {"root"} /\ at = "idle" /\ at' = "write" /\ wasReset
      /\ UNCHANGED <<rootSees, epSees, buf, completions, intx_mask, handled>>
      /\ UNCHANGED <<tx, ready, epBuf, epQueue, epSent, epReads, level, own, took, given>>
      /\ UNCHANGED <<left, enable, wasReset, reset, result, tlp_next_tag>>
  BY DEF simbus_pcie_tlp_write, Calling, Running, busVars, recvVars, epVars
<1>2. PICK a \in Addr, p \in Spans : \E v \in RootData(p.n) :
        /\ pcie_tlp_send_tlp(MWr(a, v, ByteEnables(p)), todo)
        /\ call' = [op |-> "post", addr |-> a, span |-> p]
  BY DEF simbus_pcie_tlp_write
<1>2a. PICK v \in RootData(p.n) :
        /\ pcie_tlp_send_tlp(MWr(a, v, ByteEnables(p)), todo)
        /\ call' = [op |-> "post", addr |-> a, span |-> p]
  BY <1>2
<1> DEFINE t == MWr(a, v, ByteEnables(p))
<1>3. t \in TlpSet /\ t.kind = "MWr" /\ t.be = ByteEnables(p)
  <2>1. ByteEnables(p) \in SUBSET Nat
    <3>1. AllBytes(p.n) \subseteq Nat
      BY DEF AllBytes
    <3> QED
      BY <3>1 DEF ByteEnables
  <2>2. p.n \in {1} \cup {q.n : q \in Spans}
    OBVIOUS
  <2>3. \A n \in {1} \cup {q.n : q \in Spans} : \A d \in RootData(n), w \in SUBSET Nat :
          MWr(a, d, w) \in TlpSet /\ MWr(a, d, w).kind = "MWr" /\ MWr(a, d, w).be = w
    BY WriteTlp
  <2> QED
    BY <2>1, <2>2, <2>3
<1>4. pcie_tlp_send_tlp(t, todo)
  BY <1>2a
<1> HIDE DEF t
<1>5. out = <<>> /\ Down = <<>> /\ Down \in Seq(TlpSet)
  BY <1>1, Sends DEF Inv, Clocks
<1>6. /\ out' \in Seq(TlpSet) /\ sent' \in Nat /\ Down' = Append(Down, t) /\ DownStream' /\ todo' = {}
      /\ out' = Append(out, t)
  BY <1>1, <1>3, <1>4, <1>5, SendsTlp
<1>7. Up' = Up /\ UpStream'
  BY <1>1, <1>6, KeepsUp
<1>8. /\ Pending(at, call, given, Down, Up, completions) /\ Dma(epReads, Down, Up)
      /\ Up \in Seq(TlpSet) /\ t \notin Req /\ t \notin CplDs
  BY <1>3, UpQueue DEF Inv, Protocol, Req, CplDs
<1>9. Pending(at', call', given', Down', Up', completions')
  <2>1. Pending(at, call, given, Append(Down, t), Up, completions)
    BY <1>3, <1>5, <1>8, PendingOthers
  <2> QED
    BY <1>1, <1>6, <1>7, <2>1, PendingElse
<1>10. Dma(epReads', Down', Up')
  BY <1>1, <1>3, <1>5, <1>6, <1>7, <1>8, DmaOthers
<1>11. Protocol'
  BY <1>1, <1>7, <1>9, <1>10, ProtocolNext DEF Inv, Protocol
<1>12. TypeOK'
  BY <1>1, <1>6 DEF Inv, TypeOK
<1>13. Clocks'
  BY <1>1, <1>6 DEF Inv, Clocks
<1>14. Enables'
  <2>1. out' = <<t>>
    BY <1>5, <1>6
  <2>2. \A i \in DOMAIN out' : out'[i].be = ByteEnables(p)
    BY <1>3, <2>1
  <2>3. call'.span = p
    BY <1>2a
  <2>4. ByteEnables(call'.span) = ByteEnables(p)
    BY <2>3
  <2> QED
    BY <2>2, <2>3, <2>4 DEF Enables, ByteEnables
<1> QED
  BY <1>1, <1>3, <1>6, <1>7, <1>11, <1>12, <1>13, <1>14 DEF Inv

-----------------------------------------------------------------------------
(* The invariant is inductive, and every step is one of the abstract       *)
(* specifications'                                                         *)

LEMMA StepInReset == Inv /\ endpoint_in_reset => Inv' /\ Down' = Down /\ Up' = Up
<1> SUFFICES ASSUME Inv, endpoint_in_reset PROVE Inv' /\ Down' = Down /\ Up' = Up
  OBVIOUS
<1>1. /\ "endpoint" \in todo /\ todo' = todo \ {"endpoint"} /\ (~wasReset \/ epSees.reset)
      /\ UNCHANGED <<rootSees, epSees, at, call, left, enable, wasReset, reset>>
      /\ UNCHANGED <<rx, out, sent, buf, completions, intx_mask, tlp_next_tag>>
      /\ UNCHANGED <<tx, ready, epBuf, epQueue, epSent, epReads, level, own, given>>
  BY DEF endpoint_in_reset, busVars, appVars, sendVars, recvVars, epVars
<1>2. ~wasReset
  BY <1>1, EpTurn DEF Inv, Clocks
<1>3. out = <<>> /\ "recv" \notin todo
  BY <1>2 DEF Inv, Clocks
<1>4. todo = {"endpoint", "root"} /\ todo' = {"root"} /\ at \notin {"idle", "finished"}
  BY <1>1, <1>3, EpTurn
<1>5. TypeOK'
  BY <1>1, <1>4 DEF Inv, TypeOK
<1>6. Clocks'
  BY <1>1, <1>2, <1>4 DEF Inv, Clocks
<1>7. Down' = Down /\ DownStream'
  BY <1>1, <1>3, KeepsDown
<1>8. Up' = Up /\ UpStream'
  BY <1>1, <1>4, KeepsUp
<1>9. Protocol'
  BY <1>1, <1>7, <1>8, ProtocolNext DEF Inv, Protocol
<1>10. Enables'
  BY <1>1 DEF Inv, Enables
<1> QED
  BY <1>5, <1>6, <1>7, <1>8, <1>9, <1>10 DEF Inv

(* A call that waits for its completion.                                   *)
Awaited == IF at = "await" THEN call ELSE None

DownStep ==
  \/ UNCHANGED <<Down, took>>
  \/ UNCHANGED Down /\ took' = None
  \/ Down # <<>> /\ Down' = Tail(Down) /\ took' = Head(Down)
  \/ UNCHANGED took /\ \E t \in TlpSet : Down' = Append(Down, t)

UpStep ==
  \/ UNCHANGED <<Up, handled>>
  \/ UNCHANGED Up /\ handled' = None
  \/ Up # <<>> /\ Up' = Tail(Up) /\ handled' = Head(Up)
  \/ UNCHANGED handled /\ \E t \in TlpSet : Up' = Append(Up, t)

CallStep ==
  \/ UNCHANGED <<Awaited, given, result>>
  \/ UNCHANGED <<Awaited, given>> /\ result' = None
  \/ Awaited = None /\ Awaited' \in Request /\ UNCHANGED <<given, result>>
  \/ /\ Awaited # None /\ given = None /\ given' \in Answer
     /\ Awaited.op = "write" => given'.data = Awaited.data
     /\ UNCHANGED <<Awaited, result>>
  \/ Awaited # None /\ given # None /\ result' = given /\ Awaited' = None /\ given' = None

LEMMA AwaitReturns ==
  ASSUME Inv, await_completion
  PROVE  CallStep /\ UNCHANGED <<took, handled>>
<1>1. /\ at = "await" /\ UNCHANGED <<took, handled>>
      /\ \/ UNCHANGED <<at, call, given, result>>
         \/ /\ completions[call.tag] # None
            /\ result' = [data |-> IF call.op = "write" THEN call.data
                                   ELSE IF completions[call.tag].kind = "CplD"
                                   THEN completions[call.tag].data ELSE Ones(call.n)]
            /\ at' = "idle" /\ given' = None
  BY DEF await_completion, Looping, Return, epVars
<1>2. CASE UNCHANGED <<at, call, given, result>>
  BY <1>1, <1>2 DEF CallStep, Awaited
<1>3. CASE /\ completions[call.tag] # None
           /\ result' = [data |-> IF call.op = "write" THEN call.data
                                  ELSE IF completions[call.tag].kind = "CplD"
                                  THEN completions[call.tag].data ELSE Ones(call.n)]
           /\ at' = "idle" /\ given' = None
  <2>1. Pending("await", call, given, Down, Up, completions)
    BY <1>1 DEF Inv, Protocol
  <2>2. completions[call.tag] \in Answering(call, given) /\ given \in Answer
    BY <1>3, <2>1, PendingReturns
  <2>3. call \in Request
    BY <2>1 DEF Pending
  <2>4. call # None /\ given # None
    BY <2>2, <2>3, NoneApart, Zenon DEF NoneApart
  <2>5. result' = given
    BY <1>3, <2>2 DEF Answering, GivenBy
  <2>6. Awaited = call /\ Awaited' = None
    BY <1>1, <1>3 DEF Awaited
  <2> QED
    BY <1>1, <1>3, <2>4, <2>5, <2>6 DEF CallStep
<1> QED
  BY <1>1, <1>2, <1>3

(* Before or after a call that waits, nothing has been given.              *)
LEMMA NotAwaited ==
  ASSUME Inv, at # "await", at' # "await", given' \in {given, None}, UNCHANGED result
  PROVE  CallStep
<1>1. given = None
  BY PendingElse DEF Inv, Protocol
<1>2. Awaited = None /\ Awaited' = None
  BY DEF Awaited
<1> QED
  BY <1>1, <1>2 DEF CallStep

LEMMA Step == Inv /\ [Next]_vars => Inv' /\ DownStep /\ UpStep /\ CallStep
<1> SUFFICES ASSUME Inv, [Next]_vars PROVE Inv' /\ DownStep /\ UpStep /\ CallStep
  OBVIOUS
<1>1. CASE run_run
  <2>1. /\ UNCHANGED <<at, call, given, took>> /\ result' = None /\ handled' = None
    BY <1>1 DEF run_run, epVars
  <2> QED
    BY <1>1, <2>1, StepRun DEF DownStep, UpStep, CallStep, Awaited
<1>2. CASE do_send_tlp_raw
  <2>1. UNCHANGED <<at, call, given, result, took, handled>>
    BY <1>2 DEF do_send_tlp_raw, appVars, recvVars, epVars
  <2> QED
    BY <1>2, <2>1, StepSend DEF DownStep, UpStep, CallStep, Awaited
<1>3. CASE pcie_tlp_recv_tlp
  <2>1. UNCHANGED <<at, call, given, result, took, handled>>
    BY <1>3 DEF pcie_tlp_recv_tlp, Receiving, appVars, epVars
  <2> QED
    BY <1>3, <2>1, StepReceive DEF DownStep, UpStep, CallStep, Awaited
<1>4. CASE complete_recv_tlp
  <2>1. UNCHANGED <<at, call, given, result, took>>
    BY <1>4 DEF complete_recv_tlp, Receiving, appVars, epVars
  <2> QED
    BY <1>4, <2>1, StepComplete DEF DownStep, UpStep, CallStep, Awaited
<1>5. CASE await_completion
  BY <1>5, StepAwait, AwaitReturns DEF DownStep, UpStep
<1>6. CASE write_sent
  <2>1. at = "write" /\ at' = "idle" /\ given' = None /\ UNCHANGED <<result, took, handled>>
    BY <1>6 DEF write_sent, Looping, Return, epVars
  <2> QED
    BY <1>6, <2>1, StepWritten, NotAwaited DEF DownStep, UpStep
<1>7. CASE wait_clock
  <2>1. /\ at \in {"wait", "reset"} /\ at' \in {"idle", "wait", "reset"} /\ given' \in {given, None}
        /\ UNCHANGED <<result, took, handled>>
    BY <1>7 DEF wait_clock, Looping, Return, epVars
  <2> QED
    BY <1>7, <2>1, StepWaitClock, NotAwaited DEF DownStep, UpStep
<1>8. CASE simbus_pcie_tlp_read \/ simbus_pcie_tlp_cfg_read32 \/ simbus_pcie_tlp_cfg_write
  <2>1. /\ Inv' /\ Up' = Up /\ \E t \in TlpSet : Down' = Append(Down, t)
        /\ at = "idle" /\ at' = "await" /\ call' \in Request
        /\ UNCHANGED <<given, result, took, handled>>
    BY <1>8, StepRead
  <2>2. Awaited = None /\ Awaited' \in Request
    BY <2>1 DEF Awaited
  <2> QED
    BY <2>1, <2>2 DEF DownStep, UpStep, CallStep
<1>9. CASE simbus_pcie_tlp_write
  <2>1. /\ Inv' /\ Up' = Up /\ \E t \in TlpSet : Down' = Append(Down, t)
        /\ at = "idle" /\ at' = "write" /\ UNCHANGED <<given, result, took, handled>>
    BY <1>9, StepWrite
  <2> QED
    BY <2>1, NotAwaited DEF DownStep, UpStep
<1>10. CASE simbus_pcie_tlp_wait \/ simbus_pcie_tlp_reset \/ simbus_pcie_tlp_end_simulation
  <2>1. /\ at = "idle" /\ at' \in {"wait", "reset", "finished"}
        /\ UNCHANGED <<given, result, took, handled>>
    BY <1>10 DEF simbus_pcie_tlp_wait, simbus_pcie_tlp_reset, simbus_pcie_tlp_end_simulation,
                 Calling, recvVars, epVars
  <2>2. Inv' /\ Down' = Down /\ Up' = Up
    BY <1>10, StepWait, StepReset, StepEnd
  <2> QED
    BY <2>1, <2>2, NotAwaited DEF DownStep, UpStep
<1>11. CASE endpoint
  <2>1. /\ Inv'
        /\ \/ Down # <<>> /\ Down' = Tail(Down) /\ took' = Head(Down)
           \/ Down' = Down /\ took' = None
        /\ Up' = Up \/ \E a \in TlpSet : Up' = Append(Up, a)
        /\ \/ given' = given
           \/ /\ at = "await" /\ given = None /\ given' \in Answer
              /\ call.op = "write" => given'.data = call.data
        /\ UNCHANGED <<handled, result, at, call>>
    BY <1>11, StepEndpoint
  <2>2. CASE given' = given
    BY <2>1, <2>2 DEF DownStep, UpStep, CallStep, Awaited
  <2>3. CASE /\ at = "await" /\ given = None /\ given' \in Answer
             /\ call.op = "write" => given'.data = call.data
    <3>1. call # None
      <4>1. call \in Request
        BY <2>3 DEF Inv, Protocol, Pending
      <4> QED
        BY <4>1, NoneApart, Zenon DEF NoneApart
    <3>2. CallStep
      BY <2>1, <2>3, <3>1 DEF CallStep, Awaited
    <3> QED
      BY <2>1, <3>2 DEF DownStep, UpStep
  <2> QED
    BY <2>1, <2>2, <2>3
<1>12. CASE endpoint_in_reset
  <2>1. UNCHANGED <<at, call, given, result, took, handled>>
    BY <1>12 DEF endpoint_in_reset, appVars, recvVars, epVars
  <2> QED
    BY <1>12, <2>1, StepInReset DEF DownStep, UpStep, CallStep, Awaited
<1>13. CASE UNCHANGED vars
  <2>1. /\ UNCHANGED <<rootSees, epSees, todo, at, call, left, enable, wasReset, reset, result>>
        /\ UNCHANGED <<rx, out, sent, buf, completions, intx_mask, handled, tlp_next_tag>>
        /\ UNCHANGED <<tx, ready, epBuf, epQueue, epSent, epReads, level, own, took, given>>
    BY <1>13 DEF vars, busVars, appVars, sendVars, recvVars, epVars
  <2>2. Down' = Down /\ Up' = Up
    BY <2>1 DEF Down, Up
  <2>3. TypeOK' /\ Clocks' /\ Enables'
    BY <2>1 DEF Inv, TypeOK, Clocks, Enables
  <2>4. DownStream' /\ UpStream'
    BY <2>1 DEF Inv, DownStream, UpStream, TakenByEp, Sending, Passed, Arriving
  <2>5. Protocol'
    BY <2>1, <2>2, ProtocolNext DEF Inv, Protocol
  <2> QED
    BY <2>1, <2>2, <2>3, <2>4, <2>5 DEF Inv, DownStep, UpStep, CallStep, Awaited
<1> QED
  BY <1>1, <1>2, <1>3, <1>4, <1>5, <1>6, <1>7, <1>8, <1>9, <1>10, <1>11, <1>12, <1>13
     DEF Next, RootLibrary, Application, Stopped

-----------------------------------------------------------------------------
(* The theorems                                                            *)

(* The invariant: every state that the library, the server and the         *)
(* endpoint reach satisfies it.                                            *)
THEOREM Invariance == Spec => []Inv
<1>1. Inv /\ [Next]_vars => Inv'
  BY Step
<1> QED
  BY InvInit, <1>1, PTL DEF Spec

(* The state of library, server and endpoint is of its type; among other   *)
(* things, every tag that comes up has its completion slot.                *)
THEOREM TypeCorrect == Spec => []TypeOK
<1>1. Inv => TypeOK
  BY DEF Inv
<1> QED
  BY <1>1, Invariance, PTL

(* choose_tag: a completion slot is in use only by the call whose tag it   *)
(* is, so that the assertion of complete_recv_tlp that the slot is free    *)
(* holds, whatever number of tags there is.                                *)
THEOREM OwnCompletionHolds == Spec => []OwnCompletion
<1>1. Inv => OwnCompletion
  <2> SUFFICES ASSUME Inv, NEW tag \in DOMAIN completions, completions[tag] # None
               PROVE  at = "await" /\ call.tag = tag /\ completions[tag] # Garbled
    BY DEF OwnCompletion
  <2>1. Pending(at, call, given, Down, Up, completions)
    BY DEF Inv, Protocol
  <2>2. tag \in 0..(Tags - 1)
    BY DEF Inv, TypeOK
  <2>3. at = "await" /\ Replied(call, given, Down, Up, completions)
    BY <2>1, <2>2 DEF Pending, Asking, Replying, Lost, Holding
  <2>4. call.tag = tag /\ completions[tag] \in Comp
    BY <2>2, <2>3 DEF Replied, Holding, Answering
  <2>5. Garbled.kind = "garbled"
    BY Fields DEF Garbled
  <2> QED
    BY <2>3, <2>4, <2>5 DEF Comp
<1> QED
  BY <1>1, Invariance, PTL

LEMMA CountOne ==
  ASSUME NEW q, NEW K, One(q, K)
  PROVE  Cardinality({i \in DOMAIN q : q[i] \in K}) = 1
<1>1. PICK i \in DOMAIN q : q[i] \in K /\ \A j \in DOMAIN q : q[j] \in K => j = i
  BY DEF One
<1>2. {j \in DOMAIN q : q[j] \in K} = {i}
  BY <1>1
<1> QED
  BY <1>2, FS_Singleton

LEMMA CountZero ==
  ASSUME NEW q, NEW K, Zero(q, K)
  PROVE  Cardinality({i \in DOMAIN q : q[i] \in K}) = 0
<1>1. {j \in DOMAIN q : q[j] \in K} = {}
  BY DEF Zero
<1> QED
  BY <1>1, FS_EmptySet

(* complete_recv_tlp: every read of the endpoint gets one answer, and no   *)
(* answer is sent that no read asked for.                                  *)
THEOREM DmaAnsweredOnceHolds == Spec => []DmaAnsweredOnce
<1>1. Inv => DmaAnsweredOnce
  <2> SUFFICES ASSUME Inv PROVE DmaAnsweredOnce
    OBVIOUS
  <2> DEFINE Asks(r) == {i \in DOMAIN Up : Up[i] = r}
             Answers2(r) == {i \in DOMAIN Down : Down[i].kind = "CplD" /\ Down[i].tag = r.tag
                                                 /\ Down[i].n = r.n}
  <2>1. Dma(epReads, Down, Up) /\ Down \in Seq(TlpSet)
    BY Sends DEF Inv, Protocol
  <2>2. \A i \in DOMAIN Down : Down[i] \in TlpSet
    BY <2>1
  <2>3. ASSUME NEW r \in epReads
        PROVE  Cardinality(Asks(r)) + Cardinality(Answers2(r)) = 1
    <3>1. Asks(r) = {i \in DOMAIN Up : Up[i] \in {r}}
      OBVIOUS
    <3>2. Answers2(r) = {i \in DOMAIN Down : Down[i] \in For(r)}
      BY <2>2 DEF For, CplDs
    <3> HIDE DEF Asks, Answers2
    <3>3. CASE One(Up, {r}) /\ Zero(Down, For(r))
      BY <3>1, <3>2, <3>3, CountOne, CountZero
    <3>4. CASE Zero(Up, {r}) /\ One(Down, For(r))
      BY <3>1, <3>2, <3>4, CountOne, CountZero
    <3> QED
      BY <2>1, <3>3, <3>4 DEF Dma
  <2>4. ASSUME NEW i \in DOMAIN Down, Down[i].kind = "CplD"
        PROVE  \E r \in epReads : i \in Answers2(r)
    <3>1. Down[i] \in CplDs /\ Down[i] \notin Orphans(epReads)
      BY <2>1, <2>2, <2>4 DEF Dma, Zero, CplDs
    <3> QED
      BY <3>1 DEF Orphans, For, CplDs
  <2> QED
    BY <2>3, <2>4 DEF DmaAnsweredOnce
<1> QED
  BY <1>1, Invariance, PTL

(* __pcie_tlp_send_tlp: when a call returns, every read that the library   *)
(* has received is answered.                                               *)
THEOREM AnsweredBeforeReturnHolds == Spec => []AnsweredBeforeReturn
<1>1. Inv => AnsweredBeforeReturn
  <2> SUFFICES ASSUME Inv, at = "idle", NEW r \in epReads PROVE \E i \in DOMAIN Up : Up[i] = r
    BY DEF AnsweredBeforeReturn
  <2>1. Down = <<>>
    BY Sends DEF Inv, Clocks
  <2>2. ~One(Down, For(r))
    BY <2>1 DEF One
  <2> QED
    BY <2>2 DEF Inv, Protocol, Dma, One
<1> QED
  BY <1>1, Invariance, PTL

(* process_Assert_INTx, process_Deassert_INTx: the interrupt mask follows  *)
(* the endpoint's interrupts as fast as their messages arrive.             *)
THEOREM IntxFollowsHolds == Spec => []IntxFollows
<1>1. Inv => IntxFollows
  <2> SUFFICES ASSUME Inv, NEW x \in Intx
               PROVE  LET about == {i \in DOMAIN Up : Up[i].kind \in {"Assert", "Deassert"}
                                                      /\ Up[i].tag = x}
                          last  == CHOOSE i \in about : \A j \in about : j <= i
                      IN  x \in level <=> IF about = {} THEN x \in intx_mask
                                          ELSE Up[last].kind = "Assert"
    BY DEF IntxFollows
  <2> DEFINE about == {i \in DOMAIN Up : Up[i].kind \in {"Assert", "Deassert"} /\ Up[i].tag = x}
             last  == CHOOSE i \in about : \A j \in about : j <= i
  <2>1. Follows(x, level, intx_mask, Up) /\ Up \in Seq(TlpSet)
    BY UpQueue DEF Inv, Protocol
  <2>2. /\ about = {i \in DOMAIN Up : Up[i] \in About(x)}
        /\ about \subseteq Int
    BY <2>1 DEF About
  <2> HIDE DEF about
  <2>3. x \in level <=> IF about = {} THEN x \in intx_mask ELSE Up[last].kind = "Assert"
    <3>1. CASE Zero(Up, About(x)) /\ (x \in level <=> x \in intx_mask)
      <4>1. about = {}
        BY <2>2, <3>1 DEF Zero
      <4> QED
        BY <3>1, <4>1
    <3>2. CASE ~(Zero(Up, About(x)) /\ (x \in level <=> x \in intx_mask))
      <4>1. PICK i \in DOMAIN Up : /\ Up[i] \in About(x) /\ (x \in level <=> Up[i].kind = "Assert")
                                   /\ \A j \in DOMAIN Up : Up[j] \in About(x) => j <= i
        BY <2>1, <3>2 DEF Follows
      <4>2. i \in about /\ \A j \in about : j <= i
        BY <2>2, <4>1
      <4>3. last \in about /\ \A j \in about : j <= last
        BY <4>2
      <4> HIDE DEF last
      <4>4. last = i
        BY <2>2, <4>2, <4>3
      <4>5. about # {}
        BY <4>2
      <4> QED
        BY <4>1, <4>4, <4>5
    <3> QED
      BY <3>1, <3>2
  <2> QED
    BY <2>3 DEF about
<1> QED
  BY <1>1, Invariance, PTL

LEMMA SpanBytes ==
  ASSUME NEW p \in Spans, p.n = 1 => p.off = 0
  PROVE  ByteEnables(p) = p.off..(p.off + p.len - 1)
<1>1. /\ p.n \in Nat \ {0} /\ p.off \in 0..3 /\ p.len \in Nat \ {0}
      /\ p.off + p.len \in (4 * p.n - 3)..(4 * p.n)
  BY PcieConstantsOK DEF PcieConstantsOK
<1> DEFINE olen == IF (p.off + p.len) % 4 = 0 THEN 4 ELSE (p.off + p.len) % 4
           end == IF p.n = 1 THEN p.len ELSE 4 * (p.n - 1) + olen
<1>2. \A n \in Nat, k \in 1..4 : (4 * n + k) % 4 = IF k = 4 THEN 0 ELSE k
  OBVIOUS
<1>3. p.off + p.len - 4 * (p.n - 1) \in 1..4 /\ p.n - 1 \in Nat
  BY <1>1
<1>4. olen = p.off + p.len - 4 * (p.n - 1)
  <2> DEFINE k == p.off + p.len - 4 * (p.n - 1)
  <2>1. k \in 1..4 /\ 4 * (p.n - 1) + k = p.off + p.len
    BY <1>1, <1>3
  <2>2. (p.off + p.len) % 4 = IF k = 4 THEN 0 ELSE k
    BY <1>2, <1>3, <2>1
  <2> HIDE DEF k
  <2>3. olen = k
    BY <2>1, <2>2
  <2> QED
    BY <2>3 DEF k
<1>5. end = p.off + p.len
  BY <1>1, <1>4
<1>6. ByteEnables(p) = {i \in 0..(4 * p.n - 1) : i >= p.off /\ i < end}
  BY DEF ByteEnables, AllBytes
<1> HIDE DEF end
<1> QED
  BY <1>1, <1>5, <1>6

(* simbus_pcie_tlp_write enables the bytes that the caller named and no    *)
(* others, in a write of any length, but for a write of one word that      *)
(* starts inside it: there the code's two masks meet in the same word and  *)
(* the second is not shifted (see PcieBytes.cfg).                          *)
THEOREM BytesEnabledHolds ==
  ASSUME \A p \in Spans : p.n = 1 => p.off = 0
  PROVE  Spec => []BytesEnabled
<1>1. Inv => BytesEnabled
  BY SpanBytes DEF Inv, Enables, BytesEnabled
<1> QED
  BY <1>1, Invariance, PTL

-----------------------------------------------------------------------------
(* Refinement                                                              *)

LEMMA AppendPuts ==
  ASSUME NEW S, NEW q \in Seq(S), NEW t \in S
  PROVE  /\ Len(Append(q, t)) = Len(q) + 1 /\ SubSeq(Append(q, t), 1, Len(q)) = q
         /\ Append(q, t)[Len(Append(q, t))] \in S
<1>1. /\ Append(q, t) \in Seq(S) /\ Len(Append(q, t)) = Len(q) + 1 /\ Len(q) \in Nat
      /\ Append(q, t)[Len(q) + 1] = t /\ \A i \in 1..Len(q) : Append(q, t)[i] = q[i]
  BY AppendItems
<1>2. SubSeq(Append(q, t), 1, Len(q)) = q
  <2>1. \A i \in 1..Len(q) : Append(q, t)[i] \in S
    BY <1>1
  <2>2. /\ SubSeq(Append(q, t), 1, Len(q)) \in Seq(S)
        /\ Len(SubSeq(Append(q, t), 1, Len(q))) = Len(q)
        /\ \A i \in 1..Len(q) : SubSeq(Append(q, t), 1, Len(q))[i] = Append(q, t)[i]
    BY <1>1, <2>1, SubSeqProperties
  <2> QED
    BY <1>1, <2>2, SeqEqual
<1> QED
  BY <1>1, <1>2

(* simbus_pcie_tlp_tlp.c: the TLPs of the calls and of the answers sent    *)
(* from within them reach the endpoint whole, once and in order.           *)
THEOREM DownInOrderHolds == Spec => DownInOrder
<1>1. Init => DownLink!Init
  BY DEF Init, DownLink!Init, Down
<1>2. Inv /\ [Next]_vars => [DownLink!Next]_(DownLink!vars)
  <2> SUFFICES ASSUME Inv, [Next]_vars PROVE [DownLink!Next]_(DownLink!vars)
    OBVIOUS
  <2>1. DownStep /\ Down \in Seq(TlpSet)
    BY Step, Sends
  <2>2. CASE UNCHANGED <<Down, took>>
    BY <2>2 DEF DownLink!vars
  <2>3. CASE UNCHANGED Down /\ took' = None
    BY <2>3 DEF DownLink!Next, DownLink!Forget
  <2>4. CASE Down # <<>> /\ Down' = Tail(Down) /\ took' = Head(Down)
    BY <2>4 DEF DownLink!Next, DownLink!Take
  <2>5. CASE UNCHANGED took /\ \E t \in TlpSet : Down' = Append(Down, t)
    BY <2>1, <2>5, AppendPuts DEF DownLink!Next, DownLink!Put
  <2> QED
    BY <2>1, <2>2, <2>3, <2>4, <2>5 DEF DownStep
<1> QED
  BY <1>1, <1>2, Invariance, PTL DEF Spec, DownInOrder, DownLink!Spec

(* simbus_pcie_tlp_tlp.c: the endpoint's TLPs are handled whole, once and  *)
(* in order, also those that arrive while an answer is being sent.         *)
THEOREM UpInOrderHolds == Spec => UpInOrder
<1>1. Init => UpLink!Init
  BY DEF Init, UpLink!Init, Up
<1>2. Inv /\ [Next]_vars => [UpLink!Next]_(UpLink!vars)
  <2> SUFFICES ASSUME Inv, [Next]_vars PROVE [UpLink!Next]_(UpLink!vars)
    OBVIOUS
  <2>1. UpStep /\ Up \in Seq(TlpSet)
    BY Step, UpQueue
  <2>2. CASE UNCHANGED <<Up, handled>>
    BY <2>2 DEF UpLink!vars
  <2>3. CASE UNCHANGED Up /\ handled' = None
    BY <2>3 DEF UpLink!Next, UpLink!Forget
  <2>4. CASE Up # <<>> /\ Up' = Tail(Up) /\ handled' = Head(Up)
    BY <2>4 DEF UpLink!Next, UpLink!Take
  <2>5. CASE UNCHANGED handled /\ \E t \in TlpSet : Up' = Append(Up, t)
    BY <2>1, <2>5, AppendPuts DEF UpLink!Next, UpLink!Put
  <2> QED
    BY <2>1, <2>2, <2>3, <2>4, <2>5 DEF UpStep
<1> QED
  BY <1>1, <1>2, Invariance, PTL DEF Spec, UpInOrder, UpLink!Spec

(* simbus_pcie_tlp.c: a read or configuration access of the application    *)
(* makes one access of the device, and returns what that access gave.      *)
THEOREM OneAccessPerCallHolds == Spec => OneAccessPerCall
<1>1. Init => Abstract!Init
  BY DEF Init, Abstract!Init
<1>2. Inv /\ [Next]_vars => [Abstract!Next]_(Abstract!vars)
  <2> SUFFICES ASSUME Inv, [Next]_vars PROVE [Abstract!Next]_(Abstract!vars)
    OBVIOUS
  <2>1. CallStep
    BY Step
  <2>2. CASE UNCHANGED <<Awaited, given, result>>
    BY <2>2 DEF Abstract!vars, Awaited
  <2>3. CASE UNCHANGED <<Awaited, given>> /\ result' = None
    BY <2>3 DEF Abstract!Next, Abstract!Forget, Awaited
  <2>4. CASE Awaited = None /\ Awaited' \in Request /\ UNCHANGED <<given, result>>
    BY <2>4 DEF Abstract!Next, Abstract!Call, Awaited
  <2>5. CASE /\ Awaited # None /\ given = None /\ given' \in Answer
             /\ Awaited.op = "write" => given'.data = Awaited.data
             /\ UNCHANGED <<Awaited, result>>
    BY <2>5 DEF Abstract!Next, Abstract!Access, Awaited
  <2>6. CASE Awaited # None /\ given # None /\ result' = given /\ Awaited' = None /\ given' = None
    BY <2>6 DEF Abstract!Next, Abstract!Return, Awaited
  <2> QED
    BY <2>1, <2>2, <2>3, <2>4, <2>5, <2>6 DEF CallStep
<1> QED
  BY <1>1, <1>2, Invariance, PTL DEF Spec, OneAccessPerCall, Abstract!Spec
=============================================================================
