------------------------- MODULE BatchWriterProofs -------------------------
(***************************************************************************)
(* The ClickHouse writer, for every channel size and any number of rows:   *)
(* it implements the row log, and its counters are honest.                 *)
(***************************************************************************)
EXTENDS BatchWriter, SequenceTheorems, TLAPS

(* The theorems about the row log. *)
RL == INSTANCE RowLogProofs WITH pending <- Pending

Flushing == {"flush", "lastFlush"}

(* A flush has rows, and rows are in a batch only while it is flushed: nothing
   is overwritten when doFlush takes the next buffer. *)
BatchInv == pc \in Flushing <=> batch # <<>>

----------------------------------------------------------------------------
(* Sequences of rows *)

(* Receiving moves a row from the head of the channel to the end of the buffer,
   and leaves the order of the two together as it is. *)
LEMMA MoveHead ==
  ASSUME NEW S, NEW s \in Seq(S), NEW t \in Seq(S), t # <<>>
  PROVE  /\ Append(s, Head(t)) \in Seq(S) /\ Tail(t) \in Seq(S)
         /\ Append(s, Head(t)) \o Tail(t) = s \o t
<1>1. Head(t) \in S /\ Tail(t) \in Seq(S) /\ Len(Tail(t)) = Len(t) - 1
      /\ \A i \in 1 .. Len(Tail(t)) : Tail(t)[i] = t[i + 1]
  BY HeadTailProperties
<1>2. Head(t) = t[1]
  OBVIOUS
<1> DEFINE a == Append(s, Head(t))
           l == a \o Tail(t)
           r == s \o t
<1>3. a \in Seq(S) /\ Len(a) = Len(s) + 1
      /\ (\A i \in 1 .. Len(s) : a[i] = s[i]) /\ a[Len(s) + 1] = t[1]
  BY <1>1, <1>2, AppendProperties
<1> HIDE DEF a
<1>4. /\ l \in Seq(S) /\ Len(l) = Len(a) + Len(Tail(t))
      /\ \A i \in 1 .. Len(a) + Len(Tail(t)) :
           l[i] = IF i <= Len(a) THEN a[i] ELSE Tail(t)[i - Len(a)]
  BY <1>1, <1>3, ConcatProperties
<1>5. /\ r \in Seq(S) /\ Len(r) = Len(s) + Len(t)
      /\ \A i \in 1 .. Len(s) + Len(t) :
           r[i] = IF i <= Len(s) THEN s[i] ELSE t[i - Len(s)]
  BY ConcatProperties
<1>6. Len(s) \in Nat /\ Len(t) \in Nat /\ Len(t) > 0
  OBVIOUS
<1> HIDE DEF l, r
<1>7. Len(l) = Len(r)
  BY <1>1, <1>3, <1>4, <1>5, <1>6
<1>8. ASSUME NEW i \in 1 .. Len(r) PROVE l[i] = r[i]
  <2>1. CASE i <= Len(s)
    <3>1. i \in 1 .. Len(s) /\ i <= Len(a) /\ i \in 1 .. Len(a) + Len(Tail(t))
      BY <1>1, <1>3, <1>5, <1>6, <2>1
    <3> QED BY <1>3, <1>4, <1>5, <2>1, <3>1
  <2>2. CASE i = Len(s) + 1
    <3>1. i <= Len(a) /\ ~(i <= Len(s)) /\ i - Len(s) = 1
          /\ i \in 1 .. Len(a) + Len(Tail(t))
      BY <1>1, <1>3, <1>5, <1>6, <2>2
    <3> QED BY <1>3, <1>4, <1>5, <2>2, <3>1
  <2>3. CASE i > Len(s) + 1
    <3>1. ~(i <= Len(a)) /\ ~(i <= Len(s)) /\ i \in 1 .. Len(a) + Len(Tail(t))
          /\ i - Len(a) \in 1 .. Len(Tail(t)) /\ (i - Len(a)) + 1 = i - Len(s)
      BY <1>1, <1>3, <1>5, <1>6, <2>3
    <3> QED BY <1>1, <1>4, <1>5, <3>1
  <2> QED BY <1>6, <2>1, <2>2, <2>3
<1>9. l = r
  BY <1>4, <1>5, <1>7, <1>8, SeqEqual
<1> QED BY <1>1, <1>3, <1>9 DEF l, r, a

(* The rows of two sequences put together. *)
LEMMA RowsOfConcat ==
  ASSUME NEW s \in RowSeq, NEW t \in RowSeq
  PROVE  RowsOf(s \o t) = RowsOf(s) \cup RowsOf(t)
<1> DEFINE u == s \o t
<1>1. /\ Len(u) = Len(s) + Len(t)
      /\ \A i \in 1 .. Len(s) + Len(t) :
           u[i] = IF i <= Len(s) THEN s[i] ELSE t[i - Len(s)]
  BY ConcatProperties DEF RowSeq
<1>2. Len(s) \in Nat /\ Len(t) \in Nat
  BY DEF RowSeq
<1> HIDE DEF u
<1>3. ASSUME NEW i \in 1 .. Len(u) PROVE u[i] \in RowsOf(s) \cup RowsOf(t)
  <2>1. CASE i <= Len(s)
    <3>1. i \in 1 .. Len(s) /\ i \in 1 .. Len(s) + Len(t)
      BY <1>1, <1>2, <2>1
    <3> QED BY <1>1, <2>1, <3>1 DEF RowsOf
  <2>2. CASE ~(i <= Len(s))
    <3>1. i - Len(s) \in 1 .. Len(t) /\ i \in 1 .. Len(s) + Len(t)
      BY <1>1, <1>2, <2>2
    <3> QED BY <1>1, <2>2, <3>1 DEF RowsOf
  <2> QED BY <2>1, <2>2
<1>4. ASSUME NEW i \in 1 .. Len(s) PROVE s[i] \in RowsOf(u)
  <2>1. i \in 1 .. Len(u) /\ i <= Len(s) /\ i \in 1 .. Len(s) + Len(t)
    BY <1>1, <1>2
  <2> QED BY <1>1, <2>1 DEF RowsOf
<1>5. ASSUME NEW i \in 1 .. Len(t) PROVE t[i] \in RowsOf(u)
  <2>1. /\ i + Len(s) \in 1 .. Len(u) /\ ~(i + Len(s) <= Len(s))
        /\ i + Len(s) \in 1 .. Len(s) + Len(t) /\ (i + Len(s)) - Len(s) = i
    BY <1>1, <1>2
  <2>2. u[i + Len(s)] = t[i]
    BY <1>1, <2>1
  <2> QED BY <2>1, <2>2 DEF RowsOf
<1>6. RowsOf(u) = RowsOf(s) \cup RowsOf(t)
  BY <1>3, <1>4, <1>5 DEF RowsOf
<1> QED BY <1>6 DEF u

(* Three sequences, in which order ever they are put together. *)
LEMMA RowsAssociate ==
  ASSUME NEW a \in RowSeq, NEW b \in RowSeq, NEW c \in RowSeq
  PROVE  /\ a \o b \o c = a \o (b \o c)
         /\ RowsOf(a \o b \o c) = RowsOf(a) \cup RowsOf(b) \cup RowsOf(c)
<1>1. a \o b \o c = a \o (b \o c)
  <2> DEFINE S == 1 .. MaxRows
  <2>1. a \in Seq(S) /\ b \in Seq(S) /\ c \in Seq(S)
    BY DEF RowSeq
  <2> HIDE DEF S
  <2>2. \A s, t, u \in Seq(S) : (s \o t) \o u = s \o (t \o u)
    BY ConcatAssociative
  <2> QED BY <2>1, <2>2, Zenon
<1> DEFINE d == a \o b
<1>2. d \in RowSeq
  BY ConcatProperties DEF RowSeq
<1>3. RowsOf(d) = RowsOf(a) \cup RowsOf(b)
  BY RowsOfConcat
<1> HIDE DEF d
<1>4. RowsOf(d \o c) = RowsOf(d) \cup RowsOf(c)
  BY <1>2, RowsOfConcat
<1>5. RowsOf(a \o b \o c) = RowsOf(a) \cup RowsOf(b) \cup RowsOf(c)
  BY <1>3, <1>4 DEF d
<1> QED BY <1>1, <1>5

(* The rows of a sequence that has grown by one. *)
LEMMA RowsOfAppend ==
  ASSUME NEW s \in RowSeq, NEW e \in 1 .. MaxRows
  PROVE  RowsOf(Append(s, e)) = RowsOf(s) \cup {e}
<1> DEFINE t == Append(s, e)
<1>1. /\ Len(t) = Len(s) + 1 /\ Len(s) \in Nat
      /\ \A i \in 1 .. Len(s) : t[i] = s[i]
      /\ t[Len(s) + 1] = e
  BY AppendProperties DEF RowSeq
<1> HIDE DEF t
<1>2. \A i : i \in 1 .. Len(t) <=> i \in 1 .. Len(s) \/ i = Len(s) + 1
  BY <1>1
<1>3. RowsOf(t) = RowsOf(s) \cup {e}
  BY <1>1, <1>2 DEF RowsOf
<1> QED BY <1>3 DEF t

----------------------------------------------------------------------------
(* Type correctness *)

(* Every step keeps the types, and batches where they belong. *)
LEMMA TypeStep ==
  ASSUME TypeOK, BatchInv, [Next]_vars
  PROVE  TypeOK' /\ BatchInv'
<1> USE WriterAssumption DEF TypeOK, BatchInv, Flushing
<1>1. CASE Push
  <2>1. pushed' \in 0 .. MaxRows /\ pushed' \in 1 .. MaxRows
    BY <1>1 DEF Push
  <2>2. ch' \in RowSeq /\ Len(ch') = Len(ch) + 1
    BY <1>1, <2>1, AppendProperties DEF Push, RowSeq
  <2>3. Len(ch') <= ChannelSize
    <3>1. Len(ch) \in Nat /\ ~(Len(ch) >= ChannelSize)
      BY <1>1 DEF Push, ChannelFull, RowSeq
    <3> QED BY <2>2, <3>1
  <2> QED BY <1>1, <2>1, <2>2, <2>3 DEF Push
<1>2. CASE PushDropped
  BY <1>2 DEF PushDropped
<1>3. CASE Receive \/ Drain
  <2>1. ch # <<>> /\ buf' = Append(buf, Head(ch)) /\ ch' = Tail(ch)
    BY <1>3 DEF Receive, Drain, Received
  <2>2. buf' \in RowSeq /\ ch' \in RowSeq
    BY <2>1, MoveHead DEF RowSeq
  <2>3. Len(ch') <= ChannelSize
    <3>1. Len(ch') = Len(ch) - 1 /\ Len(ch) \in Nat
      BY <2>1 DEF RowSeq
    <3> QED BY <3>1
  <2> QED BY <1>3, <2>2, <2>3 DEF Receive, Drain
<1>4. CASE TickerFires \/ DrainFlush
  BY <1>4 DEF TickerFires, DrainFlush, TakeBuffer, RowSeq
<1>5. CASE SeeCancel \/ DrainEmpty \/ Cancel
  BY <1>5 DEF SeeCancel, DrainEmpty, Cancel
<1>6. stored \o batch \in RowSeq /\ <<>> \in RowSeq /\ Len(batch) \in Nat
  BY ConcatProperties DEF RowSeq
<1>7. CASE FlushSucceeds
  BY <1>6, <1>7 DEF FlushSucceeds, AfterFlush
<1>8. CASE FlushFails \/ FlushUnacknowledged
  <2>1. stored' \in RowSeq
    BY <1>6, <1>8 DEF FlushFails, FlushUnacknowledged
  <2>2. GiveUpBatch /\ FlushCanFail
    BY <1>8 DEF FlushFails, FlushUnacknowledged
  <2> QED BY <1>6, <2>1, <2>2 DEF GiveUpBatch, FlushCanFail, AfterFlush
<1>9. CASE UNCHANGED vars
  BY <1>9 DEF vars
<1> QED BY <1>1, <1>2, <1>3, <1>4, <1>5, <1>7, <1>8, <1>9 DEF Next, FlushLoop

(* The types, and where batches are, as an invariant. *)
LEMMA WriterTypes == Spec => [](TypeOK /\ BatchInv)
<1>1. Init => TypeOK /\ BatchInv
  <2>1. <<>> \in RowSeq /\ Len(<<>>) = 0
    BY DEF RowSeq
  <2>2. 0 \in 0 .. MaxRows /\ 0 <= ChannelSize /\ 0 \in Nat
    BY WriterAssumption
  <2>3. Init => BatchInv
    BY DEF Init, BatchInv, Flushing
  <2>4. Init => Len(ch) <= ChannelSize
    BY <2>1, <2>2 DEF Init
  <2> QED BY <2>1, <2>2, <2>3, <2>4, Zenon DEF Init, TypeOK
<1> QED BY <1>1, TypeStep, PTL DEF Spec

(* The channel never holds more rows than it has room for, and only pushed rows
   travel. *)
THEOREM TypeCorrect == Spec => []TypeOK
  BY WriterTypes, PTL

----------------------------------------------------------------------------
(* Refinement of the row log *)

(* What is pending, as one sequence. *)
LEMMA PendingType ==
  ASSUME TypeOK
  PROVE  /\ Pending \in RowSeq
         /\ batch \o buf \in RowSeq
         /\ Len(Pending) = Len(batch) + Len(buf) + Len(ch)
         /\ Len(batch) \in Nat /\ Len(buf) \in Nat /\ Len(ch) \in Nat
<1>1. batch \o buf \in RowSeq /\ Len(batch \o buf) = Len(batch) + Len(buf)
  BY ConcatProperties DEF TypeOK, RowSeq
<1>2. Pending \in RowSeq /\ Len(Pending) = Len(batch \o buf) + Len(ch)
  BY <1>1, ConcatProperties DEF TypeOK, RowSeq, Pending
<1>3. Len(batch) \in Nat /\ Len(buf) \in Nat /\ Len(ch) \in Nat
  BY DEF TypeOK, RowSeq
<1> QED BY <1>1, <1>2, <1>3

(* A flush is of the oldest pending rows. *)
LEMMA BatchIsOldest ==
  ASSUME TypeOK
  PROVE  /\ SubSeq(Pending, 1, Len(batch)) = batch
         /\ SubSeq(Pending, Len(batch) + 1, Len(Pending)) = buf \o ch
<1> DEFINE rest == buf \o ch
<1>1. batch \in RowSeq /\ rest \in RowSeq
  BY ConcatProperties DEF TypeOK, RowSeq
<1>2. Pending = batch \o rest
  BY DEF Pending, TypeOK, RowSeq
<1> HIDE DEF rest
<1>3. /\ SubSeq(batch \o rest, 1, Len(batch)) = batch
      /\ SubSeq(batch \o rest, Len(batch) + 1, Len(batch \o rest)) = rest
  BY <1>1 DEF RowSeq
<1> QED BY <1>2, <1>3 DEF rest

(* Channel, buffer and flush are invisible in the log: a push accepts or refuses
   a row, the outcome of a flush stores or gives up the oldest rows, and no
   other step changes what is pending. *)
THEOREM ImplementsRowLogAlways == Spec => ImplementsRowLog
<1>1. Init => Log!Init
  <2>1. <<>> \o <<>> \o <<>> = <<>>
    OBVIOUS
  <2> QED BY <2>1 DEF Init, Log!Init, Pending
<1>2. TypeOK /\ BatchInv /\ TypeOK' /\ BatchInv' /\ [Next]_vars => [Log!Next]_(Log!vars)
  <2> SUFFICES ASSUME TypeOK, BatchInv, TypeOK', BatchInv', [Next]_vars
               PROVE  Log!Next \/ UNCHANGED <<pushed, Pending, stored>>
    BY DEF Log!vars
  <2>0. /\ batch \in RowSeq /\ buf \in RowSeq /\ ch \in RowSeq
        /\ batch' \in RowSeq /\ buf' \in RowSeq /\ ch' \in RowSeq
    BY DEF TypeOK
  <2>1. CASE Push
    <3>1. Pending' = (batch \o buf) \o Append(ch, pushed') /\ pushed' = pushed + 1
          /\ stored' = stored
      BY <2>1 DEF Push, Pending
    <3>2. (batch \o buf) \o Append(ch, pushed') = Append((batch \o buf) \o ch, pushed')
      <4>1. batch \o buf \in RowSeq /\ pushed' \in 1 .. MaxRows
        BY <2>1, PendingType DEF Push, TypeOK
      <4> QED BY <2>0, <4>1 DEF RowSeq
    <3> QED BY <3>1, <3>2 DEF Log!Next, Log!Accept, Pending
  <2>2. CASE PushDropped
    BY <2>2 DEF PushDropped, Log!Next, Log!Refuse, Pending
  <2>3. CASE Receive \/ Drain
    <3>1. /\ batch' = batch /\ pushed' = pushed /\ stored' = stored
          /\ ch # <<>> /\ buf' = Append(buf, Head(ch)) /\ ch' = Tail(ch)
      BY <2>3 DEF Receive, Drain, Received
    <3>2. buf' \o ch' = buf \o ch
      BY <2>0, <3>1, MoveHead DEF RowSeq
    <3>3. Pending = batch \o (buf \o ch)
      BY <2>0, RowsAssociate DEF Pending
    <3>4. Pending' = batch' \o (buf' \o ch')
      <4>1. \A a, b, c \in RowSeq : a \o b \o c = a \o (b \o c)
        BY RowsAssociate
      <4>2. batch' \o buf' \o ch' = batch' \o (buf' \o ch')
        BY <2>0, <4>1, Zenon
      <4> QED BY <4>2, Zenon DEF Pending
    <3> QED BY <3>1, <3>2, <3>3, <3>4
  <2>4. CASE TickerFires \/ DrainFlush
    <3>1. /\ batch = <<>> /\ batch' = buf /\ buf' = <<>> /\ ch' = ch
          /\ pushed' = pushed /\ stored' = stored
      BY <2>4 DEF TickerFires, DrainFlush, TakeBuffer, BatchInv, Flushing
    <3>2. <<>> \o buf = buf /\ buf \o <<>> = buf
      BY <2>0 DEF RowSeq
    <3> QED BY <3>1, <3>2 DEF Pending
  <2>5. CASE SeeCancel \/ DrainEmpty \/ Cancel
    BY <2>5 DEF SeeCancel, DrainEmpty, Cancel, Pending
  <2>6. CASE FlushSucceeds \/ FlushFails \/ FlushUnacknowledged
    <3>1. /\ batch' = <<>> /\ buf' = buf /\ ch' = ch /\ pushed' = pushed
          /\ pc \in Flushing
          /\ stored' = stored \o batch \/ stored' = stored
      BY <2>6 DEF FlushSucceeds, FlushFails, FlushUnacknowledged, GiveUpBatch,
         FlushCanFail, Flushing
    <3>2. Pending' = buf \o ch
      <4>1. <<>> \o buf = buf
        BY <2>0 DEF RowSeq
      <4> QED BY <3>1, <4>1 DEF Pending
    <3>3. Len(batch) \in 1 .. Len(Pending)
      <4>1. Len(batch) > 0
        BY <2>0, <3>1 DEF BatchInv, RowSeq
      <4> QED BY <4>1, PendingType
    <3>4. Log!Store \/ Log!GiveUp
      BY <3>1, <3>2, <3>3, BatchIsOldest DEF Log!Store, Log!GiveUp
    <3> QED BY <3>4 DEF Log!Next
  <2>7. CASE UNCHANGED vars
    BY <2>7 DEF vars, Pending
  <2> QED BY <2>1, <2>2, <2>3, <2>4, <2>5, <2>6, <2>7 DEF Next, FlushLoop
<1> QED BY <1>1, <1>2, WriterTypes, PTL DEF Spec, ImplementsRowLog, Log!Spec

(* The two instances of the row log are the same. *)
LEMMA SameLog == ImplementsRowLog => RL!Spec
<1>1. Log!Init => RL!Init
  BY DEF Log!Init, RL!Init
<1>2. [Log!Next]_(Log!vars) => [RL!Next]_(RL!vars)
  BY DEF Log!Next, RL!Next, Log!vars, RL!vars, Log!Accept, RL!Accept, Log!Refuse,
     RL!Refuse, Log!Store, RL!Store, Log!GiveUp, RL!GiveUp
<1> QED BY <1>1, <1>2, PTL DEF ImplementsRowLog, Log!Spec, RL!Spec

(* The ClickHouse table of the running writer holds no row twice and is in push
   order, although a flush may store its rows and still report an error. *)
THEOREM StoredOnceInOrder == Spec => []RL!Increasing(stored)
<1>1. RL!Spec => []RL!StoredOnceInOrder
  BY RL!StoredOnceInOrderAlways
<1>2. RL!StoredOnceInOrder => RL!Increasing(stored)
  BY DEF RL!StoredOnceInOrder
<1> QED BY <1>1, <1>2, ImplementsRowLogAlways, SameLog, PTL

(* A row the writer gave up, in a full channel or a failed flush, is never
   stored later. *)
THEOREM GivenUpForGood == Spec => RL!GivenUpForGood
  BY RL!GivenUpForGoodAlways, ImplementsRowLogAlways, SameLog, PTL

----------------------------------------------------------------------------
(* The counters *)

(* Every step leaves the counters honest. *)
LEMMA CountersStep ==
  ASSUME TypeOK, BatchInv, TypeOK', CountersHonest, [Next]_vars
  PROVE  CountersHonest'
<1> DEFINE Known == RowsOf(stored) \cup RowsOf(batch) \cup RowsOf(buf) \cup RowsOf(ch)
<1>0. /\ batch \in RowSeq /\ buf \in RowSeq /\ ch \in RowSeq /\ stored \in RowSeq
      /\ batch' \in RowSeq /\ buf' \in RowSeq /\ ch' \in RowSeq /\ stored' \in RowSeq
      /\ flushErrors \in Nat /\ rowsWritten \in Nat /\ Len(stored) \in Nat
      /\ Len(batch) \in Nat /\ pushed \in 0 .. MaxRows
  BY DEF TypeOK, RowSeq
<1>1. /\ RowsOf(Pending) = RowsOf(batch) \cup RowsOf(buf) \cup RowsOf(ch)
      /\ RowsOf(Pending') = RowsOf(batch') \cup RowsOf(buf') \cup RowsOf(ch')
  <2>1. Pending = batch \o buf \o ch /\ Pending' = batch' \o buf' \o ch'
    BY DEF Pending
  <2>2. RowsOf(batch \o buf \o ch) = RowsOf(batch) \cup RowsOf(buf) \cup RowsOf(ch)
    BY <1>0, RowsAssociate
  <2>3. RowsOf(batch' \o buf' \o ch') = RowsOf(batch') \cup RowsOf(buf') \cup RowsOf(ch')
    BY <1>0, RowsAssociate
  <2> QED BY <2>1, <2>2, <2>3, Zenon
<1>2. /\ RowsOf(stored) \cup RowsOf(Pending) = Known
      /\ RowsOf(stored') \cup RowsOf(Pending') = Known'
  <2>1. RowsOf(stored) \cup RowsOf(Pending) = Known
    BY <1>1
  <2>2. Known' = RowsOf(stored') \cup RowsOf(batch') \cup RowsOf(buf') \cup RowsOf(ch')
    BY DEF RowsOf
  <2> QED BY <1>1, <2>1, <2>2
<1>3. 1 .. pushed # Known => flushErrors > 0
  BY <1>2 DEF CountersHonest
<1>4. rowsWritten <= Len(stored)
  BY DEF CountersHonest
<1>5. RowsOf(<<>>) = {}
  BY DEF RowsOf
<1>6. SUFFICES (1 .. pushed' # Known' => flushErrors' > 0) /\ rowsWritten' <= Len(stored')
  BY <1>2 DEF CountersHonest
<1>7. CASE Push
  <2>1. pushed' \in 1 .. MaxRows /\ ch' = Append(ch, pushed') /\ pushed' = pushed + 1
    <3>1. pushed < MaxRows /\ ch' = Append(ch, pushed') /\ pushed' = pushed + 1
          /\ pushed \in 0 .. MaxRows
      BY <1>0, <1>7 DEF Push
    <3>2. pushed' \in 1 .. MaxRows
      BY <3>1, WriterAssumption
    <3> QED BY <3>1, <3>2
  <2>2. RowsOf(ch') = RowsOf(ch) \cup {pushed'}
    <3>1. RowsOf(Append(ch, pushed')) = RowsOf(ch) \cup {pushed'}
      BY <1>0, <2>1, RowsOfAppend
    <3> QED BY <2>1, <3>1, Zenon
  <2>3. 1 .. pushed' = (1 .. pushed) \cup {pushed'}
    BY <1>0, <2>1
  <2>4. Known' = Known \cup {pushed'}
    BY <1>7, <2>2 DEF Push
  <2> QED BY <1>3, <1>4, <1>7, <2>3, <2>4 DEF Push
<1>8. CASE PushDropped
  BY <1>0, <1>4, <1>8 DEF PushDropped
<1>9. CASE Receive \/ Drain
  <2>1. /\ batch' = batch /\ pushed' = pushed /\ stored' = stored
        /\ ch # <<>> /\ buf' = Append(buf, Head(ch)) /\ ch' = Tail(ch)
        /\ flushErrors' = flushErrors /\ rowsWritten' = rowsWritten
    BY <1>9 DEF Receive, Drain, Received
  <2>2. buf' \o ch' = buf \o ch
    BY <1>0, <2>1, MoveHead DEF RowSeq
  <2>3. RowsOf(buf') \cup RowsOf(ch') = RowsOf(buf) \cup RowsOf(ch)
    <3>1. RowsOf(buf \o ch) = RowsOf(buf) \cup RowsOf(ch)
      BY <1>0, RowsOfConcat
    <3>2. RowsOf(buf' \o ch') = RowsOf(buf') \cup RowsOf(ch')
      BY <1>0, RowsOfConcat
    <3> QED BY <2>2, <3>1, <3>2
  <2>4. RowsOf(stored') = RowsOf(stored) /\ RowsOf(batch') = RowsOf(batch)
    BY <2>1
  <2>5. Known' = Known
    BY <2>3, <2>4
  <2> QED BY <1>3, <1>4, <2>1, <2>5
<1>10. CASE TickerFires \/ DrainFlush
  <2>1. /\ batch = <<>> /\ batch' = buf /\ buf' = <<>> /\ ch' = ch
        /\ pushed' = pushed /\ stored' = stored
        /\ flushErrors' = flushErrors /\ rowsWritten' = rowsWritten
    BY <1>10 DEF TickerFires, DrainFlush, TakeBuffer, BatchInv, Flushing
  <2>2. Known' = Known
    BY <1>5, <2>1
  <2> QED BY <1>3, <1>4, <2>1, <2>2
<1>11. CASE SeeCancel \/ DrainEmpty \/ Cancel
  BY <1>3, <1>4, <1>11 DEF SeeCancel, DrainEmpty, Cancel
<1>12. RowsOf(stored \o batch) = RowsOf(stored) \cup RowsOf(batch)
       /\ Len(stored \o batch) = Len(stored) + Len(batch)
  BY <1>0, RowsOfConcat, ConcatProperties DEF RowSeq
<1>13. CASE FlushSucceeds
  <2>1. /\ stored' = stored \o batch /\ batch' = <<>> /\ buf' = buf /\ ch' = ch
        /\ pushed' = pushed /\ flushErrors' = flushErrors
        /\ rowsWritten' = rowsWritten + Len(batch)
    BY <1>13 DEF FlushSucceeds
  <2>2. Known' = Known
    BY <1>5, <1>12, <2>1
  <2>3. Len(stored') = Len(stored) + Len(batch)
    BY <1>12, <2>1
  <2> QED BY <1>0, <1>3, <1>4, <2>1, <2>2, <2>3
<1>14. CASE FlushFails \/ FlushUnacknowledged
  <2>1. flushErrors' = flushErrors + 1 /\ rowsWritten' = rowsWritten
        /\ (stored' = stored \/ stored' = stored \o batch)
    BY <1>14 DEF FlushFails, FlushUnacknowledged, GiveUpBatch
  <2>2. Len(stored') >= Len(stored)
    BY <1>0, <1>12, <2>1
  <2>3. Len(stored') \in Nat
    BY <1>0 DEF RowSeq
  <2> QED BY <1>0, <1>4, <2>1, <2>2, <2>3
<1>15. CASE UNCHANGED vars
  BY <1>3, <1>4, <1>15 DEF vars
<1> QED BY <1>7, <1>8, <1>9, <1>10, <1>11, <1>13, <1>14, <1>15 DEF Next, FlushLoop

(* FlushErrors misses no loss and RowsWritten claims no row too many, for every
   channel size, any number of rows and any pattern of failing flushes. *)
THEOREM CountersHonestAlways == Spec => []CountersHonest
<1>1. Init => CountersHonest
  <2>1. <<>> \o <<>> \o <<>> = <<>> /\ RowsOf(<<>>) = {} /\ 1 .. 0 = {} /\ Len(<<>>) = 0
    BY DEF RowsOf
  <2> QED BY <2>1 DEF Init, CountersHonest, Pending
<1> QED BY <1>1, CountersStep, WriterTypes, PTL DEF Spec
============================================================================
