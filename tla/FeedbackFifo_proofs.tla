------------------------ MODULE FeedbackFifo_proofs ------------------------
(***************************************************************************)
(* Proofs about FeedbackFifo, for every ring size and every bound.  The    *)
(* inductive invariant is TypeOK /\ Discipline; under it every step of the *)
(* two threads is a step, or a stutter, of the abstract BoundedQueue.      *)
(***************************************************************************)
EXTENDS FeedbackFifo, SequenceTheorems, TLAPS

\* One lap of the ring: `% Size' on the indices the code computes.
LEMMA ModOnce ==
  ASSUME NEW a \in 0 .. 2 * Size - 1
  PROVE  a % Size = IF a < Size THEN a ELSE a - Size
<1>1. CASE a < Size
  BY <1>1, SizeAssumption
<1>2. CASE ~(a < Size)
  BY <1>2, SizeAssumption
<1>3. QED
  BY <1>1, <1>2

\* The same, for advancing a cursor.
LEMMA NextSlot ==
  ASSUME NEW p \in Slots
  PROVE  (p + 1) % Size = IF p + 1 = Size THEN 0 ELSE p + 1
<1>1. p + 1 \in 0 .. 2 * Size - 1
  BY SizeAssumption DEF Slots
<1>2. QED
  BY <1>1, ModOnce, SizeAssumption DEF Slots

\* The history only changes when the receiver sends.  Lengths of sequences and
\* functions on the slots are kept out of each other's proof steps: `sent' is
\* typed by HistoryOK, the ring by RingOK.
LEMMA HistoryTyped ==
  ASSUME RingOK, HistoryOK, [Next]_vars
  PROVE  HistoryOK'
<1>1. queue[out] \in Records
  BY DEF RingOK
<1>2. CASE SendHead
  BY <1>1, <1>2 DEF SendHead, HistoryOK
<1>3. CASE UNCHANGED sent
  BY <1>3 DEF HistoryOK
<1>4. SendHead \/ UNCHANGED sent
  BY DEF Next, RendererStep, Drain, vars, BeginFeedback, DropFeedback, FillHead,
    FillTimes, Publish, PacketArrives, CheckEmpty, Release
<1>5. QED
  BY <1>2, <1>3, <1>4

LEMMA InitTyped == Init => TypeOK
<1>1. Init => RingOK
  <2>1. Init => /\ fifo_create /\ built = 0
                /\ renderer = "rendering" /\ receiver = "recvfrom"
    BY DEF Init
  <2>2. fifo_create => queue \in [Slots -> Records] /\ in \in Slots /\ out \in Slots
    BY SizeAssumption DEF fifo_create, Slots, Records, Record
  <2>3. QED
    BY <2>1, <2>2, MaxRecordsAssumption DEF RingOK
<1>2. Init => HistoryOK
  BY DEF Init, HistoryOK
<1>3. QED
  BY <1>1, <1>2 DEF TypeOK

\* Every cursor, slot, record and history stays in its range.
THEOREM TypeCorrect == Spec => []TypeOK
<1>1. Init => TypeOK
  BY InitTyped
<1>2. TypeOK /\ [Next]_vars => TypeOK'
  <2> SUFFICES ASSUME RingOK, HistoryOK, [Next]_vars PROVE RingOK'
    BY HistoryTyped DEF TypeOK
  <2> USE SizeAssumption, MaxRecordsAssumption DEF RingOK
  <2>1. CASE BeginFeedback
    BY <2>1 DEF BeginFeedback
  <2>2. CASE DropFeedback
    BY <2>2 DEF DropFeedback
  <2>3. CASE FillHead
    BY <2>3 DEF FillHead, Records
  <2>4. CASE FillTimes
    BY <2>4 DEF FillTimes, Records
  <2>5. CASE Publish
    BY <2>5, NextSlot DEF Publish, Slots
  <2>6. CASE PacketArrives
    BY <2>6 DEF PacketArrives
  <2>7. CASE CheckEmpty
    BY <2>7 DEF CheckEmpty
  <2>8. CASE SendHead
    BY <2>8 DEF SendHead
  <2>9. CASE Release
    BY <2>9, NextSlot DEF Release, Slots
  <2>10. CASE UNCHANGED vars
    BY <2>10 DEF vars
  <2>11. QED
    BY <2>1, <2>2, <2>3, <2>4, <2>5, <2>6, <2>7, <2>8, <2>9, <2>10
    DEF Next, RendererStep, Drain
<1>3. QED
  BY <1>1, <1>2, PTL DEF Spec

\* A cursor that moves on leaves one slot less, or one more, between the two.
LEMMA CursorMoves ==
  ASSUME TypeOK
  PROVE  /\ Distance(in) = Occupancy
         /\ Occupancy \in 0 .. Size - 1
         /\ \A p \in Slots : Distance(p) \in 0 .. Size - 1
         /\ \A p \in Slots : Distance(p) = Occupancy => p = in
         /\ Distance(out) = 0
         /\ fifo_full <=> Occupancy = Size - 1
         /\ fifo_empty <=> Occupancy = 0
<1>1. (in + 1) % Size = IF in + 1 = Size THEN 0 ELSE in + 1
  BY NextSlot DEF TypeOK, RingOK
<1>2. QED
  BY <1>1, SizeAssumption
  DEF TypeOK, RingOK, Slots, Distance, Occupancy, fifo_full, fifo_empty

LEMMA PublishMoves ==
  ASSUME TypeOK, Publish, Occupancy < Size - 1
  PROVE  /\ Occupancy' = Occupancy + 1
         /\ \A p \in Slots : Distance(p)' = Distance(p)
<1>1. in' = IF in + 1 = Size THEN 0 ELSE in + 1
  BY NextSlot DEF TypeOK, RingOK, Publish
<1>2. QED
  BY <1>1, SizeAssumption DEF TypeOK, RingOK, Publish, Slots, Distance, Occupancy

LEMMA ReleaseMoves ==
  ASSUME TypeOK, Release, Occupancy > 0
  PROVE  /\ Occupancy' = Occupancy - 1
         /\ \A p \in Slots : Distance(p)' =
              IF p = out THEN Size - 1 ELSE Distance(p) - 1
<1>1. out' = IF out + 1 = Size THEN 0 ELSE out + 1
  BY NextSlot DEF TypeOK, RingOK, Release
<1>2. QED
  BY <1>1, SizeAssumption DEF TypeOK, RingOK, Release, Slots, Distance, Occupancy

\* A step that leaves the ring alone leaves its region alone.
LEMMA RingUnchanged ==
  ASSUME UNCHANGED <<in, out>>
  PROVE  /\ Occupancy' = Occupancy
         /\ \A p \in Slots : Distance(p)' = Distance(p)
BY DEF Occupancy, Distance

\* The record last sent is still the one at the head.
LEMMA SentHeadStays ==
  ASSUME SentHead, sent' = sent, queue'[out'] = queue[out]
  PROVE  SentHead'
BY DEF SentHead

\* The producer and the consumer keep to their own side of the two cursors.
THEOREM DisciplineHolds == Spec => []Discipline
<1>1. Init => Discipline
  BY SizeAssumption
  DEF Init, fifo_create, Discipline, PublishedComplete, RendererOwnsTail,
      ReceiverOwnsHead, Distance, Occupancy, Slots
<1>2. TypeOK /\ Discipline /\ [Next]_vars => Discipline'
  <2> SUFFICES ASSUME TypeOK, Discipline, [Next]_vars PROVE Discipline'
    OBVIOUS
  <2> USE CursorMoves, SentHeadStays
      DEF Discipline, PublishedComplete, RendererOwnsTail, ReceiverOwnsHead
  <2>1. CASE BeginFeedback
    <3>1. Occupancy' = Occupancy /\ \A p \in Slots : Distance(p)' = Distance(p)
      BY <2>1, RingUnchanged DEF BeginFeedback
    <3>2. QED
      BY <2>1, <3>1, SizeAssumption DEF BeginFeedback, TypeOK, RingOK
  <2>2. CASE DropFeedback
    <3>1. Occupancy' = Occupancy /\ \A p \in Slots : Distance(p)' = Distance(p)
      BY <2>2, RingUnchanged DEF DropFeedback
    <3>2. QED
      BY <2>2, <3>1 DEF DropFeedback
  <2>3. CASE FillHead
    <3>1. Occupancy' = Occupancy /\ \A p \in Slots : Distance(p)' = Distance(p)
      BY <2>3, RingUnchanged DEF FillHead
    <3>2. \A p \in Slots : p # in => queue'[p] = queue[p]
      BY <2>3 DEF FillHead, TypeOK, RingOK
    <3>3. queue'[in].head = built
      BY <2>3 DEF FillHead, TypeOK, RingOK, Records
    <3>4. PublishedComplete'
      BY <3>1, <3>2, <2>3 DEF FillHead, TypeOK, RingOK
    <3>5. RendererOwnsTail'
      BY <3>1, <3>3, <2>3 DEF FillHead
    <3>6. ReceiverOwnsHead'
      BY <3>1, <3>2, <2>3 DEF FillHead, TypeOK, RingOK
    <3>7. QED
      BY <3>4, <3>5, <3>6
  <2>4. CASE FillTimes
    <3>1. Occupancy' = Occupancy /\ \A p \in Slots : Distance(p)' = Distance(p)
      BY <2>4, RingUnchanged DEF FillTimes
    <3>2. \A p \in Slots : p # in => queue'[p] = queue[p]
      BY <2>4 DEF FillTimes, TypeOK, RingOK
    <3>3. queue'[in].times = built /\ queue'[in].head = queue[in].head
      BY <2>4 DEF FillTimes, TypeOK, RingOK, Records
    <3>4. PublishedComplete'
      BY <3>1, <3>2, <2>4 DEF FillTimes, TypeOK, RingOK
    <3>5. RendererOwnsTail'
      BY <3>1, <3>3, <2>4 DEF FillTimes
    <3>6. ReceiverOwnsHead'
      BY <3>1, <3>2, <2>4 DEF FillTimes, TypeOK, RingOK
    <3>7. QED
      BY <3>4, <3>5, <3>6
  <2>5. CASE Publish
    <3>1. Occupancy < Size - 1 /\ built > 0
      BY <2>5 DEF Publish
    <3>2. Occupancy' = Occupancy + 1 /\ \A p \in Slots : Distance(p)' = Distance(p)
      BY <2>5, <3>1, PublishMoves
    <3>3. queue[in].head = built /\ queue[in].times = built /\ built \in 1 .. MaxRecords
      BY <2>5, <3>1, MaxRecordsAssumption DEF Publish, TypeOK, RingOK
    <3>4. \A p \in Slots : Distance(p) < Occupancy + 1 => Distance(p) < Occupancy \/ p = in
      BY SizeAssumption
    <3>5. PublishedComplete'
      BY <3>2, <3>3, <3>4, <2>5 DEF Publish
    <3>6. RendererOwnsTail'
      BY <2>5 DEF Publish
    <3>7. ReceiverOwnsHead'
      BY <3>2, <2>5, SizeAssumption DEF Publish
    <3>8. QED
      BY <3>5, <3>6, <3>7
  <2>6. CASE PacketArrives
    <3>1. Occupancy' = Occupancy /\ \A p \in Slots : Distance(p)' = Distance(p)
      BY <2>6, RingUnchanged DEF PacketArrives
    <3>2. QED
      BY <2>6, <3>1 DEF PacketArrives
  <2>7. CASE CheckEmpty
    <3>1. Occupancy' = Occupancy /\ \A p \in Slots : Distance(p)' = Distance(p)
      BY <2>7, RingUnchanged DEF CheckEmpty
    <3>2. QED
      BY <2>7, <3>1, SizeAssumption DEF CheckEmpty
  <2>8. CASE SendHead
    <3>1. Occupancy' = Occupancy /\ \A p \in Slots : Distance(p)' = Distance(p)
      BY <2>8, RingUnchanged DEF SendHead
    <3>2. queue[out] \in Records
      BY DEF TypeOK, RingOK
    <3>3. SentHead'
      <4>1. HistoryOK
        BY DEF TypeOK
      <4>2. QED
        BY <4>1, <3>2, <2>8 DEF SendHead, SentHead, HistoryOK
    <3>4. PublishedComplete' /\ RendererOwnsTail'
      BY <3>1, <2>8 DEF SendHead
    <3>5. ReceiverOwnsHead'
      BY <3>1, <3>3, <2>8 DEF SendHead
    <3>6. QED
      BY <3>4, <3>5
  <2>9. CASE Release
    <3>1. Occupancy > 0
      BY <2>9 DEF Release
    <3>2. /\ Occupancy' = Occupancy - 1
          /\ \A p \in Slots : Distance(p)' =
              IF p = out THEN Size - 1 ELSE Distance(p) - 1
       BY <2>9, <3>1, ReleaseMoves
    <3>3. \A p \in Slots : Distance(p)' < Occupancy' => Distance(p) < Occupancy
      BY <3>1, <3>2, SizeAssumption
    <3>4. PublishedComplete'
      BY <3>3, <2>9 DEF Release
    <3>5. RendererOwnsTail'
      BY <3>2, <2>9, SizeAssumption DEF Release
    <3>6. ReceiverOwnsHead'
      BY <2>9 DEF Release
    <3>7. QED
      BY <3>4, <3>5, <3>6
  <2>10. CASE UNCHANGED vars
    <3>1. Occupancy' = Occupancy /\ \A p \in Slots : Distance(p)' = Distance(p)
      BY <2>10, RingUnchanged DEF vars
    <3>2. QED
      BY <2>10, <3>1 DEF vars
  <2>11. QED
    BY <2>1, <2>2, <2>3, <2>4, <2>5, <2>6, <2>7, <2>8, <2>9, <2>10
    DEF Next, RendererStep, Drain
<1>3. QED
  BY <1>1, <1>2, TypeCorrect, PTL DEF Spec

-----------------------------------------------------------------------------
(* The ring implements the abstract queue.                                 *)

\* The slot of the i-th waiting record.
SlotOf(i) == IF out + i - 1 < Size THEN out + i - 1 ELSE out + i - 1 - Size

WaitingFacts ==
  /\ Waiting \in Seq(Records)
  /\ Len(Waiting) = Occupancy
  /\ Occupancy \in 0 .. Size - 1
  /\ \A i \in 1 .. Occupancy : /\ Waiting[i] = queue[SlotOf(i)]
                              /\ SlotOf(i) \in Slots
                              /\ Distance(SlotOf(i)) = i - 1

LEMMA WaitingIsSeq == TypeOK => WaitingFacts
<1> SUFFICES ASSUME TypeOK PROVE WaitingFacts
  OBVIOUS
<1>1. Occupancy \in 0 .. Size - 1
  BY CursorMoves
<1>2. ASSUME NEW i \in 1 .. Occupancy
      PROVE  /\ (out + (i - 1)) % Size = SlotOf(i)
             /\ SlotOf(i) \in Slots
             /\ Distance(SlotOf(i)) = i - 1
  <2> DEFINE a == out + (i - 1)
  <2>1. a \in 0 .. 2 * Size - 1
    BY <1>1, SizeAssumption DEF TypeOK, RingOK, Slots
  <2>2. a = out + i - 1
    BY <1>1, SizeAssumption DEF TypeOK, RingOK, Slots
  <2> HIDE DEF a
  <2>3. a % Size = IF a < Size THEN a ELSE a - Size
    BY <2>1, ModOnce
  <2>4. a % Size = SlotOf(i)
    BY <1>1, <2>2, <2>3, SizeAssumption DEF SlotOf, TypeOK, RingOK, Slots
  <2>5. SlotOf(i) \in Slots /\ Distance(SlotOf(i)) = i - 1
    BY <1>1, SizeAssumption DEF SlotOf, TypeOK, RingOK, Slots, Distance
  <2>6. QED
    BY <2>4, <2>5 DEF a
<1>3. \A i \in 1 .. Occupancy : queue[(out + (i - 1)) % Size] \in Records
  BY <1>2 DEF TypeOK, RingOK
<1>4. Waiting \in Seq(Records) /\ Len(Waiting) = Occupancy
  BY <1>1, <1>3 DEF Waiting
<1>5. \A i \in 1 .. Occupancy : Waiting[i] = queue[SlotOf(i)]
  BY <1>2 DEF Waiting
<1>6. QED
  BY <1>1, <1>2, <1>4, <1>5 DEF WaitingFacts

LEMMA FrontOfAppend ==
  ASSUME NEW S, NEW s \in Seq(S), NEW e \in S
  PROVE  SubSeq(Append(s, e), 1, Len(Append(s, e)) - 1) = s
<1> DEFINE t == Append(s, e)
<1>1. /\ t \in Seq(S)
      /\ Len(t) = Len(s) + 1
      /\ \A i \in 1 .. Len(s) : t[i] = s[i]
  BY AppendProperties
<1>2. Len(s) \in Nat
  BY LenProperties
<1> HIDE DEF t
<1>3. \A i \in 1 .. Len(s) : t[i] \in S
  BY <1>1, ElementOfSeq
<1>4. /\ SubSeq(t, 1, Len(s)) \in Seq(S)
      /\ Len(SubSeq(t, 1, Len(s))) = Len(s)
      /\ \A i \in 1 .. Len(s) : SubSeq(t, 1, Len(s))[i] = t[i]
  BY <1>2, <1>3, SubSeqProperties
<1>5. SubSeq(t, 1, Len(s)) = s
  BY <1>1, <1>4, SeqEqual
<1>6. QED
  BY <1>1, <1>2, <1>5 DEF t

LEMMA SplitLast ==
  ASSUME NEW S, NEW s \in Seq(S), s # <<>>
  PROVE  s = Append(SubSeq(s, 1, Len(s) - 1), s[Len(s)])
<1>1. Len(s) \in Nat \ {0}
  BY EmptySeq
<1>2. \A i \in 1 .. Len(s) : s[i] \in S
  BY ElementOfSeq
<1> DEFINE n == Len(s) - 1
           f == SubSeq(s, 1, n)
<1>3. n \in Nat /\ \A i \in 1 .. n : s[i] \in S
  BY <1>1, <1>2
<1>4. /\ SubSeq(s, 1, n) \in Seq(S)
      /\ Len(SubSeq(s, 1, n)) = IF 1 <= n THEN n - 1 + 1 ELSE 0
      /\ \A i \in 1 .. n - 1 + 1 : SubSeq(s, 1, n)[i] = s[1 + i - 1]
  <2> HIDE DEF n
  <2>1. n \in Int /\ 1 \in Int
    BY <1>3
  <2>2. QED
    BY <1>3, <2>1, SubSeqProperties
<1>5. /\ f \in Seq(S)
      /\ Len(f) = Len(s) - 1
      /\ \A i \in 1 .. Len(s) - 1 : f[i] = s[i]
  <2>1. n = Len(s) - 1 /\ n \in Nat
    BY <1>3
  <2> HIDE DEF n
  <2>2. f \in Seq(S) /\ Len(f) = n
    BY <1>4, <2>1
  <2>3. \A i \in 1 .. n : f[i] = s[i]
    <3> SUFFICES ASSUME NEW i \in 1 .. n PROVE f[i] = s[i]
      OBVIOUS
    <3>1. f[i] = s[1 + i - 1]
      BY <1>4, <2>1
    <3>2. 1 + i - 1 = i
      BY <2>1
    <3>3. QED
      BY <3>1, <3>2
  <2>4. QED
    BY <2>1, <2>2, <2>3
<1> HIDE DEF f
<1>6. /\ Append(f, s[Len(s)]) \in Seq(S)
      /\ Len(Append(f, s[Len(s)])) = Len(s)
      /\ \A i \in 1 .. Len(s) - 1 : Append(f, s[Len(s)])[i] = s[i]
      /\ Append(f, s[Len(s)])[Len(s)] = s[Len(s)]
  BY <1>1, <1>2, <1>5, AppendProperties
<1>7. \A i \in 1 .. Len(s) : s[i] = Append(f, s[Len(s)])[i]
  BY <1>1, <1>6
<1>8. QED
  BY <1>6, <1>7, SeqEqual DEF f, n

\* A step that writes no slot of the region and moves no cursor changes nothing.
LEMMA WaitingUnchanged ==
  ASSUME WaitingFacts, WaitingFacts', TypeOK, UNCHANGED <<in, out>>,
         \A p \in Slots : p # in => queue'[p] = queue[p]
  PROVE  Waiting' = Waiting
<1>1. Occupancy' = Occupancy
  BY RingUnchanged
<1>2. ASSUME NEW i \in 1 .. Occupancy
      PROVE  Waiting'[i] = Waiting[i]
  <2>1. SlotOf(i)' = SlotOf(i)
    BY DEF SlotOf
  <2>2. SlotOf(i) # in
    BY CursorMoves DEF WaitingFacts
  <2>3. Waiting'[i] = queue'[SlotOf(i)]
    BY <1>1, <2>1 DEF WaitingFacts
  <2>4. QED
    BY <2>2, <2>3 DEF WaitingFacts
<1>3. QED
  BY <1>1, <1>2, SeqEqual DEF WaitingFacts

\* Publishing is the abstract Put: it appends the record just finished.
LEMMA PublishAppends ==
  ASSUME WaitingFacts, WaitingFacts', TypeOK, Discipline, Publish
  PROVE  /\ Waiting' = Append(Waiting, Record(built))
         /\ Len(Waiting) < Size - 1
         /\ built \in 1 .. MaxRecords
<1>1. Occupancy < Size - 1 /\ built \in 1 .. MaxRecords
  BY MaxRecordsAssumption DEF Discipline, RendererOwnsTail, Publish, TypeOK, RingOK
<1>2. queue[in] = Record(built) /\ Record(built) \in Records
  BY <1>1 DEF Discipline, RendererOwnsTail, Publish, TypeOK, RingOK, Records, Record
<1>3. Occupancy' = Occupancy + 1
  BY <1>1, PublishMoves
<1>4. \A i \in 1 .. Occupancy + 1 : SlotOf(i)' = SlotOf(i)
  BY DEF SlotOf, Publish
<1>5. SlotOf(Occupancy + 1) = in
  BY <1>1, SizeAssumption DEF SlotOf, Occupancy, Distance, TypeOK, RingOK, Slots
<1> DEFINE new == Append(Waiting, Record(built))
<1>6. /\ new \in Seq(Records)
      /\ Len(new) = Occupancy + 1
      /\ \A i \in 1 .. Occupancy : new[i] = Waiting[i]
      /\ new[Occupancy + 1] = Record(built)
  BY <1>2, AppendProperties DEF WaitingFacts
<1> HIDE DEF new
<1>7. ASSUME NEW i \in 1 .. Occupancy + 1
      PROVE  Waiting'[i] = new[i]
  <2>1. Waiting'[i] = queue[SlotOf(i)]
    BY <1>3, <1>4 DEF WaitingFacts, Publish
  <2>2. CASE i = Occupancy + 1
    BY <2>1, <2>2, <1>2, <1>5, <1>6
  <2>3. CASE i # Occupancy + 1
    <3>1. i \in 1 .. Occupancy
      BY <2>3 DEF WaitingFacts
    <3>2. QED
      BY <2>1, <3>1, <1>6 DEF WaitingFacts
  <2>4. QED
    BY <2>2, <2>3
<1>8. Waiting' = new
  BY <1>3, <1>6, <1>7, SeqEqual DEF WaitingFacts
<1>9. QED
  BY <1>1, <1>8 DEF new, WaitingFacts

\* Releasing is the abstract Take: the record sent was the oldest waiting.
LEMMA ReleaseTakes ==
  ASSUME WaitingFacts, WaitingFacts', TypeOK, Discipline, Release
  PROVE  /\ Waiting # <<>>
         /\ Waiting' = Tail(Waiting)
         /\ Head(Waiting) = queue[out]
<1>1. Occupancy > 0
  BY DEF Discipline, ReceiverOwnsHead, Release
<1>2. Occupancy' = Occupancy - 1
  BY <1>1, ReleaseMoves
<1>3. out' = IF out + 1 = Size THEN 0 ELSE out + 1
  BY NextSlot DEF TypeOK, RingOK, Release
<1>4. \A i \in 1 .. Occupancy - 1 : SlotOf(i)' = SlotOf(i + 1)
  BY <1>3, SizeAssumption DEF SlotOf, TypeOK, RingOK, Slots, WaitingFacts
<1>5. Waiting # <<>>
  BY <1>1, EmptySeq DEF WaitingFacts
<1>6. /\ Tail(Waiting) \in Seq(Records)
      /\ Len(Tail(Waiting)) = Occupancy - 1
      /\ \A i \in 1 .. Occupancy - 1 : Tail(Waiting)[i] = Waiting[i + 1]
  BY <1>5, HeadTailProperties DEF WaitingFacts
<1>7. ASSUME NEW i \in 1 .. Occupancy - 1
      PROVE  Waiting'[i] = Tail(Waiting)[i]
  <2>1. Waiting'[i] = queue[SlotOf(i + 1)]
    BY <1>2, <1>4 DEF WaitingFacts, Release
  <2>2. i + 1 \in 1 .. Occupancy
    BY DEF WaitingFacts
  <2>3. QED
    BY <2>1, <2>2, <1>6 DEF WaitingFacts
<1>8. Waiting' = Tail(Waiting)
  BY <1>2, <1>6, <1>7, SeqEqual DEF WaitingFacts
<1>9. SlotOf(1) = out
  BY SizeAssumption DEF SlotOf, TypeOK, RingOK, Slots
<1>10. Head(Waiting) = queue[out]
  BY <1>1, <1>5, <1>9 DEF WaitingFacts
<1>11. QED
  BY <1>5, <1>8, <1>10

\* Every behaviour of the ring and its two threads is, through Waiting and
\* Taken, a behaviour of the abstract bounded queue.
THEOREM RingImplementsQueue == Spec => ImplementsQueue
<1>1. Init => Abstract!Init
  <2> SUFFICES ASSUME Init PROVE Abstract!Init
    OBVIOUS
  <2>1. TypeOK /\ Occupancy = 0
    BY InitTyped DEF Init, fifo_create, Occupancy, Distance
  <2>2. Waiting = <<>>
    BY <2>1, WaitingIsSeq, EmptySeq DEF WaitingFacts
  <2>3. Taken = <<>>
    BY DEF Init, Taken
  <2>4. QED
    BY <2>2, <2>3 DEF Abstract!Init
<1>2. /\ TypeOK /\ TypeOK' /\ WaitingFacts /\ WaitingFacts'
      /\ Discipline /\ [Next]_vars
      => [Abstract!Next]_(Abstract!vars)
  <2> SUFFICES ASSUME TypeOK, TypeOK', WaitingFacts, WaitingFacts',
                      Discipline, [Next]_vars
               PROVE  [Abstract!Next]_(Abstract!vars)
    OBVIOUS
  <2> USE DEF Abstract!vars
  <2>1. CASE \/ BeginFeedback \/ DropFeedback \/ PacketArrives \/ CheckEmpty
             \/ UNCHANGED vars
    <3>1. Waiting' = Waiting
      BY <2>1, WaitingUnchanged
      DEF BeginFeedback, DropFeedback, PacketArrives, CheckEmpty, vars
    <3>2. Taken' = Taken
      BY <2>1
      DEF BeginFeedback, DropFeedback, PacketArrives, CheckEmpty, vars, Taken
    <3>3. QED
      BY <3>1, <3>2
  <2>2. CASE FillHead \/ FillTimes
    <3>1. UNCHANGED <<in, out>> /\ \A p \in Slots : p # in => queue'[p] = queue[p]
      BY <2>2 DEF FillHead, FillTimes, TypeOK, RingOK
    <3>2. Waiting' = Waiting
      BY <3>1, WaitingUnchanged
    <3>3. Taken' = Taken
      BY <2>2 DEF FillHead, FillTimes, Taken
    <3>4. QED
      BY <3>2, <3>3
  <2>3. CASE Publish
    <3>1. /\ Waiting' = Append(Waiting, Record(built))
          /\ Len(Waiting) < Size - 1
          /\ built \in 1 .. MaxRecords
      BY <2>3, PublishAppends
    <3>2. Taken' = Taken
      BY <2>3 DEF Publish, Taken
    <3>3. Abstract!Put(Record(built))
      BY <3>1, <3>2 DEF Abstract!Put
    <3>4. QED
      BY <3>1, <3>3 DEF Abstract!Next
  <2>4. CASE SendHead
    <3>1. Waiting' = Waiting
      BY <2>4, WaitingUnchanged DEF SendHead
    <3>2. queue[out] \in Records /\ sent \in Seq(Records)
      <4>1. queue[out] \in Records
        BY DEF TypeOK, RingOK
      <4>2. sent \in Seq(Records)
        BY DEF TypeOK, HistoryOK
      <4>3. QED
        BY <4>1, <4>2
    <3>3. SubSeq(Append(sent, queue[out]), 1, Len(Append(sent, queue[out])) - 1) = sent
      BY <3>2, FrontOfAppend
    <3>4. Taken' = Taken
      BY <2>4, <3>3 DEF SendHead, Taken
    <3>5. QED
      BY <3>1, <3>4
  <2>5. CASE Release
    <3>1. /\ Waiting # <<>>
          /\ Waiting' = Tail(Waiting)
          /\ Head(Waiting) = queue[out]
      BY <2>5, ReleaseTakes
    <3>2. sent # <<>> /\ sent[Len(sent)] = queue[out] /\ sent \in Seq(Records)
      BY <2>5 DEF Release, Discipline, ReceiverOwnsHead, SentHead, TypeOK, HistoryOK
    <3>3. sent = Append(SubSeq(sent, 1, Len(sent) - 1), sent[Len(sent)])
      BY <3>2, SplitLast
    <3>4. Taken' = Append(Taken, Head(Waiting))
      BY <2>5, <3>1, <3>2, <3>3 DEF Release, Taken
    <3>5. Abstract!Take
      BY <3>1, <3>4 DEF Abstract!Take
    <3>6. QED
      BY <3>5 DEF Abstract!Next
  <2>6. QED
    BY <2>1, <2>2, <2>3, <2>4, <2>5 DEF Next, RendererStep, Drain
<1>3. QED
  BY <1>1, <1>2, TypeCorrect, DisciplineHolds, WaitingIsSeq, PTL
  DEF Spec, ImplementsQueue, Abstract!Spec
=============================================================================
