------------------------- MODULE FrameBuffer_proofs -------------------------
(***************************************************************************)
(* Proofs about FrameBuffer, for every ring size, packet set and bound.    *)
(***************************************************************************)
EXTENDS FrameBuffer, TLAPS

\* Advancing a position by one, as the code does it.
LEMMA NextPosition ==
  ASSUME NEW p \in Slots
  PROVE  (p + 1) % Size = IF p + 1 = Size THEN 0 ELSE p + 1
<1>1. CASE p + 1 = Size
  BY <1>1, SizeAssumption DEF Slots
<1>2. CASE p + 1 # Size
  BY <1>2, SizeAssumption DEF Slots
<1>3. QED
  BY <1>1, <1>2

LEMMA ModInRing ==
  ASSUME NEW a \in Int
  PROVE  a % Size \in Slots
BY SizeAssumption DEF Slots

LEMMA PacketTypes ==
  ASSUME NEW p \in Packets
  PROVE  p.fid \in Nat \ {0} /\ p.pid \in Nat /\ p.total_length \in Nat
BY PacketsAssumption DEF frame_packet

LEMMA InitTyped == Init => TypeOK
BY SizeAssumption, LimitAssumption
DEF Init, fb_create, TypeOK, Slots, Pids, Bits, Meta, Garbage

LEMMA TypeStep == TypeOK /\ [Next]_vars => TypeOK'
<1> SUFFICES ASSUME TypeOK, [Next]_vars PROVE TypeOK'
  OBVIOUS
<1> USE DEF TypeOK, slots, receiverVars, rendererVars
<1>0. packet.fid \in Nat /\ packet.pid \in Nat /\ packet.total_length \in Nat
  BY PacketTypes
<1>1. CASE Receive
  BY <1>1 DEF Receive
<1>2. CASE ReadOut
  BY <1>2, SizeAssumption DEF ReadOut, Slots
<1>3. CASE InitSlot
  <2>1. pos \in Nat /\ pos + 1 \in 0 .. Size /\ rout \in Nat
    BY <1>3, SizeAssumption DEF InitSlot, Slots
  <2>2. (rout + pos) % Size \in Slots /\ packet.fid + pos \in Nat
    BY <2>1, <1>0, ModInRing
  <2>3. QED
    BY <1>3, <2>1, <2>2 DEF InitSlot
<1>4. CASE PublishInit
  BY <1>4, SizeAssumption DEF PublishInit, Slots
<1>5. CASE Locate
  <2>1. packet.fid - fid[rout] \in Int /\ rout \in Int
    BY <1>0, SizeAssumption DEF Slots
  <2>2. (rout + (packet.fid - fid[rout])) % Size \in Slots
    BY <2>1, ModInRing
  <2>3. QED
    BY <1>5, <2>2 DEF Locate
<1>6. CASE SetLength
  BY <1>6, <1>0 DEF SetLength
<1>7. CASE SetTotal
  BY <1>7, <1>0 DEF SetTotal, TotalPackets
<1>8. CASE ReadByte
  BY <1>8 DEF ReadByte
<1>9. CASE WriteByte
  BY <1>9, <1>0 DEF WriteByte, Bits
<1>10. CASE CopyPayload
  <2>1. pos \in Slots /\ queue[pos] \in [Pids -> Nat]
    BY <1>10 DEF CopyPayload
  <2>2. [queue[pos] EXCEPT ![packet.pid] = packet.fid] \in [Pids -> Nat]
    BY <2>1, <1>0
  <2>3. QED
    BY <1>10, <2>1, <2>2 DEF CopyPayload
<1>11. CASE Check
  BY <1>11, LimitAssumption DEF Check, NotReady
<1>12. CASE CountPackets
  BY <1>12, LimitAssumption DEF CountPackets, NotReady
<1>13. CASE TestInit
  BY <1>13 DEF TestInit
<1>14. CASE ReadLength
  BY <1>14 DEF ReadLength
<1>15. CASE CopyOut
  BY <1>15 DEF CopyOut
<1>16. CASE CopyMeta
  BY <1>16 DEF CopyMeta, Meta
<1>17. CASE CopyBitmap
  BY <1>17 DEF CopyBitmap, Meta
<1>18. CASE ClearBitmap
  BY <1>18 DEF ClearBitmap
<1>19. CASE BumpFid
  <2>1. fid[out] + Size \in Nat
    BY SizeAssumption
  <2>2. QED
    BY <1>19, <2>1 DEF BumpFid
<1>20. CASE ClearLength
  BY <1>20 DEF ClearLength
<1>21. CASE ClearTotal
  BY <1>21 DEF ClearTotal
<1>22. CASE AdvanceOut
  <2>1. out + 1 \in Int
    BY SizeAssumption DEF Slots
  <2>2. (out + 1) % Size \in Slots
    BY <2>1, ModInRing
  <2>3. QED
    BY <1>22, <2>2 DEF AdvanceOut
<1>23. CASE Report
  BY <1>23, LimitAssumption DEF Report, Meta
<1>24. CASE UNCHANGED vars
  BY <1>24 DEF vars
<1>25. QED
  BY <1>1, <1>2, <1>3, <1>4, <1>5, <1>6, <1>7, <1>8, <1>9, <1>10, <1>11,
     <1>12, <1>13, <1>14, <1>15, <1>16, <1>17, <1>18, <1>19, <1>20, <1>21,
     <1>22, <1>23, <1>24
  DEF Next, Enqueue, InitSlots, RendererStep, Dequeue

\* Every field, cursor and local variable of the two threads keeps its type;
\* in particular both read positions stay inside the ring.
THEOREM TypeCorrect == Spec => []TypeOK
BY InitTyped, TypeStep, PTL DEF Spec

-----------------------------------------------------------------------------
(* Congruence modulo the ring.                                             *)

LEMMA CongruentIntro ==
  ASSUME NEW a \in Nat, NEW b \in Nat, NEW k \in Int, a = b + k * Size
  PROVE  Congruent(a, b)
<1>1. k >= 0 => k * Size >= k
  BY SizeAssumption
<1>2. k < 0 => k * Size <= k
  BY SizeAssumption
<1>3. k \in -(a + b) .. a + b
  BY <1>1, <1>2, SizeAssumption
<1>4. QED
  BY <1>3 DEF Congruent

LEMMA CongruentShift ==
  ASSUME NEW a \in Nat, NEW b \in Nat, Congruent(a, b)
  PROVE  Congruent(a, b + Size)
<1>1. PICK k \in -(a + b) .. a + b : a = b + k * Size
  BY DEF Congruent
<1>2. k \in Int /\ k - 1 \in Int /\ b + Size \in Nat
  BY SizeAssumption
<1>3. a = (b + Size) + (k - 1) * Size
  BY <1>1, <1>2, SizeAssumption
<1>4. QED
  BY <1>2, <1>3, CongruentIntro

\* When the ring moves, and when it does not.
LEMMA Movers ==
  ASSUME [Next]_vars
  PROVE  \/ InitSlot \/ PublishInit \/ BumpFid \/ AdvanceOut
         \/ UNCHANGED <<init, out, fid>> /\ (Bumped' <=> Bumped)
BY DEF Next, Enqueue, InitSlots, RendererStep, Dequeue, vars, slots,
  receiverVars, rendererVars, Bumped, Receive, ReadOut, Locate, SetLength,
  SetTotal, ReadByte, WriteByte, CopyPayload, Check, CountPackets, NotReady,
  TestInit, ReadLength, CopyOut, CopyMeta, CopyBitmap, ClearBitmap,
  ClearLength, ClearTotal, Report

LEMMA RingStays ==
  ASSUME UNCHANGED <<init, out, fid>>, Bumped' <=> Bumped
  PROVE  /\ HeadFid' = HeadFid
         /\ FirstWanted' = FirstWanted
         /\ SlotsAreTheWindow => SlotsAreTheWindow'
BY DEF HeadFid, FirstWanted, SlotsAreTheWindow, Distance

\* Renumbering a slot leaves the head where it is; moving `out' advances it.
LEMMA BumpKeepsHead ==
  ASSUME TypeOK, SlotsAreTheWindow, init = 0, BumpFid
  PROVE  HeadFid' = HeadFid /\ SlotsAreTheWindow'
<1>1. ~Bumped /\ Bumped'
  BY DEF BumpFid, Bumped
<1>2. fid'[out] = fid[out] + Size /\ out' = out
  BY DEF BumpFid, TypeOK
<1>3. \A p \in Slots : p # out => fid'[p] = fid[p]
  BY DEF BumpFid, TypeOK
<1>4. HeadFid' = HeadFid
  BY <1>1, <1>2, SizeAssumption DEF HeadFid, TypeOK
<1>5. \A p \in Slots : Distance(p)' = Distance(p)
  BY <1>2 DEF Distance
<1>6. fid[out] = HeadFid
  BY <1>1 DEF HeadFid
<1>7. SlotsAreTheWindow'
  BY <1>1, <1>2, <1>3, <1>4, <1>5, <1>6 DEF SlotsAreTheWindow
<1>8. QED
  BY <1>4, <1>7

LEMMA AdvanceMovesHead ==
  ASSUME TypeOK, SlotsAreTheWindow, init = 0, AdvanceOut
  PROVE  HeadFid' = HeadFid + 1 /\ SlotsAreTheWindow'
<1>1. Bumped /\ ~Bumped' /\ fid' = fid
  BY DEF AdvanceOut, Bumped, slots
<1>2. out' = IF out + 1 = Size THEN 0 ELSE out + 1
  BY NextPosition DEF TypeOK, AdvanceOut
<1>3. out \in Slots /\ out' \in Slots /\ HeadFid \in Int
  BY <1>2, SizeAssumption DEF TypeOK, Slots, HeadFid
<1>4. fid[out] = HeadFid + Size
  BY <1>1, SizeAssumption DEF HeadFid, TypeOK
<1>5. \A p \in Slots : p # out => fid[p] = HeadFid + Distance(p)
  BY DEF SlotsAreTheWindow
<1>6. \A p \in Slots : p # out => Distance(p)' = Distance(p) - 1
  BY <1>2, <1>3, SizeAssumption DEF Distance, Slots
<1>7. \A p \in Slots : p = out => Distance(p)' = Size - 1
  BY <1>2, <1>3, SizeAssumption DEF Distance, Slots
<1>8. HeadFid' = fid[out']
  BY <1>1, <1>3 DEF HeadFid, TypeOK
<1>9. HeadFid' = HeadFid + 1
  <2>1. CASE Size = 1
    BY <2>1, <1>2, <1>3, <1>4, <1>8 DEF Slots
  <2>2. CASE Size # 1
    <3>1. out' # out
      BY <2>2, <1>2, <1>3, SizeAssumption DEF Slots
    <3>2. Distance(out') = 1
      BY <2>2, <1>2, <1>3, SizeAssumption DEF Slots, Distance
    <3>3. QED
      BY <3>1, <3>2, <1>3, <1>5, <1>8
  <2>3. QED
    BY <2>1, <2>2
<1>10. ASSUME NEW p \in Slots
       PROVE  fid[p] = HeadFid + 1 + Distance(p)'
  <2>1. CASE p = out
    BY <2>1, <1>3, <1>4, <1>7, SizeAssumption
  <2>2. CASE p # out
    <3>1. Distance(p) \in Int
      BY <1>3, SizeAssumption DEF Distance, Slots
    <3>2. QED
      BY <2>2, <3>1, <1>3, <1>5, <1>6
  <2>3. QED
    BY <2>1, <2>2
<1>11. SlotsAreTheWindow'
  BY <1>1, <1>9, <1>10 DEF SlotsAreTheWindow
<1>12. QED
  BY <1>9, <1>11

\* The first packet publishes Size consecutive frames, itself at the head.
LEMMA PublishStartsWindow ==
  ASSUME TypeOK, Phases, PublishInit
  PROVE  HeadFid' = packet.fid /\ SlotsAreTheWindow'
<1>1. init = 1 /\ out = 0 /\ pos = Size
  BY DEF PublishInit, Phases
<1>2. ~Bumped /\ ~Bumped' /\ out' = out /\ fid' = fid
  BY <1>1 DEF PublishInit, Phases, Bumped, slots, rendererVars
<1>3. \A p \in Slots : fid[p] = packet.fid + p
  BY <1>1 DEF PublishInit, Phases, Slots
<1>4. \A p \in Slots : Distance(p)' = p
  BY <1>1, <1>2 DEF Distance, Slots
<1>5. 0 \in Slots /\ packet.fid \in Nat
  BY SizeAssumption, PacketTypes DEF Slots, TypeOK
<1>6. HeadFid' = packet.fid
  BY <1>1, <1>2, <1>3, <1>5 DEF HeadFid
<1>7. QED
  BY <1>2, <1>3, <1>4, <1>6 DEF SlotsAreTheWindow

-----------------------------------------------------------------------------
(* The slot a packet is stored in.                                         *)

LEMMA HeadFidType ==
  ASSUME TypeOK
  PROVE  HeadFid \in Int
<1>1. fid[out] \in Nat
  BY DEF TypeOK
<1>2. QED
  BY <1>1, SizeAssumption DEF HeadFid

\* The frame number of a slot, as a multiple of Size from its position.
LEMMA SlotFid ==
  ASSUME TypeOK, SlotsAreTheWindow, init = 0, NEW p \in Slots
  PROVE  \E j \in Int : fid[p] = HeadFid + p - out + j * Size
<1>1. /\ p \in Int /\ out \in Int /\ HeadFid \in Int /\ fid[p] \in Int
      /\ 0 \in Int /\ 1 \in Int
  BY SizeAssumption DEF TypeOK, Slots, HeadFid
<1>2. CASE p = out /\ Bumped
  <2>1. fid[p] = HeadFid + p - out + 1 * Size
    BY <1>1, <1>2, SizeAssumption DEF SlotsAreTheWindow
  <2>2. QED
    BY <2>1, <1>1
<1>3. CASE ~(p = out /\ Bumped) /\ p >= out
  <2>1. fid[p] = HeadFid + p - out + 0 * Size
    BY <1>1, <1>3, SizeAssumption DEF SlotsAreTheWindow, Distance
  <2>2. QED
    BY <2>1, <1>1
<1>4. CASE ~(p = out /\ Bumped) /\ ~(p >= out)
  <2>1. fid[p] = HeadFid + p - out + 1 * Size
    BY <1>1, <1>4, SizeAssumption DEF SlotsAreTheWindow, Distance
  <2>2. QED
    BY <2>1, <1>1
<1>5. QED
  BY <1>2, <1>3, <1>4

\* Whatever `out' the receiver read, the slot at the distance of the two frame
\* numbers from it stands for a frame a multiple of Size away.
LEMMA LocatedSlot ==
  ASSUME TypeOK, SlotsAreTheWindow, init = 0,
         NEW f \in Nat, f - fid[rout] >= 0, f - fid[rout] <= Size,
         NEW p, p = (rout + (f - fid[rout])) % Size
  PROVE  p \in Slots /\ Congruent(f, fid[p])
<1> DEFINE d == f - fid[rout]
<1>1. d \in 0 .. Size /\ rout \in Slots /\ rout \in Nat /\ fid[rout] \in Nat
  BY SizeAssumption DEF TypeOK, Slots
<1>2. f = fid[rout] + d
  BY <1>1
<1>3. p = (rout + d) % Size
  OBVIOUS
<1> HIDE DEF d
<1>4. PICK m \in Int : p + m * Size = rout + d /\ p \in Slots
  <2> DEFINE a == rout + d
  <2>1. a \in 0 .. 2 * Size - 1
    BY <1>1, SizeAssumption DEF Slots
  <2> HIDE DEF a
  <2>2. a % Size \in Slots
    BY <2>1, ModInRing
  <2>3. CASE a < Size
    <3>1. a % Size = a
      BY <2>1, <2>3, SizeAssumption
    <3>2. (a % Size) + 0 * Size = a
      BY <3>1, <2>1, SizeAssumption
    <3>3. QED
      BY <3>2, <2>2, <1>3 DEF a
  <2>4. CASE ~(a < Size)
    <3>1. a % Size = a - Size
      BY <2>1, <2>4, SizeAssumption
    <3>2. (a % Size) + 1 * Size = a
      BY <3>1, <2>1, SizeAssumption
    <3>3. QED
      BY <3>2, <2>2, <1>3 DEF a
  <2>5. QED
    BY <2>3, <2>4
<1>5. PICK i \in Int : fid[rout] = HeadFid + rout - out + i * Size
  BY <1>1, SlotFid
<1>6. PICK j \in Int : fid[p] = HeadFid + p - out + j * Size
  BY <1>4, SlotFid
<1>7. p \in Int /\ out \in Int /\ HeadFid \in Int /\ fid[p] \in Nat /\ d \in Int
  <2>1. p \in Slots
    BY <1>4
  <2>2. p \in Int /\ out \in Int
    BY <2>1, SizeAssumption DEF TypeOK, Slots
  <2>3. fid[p] \in Nat
    BY <2>1 DEF TypeOK
  <2>4. HeadFid \in Int
    BY HeadFidType
  <2>5. d \in Int
    BY <1>1, SizeAssumption
  <2>6. QED
    BY <2>2, <2>3, <2>4, <2>5
<1>8. Size \in Int /\ i \in Int /\ j \in Int /\ m \in Int /\ i + m - j \in Int
  BY <1>4, <1>5, <1>6, SizeAssumption
<1> DEFINE is == i * Size
           js == j * Size
           ms == m * Size
<1>9. is \in Int /\ js \in Int /\ ms \in Int /\ is + ms - js = (i + m - j) * Size
  BY <1>8
<1>10. /\ p + ms = rout + d
       /\ fid[rout] = HeadFid + rout - out + is
       /\ fid[p] = HeadFid + p - out + js
  BY <1>4, <1>5, <1>6
<1> HIDE DEF is, js, ms
<1>11. f = fid[p] + (is + ms - js)
  BY <1>1, <1>2, <1>7, <1>9, <1>10
<1>12. f = fid[p] + (i + m - j) * Size
  BY <1>9, <1>11
<1>13. QED
  BY <1>4, <1>7, <1>8, <1>12, CongruentIntro

-----------------------------------------------------------------------------
(* IInv is inductive: one lemma per conjunct.                              *)

LEMMA InitEstablishes == Init => IInv
<1> SUFFICES ASSUME Init PROVE IInv
  OBVIOUS
<1>1. TypeOK
  BY InitTyped
<1>2. init = 1 /\ receiver = "recvfrom" /\ renderer = "check"
  BY DEF Init, fb_create
<1>3. out = 0 /\ rout = 0 /\ fmeta.fid = 0 /\ reported = 0
  BY DEF Init, fb_create
<1>4. \A p \in Slots : \A c \in Pids : queue[p][c] = 0
  BY DEF Init, fb_create
<1>5. Phases
  BY <1>2, <1>3, <1>4 DEF Phases
<1>6. SlotsAreTheWindow /\ NoMisplacement /\ Held /\ Played
  BY <1>2, <1>3 DEF SlotsAreTheWindow, NoMisplacement, Held, Played, Bumped
<1>7. QED
  BY <1>1, <1>5, <1>6 DEF IInv

LEMMA WindowStep ==
  ASSUME IInv, [Next]_vars
  PROVE  SlotsAreTheWindow'
<1> USE DEF IInv
<1>1. CASE InitSlot
  <2>1. init' = 1
    BY <1>1 DEF InitSlot, Phases
  <2>2. QED
    BY <2>1 DEF SlotsAreTheWindow
<1>2. CASE PublishInit
  BY <1>2, PublishStartsWindow
<1>3. CASE BumpFid
  <2>1. init = 0
    BY <1>3 DEF BumpFid, Phases, TypeOK
  <2>2. QED
    BY <1>3, <2>1, BumpKeepsHead
<1>4. CASE AdvanceOut
  <2>1. init = 0
    BY <1>4 DEF AdvanceOut, Phases, TypeOK
  <2>2. QED
    BY <1>4, <2>1, AdvanceMovesHead
<1>5. CASE UNCHANGED <<init, out, fid>> /\ (Bumped' <=> Bumped)
  BY <1>5, RingStays
<1>6. QED
  BY <1>1, <1>2, <1>3, <1>4, <1>5, Movers

\* The head is a frame of the stream as soon as the ring is published.
LEMMA HeadStep ==
  ASSUME IInv, [Next]_vars
  PROVE  init' = 0 => HeadFid' \in Nat \ {0}
<1> USE DEF IInv
<1>1. CASE InitSlot
  BY <1>1 DEF InitSlot, Phases
<1>2. CASE PublishInit
  <2>1. packet.fid \in Nat \ {0}
    BY PacketTypes DEF TypeOK
  <2>2. QED
    BY <1>2, <2>1, PublishStartsWindow
<1>3. CASE BumpFid
  <2>1. init = 0
    BY <1>3 DEF BumpFid, Phases, TypeOK
  <2>2. HeadFid' = HeadFid /\ HeadFid \in Nat \ {0}
    BY <1>3, <2>1, BumpKeepsHead DEF Phases
  <2>3. QED
    BY <2>2
<1>4. CASE AdvanceOut
  <2>1. init = 0
    BY <1>4 DEF AdvanceOut, Phases, TypeOK
  <2>2. HeadFid' = HeadFid + 1 /\ HeadFid \in Nat \ {0}
    BY <1>4, <2>1, AdvanceMovesHead DEF Phases
  <2>3. QED
    BY <2>2
<1>5. CASE UNCHANGED <<init, out, fid>> /\ (Bumped' <=> Bumped)
  <2>1. HeadFid' = HeadFid
    BY <1>5, RingStays
  <2>2. QED
    BY <1>5, <2>1 DEF Phases
<1>6. QED
  BY <1>1, <1>2, <1>3, <1>4, <1>5, Movers

\* Before the ring is published only the receiver's loop touches it.
LEMMA BeforeFirstPacket ==
  ASSUME IInv, [Next]_vars, init = 1
  PROVE  /\ out' = out
         /\ queue' = queue
         /\ fmeta' = fmeta
         /\ renderer' \in {"check", "testInit", "report"}
         /\ (~InitSlot => fid' = fid /\ bitmap' = bitmap)
<1>1. /\ receiver \in {"recvfrom", "readOut", "initSlots"}
      /\ renderer \in {"check", "testInit", "report"}
  BY DEF IInv, Phases
<1>2. CASE Receive \/ ReadOut \/ InitSlot \/ PublishInit
  BY <1>1, <1>2
  DEF Receive, ReadOut, InitSlot, PublishInit, slots, rendererVars
<1>3. CASE Check \/ TestInit \/ Report
  BY <1>1, <1>3 DEF Check, NotReady, TestInit, Report, slots
<1>4. CASE UNCHANGED vars
  BY <1>1, <1>4 DEF vars, slots, rendererVars
<1>5. QED
  BY <1>1, <1>2, <1>3, <1>4
  DEF Next, Enqueue, InitSlots, RendererStep, Dequeue, Locate, SetLength,
    SetTotal, ReadByte, WriteByte, CopyPayload, CountPackets, ReadLength,
    CopyOut, CopyMeta, CopyBitmap, ClearBitmap, BumpFid, ClearLength,
    ClearTotal, AdvanceOut

LEMMA PhasesStep ==
  ASSUME IInv, [Next]_vars
  PROVE  Phases'
<1> USE DEF IInv
<1> DEFINE early == {"recvfrom", "readOut", "initSlots"}
<1>1. receiver' \notin early => init' = 0
  <2>1. init \in {0, 1}
    BY DEF TypeOK
  <2>2. receiver \notin early => init = 0
    BY DEF Phases
  <2>3. CASE receiver \in early
    BY <2>1, <2>3
    DEF Next, Enqueue, InitSlots, RendererStep, Dequeue, vars, slots,
      receiverVars, Receive, ReadOut, InitSlot, PublishInit, Locate, SetLength,
      SetTotal, ReadByte, WriteByte, CopyPayload, Check, CountPackets, TestInit,
      ReadLength, CopyOut, CopyMeta, CopyBitmap, ClearBitmap, BumpFid,
      ClearLength, ClearTotal, AdvanceOut, Report
  <2>4. CASE receiver \notin early
    <3>1. init' = init
      BY <2>4, Movers DEF InitSlot, PublishInit, BumpFid, AdvanceOut
    <3>2. QED
      BY <2>2, <2>4, <3>1
  <2>5. QED
    BY <2>3, <2>4
<1>2. init' = 1 => init = 1
  BY Movers DEF InitSlot, PublishInit, BumpFid, AdvanceOut, TypeOK
<1>3. init' = 1 => rout' = 0
  <2>1. init = 1 => out = 0 /\ rout = 0
    BY DEF Phases
  <2>2. rout' = rout \/ rout' = out
    BY DEF Next, Enqueue, InitSlots, RendererStep, Dequeue, vars, receiverVars,
      Receive, ReadOut, InitSlot, PublishInit, Locate, SetLength, SetTotal,
      ReadByte, WriteByte, CopyPayload, Check, CountPackets, TestInit,
      ReadLength, CopyOut, CopyMeta, CopyBitmap, ClearBitmap, BumpFid,
      ClearLength, ClearTotal, AdvanceOut, Report
  <2>3. QED
    BY <2>1, <2>2, <1>2
<1>4. init' = 1 =>
        /\ out' = 0
        /\ renderer' \in {"check", "testInit", "report"}
        /\ fmeta'.fid = 0
        /\ \A p \in Slots : \A c \in Pids : queue'[p][c] = 0
  BY <1>2, BeforeFirstPacket DEF Phases
<1>5. receiver' = "initSlots" =>
        /\ init' = 1
        /\ \A p \in 0 .. pos' - 1 : fid'[p] = packet'.fid + p /\ bitmap'[p] = {}
  <2> SUFFICES ASSUME receiver' = "initSlots"
               PROVE  /\ init' = 1
                      /\ \A p \in 0 .. pos' - 1 :
                           fid'[p] = packet'.fid + p /\ bitmap'[p] = {}
    OBVIOUS
  <2>1. \/ ReadOut /\ init = 1
        \/ InitSlot
        \/ /\ receiver = "initSlots"
           /\ UNCHANGED <<pos, packet, init>>
           /\ ~InitSlot
    BY DEF Next, Enqueue, InitSlots, RendererStep, Dequeue, vars, receiverVars,
      Receive, ReadOut, InitSlot, PublishInit, Locate, SetLength, SetTotal,
      ReadByte, WriteByte, CopyPayload, Check, CountPackets, TestInit,
      ReadLength, CopyOut, CopyMeta, CopyBitmap, ClearBitmap, BumpFid,
      ClearLength, ClearTotal, AdvanceOut, Report
  <2>2. CASE ReadOut /\ init = 1
    BY <2>2 DEF ReadOut
  <2>3. CASE InitSlot
    <3>1. /\ init = 1 /\ rout = 0 /\ init' = 1 /\ packet' = packet
          /\ pos \in Slots /\ pos' = pos + 1
      BY <2>3, SizeAssumption DEF InitSlot, Phases, TypeOK, Slots
    <3>2. (rout + pos) % Size = pos
      BY <3>1, SizeAssumption DEF Slots
    <3>3. /\ fid' = [fid EXCEPT ![pos] = packet.fid + pos]
          /\ bitmap' = [bitmap EXCEPT ![pos] = {}]
      BY <2>3, <3>2 DEF InitSlot
    <3>4. \A p \in 0 .. pos - 1 : fid[p] = packet.fid + p /\ bitmap[p] = {}
      BY <2>3 DEF InitSlot, Phases
    <3>5. ASSUME NEW p \in 0 .. pos
          PROVE  fid'[p] = packet.fid + p /\ bitmap'[p] = {}
      <4>1. p \in Slots
        BY <3>1, SizeAssumption DEF Slots
      <4>2. CASE p = pos
        BY <4>1, <4>2, <3>3 DEF TypeOK
      <4>3. CASE p # pos
        <5>1. p \in 0 .. pos - 1
          BY <4>3, <3>1, SizeAssumption DEF Slots
        <5>2. QED
          BY <4>1, <4>3, <5>1, <3>3, <3>4 DEF TypeOK
      <4>4. QED
        BY <4>2, <4>3
    <3>6. pos' - 1 = pos
      BY <3>1, SizeAssumption DEF Slots
    <3>7. QED
      BY <3>1, <3>5, <3>6
  <2>4. CASE /\ receiver = "initSlots"
             /\ UNCHANGED <<pos, packet, init>>
             /\ ~InitSlot
    <3>1. init = 1
      BY <2>4 DEF Phases
    <3>2. fid' = fid /\ bitmap' = bitmap
      BY <2>4, <3>1, BeforeFirstPacket
    <3>3. QED
      BY <2>4, <3>1, <3>2 DEF Phases
  <2>5. QED
    BY <2>1, <2>2, <2>3, <2>4
<1>6. QED
  BY <1>1, <1>3, <1>4, <1>5, HeadStep DEF Phases

LEMMA CongruentKept ==
  ASSUME TypeOK, NEW a \in Nat, NEW p \in Slots, Congruent(a, fid[p]),
         fid' = fid \/ BumpFid
  PROVE  Congruent(a, fid'[p])
<1>1. CASE fid' = fid
  BY <1>1
<1>2. CASE BumpFid /\ p = out
  <2>1. fid'[p] = fid[p] + Size /\ fid[p] \in Nat
    BY <1>2 DEF BumpFid, TypeOK
  <2>2. QED
    BY <2>1, CongruentShift
<1>3. CASE BumpFid /\ p # out
  <2>1. fid'[p] = fid[p]
    BY <1>3 DEF BumpFid, TypeOK
  <2>2. QED
    BY <2>1
<1>4. QED
  BY <1>1, <1>2, <1>3

LEMMA HeldStep ==
  ASSUME IInv, [Next]_vars
  PROVE  Held'
<1> USE DEF IInv
<1> DEFINE holding == {"setLength", "setTotal", "readByte", "writeByte", "copy"}
<1>1. receiver' \in holding => Congruent(packet'.fid, fid'[pos'])
  <2> SUFFICES ASSUME receiver' \in holding
               PROVE  Congruent(packet'.fid, fid'[pos'])
    OBVIOUS
  <2>1. \/ Locate
        \/ /\ receiver \in holding
           /\ UNCHANGED <<packet, pos>>
           /\ fid' = fid \/ BumpFid
    BY DEF Next, Enqueue, InitSlots, RendererStep, Dequeue, vars, slots,
      receiverVars, rendererVars, Receive, ReadOut, InitSlot, PublishInit,
      Locate, SetLength, SetTotal, ReadByte, WriteByte, CopyPayload, Check,
      CountPackets, NotReady, TestInit, ReadLength, CopyOut, CopyMeta,
      CopyBitmap, ClearBitmap, BumpFid, ClearLength, ClearTotal, AdvanceOut,
      Report
  <2>2. CASE Locate
    <3>1. init = 0
      BY <2>2 DEF Locate, Phases
    <3>2. packet.fid \in Nat /\ fid[rout] \in Nat
      BY PacketTypes DEF TypeOK
    <3>3. /\ packet.fid - fid[rout] >= 0 /\ packet.fid - fid[rout] <= Size
          /\ pos' = (rout + (packet.fid - fid[rout])) % Size
          /\ packet' = packet /\ fid' = fid
      BY <2>2, <3>2, SizeAssumption DEF Locate, slots
    <3>4. Congruent(packet.fid, fid[pos'])
      BY <3>1, <3>2, <3>3, LocatedSlot
    <3>5. QED
      BY <3>3, <3>4
  <2>3. CASE /\ receiver \in holding
             /\ UNCHANGED <<packet, pos>>
             /\ fid' = fid \/ BumpFid
    <3>1. packet.fid \in Nat /\ pos \in Slots
      BY <2>3, PacketTypes DEF TypeOK
    <3>2. Congruent(packet.fid, fid[pos])
      BY <2>3 DEF Held
    <3>3. Congruent(packet.fid, fid'[pos])
      BY <2>3, <3>1, <3>2, CongruentKept
    <3>4. QED
      BY <2>3, <3>3
  <2>4. QED
    BY <2>1, <2>2, <2>3
<1>2. receiver' = "writeByte" =>
        \A b \in byte' : b.fid # 0 /\ Congruent(b.fid, fid'[pos'])
  <2> SUFFICES ASSUME receiver' = "writeByte", NEW b \in byte'
               PROVE  b.fid # 0 /\ Congruent(b.fid, fid'[pos'])
    OBVIOUS
  <2>1. \/ ReadByte
        \/ /\ receiver = "writeByte"
           /\ UNCHANGED <<byte, pos>>
           /\ fid' = fid \/ BumpFid
    BY DEF Next, Enqueue, InitSlots, RendererStep, Dequeue, vars, slots,
      receiverVars, rendererVars, Receive, ReadOut, InitSlot, PublishInit,
      Locate, SetLength, SetTotal, ReadByte, WriteByte, CopyPayload, Check,
      CountPackets, NotReady, TestInit, ReadLength, CopyOut, CopyMeta,
      CopyBitmap, ClearBitmap, BumpFid, ClearLength, ClearTotal, AdvanceOut,
      Report
  <2>2. CASE ReadByte
    <3>1. init = 0 /\ pos \in Slots /\ pos' = pos /\ fid' = fid /\ b \in bitmap[pos]
      BY <2>2 DEF ReadByte, Phases, TypeOK, slots
    <3>2. QED
      BY <3>1 DEF NoMisplacement
  <2>3. CASE /\ receiver = "writeByte"
             /\ UNCHANGED <<byte, pos>>
             /\ fid' = fid \/ BumpFid
    <3>1. pos \in Slots /\ b \in byte /\ b.fid \in Nat
      BY <2>3 DEF TypeOK, Bits
    <3>2. b.fid # 0 /\ Congruent(b.fid, fid[pos])
      BY <2>3, <3>1 DEF Held
    <3>3. Congruent(b.fid, fid'[pos])
      BY <2>3, <3>1, <3>2, CongruentKept
    <3>4. QED
      BY <2>3, <3>2, <3>3
  <2>4. QED
    BY <2>1, <2>2, <2>3
<1>3. QED
  BY <1>1, <1>2 DEF Held

LEMMA MisplacementStep ==
  ASSUME IInv, [Next]_vars
  PROVE  NoMisplacement'
<1> USE DEF IInv
<1> DEFINE BitsFit == \A p \in Slots : \A b \in bitmap'[p] :
                        b.fid # 0 /\ Congruent(b.fid, fid'[p])
           BytesFit == \A p \in Slots : \A c \in Pids :
                         queue'[p][c] # 0 => Congruent(queue'[p][c], fid'[p])
<1>1. CASE init' = 0 /\ init = 1
  <2>1. PublishInit
    BY <1>1, Movers DEF InitSlot, BumpFid, AdvanceOut
  <2>2. receiver = "initSlots" /\ pos = Size /\ UNCHANGED <<fid, bitmap, queue>>
    BY <2>1 DEF PublishInit, slots
  <2>3. \A p \in Slots : bitmap[p] = {}
    BY <2>2 DEF Phases, Slots
  <2>4. \A p \in Slots : \A c \in Pids : queue[p][c] = 0
    BY <1>1 DEF Phases
  <2>5. QED
    BY <2>2, <2>3, <2>4 DEF NoMisplacement
<1>2. CASE init' = 0 /\ init = 0
  <2>1. ~InitSlot /\ ~PublishInit
    BY <1>2 DEF InitSlot, PublishInit, Phases
  <2>2. fid' = fid \/ BumpFid
    BY <2>1, Movers DEF AdvanceOut, slots
  <2>3. ASSUME NEW p \in Slots, NEW b \in bitmap[p]
        PROVE  b.fid # 0 /\ Congruent(b.fid, fid'[p])
    <3>1. b.fid \in Nat
      BY DEF TypeOK, Bits
    <3>2. b.fid # 0 /\ Congruent(b.fid, fid[p])
      BY <1>2 DEF NoMisplacement
    <3>3. QED
      BY <3>1, <3>2, <2>2, CongruentKept
  <2>4. ASSUME NEW p \in Slots, NEW c \in Pids, queue[p][c] # 0
        PROVE  Congruent(queue[p][c], fid'[p])
    <3>1. queue[p][c] \in Nat
      BY DEF TypeOK
    <3>2. Congruent(queue[p][c], fid[p])
      BY <1>2, <2>4 DEF NoMisplacement
    <3>3. QED
      BY <3>1, <3>2, <2>2, CongruentKept
  <2>5. BitsFit
    <3>1. CASE WriteByte
      <4> DEFINE new == [fid |-> packet.fid, pid |-> packet.pid]
      <4>1. pos \in Slots /\ fid' = fid
        BY <3>1 DEF WriteByte, TypeOK
      <4>2. /\ bitmap'[pos] \subseteq bitmap[pos] \cup byte \cup {new}
            /\ \A p \in Slots : p # pos => bitmap'[p] = bitmap[p]
        BY <3>1, <4>1 DEF WriteByte, TypeOK
      <4>3. new.fid # 0 /\ Congruent(new.fid, fid[pos])
        BY <3>1, PacketTypes DEF WriteByte, Held, TypeOK
      <4>4. \A b \in byte : b.fid # 0 /\ Congruent(b.fid, fid[pos])
        BY <3>1 DEF WriteByte, Held
      <4> HIDE DEF new
      <4>5. \A b \in bitmap'[pos] : b.fid # 0 /\ Congruent(b.fid, fid'[pos])
        BY <4>1, <4>2, <4>3, <4>4, <2>3
      <4>6. QED
        BY <4>2, <4>5, <2>3
    <3>2. CASE ClearBitmap
      <4>1. \A p \in Slots : bitmap'[p] \subseteq bitmap[p]
        BY <3>2 DEF ClearBitmap, TypeOK
      <4>2. QED
        BY <4>1, <2>3
    <3>3. CASE bitmap' = bitmap
      BY <3>3, <2>3
    <3>4. WriteByte \/ ClearBitmap \/ bitmap' = bitmap
      BY <2>1 DEF Next, Enqueue, InitSlots, RendererStep, Dequeue, vars, slots,
        receiverVars, rendererVars, Receive, ReadOut, InitSlot, PublishInit,
        Locate, SetLength, SetTotal, ReadByte, WriteByte, CopyPayload, Check,
        CountPackets, NotReady, TestInit, ReadLength, CopyOut, CopyMeta,
        CopyBitmap, ClearBitmap, BumpFid, ClearLength, ClearTotal, AdvanceOut,
        Report
    <3>5. QED
      BY <3>1, <3>2, <3>3, <3>4
  <2>6. BytesFit
    <3>1. CASE CopyPayload
      <4>1. pos \in Slots /\ fid' = fid
        BY <3>1 DEF CopyPayload, TypeOK
      <4>2. Congruent(packet.fid, fid[pos])
        BY <3>1 DEF CopyPayload, Held
      <4>3. ASSUME NEW p \in Slots, NEW c \in Pids
            PROVE  queue'[p][c] = queue[p][c] \/ (p = pos /\ queue'[p][c] = packet.fid)
        <5>1. /\ p # pos => queue'[p] = queue[p]
              /\ queue'[pos] = IF packet.total_length = 0 THEN queue[pos]
                               ELSE [queue[pos] EXCEPT ![packet.pid] = packet.fid]
          BY <3>1, <4>1 DEF CopyPayload, TypeOK
        <5>2. queue[pos] \in [Pids -> Nat]
          BY <4>1 DEF TypeOK
        <5>3. QED
          BY <5>1, <5>2
      <4>4. QED
        BY <4>1, <4>2, <4>3, <2>4
    <3>2. CASE queue' = queue
      BY <3>2, <2>4
    <3>3. CopyPayload \/ queue' = queue
      BY <2>1 DEF Next, Enqueue, InitSlots, RendererStep, Dequeue, vars, slots,
        receiverVars, rendererVars, Receive, ReadOut, InitSlot, PublishInit,
        Locate, SetLength, SetTotal, ReadByte, WriteByte, CopyPayload, Check,
        CountPackets, NotReady, TestInit, ReadLength, CopyOut, CopyMeta,
        CopyBitmap, ClearBitmap, BumpFid, ClearLength, ClearTotal, AdvanceOut,
        Report
    <3>4. QED
      BY <3>1, <3>2, <3>3
  <2>7. QED
    BY <2>5, <2>6 DEF NoMisplacement
<1>3. init \in {0, 1}
  BY DEF TypeOK
<1>4. CASE init' # 0
  BY <1>4 DEF NoMisplacement
<1>5. QED
  BY <1>1, <1>2, <1>3, <1>4

LEMMA PlayedStep ==
  ASSUME IInv, [Next]_vars
  PROVE  Played'
<1> USE DEF IInv
<1>1. CASE init = 1
  <2>1. /\ fmeta.fid = 0 /\ fmeta' = fmeta
        /\ renderer \in {"check", "testInit", "report"}
        /\ renderer' \in {"check", "testInit", "report"}
    BY <1>1, BeforeFirstPacket DEF Phases
  <2>2. reported = 0
    BY <1>1 DEF Played
  <2>3. reported' = reported \/ reported' = fmeta.fid
    BY DEF Next, Enqueue, InitSlots, RendererStep, Dequeue, vars, slots,
    receiverVars, rendererVars, Receive, ReadOut, InitSlot, PublishInit,
    Locate, SetLength, SetTotal, ReadByte, WriteByte, CopyPayload, Check,
    CountPackets, NotReady, TestInit, ReadLength, CopyOut, CopyMeta,
    CopyBitmap, ClearBitmap, BumpFid, ClearLength, ClearTotal, AdvanceOut,
    Report
  <2>4. QED
    BY <2>1, <2>2, <2>3 DEF Played, Bumped
<1>2. CASE init = 0 /\ UNCHANGED rendererVars
  <2>1. init' = 0 /\ HeadFid' = HeadFid
    <3>1. ~InitSlot /\ ~PublishInit /\ ~BumpFid /\ ~AdvanceOut
      BY <1>2 DEF InitSlot, PublishInit, BumpFid, AdvanceOut, Phases, rendererVars
    <3>2. QED
      BY <1>2, <3>1, Movers, RingStays
  <2>2. QED
    BY <1>2, <2>1 DEF Played, Bumped, rendererVars
<1>3. CASE init = 0 /\ BumpFid
  <2>1. HeadFid' = HeadFid
    BY <1>3, BumpKeepsHead
  <2>2. QED
    BY <1>3, <2>1 DEF Played, Bumped, BumpFid
<1>4. CASE init = 0 /\ AdvanceOut
  <2>1. HeadFid' = HeadFid + 1
    BY <1>4, AdvanceMovesHead
  <2>2. fmeta.fid = HeadFid /\ (reported = 0 \/ HeadFid = reported + 1)
    BY <1>4 DEF Played, Bumped, AdvanceOut
  <2>3. QED
    BY <1>4, <2>1, <2>2 DEF Played, Bumped, AdvanceOut
<1>5. CASE init = 0 /\ RendererStep /\ ~BumpFid /\ ~AdvanceOut
  <2>1. init' = 0 /\ out' = out /\ fid' = fid
    BY <1>5 DEF RendererStep, Dequeue, Check, CountPackets, TestInit,
      ReadLength, CopyOut, CopyMeta, CopyBitmap, ClearBitmap, ClearLength,
      ClearTotal, Report, slots
  <2>2. Bumped' <=> Bumped
    BY <1>5 DEF RendererStep, Dequeue, Check, CountPackets, NotReady, TestInit,
      ReadLength, CopyOut, CopyMeta, CopyBitmap, ClearBitmap, ClearLength,
      ClearTotal, Report, Bumped
  <2>3. HeadFid' = HeadFid
    BY <1>5, <2>1, <2>2, RingStays
  <2>4. CASE Check \/ CountPackets \/ TestInit \/ ReadLength \/ CopyOut
    BY <1>5, <2>1, <2>3, <2>4
    DEF Check, CountPackets, NotReady, TestInit, ReadLength, CopyOut, Played, Bumped
  <2>5. CASE CopyMeta
    <3>1. fmeta'.fid = HeadFid
      BY <2>5 DEF CopyMeta, HeadFid, Bumped
    <3>2. QED
      BY <1>5, <2>1, <2>3, <2>5, <3>1 DEF CopyMeta, Played, Bumped
  <2>6. CASE CopyBitmap \/ ClearBitmap \/ ClearLength \/ ClearTotal
    <3>1. fmeta'.fid = fmeta.fid
      BY <2>6 DEF CopyBitmap, ClearBitmap, ClearLength, ClearTotal
    <3>2. QED
      BY <1>5, <2>1, <2>3, <2>6, <3>1
      DEF CopyBitmap, ClearBitmap, ClearLength, ClearTotal, Played, Bumped
  <2>7. CASE Report
    BY <1>5, <2>1, <2>3, <2>7 DEF Report, Played, Bumped
  <2>8. QED
    BY <1>5, <2>4, <2>5, <2>6, <2>7 DEF RendererStep, Dequeue
<1>6. init \in {0, 1}
  BY DEF TypeOK
<1>7. RendererStep \/ UNCHANGED rendererVars
  BY DEF Next, Enqueue, InitSlots, RendererStep, Dequeue, vars, slots,
    receiverVars, rendererVars, Receive, ReadOut, InitSlot, PublishInit,
    Locate, SetLength, SetTotal, ReadByte, WriteByte, CopyPayload, Check,
    CountPackets, NotReady, TestInit, ReadLength, CopyOut, CopyMeta,
    CopyBitmap, ClearBitmap, BumpFid, ClearLength, ClearTotal, AdvanceOut,
    Report
<1>8. QED
  BY <1>1, <1>2, <1>3, <1>4, <1>5, <1>6, <1>7

-----------------------------------------------------------------------------
(* The theorems.                                                           *)

LEMMA Invariance == Spec => []IInv
<1>1. TypeOK /\ [Next]_vars => TypeOK'
  BY TypeStep
<1>2. IInv /\ [Next]_vars => IInv'
  BY <1>1, WindowStep, MisplacementStep, PhasesStep, HeldStep, PlayedStep DEF IInv
<1>3. QED
  BY <1>2, InitEstablishes, PTL DEF Spec

\* The slots stand for Size consecutive frames whatever the interleaving of
\* fb_enqueue_packet() and fb_dequeue_frame(), for every ring size.
THEOREM WindowHolds == Spec => []SlotsAreTheWindow
<1>1. IInv => SlotsAreTheWindow
  BY DEF IInv
<1>2. QED
  BY <1>1, Invariance, PTL

\* Packets and payloads only ever reach the slot their frame maps to.
THEOREM NoMisplacementHolds == Spec => []NoMisplacement
<1>1. IInv => NoMisplacement
  BY DEF IInv
<1>2. QED
  BY <1>1, Invariance, PTL

\* Frames are reported to the streamer consecutively, each of them once.
THEOREM InOrderHolds == Spec => InOrder
<1>1. IInv /\ [Next]_vars =>
        [Reports => reported = 0 \/ reported' = reported + 1]_vars
  <2> SUFFICES ASSUME IInv, [Next]_vars, Reports
               PROVE  reported = 0 \/ reported' = reported + 1
    OBVIOUS
  <2>1. Report
    BY DEF Reports, Next, Enqueue, InitSlots, RendererStep, Dequeue, vars, slots,
    receiverVars, rendererVars, Receive, ReadOut, InitSlot, PublishInit,
    Locate, SetLength, SetTotal, ReadByte, WriteByte, CopyPayload, Check,
    CountPackets, NotReady, TestInit, ReadLength, CopyOut, CopyMeta,
    CopyBitmap, ClearBitmap, BumpFid, ClearLength, ClearTotal, AdvanceOut,
    Report
  <2>2. reported' = fmeta.fid /\ renderer = "report"
    BY <2>1 DEF Report
  <2>3. QED
    BY <2>2 DEF IInv, Played
<1>2. QED
  BY <1>1, Invariance, PTL DEF Spec, InOrder

\* No packet of a frame that was already taken is accepted, although `out' may
\* move between the two reads that decide.
THEOREM AcceptedNotStaleHolds == Spec => AcceptedNotStale
<1>1. IInv /\ [Next]_vars => [Accepts => packet.fid >= FirstWanted]_vars
  <2> SUFFICES ASSUME IInv, [Next]_vars, Accepts
               PROVE  packet.fid >= FirstWanted
    OBVIOUS
  <2> USE DEF IInv
  <2>1. Locate
    BY DEF Accepts, Next, Enqueue, InitSlots, RendererStep, Dequeue, vars,
      receiverVars, Receive, ReadOut, InitSlot, PublishInit, SetLength, SetTotal,
      ReadByte, WriteByte, CopyPayload, Check, CountPackets, TestInit, ReadLength,
      CopyOut, CopyMeta, CopyBitmap, ClearBitmap, BumpFid, ClearLength,
      ClearTotal, AdvanceOut, Report
  <2>2. init = 0 /\ rout \in Slots /\ out \in Slots
    BY <2>1 DEF Locate, Phases, TypeOK
  <2>3. packet.fid \in Nat /\ fid[rout] \in Nat /\ HeadFid \in Int
    BY <2>2, PacketTypes, HeadFidType DEF TypeOK
  <2>4. packet.fid - fid[rout] >= 0
    BY <2>1, <2>3 DEF Locate, Accepts
  <2>5. fid[rout] >= FirstWanted
    <3>1. CASE rout = out
      BY <3>1, <2>2, <2>3, SizeAssumption DEF SlotsAreTheWindow, FirstWanted, HeadFid
    <3>2. CASE rout # out
      <4>1. Distance(rout) \in Int /\ Distance(rout) >= 1
        BY <3>2, <2>2, SizeAssumption DEF Distance, Slots
      <4>2. fid[rout] = HeadFid + Distance(rout)
        BY <3>2, <2>2 DEF SlotsAreTheWindow
      <4>3. QED
        BY <4>1, <4>2, <2>3 DEF FirstWanted
    <3>3. QED
      BY <3>1, <3>2
  <2>6. FirstWanted \in Int
    BY <2>3 DEF FirstWanted
  <2>7. QED
    BY <2>3, <2>4, <2>5, <2>6
<1>2. QED
  BY <1>1, Invariance, PTL DEF Spec, AcceptedNotStale
=============================================================================
