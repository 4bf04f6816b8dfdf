------------------------ MODULE LegacyWatcher_proofs -------------------------
(***************************************************************************)
(* Proofs about LegacyWatcher, for every ring size, limit and packet set.  *)
(***************************************************************************)
EXTENDS LegacyWatcher, FiniteSetTheorems, TLAPS

-----------------------------------------------------------------------------
(* Positions of the ring.                                                  *)

LEMMA SizeType == Size \in Nat \ {0}
BY ConstantsAssumption

\* How far a slot is from the head.
LEMMA Distance ==
  ASSUME NEW q \in Slots, NEW o \in Slots
  PROVE  (q - o) % Size = IF q >= o THEN q - o ELSE q - o + Size
<1>1. CASE q >= o
  BY <1>1, ConstantsAssumption DEF Slots
<1>2. CASE ~(q >= o)
  BY <1>2, ConstantsAssumption DEF Slots
<1>3. QED
  BY <1>1, <1>2

LEMMA NoDistance ==
  ASSUME NEW o \in Slots
  PROVE  (o - o) % Size = 0
BY Distance, SizeType DEF Slots

LEMMA InRing ==
  ASSUME NEW a \in Int
  PROVE  a % Size \in Slots
BY ConstantsAssumption DEF Slots

\* When the head advances, the slot it leaves becomes the last one of the ring
\* and every other one is one nearer.
LEMMA HeadAdvances ==
  ASSUME NEW o \in Slots, NEW n2, n2 = (o + 1) % Size
  PROVE  /\ n2 \in Slots
         /\ \A q \in Slots :
              (q - n2) % Size = IF q = o THEN Size - 1 ELSE ((q - o) % Size) - 1
<1>1. n2 = IF o + 1 = Size THEN 0 ELSE o + 1
  <2>1. CASE o + 1 = Size
    BY <2>1, ConstantsAssumption DEF Slots
  <2>2. CASE o + 1 # Size
    BY <2>2, ConstantsAssumption DEF Slots
  <2>3. QED
    BY <2>1, <2>2
<1>2. n2 \in Slots
  BY <1>1, ConstantsAssumption DEF Slots
<1>3. ASSUME NEW q \in Slots
      PROVE  (q - n2) % Size = IF q = o THEN Size - 1 ELSE ((q - o) % Size) - 1
  <2>1. /\ (q - n2) % Size = IF q >= n2 THEN q - n2 ELSE q - n2 + Size
        /\ (q - o) % Size = IF q >= o THEN q - o ELSE q - o + Size
    BY <1>2, Distance
  <2>2. QED
    BY <1>1, <2>1, SizeType DEF Slots
<1>4. QED
  BY <1>2, <1>3

-----------------------------------------------------------------------------
(* Slots and counts.                                                       *)

LEMMA PacketType ==
  ASSUME TypeOK
  PROVE  packet.fid \in Nat /\ packet.pid \in Nat /\ packet.total_length \in Nat
BY ConstantsAssumption DEF TypeOK, frame_packet

\* A store to one field keeps the type of a slot and, but for fid, its frame.
LEMMA StoredSlot ==
  ASSUME NEW s \in Slot
  PROVE  /\ \A v \in Nat : /\ [s EXCEPT !["fid"] = v] \in Slot
                           /\ [s EXCEPT !["fid"] = v].fid = v
                           /\ [s EXCEPT !["total_length"] = v] \in Slot
                           /\ [s EXCEPT !["total_length"] = v].fid = s.fid
                           /\ [s EXCEPT !["total_packet"] = v] \in Slot
                           /\ [s EXCEPT !["total_packet"] = v].fid = s.fid
         /\ \A v \in SUBSET Bits : /\ [s EXCEPT !["bitmap"] = v] \in Slot
                                   /\ [s EXCEPT !["bitmap"] = v].fid = s.fid
         /\ \A v \in [Pids -> Nat] : /\ [s EXCEPT !["data"] = v] \in Slot
                                     /\ [s EXCEPT !["data"] = v].fid = s.fid
BY DEF Slot

LEMMA EmptySlot ==
  ASSUME NEW f \in Nat, NEW d \in [Pids -> Nat]
  PROVE  Empty(f, d) \in Slot /\ Empty(f, d).fid = f
BY DEF Empty, Slot

\* However many bits there are, finitely many of them are counted.
LEMMA NrOnesType ==
  ASSUME NEW bits \in SUBSET Bits, NEW k \in Nat
  PROVE  NrOnes(bits, k) \in Nat
<1> DEFINE pids == {b.pid : b \in {c \in bits : c.pid < Least(k, BitmapSize)}}
<1>1. Least(k, BitmapSize) \in Nat
  BY ConstantsAssumption DEF Least
<1>2. pids \subseteq 0 .. Least(k, BitmapSize) - 1
  BY <1>1 DEF Bits
<1>3. IsFiniteSet(0 .. Least(k, BitmapSize) - 1)
  BY <1>1, FS_Interval
<1>4. IsFiniteSet(pids)
  BY <1>2, <1>3, FS_Subset
<1>5. Cardinality(pids) \in Nat
  BY <1>4, FS_CardinalityType
<1>6. QED
  BY <1>5 DEF NrOnes

-----------------------------------------------------------------------------
(* Types and the limit.                                                    *)

\* The polls of a frame are counted twice, by the code (wait) and by the
\* history (polls): the code never counts more, and a frame that is being asked
\* for is below the limit.
Waits ==
  /\ wait <= polls
  /\ renderer \in {"poll", "count", "compare"} => wait < WaitLimit
  /\ SkipsOnlyTheOverdue

Typed == TypeOK /\ Waits

LEMMA InitTyped == Init => Typed
<1> SUFFICES ASSUME Init PROVE Typed
  OBVIOUS
<1>1. [c \in Pids |-> 0] \in [Pids -> Nat]
  OBVIOUS
<1>2. slot \in [Slots -> Slot]
  BY <1>1, EmptySlot DEF Init
<1>3. fmeta \in Meta /\ buffer \in [Pids -> Nat] /\ out \in Slots
  BY ConstantsAssumption DEF Init, Meta, Slots
<1>4. Waits
  BY ConstantsAssumption DEF Init, Waits, SkipsOnlyTheOverdue
<1>5. QED
  BY <1>2, <1>3, <1>4, ConstantsAssumption DEF Init, Typed, TypeOK, Slots

LEMMA ReceiverTyped == Typed /\ (Receive \/ Enqueue) => Typed'
<1> SUFFICES ASSUME Typed, Receive \/ Enqueue PROVE Typed'
  OBVIOUS
<1>1. Waits'
  BY DEF Receive, Enqueue, ReadOut, Locate, StoreMeta, Store, ReadByte, WriteByte,
         CopyPayload, rendererVars, historyVars, Typed, Waits, SkipsOnlyTheOverdue
<1>2. packet.fid \in Nat /\ packet.pid \in Nat /\ packet.total_length \in Nat
  BY PacketType DEF Typed
<1>3. slot \in [Slots -> Slot] /\ pos \in Slots /\ out \in Slots
  BY DEF Typed, TypeOK
<1>4. CASE Receive
  BY <1>1, <1>4 DEF Receive, Typed, TypeOK, rendererVars, historyVars
<1>5. CASE ReadOut
  <2>1. ASSUME NEW p \in Slots
        PROVE  Empty(packet.fid + ((p - out) % Size), slot[p].data) \in Slot
    <3>1. p - out \in Int
      BY <1>3, ConstantsAssumption DEF Slots
    <3>2. (p - out) % Size \in Nat
      BY <3>1, InRing, ConstantsAssumption DEF Slots
    <3>3. slot[p].data \in [Pids -> Nat]
      BY <1>3 DEF Slot
    <3>4. QED
      BY <1>2, <3>2, <3>3, EmptySlot
  <2>2. slot' \in [Slots -> Slot]
    BY <1>3, <1>5, <2>1 DEF ReadOut
  <2>3. QED
    BY <1>1, <1>5, <2>2 DEF ReadOut, Typed, TypeOK, rendererVars, historyVars
<1>6. CASE Locate
  <2>1. pos + (packet.fid - slot[pos].fid) \in Int
    BY <1>2, <1>3, ConstantsAssumption DEF Slot, Slots
  <2>2. (pos + (packet.fid - slot[pos].fid)) % Size \in Slots
    BY <2>1, InRing
  <2>3. QED
    BY <1>1, <1>6, <2>2 DEF Locate, Typed, TypeOK, rendererVars, historyVars
<1>7. CASE ReadByte
  <2>1. slot[pos].bitmap \subseteq Bits
    BY <1>3 DEF Slot
  <2>2. byte' \in SUBSET Bits
    BY <1>7, <2>1 DEF ReadByte
  <2>3. QED
    BY <1>1, <1>7, <2>2 DEF ReadByte, Typed, TypeOK, rendererVars, historyVars
<1>8. CASE StoreMeta \/ WriteByte \/ CopyPayload
  <2>1. slot[pos] \in Slot
    BY <1>3
  <2>2. TotalPackets(packet) \in Nat
    BY <1>2 DEF TotalPackets
  <2>3. {b \in slot[pos].bitmap : b.pid \div 8 # packet.pid \div 8}
          \cup byte \cup {[fid |-> packet.fid, pid |-> packet.pid]} \in SUBSET Bits
    <3>1. [fid |-> packet.fid, pid |-> packet.pid] \in Bits
      BY <1>2 DEF Bits
    <3>2. slot[pos].bitmap \subseteq Bits /\ byte \subseteq Bits
      BY <2>1 DEF Typed, TypeOK, Slot
    <3>3. QED
      BY <3>1, <3>2
  <2>4. (IF packet.total_length = 0 THEN slot[pos].data
         ELSE [slot[pos].data EXCEPT ![packet.pid] = packet.fid]) \in [Pids -> Nat]
    BY <1>2, <2>1 DEF Slot
  <2>5. \E s \in Slot : slot' = [slot EXCEPT ![pos] = s]
    BY <1>2, <1>8, <2>1, <2>2, <2>3, <2>4, StoredSlot
    DEF StoreMeta, WriteByte, CopyPayload, Store
  <2>6. slot' \in [Slots -> Slot]
    BY <1>3, <2>5
  <2>7. byte' \in SUBSET Bits
    BY <1>8 DEF StoreMeta, WriteByte, CopyPayload, Typed, TypeOK
  <2>8. QED
    BY <1>1, <1>8, <2>6, <2>7
    DEF StoreMeta, WriteByte, CopyPayload, Store, Typed, TypeOK, rendererVars, historyVars
<1>9. QED
  BY <1>4, <1>5, <1>6, <1>7, <1>8 DEF Enqueue

LEMMA RefuseWaits ==
  ASSUME Typed, Refuse, renderer \in {"poll", "compare"}
  PROVE  /\ wait' \in 0 .. WaitLimit /\ polls' \in 0 .. WaitLimit
         /\ renderer' \in {"poll", "skip"} /\ Waits'
BY ConstantsAssumption DEF Typed, TypeOK, Waits, SkipsOnlyTheOverdue, Refuse, Least

LEMMA RendererTyped == Typed /\ RendererStep => Typed'
<1> SUFFICES ASSUME Typed, RendererStep PROVE Typed'
  OBVIOUS
<1>1. slot \in [Slots -> Slot] /\ out \in Slots /\ slot[out] \in Slot
  BY DEF Typed, TypeOK
<1>2. CASE Poll
  <2>1. CASE init = 1
    BY <1>2, <2>1, RefuseWaits DEF Poll, Typed, TypeOK, receiverVars, historyVars
  <2>2. CASE init # 1
    BY <1>2, <2>2 DEF Poll, Typed, TypeOK, Waits, SkipsOnlyTheOverdue, receiverVars, historyVars
  <2>3. QED
    BY <2>1, <2>2
<1>3. CASE Count
  <2>1. n' \in Nat
    BY <1>1, <1>3, NrOnesType DEF Count, Slot
  <2>2. QED
    BY <1>3, <2>1 DEF Count, Typed, TypeOK, Waits, SkipsOnlyTheOverdue, receiverVars, historyVars
<1>4. CASE Compare
  <2>1. CASE n = slot[out].total_packet
    BY <1>4, <2>1 DEF Compare, Typed, TypeOK, Waits, SkipsOnlyTheOverdue, receiverVars, historyVars
  <2>2. CASE n # slot[out].total_packet
    BY <1>4, <2>2, RefuseWaits DEF Compare, Typed, TypeOK, receiverVars, historyVars
  <2>3. QED
    BY <2>1, <2>2
<1>5. CASE Skip
  BY <1>5, ConstantsAssumption
  DEF Skip, Typed, TypeOK, Waits, SkipsOnlyTheOverdue, receiverVars, historyVars
<1>6. CASE ReadLength
  <2>1. size' \in Nat
    BY <1>1, <1>6 DEF ReadLength, Slot
  <2>2. QED
    BY <1>6, <2>1 DEF ReadLength, Typed, TypeOK, Waits, SkipsOnlyTheOverdue, receiverVars, historyVars
<1>7. CASE CopyOut
  <2>1. slot[out].data \in [Pids -> Nat] /\ buffer \in [Pids -> Nat]
    BY <1>1 DEF Slot, Typed, TypeOK
  <2>2. buffer' \in [Pids -> Nat]
    BY <1>7, <2>1 DEF CopyOut
  <2>3. QED
    BY <1>7, <2>2 DEF CopyOut, Typed, TypeOK, Waits, SkipsOnlyTheOverdue, receiverVars, historyVars
<1>8. CASE CopyMeta
  <2>1. fmeta' \in Meta
    BY <1>1, <1>8 DEF CopyMeta, Meta, Slot
  <2>2. QED
    BY <1>8, <2>1 DEF CopyMeta, Typed, TypeOK, Waits, SkipsOnlyTheOverdue, receiverVars, historyVars
<1>9. CASE ClearSlot
  <2>1. slot[out].fid + Size \in Nat /\ {} \in SUBSET Bits
    BY <1>1, ConstantsAssumption DEF Slot
  <2>2. \E s \in Slot : slot' = [slot EXCEPT ![out] = s]
    BY <1>1, <1>9, <2>1, StoredSlot DEF ClearSlot, Clear
  <2>3. slot' \in [Slots -> Slot]
    BY <1>1, <2>2
  <2>4. QED
    BY <1>9, <2>3
    DEF ClearSlot, Clear, Typed, TypeOK, Waits, SkipsOnlyTheOverdue, receiverVars, historyVars
<1>10. CASE Advance
  <2>1. (out + 1) % Size \in Slots
    BY <1>1, HeadAdvances
  <2>2. wait' = 0 /\ polls' = 0 /\ first' \in BOOLEAN /\ renderer' = "poll"
    BY <1>10 DEF Advance
  <2>3. Waits' /\ wait' \in 0 .. WaitLimit /\ polls' \in 0 .. WaitLimit
    BY <2>2, ConstantsAssumption DEF Waits, SkipsOnlyTheOverdue
  <2>4. QED
    BY <1>10, <2>1, <2>2, <2>3
    DEF Advance, Typed, TypeOK, Waits, SkipsOnlyTheOverdue, receiverVars, historyVars
<1>11. QED
  BY <1>2, <1>3, <1>4, <1>5, <1>6, <1>7, <1>8, <1>9, <1>10 DEF RendererStep

LEMMA TypedStep == Typed /\ [Next]_vars => Typed'
<1> SUFFICES ASSUME Typed, [Next]_vars PROVE Typed'
  OBVIOUS
<1>1. CASE UNCHANGED vars
  BY <1>1 DEF vars, receiverVars, rendererVars, historyVars, Typed, TypeOK, Waits, SkipsOnlyTheOverdue
<1>2. QED
  BY <1>1, ReceiverTyped, RendererTyped DEF Next

LEMMA TypedHolds == Spec => []Typed
<1>1. QED
  BY InitTyped, TypedStep, PTL DEF Spec

\* The types of the variables.
THEOREM TypeCorrect == Spec => []TypeOK
<1>1. Typed => TypeOK
  BY DEF Typed
<1>2. QED
  BY <1>1, TypedHolds, PTL

\* No frame but the first is given up before renderer_wait_limit polls were
\* refused since it became the next one, whatever the limit.
THEOREM SkipsOverdue == Spec => []SkipsOnlyTheOverdue
<1>1. Typed => SkipsOnlyTheOverdue
  BY DEF Typed, Waits
<1>2. QED
  BY <1>1, TypedHolds, PTL

-----------------------------------------------------------------------------
(* The window.                                                             *)

\* The head slot already has the number of the frame a lap later.
Bumped == renderer \in {"clearLength", "clearTotal", "advance"}

\* The frame that is next.
Base == IF Bumped THEN slot[out].fid - Size ELSE slot[out].fid

\* The slots behind the head stand for the frames behind it, in order.
Window ==
  init = 0 => \A q \in Slots : q # out => slot[q].fid = Base + ((q - out) % Size)

\* Before the first packet the renderer polls, and gives up nothing.
BeforeFirst == init = 1 => renderer \in {"poll", "skip"}

IInv == Typed /\ Window /\ BeforeFirst

LEMMA FidType ==
  ASSUME TypeOK, NEW q \in Slots
  PROVE  slot[q].fid \in Nat
BY DEF TypeOK, Slot

\* A store that leaves the frame of every slot alone leaves the window alone.
LEMMA WindowStays ==
  ASSUME Typed, Window, init' = init, out' = out, Bumped' = Bumped,
         \A q \in Slots : slot'[q].fid = slot[q].fid
  PROVE  Window'
BY DEF Typed, TypeOK, Window, Base

LEMMA FieldsKeepFid ==
  ASSUME Typed, StoreMeta \/ WriteByte \/ CopyPayload
  PROVE  \A q \in Slots : slot'[q].fid = slot[q].fid
<1>1. slot \in [Slots -> Slot] /\ pos \in Slots /\ slot[pos] \in Slot
  BY DEF Typed, TypeOK
<1>2. PICK field \in {"total_length", "total_packet", "bitmap", "data"} :
        \E v : slot' = [slot EXCEPT ![pos] = [slot[pos] EXCEPT ![field] = v]]
  BY DEF StoreMeta, WriteByte, CopyPayload, Store
<1>3. PICK v : slot' = [slot EXCEPT ![pos] = [slot[pos] EXCEPT ![field] = v]]
  BY <1>2
<1>4. [slot[pos] EXCEPT ![field] = v].fid = slot[pos].fid
  BY <1>1, <1>2 DEF Slot
<1>5. QED
  BY <1>1, <1>3, <1>4

LEMMA ReceiverKeepsWindow ==
  ASSUME IInv, Receive \/ Enqueue
  PROVE  Window' /\ BeforeFirst'
<1>1. renderer' = renderer /\ out' = out /\ Bumped' = Bumped
  BY DEF Receive, Enqueue, ReadOut, Locate, StoreMeta, Store, ReadByte, WriteByte,
         CopyPayload, rendererVars, historyVars, Bumped
<1>2. Typed /\ Window /\ BeforeFirst /\ slot \in [Slots -> Slot] /\ out \in Slots
      /\ packet.fid \in Nat
  BY PacketType DEF IInv, Typed, TypeOK
<1>3. CASE ReadOut /\ init = 1
  <2>1. ~Bumped' /\ init' = 0
    BY <1>1, <1>2, <1>3 DEF BeforeFirst, Bumped, ReadOut
  <2>2. \A q \in Slots : slot'[q].fid = packet.fid + ((q - out) % Size)
    BY <1>3 DEF ReadOut, Empty
  <2>3. (out - out) % Size = 0
    BY <1>2, NoDistance
  <2>4. slot'[out'].fid = packet.fid
    BY <1>1, <1>2, <2>2, <2>3
  <2>5. QED
    BY <1>1, <2>1, <2>2, <2>4 DEF Window, Base, BeforeFirst
<1>4. CASE ~(ReadOut /\ init = 1)
  <2>1. init' = init
    BY <1>4 DEF Receive, Enqueue, ReadOut, Locate, StoreMeta, Store, ReadByte, WriteByte,
                CopyPayload
  <2>2. \A q \in Slots : slot'[q].fid = slot[q].fid
    BY <1>2, <1>4, FieldsKeepFid DEF Receive, Enqueue, ReadOut, Locate, ReadByte
  <2>3. QED
    BY <1>1, <1>2, <2>1, <2>2, WindowStays DEF BeforeFirst
<1>5. QED
  BY <1>3, <1>4

LEMMA ClearKeepsWindow ==
  ASSUME IInv, ClearSlot
  PROVE  Window' /\ BeforeFirst'
<1>1. Typed /\ Window /\ slot \in [Slots -> Slot] /\ out \in Slots /\ slot[out] \in Slot
  BY DEF IInv, Typed, TypeOK
<1>2. init' = init /\ out' = out /\ init # 1
  BY DEF ClearSlot, Clear, IInv, BeforeFirst
<1>3. CASE Clear("bumpFid", "fid", slot[out].fid + Size, "clearLength")
  <2>1. /\ slot' = [slot EXCEPT ![out] = [slot[out] EXCEPT !["fid"] = slot[out].fid + Size]]
        /\ ~Bumped /\ Bumped'
    BY <1>3 DEF Clear, Bumped
  <2>2. slot[out].fid + Size \in Nat
    BY <1>1, FidType, SizeType DEF Typed
  <2>3. slot'[out].fid = slot[out].fid + Size /\ \A q \in Slots : q # out => slot'[q] = slot[q]
    BY <1>1, <2>1, <2>2, StoredSlot
  <2>4. slot[out].fid \in Nat
    BY <1>1, FidType DEF Typed
  <2>5. Base' = Base
    BY <1>2, <2>1, <2>3, <2>4, SizeType DEF Base
  <2>6. QED
    BY <1>1, <1>2, <2>3, <2>5 DEF Window, BeforeFirst
<1>4. CASE \/ Clear("clearBitmap", "bitmap", {}, "bumpFid")
           \/ Clear("clearLength", "total_length", 0, "clearTotal")
           \/ Clear("clearTotal", "total_packet", 0, "advance")
  <2>1. Bumped' = Bumped
    BY <1>4 DEF Clear, Bumped
  <2>2. \E s \in Slot : s.fid = slot[out].fid /\ slot' = [slot EXCEPT ![out] = s]
    <3>1. {} \in SUBSET Bits
      OBVIOUS
    <3>2. QED
      BY <1>1, <1>4, <3>1, StoredSlot DEF Clear
  <2>3. \A q \in Slots : slot'[q].fid = slot[q].fid
    BY <1>1, <2>2
  <2>4. QED
    BY <1>1, <1>2, <2>1, <2>3, WindowStays DEF BeforeFirst
<1>5. QED
  BY <1>3, <1>4 DEF ClearSlot

\* The frame after the head's is the next one, wherever the ring has its end.
LEMMA AdvanceSlides ==
  ASSUME IInv, Advance
  PROVE  /\ Window' /\ BeforeFirst'
         /\ out' # out => slot[out'].fid = slot[out].fid - Size + 1
<1>1. /\ Typed /\ out \in Slots /\ slot' = slot /\ init' = init
      /\ out' = (out + 1) % Size /\ ~Bumped' /\ Bumped
  BY DEF IInv, Typed, TypeOK, Advance, Bumped
<1>2. init = 0 /\ \A q \in Slots : q # out => slot[q].fid = Base + ((q - out) % Size)
  BY DEF IInv, Typed, TypeOK, Window, BeforeFirst, Advance
<1>3. /\ out' \in Slots
      /\ \A q \in Slots :
           (q - out') % Size = IF q = out THEN Size - 1 ELSE ((q - out) % Size) - 1
  BY <1>1, HeadAdvances
<1>4. slot[out].fid \in Nat /\ Base = slot[out].fid - Size /\ Base \in Int
  BY <1>1, FidType, SizeType DEF Base, Typed
<1>5. (out' - out') % Size = 0
  BY <1>3, NoDistance
<1>6. ASSUME out' # out PROVE slot[out'].fid = Base + 1
  <2>1. (out' - out) % Size = 1
    <3>1. (out' - out) % Size \in Int
      BY <1>1, <1>3, Distance, SizeType DEF Slots
    <3>2. 0 = ((out' - out) % Size) - 1
      BY <1>3, <1>5, <1>6
    <3>3. QED
      BY <3>1, <3>2
  <2>2. QED
    BY <1>2, <1>3, <1>6, <2>1
<1>7. ASSUME NEW q \in Slots, q # out'
      PROVE  slot[q].fid = slot[out'].fid + ((q - out') % Size)
  <2>1. out' # out
    <3>1. SUFFICES ASSUME out' = out PROVE FALSE
      OBVIOUS
    <3>2. (q - out) % Size = ((q - out) % Size) - 1
      BY <1>3, <1>7, <3>1
    <3>3. (q - out) % Size \in Int
      BY <1>1, Distance, SizeType DEF Slots
    <3>4. QED
      BY <3>2, <3>3
  <2>2. slot[out'].fid = Base + 1
    BY <1>6, <2>1
  <2>3. CASE q = out
    BY <1>3, <1>4, <2>2, <2>3, SizeType
  <2>4. CASE q # out
    <3>1. (q - out) % Size \in Int
      BY <1>1, Distance, SizeType DEF Slots
    <3>2. (q - out') % Size = ((q - out) % Size) - 1
      BY <1>3, <2>4
    <3>3. slot[q].fid = Base + ((q - out) % Size)
      BY <1>2, <2>4
    <3>4. QED
      BY <1>4, <2>2, <3>1, <3>2, <3>3
  <2>5. QED
    BY <2>3, <2>4
<1>8. Window' /\ BeforeFirst'
  BY <1>1, <1>2, <1>7 DEF Window, Base, BeforeFirst
<1>9. QED
  BY <1>4, <1>6, <1>8

LEMMA RendererKeepsWindow ==
  ASSUME IInv, RendererStep
  PROVE  Window' /\ BeforeFirst'
<1>1. CASE ClearSlot
  BY <1>1, ClearKeepsWindow
<1>2. CASE Advance
  BY <1>2, AdvanceSlides
<1>3. CASE Poll \/ Count \/ Compare \/ Skip \/ ReadLength \/ CopyOut \/ CopyMeta
  <2>1. UNCHANGED <<init, out, slot>>
    BY <1>3 DEF Poll, Count, Compare, Skip, ReadLength, CopyOut, CopyMeta
  <2>2. ~Bumped /\ ~Bumped' /\ BeforeFirst'
    BY <1>3 DEF Poll, Count, Compare, Skip, ReadLength, CopyOut, CopyMeta, Refuse, Bumped,
                IInv, BeforeFirst
  <2>3. (Bumped' = Bumped) /\ \A q \in Slots : slot'[q].fid = slot[q].fid
    BY <2>1, <2>2 DEF Bumped
  <2>4. Window'
    BY <2>1, <2>3, WindowStays DEF IInv
  <2>5. QED
    BY <2>2, <2>4
<1>4. QED
  BY <1>1, <1>2, <1>3 DEF RendererStep

LEMMA WindowStep == IInv /\ [Next]_vars => IInv'
<1> SUFFICES ASSUME IInv, [Next]_vars PROVE IInv'
  OBVIOUS
<1>1. Typed'
  BY TypedStep DEF IInv
<1>2. CASE UNCHANGED vars
  <2>1. UNCHANGED <<init, out, slot, renderer>>
    BY <1>2 DEF vars, rendererVars, historyVars
  <2>2. QED
    BY <1>1, <2>1 DEF IInv, Window, Base, Bumped, BeforeFirst
<1>3. QED
  BY <1>1, <1>2, ReceiverKeepsWindow, RendererKeepsWindow DEF Next, IInv

\* Playout goes from each frame to the next, for every ring and whatever the
\* receiver stores meanwhile.
THEOREM WindowSlidesHolds == Spec => WindowSlides
<1>1. Init => IInv
  BY InitTyped DEF Init, IInv, Window, BeforeFirst
<1>2. IInv /\ [Next]_vars =>
        [out' # out => slot[out'].fid = slot[out].fid - Size + 1]_vars
  <2> SUFFICES ASSUME IInv, [Next]_vars, out' # out
               PROVE  slot[out'].fid = slot[out].fid - Size + 1
    OBVIOUS
  <2>1. Advance
    BY DEF Next, vars, Receive, Enqueue, ReadOut, Locate, StoreMeta, Store, ReadByte,
           WriteByte, CopyPayload, RendererStep, Poll, Count, Compare, Skip, ReadLength,
           CopyOut, CopyMeta, ClearSlot
  <2>2. QED
    BY <2>1, AdvanceSlides
<1>3. QED
  BY <1>1, <1>2, WindowStep, PTL DEF Spec, WindowSlides

-----------------------------------------------------------------------------
(* Bits and payloads.                                                      *)

\* A byte that is stored back says of each packet what the bitmap it was read
\* from did, and no payload is copied in between.
ByteAnnounces ==
  receiver = "writeByte" => \A c \in Pids : Announce(byte, c, slot[pos].data[c])

\* While a packet is copied, the bits of its ID include its own, or there are
\* none: the renderer cleared them, or the ID is past the bitmap.
OwnBitOrNone ==
  receiver = "copy" /\ (\E b \in slot[pos].bitmap : b.pid = packet.pid) =>
    [fid |-> packet.fid, pid |-> packet.pid] \in slot[pos].bitmap

\* No bit is past the bitmap, none is about to be set there.
InBitmap ==
  /\ \A p \in Slots : \A b \in slot[p].bitmap : b.pid < BitmapBits
  /\ \A b \in byte : b.pid < BitmapBits
  /\ receiver \in {"readByte", "writeByte"} => packet.pid < BitmapBits

Payloads == OnePayloadBehind /\ ByteAnnounces /\ OwnBitOrNone /\ InBitmap

\* What a step may do to a slot that has no payload copied to it: leave the
\* bits alone or clear them.
Fades(s, t) == t.data = s.data /\ (t.bitmap = s.bitmap \/ t.bitmap = {})

LEMMA FadesAnnounce ==
  ASSUME NEW s, NEW t, Fades(s, t), NEW c, Announce(s.bitmap, c, s.data[c])
  PROVE  Announce(t.bitmap, c, t.data[c])
BY DEF Fades, Announce

\* A store to one field leaves the others.
LEMMA StoredField ==
  ASSUME NEW s \in Slot, NEW v
  PROVE  /\ \A field \in {"fid", "total_length", "total_packet"} :
              Fades(s, [s EXCEPT ![field] = v])
         /\ [s EXCEPT !["bitmap"] = v].data = s.data
         /\ [s EXCEPT !["bitmap"] = v].bitmap = v
BY DEF Slot, Fades

\* Steps that only fade slots, and leave the receiver at its step or bring it
\* to one of no consequence.
LEMMA FadingKeepsPayloads ==
  ASSUME TypeOK, Payloads, pos' \in Slots,
         \A p \in Slots : Fades(slot[p], slot'[p]),
         byte' = byte,
         \/ UNCHANGED <<receiver, packet, pos>>
         \/ receiver # "copy" /\ receiver' \notin {"readByte", "writeByte", "copy"}
  PROVE  Payloads'
<1>1. pos \in Slots /\ \A b \in {} : b.pid < BitmapBits
  BY DEF TypeOK
<1>2. OnePayloadBehind'
  <2> SUFFICES ASSUME NEW p \in Slots, NEW c \in Pids,
                      ~(receiver' = "copy" /\ pos' = p /\ packet'.pid = c)
               PROVE  Announce(slot'[p].bitmap, c, slot'[p].data[c])
    BY DEF OnePayloadBehind
  <2>1. Announce(slot[p].bitmap, c, slot[p].data[c])
    BY DEF Payloads, OnePayloadBehind
  <2>2. QED
    BY <2>1, FadesAnnounce
<1>3. ByteAnnounces'
  <2> SUFFICES ASSUME receiver' = "writeByte", NEW c \in Pids
               PROVE  Announce(byte', c, slot'[pos'].data[c])
    BY DEF ByteAnnounces
  <2>1. receiver = "writeByte" /\ pos' = pos
    OBVIOUS
  <2>2. Announce(byte, c, slot[pos].data[c])
    BY <2>1 DEF Payloads, ByteAnnounces
  <2>3. slot'[pos].data = slot[pos].data
    BY <1>1 DEF Fades
  <2>4. QED
    BY <2>1, <2>2, <2>3
<1>4. OwnBitOrNone'
  BY <1>1 DEF OwnBitOrNone, Payloads, Fades
<1>5. InBitmap'
  BY <1>1 DEF InBitmap, Payloads, Fades
<1>6. QED
  BY <1>2, <1>3, <1>4, <1>5 DEF Payloads

\* The renderer only clears.
LEMMA RendererKeepsPayloads ==
  ASSUME TypeOK, Payloads, RendererStep
  PROVE  Payloads'
<1>1. UNCHANGED <<receiver, packet, pos, byte>>
  BY DEF RendererStep, Poll, Count, Compare, Skip, ReadLength, CopyOut, CopyMeta,
         ClearSlot, Advance, receiverVars, historyVars
<1>2. slot \in [Slots -> Slot] /\ pos \in Slots /\ out \in Slots
  BY DEF TypeOK
<1>3. CASE ClearSlot
  <2>0. PICK field \in {"fid", "total_length", "total_packet", "bitmap"} :
          \E v : /\ slot' = [slot EXCEPT ![out] = [slot[out] EXCEPT ![field] = v]]
                 /\ field = "bitmap" => v = {}
    BY <1>3 DEF ClearSlot, Clear
  <2>1. PICK v : /\ slot' = [slot EXCEPT ![out] = [slot[out] EXCEPT ![field] = v]]
                 /\ field = "bitmap" => v = {}
    BY <2>0
  <2>2. Fades(slot[out], [slot[out] EXCEPT ![field] = v])
    <3>1. slot[out] \in Slot
      BY <1>2
    <3>2. CASE field = "bitmap"
      BY <2>1, <3>1, <3>2, StoredField DEF Fades
    <3>3. CASE field # "bitmap"
      BY <2>0, <3>1, <3>3, StoredField
    <3>4. QED
      BY <3>2, <3>3
  <2>3. \A p \in Slots : Fades(slot[p], slot'[p])
    <3> SUFFICES ASSUME NEW p \in Slots PROVE Fades(slot[p], slot'[p])
      OBVIOUS
    <3>1. CASE p = out
      BY <1>2, <2>1, <2>2, <3>1
    <3>2. CASE p # out
      BY <1>2, <2>1, <3>2 DEF Fades
    <3>3. QED
      BY <3>1, <3>2
  <2>4. QED
    BY <1>1, <1>2, <2>3, FadingKeepsPayloads
<1>4. CASE ~ClearSlot
  <2>1. slot' = slot
    BY <1>4 DEF RendererStep, Poll, Count, Compare, Skip, ReadLength, CopyOut, CopyMeta,
                Advance
  <2>2. \A p \in Slots : Fades(slot[p], slot'[p])
    BY <2>1 DEF Fades
  <2>3. QED
    BY <1>1, <1>2, <2>2, FadingKeepsPayloads
<1>5. QED
  BY <1>3, <1>4

\* The first packet clears every slot.
LEMMA ReadOutKeepsPayloads ==
  ASSUME TypeOK, Payloads, ReadOut
  PROVE  Payloads'
<1>1. \A p \in Slots : Fades(slot[p], slot'[p])
  BY DEF ReadOut, Fades, Empty
<1>2. pos' \in Slots /\ byte' = byte /\ receiver # "copy" /\ receiver' = "locate"
  BY DEF ReadOut, TypeOK
<1>3. QED
  BY <1>1, <1>2, FadingKeepsPayloads

LEMMA LocateKeepsPayloads ==
  ASSUME TypeOK, TypeOK', Payloads, Receive \/ Locate
  PROVE  Payloads'
<1>1. \A p \in Slots : Fades(slot[p], slot'[p])
  BY DEF Receive, Locate, Fades
<1>2. /\ pos' \in Slots /\ byte' = byte /\ receiver # "copy"
      /\ receiver' \notin {"readByte", "writeByte", "copy"}
  BY DEF Receive, Locate, TypeOK
<1>3. QED
  BY <1>1, <1>2, FadingKeepsPayloads

\* Lengths leave bits and payloads alone; then a packet past the bitmap goes
\* straight to its payload.
LEMMA StoreMetaKeepsPayloads ==
  ASSUME TypeOK, Payloads, StoreMeta
  PROVE  Payloads'
<1>1. slot \in [Slots -> Slot] /\ pos \in Slots /\ slot[pos] \in Slot
  BY DEF TypeOK
<1>0. PICK field \in {"total_length", "total_packet"} :
        \E v : slot' = [slot EXCEPT ![pos] = [slot[pos] EXCEPT ![field] = v]]
  BY DEF StoreMeta, Store
<1>2. PICK v : slot' = [slot EXCEPT ![pos] = [slot[pos] EXCEPT ![field] = v]]
  BY <1>0
<1>3. Fades(slot[pos], [slot[pos] EXCEPT ![field] = v])
  BY <1>0, <1>1, StoredField
<1>4. slot'[pos].bitmap = slot[pos].bitmap \/ slot'[pos].bitmap = {}
  BY <1>1, <1>2, <1>3 DEF Fades
<1>5. \A p \in Slots : Fades(slot[p], slot'[p])
  <2> SUFFICES ASSUME NEW p \in Slots PROVE Fades(slot[p], slot'[p])
    OBVIOUS
  <2>1. CASE p = pos
    BY <1>1, <1>2, <1>3, <2>1
  <2>2. CASE p # pos
    BY <1>1, <1>2, <2>2 DEF Fades
  <2>3. QED
    BY <2>1, <2>2
<1>6. /\ UNCHANGED <<packet, pos, byte>>
      /\ receiver \in {"setLength", "setTotal"}
      /\ receiver' # "writeByte"
      /\ receiver' = "readByte" => packet.pid < BitmapBits
      /\ receiver' = "copy" => ~(packet.pid < BitmapBits)
  BY DEF StoreMeta, Store
<1>7. OnePayloadBehind'
  <2> SUFFICES ASSUME NEW p \in Slots, NEW c \in Pids
               PROVE  Announce(slot'[p].bitmap, c, slot'[p].data[c])
    BY DEF OnePayloadBehind
  <2>1. Announce(slot[p].bitmap, c, slot[p].data[c])
    BY <1>6 DEF Payloads, OnePayloadBehind
  <2>2. QED
    BY <1>5, <2>1, FadesAnnounce
<1>8. InBitmap'
  BY <1>5, <1>6 DEF InBitmap, Payloads, Fades
<1>9. OwnBitOrNone'
  BY <1>1, <1>6, <1>8 DEF OwnBitOrNone, InBitmap
<1>10. QED
  BY <1>6, <1>7, <1>8, <1>9 DEF Payloads, ByteAnnounces

LEMMA ReadByteKeepsPayloads ==
  ASSUME TypeOK, Payloads, ReadByte
  PROVE  Payloads'
<1>1. /\ UNCHANGED <<slot, packet, pos>> /\ pos \in Slots
      /\ receiver = "readByte" /\ receiver' = "writeByte"
  BY DEF ReadByte, TypeOK
<1>2. OnePayloadBehind' /\ OwnBitOrNone' /\ InBitmap'
  BY <1>1 DEF Payloads, OnePayloadBehind, OwnBitOrNone, InBitmap, ReadByte
<1>3. ByteAnnounces'
  <2> SUFFICES ASSUME NEW c \in Pids PROVE Announce(byte', c, slot[pos].data[c])
    BY <1>1 DEF ByteAnnounces
  <2>1. Announce(slot[pos].bitmap, c, slot[pos].data[c])
    BY <1>1 DEF Payloads, OnePayloadBehind
  <2>2. byte' = {b \in slot[pos].bitmap : b.pid \div 8 = packet.pid \div 8}
    BY DEF ReadByte
  <2>3. QED
    BY <2>1, <2>2 DEF Announce
<1>4. QED
  BY <1>2, <1>3 DEF Payloads

\* The byte stored back has for every packet the bits it was read with, or none
\* of its byte, and the bit of the packet at hand besides.
LEMMA WriteByteKeepsPayloads ==
  ASSUME TypeOK, Payloads, WriteByte
  PROVE  Payloads'
<1> DEFINE own == [fid |-> packet.fid, pid |-> packet.pid]
           bits == {b \in slot[pos].bitmap : b.pid \div 8 # packet.pid \div 8}
                     \cup byte \cup {own}
<1>1. slot \in [Slots -> Slot] /\ pos \in Slots /\ slot[pos] \in Slot
  BY DEF TypeOK
<1>2. /\ UNCHANGED <<packet, pos>> /\ byte' = {}
      /\ receiver = "writeByte" /\ receiver' = "copy"
      /\ slot' = [slot EXCEPT ![pos] = [slot[pos] EXCEPT !["bitmap"] = bits]]
  BY DEF WriteByte, Store
<1>3. slot'[pos].bitmap = bits /\ slot'[pos].data = slot[pos].data
  <2> HIDE DEF bits
  <2>1. slot'[pos] = [slot[pos] EXCEPT !["bitmap"] = bits]
    BY <1>1, <1>2
  <2>2. [slot[pos] EXCEPT !["bitmap"] = bits].bitmap = bits
        /\ [slot[pos] EXCEPT !["bitmap"] = bits].data = slot[pos].data
    BY <1>1 DEF Slot
  <2>3. QED
    BY <2>1, <2>2
<1>4. \A p \in Slots : p # pos => slot'[p] = slot[p]
  BY <1>1, <1>2
<1>5. OnePayloadBehind'
  <2> SUFFICES ASSUME NEW p \in Slots, NEW c \in Pids, ~(pos = p /\ packet.pid = c)
               PROVE  Announce(slot'[p].bitmap, c, slot'[p].data[c])
    BY <1>2 DEF OnePayloadBehind
  <2>1. Announce(slot[p].bitmap, c, slot[p].data[c])
    BY <1>2 DEF Payloads, OnePayloadBehind
  <2>2. CASE p # pos
    BY <1>4, <2>1, <2>2
  <2>3. CASE p = pos
    <3>1. Announce(byte, c, slot[pos].data[c])
      BY <1>2 DEF Payloads, ByteAnnounces
    <3>2. own.pid # c
      BY <2>3
    <3>3. CASE \E b \in byte : b.pid = c
      BY <1>3, <2>3, <3>1, <3>3 DEF Announce
    <3>4. CASE ~\E b \in byte : b.pid = c
      <4>1. \A b \in bits : b.pid = c => b \in slot[pos].bitmap /\ c \div 8 # packet.pid \div 8
        BY <3>2, <3>4
      <4>2. \A b \in slot[pos].bitmap :
              b.pid = c /\ c \div 8 # packet.pid \div 8 => b \in bits
        OBVIOUS
      <4>3. QED
        BY <1>3, <2>1, <2>3, <4>1, <4>2 DEF Announce
    <3>5. QED
      BY <3>3, <3>4
  <2>4. QED
    BY <2>2, <2>3
<1>6. OwnBitOrNone'
  BY <1>2, <1>3 DEF OwnBitOrNone
<1>7. \A b \in bits : b.pid < BitmapBits
  BY <1>1, <1>2 DEF Payloads, InBitmap
<1>8. InBitmap'
  BY <1>2, <1>3, <1>4, <1>7 DEF Payloads, InBitmap
<1>9. QED
  BY <1>2, <1>5, <1>6, <1>8 DEF Payloads, ByteAnnounces

\* The payload copied is that of the packet whose bit is set, unless there is
\* no bit any more.
LEMMA CopyKeepsPayloads ==
  ASSUME TypeOK, Payloads, CopyPayload
  PROVE  Payloads'
<1> DEFINE data == IF packet.total_length = 0 THEN slot[pos].data
                   ELSE [slot[pos].data EXCEPT ![packet.pid] = packet.fid]
<1>1. slot \in [Slots -> Slot] /\ pos \in Slots /\ slot[pos] \in Slot
      /\ packet \in Packets
  BY DEF TypeOK
<1>2. /\ UNCHANGED <<packet, pos, byte>>
      /\ receiver = "copy" /\ receiver' = "recvfrom"
      /\ slot' = [slot EXCEPT ![pos] = [slot[pos] EXCEPT !["data"] = data]]
  BY DEF CopyPayload, Store
<1>3. slot'[pos].bitmap = slot[pos].bitmap /\ slot'[pos].data = data
  <2> HIDE DEF data
  <2>1. slot'[pos] = [slot[pos] EXCEPT !["data"] = data]
    BY <1>1, <1>2
  <2>2. [slot[pos] EXCEPT !["data"] = data].bitmap = slot[pos].bitmap
        /\ [slot[pos] EXCEPT !["data"] = data].data = data
    BY <1>1 DEF Slot
  <2>3. QED
    BY <2>1, <2>2
<1>4. \A p \in Slots : p # pos => slot'[p] = slot[p]
  BY <1>1, <1>2
<1>5. slot[pos].data \in [Pids -> Nat]
  BY <1>1 DEF Slot
<1>6. OnePayloadBehind'
  <2> SUFFICES ASSUME NEW p \in Slots, NEW c \in Pids
               PROVE  Announce(slot'[p].bitmap, c, slot'[p].data[c])
    BY DEF OnePayloadBehind
  <2>1. CASE p # pos
    BY <1>4, <2>1 DEF Payloads, OnePayloadBehind
  <2>2. CASE p = pos /\ packet.pid # c
    <3>1. Announce(slot[pos].bitmap, c, slot[pos].data[c])
      BY <2>2 DEF Payloads, OnePayloadBehind
    <3>2. data[c] = slot[pos].data[c]
      BY <1>5, <2>2
    <3>3. QED
      BY <1>3, <2>2, <3>1, <3>2
  <2>3. CASE p = pos /\ packet.pid = c
    <3> DEFINE own == [fid |-> packet.fid, pid |-> packet.pid]
    <3>1. own.pid = c /\ own.fid = packet.fid
      BY <2>3
    <3>2. own.fid = data[c] \/ IsEmpty(own)
      BY <1>1, <1>5, <2>3 DEF IsEmpty
    <3>3. (\E b \in slot[pos].bitmap : b.pid = c) => own \in slot[pos].bitmap
      BY <1>2, <2>3 DEF Payloads, OwnBitOrNone
    <3>4. QED
      BY <1>3, <2>3, <3>1, <3>2, <3>3 DEF Announce
  <2>4. QED
    BY <2>1, <2>2, <2>3
<1>7. InBitmap'
  BY <1>2, <1>3, <1>4 DEF Payloads, InBitmap
<1>8. QED
  BY <1>2, <1>6, <1>7 DEF Payloads, ByteAnnounces, OwnBitOrNone

LEMMA InitPayloads == Init => Payloads
BY DEF Init, Empty, Payloads, OnePayloadBehind, Announce, ByteAnnounces, OwnBitOrNone,
       InBitmap

LEMMA PayloadsStep == Typed /\ Typed' /\ Payloads /\ [Next]_vars => Payloads'
<1> SUFFICES ASSUME Typed, Typed', Payloads, [Next]_vars PROVE Payloads'
  OBVIOUS
<1>1. TypeOK /\ TypeOK'
  BY DEF Typed
<1>2. CASE UNCHANGED vars
  BY <1>2 DEF vars, receiverVars, historyVars, Payloads, OnePayloadBehind, ByteAnnounces,
              OwnBitOrNone, InBitmap
<1>3. QED
  BY <1>1, <1>2, RendererKeepsPayloads, ReadOutKeepsPayloads, LocateKeepsPayloads,
     StoreMetaKeepsPayloads, ReadByteKeepsPayloads, WriteByteKeepsPayloads,
     CopyKeepsPayloads
  DEF Next, Enqueue

\* In every ring and whatever the network delivers, at most one bit at a time
\* is ahead of its payload.
THEOREM OnePayloadBehindHolds == Spec => []OnePayloadBehind
<1>1. Typed /\ Payloads => OnePayloadBehind
  BY DEF Payloads
<1>2. Init => Payloads
  BY InitPayloads
<1>3. QED
  BY <1>1, <1>2, PayloadsStep, TypedHolds, PTL DEF Spec
=============================================================================
