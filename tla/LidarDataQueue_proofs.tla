------------------------ MODULE LidarDataQueue_proofs ------------------------
(***************************************************************************)
(* Proofs about the packet ring, for every ring size, index width and set  *)
(* of packets allowed by SizeAssumption and NoFrameAssumption.             *)
(*                                                                         *)
(* NoSlotRace and NoTornPacket are not inductive: that the two threads are *)
(* in different slots follows from how far apart their indices are         *)
(* (IndexOrder), which a push keeps only because it looked for room before *)
(* it started and that room cannot shrink under it (PushRoom), and that a  *)
(* copied packet is whole follows from what the slots between rd_idx and   *)
(* wr_idx hold (Contents, Copied).                                         *)
(***************************************************************************)
EXTENDS LidarDataQueue, PublishFrequency, TLAPS

-------------------------------------------------------------------------------
(***************************************************************************)
(* Facts about %: index & mask and the wrap of a uint32_t are both         *)
(* remainders.                                                             *)
(***************************************************************************)

\* A remainder is a residue.
LEMMA ModBounds ==
  ASSUME NEW a \in Int, NEW m \in Nat \ {0}
  PROVE  a % m \in 0 .. m - 1
OBVIOUS

\* Euclidean division.
LEMMA DivMod ==
  ASSUME NEW a \in Int, NEW m \in Nat \ {0}
  PROVE  /\ a \div m \in Int
         /\ a = m * (a \div m) + (a % m)
OBVIOUS

\* The only multiple of m strictly between -m and m is 0.
LEMMA MultipleSmall ==
  ASSUME NEW m \in Nat \ {0}, NEW d \in Int, m * d < m, m * d > -m
  PROVE  d = 0
<1>1. CASE d >= 1
  <2>1. m * d >= m BY <1>1, SMT
  <2>2. QED BY <2>1
<1>2. CASE d <= -1
  <2>1. m * d <= -m BY <1>2, SMT
  <2>2. QED BY <2>1
<1>3. QED BY <1>1, <1>2

\* The remainder is the only residue that differs from a by a multiple of m.
LEMMA ModUnique ==
  ASSUME NEW m \in Nat \ {0}, NEW a \in Int, NEW k \in Int, NEW r \in 0 .. m - 1,
         a = m * k + r
  PROVE  a % m = r
<1>1. PICK q \in Int, s \in 0 .. m - 1 : s = a % m /\ a = m * q + s
  BY DivMod, ModBounds
<1>2. m * (q - k) = r - s
  BY <1>1, SMT
<1>3. m * (q - k) < m /\ m * (q - k) > -m
  BY <1>1, <1>2
<1>4. q - k = 0
  BY <1>1, <1>3, MultipleSmall
<1>5. q = k
  BY <1>1, <1>4
<1>. QED
  BY <1>1, <1>5

\* Shifting by a multiple of m leaves the remainder alone.
LEMMA ModShift ==
  ASSUME NEW m \in Nat \ {0}, NEW a \in Int, NEW k \in Int
  PROVE  (a + m * k) % m = a % m
<1>1. PICK q \in Int, s \in 0 .. m - 1 : s = a % m /\ a = m * q + s
  BY DivMod, ModBounds
<1>2. a + m * k = m * (q + k) + s
  BY <1>1, SMT
<1>3. a + m * k \in Int /\ q + k \in Int
  BY <1>1, <1>2
<1>. QED
  BY <1>1, <1>2, <1>3, ModUnique

\* Two numbers less than m apart have different remainders.
LEMMA ModDistinct ==
  ASSUME NEW m \in Nat \ {0}, NEW a \in Int, NEW b \in Int, 0 < b - a, b - a < m
  PROVE  a % m # b % m
<1>1. PICK q \in Int, s \in 0 .. m - 1 : s = a % m /\ a = m * q + s
  BY DivMod, ModBounds
<1>2. PICK r \in Int, t \in 0 .. m - 1 : t = b % m /\ b = m * r + t
  BY DivMod, ModBounds
<1>3. SUFFICES ASSUME s = t PROVE FALSE
  BY <1>1, <1>2
<1>4. m * (r - q) = b - a
  BY <1>1, <1>2, <1>3, SMT
<1>5. r - q = 0
  BY <1>4, MultipleSmall
<1>6. m * (r - q) = 0
  BY <1>5, SMT
<1>. QED
  BY <1>4, <1>6

-------------------------------------------------------------------------------
(***************************************************************************)
(* The inductive invariant.                                                *)
(***************************************************************************)

\* The three distances of IndexOrder: popped packets whose room is not seen yet,
\* packets the popping thread sees, packets it does not see yet.
Released == Dist(rd_seen, rd_idx)
Visible == Dist(rd_idx, wr_seen)
Hidden == Dist(wr_seen, wr_idx)

Fresh == ~allocated => wr_idx = 0 /\ wr_seen = 0 /\ rd_idx = 0 /\ rd_seen = 0

PushRoom == push.pc # "idle" =>
  /\ allocated
  /\ push.frame \in Frame
  /\ Released + Visible + Hidden < QueueSize

PopRoom == pop.pc # "idle" => Visible > 0

\* The slots from rd_idx to wr_idx hold whole packets.
Contents == \A k \in 1 .. Visible + Hidden :
  \E f \in Frame : slot[SlotOf(rd_idx + k - 1)] = Whole(f)

\* How much of its packet each thread has copied.
Copied ==
  /\ push.pc \in {"points", "advance"} => slot[SlotOf(wr_idx)].base_time = push.frame
  /\ push.pc = "advance" => slot[SlotOf(wr_idx)].points = push.frame
  /\ pop.pc \in {"points", "advance"} =>
       pop.pkg.base_time = slot[SlotOf(rd_idx)].base_time
  /\ pop.pc = "advance" => pop.pkg.points = slot[SlotOf(rd_idx)].points

RingInv ==
  /\ TypeOK
  /\ IndexOrder
  /\ Fresh
  /\ PushRoom
  /\ PopRoom
  /\ Contents
  /\ Copied

-------------------------------------------------------------------------------
(***************************************************************************)
(* Lemmas about indices and slots.                                         *)
(***************************************************************************)

\* The distance from i to j, without the modulus: going up from i, wrapping at most once.
LEMMA DistCases ==
  ASSUME NEW i \in Index, NEW j \in Index
  PROVE  Dist(i, j) = IF i <= j THEN j - i ELSE j - i + IdxMod
<1>. USE SizeAssumption DEF Index, Dist
<1>1. CASE i <= j
  <2>1. j - i = IdxMod * 0 + (j - i) OBVIOUS
  <2>. QED BY <1>1, <2>1, ModUnique
<1>2. CASE i > j
  <2>1. j - i = IdxMod * (-1) + (j - i + IdxMod) OBVIOUS
  <2>2. j - i + IdxMod \in 0 .. IdxMod - 1 BY <1>2
  <2>. QED BY <1>2, <2>1, <2>2, ModUnique
<1>. QED BY <1>1, <1>2

\* Incrementing an index, without the modulus.
LEMMA IncCases ==
  ASSUME NEW i \in Index
  PROVE  Inc(i) = IF i = IdxMod - 1 THEN 0 ELSE i + 1
<1>. USE SizeAssumption DEF Index, Inc
<1>1. CASE i = IdxMod - 1
  <2>1. i + 1 = IdxMod * 1 + 0 BY <1>1
  <2>. QED BY <1>1, <2>1, ModUnique
<1>2. CASE i # IdxMod - 1
  <2>1. i + 1 = IdxMod * 0 + (i + 1) OBVIOUS
  <2>. QED BY <1>2, <2>1, ModUnique
<1>. QED BY <1>1, <1>2

\* The order of ring indices.
LEMMA DistInc ==
  ASSUME NEW i \in Index, NEW j \in Index, Dist(i, j) < IdxMod - 1
  PROVE  Inc(j) \in Index /\ Dist(i, Inc(j)) = Dist(i, j) + 1
<1>1. Inc(j) \in Index
  BY IncCases, SizeAssumption DEF Index
<1>. QED
  BY <1>1, IncCases, DistCases, SizeAssumption DEF Index

\* Incrementing the lower end of a distance shortens it by one.
LEMMA IncDist ==
  ASSUME NEW i \in Index, NEW j \in Index, i # j
  PROVE  Inc(i) \in Index /\ Dist(Inc(i), j) = Dist(i, j) - 1
<1>1. Inc(i) \in Index
  BY IncCases, SizeAssumption DEF Index
<1>. QED
  BY <1>1, IncCases, DistCases, SizeAssumption DEF Index

\* A distance is an index, and 0 exactly between equal indices (QueueIsEmpty).
LEMMA DistBasic ==
  ASSUME NEW i \in Index, NEW j \in Index
  PROVE  /\ Dist(i, j) \in 0 .. IdxMod - 1
         /\ Dist(i, j) = 0 <=> i = j
BY DistCases, SizeAssumption DEF Index

\* Distances add up as long as they do not go round.
LEMMA DistAdd ==
  ASSUME NEW i \in Index, NEW j \in Index, NEW k \in Index,
         Dist(i, j) + Dist(j, k) < IdxMod
  PROVE  Dist(i, k) = Dist(i, j) + Dist(j, k)
BY DistCases, SizeAssumption DEF Index

\* Slots of the ring.
LEMMA SlotRange ==
  ASSUME NEW x \in Int
  PROVE  SlotOf(x) \in Slot
BY ModBounds, SizeAssumption DEF SlotOf, Slot

\* An index that wraps stays on its slot: the ring's size divides the index range.
LEMMA SlotLap ==
  ASSUME NEW x \in Int
  PROVE  SlotOf(x + IdxMod) = SlotOf(x)
<1>1. PICK laps \in Int : IdxMod = QueueSize * laps
  <2>1. IdxMod = QueueSize * (IdxMod \div QueueSize) + (IdxMod % QueueSize)
        /\ IdxMod \div QueueSize \in Int
    BY DivMod, SizeAssumption
  <2>2. PICK l \in Int : IdxMod = QueueSize * l + (IdxMod % QueueSize)
    BY <2>1
  <2>. QED
    BY <2>2, SizeAssumption
<1>. QED
  BY <1>1, ModShift, SizeAssumption DEF SlotOf

\* Indices less than a ring apart are in different slots.
LEMMA SlotDistinct ==
  ASSUME NEW x \in Int, NEW y \in Int, 0 < y - x, y - x < QueueSize
  PROVE  SlotOf(x) # SlotOf(y)
BY ModDistinct, SizeAssumption DEF SlotOf

\* Going the distance from i to j leads to the slot of j.
LEMMA SlotAtDist ==
  ASSUME NEW i \in Index, NEW j \in Index
  PROVE  SlotOf(i + Dist(i, j)) = SlotOf(j)
<1>1. CASE i <= j
  BY <1>1, DistCases, SizeAssumption DEF Index
<1>2. CASE i > j
  <2>1. i + Dist(i, j) = j + IdxMod
    BY <1>2, DistCases, SizeAssumption DEF Index
  <2>. QED
    BY <2>1, SlotLap DEF Index
<1>. QED
  BY <1>1, <1>2 DEF Index

\* Counting slots from the next index is counting them from this one, shifted by one.
LEMMA SlotInc ==
  ASSUME NEW i \in Index, NEW k \in Int
  PROVE  SlotOf(Inc(i) + k - 1) = SlotOf(i + k)
<1>1. CASE i = IdxMod - 1
  <2>1. i + k = (Inc(i) + k - 1) + IdxMod /\ Inc(i) + k - 1 \in Int
    BY <1>1, IncCases, SizeAssumption DEF Index
  <2>. QED
    BY <2>1, SlotLap
<1>2. CASE i # IdxMod - 1
  <2>1. Inc(i) + k - 1 = i + k
    BY <1>2, IncCases, SizeAssumption DEF Index
  <2>. QED
    BY <2>1
<1>. QED
  BY <1>1, <1>2

-------------------------------------------------------------------------------
(***************************************************************************)
(* Type correctness.                                                       *)
(***************************************************************************)

\* A whole packet is a StoragePacket.
LEMMA WholeType ==
  ASSUME NEW f \in Field
  PROVE  Whole(f) \in StoragePacket
BY DEF Whole, StoragePacket

\* ++ stays within uint32_t.
LEMMA IncType ==
  ASSUME NEW i \in Index
  PROVE  Inc(i) \in Index
BY IncCases, SizeAssumption DEF Index

\* 0 is an index.
LEMMA ZeroType == 0 \in Index
BY SizeAssumption DEF Index

\* Every step keeps the variables in their domains.
LEMMA TypeStep == TypeOK /\ [Next]_vars => TypeOK'
<1> SUFFICES ASSUME TypeOK, [Next]_vars PROVE TypeOK'
  OBVIOUS
<1> USE DEF TypeOK
<1>i. wr_idx \in Int /\ rd_idx \in Int
  BY SizeAssumption DEF Index
<1>s. SlotOf(wr_idx) \in Slot /\ SlotOf(rd_idx) \in Slot
  BY <1>i, SlotRange
<1>1. ASSUME NEW f \in Frame, PushFirst(f) \/ PushBegin(f) PROVE TypeOK'
  <2>1. allocated' \in BOOLEAN
    BY <1>1, Zenon DEF PushFirst, PushBegin
  <2>2. push' \in [pc : {"idle", "header", "points", "advance"}, frame : Field]
    BY <1>1 DEF PushFirst, PushBegin, Field
  <2>3. UNCHANGED <<slot, wr_idx, wr_seen, rd_idx, rd_seen, pop, out>>
    BY <1>1, Zenon DEF PushFirst, PushBegin
  <2>. QED
    BY <2>1, <2>2, <2>3
<1>2. CASE PushHeader
  <2>1. slot[SlotOf(wr_idx)] \in StoragePacket /\ push.frame \in Field
    BY <1>s
  <2>2. [slot[SlotOf(wr_idx)] EXCEPT !.base_time = push.frame] \in StoragePacket
    BY <2>1 DEF StoragePacket
  <2>3. slot' \in [Slot -> StoragePacket]
    BY <1>2, <1>s, <2>2 DEF PushHeader
  <2>. QED
    BY <1>2, <2>3 DEF PushHeader
<1>3. CASE PushPoints
  <2>1. slot[SlotOf(wr_idx)] \in StoragePacket /\ push.frame \in Field
    BY <1>s
  <2>2. [slot[SlotOf(wr_idx)] EXCEPT !.points = push.frame] \in StoragePacket
    BY <2>1 DEF StoragePacket
  <2>3. slot' \in [Slot -> StoragePacket]
    BY <1>3, <1>s, <2>2 DEF PushPoints
  <2>. QED
    BY <1>3, <2>3 DEF PushPoints
<1>4. CASE PushAdvance
  BY <1>4, IncType DEF PushAdvance
<1>5. CASE PopBegin
  BY <1>5 DEF PopBegin
<1>6. CASE PopHeader
  <2>1. pop'.pkg \in StoragePacket
    BY <1>6, <1>s DEF PopHeader, StoragePacket
  <2>. QED
    BY <1>6, <2>1 DEF PopHeader
<1>7. CASE PopPoints
  <2>1. pop'.pkg \in StoragePacket
    BY <1>7, <1>s DEF PopPoints, StoragePacket
  <2>. QED
    BY <1>7, <2>1 DEF PopPoints
<1>8. CASE PopAdvance
  BY <1>8, IncType DEF PopAdvance
<1>9. CASE DrainWr
  BY <1>9, IncType DEF DrainWr
<1>10. CASE DrainRd
  BY <1>10, IncType DEF DrainRd
<1>11. CASE UNCHANGED vars
  BY <1>11 DEF vars
<1>. QED
  BY <1>1, <1>2, <1>3, <1>4, <1>5, <1>6, <1>7, <1>8, <1>9, <1>10, <1>11 DEF Next

\* The variables start in their domains.
LEMMA TypeInit == Init => TypeOK
<1> SUFFICES ASSUME Init PROVE TypeOK
  OBVIOUS
<1>1. Empty \in StoragePacket
  BY WholeType DEF Empty, Field
<1>. QED
  BY <1>1, ZeroType DEF Init, TypeOK, Field

\* The variables of the ring keep their domains: in particular every index stays
\* a uint32_t and every slot a packet, whatever the size of the ring.
THEOREM TypeCorrect == Spec => []TypeOK
<1>. QED
  BY TypeInit, TypeStep, PTL DEF Spec

-------------------------------------------------------------------------------
(***************************************************************************)
(* The inductive invariant is one.                                         *)
(***************************************************************************)

\* What the order of the indices says about the slots.
LEMMA RingFacts ==
  ASSUME TypeOK, IndexOrder
  PROVE  /\ Released \in Nat /\ Visible \in Nat /\ Hidden \in Nat
         /\ Released + Visible + Hidden <= QueueSize
         /\ Dist(rd_idx, wr_idx) = Visible + Hidden
         /\ Dist(rd_seen, wr_idx) = Released + Visible + Hidden
         /\ SlotOf(wr_idx) = SlotOf(rd_idx + Visible + Hidden)
<1>1. Released \in Nat /\ Visible \in Nat /\ Hidden \in Nat
  BY DistBasic, SizeAssumption DEF TypeOK, Released, Visible, Hidden
<1>2. Released + Visible + Hidden <= QueueSize
  BY DEF IndexOrder, Released, Visible, Hidden
<1>3. Dist(rd_idx, wr_idx) = Visible + Hidden
  BY <1>1, <1>2, DistAdd, SizeAssumption DEF TypeOK, Visible, Hidden, Released
<1>4. Dist(rd_seen, wr_idx) = Released + Visible + Hidden
  BY <1>1, <1>2, <1>3, DistAdd, SizeAssumption DEF TypeOK, Released
<1>5. SlotOf(rd_idx + Dist(rd_idx, wr_idx)) = SlotOf(wr_idx)
  BY SlotAtDist DEF TypeOK
<1>6. rd_idx + Dist(rd_idx, wr_idx) = rd_idx + Visible + Hidden
  BY <1>1, <1>3, SizeAssumption DEF TypeOK, Index
<1>. QED
  BY <1>1, <1>2, <1>3, <1>4, <1>5, <1>6

\* While there is room, the slot being written is none of those that hold a packet.
LEMMA WriteSlotFree ==
  ASSUME TypeOK, IndexOrder, Released + Visible + Hidden < QueueSize,
         NEW k \in 1 .. Visible + Hidden
  PROVE  SlotOf(rd_idx + k - 1) # SlotOf(wr_idx)
<1>1. rd_idx + k - 1 \in Int /\ rd_idx + Visible + Hidden \in Int
  BY RingFacts, SizeAssumption DEF TypeOK, Index
<1>2. /\ 0 < (rd_idx + Visible + Hidden) - (rd_idx + k - 1)
      /\ (rd_idx + Visible + Hidden) - (rd_idx + k - 1) < QueueSize
  BY RingFacts, SizeAssumption DEF TypeOK, Index
<1>. QED
  BY <1>1, <1>2, SlotDistinct, RingFacts

\* In particular it is not the slot being read.
LEMMA ReadSlotBusy ==
  ASSUME TypeOK, IndexOrder, Released + Visible + Hidden < QueueSize, Visible > 0
  PROVE  SlotOf(rd_idx) # SlotOf(wr_idx)
<1>1. 1 \in 1 .. Visible + Hidden
  BY RingFacts
<1>2. rd_idx + 1 - 1 = rd_idx
  BY SizeAssumption DEF TypeOK, Index
<1>. QED
  BY <1>1, <1>2, WriteSlotFree

\* A write to the slot at wr_idx, the indices staying, disturbs nothing else.
LEMMA WriteKeeps ==
  ASSUME RingInv, TypeOK', push.pc # "idle",
         NEW pkg, slot' = [slot EXCEPT ![SlotOf(wr_idx)] = pkg],
         UNCHANGED <<allocated, wr_idx, wr_seen, rd_idx, rd_seen, pop>>,
         push'.pc # "idle", push'.frame = push.frame
  PROVE  /\ IndexOrder' /\ Fresh' /\ PushRoom' /\ PopRoom' /\ Contents'
         /\ pop.pc # "idle" => slot'[SlotOf(rd_idx)] = slot[SlotOf(rd_idx)]
         /\ slot'[SlotOf(wr_idx)] = pkg
<1> USE DEF RingInv
<1>1. UNCHANGED <<Released, Visible, Hidden>>
  BY DEF Released, Visible, Hidden
<1>2. Released + Visible + Hidden < QueueSize
  BY DEF PushRoom
<1>3. \A x \in Int : SlotOf(x) # SlotOf(wr_idx) => slot'[SlotOf(x)] = slot[SlotOf(x)]
  BY SlotRange DEF TypeOK
<1>4. rd_idx \in Int /\ wr_idx \in Int
  BY SizeAssumption DEF TypeOK, Index
<1>5. IndexOrder' /\ Fresh' /\ PushRoom' /\ PopRoom'
  BY <1>1 DEF IndexOrder, Fresh, PushRoom, PopRoom, Released, Visible, Hidden
<1>6. Contents'
  <2>1. SUFFICES ASSUME NEW k \in 1 .. Visible + Hidden
                 PROVE \E f \in Frame : slot'[SlotOf(rd_idx + k - 1)] = Whole(f)
    BY <1>1 DEF Contents
  <2>2. rd_idx + k - 1 \in Int
    BY <1>4, RingFacts
  <2>3. SlotOf(rd_idx + k - 1) # SlotOf(wr_idx)
    BY <1>2, WriteSlotFree
  <2>. QED
    BY <1>3, <2>2, <2>3 DEF Contents
<1>7. pop.pc # "idle" => slot'[SlotOf(rd_idx)] = slot[SlotOf(rd_idx)]
  BY <1>2, <1>3, <1>4, ReadSlotBusy DEF PopRoom
<1>8. slot'[SlotOf(wr_idx)] = pkg
  BY <1>4, SlotRange DEF TypeOK
<1>. QED
  BY <1>5, <1>6, <1>7, <1>8

\* A step that moves neither index nor slot.
LEMMA StillKeeps ==
  ASSUME RingInv, TypeOK', UNCHANGED <<allocated, slot, wr_idx, wr_seen, rd_idx, rd_seen>>
  PROVE  /\ UNCHANGED <<Released, Visible, Hidden>>
         /\ IndexOrder' /\ Fresh' /\ Contents'
BY DEF RingInv, Released, Visible, Hidden, IndexOrder, Fresh, Contents

\* Beginning a push keeps the invariant: QueueIsFull has found room (PushRoom).
LEMMA RingPush ==
  ASSUME RingInv, TypeOK', NEW f \in Frame, PushFirst(f) \/ PushBegin(f)
  PROVE  RingInv'
<1> USE DEF RingInv
<1>1. UNCHANGED <<wr_idx, wr_seen, rd_idx, rd_seen, slot, pop, out>>
  BY Zenon DEF PushFirst, PushBegin
<1>2. push' = [pc |-> "header", frame |-> f]
  BY Zenon DEF PushFirst, PushBegin
<1>3. allocated'
  <2>1. CASE PushFirst(f)
    BY <2>1, Zenon DEF PushFirst
  <2>2. CASE PushBegin(f)
    <3>1. allocated /\ allocated' = allocated
      BY <2>2 DEF PushBegin
    <3>. QED
      BY <3>1, Zenon
  <2>. QED
    BY <2>1, <2>2
<1>4. UNCHANGED <<Released, Visible, Hidden>>
  BY <1>1 DEF Released, Visible, Hidden
<1>5. Released + Visible + Hidden < QueueSize
  <2>1. CASE PushFirst(f)
    <3>1. wr_idx = 0 /\ wr_seen = 0 /\ rd_idx = 0 /\ rd_seen = 0
      BY <2>1, Zenon DEF PushFirst, Fresh
    <3>2. Released = 0 /\ Visible = 0 /\ Hidden = 0
      BY <3>1, DistBasic, ZeroType DEF Released, Visible, Hidden
    <3>. QED
      BY <3>2, SizeAssumption
  <2>2. CASE PushBegin(f)
    <3>1. ~(Dist(rd_seen, wr_idx) > QueueSize - 1)
      BY <2>2 DEF PushBegin, QueueIsFull
    <3>. QED
      BY <3>1, RingFacts, SizeAssumption
  <2>. QED
    BY <2>1, <2>2
<1>6. IndexOrder' /\ Contents' /\ PopRoom'
  BY <1>1, <1>4 DEF IndexOrder, Contents, PopRoom, Released, Visible, Hidden
<1>7. Fresh'
  BY <1>3, Zenon DEF Fresh
<1>8. PushRoom'
  BY <1>2, <1>3, <1>4, <1>5 DEF PushRoom
<1>9. Copied'
  BY <1>1, <1>2 DEF Copied
<1>. QED
  BY <1>6, <1>7, <1>8, <1>9

\* Writing a slot keeps the invariant: it is none of the slots in the queue.
LEMMA RingWrite ==
  ASSUME RingInv, TypeOK', PushHeader \/ PushPoints
  PROVE  RingInv'
<1> USE DEF RingInv
<1>0. SlotOf(wr_idx) \in Slot
  BY SlotRange, SizeAssumption DEF TypeOK, Index
<1>1. CASE PushHeader
  <2> DEFINE pkg == [slot[SlotOf(wr_idx)] EXCEPT !.base_time = push.frame]
  <2>1. /\ slot' = [slot EXCEPT ![SlotOf(wr_idx)] = pkg]
        /\ UNCHANGED <<allocated, wr_idx, wr_seen, rd_idx, rd_seen, pop>>
        /\ push.pc # "idle" /\ push'.pc = "points" /\ push'.frame = push.frame
    BY <1>1 DEF PushHeader, TypeOK
  <2>2. pkg.base_time = push.frame
    BY <1>0 DEF TypeOK, StoragePacket
  <2> HIDE DEF pkg
  <2>3. /\ IndexOrder' /\ Fresh' /\ PushRoom' /\ PopRoom' /\ Contents'
        /\ pop.pc # "idle" => slot'[SlotOf(rd_idx)] = slot[SlotOf(rd_idx)]
        /\ slot'[SlotOf(wr_idx)] = pkg
    BY <2>1, WriteKeeps
  <2>4. Copied'
    BY <2>1, <2>2, <2>3 DEF Copied
  <2>. QED
    BY <2>3, <2>4
<1>2. CASE PushPoints
  <2> DEFINE pkg == [slot[SlotOf(wr_idx)] EXCEPT !.points = push.frame]
  <2>1. /\ slot' = [slot EXCEPT ![SlotOf(wr_idx)] = pkg]
        /\ UNCHANGED <<allocated, wr_idx, wr_seen, rd_idx, rd_seen, pop>>
        /\ push.pc = "points" /\ push'.pc = "advance" /\ push'.frame = push.frame
    BY <1>2 DEF PushPoints, TypeOK
  <2>2. pkg.points = push.frame /\ pkg.base_time = push.frame
    BY <1>0, <2>1 DEF TypeOK, StoragePacket, Copied
  <2> HIDE DEF pkg
  <2>3. /\ IndexOrder' /\ Fresh' /\ PushRoom' /\ PopRoom' /\ Contents'
        /\ pop.pc # "idle" => slot'[SlotOf(rd_idx)] = slot[SlotOf(rd_idx)]
        /\ slot'[SlotOf(wr_idx)] = pkg
    BY <2>1, WriteKeeps
  <2>4. Copied'
    BY <2>1, <2>2, <2>3 DEF Copied
  <2>. QED
    BY <2>3, <2>4
<1>. QED
  BY <1>1, <1>2

\* Advancing wr_idx keeps the invariant: it adds one hidden, whole packet.
LEMMA RingPushAdvance ==
  ASSUME RingInv, TypeOK', PushAdvance
  PROVE  RingInv'
<1> USE DEF RingInv
<1>1. /\ UNCHANGED <<allocated, slot, wr_seen, rd_idx, rd_seen, pop>>
      /\ wr_idx' = Inc(wr_idx)
      /\ push.pc = "advance" /\ push'.pc = "idle"
  BY DEF PushAdvance, TypeOK
<1>2. allocated /\ push.frame \in Frame /\ Released + Visible + Hidden < QueueSize
  BY <1>1 DEF PushRoom
<1>3. UNCHANGED <<Released, Visible>> /\ Hidden' = Hidden + 1
  <2>1. Dist(wr_seen, wr_idx) < IdxMod - 1
    BY <1>2, RingFacts, SizeAssumption DEF Hidden
  <2>. QED
    BY <1>1, <2>1, DistInc DEF Released, Visible, Hidden, TypeOK
<1>4. IndexOrder'
  BY <1>2, <1>3, RingFacts, SizeAssumption DEF IndexOrder, Released, Visible, Hidden
<1>5. Fresh' /\ PushRoom' /\ PopRoom' /\ Copied'
  BY <1>1, <1>2, <1>3, RingFacts DEF Fresh, PushRoom, PopRoom, Copied
<1>6. slot[SlotOf(wr_idx)] = Whole(push.frame)
  <2>1. slot[SlotOf(wr_idx)] \in StoragePacket
    BY SlotRange, SizeAssumption DEF TypeOK, Index
  <2>2. /\ slot[SlotOf(wr_idx)].base_time = push.frame
        /\ slot[SlotOf(wr_idx)].points = push.frame
    BY <1>1 DEF Copied
  <2>. QED
    BY <2>1, <2>2 DEF StoragePacket, Whole
<1>7. Contents'
  <2>1. SUFFICES ASSUME NEW k \in 1 .. Visible + Hidden + 1
                 PROVE \E f \in Frame : slot[SlotOf(rd_idx + k - 1)] = Whole(f)
    BY <1>1, <1>3, RingFacts DEF Contents
  <2>2. CASE k \in 1 .. Visible + Hidden
    BY <2>2 DEF Contents
  <2>3. CASE k = Visible + Hidden + 1
    <3>1. rd_idx + k - 1 = rd_idx + Visible + Hidden
      BY <2>3, RingFacts, SizeAssumption DEF TypeOK, Index
    <3>. QED
      BY <1>2, <1>6, <3>1, RingFacts
  <2>4. Visible \in Nat /\ Hidden \in Nat
    BY RingFacts
  <2>5. k \in 1 .. Visible + Hidden \/ k = Visible + Hidden + 1
    BY <2>4
  <2>. QED
    BY <2>2, <2>3, <2>5
<1>. QED
  BY <1>4, <1>5, <1>7

\* Looking and copying keeps the invariant: the slot that is copied is in the queue.
LEMMA RingPop ==
  ASSUME RingInv, TypeOK', PopBegin \/ PopHeader \/ PopPoints
  PROVE  RingInv'
<1> USE DEF RingInv
<1>1. UNCHANGED <<allocated, slot, wr_idx, wr_seen, rd_idx, rd_seen, push>>
  BY DEF PopBegin, PopHeader, PopPoints
<1>2. UNCHANGED <<Released, Visible, Hidden>> /\ IndexOrder' /\ Fresh' /\ Contents'
  BY <1>1, StillKeeps
<1>3. PushRoom'
  BY <1>1, <1>2 DEF PushRoom
<1>4. PopRoom'
  <2>1. CASE PopBegin
    <3>1. Visible # 0
      BY <2>1, DistBasic DEF PopBegin, QueueIsEmpty, Visible, TypeOK
    <3>. QED
      BY <1>2, <3>1, RingFacts DEF PopRoom
  <2>2. CASE PopHeader \/ PopPoints
    BY <1>2, <2>2 DEF PopHeader, PopPoints, PopRoom
  <2>. QED
    BY <2>1, <2>2
<1>5. Copied'
  <2>1. CASE PopBegin
    BY <1>1, <2>1 DEF PopBegin, Copied, TypeOK
  <2>2. CASE PopHeader
    BY <1>1, <2>2 DEF PopHeader, Copied, TypeOK, StoragePacket
  <2>3. CASE PopPoints
    BY <1>1, <2>3 DEF PopPoints, Copied, TypeOK, StoragePacket
  <2>. QED
    BY <2>1, <2>2, <2>3
<1>. QED
  BY <1>2, <1>3, <1>4, <1>5

\* Advancing rd_idx keeps the invariant: one visible packet becomes unreleased room.
LEMMA RingPopAdvance ==
  ASSUME RingInv, TypeOK', PopAdvance
  PROVE  RingInv'
<1> USE DEF RingInv
<1>1. /\ UNCHANGED <<allocated, slot, wr_idx, wr_seen, rd_seen, push>>
      /\ rd_idx' = Inc(rd_idx)
      /\ pop.pc = "advance" /\ pop'.pc = "idle"
  BY DEF PopAdvance, TypeOK
<1>2. allocated
  <2>1. Visible > 0
    BY <1>1 DEF PopRoom
  <2>2. rd_idx # wr_seen
    BY <2>1, DistBasic DEF Visible, TypeOK
  <2>. QED
    BY <2>2, Zenon DEF Fresh
<1>3. Released' = Released + 1 /\ Visible' = Visible - 1 /\ Hidden' = Hidden
  <2>1. Visible > 0 /\ rd_idx # wr_seen
    BY <1>1, DistBasic DEF PopRoom, Visible, TypeOK
  <2>2. Dist(rd_seen, rd_idx) < IdxMod - 1
    BY <2>1, RingFacts, SizeAssumption DEF Released
  <2>. QED
    BY <1>1, <2>1, <2>2, DistInc, IncDist DEF Released, Visible, Hidden, TypeOK
<1>4. IndexOrder'
  BY <1>3, RingFacts, SizeAssumption DEF IndexOrder, Released, Visible, Hidden
<1>5. Fresh' /\ PushRoom' /\ PopRoom' /\ Copied'
  BY <1>1, <1>2, <1>3, RingFacts DEF Fresh, PushRoom, PopRoom, Copied
<1>6. Contents'
  <2>1. SUFFICES ASSUME NEW k \in 1 .. Visible + Hidden - 1
                 PROVE \E f \in Frame : slot[SlotOf(Inc(rd_idx) + k - 1)] = Whole(f)
    BY <1>1, <1>3, RingFacts DEF Contents
  <2>2. SlotOf(Inc(rd_idx) + k - 1) = SlotOf(rd_idx + k)
    BY RingFacts, SlotInc DEF TypeOK
  <2>3. k + 1 \in 1 .. Visible + Hidden /\ rd_idx + (k + 1) - 1 = rd_idx + k
    BY RingFacts, SizeAssumption DEF TypeOK, Index
  <2>. QED
    BY <2>2, <2>3 DEF Contents
<1>. QED
  BY <1>4, <1>5, <1>6

\* A store that becomes visible keeps the invariant: it moves one packet from a
\* distance to the next.
LEMMA RingDrain ==
  ASSUME RingInv, TypeOK', DrainWr \/ DrainRd
  PROVE  RingInv'
<1> USE DEF RingInv
<1>1. UNCHANGED <<allocated, slot, wr_idx, rd_idx, push, pop>>
  BY DEF DrainWr, DrainRd
<1>2. /\ Released' + Visible' + Hidden' <= Released + Visible + Hidden
      /\ Visible' >= Visible /\ Visible' + Hidden' = Visible + Hidden
  <2>1. CASE DrainWr
    <3>1. Dist(rd_idx, wr_seen) < IdxMod - 1 /\ Hidden > 0
      BY <2>1, DistBasic, RingFacts, SizeAssumption DEF DrainWr, Visible, Hidden, TypeOK
    <3>2. Visible' = Visible + 1 /\ Hidden' = Hidden - 1 /\ Released' = Released
      BY <2>1, <3>1, DistInc, IncDist DEF DrainWr, Released, Visible, Hidden, TypeOK
    <3>. QED
      BY <3>2, RingFacts
  <2>2. CASE DrainRd
    <3>1. Visible' = Visible /\ Hidden' = Hidden /\ Released' = Released - 1
      BY <2>2, IncDist DEF DrainRd, Released, Visible, Hidden, TypeOK
    <3>. QED
      BY <3>1, RingFacts
  <2>. QED
    BY <2>1, <2>2
<1>3. Released' \in Nat /\ Visible' \in Nat /\ Hidden' \in Nat
  BY DistBasic, SizeAssumption DEF TypeOK, Released, Visible, Hidden
<1>4. IndexOrder'
  BY <1>2, <1>3, RingFacts, SizeAssumption DEF IndexOrder, Released, Visible, Hidden
<1>5. Fresh'
  <2>1. allocated
    <3>1. wr_seen # wr_idx \/ rd_seen # rd_idx
      BY DEF DrainWr, DrainRd
    <3>. QED
      BY <3>1, Zenon DEF Fresh
  <2>. QED
    BY <1>1, <2>1 DEF Fresh
<1>6. PushRoom'
  <2>1. SUFFICES ASSUME push.pc # "idle"
                 PROVE  /\ allocated'
                        /\ push.frame \in Frame
                        /\ Released' + Visible' + Hidden' < QueueSize
    BY <1>1 DEF PushRoom
  <2>2. allocated /\ push.frame \in Frame /\ Released + Visible + Hidden < QueueSize
    BY <2>1 DEF PushRoom
  <2>3. allocated'
    BY <1>1, <2>2, Zenon
  <2>4. Released \in Nat /\ Visible \in Nat /\ Hidden \in Nat /\ QueueSize \in Nat
    BY RingFacts, SizeAssumption
  <2>5. Released + Visible + Hidden < QueueSize
    BY <2>2
  <2>6. Released' + Visible' + Hidden' <= Released + Visible + Hidden
    BY <1>2
  <2>7. Released' + Visible' + Hidden' < QueueSize
    BY <1>3, <2>4, <2>5, <2>6 DEF Released, Visible, Hidden
  <2>. QED
    BY <2>2, <2>3, <2>7
<1>8. PopRoom'
  BY <1>1, <1>2, <1>3, RingFacts DEF PopRoom
<1>7. Contents' /\ Copied'
  BY <1>1, <1>2 DEF Contents, Copied
<1>. QED
  BY <1>4, <1>5, <1>6, <1>7, <1>8

\* The ring starts empty, with the invariant.
LEMMA RingInit == Init => RingInv
<1> SUFFICES ASSUME Init PROVE RingInv
  OBVIOUS
<1>1. Released = 0 /\ Visible = 0 /\ Hidden = 0
  BY DistBasic, ZeroType DEF Init, Released, Visible, Hidden
<1>2. IndexOrder
  BY <1>1, SizeAssumption DEF IndexOrder, Released, Visible, Hidden
<1>3. Fresh /\ PushRoom /\ PopRoom /\ Copied
  BY DEF Init, Fresh, PushRoom, PopRoom, Copied
<1>4. Contents
  BY <1>1 DEF Contents
<1>. QED
  BY <1>2, <1>3, <1>4, TypeInit DEF RingInv

\* Every step keeps the invariant.
LEMMA RingStep == RingInv /\ [Next]_vars => RingInv'
<1> SUFFICES ASSUME RingInv, [Next]_vars PROVE RingInv'
  OBVIOUS
<1>1. TypeOK'
  BY TypeStep DEF RingInv
<1>2. CASE UNCHANGED vars
  BY <1>1, <1>2, StillKeeps DEF vars, RingInv, PushRoom, PopRoom, Copied
<1>. QED
  BY <1>1, <1>2, RingPush, RingWrite, RingPushAdvance, RingPop, RingPopAdvance, RingDrain
     DEF Next

\* The invariant holds in every reachable state.
LEMMA RingCorrect == Spec => []RingInv
<1>. QED
  BY RingInit, RingStep, PTL DEF Spec

-------------------------------------------------------------------------------
(***************************************************************************)
(* The properties.                                                         *)
(***************************************************************************)

\* wr_idx - rd_idx never exceeds the size of the ring, for any lag of the two
\* threads' views and across the wrap of the counters.
THEOREM IndexOrderCorrect == Spec => []IndexOrder
<1>1. RingInv => IndexOrder
  BY DEF RingInv
<1>. QED
  BY <1>1, RingCorrect, PTL

\* The two threads are never inside the same slot.
THEOREM NoSlotRaceCorrect == Spec => []NoSlotRace
<1>1. RingInv => NoSlotRace
  <2>1. SUFFICES ASSUME RingInv, Writing, Reading
                 PROVE SlotOf(wr_idx) # SlotOf(rd_idx)
    BY DEF NoSlotRace
  <2>2. Released + Visible + Hidden < QueueSize /\ Visible > 0
    BY <2>1 DEF RingInv, PushRoom, PopRoom, Writing, Reading
  <2>. QED
    BY <2>1, <2>2, ReadSlotBusy DEF RingInv
<1>. QED
  BY <1>1, RingCorrect, PTL

\* A packet handed to the publisher is one that was pushed, whole.
THEOREM NoTornPacketCorrect == Spec => []NoTornPacket
<1>1. RingInv => NoTornPacket
  <2>1. SUFFICES ASSUME RingInv, pop.pc = "advance"
                 PROVE \E f \in Frame : pop.pkg = Whole(f)
    BY DEF NoTornPacket
  <2>2. Visible > 0
    BY <2>1 DEF RingInv, PopRoom
  <2>3. 1 \in 1 .. Visible + Hidden /\ rd_idx + 1 - 1 = rd_idx
    BY <2>1, <2>2, RingFacts, SizeAssumption DEF RingInv, TypeOK, Index
  <2>4. PICK f \in Frame : slot[SlotOf(rd_idx)] = Whole(f)
    BY <2>1, <2>3 DEF RingInv, Contents
  <2>5. pop.pkg.base_time = f /\ pop.pkg.points = f
    BY <2>1, <2>4 DEF RingInv, Copied, Whole
  <2>. QED
    BY <2>1, <2>5 DEF RingInv, TypeOK, StoragePacket, Whole
<1>. QED
  BY <1>1, RingCorrect, PTL

-------------------------------------------------------------------------------
(***************************************************************************)
(* The ring implements the abstract queue: every step of the ring is a step*)
(* of FrameFifo or leaves its state alone.                                 *)
(***************************************************************************)

\* The queue of FrameFifo, read off the ring.
Queue == [k \in 1 .. Dist(rd_idx, wr_idx) |-> slot[SlotOf(rd_idx + k - 1)]]

\* The abstract queue is the sequence of the slots from rd_idx to wr_idx.
LEMMA QueueFacts ==
  ASSUME RingInv
  PROVE  /\ Queue \in Seq(StoragePacket)
         /\ Len(Queue) = Visible + Hidden
         /\ \A k \in 1 .. Visible + Hidden : Queue[k] = slot[SlotOf(rd_idx + k - 1)]
<1>1. /\ Visible \in Nat /\ Hidden \in Nat
      /\ Dist(rd_idx, wr_idx) = Visible + Hidden
  BY RingFacts DEF RingInv
<1>2. ASSUME NEW k \in 1 .. Visible + Hidden
      PROVE  slot[SlotOf(rd_idx + k - 1)] \in StoragePacket
  <2>1. rd_idx + k - 1 \in Int
    BY <1>1, SizeAssumption DEF RingInv, TypeOK, Index
  <2>. QED
    BY <2>1, SlotRange DEF RingInv, TypeOK
<1>. QED
  BY <1>1, <1>2 DEF Queue

\* A function on 1 .. n is a sequence of length n.
LEMMA SeqOfFunction ==
  ASSUME NEW S, NEW n \in Nat, NEW s \in [1 .. n -> S]
  PROVE  s \in Seq(S) /\ Len(s) = n
OBVIOUS

\* A queue is determined by its length and its packets.
LEMMA QueueEqual ==
  ASSUME NEW S, NEW s \in Seq(S), NEW t \in Seq(S), Len(s) = Len(t),
         \A k \in 1 .. Len(s) : s[k] = t[k]
  PROVE  s = t
OBVIOUS

\* What Tail returns.
LEMMA TailFacts ==
  ASSUME NEW S, NEW s \in Seq(S), Len(s) > 0
  PROVE  /\ Tail(s) \in Seq(S)
         /\ Len(Tail(s)) = Len(s) - 1
         /\ \A k \in 1 .. Len(s) - 1 : Tail(s)[k] = s[k + 1]
OBVIOUS

\* A step that touches neither slots, indices nor out is a stutter of the queue.
LEMMA RefineStill ==
  ASSUME UNCHANGED <<slot, wr_idx, wr_seen, rd_idx, rd_seen, out>>
  PROVE  UNCHANGED Fifo!vars
BY DEF Fifo!vars

\* Writing the slot at wr_idx is one too: the slot is not in the queue.
LEMMA RefineWrite ==
  ASSUME RingInv, RingInv', PushHeader \/ PushPoints
  PROVE  UNCHANGED Fifo!vars
<1>1. /\ UNCHANGED <<wr_idx, wr_seen, rd_idx, rd_seen, out>>
      /\ push.pc # "idle"
      /\ \A s \in Slot : s # SlotOf(wr_idx) => slot'[s] = slot[s]
  BY DEF PushHeader, PushPoints, RingInv, TypeOK
<1>2. UNCHANGED <<Visible, Hidden, Released>>
  BY <1>1 DEF Visible, Hidden, Released
<1>3. Visible \in Nat /\ Hidden \in Nat /\ rd_idx \in Int
  BY RingFacts, SizeAssumption DEF RingInv, TypeOK, Index
<1>4. ASSUME NEW k \in 1 .. Visible + Hidden
      PROVE  slot'[SlotOf(rd_idx + k - 1)] = slot[SlotOf(rd_idx + k - 1)]
  <2>1. SlotOf(rd_idx + k - 1) # SlotOf(wr_idx)
    BY <1>1, WriteSlotFree DEF RingInv, PushRoom
  <2>2. SlotOf(rd_idx + k - 1) \in Slot
    BY <1>3, SlotRange
  <2>. QED
    BY <1>1, <2>1, <2>2
<1>5. Dist(rd_idx, wr_idx) = Visible + Hidden
  BY RingFacts DEF RingInv
<1>6. Queue' = Queue
  BY <1>1, <1>4, <1>5 DEF Queue
<1>. QED
  BY <1>1, <1>6 DEF Fifo!vars, Queue

\* Advancing wr_idx pushes the packet just written.
LEMMA RefinePush ==
  ASSUME RingInv, RingInv', PushAdvance
  PROVE  \E p \in {Whole(f) : f \in Frame} : Fifo!Push(p)
<1>1. /\ UNCHANGED <<slot, wr_seen, rd_idx, rd_seen, out>>
      /\ wr_idx' = Inc(wr_idx)
      /\ push.pc = "advance"
  BY DEF PushAdvance
<1>2. push.frame \in Frame /\ Released + Visible + Hidden < QueueSize
  BY <1>1 DEF RingInv, PushRoom
<1>3. /\ Released \in Nat /\ Visible \in Nat /\ Hidden \in Nat
      /\ SlotOf(wr_idx) = SlotOf(rd_idx + Visible + Hidden)
      /\ Dist(rd_idx, wr_idx) = Visible + Hidden
  BY RingFacts DEF RingInv
<1>4. Visible' = Visible /\ Hidden' = Hidden + 1
  <2>1. Dist(wr_seen, wr_idx) < IdxMod - 1
    BY <1>2, <1>3, SizeAssumption DEF Hidden
  <2>. QED
    BY <1>1, <2>1, DistInc DEF Visible, Hidden, RingInv, TypeOK
<1>5. slot[SlotOf(wr_idx)] = Whole(push.frame)
  <2>1. slot[SlotOf(wr_idx)] \in StoragePacket
    BY SlotRange, SizeAssumption DEF RingInv, TypeOK, Index
  <2>2. /\ slot[SlotOf(wr_idx)].base_time = push.frame
        /\ slot[SlotOf(wr_idx)].points = push.frame
    BY <1>1 DEF RingInv, Copied
  <2>. QED
    BY <2>1, <2>2 DEF StoragePacket, Whole
<1>6. Queue' = Append(Queue, Whole(push.frame))
  <2>1. /\ Queue \in Seq(StoragePacket) /\ Len(Queue) = Visible + Hidden
        /\ \A k \in 1 .. Visible + Hidden : Queue[k] = slot[SlotOf(rd_idx + k - 1)]
    BY QueueFacts
  <2>2. /\ Queue' \in Seq(StoragePacket) /\ Len(Queue') = Visible + Hidden + 1
        /\ \A k \in 1 .. Visible + Hidden + 1 :
             Queue'[k] = slot[SlotOf(rd_idx + k - 1)]
    <3>1. Dist(rd_idx', wr_idx') = Visible + Hidden + 1
      <4>1. Dist(rd_idx, wr_idx) < IdxMod - 1
        BY <1>2, <1>3, SizeAssumption
      <4>. QED
        BY <1>1, <1>3, <4>1, DistInc DEF RingInv, TypeOK
    <3>2. Queue' = [k \in 1 .. Visible + Hidden + 1 |-> slot[SlotOf(rd_idx + k - 1)]]
      BY <1>1, <3>1 DEF Queue
    <3>3. ASSUME NEW k \in 1 .. Visible + Hidden + 1
          PROVE  slot[SlotOf(rd_idx + k - 1)] \in StoragePacket
      <4>1. rd_idx + k - 1 \in Int
        BY <1>3, SizeAssumption DEF RingInv, TypeOK, Index
      <4>. QED
        BY <4>1, SlotRange DEF RingInv, TypeOK
    <3>. QED
      BY <1>3, <3>2, <3>3
  <2>3. Queue'[Visible + Hidden + 1] = Whole(push.frame)
    <3>1. rd_idx + (Visible + Hidden + 1) - 1 = rd_idx + Visible + Hidden
      BY <1>3, SizeAssumption DEF RingInv, TypeOK, Index
    <3>. QED
      BY <1>3, <1>5, <2>2, <3>1
  <2>4. Whole(push.frame) \in StoragePacket
    BY <1>2, WholeType DEF Field
  <2>. QED
    BY <1>3, <2>1, <2>2, <2>3, <2>4, QueueEqual
<1>7. Len(Queue) + Dist(rd_seen, rd_idx) < QueueSize
  BY <1>2, <1>3, QueueFacts, SizeAssumption DEF Released
<1>8. Fifo!Push(Whole(push.frame))
  BY <1>1, <1>6, <1>7 DEF Fifo!Push, Queue
<1>. QED
  BY <1>2, <1>8

\* Advancing rd_idx pops the packet just copied.
LEMMA RefinePop ==
  ASSUME RingInv, RingInv', PopAdvance
  PROVE  Fifo!Pop
<1>1. /\ UNCHANGED <<slot, wr_idx, wr_seen, rd_seen>>
      /\ rd_idx' = Inc(rd_idx)
      /\ out' = pop.pkg
      /\ pop.pc = "advance"
  BY DEF PopAdvance
<1>2. /\ Released \in Nat /\ Visible \in Nat /\ Hidden \in Nat /\ Visible > 0
      /\ Released + Visible + Hidden <= QueueSize
      /\ Dist(rd_idx, wr_idx) = Visible + Hidden
  BY <1>1, RingFacts DEF RingInv, PopRoom
<1>3. /\ Dist(rd_idx', wr_seen') = Dist(rd_idx, wr_seen) - 1
      /\ Dist(rd_idx', wr_idx') = Dist(rd_idx, wr_idx) - 1
      /\ Dist(rd_seen', rd_idx') = Dist(rd_seen, rd_idx) + 1
  <2>1. rd_idx # wr_seen /\ rd_idx # wr_idx
    BY <1>2, DistBasic DEF Visible, RingInv, TypeOK
  <2>2. Dist(rd_seen, rd_idx) < IdxMod - 1
    BY <1>2, SizeAssumption DEF Released
  <2>. QED
    BY <1>1, <2>1, <2>2, IncDist, DistInc DEF RingInv, TypeOK
<1>4. pop.pkg = slot[SlotOf(rd_idx)]
  <2>1. slot[SlotOf(rd_idx)] \in StoragePacket
    BY SlotRange, SizeAssumption DEF RingInv, TypeOK, Index
  <2>2. /\ slot[SlotOf(rd_idx)].base_time = pop.pkg.base_time
        /\ slot[SlotOf(rd_idx)].points = pop.pkg.points
    BY <1>1 DEF RingInv, Copied
  <2>. QED
    BY <2>1, <2>2 DEF RingInv, TypeOK, StoragePacket
<1>5. /\ Queue \in Seq(StoragePacket) /\ Len(Queue) = Visible + Hidden
      /\ \A k \in 1 .. Visible + Hidden : Queue[k] = slot[SlotOf(rd_idx + k - 1)]
  BY QueueFacts
<1>6. Queue' = Tail(Queue)
  <2>1. Queue' = [k \in 1 .. Visible + Hidden - 1 |-> slot[SlotOf(Inc(rd_idx) + k - 1)]]
    BY <1>1, <1>2, <1>3 DEF Queue
  <2>2. ASSUME NEW k \in 1 .. Visible + Hidden - 1
        PROVE  slot[SlotOf(Inc(rd_idx) + k - 1)] = Queue[k + 1]
    <3>1. SlotOf(Inc(rd_idx) + k - 1) = SlotOf(rd_idx + k)
      BY <1>2, SlotInc DEF RingInv, TypeOK
    <3>2. k + 1 \in 1 .. Visible + Hidden /\ rd_idx + (k + 1) - 1 = rd_idx + k
      BY <1>2, SizeAssumption DEF RingInv, TypeOK, Index
    <3>. QED
      BY <1>5, <3>1, <3>2
  <2>3. /\ Tail(Queue) \in Seq(StoragePacket)
        /\ Len(Tail(Queue)) = Visible + Hidden - 1
        /\ \A k \in 1 .. Visible + Hidden - 1 : Tail(Queue)[k] = Queue[k + 1]
    BY <1>2, <1>5, TailFacts
  <2>4. \A k \in 1 .. Visible + Hidden - 1 : Queue[k + 1] \in StoragePacket
    BY <1>2, <1>5
  <2>5. /\ Queue' \in Seq(StoragePacket)
        /\ Len(Queue') = Visible + Hidden - 1
        /\ \A k \in 1 .. Visible + Hidden - 1 : Queue'[k] = Queue[k + 1]
    <3>1. \A k \in 1 .. Visible + Hidden - 1 : Queue'[k] = Queue[k + 1]
      BY <2>1, <2>2
    <3>2. Queue' \in [1 .. Visible + Hidden - 1 -> StoragePacket]
      BY <2>1, <2>2, <2>4
    <3>3. Visible + Hidden - 1 \in Nat
      BY <1>2
    <3>. QED
      BY <3>1, <3>2, <3>3, SeqOfFunction
  <2>. QED
    BY <1>2, <2>3, <2>5, QueueEqual
<1>7. Head(Queue) = pop.pkg
  <2>1. 1 \in 1 .. Visible + Hidden /\ rd_idx + 1 - 1 = rd_idx
    BY <1>2, SizeAssumption DEF RingInv, TypeOK, Index
  <2>. QED
    BY <1>4, <1>5, <2>1
<1>8. Dist(rd_idx, wr_seen) > 0
  BY <1>2 DEF Visible
<1>. QED
  BY <1>1, <1>3, <1>6, <1>7, <1>8 DEF Fifo!Pop, Queue

\* A store that becomes visible shows a packet or releases room.
LEMMA RefineDrain ==
  ASSUME RingInv, RingInv', DrainWr \/ DrainRd
  PROVE  Fifo!Show \/ Fifo!Release
<1>1. CASE DrainWr
  <2>1. /\ UNCHANGED <<slot, wr_idx, rd_idx, rd_seen, out>>
        /\ wr_seen' = Inc(wr_seen) /\ wr_seen # wr_idx
    BY <1>1 DEF DrainWr
  <2>2. /\ Visible \in Nat /\ Hidden \in Nat /\ Visible + Hidden <= QueueSize
        /\ Hidden > 0
    BY <2>1, RingFacts, DistBasic, SizeAssumption DEF RingInv, TypeOK, Hidden
  <2>3. Dist(rd_idx, wr_seen) < IdxMod - 1
    BY <2>2, SizeAssumption DEF Visible
  <2>4. Dist(rd_idx', wr_seen') = Dist(rd_idx, wr_seen) + 1
    BY <2>1, <2>3, DistInc DEF RingInv, TypeOK
  <2>5. Dist(rd_idx, wr_seen) < Len(Queue)
    BY <2>2, QueueFacts DEF Visible
  <2>6. Queue' = Queue
    BY <2>1 DEF Queue
  <2>. QED
    BY <2>1, <2>4, <2>5, <2>6 DEF Fifo!Show, Queue
<1>2. CASE DrainRd
  <2>1. /\ UNCHANGED <<slot, wr_idx, wr_seen, rd_idx, out>>
        /\ rd_seen' = Inc(rd_seen) /\ rd_seen # rd_idx
    BY <1>2 DEF DrainRd
  <2>2. /\ Dist(rd_seen', rd_idx') = Dist(rd_seen, rd_idx) - 1
        /\ Dist(rd_seen, rd_idx) > 0
    BY <2>1, IncDist, DistBasic, SizeAssumption DEF RingInv, TypeOK
  <2>3. Queue' = Queue
    BY <2>1 DEF Queue
  <2>. QED
    BY <2>1, <2>2, <2>3 DEF Fifo!Release, Queue
<1>. QED
  BY <1>1, <1>2

\* The empty ring is the empty queue.
LEMMA RefineInit == Init => Fifo!Init
<1> SUFFICES ASSUME Init PROVE Fifo!Init
  OBVIOUS
<1>1. Dist(0, 0) = 0
  BY DistBasic, ZeroType
<1>. QED
  BY <1>1 DEF Init, Fifo!Init

\* Every step of the ring is a step or a stutter of the queue.
LEMMA RefineStep == RingInv /\ RingInv' /\ [Next]_vars => [Fifo!Next]_(Fifo!vars)
<1> SUFFICES ASSUME RingInv, RingInv', [Next]_vars PROVE [Fifo!Next]_(Fifo!vars)
  OBVIOUS
<1>1. ASSUME NEW f \in Frame, PushFirst(f) \/ PushBegin(f) PROVE UNCHANGED Fifo!vars
  BY <1>1, RefineStill DEF PushFirst, PushBegin
<1>2. CASE PopBegin \/ PopHeader \/ PopPoints
  BY <1>2, RefineStill DEF PopBegin, PopHeader, PopPoints
<1>3. CASE PushHeader \/ PushPoints
  BY <1>3, RefineWrite
<1>4. CASE PushAdvance
  BY <1>4, RefinePush DEF Fifo!Next
<1>5. CASE PopAdvance
  BY <1>5, RefinePop DEF Fifo!Next
<1>6. CASE DrainWr \/ DrainRd
  BY <1>6, RefineDrain DEF Fifo!Next
<1>7. CASE UNCHANGED vars
  BY <1>7, RefineStill DEF vars
<1>. QED
  BY <1>1, <1>2, <1>3, <1>4, <1>5, <1>6, <1>7 DEF Next

\* The lock-free ring implements the bounded first-in first-out queue FrameFifo.
THEOREM RefinesFifo == Spec => ImplementsFifo
<1>. QED
  BY RefineInit, RefineStep, RingCorrect, PTL DEF Spec, ImplementsFifo, Fifo!Spec

-------------------------------------------------------------------------------
(***************************************************************************)
(* The rings the driver makes, and its publish interval, for every finite  *)
(* frequency the launch file may hold.                                     *)
(***************************************************************************)

\* A clamped frequency is one between 0.5 and 100.
LEMMA ClampBounds ==
  ASSUME NEW f \in Freq
  PROVE  /\ Clamp(f) \in Freq
         /\ Clamp(f).num <= 100 * Clamp(f).den
         /\ 2 * Clamp(f).num >= Clamp(f).den
<1>1. f.num \in Int /\ f.den \in Nat \ {0}
  BY DEF Freq
<1>2. CASE f.num > 100 * f.den
  <2>1. Clamp(f) = [num |-> 100, den |-> 1] BY <1>2 DEF Clamp
  <2>2. QED BY <2>1 DEF Freq
<1>3. CASE ~(f.num > 100 * f.den) /\ 2 * f.num < f.den
  <2>1. Clamp(f) = [num |-> 1, den |-> 2] BY <1>3 DEF Clamp
  <2>2. QED BY <2>1 DEF Freq
<1>4. CASE ~(f.num > 100 * f.den) /\ ~(2 * f.num < f.den)
  <2>1. Clamp(f) = f BY <1>4 DEF Clamp
  <2>2. QED BY <1>1, <1>4, <2>1
<1>5. QED BY <1>1, <1>2, <1>3, <1>4

\* At least ten packets, at most 101, and more than come in a second.
LEMMA QueueSizeBounds ==
  ASSUME NEW f \in Freq, f.num <= 100 * f.den
  PROVE  /\ CalculatePacketQueueSize(f) \in 10 .. 101
         /\ CalculatePacketQueueSize(f) * f.den >= f.num
<1>1. f.num \in Int /\ f.den \in Nat \ {0}
  BY DEF Freq
<1>2. CASE f.num > 10 * f.den
  <2>1. PICK q \in Int, r \in 0 .. f.den - 1 : q = f.num \div f.den /\ f.num = f.den * q + r
    BY <1>1, DivMod, ModBounds
  <2>2. CalculatePacketQueueSize(f) = q + 1
    BY <1>2, <2>1 DEF CalculatePacketQueueSize
  <2>3. q < 101
    <3>1. SUFFICES ASSUME q >= 101 PROVE FALSE BY <2>1
    <3>2. f.den * q >= 101 * f.den BY <1>1, <2>1, <3>1, SMT
    <3>3. QED BY <1>1, <2>1, <3>2
  <2>4. q > 8
    <3>1. SUFFICES ASSUME q <= 8 PROVE FALSE BY <2>1
    <3>2. f.den * q <= 8 * f.den BY <1>1, <2>1, <3>1, SMT
    <3>3. QED BY <1>1, <1>2, <2>1, <3>2
  <2>5. (q + 1) * f.den = f.den * q + f.den BY <1>1, <2>1, SMT
  <2>6. f.den * q \in Int BY <1>1, <2>1
  <2>7. (q + 1) * f.den >= f.num BY <1>1, <2>1, <2>5, <2>6
  <2>8. q + 1 \in 10 .. 101 BY <2>1, <2>3, <2>4
  <2>9. QED BY <2>2, <2>7, <2>8
<1>3. CASE ~(f.num > 10 * f.den)
  BY <1>1, <1>3 DEF CalculatePacketQueueSize
<1>4. QED BY <1>2, <1>3

\* Rounding up never rounds down, and up to 101 packets give a ring of at most 128.
LEMMA InitQueueBounds ==
  ASSUME NEW n \in 10 .. 101
  PROVE  InitQueue(n) \in {16, 32, 64, 128} /\ InitQueue(n) >= n
<1>1. CASE IsPowerOf2(n)
  BY <1>1 DEF IsPowerOf2, InitQueue, Power
<1>2. CASE ~IsPowerOf2(n)
  <2>1. InitQueue(n) = CHOOSE p \in Power : n <= p /\ \A r \in Power : n <= r => p <= r
    BY <1>2 DEF InitQueue, RoundupPowerOf2
  <2>2. \E p \in Power : n <= p /\ \A r \in Power : n <= r => p <= r
    <3>1. CASE n <= 16
      <4>1. \A r \in Power : n <= r => 16 <= r BY <3>1 DEF Power
      <4>2. QED BY <3>1, <4>1 DEF Power
    <3>2. CASE 16 < n /\ n <= 32
      <4>1. \A r \in Power : n <= r => 32 <= r BY <3>2 DEF Power
      <4>2. QED BY <3>2, <4>1 DEF Power
    <3>3. CASE 32 < n /\ n <= 64
      <4>1. \A r \in Power : n <= r => 64 <= r BY <3>3 DEF Power
      <4>2. QED BY <3>3, <4>1 DEF Power
    <3>4. CASE 64 < n
      <4>1. \A r \in Power : n <= r => 128 <= r BY <3>4 DEF Power
      <4>2. QED BY <3>4, <4>1 DEF Power
    <3>5. QED BY <3>1, <3>2, <3>3, <3>4
  <2>3. InitQueue(n) \in Power /\ n <= InitQueue(n) /\ \A r \in Power : n <= r => InitQueue(n) <= r
    BY <2>1, <2>2
  <2>4. 128 \in Power BY DEF Power
  <2>5. InitQueue(n) <= 128 BY <2>3, <2>4
  <2>6. QED BY <2>3, <2>5 DEF Power
<1>3. QED BY <1>1, <1>2

\* SizeAssumption of LidarDataQueue holds of every ring PushLidarData makes, with
\* the uint32_t indices of the code (ldq.cpp:129): the proofs about the ring apply.
THEOREM RingSizeIsAllowed ==
  ASSUME NEW f \in Freq
  PROVE  /\ RingSize(f) \in Nat \ {0}
         /\ 4294967296 > RingSize(f)
         /\ 4294967296 % RingSize(f) = 0
<1>1. RingSize(f) \in {16, 32, 64, 128}
  BY ClampBounds, QueueSizeBounds, InitQueueBounds DEF RingSize
<1>2. QED BY <1>1

\* A ring holds the packets of a second: a poll thread that stalls for less than
\* that (lddc.cpp:118) makes PushLidarData drop none.
THEOREM RingHoldsASecond ==
  ASSUME NEW f \in Freq
  PROVE  RingSize(f) * Clamp(f).den >= Clamp(f).num
<1>. DEFINE c == Clamp(f)
            n == CalculatePacketQueueSize(c)
<1>1. c \in Freq /\ n \in 10 .. 101 /\ n * c.den >= c.num
  BY ClampBounds, QueueSizeBounds
<1>2. RingSize(f) \in Nat /\ RingSize(f) >= n
  BY <1>1, InitQueueBounds DEF RingSize
<1>. HIDE DEF c, n
<1>3. c.den \in Nat \ {0} /\ c.num \in Int
  BY <1>1 DEF Freq
<1>4. RingSize(f) * c.den >= n * c.den
  BY <1>1, <1>2, <1>3, SMT
<1>5. RingSize(f) * c.den \in Int /\ n * c.den \in Int
  BY <1>1, <1>2, <1>3
<1>6. RingSize(f) * c.den >= c.num
  BY <1>1, <1>3, <1>4, <1>5
<1>7. QED BY <1>6 DEF c

\* The publish interval is a millisecond or more, as AssemblyAssumption wants it:
\* the tolerance does not wrap and recent_time_ms is not divided by 0
\* (pub_handler.cpp:67, 169).
THEOREM IntervalIsAllowed ==
  ASSUME NEW f \in Freq, NEW n \in PublishInterval(Clamp(f))
  PROVE  n >= 1000000 /\ n \div 1000000 > 0
<1>. DEFINE c == Clamp(f)
<1>1. c \in Freq /\ c.num <= 100 * c.den /\ 2 * c.num >= c.den
  BY ClampBounds
<1>2. n \in Nat /\ n * c.num >= 1000000000 * c.den - 2 * c.num
  BY DEF PublishInterval
<1>. HIDE DEF c
<1>3. c.den \in Nat \ {0} /\ c.num \in Int
  BY <1>1 DEF Freq
<1>4. n >= 1000000
  <2>1. SUFFICES ASSUME n < 1000000 PROVE FALSE BY <1>2
  <2>2. c.num > 0 BY <1>1, <1>3
  <2>3. n * c.num <= 1000000 * c.num BY <1>2, <1>3, <2>1, <2>2, SMT
  <2>4. n * c.num \in Int BY <1>2, <1>3
  <2>5. QED BY <1>1, <1>2, <1>3, <2>2, <2>3, <2>4
<1>5. QED BY <1>2, <1>4
==============================================================================
