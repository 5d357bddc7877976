---------------------------- MODULE LidarDataQueue ----------------------------
(***************************************************************************)
(* The per-lidar packet ring of comm/ldq.cpp, at the grain of its shared   *)
(* memory accesses.  One thread pushes (the point process thread, through  *)
(* Lds::PushLidarData) and one thread pops (the point cloud poll thread,   *)
(* through Lddc::PollingLidarPointCloudData); there is no lock.  rd_idx and*)
(* wr_idx are free-running counters of IdxMod values (uint32_t in the code)*)
(* and a slot is named by an index & mask, i.e. modulo QueueSize.          *)
(*                                                                         *)
(* volatile orders nothing between threads.  On the amd64 build a store    *)
(* waits in the store buffer of its core and becomes visible later, in     *)
(* program order: wr_seen and rd_seen are the values the OTHER thread      *)
(* reads, and the Drain actions let them catch up one store at a time.     *)
(***************************************************************************)
EXTENDS Integers, Sequences

CONSTANTS Frame,      \* the point packets that may be pushed
          NoFrame,    \* content of a field that was never written
          QueueSize,  \* LidarDataQueue::size, a power of two
          IdxMod      \* number of values of an index: 2^32 in the code

\* RoundupPowerOf2 returns at most 2^31, so size divides 2^32 and is below it.
ASSUME SizeAssumption ==
  /\ QueueSize \in Nat \ {0}
  /\ IdxMod \in Nat
  /\ IdxMod > QueueSize
  /\ IdxMod % QueueSize = 0

ASSUME NoFrameAssumption == NoFrame \notin Frame

Slot == 0 .. QueueSize - 1
Index == 0 .. IdxMod - 1

\* A StoragePacket: its header (base_time, points_num) and its points.  Both
\* are named after the frame they come from, so a mixture shows as a mismatch.
Field == Frame \cup {NoFrame}
StoragePacket == [base_time : Field, points : Field]
Whole(f) == [base_time |-> f, points |-> f]
Empty == Whole(NoFrame)

VARIABLES
  allocated,  \* storage_packet # nullptr
  slot,       \* *storage_packet
  wr_idx,     \* as the pushing thread knows it
  wr_seen,    \* as the popping thread reads it
  rd_idx,     \* as the popping thread knows it
  rd_seen,    \* as the pushing thread reads it
  push,       \* pushing thread: where it is, and the packet it pushes
  pop,        \* popping thread: where it is, and its local StoragePacket
  out         \* packet handed to the publisher by the last QueuePop

vars == <<allocated, slot, wr_idx, wr_seen, rd_idx, rd_seen, push, pop, out>>

IncUnwrapped(i) == i + 1             \* broken
Inc(i) == (i + 1) % IdxMod           \* ++ on a uint32_t
Dist(i, j) == (j - i) % IdxMod       \* j - i on uint32_t
SlotOf(i) == i % QueueSize           \* i & mask

\* What each thread computes from its own index and the other's visible one.
FullOneLate == Dist(rd_seen, wr_idx) > QueueSize          \* broken
QueueIsFull == Dist(rd_seen, wr_idx) > QueueSize - 1
QueueIsEmpty == rd_idx = wr_seen

Init ==
  /\ allocated = FALSE
  /\ slot = [s \in Slot |-> Empty]
  /\ wr_idx = 0 /\ wr_seen = 0
  /\ rd_idx = 0 /\ rd_seen = 0
  /\ push = [pc |-> "idle", frame |-> NoFrame]
  /\ pop = [pc |-> "idle", pkg |-> Empty]
  /\ out = Empty

(***************************************************************************)
(* The pushing thread.  The first call on a queue allocates it (InitQueue);*)
(* a full queue drops the new packet.                                      *)
(***************************************************************************)
PushFirst(f) ==
  /\ push.pc = "idle"
  /\ ~allocated
  /\ allocated' = TRUE
  /\ push' = [pc |-> "header", frame |-> f]
  /\ UNCHANGED <<slot, wr_idx, wr_seen, rd_idx, rd_seen, pop, out>>

PushBegin(f) ==
  /\ push.pc = "idle"
  /\ allocated
  /\ ~QueueIsFull
  /\ push' = [pc |-> "header", frame |-> f]
  /\ UNCHANGED <<allocated, slot, wr_idx, wr_seen, rd_idx, rd_seen, pop, out>>

PushHeader ==
  /\ push.pc = "header"
  /\ slot' = [slot EXCEPT ![SlotOf(wr_idx)].base_time = push.frame]
  /\ push' = [push EXCEPT !.pc = "points"]
  /\ UNCHANGED <<allocated, wr_idx, wr_seen, rd_idx, rd_seen, pop, out>>

\* Broken: the points go to the slot after the one of the header.
PushPointsNextSlot ==
  /\ push.pc = "points"
  /\ slot' = [slot EXCEPT ![SlotOf(wr_idx + 1)].points = push.frame]
  /\ push' = [push EXCEPT !.pc = "advance"]
  /\ UNCHANGED <<allocated, wr_idx, wr_seen, rd_idx, rd_seen, pop, out>>

PushPoints ==
  /\ push.pc = "points"
  /\ slot' = [slot EXCEPT ![SlotOf(wr_idx)].points = push.frame]
  /\ push' = [push EXCEPT !.pc = "advance"]
  /\ UNCHANGED <<allocated, wr_idx, wr_seen, rd_idx, rd_seen, pop, out>>

PushAdvance ==
  /\ push.pc = "advance"
  /\ wr_idx' = Inc(wr_idx)
  /\ push' = [push EXCEPT !.pc = "idle"]
  /\ UNCHANGED <<allocated, slot, wr_seen, rd_idx, rd_seen, pop, out>>

(***************************************************************************)
(* The popping thread: QueuePrePop copies the slot, field by field, then   *)
(* QueuePopUpdate frees it.                                                *)
(***************************************************************************)
\* Broken: pops without looking.
PopUnchecked ==
  /\ pop.pc = "idle"
  /\ pop' = [pop EXCEPT !.pc = "header"]
  /\ UNCHANGED <<allocated, slot, wr_idx, wr_seen, rd_idx, rd_seen, push, out>>

PopBegin ==
  /\ pop.pc = "idle"
  /\ ~QueueIsEmpty
  /\ pop' = [pop EXCEPT !.pc = "header"]
  /\ UNCHANGED <<allocated, slot, wr_idx, wr_seen, rd_idx, rd_seen, push, out>>

PopHeader ==
  /\ pop.pc = "header"
  /\ pop' = [pc |-> "points",
             pkg |-> [pop.pkg EXCEPT !.base_time = slot[SlotOf(rd_idx)].base_time]]
  /\ UNCHANGED <<allocated, slot, wr_idx, wr_seen, rd_idx, rd_seen, push, out>>

PopPoints ==
  /\ pop.pc = "points"
  /\ pop' = [pc |-> "advance",
             pkg |-> [pop.pkg EXCEPT !.points = slot[SlotOf(rd_idx)].points]]
  /\ UNCHANGED <<allocated, slot, wr_idx, wr_seen, rd_idx, rd_seen, push, out>>

PopAdvance ==
  /\ pop.pc = "advance"
  /\ rd_idx' = Inc(rd_idx)
  /\ out' = pop.pkg
  /\ pop' = [pop EXCEPT !.pc = "idle"]
  /\ UNCHANGED <<allocated, slot, wr_idx, wr_seen, rd_seen, push>>

(***************************************************************************)
(* The store buffers of the two cores.                                     *)
(***************************************************************************)
DrainWr ==
  /\ wr_seen # wr_idx
  /\ wr_seen' = Inc(wr_seen)
  /\ UNCHANGED <<allocated, slot, wr_idx, rd_idx, rd_seen, push, pop, out>>

DrainRd ==
  /\ rd_seen # rd_idx
  /\ rd_seen' = Inc(rd_seen)
  /\ UNCHANGED <<allocated, slot, wr_idx, wr_seen, rd_idx, push, pop, out>>

Next ==
  \/ \E f \in Frame : PushFirst(f) \/ PushBegin(f)
  \/ PushHeader \/ PushPoints \/ PushAdvance
  \/ PopBegin \/ PopHeader \/ PopPoints \/ PopAdvance
  \/ DrainWr \/ DrainRd

Spec == Init /\ [][Next]_vars

-------------------------------------------------------------------------------
(***************************************************************************)
(* Properties.                                                             *)
(***************************************************************************)

\* Every variable stays in its domain: the indices are uint32_t and wrap.
TypeOK ==
  /\ allocated \in BOOLEAN
  /\ slot \in [Slot -> StoragePacket]
  /\ wr_idx \in Index /\ wr_seen \in Index
  /\ rd_idx \in Index /\ rd_seen \in Index
  /\ push \in [pc : {"idle", "header", "points", "advance"}, frame : Field]
  /\ pop \in [pc : {"idle", "header", "points", "advance"}, pkg : StoragePacket]
  /\ out \in StoragePacket

\* However stale the two threads' views of each other are, and wherever the
\* counters have wrapped to, going up from rd_seen one meets rd_idx, wr_seen and
\* wr_idx in that order and within QueueSize: wr_idx - rd_idx never exceeds the
\* size, so "> mask" (ldq.cpp:129) is full and "==" (:133) is empty, never full.
IndexOrder ==
  Dist(rd_seen, rd_idx) + Dist(rd_idx, wr_seen) + Dist(wr_seen, wr_idx) <= QueueSize

\* The pushing thread is never inside the slot the popping thread is copying:
\* QueuePushAny clears and resizes the vector of its slot (ldq.cpp:142-143), which
\* under the memcpy of QueuePrePop (:103) would be a read of freed memory.
Writing == push.pc \in {"header", "points"}
Reading == pop.pc \in {"header", "points"}
NoSlotRace == (Writing /\ Reading) => SlotOf(wr_idx) # SlotOf(rd_idx)

\* What QueuePop hands to the publisher is one packet that was pushed: the
\* base_time and the points of the same frame, and never a slot not yet written.
NoTornPacket == pop.pc = "advance" => \E f \in Frame : pop.pkg = Whole(f)

\* The lock-free ring is a bounded first-in first-out queue (module FrameFifo):
\* no packet is lost, repeated or reordered between PushAdvance and PopAdvance,
\* and at most QueueSize are held, the room the pushing thread cannot see yet
\* included.
Fifo == INSTANCE FrameFifo WITH
  Item <- {Whole(f) : f \in Frame},
  NoItem <- Empty,
  Capacity <- QueueSize,
  q <- [k \in 1 .. Dist(rd_idx, wr_idx) |-> slot[SlotOf(rd_idx + k - 1)]],
  vis <- Dist(rd_idx, wr_seen),
  held <- Dist(rd_seen, rd_idx),
  out <- out

ImplementsFifo == Fifo!Spec
==============================================================================
