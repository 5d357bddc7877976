---------------------------- MODULE FrameAssembly ----------------------------
(***************************************************************************)
(* How the packets of the lidars become frames (comm/pub_handler.cpp).     *)
(* The SDK's thread stamps each packet and queues it; the point process    *)
(* thread appends its points to the cloud of its lidar (LidarPubHandler)   *)
(* and then asks CheckTimer whether it is time to hand clouds over.        *)
(* CheckTimer has two modes, chosen by ONE flag that every packet of every *)
(* lidar, IMU packets included, sets as it arrives: with synchronised time *)
(* a lidar's frame ends in a millisecond that is a multiple of the         *)
(* publish interval; without, all frames end when the host's clock has     *)
(* moved on by the interval.  The clouds of the lidars concerned are then  *)
(* put into frame_ one by one, each in the next free entry of its arrays,  *)
(* and frame_ is handed over.                                              *)
(*                                                                         *)
(* Time is counted in ticks, TicksPerMs to a millisecond.  A point is its  *)
(* number among the points of its lidar and its time stamp (PointXyzlt's   *)
(* offset_time).  Coordinates are left out.                                *)
(***************************************************************************)
EXTENDS Integers, Sequences, FiniteSets

CONSTANTS
  Lidar,         \* the lidars
  kMaxSourceLidar,  \* entries of the arrays in frame_
  Interval,      \* publish_interval_
  TicksPerMs,    \* kRatioOfMsToNs, and kNsTolerantFrameTimeDeviation
  HostEpoch,     \* host clock minus device clock
  HostSteps,     \* by how much the host clock may be set forward or back, once
  DotNum,        \* points of a packet
  PointInterval, \* ticks between two of them
  OffsetMod,     \* 2^32, the width of CustomPoint's offset_time
  TimeMod,       \* 2^64, the width of a time stamp
  MaxTime,       \* bound: ticks
  MaxPackets     \* bound: point packets of each lidar

\* The code adds every handle that sends points to frame_ and does not look whether
\* there is room: here there is.
ASSUME AssemblyAssumption ==
  /\ Lidar # {} /\ IsFiniteSet(Lidar)
  /\ kMaxSourceLidar \in Nat /\ Cardinality(Lidar) <= kMaxSourceLidar
  /\ {TicksPerMs, DotNum, OffsetMod, TimeMod} \subseteq Nat \ {0}
  /\ Interval \in Nat /\ Interval >= TicksPerMs   \* publish_freq is at most 100 Hz
  /\ {HostEpoch, PointInterval, MaxTime, MaxPackets} \subseteq Nat
  /\ HostSteps \subseteq Int /\ \A d \in HostSteps : HostEpoch + d >= 0

\* SetPointCloudConfig
IntervalMs == Interval \div TicksPerMs        \* publish_interval_ms_
Tolerance == Interval - TicksPerMs           \* publish_interval_tolerance_
Minus(a, b) == (a - b) % TimeMod             \* uint64_t subtraction

Slot == 0 .. kMaxSourceLidar - 1

VARIABLES
  raw,       \* raw_packet_queue_
  received,  \* points each lidar has sent so far
  cloud,     \* points_clouds_ of each lidar's LidarPubHandler
  points,    \* points_ of each lidar: the points put into frame_ last
  sent,      \* number of the last point handed over of each lidar
  lidar_num, \* frame_.lidar_num: the entries in use
  base_time, \* frame_.base_time
  lidar_point, \* frame_.lidar_point: whose points_ an entry points to
  sync,      \* is_timestamp_sync_
  now,       \* device clock
  epoch,     \* host clock minus device clock, as it is now
  last_pub,  \* last_pub_time_, or NotSet before CheckTimer's first look
  proc       \* point process thread: its place, the lidar of its packet and
             \* those still to be put into frame_

frame_ == <<lidar_num, base_time, lidar_point>>
clouds == <<cloud, points, sent, frame_, last_pub>>
vars == <<raw, received, clouds, sync, now, epoch, proc>>

NotSet == -1
HostNow == now + epoch

Init ==
  /\ raw = << >>
  /\ received = [l \in Lidar |-> 0]
  /\ cloud = [l \in Lidar |-> << >>]
  /\ points = [l \in Lidar |-> << >>]
  /\ sent = [l \in Lidar |-> 0]
  /\ lidar_num = 0
  /\ base_time = [i \in Slot |-> 0]
  /\ lidar_point = [i \in Slot |-> CHOOSE l \in Lidar : TRUE]
  /\ sync = FALSE
  /\ now = 0
  /\ epoch = HostEpoch
  /\ last_pub = NotSet
  /\ proc = [pc |-> "take", id |-> CHOOSE l \in Lidar : TRUE, todo |-> {}]

-------------------------------------------------------------------------------
(***************************************************************************)
(* OnLivoxLidarPointCloudCallback, on the SDK's thread.                    *)
(***************************************************************************)

Tick ==
  /\ now < MaxTime
  /\ now' = now + 1
  /\ UNCHANGED <<raw, received, clouds, sync, epoch, proc>>

\* high_resolution_clock is the system's clock, which NTP or PTP may set.
SetHostClock ==
  /\ epoch = HostEpoch
  /\ \E d \in HostSteps : epoch' = epoch + d
  /\ UNCHANGED <<raw, received, clouds, sync, now, proc>>

\* A packet is stamped by its lidar if that one is synchronised, else by the host.
GetEthPacketTimestamp(synced) == IF synced THEN now ELSE HostNow

ReceivePoints(l, synced) ==
  /\ received[l] < MaxPackets * DotNum
  /\ sync' = synced
  /\ raw' = Append(raw, [lidar |-> l, seq |-> received[l] + 1,
                         time |-> GetEthPacketTimestamp(synced)])
  /\ received' = [received EXCEPT ![l] = @ + DotNum]
  /\ UNCHANGED <<clouds, now, epoch, proc>>

\* An IMU packet goes straight to the IMU callback and leaves only the flag.
ReceiveImu(synced) ==
  /\ sync' = synced
  /\ UNCHANGED <<raw, received, clouds, now, epoch, proc>>

-------------------------------------------------------------------------------
(***************************************************************************)
(* The point process thread.                                               *)
(***************************************************************************)

\* ProcessCartesianHighPoint and its three siblings.
PointsOf(packet) == [i \in 1 .. DotNum |->
  [seq |-> packet.seq + i - 1, time |-> packet.time + (i - 1) * PointInterval]]

RawDataProcess ==
  /\ proc.pc = "take"
  /\ raw # << >>
  /\ raw' = Tail(raw)
  /\ cloud' = [cloud EXCEPT ![Head(raw).lidar] = @ \o PointsOf(Head(raw))]
  /\ proc' = [proc EXCEPT !.pc = "check", !.id = Head(raw).lidar]
  /\ UNCHANGED <<received, points, sent, frame_, sync, now, epoch, last_pub>>

BaseTime(l) == IF cloud[l] = << >> THEN 0 ELSE Head(cloud[l]).time
RecentTime(l) == IF cloud[l] = << >> THEN 0 ELSE cloud[l][Len(cloud[l])].time

\* Broken: a frame may end anywhere in its last millisecond, however short.
SyncFrameEndsEarly(l) ==
  LET recent_time_ms == RecentTime(l) \div TicksPerMs IN
  /\ recent_time_ms # 0
  /\ recent_time_ms % IntervalMs = 0

\* The frame of this lidar ends here: its last point is in a millisecond that is
\* a multiple of the interval, and the frame is not much shorter than that.
SyncFrameEnds(l) ==
  LET recent_time_ms == RecentTime(l) \div TicksPerMs IN
  /\ recent_time_ms # 0
  /\ recent_time_ms % IntervalMs = 0
  /\ Minus(RecentTime(l), BaseTime(l)) >= Tolerance

CheckTimerSync ==
  /\ proc.pc = "check"
  /\ sync
  /\ proc' = IF SyncFrameEnds(proc.id) THEN [proc EXCEPT !.pc = "add", !.todo = {proc.id}]
                                      ELSE [proc EXCEPT !.pc = "take"]
  /\ UNCHANGED <<raw, received, clouds, sync, now, epoch>>

\* lidar_process_handlers_: the lidars that have had a packet processed.
Handlers == {l \in Lidar : cloud[l] # << >> \/ sent[l] # 0}

\* Broken: last_pub_time_ is not set before the first look.
CheckTimerNeverSet ==
  /\ proc.pc = "check"
  /\ ~sync
  /\ \/ /\ HostNow - last_pub < Interval
        /\ last_pub' = last_pub
        /\ proc' = [proc EXCEPT !.pc = "take"]
     \/ /\ HostNow - last_pub >= Interval
        /\ last_pub' = last_pub + Interval
        /\ proc' = [proc EXCEPT !.pc = "add", !.todo = Handlers]
  /\ UNCHANGED <<raw, received, cloud, points, sent, frame_, sync, now, epoch>>

CheckTimerNoSync ==
  /\ proc.pc = "check"
  /\ ~sync
  /\ \/ /\ last_pub = NotSet
        /\ last_pub' = HostNow
        /\ proc' = [proc EXCEPT !.pc = "take"]
     \/ /\ last_pub # NotSet
        /\ HostNow - last_pub < Interval
        /\ last_pub' = last_pub
        /\ proc' = [proc EXCEPT !.pc = "take"]
     \/ /\ last_pub # NotSet
        /\ HostNow - last_pub >= Interval
        /\ last_pub' = last_pub + Interval
        /\ proc' = [proc EXCEPT !.pc = "add", !.todo = Handlers]
  /\ UNCHANGED <<raw, received, cloud, points, sent, frame_, sync, now, epoch>>

\* Broken: points_ is swapped without being cleared.
AddLidarUncleared(l) ==
  /\ proc.pc = "add" /\ l \in proc.todo
  /\ base_time' = [base_time EXCEPT ![lidar_num] = BaseTime(l)]
  /\ points' = [points EXCEPT ![l] = cloud[l]]
  /\ cloud' = [cloud EXCEPT ![l] = points[l]]
  /\ \/ points'[l] = << >> /\ UNCHANGED <<lidar_num, lidar_point>>
     \/ /\ points'[l] # << >>
        /\ lidar_point' = [lidar_point EXCEPT ![lidar_num] = l]
        /\ lidar_num' = lidar_num + 1
  /\ proc' = [proc EXCEPT !.todo = @ \ {l}]
  /\ UNCHANGED <<raw, received, sent, sync, now, epoch, last_pub>>

\* Broken: a lidar without points is not skipped.
AddLidarUnskipped(l) ==
  /\ proc.pc = "add" /\ l \in proc.todo
  /\ base_time' = [base_time EXCEPT ![lidar_num] = BaseTime(l)]
  /\ points' = [points EXCEPT ![l] = cloud[l]]
  /\ cloud' = [cloud EXCEPT ![l] = << >>]
  /\ lidar_point' = [lidar_point EXCEPT ![lidar_num] = l]
  /\ lidar_num' = lidar_num + 1
  /\ proc' = [proc EXCEPT !.todo = @ \ {l}]
  /\ UNCHANGED <<raw, received, sent, sync, now, epoch, last_pub>>

\* The body of the loop over the handlers (a map: any order stands for that of its
\* keys), and of the synchronised mode, whose one lidar is never without points.  The
\* base time goes into the next entry before it is known that the lidar has points;
\* points_ is cleared and swapped with its points_clouds_; without points it is skipped.
AddLidar(l) ==
  /\ proc.pc = "add" /\ l \in proc.todo
  /\ base_time' = [base_time EXCEPT ![lidar_num] = BaseTime(l)]
  /\ points' = [points EXCEPT ![l] = cloud[l]]
  /\ cloud' = [cloud EXCEPT ![l] = << >>]
  /\ \/ points'[l] = << >> /\ UNCHANGED <<lidar_num, lidar_point>>
     \/ /\ points'[l] # << >>
        /\ lidar_point' = [lidar_point EXCEPT ![lidar_num] = l]
        /\ lidar_num' = lidar_num + 1
  /\ proc' = [proc EXCEPT !.todo = @ \ {l}]
  /\ UNCHANGED <<raw, received, sent, sync, now, epoch, last_pub>>

\* Entry i of frame_ is in use, and the lidar has one of those.
Used(i) == i \in Slot /\ i < lidar_num
InFrame(l) == \E i \in Slot : Used(i) /\ lidar_point[i] = l

\* frame_ is complete and points_callback_ is about to get it.
Publishing == proc.pc = "add" /\ proc.todo = {}

\* PublishPointCloud, even of a frame without lidars, and the reset of lidar_num.
PublishPointCloud ==
  /\ Publishing
  /\ sent' = [l \in Lidar |-> IF InFrame(l) THEN points[l][Len(points[l])].seq ELSE sent[l]]
  /\ lidar_num' = 0
  /\ proc' = [proc EXCEPT !.pc = "take"]
  /\ UNCHANGED <<raw, received, cloud, points, base_time, lidar_point, sync, now, epoch, last_pub>>

Process ==
  \/ RawDataProcess \/ CheckTimerSync \/ CheckTimerNoSync
  \/ \E l \in Lidar : AddLidar(l)
  \/ PublishPointCloud

Next ==
  \/ Tick \/ SetHostClock
  \/ \E l \in Lidar, synced \in BOOLEAN : ReceivePoints(l, synced)
  \/ \E synced \in BOOLEAN : ReceiveImu(synced)
  \/ Process

Spec == Init /\ [][Next]_vars

\* The custom message made of entry i of the frame; an empty one, which is never
\* sent, would have time base 0.
CustomMsg(i) ==
  LET packet == points[lidar_point[i]] IN
  [timebase |-> IF packet = << >> THEN 0 ELSE base_time[i],
   offset_time |-> [k \in 1 .. Len(packet) |-> (packet[k].time - base_time[i]) % OffsetMod]]

-------------------------------------------------------------------------------
(***************************************************************************)
(* Properties.                                                             *)
(***************************************************************************)

Point == [seq : Nat, time : Nat]

\* Every variable stays in its domain, the entry to be filled next being one of frame_'s
\* (pub_handler.cpp:209 does not look); the publish clock, which moves in whole
\* intervals, is ahead of the host's only if that was set back, and by no more.
TypeOK ==
  /\ raw \in Seq([lidar : Lidar, seq : Nat, time : Nat])
  /\ received \in [Lidar -> Nat]
  /\ cloud \in [Lidar -> Seq(Point)]
  /\ points \in [Lidar -> Seq(Point)]
  /\ sent \in [Lidar -> Nat]
  /\ lidar_num \in 0 .. kMaxSourceLidar
  /\ base_time \in [Slot -> Nat]
  /\ lidar_point \in [Slot -> Lidar]
  /\ sync \in BOOLEAN
  /\ now \in 0 .. MaxTime
  /\ epoch \in {HostEpoch} \cup {HostEpoch + d : d \in HostSteps}
  /\ last_pub \in {NotSet} \cup Nat
  /\ last_pub > HostNow => epoch < HostEpoch /\ last_pub <= now + HostEpoch
  /\ last_pub # NotSet /\ last_pub < HostEpoch => epoch < HostEpoch
  /\ proc \in [pc : {"take", "check", "add"}, id : Lidar, todo : SUBSET Lidar]
  /\ proc.todo # {} => lidar_num \in Slot

\* The number of the last point of lidar l that has been handed over or put into frame_.
Gathered(l) == sent[l] + (IF InFrame(l) THEN Len(points[l]) ELSE 0)

\* Where the packets of lidar l are in the raw queue, and the number of the last point
\* of the one at i, or of the last point before them all.
RawOf(l) == {i \in 1 .. Len(raw) : raw[i].lidar = l}
LastPoint(l, i) == IF i = 0 THEN Gathered(l) + Len(cloud[l]) ELSE raw[i].seq + DotNum - 1

\* The next packet of the lidar goes on where the one at i ends; if there is none,
\* nothing else has been received.
GoesOn(l, i) ==
  /\ \A j \in RawOf(l) :
       i < j /\ (\A k \in RawOf(l) : k <= i \/ j <= k) => raw[j].seq = LastPoint(l, i) + 1
  /\ (\A k \in RawOf(l) : k <= i) => received[l] = LastPoint(l, i)

\* Whatever the two modes of CheckTimer do, however the shared flag flips between
\* the arrival of a packet and its processing and although the host's clock, which
\* times the frames, may be set meanwhile, a lidar's frames cut its points into
\* consecutive pieces: the points of its last frame, or of the one being made, those
\* gathered for the next and those still in the raw queue follow one another with
\* no gap, repetition or swap, and account for every point received.  Points taken out
\* of the cloud of a lidar that has no entry in frame_ would be a gap.
NoPointLostOrRepeated == \A l \in Lidar :
  /\ \A k \in 1 .. Len(points[l]) : points[l][k].seq = Gathered(l) - Len(points[l]) + k
  /\ \A k \in 1 .. Len(cloud[l]) : cloud[l][k].seq = Gathered(l) + k
  /\ \A i \in {0} \cup RawOf(l) : GoesOn(l, i)

\* Each entry of frame_ that is handed over has points, and the base_time at its place is
\* the time of the first of them: also when lidars without points were skipped on the way,
\* whose base_time went into the same place (pub_handler.cpp:209-221), and whatever
\* earlier frames, of other lidars, have left in the arrays.
BaseTimeIsFirstPoint == \A i \in Slot : Used(i) =>
  points[lidar_point[i]] # << >> /\ base_time[i] = Head(points[lidar_point[i]]).time

\* "offset time relative to the base time" (README.md:189): in the message a
\* subscriber gets, the time base plus a point's uint32_t offset_time is the time
\* of the point.
OffsetIsRelative == Publishing => \A i \in Slot : Used(i) =>
  \A k \in 1 .. Len(points[lidar_point[i]]) :
    CustomMsg(i).timebase + CustomMsg(i).offset_time[k] = points[lidar_point[i]][k].time

\* With synchronised time, and packets so close that two of their distances and
\* the part of a millisecond by which the interval exceeds whole ones fit into a
\* millisecond, every frame after a lidar's first lasts one publish interval, to a
\* millisecond: no boundary is missed (the frame would be twice as long) and none is
\* taken twice (the packets of the boundary millisecond would make a frame of their own).
FramesAreRegular == Publishing => \A i \in Slot : Used(i) /\ sent[lidar_point[i]] # 0 =>
  LET packet == points[lidar_point[i]]
      span == packet[Len(packet)].time - base_time[i]
  IN  span >= Tolerance /\ span < Interval + TicksPerMs
==============================================================================
