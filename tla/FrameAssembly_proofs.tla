------------------------- MODULE FrameAssembly_proofs -------------------------
(***************************************************************************)
(* Proofs about frame assembly, for every number of lidars, publish        *)
(* interval, packet size and width of time stamps, and for every way in    *)
(* which the host's clock may be set once.                                 *)
(***************************************************************************)
EXTENDS FrameAssembly, SequenceTheorems, FiniteSetTheorems, TLAPS

USE AssemblyAssumption

-------------------------------------------------------------------------------
(***************************************************************************)
(* The inductive invariants.                                               *)
(***************************************************************************)

RawPacket == [lidar : Lidar, seq : Nat, time : Nat]

CloudTypes ==
  /\ cloud \in [Lidar -> Seq(Point)]
  /\ points \in [Lidar -> Seq(Point)]
  /\ sent \in [Lidar -> Nat]
  /\ lidar_num \in Nat
  /\ base_time \in [Slot -> Nat]
  /\ lidar_point \in [Slot -> Lidar]

\* frame_ is empty but while it is filled, and has room for the lidars still to be put
\* into it, which are not there yet.
Assembly ==
  /\ proc \in [pc : {"take", "check", "add"}, id : Lidar, todo : SUBSET Lidar]
  /\ proc.pc # "add" => lidar_num = 0 /\ proc.todo = {}
  /\ \A l \in proc.todo : ~InFrame(l)
  /\ lidar_num + Cardinality(proc.todo) <= kMaxSourceLidar

\* The clock by which frames are published was read from the host's clock, before or
\* after that was set.
Clocks ==
  /\ now \in 0 .. MaxTime
  /\ epoch \in {HostEpoch} \cup {HostEpoch + d : d \in HostSteps}
  /\ last_pub \in {NotSet} \cup Nat
  /\ last_pub # NotSet => IF epoch >= HostEpoch
                          THEN HostEpoch <= last_pub /\ last_pub <= HostNow
                          ELSE last_pub <= now + HostEpoch

TypeInv ==
  /\ raw \in Seq(RawPacket)
  /\ received \in [Lidar -> Nat]
  /\ CloudTypes
  /\ Clocks
  /\ sync \in BOOLEAN
  /\ Assembly

FrameInv ==
  /\ TypeInv
  /\ NoPointLostOrRepeated
  /\ BaseTimeIsFirstPoint

-------------------------------------------------------------------------------
(***************************************************************************)
(* Lemmas about the operators.                                             *)
(***************************************************************************)

LEMMA Constants ==
  /\ DotNum \in Nat \ {0} /\ PointInterval \in Nat /\ HostEpoch \in Nat /\ Interval \in Nat
  /\ IsFiniteSet(Lidar) /\ Cardinality(Lidar) <= kMaxSourceLidar /\ kMaxSourceLidar \in Nat
  /\ \A d \in HostSteps : d \in Int /\ HostEpoch + d >= 0
OBVIOUS

LEMMA SeqOfFunction ==
  ASSUME NEW n \in Nat, NEW S, NEW f \in [1 .. n -> S]
  PROVE  f \in Seq(S) /\ Len(f) = n
OBVIOUS

\* A packet has DotNum points, numbered from that of the packet.
LEMMA PointsOfFacts ==
  ASSUME NEW packet \in RawPacket
  PROVE  /\ PointsOf(packet) \in Seq(Point)
         /\ Len(PointsOf(packet)) = DotNum
         /\ \A i \in 1 .. DotNum : PointsOf(packet)[i].seq = packet.seq + i - 1
<1>1. packet.seq \in Nat /\ packet.time \in Nat
  BY DEF RawPacket
<1>2. ASSUME NEW i \in 1 .. DotNum
      PROVE  [seq |-> packet.seq + i - 1, time |-> packet.time + (i - 1) * PointInterval] \in Point
  <2>1. i - 1 \in Nat
    BY Constants
  <2>2. (i - 1) * PointInterval \in Nat
    BY <2>1, Constants, SMT
  <2>. QED BY <1>1, <2>1, <2>2, Constants DEF Point
<1>3. PointsOf(packet) \in [1 .. DotNum -> Point]
  BY <1>2 DEF PointsOf
<1>. QED
  BY <1>3, SeqOfFunction, Constants DEF PointsOf

LEMMA BaseTimeType ==
  ASSUME CloudTypes, NEW l \in Lidar
  PROVE  BaseTime(l) \in Nat
<1>1. cloud[l] \in Seq(Point)
  BY DEF CloudTypes
<1>2. CASE cloud[l] # << >>
  <2>1. Head(cloud[l]) \in Point
    BY <1>1, <1>2, HeadTailProperties
  <2>. QED BY <1>2, <2>1 DEF BaseTime, Point
<1>3. CASE cloud[l] = << >>
  BY <1>3 DEF BaseTime
<1>. QED
  BY <1>2, <1>3

\* What NoPointLostOrRepeated says of the points that have been processed.
Numbered(l) ==
  /\ \A k \in 1 .. Len(points[l]) : points[l][k].seq = Gathered(l) - Len(points[l]) + k
  /\ \A k \in 1 .. Len(cloud[l]) : cloud[l][k].seq = Gathered(l) + k

LEMMA GatheredType ==
  ASSUME CloudTypes, NEW l \in Lidar
  PROVE  /\ Gathered(l) \in Nat /\ Len(cloud[l]) \in Nat /\ Len(points[l]) \in Nat
         /\ sent[l] \in Nat
<1>1. Len(cloud[l]) \in Nat /\ Len(points[l]) \in Nat /\ sent[l] \in Nat
  BY DEF CloudTypes
<1>. QED
  BY <1>1 DEF Gathered

\* What has been gathered depends on frame_ and on what was handed over before.
LEMMA GatheredStays ==
  ASSUME NEW l \in Lidar, UNCHANGED <<points, sent, lidar_num, lidar_point>>
  PROVE  Gathered(l)' = Gathered(l) /\ (InFrame(l)' <=> InFrame(l))
BY DEF Gathered, InFrame, Used

LEMMA NoPointLostParts ==
  /\ NoPointLostOrRepeated <=>
       \A l \in Lidar : Numbered(l) /\ \A i \in {0} \cup RawOf(l) : GoesOn(l, i)
  /\ NoPointLostOrRepeated' <=>
       \A l \in Lidar : Numbered(l)' /\ \A i \in {0} \cup RawOf(l)' : GoesOn(l, i)'
BY DEF NoPointLostOrRepeated, Numbered

\* The packets of a lidar go on where they did if neither they nor what comes before
\* them has changed.
LEMMA GoesOnStays ==
  ASSUME NEW l \in Lidar, UNCHANGED <<raw, received>>,
         Gathered(l)' + Len(cloud'[l]) = Gathered(l) + Len(cloud[l])
  PROVE  /\ RawOf(l)' = RawOf(l)
         /\ \A i \in {0} \cup RawOf(l) : GoesOn(l, i) => GoesOn(l, i)'
BY DEF RawOf, GoesOn, LastPoint

-------------------------------------------------------------------------------
(***************************************************************************)
(* Filling frame_ and handing it over.                                     *)
(***************************************************************************)

\* There is an entry for the lidar that is put into frame_ next.
LEMMA NextEntry ==
  ASSUME Assembly, lidar_num \in Nat, NEW l \in proc.todo
  PROVE  /\ lidar_num \in Slot
         /\ Cardinality(proc.todo \ {l}) = Cardinality(proc.todo) - 1
         /\ lidar_num + 1 + Cardinality(proc.todo \ {l}) <= kMaxSourceLidar
         /\ Cardinality(proc.todo \ {l}) \in Nat
<1>1. proc.todo \subseteq Lidar
  BY DEF Assembly
<1>2. IsFiniteSet(proc.todo)
  BY <1>1, Constants, FS_Subset
<1>3. IsFiniteSet(proc.todo \ {l}) /\ Cardinality(proc.todo \ {l}) = Cardinality(proc.todo) - 1
  BY <1>2, FS_RemoveElement
<1>4. Cardinality(proc.todo \ {l}) \in Nat /\ Cardinality(proc.todo) \in Nat
  BY <1>2, <1>3, FS_CardinalityType
<1>5. lidar_num + Cardinality(proc.todo) <= kMaxSourceLidar
  BY DEF Assembly
<1>. QED
  BY <1>3, <1>4, <1>5, Constants DEF Slot

\* The lidar's cloud becomes its points; it gets the next entry if it has any.
LEMMA AddedEntry ==
  ASSUME CloudTypes, Assembly, NEW l \in Lidar, AddLidar(l)
  PROVE  /\ points'[l] = cloud[l] /\ cloud'[l] = << >>
         /\ \A m \in Lidar : m # l => points'[m] = points[m] /\ cloud'[m] = cloud[m]
         /\ base_time'[lidar_num] = BaseTime(l)
         /\ \A i \in Slot : Used(i) => /\ base_time'[i] = base_time[i]
                                       /\ lidar_point'[i] = lidar_point[i]
                                       /\ lidar_point[i] # l
         /\ cloud[l] # << >> => lidar_point'[lidar_num] = l
         /\ \A i \in Slot : Used(i)' <=> Used(i) \/ (i = lidar_num /\ cloud[l] # << >>)
         /\ ~InFrame(l)
<1>1. lidar_num \in Slot /\ l \in proc.todo /\ lidar_num \in Nat
  BY NextEntry DEF AddLidar, CloudTypes
<1>2. points'[l] = cloud[l] /\ cloud'[l] = << >>
  BY DEF AddLidar, CloudTypes
<1>3. ASSUME NEW m \in Lidar, m # l PROVE points'[m] = points[m] /\ cloud'[m] = cloud[m]
  BY <1>3 DEF AddLidar, CloudTypes
<1>4. base_time'[lidar_num] = BaseTime(l)
  BY <1>1 DEF AddLidar, CloudTypes
<1>5. ~InFrame(l)
  BY <1>1 DEF Assembly
<1>6. ASSUME NEW i \in Slot, Used(i)
      PROVE  base_time'[i] = base_time[i] /\ lidar_point'[i] = lidar_point[i] /\ lidar_point[i] # l
  <2>1. i # lidar_num
    BY <1>1, <1>6 DEF Used, Slot
  <2>2. lidar_point[i] # l
    BY <1>5, <1>6 DEF InFrame
  <2>. QED BY <2>1, <2>2 DEF AddLidar, CloudTypes
<1>7. cloud[l] # << >> => lidar_point'[lidar_num] = l
  BY <1>1, <1>2 DEF AddLidar, CloudTypes
<1>8. lidar_num' = IF cloud[l] = << >> THEN lidar_num ELSE lidar_num + 1
  BY <1>2 DEF AddLidar
<1>9. ASSUME NEW i \in Slot
      PROVE  Used(i)' <=> Used(i) \/ (i = lidar_num /\ cloud[l] # << >>)
  <2>1. i \in Int /\ (i < lidar_num + 1 <=> i < lidar_num \/ i = lidar_num)
    BY <1>1 DEF Slot
  <2>. QED BY <1>8, <2>1 DEF Used
<1>. QED
  BY <1>2, <1>3, <1>4, <1>5, <1>6, <1>7, <1>9

\* The lidar gets an entry if it has points, the others keep theirs.
LEMMA AddedLidar ==
  ASSUME CloudTypes, Assembly, NEW l \in Lidar, AddLidar(l)
  PROVE  /\ InFrame(l)' <=> cloud[l] # << >>
         /\ \A m \in Lidar : m # l => (InFrame(m)' <=> InFrame(m))
<1>0. lidar_num \in Slot
  BY NextEntry DEF AddLidar, CloudTypes
<1>1. InFrame(l)' <=> cloud[l] # << >>
  <2>1. ASSUME cloud[l] # << >> PROVE InFrame(l)'
    <3>1. PICK i \in Slot : i = lidar_num
      BY <1>0
    <3>2. Used(i)' /\ lidar_point'[i] = l
      BY <2>1, <3>1, AddedEntry
    <3>. QED BY <3>2 DEF InFrame
  <2>2. ASSUME InFrame(l)' PROVE cloud[l] # << >>
    <3>1. PICK i \in Slot : Used(i)' /\ lidar_point'[i] = l
      BY <2>2 DEF InFrame
    <3>2. ~Used(i)
      BY <3>1, AddedEntry
    <3>. QED BY <3>1, <3>2, AddedEntry
  <2>. QED BY <2>1, <2>2
<1>2. ASSUME NEW m \in Lidar, m # l PROVE InFrame(m)' <=> InFrame(m)
  <2>1. ASSUME InFrame(m) PROVE InFrame(m)'
    <3>1. PICK i \in Slot : Used(i) /\ lidar_point[i] = m
      BY <2>1 DEF InFrame
    <3>2. Used(i)' /\ lidar_point'[i] = m
      BY <3>1, AddedEntry
    <3>. QED BY <3>2 DEF InFrame
  <2>2. ASSUME InFrame(m)' PROVE InFrame(m)
    <3>1. PICK i \in Slot : Used(i)' /\ lidar_point'[i] = m
      BY <2>2 DEF InFrame
    <3>2. Used(i)
      BY <1>2, <3>1, AddedEntry
    <3>3. lidar_point[i] = m
      BY <3>1, <3>2, AddedEntry
    <3>. QED BY <3>2, <3>3 DEF InFrame
  <2>. QED BY <2>1, <2>2
<1>. QED
  BY <1>1, <1>2

LEMMA AddLidarType ==
  ASSUME CloudTypes, Assembly, NEW l \in Lidar, AddLidar(l)
  PROVE  CloudTypes' /\ Assembly'
<1>0. lidar_num \in Slot /\ l \in proc.todo /\ proc.pc = "add"
  BY NextEntry DEF AddLidar, CloudTypes
<1>1. CloudTypes'
  <2>1. << >> \in Seq(Point) /\ cloud[l] \in Seq(Point)
    BY DEF CloudTypes
  <2>2. cloud' \in [Lidar -> Seq(Point)] /\ points' \in [Lidar -> Seq(Point)]
    BY <2>1 DEF AddLidar, CloudTypes
  <2>3. base_time' \in [Slot -> Nat]
    BY BaseTimeType DEF AddLidar, CloudTypes
  <2>4. sent' \in [Lidar -> Nat]
    BY DEF AddLidar, CloudTypes
  <2>5. lidar_point' \in [Slot -> Lidar] /\ lidar_num' \in Nat
    <3>1. \/ lidar_point' = lidar_point /\ lidar_num' = lidar_num
          \/ lidar_point' = [lidar_point EXCEPT ![lidar_num] = l] /\ lidar_num' = lidar_num + 1
      BY DEF AddLidar
    <3>2. lidar_point \in [Slot -> Lidar] /\ lidar_num \in Nat
      BY DEF CloudTypes
    <3>. QED BY <3>1, <3>2
  <2>. QED BY <2>2, <2>3, <2>4, <2>5 DEF CloudTypes
<1>2. proc' = [proc EXCEPT !.todo = proc.todo \ {l}]
  BY DEF AddLidar
<1>3. /\ proc' \in [pc : {"take", "check", "add"}, id : Lidar, todo : SUBSET Lidar]
      /\ proc'.todo = proc.todo \ {l} /\ proc'.pc = "add"
  BY <1>0, <1>2 DEF Assembly
<1>4. ASSUME NEW m \in proc'.todo PROVE ~InFrame(m)'
  <2>1. m \in proc.todo /\ m # l /\ m \in Lidar
    BY <1>3 DEF Assembly
  <2>. QED BY <2>1, AddedLidar DEF Assembly
<1>5. lidar_num' + Cardinality(proc'.todo) <= kMaxSourceLidar
  <2>1. lidar_num' = lidar_num \/ lidar_num' = lidar_num + 1
    BY DEF AddLidar
  <2>2. /\ lidar_num + 1 + Cardinality(proc.todo \ {l}) <= kMaxSourceLidar
        /\ Cardinality(proc.todo \ {l}) \in Nat /\ lidar_num \in Nat
    BY <1>0, NextEntry DEF CloudTypes
  <2>. QED BY <1>3, <2>1, <2>2, Constants
<1>6. Assembly'
  BY <1>3, <1>4, <1>5 DEF Assembly
<1>. QED
  BY <1>1, <1>6

\* The points of a cloud move into frame_ without a break.
LEMMA AddLidarKeeps ==
  ASSUME CloudTypes, Assembly, NoPointLostOrRepeated, NEW l \in Lidar, AddLidar(l)
  PROVE  NoPointLostOrRepeated'
<1>0. UNCHANGED <<raw, received, sent>>
  BY DEF AddLidar
<1>1. ASSUME NEW m \in Lidar
      PROVE  Numbered(m)' /\ Gathered(m)' + Len(cloud'[m]) = Gathered(m) + Len(cloud[m])
  <2>0. /\ Numbered(m) /\ sent[m] \in Nat /\ Gathered(m) \in Nat
        /\ Len(cloud[m]) \in Nat /\ Len(points[m]) \in Nat /\ Len(<< >>) = 0
    BY NoPointLostParts, GatheredType
  <2>1. CASE m # l
    <3>1. points'[m] = points[m] /\ cloud'[m] = cloud[m] /\ (InFrame(m)' <=> InFrame(m))
      BY <2>1, AddedEntry, AddedLidar
    <3>2. Gathered(m)' = Gathered(m)
      BY <1>0, <3>1 DEF Gathered
    <3>. QED BY <2>0, <3>1, <3>2 DEF Numbered
  <2>2. CASE m = l
    <3>1. /\ points'[m] = cloud[m] /\ cloud'[m] = << >>
          /\ ~InFrame(m) /\ (InFrame(m)' <=> cloud[m] # << >>)
      BY <2>2, AddedEntry, AddedLidar
    <3>2. Gathered(m) = sent[m]
      BY <2>0, <3>1 DEF Gathered
    <3>3. Gathered(m)' = sent[m] + Len(cloud[m])
      BY <1>0, <2>0, <3>1 DEF Gathered
    <3>4. \A k \in 1 .. Len(cloud[m]) : cloud[m][k].seq = Gathered(m)' - Len(cloud[m]) + k
      <4>1. Gathered(m)' - Len(cloud[m]) = Gathered(m)
        BY <2>0, <3>2, <3>3
      <4>. QED BY <2>0, <4>1 DEF Numbered
    <3>5. \A k \in 1 .. Len(cloud'[m]) : FALSE
      BY <2>0, <3>1
    <3>6. Numbered(m)'
      BY <3>1, <3>4, <3>5 DEF Numbered
    <3>. QED BY <2>0, <3>1, <3>2, <3>3, <3>6
  <2>. QED BY <2>1, <2>2
<1>. QED
  BY <1>0, <1>1, GoesOnStays, NoPointLostParts

\* The entry that is filled gets the base time of its own lidar, over what a skipped lidar
\* or an earlier frame has left there; the entries before it are not touched.
LEMMA AddLidarBase ==
  ASSUME CloudTypes, Assembly, BaseTimeIsFirstPoint, NEW l \in Lidar, AddLidar(l)
  PROVE  BaseTimeIsFirstPoint'
<1>1. ASSUME NEW i \in Slot, Used(i)'
      PROVE  points'[lidar_point'[i]] # << >> /\ base_time'[i] = Head(points'[lidar_point'[i]]).time
  <2>1. CASE Used(i)
    <3>1. /\ base_time'[i] = base_time[i] /\ lidar_point'[i] = lidar_point[i]
          /\ lidar_point[i] # l /\ lidar_point[i] \in Lidar
      BY <2>1, AddedEntry DEF CloudTypes
    <3>2. points'[lidar_point[i]] = points[lidar_point[i]]
      BY <3>1, AddedEntry
    <3>. QED BY <2>1, <3>1, <3>2 DEF BaseTimeIsFirstPoint
  <2>2. CASE i = lidar_num /\ cloud[l] # << >>
    <3>1. lidar_point'[i] = l /\ points'[l] = cloud[l] /\ base_time'[i] = BaseTime(l)
      BY <2>2, AddedEntry
    <3>. QED BY <2>2, <3>1 DEF BaseTime
  <2>. QED BY <1>1, <2>1, <2>2, AddedEntry
<1>. QED
  BY <1>1 DEF BaseTimeIsFirstPoint

LEMMA PublishKeeps ==
  ASSUME FrameInv, PublishPointCloud
  PROVE  CloudTypes' /\ Assembly' /\ NoPointLostOrRepeated' /\ BaseTimeIsFirstPoint'
<1>0. /\ CloudTypes /\ Assembly /\ NoPointLostOrRepeated /\ BaseTimeIsFirstPoint
      /\ UNCHANGED <<raw, received, cloud, points>> /\ lidar_num' = 0
  BY DEF FrameInv, TypeInv, PublishPointCloud
<1>1. ASSUME NEW i \in Slot PROVE ~Used(i)'
  BY <1>0, <1>1 DEF Used, Slot
<1>2. ASSUME NEW l \in Lidar PROVE ~InFrame(l)'
  BY <1>1 DEF InFrame
<1>3. ASSUME NEW l \in Lidar PROVE sent'[l] = Gathered(l)
  <2>0. sent'[l] = IF InFrame(l) THEN points[l][Len(points[l])].seq ELSE sent[l]
    BY <1>0 DEF PublishPointCloud, CloudTypes
  <2>1. CASE InFrame(l)
    <3>1. points[l] # << >> /\ points[l] \in Seq(Point)
      BY <1>0, <2>1 DEF InFrame, BaseTimeIsFirstPoint, CloudTypes
    <3>2. Len(points[l]) \in 1 .. Len(points[l])
      BY <3>1
    <3>3. points[l][Len(points[l])].seq = Gathered(l) - Len(points[l]) + Len(points[l])
      BY <1>0, <3>2, NoPointLostParts DEF Numbered
    <3>. QED BY <1>0, <2>0, <2>1, <3>3, GatheredType
  <2>2. CASE ~InFrame(l)
    BY <1>0, <2>0, <2>2, GatheredType DEF Gathered
  <2>. QED BY <2>1, <2>2
<1>4. sent' \in [Lidar -> Nat]
  <2>1. \A l \in Lidar : sent'[l] \in Nat
    BY <1>0, <1>3, GatheredType
  <2>2. sent' = [l \in Lidar |-> sent'[l]]
    BY DEF PublishPointCloud
  <2>. QED BY <2>1, <2>2
<1>5. CloudTypes'
  BY <1>0, <1>4 DEF CloudTypes, PublishPointCloud
<1>6. Assembly'
  <2>1. proc.todo = {} /\ proc' = [proc EXCEPT !.pc = "take"]
    BY DEF PublishPointCloud, Publishing
  <2>2. /\ proc' \in [pc : {"take", "check", "add"}, id : Lidar, todo : SUBSET Lidar]
        /\ proc'.todo = {}
    BY <1>0, <2>1 DEF Assembly
  <2>3. Cardinality(proc'.todo) = 0
    BY <2>2, FS_EmptySet
  <2>. QED BY <1>0, <2>2, <2>3, Constants DEF Assembly
<1>7. ASSUME NEW l \in Lidar PROVE Gathered(l)' = Gathered(l)
  <2>1. Gathered(l)' = sent'[l] + 0
    BY <1>2 DEF Gathered
  <2>. QED BY <1>0, <1>3, <2>1, GatheredType
<1>8. NoPointLostOrRepeated'
  <2>1. ASSUME NEW l \in Lidar
        PROVE  Numbered(l)' /\ Gathered(l)' + Len(cloud'[l]) = Gathered(l) + Len(cloud[l])
    BY <1>0, <1>7, NoPointLostParts DEF Numbered
  <2>. QED BY <1>0, <2>1, GoesOnStays, NoPointLostParts
<1>9. BaseTimeIsFirstPoint'
  BY <1>1 DEF BaseTimeIsFirstPoint
<1>. QED
  BY <1>5, <1>6, <1>8, <1>9

-------------------------------------------------------------------------------
(***************************************************************************)
(* Packets.                                                                *)
(***************************************************************************)

\* A packet that arrives begins where the last one of its lidar ends.
LEMMA ReceiveKeeps ==
  ASSUME TypeInv, NoPointLostOrRepeated, NEW l \in Lidar, NEW t \in Nat,
         raw' = Append(raw, [lidar |-> l, seq |-> received[l] + 1, time |-> t]),
         received' = [received EXCEPT ![l] = @ + DotNum],
         UNCHANGED <<cloud, points, sent, lidar_num, lidar_point>>
  PROVE  NoPointLostOrRepeated'
<1>. PICK n \in Nat : n = Len(raw)
  BY LenProperties DEF TypeInv
<1>. DEFINE packet == [lidar |-> l, seq |-> received[l] + 1, time |-> t]
<1>0. /\ raw \in Seq(RawPacket) /\ received \in [Lidar -> Nat] /\ DotNum \in Nat
  BY Constants DEF TypeInv
<1>1. Len(raw') = n + 1 /\ raw'[n + 1] = packet /\ \A i \in 1 .. n : raw'[i] = raw[i]
  BY <1>0
<1>2. raw'[n + 1].lidar = l /\ raw'[n + 1].seq = received[l] + 1
  BY <1>1
<1>. HIDE DEF packet
<1>3. ASSUME NEW m \in Lidar PROVE Numbered(m)' /\ \A i \in {0} \cup RawOf(m)' : GoesOn(m, i)'
  <2>0. /\ Numbered(m)' /\ Gathered(m)' = Gathered(m)
        /\ \A i \in {0} \cup RawOf(m) : GoesOn(m, i)
    BY NoPointLostParts, GatheredStays DEF Numbered
  <2>1. /\ \A i \in RawOf(m) : i \in 1 .. n /\ raw[i].lidar = m
        /\ \A i \in 1 .. n : raw[i].lidar = m => i \in RawOf(m)
    BY DEF RawOf
  <2>2. \A i : i \in RawOf(m)' <=> i \in RawOf(m) \/ (i = n + 1 /\ m = l)
    <3>1. \A i : i \in RawOf(m)' <=> i \in 1 .. n + 1 /\ raw'[i].lidar = m
      BY <1>1 DEF RawOf
    <3>2. \A i : i \in 1 .. n + 1 <=> i \in 1 .. n \/ i = n + 1
      BY <1>0
    <3>. QED BY <1>1, <1>2, <2>1, <3>1, <3>2
  <2>3. ASSUME NEW i \in {0} \cup RawOf(m) PROVE LastPoint(m, i)' = LastPoint(m, i)
    BY <1>0, <1>1, <2>0, <2>1 DEF LastPoint
  <2>4. CASE m # l
    <3>1. received'[m] = received[m] /\ RawOf(m)' = RawOf(m)
      BY <1>0, <2>2, <2>4
    <3>2. \A j \in RawOf(m) : raw'[j] = raw[j]
      BY <1>1, <2>1
    <3>3. ASSUME NEW i \in {0} \cup RawOf(m) PROVE GoesOn(m, i)'
      BY <2>0, <2>3, <3>1, <3>2 DEF GoesOn
    <3>. QED BY <2>0, <3>1, <3>3
  <2>5. CASE m = l
    <3>1. received'[m] = received[m] + DotNum /\ received[m] \in Nat
      BY <1>0, <2>5
    <3>2. ASSUME NEW i \in {0} \cup RawOf(m) PROVE GoesOn(m, i)'
      <4>1. i \in 0 .. n /\ n + 1 \in RawOf(m)' /\ ~(n + 1 <= i)
        BY <1>0, <2>1, <2>2, <2>5
      <4>2. ASSUME NEW j \in RawOf(m)', i < j, \A k \in RawOf(m)' : k <= i \/ j <= k
            PROVE  raw'[j].seq = LastPoint(m, i) + 1
        <5>1. CASE j \in RawOf(m)
          BY <1>1, <2>0, <2>1, <2>2, <4>2, <5>1 DEF GoesOn
        <5>2. CASE j = n + 1
          <6>1. ASSUME NEW k \in RawOf(m) PROVE k <= i
            <7>1. k \in 1 .. n /\ k \in RawOf(m)'
              BY <2>1, <2>2
            <7>2. ~(n + 1 <= k)
              BY <1>0, <7>1
            <7>. QED BY <4>2, <5>2, <7>1, <7>2
          <6>2. received[m] = LastPoint(m, i)
            BY <2>0, <6>1 DEF GoesOn
          <6>. QED BY <1>2, <2>5, <5>2, <6>2
        <5>. QED BY <2>2, <5>1, <5>2
      <4>. QED BY <2>3, <4>1, <4>2 DEF GoesOn
    <3>3. GoesOn(m, n + 1)'
      <4>1. ASSUME NEW j \in RawOf(m)' PROVE ~(n + 1 < j)
        <5>1. j \in 1 .. n \/ j = n + 1
          BY <2>1, <2>2
        <5>. QED BY <5>1
      <4>2. raw'[n + 1].seq + DotNum - 1 = received'[m]
        BY <1>0, <1>2, <2>5, <3>1
      <4>3. LastPoint(m, n + 1)' = raw'[n + 1].seq + DotNum - 1
        BY <1>0 DEF LastPoint
      <4>4. (\A k \in RawOf(m) : k <= n + 1)' => (received[m] = LastPoint(m, n + 1))'
        BY <4>2, <4>3
      <4>. QED BY <4>1, <4>2, <4>3 DEF GoesOn
    <3>4. ASSUME NEW i \in {0} \cup RawOf(m)' PROVE GoesOn(m, i)'
      <4>1. i \in {0} \cup RawOf(m) \/ i = n + 1
        BY <2>2
      <4>. QED BY <3>2, <3>3, <4>1
    <3>. QED BY <2>0, <3>4
  <2>. QED BY <2>4, <2>5
<1>. QED
  BY <1>3, NoPointLostParts

\* The first packet's points go on where the cloud of its lidar ends, and the queue
\* behind it goes on where they end.
LEMMA TakeKeeps ==
  ASSUME TypeInv, NoPointLostOrRepeated, raw # << >>, raw' = Tail(raw),
         cloud' = [cloud EXCEPT ![Head(raw).lidar] = @ \o PointsOf(Head(raw))],
         UNCHANGED <<received, points, sent, lidar_num, lidar_point>>
  PROVE  NoPointLostOrRepeated' /\ cloud' \in [Lidar -> Seq(Point)]
<1>. PICK n \in Nat : n = Len(raw)
  BY LenProperties DEF TypeInv
<1>. DEFINE h == raw[1].lidar
<1>0. /\ raw \in Seq(RawPacket) /\ received \in [Lidar -> Nat] /\ sent \in [Lidar -> Nat]
      /\ cloud \in [Lidar -> Seq(Point)] /\ DotNum \in Nat \ {0}
  BY Constants DEF TypeInv, CloudTypes
<1>1. /\ n > 0 /\ Head(raw) = raw[1] /\ raw[1] \in RawPacket
      /\ Len(raw') = n - 1 /\ \A i \in 1 .. n - 1 : raw'[i] = raw[i + 1]
  <2>1. n > 0
    BY <1>0
  <2>2. raw[1] \in RawPacket
    BY <1>0, <2>1, ElementOfSeq
  <2>. QED BY <1>0, <2>1, <2>2, HeadTailProperties
<1>2. h \in Lidar /\ raw[1].seq \in Nat
  BY <1>1 DEF RawPacket
<1>3. /\ cloud' \in [Lidar -> Seq(Point)]
      /\ \A m \in Lidar : m # h => cloud'[m] = cloud[m]
      /\ Len(cloud'[h]) = Len(cloud[h]) + DotNum
      /\ \A k \in 1 .. Len(cloud[h]) + DotNum : cloud'[h][k] =
           IF k <= Len(cloud[h]) THEN cloud[h][k] ELSE PointsOf(raw[1])[k - Len(cloud[h])]
  <2>1. PointsOf(raw[1]) \in Seq(Point) /\ Len(PointsOf(raw[1])) = DotNum /\ cloud[h] \in Seq(Point)
    BY <1>0, <1>1, <1>2, PointsOfFacts
  <2>2. /\ cloud[h] \o PointsOf(raw[1]) \in Seq(Point)
        /\ Len(cloud[h] \o PointsOf(raw[1])) = Len(cloud[h]) + Len(PointsOf(raw[1]))
        /\ \A k \in 1 .. Len(cloud[h]) + Len(PointsOf(raw[1])) : (cloud[h] \o PointsOf(raw[1]))[k] =
             IF k <= Len(cloud[h]) THEN cloud[h][k] ELSE PointsOf(raw[1])[k - Len(cloud[h])]
    BY <2>1, ConcatProperties, Zenon
  <2>3. cloud' = [cloud EXCEPT ![h] = cloud[h] \o PointsOf(raw[1])]
    BY <1>0, <1>1, <1>2
  <2>4. cloud'[h] = cloud[h] \o PointsOf(raw[1])
    BY <1>0, <1>2, <2>3
  <2>. QED BY <1>0, <1>2, <2>1, <2>2, <2>3, <2>4
<1>. HIDE DEF h
<1>4. ASSUME NEW m \in Lidar PROVE Numbered(m)' /\ \A i \in {0} \cup RawOf(m)' : GoesOn(m, i)'
  <2>0. /\ Numbered(m) /\ GoesOn(m, 0) /\ \A i \in {0} \cup RawOf(m) : GoesOn(m, i)
        /\ Gathered(m) \in Nat /\ Len(cloud[m]) \in Nat /\ Gathered(m)' = Gathered(m)
        /\ received'[m] = received[m] /\ points' = points
    BY <1>0, NoPointLostParts, GatheredType, GatheredStays DEF TypeInv
  <2>1. /\ \A i \in RawOf(m) : i \in 1 .. n /\ raw[i].lidar = m
        /\ \A i \in 1 .. n : raw[i].lidar = m => i \in RawOf(m)
    BY DEF RawOf
  <2>2. /\ \A i \in RawOf(m)' : i \in 1 .. n - 1 /\ i + 1 \in RawOf(m) /\ raw'[i] = raw[i + 1]
        /\ \A i \in RawOf(m) : i # 1 => i - 1 \in RawOf(m)'
    <3>1. \A i : i \in RawOf(m)' <=> i \in 1 .. n - 1 /\ raw'[i].lidar = m
      BY <1>1 DEF RawOf
    <3>2. \A i \in 1 .. n - 1 : i + 1 \in 1 .. n /\ raw'[i] = raw[i + 1]
      BY <1>1
    <3>3. \A i \in 1 .. n : i # 1 => i - 1 \in 1 .. n - 1 /\ raw'[i - 1] = raw[i]
      <4>1. ASSUME NEW i \in 1 .. n, i # 1 PROVE i - 1 \in 1 .. n - 1 /\ (i - 1) + 1 = i
        BY <4>1
      <4>. QED BY <1>1, <4>1
    <3>4. ASSUME NEW i \in RawOf(m)'
          PROVE  i \in 1 .. n - 1 /\ i + 1 \in RawOf(m) /\ raw'[i] = raw[i + 1]
      <4>1. i \in 1 .. n - 1 /\ raw'[i].lidar = m
        BY <3>1
      <4>2. i + 1 \in 1 .. n /\ raw'[i] = raw[i + 1]
        BY <3>2, <4>1
      <4>. QED BY <2>1, <4>1, <4>2
    <3>5. ASSUME NEW i \in RawOf(m), i # 1 PROVE i - 1 \in RawOf(m)'
      <4>1. i \in 1 .. n /\ raw[i].lidar = m
        BY <2>1
      <4>2. i - 1 \in 1 .. n - 1 /\ raw'[i - 1] = raw[i]
        BY <3>3, <3>5, <4>1
      <4>. QED BY <3>1, <4>1, <4>2
    <3>. QED BY <3>4, <3>5
  <2>3. m = h => raw[1].seq = Gathered(m) + Len(cloud[m]) + 1
    <3>1. SUFFICES ASSUME m = h PROVE raw[1].seq = Gathered(m) + Len(cloud[m]) + 1
      OBVIOUS
    <3>2. 1 \in RawOf(m) /\ \A k \in RawOf(m) : 1 <= k
      BY <1>1, <2>1, <3>1 DEF h
    <3>3. raw[1].seq = LastPoint(m, 0) + 1
      BY <2>0, <3>2 DEF GoesOn
    <3>. QED BY <3>3 DEF LastPoint
  <2>4. Numbered(m)'
    <3>1. CASE m # h
      BY <1>3, <2>0, <3>1 DEF Numbered
    <3>2. CASE m = h
      <4>1. ASSUME NEW k \in 1 .. Len(cloud[m]) + DotNum PROVE cloud'[m][k].seq = Gathered(m) + k
        <5>1. CASE k <= Len(cloud[m])
          <6>1. k \in 1 .. Len(cloud[m])
            BY <2>0, <5>1
          <6>2. cloud'[m][k] = cloud[m][k]
            BY <1>3, <3>2, <5>1
          <6>. QED BY <2>0, <6>1, <6>2 DEF Numbered
        <5>2. CASE ~(k <= Len(cloud[m]))
          <6>1. k - Len(cloud[m]) \in 1 .. DotNum
            BY <1>0, <2>0, <5>2
          <6>2. cloud'[m][k].seq = raw[1].seq + (k - Len(cloud[m])) - 1
            <7>1. cloud'[m][k] = PointsOf(raw[1])[k - Len(cloud[m])]
              BY <1>3, <3>2, <5>2
            <7>. QED BY <1>1, <6>1, <7>1, PointsOfFacts
          <6>3. raw[1].seq = Gathered(m) + Len(cloud[m]) + 1 /\ k \in Int
            BY <2>3, <3>2
          <6>4. \A a, b, c \in Int : (a + b + 1) + (c - b) - 1 = a + c
            OBVIOUS
          <6>5. Gathered(m) \in Int /\ Len(cloud[m]) \in Int
            BY <2>0
          <6>6. (Gathered(m) + Len(cloud[m]) + 1) + (k - Len(cloud[m])) - 1 = Gathered(m) + k
            BY <6>3, <6>4, <6>5, Zenon
          <6>. QED BY <6>2, <6>3, <6>6, Zenon
        <5>. QED BY <5>1, <5>2
      <4>. QED BY <1>3, <2>0, <3>2, <4>1 DEF Numbered
    <3>. QED BY <3>1, <3>2
  <2>5. LastPoint(m, 0)' = IF m = h THEN LastPoint(m, 1) ELSE LastPoint(m, 0)
    <3>1. LastPoint(m, 0)' = Gathered(m) + Len(cloud'[m])
      BY <2>0 DEF LastPoint
    <3>2. CASE m = h
      <4>1. LastPoint(m, 1) = raw[1].seq + DotNum - 1
        BY DEF LastPoint
      <4>2. Len(cloud'[m]) = Len(cloud[m]) + DotNum
        BY <1>3, <3>2
      <4>3. raw[1].seq = Gathered(m) + Len(cloud[m]) + 1 /\ DotNum \in Int
        BY <1>0, <2>3, <3>2
      <4>4. LastPoint(m, 0)' = LastPoint(m, 1)
        <5>1. \A a, b, c \in Int : (a + b + 1) + c - 1 = a + (b + c)
          OBVIOUS
        <5>2. Gathered(m) \in Int /\ Len(cloud[m]) \in Int
          BY <2>0
        <5>3. (Gathered(m) + Len(cloud[m]) + 1) + DotNum - 1 = Gathered(m) + (Len(cloud[m]) + DotNum)
          BY <4>3, <5>1, <5>2, Zenon
        <5>. QED BY <3>1, <4>1, <4>2, <4>3, <5>3, Zenon
      <4>. QED BY <3>2, <4>4
    <3>3. CASE m # h
      BY <1>3, <3>1, <3>3 DEF LastPoint
    <3>. QED BY <3>2, <3>3
  <2>6. ASSUME NEW i \in RawOf(m)' PROVE LastPoint(m, i)' = LastPoint(m, i + 1)
    <3>1. i \in 1 .. n - 1 /\ raw'[i] = raw[i + 1]
      BY <2>2
    <3>2. LastPoint(m, i)' = raw'[i].seq + DotNum - 1
      <4>1. i # 0
        BY <3>1
      <4>. QED BY <4>1 DEF LastPoint
    <3>3. LastPoint(m, i + 1) = raw[i + 1].seq + DotNum - 1
      <4>1. i + 1 # 0
        BY <3>1
      <4>. QED BY <4>1 DEF LastPoint
    <3>. QED BY <3>1, <3>2, <3>3
  <2>7. ASSUME NEW i \in Nat, NEW i0 \in {0} \cup RawOf(m), i \in {0} \cup RawOf(m)',
               LastPoint(m, i)' = LastPoint(m, i0),
               \A k \in RawOf(m) : k # 1 => (k <= i0 <=> k - 1 <= i),
               1 \in RawOf(m) => 1 <= i0
        PROVE  GoesOn(m, i)'
    <3>1. ASSUME NEW j \in RawOf(m)', i < j, \A k \in RawOf(m)' : k <= i \/ j <= k
          PROVE  raw'[j].seq = LastPoint(m, i0) + 1
      <4>1. j + 1 \in RawOf(m) /\ raw'[j] = raw[j + 1] /\ j \in Nat
        BY <2>2
      <4>2. i0 < j + 1
        <5>1. j + 1 # 1 /\ (j + 1) - 1 = j /\ ~(j <= i)
          BY <3>1, <4>1
        <5>2. ~(j + 1 <= i0) /\ i0 \in Nat
          BY <2>1, <2>7, <4>1, <5>1
        <5>. QED BY <4>1, <5>2
      <4>3. ASSUME NEW k \in RawOf(m) PROVE k <= i0 \/ j + 1 <= k
        <5>1. CASE k = 1
          BY <2>7, <5>1
        <5>2. CASE k # 1
          <6>1. k - 1 \in RawOf(m)' /\ k \in Nat
            BY <2>1, <2>2, <5>2
          <6>2. k - 1 <= i \/ j <= k - 1
            BY <3>1, <6>1
          <6>. QED BY <2>7, <4>1, <5>2, <6>1, <6>2
        <5>. QED BY <5>1, <5>2
      <4>. QED BY <2>0, <4>1, <4>2, <4>3 DEF GoesOn
    <3>2. ASSUME \A k \in RawOf(m)' : k <= i PROVE received[m] = LastPoint(m, i0)
      <4>1. ASSUME NEW k \in RawOf(m) PROVE k <= i0
        <5>1. CASE k = 1
          BY <2>7, <5>1
        <5>2. CASE k # 1
          BY <2>2, <2>7, <3>2, <5>2
        <5>. QED BY <5>1, <5>2
      <4>. QED BY <2>0, <4>1 DEF GoesOn
    <3>. QED BY <2>0, <2>7, <3>1, <3>2 DEF GoesOn
  <2>8. GoesOn(m, 0)'
    <3>1. CASE m = h
      <4>1. 1 \in RawOf(m)
        BY <1>1, <2>1, <3>1 DEF h
      <4>2. \A k \in RawOf(m) : k # 1 => (k <= 1 <=> k - 1 <= 0)
        BY <2>1
      <4>. QED BY <2>5, <2>7, <3>1, <4>1, <4>2
    <3>2. CASE m # h
      <4>1. 1 \notin RawOf(m)
        BY <2>1, <3>2 DEF h
      <4>2. \A k \in RawOf(m) : k # 1 => (k <= 0 <=> k - 1 <= 0)
        BY <2>1
      <4>. QED BY <2>5, <2>7, <3>2, <4>1, <4>2
    <3>. QED BY <3>1, <3>2
  <2>9. ASSUME NEW i \in RawOf(m)' PROVE GoesOn(m, i)'
    <3>1. i \in Nat /\ i + 1 \in RawOf(m) /\ i + 1 \in Nat
      BY <2>2
    <3>2. \A k \in RawOf(m) : k # 1 => (k <= i + 1 <=> k - 1 <= i)
      BY <2>1, <3>1
    <3>3. 1 <= i + 1
      BY <3>1
    <3>. QED BY <2>6, <2>7, <3>1, <3>2, <3>3
  <2>. QED BY <2>4, <2>8, <2>9
<1>. QED
  BY <1>3, <1>4, NoPointLostParts

-------------------------------------------------------------------------------
(***************************************************************************)
(* The clocks.                                                             *)
(***************************************************************************)

LEMMA ClockTypes ==
  ASSUME Clocks
  PROVE  /\ now \in Nat /\ epoch \in Nat /\ HostNow \in Nat /\ HostNow = now + epoch
         /\ last_pub \in Int
BY Constants DEF Clocks, HostNow, NotSet

LEMMA TickClock == ASSUME Clocks, Tick PROVE Clocks'
<1>1. now' \in 0 .. MaxTime /\ now' = now + 1
  BY ClockTypes DEF Clocks, Tick
<1>2. epoch' = epoch /\ last_pub' = last_pub /\ HostNow' = now' + epoch
  BY DEF Tick, clouds, HostNow
<1>3. epoch' \in {HostEpoch} \cup {HostEpoch + d : d \in HostSteps} /\ last_pub' \in {NotSet} \cup Nat
  BY <1>2 DEF Clocks
<1>4. last_pub # NotSet => IF epoch >= HostEpoch
                           THEN HostEpoch <= last_pub /\ last_pub <= HostNow'
                           ELSE last_pub <= now' + HostEpoch
  BY <1>1, <1>2, ClockTypes, Constants DEF Clocks
<1>. QED
  BY <1>1, <1>2, <1>3, <1>4 DEF Clocks

LEMMA SetClock == ASSUME Clocks, SetHostClock PROVE Clocks'
<1>1. PICK d \in HostSteps : epoch' = epoch + d
  BY DEF SetHostClock
<1>2. epoch = HostEpoch /\ epoch' = HostEpoch + d /\ d \in Int /\ HostEpoch + d >= 0
  BY <1>1, Constants DEF SetHostClock
<1>3. now' = now /\ last_pub' = last_pub /\ HostNow' = now + epoch'
  BY DEF SetHostClock, clouds, HostNow
<1>4. epoch' \in {HostEpoch} \cup {HostEpoch + e : e \in HostSteps}
  BY <1>2
<1>5. last_pub # NotSet => HostEpoch <= last_pub /\ last_pub <= now + HostEpoch
  BY <1>2, ClockTypes, Constants DEF Clocks
<1>6. last_pub # NotSet => IF epoch' >= HostEpoch
                           THEN HostEpoch <= last_pub /\ last_pub <= HostNow'
                           ELSE last_pub <= now + HostEpoch
  BY <1>2, <1>3, <1>5, ClockTypes, Constants
<1>. QED
  BY <1>3, <1>4, <1>6 DEF Clocks

\* CheckTimer looks at the host's clock.
LEMMA TimerClock ==
  ASSUME Clocks, UNCHANGED <<now, epoch>>,
         \/ last_pub' = last_pub
         \/ last_pub' = HostNow
         \/ last_pub # NotSet /\ HostNow - last_pub >= Interval /\ last_pub' = last_pub + Interval
  PROVE  Clocks'
<1>0. /\ HostNow' = HostNow /\ HostNow = now + epoch
      /\ now \in Nat /\ epoch \in Nat /\ HostNow \in Nat /\ HostEpoch \in Nat /\ Interval \in Nat
  BY ClockTypes, Constants DEF HostNow
<1>1. CASE last_pub' = last_pub
  BY <1>0, <1>1 DEF Clocks
<1>2. CASE last_pub' = HostNow
  <2>1. IF epoch >= HostEpoch THEN HostEpoch <= HostNow /\ HostNow <= HostNow
                              ELSE HostNow <= now + HostEpoch
    BY <1>0
  <2>. QED BY <1>0, <1>2, <2>1 DEF Clocks
<1>3. CASE last_pub # NotSet /\ HostNow - last_pub >= Interval /\ last_pub' = last_pub + Interval
  <2>1. last_pub \in Nat /\ last_pub' \in Nat /\ last_pub' <= HostNow /\ last_pub <= last_pub'
    BY <1>0, <1>3 DEF Clocks
  <2>2. epoch >= HostEpoch => HostEpoch <= last_pub
    BY <1>3 DEF Clocks
  <2>3. IF epoch >= HostEpoch THEN HostEpoch <= last_pub' /\ last_pub' <= HostNow
                              ELSE last_pub' <= now + HostEpoch
    BY <1>0, <2>1, <2>2
  <2>. QED BY <1>0, <2>1, <2>3 DEF Clocks
<1>. QED
  BY <1>1, <1>2, <1>3

-------------------------------------------------------------------------------
(***************************************************************************)
(* Every action keeps the invariant.                                       *)
(***************************************************************************)

LEMMA StillKeeps ==
  ASSUME FrameInv, UNCHANGED <<raw, received, cloud, points, sent, frame_, proc>>,
         Clocks', sync' \in BOOLEAN
  PROVE  FrameInv'
<1>0. UNCHANGED <<lidar_num, base_time, lidar_point>>
  BY DEF frame_
<1>1. CloudTypes' /\ Assembly'
  BY <1>0 DEF FrameInv, TypeInv, CloudTypes, Assembly, InFrame, Used
<1>2. TypeInv'
  BY <1>1 DEF FrameInv, TypeInv
<1>3. ASSUME NEW l \in Lidar
      PROVE  Numbered(l)' /\ Gathered(l)' + Len(cloud'[l]) = Gathered(l) + Len(cloud[l])
  BY <1>0, GatheredStays, NoPointLostParts DEF FrameInv, Numbered
<1>4. NoPointLostOrRepeated'
  BY <1>3, GoesOnStays, NoPointLostParts DEF FrameInv
<1>5. BaseTimeIsFirstPoint'
  BY <1>0 DEF FrameInv, BaseTimeIsFirstPoint, Used
<1>. QED
  BY <1>2, <1>4, <1>5 DEF FrameInv

LEMMA ReceivePointsKeeps ==
  ASSUME FrameInv, NEW l \in Lidar, NEW synced \in BOOLEAN, ReceivePoints(l, synced)
  PROVE  FrameInv'
<1>. DEFINE t == GetEthPacketTimestamp(synced)
            packet == [lidar |-> l, seq |-> received[l] + 1, time |-> t]
<1>0. TypeInv /\ NoPointLostOrRepeated /\ BaseTimeIsFirstPoint
  BY DEF FrameInv
<1>1. /\ raw' = Append(raw, packet) /\ received' = [received EXCEPT ![l] = @ + DotNum]
      /\ UNCHANGED <<cloud, points, sent, last_pub, now, epoch, proc>> /\ sync' = synced
      /\ UNCHANGED <<lidar_num, base_time, lidar_point>>
  BY DEF ReceivePoints, clouds, frame_
<1>2. t \in Nat
  BY <1>0, ClockTypes DEF GetEthPacketTimestamp, TypeInv
<1>3. packet \in RawPacket
  BY <1>0, <1>2 DEF RawPacket, TypeInv
<1>4. NoPointLostOrRepeated'
  BY <1>0, <1>1, <1>2, ReceiveKeeps
<1>. HIDE DEF packet
<1>5. raw' \in Seq(RawPacket)
  BY <1>0, <1>1, <1>3 DEF TypeInv
<1>6. received' \in [Lidar -> Nat]
  BY <1>0, <1>1, Constants DEF TypeInv
<1>7. CloudTypes'
  BY <1>0, <1>1 DEF TypeInv, CloudTypes
<1>8. Clocks'
  BY <1>0, <1>1, TimerClock DEF TypeInv
<1>9. Assembly'
  BY <1>0, <1>1 DEF TypeInv, Assembly, InFrame, Used
<1>10. TypeInv'
  BY <1>0, <1>1, <1>5, <1>6, <1>7, <1>8, <1>9 DEF TypeInv
<1>11. BaseTimeIsFirstPoint'
  BY <1>0, <1>1 DEF BaseTimeIsFirstPoint, Used
<1>. QED
  BY <1>4, <1>10, <1>11 DEF FrameInv

LEMMA RawDataProcessKeeps == ASSUME FrameInv, RawDataProcess PROVE FrameInv'
<1>0. TypeInv /\ NoPointLostOrRepeated /\ BaseTimeIsFirstPoint /\ Assembly
  BY DEF FrameInv, TypeInv
<1>1. UNCHANGED <<received, points, sent, lidar_num, base_time, lidar_point, sync>>
  BY DEF RawDataProcess, frame_
<1>2. NoPointLostOrRepeated' /\ cloud' \in [Lidar -> Seq(Point)]
  BY <1>0, <1>1, TakeKeeps DEF RawDataProcess
<1>3. raw' \in Seq(RawPacket) /\ Head(raw).lidar \in Lidar
  <2>1. raw' \in Seq(RawPacket) /\ Head(raw) \in RawPacket
    BY <1>0, HeadTailProperties DEF TypeInv, RawDataProcess
  <2>. QED BY <2>1 DEF RawPacket
<1>4. Assembly'
  <2>1. proc.pc = "take" /\ proc' = [proc EXCEPT !.pc = "check", !.id = Head(raw).lidar]
    BY DEF RawDataProcess
  <2>2. lidar_num = 0 /\ proc.todo = {}
    BY <1>0, <2>1 DEF Assembly
  <2>3. /\ proc' \in [pc : {"take", "check", "add"}, id : Lidar, todo : SUBSET Lidar]
        /\ proc'.todo = proc.todo
    BY <1>0, <1>3, <2>1 DEF Assembly
  <2>. QED BY <1>0, <1>1, <2>2, <2>3 DEF Assembly
<1>5. CloudTypes'
  BY <1>0, <1>1, <1>2 DEF TypeInv, CloudTypes
<1>6. Clocks'
  BY <1>0, TimerClock DEF TypeInv, RawDataProcess
<1>7. TypeInv'
  BY <1>0, <1>1, <1>3, <1>4, <1>5, <1>6 DEF TypeInv
<1>8. BaseTimeIsFirstPoint'
  BY <1>0, <1>1 DEF BaseTimeIsFirstPoint, Used
<1>. QED
  BY <1>2, <1>7, <1>8 DEF FrameInv

\* Both modes of CheckTimer only choose the lidars whose clouds will go.
LEMMA CheckTimerKeeps == ASSUME FrameInv, CheckTimerSync \/ CheckTimerNoSync PROVE FrameInv'
<1>0. /\ TypeInv /\ NoPointLostOrRepeated /\ BaseTimeIsFirstPoint
      /\ Assembly /\ CloudTypes /\ Clocks
  BY DEF FrameInv, TypeInv
<1>1. UNCHANGED <<raw, received, cloud, points, sent, lidar_num, base_time, lidar_point, sync, now, epoch>>
  BY DEF CheckTimerSync, CheckTimerNoSync, clouds, frame_
<1>2. proc.pc = "check" /\ lidar_num = 0 /\ proc.todo = {} /\ proc.id \in Lidar
  BY <1>0 DEF CheckTimerSync, CheckTimerNoSync, Assembly
<1>3. \/ proc' = [proc EXCEPT !.pc = "take"]
      \/ \E lidars \in SUBSET Lidar : proc' = [proc EXCEPT !.pc = "add", !.todo = lidars]
  <2>1. CASE CheckTimerSync
    <3>1. {proc.id} \in SUBSET Lidar
      BY <1>2
    <3>. QED BY <2>1, <3>1 DEF CheckTimerSync
  <2>2. CASE CheckTimerNoSync
    <3>1. Handlers \in SUBSET Lidar
      BY DEF Handlers
    <3>. QED BY <2>2, <3>1 DEF CheckTimerNoSync
  <2>. QED BY <2>1, <2>2
<1>4. Clocks'
  <2>1. \/ last_pub' = last_pub
        \/ last_pub' = HostNow
        \/ last_pub # NotSet /\ HostNow - last_pub >= Interval /\ last_pub' = last_pub + Interval
    BY DEF CheckTimerSync, CheckTimerNoSync, clouds
  <2>. QED BY <1>0, <1>1, <2>1, TimerClock
<1>5. ASSUME NEW l \in Lidar PROVE ~InFrame(l)'
  BY <1>1, <1>2 DEF InFrame, Used, Slot
<1>6. Assembly'
  <2>1. CASE proc' = [proc EXCEPT !.pc = "take"]
    <3>1. /\ proc' \in [pc : {"take", "check", "add"}, id : Lidar, todo : SUBSET Lidar]
          /\ proc'.todo = proc.todo
      BY <1>0, <2>1 DEF Assembly
    <3>. QED BY <1>0, <1>1, <1>2, <3>1 DEF Assembly
  <2>2. ASSUME NEW lidars \in SUBSET Lidar, proc' = [proc EXCEPT !.pc = "add", !.todo = lidars]
        PROVE  Assembly'
    <3>1. /\ proc' \in [pc : {"take", "check", "add"}, id : Lidar, todo : SUBSET Lidar]
          /\ proc'.todo = lidars /\ proc'.pc = "add"
      BY <1>0, <2>2 DEF Assembly
    <3>2. Cardinality(lidars) <= Cardinality(Lidar)
      BY Constants, FS_Subset
    <3>3. Cardinality(lidars) \in Nat /\ Cardinality(Lidar) \in Nat
      BY Constants, FS_Subset, FS_CardinalityType
    <3>4. lidar_num' + Cardinality(proc'.todo) <= kMaxSourceLidar
      BY <1>1, <1>2, <3>1, <3>2, <3>3, Constants
    <3>5. \A l \in proc'.todo : ~InFrame(l)'
      BY <1>5, <3>1
    <3>. QED BY <3>1, <3>4, <3>5 DEF Assembly
  <2>. QED BY <1>3, <2>1, <2>2
<1>7. CloudTypes'
  BY <1>0, <1>1 DEF CloudTypes
<1>8. NoPointLostOrRepeated'
  <2>1. ASSUME NEW l \in Lidar
        PROVE  Numbered(l)' /\ Gathered(l)' + Len(cloud'[l]) = Gathered(l) + Len(cloud[l])
    BY <1>0, <1>1, GatheredStays, NoPointLostParts DEF Numbered
  <2>. QED BY <1>0, <1>1, <2>1, GoesOnStays, NoPointLostParts
<1>9. BaseTimeIsFirstPoint'
  BY <1>0, <1>1 DEF BaseTimeIsFirstPoint, Used
<1>10. TypeInv'
  BY <1>0, <1>1, <1>4, <1>6, <1>7 DEF TypeInv
<1>. QED
  BY <1>8, <1>9, <1>10 DEF FrameInv

LEMMA HandOverKeeps ==
  ASSUME FrameInv, PublishPointCloud \/ \E l \in Lidar : AddLidar(l)
  PROVE  FrameInv'
<1>0. /\ TypeInv /\ NoPointLostOrRepeated /\ BaseTimeIsFirstPoint
      /\ Assembly /\ CloudTypes /\ Clocks
  BY DEF FrameInv, TypeInv
<1>1. CloudTypes' /\ Assembly' /\ NoPointLostOrRepeated' /\ BaseTimeIsFirstPoint'
  BY <1>0, PublishKeeps, AddLidarType, AddLidarKeeps, AddLidarBase
<1>2. UNCHANGED <<raw, received, sync, now, epoch, last_pub>>
  BY DEF PublishPointCloud, AddLidar
<1>3. TypeInv'
  BY <1>0, <1>1, <1>2, TimerClock DEF TypeInv
<1>. QED
  BY <1>1, <1>3 DEF FrameInv

-------------------------------------------------------------------------------
(***************************************************************************)
(* The theorems.                                                           *)
(***************************************************************************)

LEMMA FrameInit == Init => FrameInv
<1>. SUFFICES ASSUME Init PROVE FrameInv
  OBVIOUS
<1>0. Len(<< >>) = 0 /\ << >> \in Seq(RawPacket) /\ << >> \in Seq(Point)
  OBVIOUS
<1>1. CloudTypes
  BY <1>0 DEF CloudTypes, Init
<1>2. Clocks
  BY DEF Clocks, Init
<1>3. Assembly
  <2>1. (CHOOSE l \in Lidar : TRUE) \in Lidar
    OBVIOUS
  <2>2. Cardinality({}) = 0
    BY FS_EmptySet
  <2>. QED BY <2>1, <2>2, Constants DEF Init, Assembly
<1>4. TypeInv
  BY <1>0, <1>1, <1>2, <1>3 DEF TypeInv, Init
<1>5. ASSUME NEW l \in Lidar PROVE Numbered(l) /\ \A i \in {0} \cup RawOf(l) : GoesOn(l, i)
  <2>1. /\ points[l] = << >> /\ cloud[l] = << >> /\ sent[l] = 0 /\ received[l] = 0 /\ RawOf(l) = {}
          /\ Gathered(l) = 0
    BY <1>0 DEF Init, RawOf, Gathered, InFrame, Used, Slot
  <2>2. Numbered(l)
    BY <1>0, <2>1 DEF Numbered
  <2>3. GoesOn(l, 0)
    BY <1>0, <2>1 DEF GoesOn, LastPoint
  <2>. QED BY <2>1, <2>2, <2>3
<1>6. BaseTimeIsFirstPoint
  BY DEF BaseTimeIsFirstPoint, Init, Used, Slot
<1>. QED
  BY <1>4, <1>5, <1>6, NoPointLostParts DEF FrameInv

LEMMA FrameStep == FrameInv /\ [Next]_vars => FrameInv'
<1>. SUFFICES ASSUME FrameInv, [Next]_vars PROVE FrameInv'
  OBVIOUS
<1>0. Clocks /\ sync \in BOOLEAN
  BY DEF FrameInv, TypeInv
<1>1. CASE Tick \/ SetHostClock
  <2>1. Clocks'
    BY <1>0, <1>1, TickClock, SetClock
  <2>. QED BY <1>0, <1>1, <2>1, StillKeeps DEF Tick, SetHostClock, clouds
<1>2. CASE UNCHANGED vars \/ \E synced \in BOOLEAN : ReceiveImu(synced)
  <2>1. UNCHANGED <<raw, received, cloud, points, sent, frame_, last_pub, now, epoch, proc>>
    BY <1>2 DEF ReceiveImu, vars, clouds
  <2>2. sync' \in BOOLEAN
    BY <1>0, <1>2 DEF ReceiveImu, vars
  <2>3. Clocks'
    BY <1>0, <2>1, TimerClock
  <2>. QED BY <2>1, <2>2, <2>3, StillKeeps
<1>. QED
  BY <1>1, <1>2, ReceivePointsKeeps, RawDataProcessKeeps, CheckTimerKeeps, HandOverKeeps
     DEF Next, Process

LEMMA Frames == Spec => []FrameInv
BY FrameInit, FrameStep, PTL DEF Spec

\* Every variable keeps its type, and the clock by which unsynchronised frames are
\* published runs ahead of the host's only if that was set back, and by no more.
THEOREM TypeCorrect == Spec => []TypeOK
<1>1. TypeInv => TypeOK
  <2>. SUFFICES ASSUME TypeInv PROVE TypeOK
    OBVIOUS
  <2>0. Clocks /\ CloudTypes
    BY DEF TypeInv
  <2>1. last_pub > HostNow => epoch < HostEpoch /\ last_pub <= now + HostEpoch
    <3>1. last_pub = NotSet => ~(last_pub > HostNow)
      BY <2>0, ClockTypes DEF NotSet
    <3>. QED BY <2>0, <3>1, ClockTypes, Constants DEF Clocks
  <2>2. last_pub # NotSet /\ last_pub < HostEpoch => epoch < HostEpoch
    BY <2>0, ClockTypes, Constants DEF Clocks
  <2>3. lidar_num \in 0 .. kMaxSourceLidar
    <3>1. proc.todo \in SUBSET Lidar /\ lidar_num + Cardinality(proc.todo) <= kMaxSourceLidar
      BY DEF TypeInv, Assembly
    <3>2. Cardinality(proc.todo) \in Nat
      BY <3>1, Constants, FS_Subset, FS_CardinalityType
    <3>. QED BY <2>0, <3>1, <3>2, Constants DEF CloudTypes
  <2>4. proc.todo # {} => lidar_num \in Slot
    BY <2>0, NextEntry DEF TypeInv, CloudTypes
  <2>. QED BY <2>0, <2>1, <2>2, <2>3, <2>4 DEF TypeInv, TypeOK, CloudTypes, Clocks, RawPacket, Assembly
<1>2. FrameInv => TypeOK
  BY <1>1 DEF FrameInv
<1>. QED
  BY <1>2, Frames, PTL

\* The frames of a lidar cut its points into consecutive pieces, in both modes of
\* CheckTimer and across every change between them.
THEOREM PointsAreKept == Spec => []NoPointLostOrRepeated
<1>1. FrameInv => NoPointLostOrRepeated
  BY DEF FrameInv
<1>. QED
  BY <1>1, Frames, PTL

\* Every entry of frame_ has the base time of its own lidar's first point, whichever
\* lidars were skipped before it and whatever was in the entry.
THEOREM BaseTimeIsRight == Spec => []BaseTimeIsFirstPoint
<1>1. FrameInv => BaseTimeIsFirstPoint
  BY DEF FrameInv
<1>. QED
  BY <1>1, Frames, PTL
==============================================================================
