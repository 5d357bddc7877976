-------------------------- MODULE SyncedSaver_proofs --------------------------
(***************************************************************************)
(* Proofs about the saving node, for every set of time stamps and every    *)
(* number of runs and of faults.                                           *)
(*                                                                         *)
(* What a group looks like when its callback is through follows from what  *)
(* it looks like on the way: of the files before the current one, each is  *)
(* written or excused, and none from there on is written yet (InOrder).    *)
(***************************************************************************)
EXTENDS SyncedSaver, FiniteSetTheorems, SequenceTheorems, TLAPS

USE SaverAssumption

-------------------------------------------------------------------------------
(***************************************************************************)
(* The files of a group and their order.                                   *)
(***************************************************************************)

\* With and without the point cloud.
Names == {"pcd", "image", "image_undistorted", "pose", "pose_lidar", "calibration", "discoeff", "depth"}

LEMMA CommonIs ==
  /\ Common \in Seq(Names) /\ Len(Common) = 7
  /\ Common[1] = "image" /\ Common[2] = "image_undistorted"
  /\ Common[3] = "pose" /\ Common[4] = "pose_lidar"
  /\ Common[5] = "calibration" /\ Common[6] = "discoeff" /\ Common[7] = "depth"
<1>. DEFINE others == <<"pose", "pose_lidar", "calibration", "discoeff", "depth">>
<1>1. Images \in Seq(Names) /\ others \in Seq(Names)
  BY DEF Images, Names
<1>2. Len(Images) = 2 /\ Images[1] = "image" /\ Images[2] = "image_undistorted"
  BY DEF Images
<1>3. /\ Len(others) = 5
      /\ others[1] = "pose" /\ others[2] = "pose_lidar" /\ others[3] = "calibration"
      /\ others[4] = "discoeff" /\ others[5] = "depth"
  OBVIOUS
<1>4. Common = Images \o others
  BY DEF Common
<1>. HIDE DEF others
<1>5. /\ Images \o others \in Seq(Names)
      /\ Len(Images \o others) = Len(Images) + Len(others)
      /\ \A i \in 1 .. Len(Images) + Len(others) :
           (Images \o others)[i] = IF i <= Len(Images) THEN Images[i] ELSE others[i - Len(Images)]
  BY <1>1, ConcatProperties, Zenon
<1>. QED
  BY <1>2, <1>3, <1>4, <1>5

LEMMA AllIs ==
  LET all == <<"pcd">> \o Common IN
  /\ all \in Seq(Names) /\ Len(all) = 8
  /\ all[1] = "pcd"
  /\ \A i \in 1 .. 7 : all[i + 1] = Common[i]
<1>. DEFINE first == <<"pcd">>
            all == first \o Common
<1>1. first \in Seq(Names)
  BY DEF Names
<1>2. Len(first) = 1 /\ first[1] = "pcd"
  OBVIOUS
<1>. HIDE DEF first
<1>3. /\ all \in Seq(Names)
      /\ Len(all) = Len(first) + Len(Common)
      /\ \A i \in 1 .. Len(first) + Len(Common) :
           all[i] = IF i <= Len(first) THEN first[i] ELSE Common[i - Len(first)]
  BY <1>1, CommonIs, ConcatProperties, Zenon
<1>. HIDE DEF all
<1>4. ASSUME NEW i \in 1 .. 7 PROVE all[i + 1] = Common[i]
  <2>1. i + 1 \in 1 .. 8 /\ ~(i + 1 <= 1) /\ (i + 1) - 1 = i
    OBVIOUS
  <2>. QED BY <1>2, <1>3, <2>1, CommonIs
<1>5. all[1] = "pcd"
  BY <1>2, <1>3, CommonIs
<1>. QED
  BY <1>2, <1>3, <1>4, <1>5, CommonIs DEF all, first

LEMMA KindsFacts ==
  ASSUME Order \in Seq(Names)
  PROVE  /\ Order \in Seq(Kinds)
         /\ \A k \in Kinds : \E i \in 1 .. Len(Order) : k = Order[i]
         /\ \A i \in 1 .. Len(Order) : Order[i] \in Kinds
BY DEF Kinds

\* The depth image is the last file, the undistorted image follows the image, and no
\* file is written twice.
LEMMA OrderFacts ==
  /\ Len(Order) \in Nat \ {0, 1}
  /\ Order \in Seq(Kinds)
  /\ \A k \in Kinds : \E i \in 1 .. Len(Order) : k = Order[i]
  /\ \A i \in 1 .. Len(Order) : Order[i] \in Kinds
  /\ Order[Len(Order)] = "depth"
  /\ \A i, j \in 1 .. Len(Order) : Order[i] = Order[j] => i = j
  /\ \A i \in 1 .. Len(Order) : Order[i] = "image" =>
       i + 1 \in 1 .. Len(Order) /\ Order[i + 1] = "image_undistorted"
<1>1. CASE save_pcd
  <2>1. Order \in Seq(Names) /\ Len(Order) = 8
    BY <1>1, AllIs DEF Order
  <2>2. /\ Order[1] = "pcd" /\ Order[2] = "image" /\ Order[3] = "image_undistorted"
        /\ Order[4] = "pose" /\ Order[5] = "pose_lidar" /\ Order[6] = "calibration"
        /\ Order[7] = "discoeff" /\ Order[8] = "depth"
    BY <1>1, AllIs, CommonIs DEF Order
  <2>. QED BY <2>1, <2>2, KindsFacts
<1>2. CASE ~save_pcd
  <2>1. Order = Common
    BY <1>2 DEF Order
  <2>. QED BY <2>1, CommonIs, KindsFacts
<1>. QED
  BY <1>1, <1>2

LEMMA OrderStays == UNCHANGED save_pcd => Order' = Order /\ Kinds' = Kinds
BY DEF Order, Kinds

\* How many files the callback is through with.
Done == Len(Order) - Len(todo)

\* What is left to write are the files from the next one on.
Suffix ==
  /\ todo \in Seq(Kinds)
  /\ Len(todo) <= Len(Order)
  /\ \A j \in 1 .. Len(todo) : todo[j] = Order[Done + j]

LEMMA SuffixFacts ==
  ASSUME Suffix, todo # <<>>
  PROVE  /\ Done \in 0 .. Len(Order) - 1
         /\ Done + 1 \in 1 .. Len(Order)
         /\ Head(todo) = Order[Done + 1] /\ Head(todo) \in Kinds
<1>1. Len(todo) \in Nat /\ Len(todo) > 0 /\ Head(todo) = todo[1] /\ Head(todo) \in Kinds
  BY DEF Suffix
<1>2. Done \in 0 .. Len(Order) - 1 /\ 1 \in 1 .. Len(todo)
  BY <1>1, OrderFacts DEF Suffix, Done
<1>3. todo[1] = Order[Done + 1]
  BY <1>2 DEF Suffix
<1>. QED
  BY <1>1, <1>2, <1>3, OrderFacts

\* Going on to the next file.
LEMMA SuffixTail ==
  ASSUME Suffix, todo # <<>>, todo' = Tail(todo), UNCHANGED save_pcd
  PROVE  Suffix' /\ Done' = Done + 1 /\ (todo' # <<>> => Done + 1 < Len(Order))
         /\ (todo' = <<>> => Done' = Len(Order))
<1>1. /\ Tail(todo) \in Seq(Kinds) /\ Len(Tail(todo)) = Len(todo) - 1 /\ Len(todo) \in Nat
      /\ \A i \in 1 .. Len(Tail(todo)) : Tail(todo)[i] = todo[i + 1]
  BY HeadTailProperties, LenProperties DEF Suffix
<1>2. Len(Order) \in Nat
  BY OrderFacts
<1>3. Done' = Done + 1
  BY <1>1, <1>2, OrderStays DEF Done
<1>4. ASSUME NEW j \in 1 .. Len(Tail(todo)) PROVE Tail(todo)[j] = Order[Done + 1 + j]
  <2>1. j + 1 \in 1 .. Len(todo) /\ Done \in Int
    BY <1>1, <1>2 DEF Done
  <2>2. Done + (j + 1) = Done + 1 + j
    BY <2>1
  <2>. QED BY <1>1, <2>1, <2>2 DEF Suffix
<1>5. Len(Tail(todo)) = 0 <=> Tail(todo) = <<>>
  BY <1>1, EmptySeq
<1>. QED
  BY <1>1, <1>2, <1>3, <1>4, <1>5, OrderStays DEF Suffix, Done

-------------------------------------------------------------------------------
(***************************************************************************)
(* The inductive invariant.                                                *)
(***************************************************************************)

FileState == [by : 0 .. MaxRuns, whole : BOOLEAN]

TypeInv ==
  /\ save_pcd \in BOOLEAN /\ up \in BOOLEAN /\ opened \in BOOLEAN
  /\ run \in 0 .. MaxRuns
  /\ last \in Stamp \cup {0}
  /\ Suffix
  /\ todo # <<>> => up /\ last \in Stamp /\ begun[last] = run
  /\ opened => todo # <<>> /\ file[Head(todo)][last] = Partial(run)
  /\ file \in [Kinds -> [Stamp -> FileState]]
  /\ begun \in [Stamp -> 0 .. MaxRuns]
  /\ excused \in [Stamp -> SUBSET Kinds]
  /\ faults \in 0 .. MaxFaults

\* The stamps of a run grow, so that no group of this run is begun again; nothing is
\* written by a run that did not begin the group.
RunsInOrder ==
  /\ up => run # 0
  /\ \A n \in Stamp :
       /\ begun[n] <= run
       /\ run # 0 /\ begun[n] = run => n <= last
  /\ \A k \in Kinds, n \in Stamp :
       /\ file[k][n].by <= begun[n]
       /\ file[k][n].whole => file[k][n].by # 0

\* The group that is being written.
InOrder == todo # <<>> =>
  /\ \A i \in 1 .. Done : Order[i] \in excused[last] \/ file[Order[i]][last] = Whole(run)
  /\ \A i \in Done + 1 .. Len(Order) : file[Order[i]][last] # Whole(run)

\* The groups that are spoilt, and whether the one being written is going to be.
Bad == {n \in Stamp : begun[n] # 0 /\ ~(todo # <<>> /\ last = n) /\ ~Saved(n)}
Spoilt == todo # <<>> /\ excused[last] # {}

\* Each spoilt group has had a fault of its own.
Costs ==
  /\ IsFiniteSet(Bad)
  /\ Cardinality(Bad) + (IF Spoilt THEN 1 ELSE 0) <= faults

SaverInv ==
  /\ TypeInv
  /\ RunsInOrder
  /\ InOrder
  /\ DepthVouches
  /\ Costs

-------------------------------------------------------------------------------
(***************************************************************************)
(* Lemmas about one step.                                                  *)
(***************************************************************************)

LEMMA SuffixStays == Suffix /\ UNCHANGED <<save_pcd, todo>> => Suffix' /\ Done' = Done
BY OrderStays DEF Suffix, Done

\* A group begins with all of its files left to write, and ends with none.
LEMMA SuffixEnds ==
  /\ todo' = Order /\ UNCHANGED save_pcd => Suffix' /\ Done' = 0 /\ todo' # <<>>
  /\ todo' = <<>> /\ UNCHANGED save_pcd => Suffix' /\ Done' = Len(Order)
<1>1. Len(<<>>) = 0 /\ <<>> \in Seq(Kinds)
  OBVIOUS
<1>2. ASSUME todo' = Order, UNCHANGED save_pcd PROVE Suffix' /\ Done' = 0 /\ todo' # <<>>
  <2>1. Done' = 0
    BY <1>2, OrderFacts, OrderStays DEF Done
  <2>2. \A j \in 1 .. Len(Order) : 0 + j = j
    BY OrderFacts
  <2>. QED BY <1>1, <1>2, <2>1, <2>2, OrderFacts, OrderStays DEF Suffix
<1>3. ASSUME todo' = <<>>, UNCHANGED save_pcd PROVE Suffix' /\ Done' = Len(Order)
  <2>1. Done' = Len(Order)
    BY <1>1, <1>3, OrderFacts, OrderStays DEF Done
  <2>. QED BY <1>1, <1>3, <2>1, OrderFacts, OrderStays DEF Suffix
<1>. QED
  BY <1>2, <1>3

\* One file is opened or closed.
LEMMA FileBecomes ==
  ASSUME NEW k0 \in Kinds, NEW n0 \in Stamp, NEW r \in FileState,
         file \in [Kinds -> [Stamp -> FileState]],
         file' = [file EXCEPT ![k0][n0] = r]
  PROVE  /\ file' \in [Kinds -> [Stamp -> FileState]]
         /\ file'[k0][n0] = r
         /\ \A k \in Kinds, n \in Stamp : k # k0 \/ n # n0 => file'[k][n] = file[k][n]
<1>1. file[k0] \in [Stamp -> FileState]
  OBVIOUS
<1>2. file' = [file EXCEPT ![k0] = [file[k0] EXCEPT ![n0] = r]]
  OBVIOUS
<1>3. [file[k0] EXCEPT ![n0] = r] \in [Stamp -> FileState]
  BY <1>1
<1>. QED
  BY <1>1, <1>2, <1>3

LEMMA WholeAndPartial ==
  ASSUME run \in 0 .. MaxRuns
  PROVE  /\ Whole(run) \in FileState /\ Partial(run) \in FileState
         /\ Whole(run) # Partial(run)
         /\ Whole(run).by = run /\ Partial(run).by = run /\ ~Partial(run).whole
BY DEF Whole, Partial, FileState

\* The callback goes on within its group, or ends it.
LEMMA GroupStep ==
  ASSUME TypeInv, DepthVouches, todo # <<>>,
         UNCHANGED <<save_pcd, run, last, begun>>,
         \A n \in Stamp \ {last} :
           excused'[n] = excused[n] /\ \A k \in Kinds : file'[k][n] = file[k][n],
         \A i \in 1 .. Done' :
           Order[i] \in excused'[last] \/ file'[Order[i]][last] = Whole(run),
         todo' # <<>> => \A i \in Done' + 1 .. Len(Order) : file'[Order[i]][last] # Whole(run),
         todo' # <<>> => Done' \in 0 .. Len(Order) - 1,
         todo' = <<>> => Done' = Len(Order)
  PROVE  /\ InOrder' /\ DepthVouches'
         /\ Bad' \subseteq Bad \cup {last}
         /\ todo' # <<>> \/ excused'[last] = {} => Bad' \subseteq Bad
<1>0. /\ last \in Stamp /\ begun[last] = run /\ run \in Nat
      /\ Order' = Order /\ Kinds' = Kinds
  BY OrderStays DEF TypeInv
<1>1. InOrder'
  BY <1>0 DEF InOrder, Whole
<1>2. ASSUME NEW n \in Stamp, n # last
      PROVE  /\ Saved(n)' <=> Saved(n)
             /\ file'["depth"][n] = file["depth"][n]
             /\ \A k \in Kinds : file'[k][n] = file[k][n]
             /\ excused'[n] = excused[n]
  <2>1. "depth" \in Kinds
    BY OrderFacts
  <2>. QED BY <1>0, <1>2, <2>1 DEF Saved, Whole
<1>3. ASSUME todo' = <<>>, NEW k \in Kinds \ excused'[last] PROVE file'[k][last] = Whole(run)
  BY <1>3, OrderFacts
<1>4. ASSUME NEW n \in Stamp, file'["depth"][n] = Whole(begun'[n])
      PROVE  \A k \in Kinds \ excused'[n] : file'[k][n] = Whole(begun'[n])
  <2>1. CASE n # last
    BY <1>2, <1>4, <2>1 DEF DepthVouches
  <2>2. CASE n = last /\ todo' = <<>>
    BY <1>0, <1>3, <2>2
  <2>3. CASE n = last /\ todo' # <<>>
    <3>1. Len(Order) \in Done' + 1 .. Len(Order)
      BY <2>3, OrderFacts
    <3>. QED BY <1>0, <1>4, <2>3, <3>1, OrderFacts
  <2>. QED BY <2>1, <2>2, <2>3
<1>5. DepthVouches'
  BY <1>0, <1>4 DEF DepthVouches, Whole
<1>6. Bad' \subseteq Bad \cup {last}
  BY <1>2 DEF Bad
<1>7. ASSUME todo' # <<>> \/ excused'[last] = {} PROVE last \notin Bad'
  <2>1. CASE todo' # <<>>
    BY <2>1 DEF Bad
  <2>2. CASE todo' = <<>> /\ excused'[last] = {}
    <3>1. Saved(last)'
      BY <1>0, <1>3, <2>2 DEF Saved, Whole
    <3>. QED BY <3>1 DEF Bad
  <2>. QED BY <1>7, <2>1, <2>2
<1>. QED
  BY <1>1, <1>5, <1>6, <1>7

\* No group more is spoilt, and the one being written only by a fault.
LEMMA CostsKept ==
  ASSUME Costs, Bad' \subseteq Bad, faults \in Nat, faults' \in {faults, faults + 1},
         Spoilt' => Spoilt \/ faults' = faults + 1
  PROVE  Costs'
<1>1. /\ IsFiniteSet(Bad') /\ Cardinality(Bad') <= Cardinality(Bad)
      /\ Cardinality(Bad') \in Nat /\ Cardinality(Bad) \in Nat
  BY FS_Subset, FS_CardinalityType DEF Costs
<1>. QED
  BY <1>1 DEF Costs

\* One group more is spoilt, which was going to be or has its fault in this step.
LEMMA CostsGrow ==
  ASSUME Costs, NEW n, Bad' \subseteq Bad \cup {n}, faults \in Nat, ~Spoilt',
         faults' = faults + 1 \/ (faults' = faults /\ Spoilt)
  PROVE  Costs'
<1>1. /\ IsFiniteSet(Bad \cup {n}) /\ Cardinality(Bad \cup {n}) <= Cardinality(Bad) + 1
      /\ Cardinality(Bad) \in Nat
  BY FS_AddElement, FS_CardinalityType DEF Costs
<1>2. /\ IsFiniteSet(Bad') /\ Cardinality(Bad') <= Cardinality(Bad \cup {n})
      /\ Cardinality(Bad') \in Nat /\ Cardinality(Bad \cup {n}) \in Nat
  BY <1>1, FS_Subset, FS_CardinalityType
<1>. QED
  BY <1>1, <1>2 DEF Costs

-------------------------------------------------------------------------------
(***************************************************************************)
(* Every action keeps the invariant.                                       *)
(***************************************************************************)

\* What is on the disk stays, and no group is being written before or after.
LEMMA IdleStep ==
  ASSUME SaverInv, UNCHANGED <<save_pcd, todo, opened, disk, faults>>, todo = <<>>,
         up' \in BOOLEAN, run' \in 0 .. MaxRuns, last' \in Stamp \cup {0}
  PROVE  TypeInv' /\ InOrder' /\ DepthVouches' /\ Costs'
<1>. USE DEF SaverInv
<1>0. Order' = Order /\ Kinds' = Kinds /\ Suffix'
  BY OrderStays, SuffixStays DEF TypeInv
<1>1. TypeInv'
  BY <1>0 DEF TypeInv, disk
<1>2. InOrder' /\ DepthVouches'
  BY <1>0 DEF InOrder, DepthVouches, Whole, disk
<1>3. Bad' \subseteq Bad /\ ~Spoilt'
  BY <1>0 DEF Bad, Spoilt, Saved, Whole, disk
<1>4. Costs'
  BY <1>3, CostsKept DEF TypeInv
<1>. QED
  BY <1>1, <1>2, <1>4

LEMMA StartKeeps == SaverInv /\ Start => SaverInv'
<1>. SUFFICES ASSUME SaverInv, Start PROVE SaverInv'
  OBVIOUS
<1>0. TypeInv /\ RunsInOrder /\ run \in Nat /\ MaxRuns \in Nat
  BY DEF SaverInv, TypeInv
<1>1. todo = <<>> /\ run' = run + 1 /\ run' \in 0 .. MaxRuns /\ run' # 0
  BY <1>0 DEF Start, TypeInv
<1>2. \A n \in Stamp : begun[n] <= run /\ begun[n] \in Nat
  BY <1>0 DEF RunsInOrder, TypeInv
<1>3. RunsInOrder'
  BY <1>0, <1>1, <1>2, OrderStays DEF RunsInOrder, Start, disk
<1>. QED
  BY <1>1, <1>3, IdleStep DEF SaverInv, Start

LEMMA StopKeeps == SaverInv /\ Stop => SaverInv'
<1>. SUFFICES ASSUME SaverInv, Stop PROVE SaverInv'
  OBVIOUS
<1>1. RunsInOrder'
  BY OrderStays DEF SaverInv, RunsInOrder, Stop, disk
<1>2. run' \in 0 .. MaxRuns /\ last' \in Stamp \cup {0}
  BY DEF SaverInv, TypeInv, Stop
<1>. QED
  BY <1>1, <1>2, IdleStep DEF SaverInv, Stop

\* A group begins: its stamp is new to this run, so none of its files is of this run.
LEMMA CallbackKeeps == ASSUME SaverInv, NEW n \in Stamp, SyncCallback(n) PROVE SaverInv'
<1>0. /\ TypeInv /\ RunsInOrder /\ DepthVouches /\ Costs
      /\ Order' = Order /\ Kinds' = Kinds
      /\ up /\ run \in 0 .. MaxRuns /\ run # 0
  BY OrderStays DEF SaverInv, TypeInv, RunsInOrder, SyncCallback, Begin
<1>1. /\ n > last /\ last' = n /\ todo = <<>> /\ todo' = Order
      /\ Suffix' /\ Done' = 0 /\ todo' # <<>> /\ ~opened'
  BY SuffixEnds DEF SyncCallback, Begin
<1>2. /\ begun' \in [Stamp -> 0 .. MaxRuns] /\ begun'[n] = run
      /\ \A m \in Stamp : m # n => begun'[m] = begun[m]
      /\ excused' \in [Stamp -> SUBSET Kinds] /\ excused'[n] = {}
      /\ \A m \in Stamp : m # n => excused'[m] = excused[m]
  BY <1>0 DEF SyncCallback, Begin, TypeInv
<1>3. TypeInv'
  BY <1>0, <1>1, <1>2 DEF TypeInv, SyncCallback, Begin
<1>4. begun[n] \in Nat /\ begun[n] < run
  <2>1. begun[n] \in Nat /\ begun[n] <= run /\ (begun[n] = run => n <= last)
    BY <1>0 DEF TypeInv, RunsInOrder
  <2>2. n \in Nat /\ last \in Nat /\ n > last
    BY <1>0, <1>1 DEF TypeInv
  <2>. QED BY <1>0, <2>1, <2>2
<1>5. \A k \in Kinds : /\ file[k][n].by \in Nat /\ file[k][n].by < run
                       /\ file[k][n] # Whole(run)
  <2>1. \A k \in Kinds : file[k][n].by \in Nat /\ file[k][n].by <= begun[n]
    BY <1>0 DEF TypeInv, RunsInOrder, FileState
  <2>. QED BY <1>0, <1>4, <2>1, WholeAndPartial
<1>6. RunsInOrder'
  <2>1. file' = file /\ up' = up /\ run' = run
    BY DEF SyncCallback, Begin
  <2>2. ASSUME NEW m \in Stamp PROVE begun'[m] <= run /\ (begun'[m] = run => m <= n)
    <3>1. CASE m = n
      BY <1>0, <1>2, <3>1
    <3>2. CASE m # n
      <4>1. begun[m] <= run /\ (begun[m] = run => m <= last)
        BY <1>0 DEF RunsInOrder
      <4>2. m \in Nat /\ n \in Nat /\ last \in Nat
        BY <1>0 DEF TypeInv
      <4>. QED BY <1>1, <1>2, <3>2, <4>1, <4>2
    <3>. QED BY <3>1, <3>2
  <2>3. ASSUME NEW k \in Kinds, NEW m \in Stamp
        PROVE  file[k][m].by <= begun'[m] /\ (file[k][m].whole => file[k][m].by # 0)
    <3>1. m # n => begun'[m] = begun[m]
      BY <1>2
    <3>2. m = n => file[k][m].by <= begun'[m]
      BY <1>0, <1>2, <1>5
    <3>. QED BY <1>0, <3>1, <3>2 DEF RunsInOrder
  <2>. QED BY <1>0, <1>1, <2>1, <2>2, <2>3 DEF RunsInOrder
<1>7. InOrder'
  <2>1. \A i \in 1 .. Len(Order) : file'[Order[i]][n] # Whole(run)
    BY <1>5, OrderFacts DEF SyncCallback, Begin
  <2>2. 1 .. Done' = {} /\ Done' + 1 .. Len(Order) = 1 .. Len(Order)
    BY <1>1, OrderFacts
  <2>3. last' = n /\ run' = run
    BY DEF SyncCallback, Begin
  <2>. QED BY <1>0, <2>1, <2>2, <2>3 DEF InOrder, Whole
<1>8. DepthVouches'
  <2>1. file'["depth"][n] # Whole(begun'[n])
    BY <1>2, <1>5, OrderFacts DEF SyncCallback, Begin
  <2>2. ASSUME NEW m \in Stamp, m # n, file'["depth"][m] = Whole(begun'[m])
        PROVE  \A k \in Kinds \ excused'[m] : file'[k][m] = Whole(begun'[m])
    BY <1>0, <1>2, <2>2 DEF DepthVouches, SyncCallback, Begin
  <2>. QED BY <1>0, <2>1, <2>2 DEF DepthVouches, Whole
<1>9. Costs'
  <2>1. Bad' \subseteq Bad /\ ~Spoilt'
    BY <1>0, <1>1, <1>2 DEF Bad, Spoilt, Saved, Whole, SyncCallback, Begin
  <2>. QED BY <1>0, <2>1, CostsKept DEF TypeInv, SyncCallback, Begin
<1>. QED
  BY <1>3, <1>6, <1>7, <1>8, <1>9 DEF SaverInv

LEMMA OpenKeeps == ASSUME SaverInv, todo # <<>>, Open PROVE SaverInv'
<1>0. /\ TypeInv /\ RunsInOrder /\ InOrder /\ DepthVouches /\ Costs
      /\ Order' = Order /\ Kinds' = Kinds /\ run \in 0 .. MaxRuns /\ last \in Stamp
      /\ begun[last] = run /\ Suffix' /\ Done' = Done /\ Suffix
  BY OrderStays, SuffixStays DEF SaverInv, TypeInv, Open
<1>1. Done \in 0 .. Len(Order) - 1 /\ Head(todo) = Order[Done + 1] /\ Head(todo) \in Kinds
  BY <1>0, SuffixFacts
<1>2. /\ file' \in [Kinds -> [Stamp -> FileState]]
      /\ file'[Head(todo)][last] = Partial(run)
      /\ \A k \in Kinds, n \in Stamp : k # Head(todo) \/ n # last => file'[k][n] = file[k][n]
  BY <1>0, <1>1, FileBecomes, WholeAndPartial DEF TypeInv, Open
<1>3. TypeInv'
  BY <1>0, <1>2 DEF TypeInv, Open, Partial
<1>4. RunsInOrder'
  <2>1. ASSUME NEW k \in Kinds, NEW n \in Stamp
        PROVE  file'[k][n].by <= begun[n] /\ (file'[k][n].whole => file'[k][n].by # 0)
    <3>1. CASE k = Head(todo) /\ n = last
      BY <1>0, <1>2, <3>1, WholeAndPartial
    <3>2. CASE ~(k = Head(todo) /\ n = last)
      BY <1>0, <1>2, <3>2 DEF RunsInOrder
    <3>. QED BY <3>1, <3>2
  <2>. QED BY <1>0, <2>1 DEF RunsInOrder, Open
<1>5. \A i \in 1 .. Done : Order[i] \in excused[last] \/ file'[Order[i]][last] = Whole(run)
  <2>1. ASSUME NEW i \in 1 .. Done PROVE Order[i] # Head(todo) /\ Order[i] \in Kinds
    <3>1. i \in 1 .. Len(Order) /\ Done + 1 \in 1 .. Len(Order) /\ i # Done + 1
      BY <1>1
    <3>. QED BY <1>1, <3>1, OrderFacts
  <2>. QED BY <1>0, <1>2, <2>1 DEF InOrder
<1>6. \A i \in Done + 1 .. Len(Order) : file'[Order[i]][last] # Whole(run)
  <2>1. ASSUME NEW i \in Done + 1 .. Len(Order) PROVE Order[i] \in Kinds
    BY <1>1, <2>1, OrderFacts
  <2>. QED BY <1>0, <1>2, <2>1, WholeAndPartial DEF InOrder
<1>7. InOrder' /\ DepthVouches' /\ Bad' \subseteq Bad
  BY <1>0, <1>1, <1>2, <1>5, <1>6, GroupStep DEF Open
<1>8. Costs'
  <2>1. Spoilt' => Spoilt
    BY DEF Spoilt, Open
  <2>. QED BY <1>0, <1>7, <2>1, CostsKept DEF TypeInv, Open
<1>. QED
  BY <1>3, <1>4, <1>7, <1>8 DEF SaverInv

LEMMA CloseKeeps == ASSUME SaverInv, todo # <<>>, Close PROVE SaverInv'
<1>0. /\ TypeInv /\ RunsInOrder /\ InOrder /\ DepthVouches /\ Costs
      /\ Order' = Order /\ Kinds' = Kinds /\ run \in 0 .. MaxRuns /\ run # 0 /\ last \in Stamp
      /\ begun[last] = run /\ Suffix
  BY OrderStays DEF SaverInv, TypeInv, RunsInOrder, Close
<1>1. Done \in 0 .. Len(Order) - 1 /\ Head(todo) = Order[Done + 1] /\ Head(todo) \in Kinds
  BY <1>0, SuffixFacts
<1>2. /\ Suffix' /\ Done' = Done + 1
      /\ todo' # <<>> => Done + 1 < Len(Order)
      /\ todo' = <<>> => Done' = Len(Order)
  BY <1>0, SuffixTail DEF Close
<1>3. /\ file' \in [Kinds -> [Stamp -> FileState]]
      /\ file'[Head(todo)][last] = Whole(run)
      /\ \A k \in Kinds, n \in Stamp : k # Head(todo) \/ n # last => file'[k][n] = file[k][n]
  BY <1>0, <1>1, FileBecomes, WholeAndPartial DEF TypeInv, Close
<1>4. TypeInv'
  BY <1>0, <1>2, <1>3 DEF TypeInv, Close
<1>5. RunsInOrder'
  <2>1. ASSUME NEW k \in Kinds, NEW n \in Stamp
        PROVE  file'[k][n].by <= begun[n] /\ (file'[k][n].whole => file'[k][n].by # 0)
    <3>1. CASE k = Head(todo) /\ n = last
      BY <1>0, <1>3, <3>1, WholeAndPartial
    <3>2. CASE ~(k = Head(todo) /\ n = last)
      BY <1>0, <1>3, <3>2 DEF RunsInOrder
    <3>. QED BY <3>1, <3>2
  <2>. QED BY <1>0, <2>1 DEF RunsInOrder, Close
<1>6. \A i \in 1 .. Done + 1 : Order[i] \in excused[last] \/ file'[Order[i]][last] = Whole(run)
  <2>1. ASSUME NEW i \in 1 .. Done
        PROVE  Order[i] \in excused[last] \/ file'[Order[i]][last] = Whole(run)
    <3>0. i \in 1 .. Len(Order) /\ Done + 1 \in 1 .. Len(Order) /\ i # Done + 1
      BY <1>1
    <3>1. Order[i] # Head(todo) /\ Order[i] \in Kinds
      BY <1>1, <3>0, OrderFacts
    <3>. QED BY <1>0, <1>3, <3>1 DEF InOrder
  <2>. QED BY <1>1, <1>3, <2>1
<1>7. \A i \in Done + 2 .. Len(Order) : file'[Order[i]][last] # Whole(run)
  <2>1. ASSUME NEW i \in Done + 2 .. Len(Order) PROVE file'[Order[i]][last] # Whole(run)
    <3>0. i \in 1 .. Len(Order) /\ Done + 1 \in 1 .. Len(Order) /\ i # Done + 1
      BY <1>1
    <3>1. Order[i] # Head(todo) /\ Order[i] \in Kinds /\ i \in Done + 1 .. Len(Order)
      BY <1>1, <3>0, OrderFacts
    <3>. QED BY <1>0, <1>3, <3>1 DEF InOrder
  <2>. QED BY <2>1
<1>8. /\ InOrder' /\ DepthVouches' /\ Bad' \subseteq Bad \cup {last}
      /\ todo' # <<>> \/ excused'[last] = {} => Bad' \subseteq Bad
  <2>1. Done' + 1 = Done + 2 /\ (todo' # <<>> => Done' \in 0 .. Len(Order) - 1)
    BY <1>1, <1>2
  <2>. QED BY <1>0, <1>2, <1>3, <1>6, <1>7, <2>1, GroupStep DEF Close
<1>9. Costs'
  <2>1. CASE todo' # <<>> \/ excused'[last] = {}
    <3>1. Spoilt' => Spoilt
      BY DEF Spoilt, Close
    <3>. QED BY <1>0, <1>8, <2>1, <3>1, CostsKept DEF TypeInv, Close
  <2>2. CASE todo' = <<>> /\ excused'[last] # {}
    <3>1. ~Spoilt' /\ Spoilt /\ faults' = faults
      BY <2>2 DEF Spoilt, Close
    <3>2. faults \in Nat
      BY <1>0 DEF TypeInv
    <3>. QED BY <1>0, <1>8, <3>1, <3>2, CostsGrow
  <2>. QED BY <2>1, <2>2
<1>. QED
  BY <1>4, <1>5, <1>8, <1>9 DEF SaverInv

\* A fault that the callback survives: it goes on after the files that failed.
LEMMA GoOnKeeps ==
  ASSUME SaverInv, todo # <<>>, Fault,
         NEW failed \in SUBSET Kinds, NEW rest, GoOn(failed, rest),
         Suffix', Done' \in Done .. Len(Order),
         todo' # <<>> => Done' < Len(Order),
         todo' = <<>> => Done' = Len(Order),
         \A i \in Done + 1 .. Done' : Order[i] \in failed
  PROVE  SaverInv'
<1>0. /\ TypeInv /\ RunsInOrder /\ InOrder /\ DepthVouches /\ Costs
      /\ Order' = Order /\ Kinds' = Kinds /\ run \in 0 .. MaxRuns /\ last \in Stamp
      /\ begun[last] = run /\ Suffix /\ faults \in Nat /\ faults' = faults + 1
      /\ faults' \in 0 .. MaxFaults
      /\ UNCHANGED <<save_pcd, up, run, last, file, begun>>
  BY OrderStays DEF SaverInv, TypeInv, GoOn, Fault
<1>1. Done \in 0 .. Len(Order) - 1 /\ Len(Order) \in Nat
  BY <1>0, SuffixFacts, OrderFacts
<1>2. /\ excused' \in [Stamp -> SUBSET Kinds] /\ excused'[last] = excused[last] \cup failed
      /\ \A n \in Stamp \ {last} : excused'[n] = excused[n]
  BY <1>0 DEF TypeInv, GoOn
<1>3. TypeInv'
  <2>1. opened' = FALSE
    BY DEF GoOn
  <2>2. todo' # <<>> => up' /\ last' \in Stamp /\ begun'[last'] = run'
    BY <1>0 DEF TypeInv
  <2>. QED BY <1>0, <1>2, <2>1, <2>2 DEF TypeInv
<1>4. RunsInOrder'
  BY <1>0 DEF RunsInOrder
<1>5. ASSUME NEW i \in 1 .. Done'
      PROVE  Order[i] \in excused'[last] \/ file'[Order[i]][last] = Whole(run)
  <2>1. CASE i \in 1 .. Done
    BY <1>0, <1>2, <2>1 DEF InOrder
  <2>2. CASE i \in Done + 1 .. Done'
    BY <1>2, <2>2
  <2>. QED BY <1>1, <2>1, <2>2
<1>6. ASSUME NEW i \in Done' + 1 .. Len(Order) PROVE file'[Order[i]][last] # Whole(run)
  <2>1. Done' \in Int /\ Done \in Int /\ Done <= Done' /\ Len(Order) \in Int
    BY <1>1
  <2>2. \A d, e, n \in Int : \A j \in e + 1 .. n : d <= e => j \in d + 1 .. n
    OBVIOUS
  <2>3. i \in Done + 1 .. Len(Order)
    BY <2>1, <2>2
  <2>. QED BY <1>0, <2>3 DEF InOrder
<1>7. InOrder' /\ DepthVouches' /\ Bad' \subseteq Bad \cup {last} /\ (todo' # <<>> => Bad' \subseteq Bad)
  <2>1. todo' # <<>> => Done' \in 0 .. Len(Order) - 1
    BY <1>1
  <2>. QED BY <1>0, <1>2, <1>5, <1>6, <2>1, GroupStep
<1>8. Costs'
  <2>1. CASE todo' # <<>>
    BY <1>0, <1>7, <2>1, CostsKept
  <2>2. CASE todo' = <<>>
    <3>1. ~Spoilt'
      BY <2>2 DEF Spoilt
    <3>. QED BY <1>0, <1>7, <3>1, CostsGrow
  <2>. QED BY <2>1, <2>2
<1>. QED
  BY <1>3, <1>4, <1>7, <1>8 DEF SaverInv

LEMMA SkipImagesKeeps == ASSUME SaverInv, SkipImages PROVE SaverInv'
<1>. DEFINE failed == {"image", "image_undistorted"}
<1>0. /\ Suffix /\ todo # <<>> /\ Fault /\ Head(todo) = "image" /\ UNCHANGED save_pcd
      /\ todo' = Tail(Tail(todo)) /\ GoOn(failed, Tail(Tail(todo)))
  BY DEF SaverInv, TypeInv, SkipImages, GoOn
<1>1. /\ Done \in 0 .. Len(Order) - 1 /\ Done + 1 \in 1 .. Len(Order)
      /\ Order[Done + 1] = "image" /\ "image" \in Kinds /\ Len(Order) \in Nat
  BY <1>0, SuffixFacts, OrderFacts
<1>2. /\ Done + 2 \in 1 .. Len(Order)
      /\ Order[Done + 2] = "image_undistorted" /\ "image_undistorted" \in Kinds
  <2>1. (Done + 1) + 1 = Done + 2
    BY <1>1
  <2>. QED BY <1>1, <2>1, OrderFacts
<1>3. /\ todo \in Seq(Kinds) /\ Len(todo) = Len(Order) - Done
      /\ \A j \in 1 .. Len(todo) : todo[j] = Order[Done + j]
  <2>1. todo \in Seq(Kinds) /\ Len(todo) \in Nat /\ \A j \in 1 .. Len(todo) : todo[j] = Order[Done + j]
    BY <1>0 DEF Suffix
  <2>. QED BY <1>1, <2>1 DEF Done
<1>4. /\ Tail(todo) \in Seq(Kinds) /\ Len(Tail(todo)) = Len(todo) - 1
      /\ \A j \in 1 .. Len(Tail(todo)) : Tail(todo)[j] = todo[j + 1]
  BY <1>0, <1>3, HeadTailProperties
<1>5. Tail(todo) # <<>>
  <2>1. Len(Tail(todo)) # 0
    BY <1>1, <1>2, <1>3, <1>4
  <2>2. Len(<<>>) = 0
    OBVIOUS
  <2>. QED BY <2>1, <2>2
<1>6. /\ todo' \in Seq(Kinds) /\ Len(todo') = Len(todo) - 2
      /\ \A j \in 1 .. Len(todo') : todo'[j] = Tail(todo)[j + 1]
  <2>1. /\ Tail(Tail(todo)) \in Seq(Kinds) /\ Len(Tail(Tail(todo))) = Len(Tail(todo)) - 1
        /\ \A j \in 1 .. Len(Tail(Tail(todo))) : Tail(Tail(todo))[j] = Tail(todo)[j + 1]
    BY <1>4, <1>5, HeadTailProperties
  <2>. QED BY <1>0, <1>1, <1>3, <1>4, <2>1
<1>7. Done' = Done + 2
  <2>1. Done' = Len(Order) - Len(todo')
    BY <1>0, OrderStays DEF Done
  <2>. QED BY <1>1, <1>3, <1>6, <2>1
<1>8. ASSUME NEW j \in 1 .. Len(todo') PROVE todo'[j] = Order[Done + 2 + j]
  <2>1. /\ j + 1 \in 1 .. Len(Tail(todo)) /\ (j + 1) + 1 = j + 2 /\ j + 2 \in 1 .. Len(todo)
        /\ Done + (j + 2) = Done + 2 + j
    BY <1>1, <1>3, <1>4, <1>6
  <2>. QED BY <1>3, <1>4, <1>6, <2>1
<1>9. Suffix'
  <2>1. Order' = Order /\ Kinds' = Kinds
    BY <1>0, OrderStays
  <2>2. Len(todo') <= Len(Order)
    BY <1>1, <1>3, <1>6
  <2>3. \A j \in 1 .. Len(todo') : todo'[j] = Order[Done' + j]
    BY <1>7, <1>8
  <2>4. todo' \in Seq(Kinds)
    BY <1>6
  <2>. QED BY <2>1, <2>2, <2>3, <2>4 DEF Suffix
<1>10. todo' = <<>> <=> Done' = Len(Order)
  <2>1. todo' = <<>> <=> Len(todo') = 0
    BY <1>6, EmptySeq
  <2>. QED BY <1>1, <1>3, <1>6, <1>7, <2>1
<1>11. /\ Done' \in Done .. Len(Order) /\ \A i \in Done + 1 .. Done' : i = Done + 1 \/ i = Done + 2
       /\ Done' # Len(Order) => Done' < Len(Order)
  BY <1>1, <1>2, <1>7
<1>12. \A i \in Done + 1 .. Done' : Order[i] \in failed
  BY <1>1, <1>2, <1>11
<1>13. failed \in SUBSET Kinds
  BY <1>1, <1>2
<1>. HIDE DEF failed
<1>. QED
  BY <1>0, <1>9, <1>10, <1>11, <1>12, <1>13, GoOnKeeps

LEMMA SkipOneKeeps == ASSUME SaverInv, SkipFile \/ CutShort PROVE SaverInv'
<1>0. /\ Suffix /\ todo # <<>> /\ Fault /\ UNCHANGED save_pcd
      /\ todo' = Tail(todo) /\ GoOn({Head(todo)}, Tail(todo))
  BY DEF SaverInv, TypeInv, SkipFile, CutShort, GoOn
<1>1. /\ Done \in 0 .. Len(Order) - 1 /\ Head(todo) = Order[Done + 1] /\ Head(todo) \in Kinds
      /\ Len(Order) \in Nat
  BY <1>0, SuffixFacts, OrderFacts
<1>2. /\ Suffix' /\ Done' = Done + 1
      /\ todo' # <<>> => Done + 1 < Len(Order)
      /\ todo' = <<>> => Done' = Len(Order)
  BY <1>0, SuffixTail
<1>3. Done' \in Done .. Len(Order) /\ \A i \in Done + 1 .. Done' : i = Done + 1
  BY <1>1, <1>2
<1>4. {Head(todo)} \in SUBSET Kinds /\ \A i \in Done + 1 .. Done' : Order[i] \in {Head(todo)}
  BY <1>1, <1>3
<1>. QED
  BY <1>0, <1>2, <1>3, <1>4, GoOnKeeps

\* The process ends inside a group or between two: the depth image of the group is not
\* written yet.
LEMMA CrashKeeps == ASSUME SaverInv, Crash PROVE SaverInv'
<1>0. /\ TypeInv /\ RunsInOrder /\ InOrder /\ DepthVouches /\ Costs
      /\ Order' = Order /\ Kinds' = Kinds /\ Suffix'
      /\ faults \in Nat /\ faults' = faults + 1 /\ faults' \in 0 .. MaxFaults
      /\ UNCHANGED <<save_pcd, run, last, file, begun, excused>> /\ up' = FALSE /\ opened' = FALSE
      /\ todo' = <<>>
  BY OrderStays, SuffixEnds DEF SaverInv, TypeInv, Crash, Fault, disk
<1>1. TypeInv'
  BY <1>0 DEF TypeInv
<1>2. RunsInOrder'
  BY <1>0 DEF RunsInOrder
<1>3. InOrder' /\ DepthVouches'
  BY <1>0 DEF InOrder, DepthVouches, Whole
<1>4. Bad' \subseteq Bad \cup {last}
  BY <1>0 DEF Bad, Saved, Whole
<1>5. ~Spoilt'
  BY <1>0 DEF Spoilt
<1>6. Costs'
  BY <1>0, <1>4, <1>5, CostsGrow
<1>. QED
  BY <1>1, <1>2, <1>3, <1>6 DEF SaverInv

-------------------------------------------------------------------------------
(***************************************************************************)
(* The theorems.                                                           *)
(***************************************************************************)

LEMMA SaverInit == Init => SaverInv
<1>. SUFFICES ASSUME Init PROVE SaverInv
  OBVIOUS
<1>0. /\ todo = <<>> /\ \A n \in Stamp : begun[n] = 0
      /\ \A k \in Kinds, n \in Stamp : file[k][n] = Partial(0)
  BY DEF Init, Absent
<1>1. Suffix
  <2>1. Len(<<>>) = 0 /\ <<>> \in Seq(Kinds)
    OBVIOUS
  <2>. QED BY <1>0, <2>1, OrderFacts DEF Suffix
<1>2. TypeInv
  <2>1. Absent \in FileState
    BY DEF Absent, Partial, FileState
  <2>2. file \in [Kinds -> [Stamp -> FileState]]
    BY <2>1 DEF Init
  <2>3. begun \in [Stamp -> 0 .. MaxRuns] /\ excused \in [Stamp -> SUBSET Kinds]
    BY DEF Init
  <2>4. run \in 0 .. MaxRuns /\ faults \in 0 .. MaxFaults /\ last \in Stamp \cup {0}
    BY DEF Init
  <2>5. save_pcd \in BOOLEAN /\ up = FALSE /\ opened = FALSE
    BY DEF Init
  <2>. QED BY <1>0, <1>1, <2>2, <2>3, <2>4, <2>5 DEF TypeInv
<1>3. RunsInOrder
  BY <1>0 DEF RunsInOrder, Init, Partial
<1>4. InOrder
  BY <1>0 DEF InOrder
<1>5. DepthVouches
  <2>1. "depth" \in Kinds
    BY OrderFacts
  <2>. QED BY <1>0, <2>1 DEF DepthVouches, Partial, Whole
<1>6. Costs
  <2>1. Bad = {} /\ ~Spoilt
    BY <1>0 DEF Bad, Spoilt
  <2>. QED BY <2>1, FS_EmptySet DEF Costs, Init
<1>. QED
  BY <1>2, <1>3, <1>4, <1>5, <1>6 DEF SaverInv

LEMMA SaverStep == SaverInv /\ [Next]_vars => SaverInv'
<1>. SUFFICES ASSUME SaverInv, [Next]_vars PROVE SaverInv'
  OBVIOUS
<1>1. CASE UNCHANGED vars
  <2>1. /\ Order' = Order /\ Kinds' = Kinds /\ Suffix' /\ Done' = Done
        /\ UNCHANGED <<save_pcd, up, run, last, todo, opened, file, begun, excused, faults>>
    BY <1>1, OrderStays, SuffixStays DEF SaverInv, TypeInv, vars, process, disk
  <2>2. Bad' = Bad /\ Spoilt' = Spoilt
    BY <2>1 DEF Bad, Spoilt, Saved, Whole
  <2>3. TypeInv' /\ RunsInOrder'
    BY <2>1 DEF SaverInv, TypeInv, RunsInOrder, Partial
  <2>4. InOrder' /\ DepthVouches'
    BY <2>1 DEF SaverInv, InOrder, DepthVouches, Whole
  <2>5. Costs'
    BY <2>1, <2>2 DEF SaverInv, Costs
  <2>. QED BY <2>3, <2>4, <2>5 DEF SaverInv
<1>. QED
  BY <1>1, StartKeeps, StopKeeps, CallbackKeeps, OpenKeeps, CloseKeeps, SkipImagesKeeps, SkipOneKeeps,
     CrashKeeps DEF Next, Save

LEMMA Saver == Spec => []SaverInv
BY SaverInit, SaverStep, PTL DEF Spec

\* Every variable keeps its type, and the callback is in the middle of a group of this
\* run exactly while it has files left to write, the open one being the next.
THEOREM TypeCorrect == Spec => []TypeOK
<1>1. Suffix => \E i \in 0 .. Len(Order) : todo = SubSeq(Order, i + 1, Len(Order))
  <2>. SUFFICES ASSUME Suffix PROVE \E i \in 0 .. Len(Order) : todo = SubSeq(Order, i + 1, Len(Order))
    OBVIOUS
  <2>. DEFINE rest == SubSeq(Order, Done + 1, Len(Order))
  <2>1. /\ todo \in Seq(Kinds) /\ Len(todo) \in Nat /\ Len(Order) \in Nat
        /\ Len(todo) = Len(Order) - Done /\ Done \in 0 .. Len(Order)
        /\ \A j \in 1 .. Len(todo) : todo[j] = Order[Done + j]
    BY OrderFacts DEF Suffix, Done
  <2>2. \A j \in Done + 1 .. Len(Order) : Order[j] \in Kinds
    BY <2>1, OrderFacts
  <2>3. /\ rest \in Seq(Kinds)
        /\ Len(rest) = IF Done + 1 <= Len(Order) THEN Len(Order) - (Done + 1) + 1 ELSE 0
        /\ \A j \in 1 .. Len(Order) - (Done + 1) + 1 : rest[j] = Order[(Done + 1) + j - 1]
    BY <2>1, <2>2, SubSeqProperties
  <2>. HIDE DEF rest
  <2>4. Len(rest) = Len(todo)
    BY <2>1, <2>3
  <2>5. ASSUME NEW j \in 1 .. Len(todo) PROVE todo[j] = rest[j]
    <3>1. j \in 1 .. Len(Order) - (Done + 1) + 1 /\ (Done + 1) + j - 1 = Done + j
      BY <2>1
    <3>. QED BY <2>1, <2>3, <3>1
  <2>6. todo = rest
    BY <2>1, <2>3, <2>4, <2>5, SeqEqual
  <2>. QED BY <2>1, <2>6 DEF rest
<1>2. SaverInv => TypeOK
  BY <1>1 DEF SaverInv, TypeInv, TypeOK, FileState
<1>. QED
  BY <1>2, Saver, PTL

\* A whole depth image of the last run that began a group vouches for the group,
\* whatever failed in which run, and whenever the node was killed.
THEOREM DepthImageVouches == Spec => []DepthVouches
<1>1. SaverInv => DepthVouches
  BY DEF SaverInv
<1>. QED
  BY <1>1, Saver, PTL

\* There are never more spoilt groups than there were faults.
THEOREM FaultsAreContained == Spec => []FaultCostsOneGroup
<1>1. SaverInv => FaultCostsOneGroup
  <2>. SUFFICES ASSUME SaverInv PROVE FaultCostsOneGroup
    OBVIOUS
  <2>1. Cardinality(Bad) \in Nat /\ faults \in Nat
        /\ Cardinality(Bad) + (IF Spoilt THEN 1 ELSE 0) <= faults
    BY FS_CardinalityType DEF SaverInv, TypeInv, Costs
  <2>2. Cardinality(Bad) <= faults
    BY <2>1
  <2>. QED BY <2>2 DEF Bad, FaultCostsOneGroup
<1>. QED
  BY <1>1, Saver, PTL
==============================================================================
