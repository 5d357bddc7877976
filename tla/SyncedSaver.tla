----------------------------- MODULE SyncedSaver -----------------------------
(***************************************************************************)
(* The node that saves synchronised messages (rrc_data, save_synced_data): *)
(* for each group of messages it matches, one callback writes one by one   *)
(* seven or eight files, all named by one time stamp.                      *)
(*                                                                         *)
(* message_filters is not part of the repository: it uses a message at most*)
(* once, so that the stamps of one run of the node grow.  A bag that is    *)
(* played again into the same directory brings the same stamps, perhaps    *)
(* matched with other messages: what a file holds is told apart by the run *)
(* that wrote it.                                                          *)
(***************************************************************************)
EXTENDS Naturals, Sequences, FiniteSets

CONSTANTS Stamp,      \* the time stamps of the bag
          MaxRuns,    \* bound: starts of the node
          MaxFaults   \* bound: failed writes, exceptions and crashes

ASSUME SaverAssumption ==
  /\ Stamp \subseteq Nat \ {0}
  /\ MaxRuns \in Nat
  /\ MaxFaults \in Nat

VARIABLES
  save_pcd,   \* the parameter save_pcd_
  up,         \* whether the node is running
  run,        \* which run of the node this is, or was
  last,       \* the stamp of the last group of this run
  todo,       \* files the callback has still to write, the first one being next
  opened,     \* whether the first one is open
  file,       \* the file of each kind and stamp
  begun,      \* the last run that began to save each stamp
  excused,    \* files of each stamp that failed in that run
  faults      \* failed writes, exceptions and crashes so far

process == <<up, run, last, todo, opened>>
disk == <<file, begun, excused>>
vars == <<save_pcd, process, disk, faults>>

Images == <<"image", "image_undistorted">>

\* Broken: the depth image is not the last file.
CommonDepthEarly ==
  Images \o <<"pose", "pose_lidar", "depth", "calibration", "discoeff">>

Common == Images \o <<"pose", "pose_lidar", "calibration", "discoeff", "depth">>

\* The files of a group in the order in which they are written.
Order == IF save_pcd THEN <<"pcd">> \o Common ELSE Common
Kinds == {Order[i] : i \in DOMAIN Order}

Whole(r) == [by |-> r, whole |-> TRUE]
Partial(r) == [by |-> r, whole |-> FALSE]
Absent == Partial(0)

Init ==
  /\ save_pcd \in BOOLEAN
  /\ up = FALSE
  /\ run = 0
  /\ last = 0
  /\ todo = <<>>
  /\ opened = FALSE
  /\ file = [k \in Kinds |-> [n \in Stamp |-> Absent]]
  /\ begun = [n \in Stamp |-> 0]
  /\ excused = [n \in Stamp |-> {}]
  /\ faults = 0

-------------------------------------------------------------------------------
\* The directories may be there already, with what earlier runs left in them.
Start ==
  /\ ~up
  /\ run < MaxRuns
  /\ up' = TRUE
  /\ run' = run + 1
  /\ last' = 0
  /\ UNCHANGED <<save_pcd, todo, opened, disk, faults>>

\* The node is asked to stop: spin returns once the callback has ended.
Stop ==
  /\ up
  /\ todo = <<>>
  /\ up' = FALSE
  /\ UNCHANGED <<save_pcd, run, last, todo, opened, disk, faults>>

Begin(n) ==
  /\ last' = n
  /\ todo' = Order
  /\ opened' = FALSE
  /\ begun' = [begun EXCEPT ![n] = run]
  /\ excused' = [excused EXCEPT ![n] = {}]
  /\ UNCHANGED <<save_pcd, up, run, file, faults>>

\* Broken: a second thread of the executor takes the next group.
SyncCallbackAnyTime(n) == up /\ n > last /\ Begin(n)

\* The stamp is that of the point cloud, or of the image when no cloud is saved.
SyncCallback(n) == up /\ n > last /\ todo = <<>> /\ Begin(n)

\* Broken: what exists is not written again.
OpenIfAbsent ==
  /\ ~opened
  /\ IF file[Head(todo)][last] = Absent
     THEN /\ opened' = TRUE
          /\ todo' = todo
          /\ file' = [file EXCEPT ![Head(todo)][last] = Partial(run)]
     ELSE /\ todo' = Tail(todo)
          /\ UNCHANGED <<opened, file>>
  /\ UNCHANGED <<save_pcd, up, run, last, begun, excused, faults>>

\* Every writer truncates the file under its name.
Open ==
  /\ ~opened
  /\ opened' = TRUE
  /\ file' = [file EXCEPT ![Head(todo)][last] = Partial(run)]
  /\ UNCHANGED <<save_pcd, up, run, last, todo, begun, excused, faults>>

Close ==
  /\ opened
  /\ opened' = FALSE
  /\ todo' = Tail(todo)
  /\ file' = [file EXCEPT ![Head(todo)][last] = Whole(run)]
  /\ UNCHANGED <<save_pcd, up, run, last, begun, excused, faults>>

Save == todo # <<>> /\ up /\ (Open \/ Close)

-------------------------------------------------------------------------------
(***************************************************************************)
(* What goes wrong and is noticed by nobody but the log.                   *)
(***************************************************************************)

Fault == faults < MaxFaults /\ faults' = faults + 1

\* Broken: the stream of the file before stays open.
GoOnStillOpen(failed, rest) ==
  /\ todo' = rest
  /\ excused' = [excused EXCEPT ![last] = @ \cup failed]
  /\ UNCHANGED <<save_pcd, up, run, last, opened, file, begun>>

GoOn(failed, rest) ==
  /\ todo' = rest
  /\ opened' = FALSE
  /\ excused' = [excused EXCEPT ![last] = @ \cup failed]
  /\ UNCHANGED <<save_pcd, up, run, last, file, begun>>

\* The image has an encoding that cannot be converted: the exception is caught
\* and both images are left out.
SkipImages ==
  /\ Fault
  /\ todo # <<>> /\ Head(todo) = "image" /\ ~opened
  /\ GoOn({"image", "image_undistorted"}, Tail(Tail(todo)))

\* A depth image that cannot be converted, a stream that does not open or an
\* imwrite that returns false: what an earlier run wrote stays.
SkipFile ==
  /\ Fault
  /\ todo # <<>> /\ Head(todo) # "pcd" /\ ~opened
  /\ GoOn({Head(todo)}, Tail(todo))

\* The disk is full: neither the streams nor imwrite are asked whether they wrote.
CutShort ==
  /\ Fault
  /\ todo # <<>> /\ Head(todo) # "pcd" /\ opened
  /\ GoOn({Head(todo)}, Tail(todo))

\* The process is killed, or an exception that nobody catches ends it:
\* savePCDFileBinary (no file, no room) and cv::undistort throw some.
Crash ==
  /\ Fault
  /\ up
  /\ up' = FALSE
  /\ todo' = <<>>
  /\ opened' = FALSE
  /\ UNCHANGED <<save_pcd, run, last, disk>>

-------------------------------------------------------------------------------
Next ==
  \/ Start \/ Stop
  \/ \E n \in Stamp : SyncCallback(n)
  \/ Save
  \/ SkipImages \/ SkipFile \/ CutShort \/ Crash

Spec == Init /\ [][Next]_vars

\* A callback that has begun goes on.  Nothing makes messages match or faults come.
FairSpec == Spec /\ WF_vars(Save)

-------------------------------------------------------------------------------
(***************************************************************************)
(* Properties.                                                             *)
(***************************************************************************)

\* Every variable stays in its domain; the callback is in a group of this run, with
\* files left to write, exactly while the node is in the middle of one.
TypeOK ==
  /\ save_pcd \in BOOLEAN /\ up \in BOOLEAN /\ opened \in BOOLEAN
  /\ run \in 0 .. MaxRuns
  /\ last \in Stamp \cup {0}
  /\ \E i \in 0 .. Len(Order) : todo = SubSeq(Order, i + 1, Len(Order))
  /\ todo # <<>> => up /\ begun[last] = run
  /\ opened => todo # <<>> /\ file[Head(todo)][last] = Partial(run)
  /\ file \in [Kinds -> [Stamp -> [by : 0 .. MaxRuns, whole : BOOLEAN]]]
  /\ begun \in [Stamp -> 0 .. MaxRuns]
  /\ excused \in [Stamp -> SUBSET Kinds]
  /\ faults \in 0 .. MaxFaults

Saved(n) == \A k \in Kinds : file[k][n] = Whole(begun[n])

\* Who looks through the directories can tell by the depth image, the last file of
\* a group, that the group is complete: if the depth image is whole and of the last
\* run that saved this stamp, so is every other file, but for those whose write failed.
DepthVouches == \A n \in Stamp :
  file["depth"][n] = Whole(begun[n]) =>
    \A k \in Kinds \ excused[n] : file[k][n] = Whole(begun[n])

\* Whatever fails, and whenever the node is killed in the middle of a group, costs
\* that group only: no other stamp is left with missing, cut or mixed files.
FaultCostsOneGroup ==
  Cardinality({n \in Stamp : /\ begun[n] # 0
                             /\ ~(todo # <<>> /\ last = n)
                             /\ ~Saved(n)}) <= faults

\* Whatever earlier runs left under a stamp, a run that saves it without a fault
\* makes it a complete group of its own: a bag played again repairs the directory.
RerunRepairs == \A n \in Stamp :
  (todo = Order /\ last = n /\ faults = MaxFaults) ~> Saved(n)
==============================================================================
