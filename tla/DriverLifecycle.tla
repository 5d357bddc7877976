---------------------------- MODULE DriverLifecycle ----------------------------
(***************************************************************************)
(* From the construction of a DriverNode to the end of its process: the    *)
(* order in which the node, the two static objects (LdsLidar and the       *)
(* PubHandler) and the SDK come up and go down, while the threads of the   *)
(* SDK, the point process thread and the two poll threads already or still *)
(* run.  What they exchange is reduced to what that order can spoil: which *)
(* lidar's data reach which device slot, and whether the threads stop.     *)
(* PointHandoff and ImuHandoff have the detail of the wake-ups.            *)
(***************************************************************************)
EXTENDS CacheIndex, Sequences

CONSTANTS Configured,  \* the lidars of the user's config file
          MaxRaw       \* bound: packets in raw_packet_queue_

ASSUME LifecycleAssumption == Handle # {} /\ Configured \subseteq Handle /\ MaxRaw \in Nat

Poll == {"pcd", "imu"}   \* the two poll threads, and their semaphores
Anyone == CHOOSE h \in Handle : TRUE   \* the lidar of a thread that has none

VARIABLES
  main,          \* thread of the node: its place, config entries to do, handle
  initialized,   \* LdsLidar::is_initialized_
  sdk,           \* SDK: initialised, has an info change callback, an observer
  info,          \* SDK's thread in LidarInfoChangeCallback: place and handle
  imu_callback,  \* PubHandler::imu_callback_ is set
  raw,           \* raw_packet_queue_: the lidar of each packet
  proc,          \* point process thread: place and lidar of its packet
  is_quit,       \* PubHandler::is_quit_
  stored,        \* the lidars whose data each device slot has received
  count,         \* pcd_semaphore_ and imu_semaphore_
  poll,          \* place of each poll thread
  request_exit   \* Lds::request_exit_

pubVars == <<imu_callback, raw, proc, is_quit>>
ldsVars == <<stored, count, request_exit>>
vars == <<cacheVars, main, initialized, sdk, info, pubVars, ldsVars, poll>>

InfoIdle == [pc |-> "idle", at |-> Anyone]

Init ==
  /\ CacheInit
  /\ main = [pc |-> "summary", todo |-> {}, at |-> Anyone]
  /\ initialized = FALSE
  /\ sdk = [up |-> FALSE, info_cb |-> FALSE, observer |-> FALSE]
  /\ info = InfoIdle
  /\ imu_callback = FALSE
  /\ raw = << >>
  /\ proc = [pc |-> "none", at |-> Anyone]
  /\ is_quit = FALSE
  /\ stored = [i \in Slots |-> {}]
  /\ count = [p \in Poll |-> 0]
  /\ poll = [p \in Poll |-> "none"]
  /\ request_exit = FALSE

-------------------------------------------------------------------------------
(***************************************************************************)
(* DriverNode::DriverNode.                                                 *)
(***************************************************************************)

MainTo(pc) == main' = [main EXCEPT !.pc = pc]

\* The file gives a lidar_type of Livox, or another (no SDK then, but the rest),
\* or none.  The node goes on, poll threads and all, when InitLdsLidar fails.
ParseSummaryConfig ==
  /\ main.pc = "summary"
  /\ \E pc \in {"parse", "observer", "threads"} : MainTo(pc)
  /\ UNCHANGED <<cacheVars, initialized, sdk, info, pubVars, ldsVars, poll>>

ParseConfig ==
  /\ main.pc = "parse"
  /\ \E todo \in {Configured, {}} : main' = [main EXCEPT !.pc = "sdk", !.todo = todo]
  /\ UNCHANGED <<cacheVars, initialized, sdk, info, pubVars, ldsVars, poll>>

SdkInit ==
  /\ main.pc = "sdk"
  /\ \/ MainTo("fill") /\ sdk' = [sdk EXCEPT !.up = TRUE]
     \/ MainTo("threads") /\ sdk' = sdk
  /\ UNCHANGED <<cacheVars, initialized, info, pubVars, ldsVars, poll>>

FillFind(h) ==
  /\ main.pc = "fill"
  /\ h \in main.todo
  /\ main' = IF Has(h) THEN [main EXCEPT !.todo = @ \ {h}]
                       ELSE [pc |-> "insert", todo |-> main.todo \ {h}, at |-> h]
  /\ UNCHANGED <<cacheVars, initialized, sdk, info, pubVars, ldsVars, poll>>

FillInsert ==
  /\ main.pc = "insert"
  /\ Insert(main.at)
  /\ main' = [main EXCEPT !.pc = "fill", !.at = Anyone]
  /\ UNCHANGED <<initialized, sdk, info, pubVars, ldsVars, poll>>

\* Broken: lidars are reported before the config's lidars have their slots.
SetInfoCallbackEarly ==
  /\ main.pc = "fill"
  /\ IF main.todo = {} THEN MainTo("observer") ELSE MainTo("fill")
  /\ sdk' = [sdk EXCEPT !.info_cb = TRUE]
  /\ UNCHANGED <<cacheVars, initialized, info, pubVars, ldsVars, poll>>

SetInfoCallback ==
  /\ main.pc = "fill"
  /\ main.todo = {}
  /\ MainTo("observer")
  /\ sdk' = [sdk EXCEPT !.info_cb = TRUE]
  /\ UNCHANGED <<cacheVars, initialized, info, pubVars, ldsVars, poll>>

SetPointCloudsCallback ==
  /\ main.pc = "observer"
  /\ MainTo("imu")
  /\ sdk' = [sdk EXCEPT !.observer = TRUE]
  /\ UNCHANGED <<cacheVars, initialized, info, pubVars, ldsVars, poll>>

SetImuDataCallback ==
  /\ main.pc = "imu"
  /\ MainTo("process")
  /\ imu_callback' = TRUE
  /\ UNCHANGED <<cacheVars, initialized, sdk, info, raw, proc, is_quit, ldsVars, poll>>

SetPointCloudConfig ==
  /\ main.pc = "process"
  /\ MainTo("threads")
  /\ proc' = [proc EXCEPT !.pc = "check"]
  /\ initialized' = TRUE
  /\ UNCHANGED <<cacheVars, sdk, info, imu_callback, raw, is_quit, ldsVars, poll>>

StartPollThreads ==
  /\ main.pc = "threads"
  /\ MainTo("run")
  /\ poll' = [p \in Poll |-> "start"]
  /\ UNCHANGED <<cacheVars, initialized, sdk, info, pubVars, ldsVars>>

Construct ==
  \/ ParseSummaryConfig \/ ParseConfig \/ SdkInit
  \/ (\E h \in Handle : FillFind(h)) \/ FillInsert \/ SetInfoCallback
  \/ SetPointCloudsCallback \/ SetImuDataCallback \/ SetPointCloudConfig
  \/ StartPollThreads

-------------------------------------------------------------------------------
(***************************************************************************)
(* The SDK's threads.  A report of a lidar that has a slot is LidarConfig. *)
(***************************************************************************)

InfoChange(h) ==
  /\ sdk.up /\ sdk.info_cb
  /\ info.pc = "idle"
  /\ ~Has(h)
  /\ info' = [pc |-> "find", at |-> h]
  /\ UNCHANGED <<cacheVars, main, initialized, sdk, pubVars, ldsVars, poll>>

InfoFind ==
  /\ info.pc = "find"
  /\ info' = IF Has(info.at) THEN InfoIdle ELSE [info EXCEPT !.pc = "insert"]
  /\ UNCHANGED <<cacheVars, main, initialized, sdk, pubVars, ldsVars, poll>>

InfoInsert ==
  /\ info.pc = "insert"
  /\ Insert(info.at)
  /\ info' = InfoIdle
  /\ UNCHANGED <<main, initialized, sdk, pubVars, ldsVars, poll>>

PointPacket(h) ==
  /\ sdk.up /\ sdk.observer
  /\ Len(raw) < MaxRaw
  /\ raw' = Append(raw, h)
  /\ UNCHANGED <<cacheVars, main, initialized, sdk, info, imu_callback, proc, is_quit,
                 ldsVars, poll>>

\* GetIndex searches the map without index_mutex_.  While another thread inserts
\* into it, which rotates the tree, the search may miss a lidar that is there.
Found(h) == IF info.pc = "insert" /\ FreeSlots # {} THEN {Has(h), FALSE} ELSE {Has(h)}

\* Data for the slot of lidar h, if it has one, and the wake-up of a poll thread.
Storage(h, p) == \E found \in Found(h) :
  /\ stored' = IF found THEN [stored EXCEPT ![map_index[h]] = @ \cup {h}] ELSE stored
  /\ count' = IF found THEN [count EXCEPT ![p] = 1] ELSE count
  /\ request_exit' = request_exit

\* An IMU sample that comes before imu_callback_ is set is ignored.
ImuPacket(h) ==
  /\ sdk.up /\ sdk.observer
  /\ imu_callback
  /\ Storage(h, "imu")
  /\ UNCHANGED <<cacheVars, main, initialized, sdk, info, pubVars, poll>>

-------------------------------------------------------------------------------
(***************************************************************************)
(* The point process thread: RawDataProcess, with every packet a frame.    *)
(***************************************************************************)

CheckQuit ==
  /\ proc.pc = "check"
  /\ proc' = [proc EXCEPT !.pc = IF is_quit THEN "done" ELSE "take"]
  /\ UNCHANGED <<cacheVars, main, initialized, sdk, info, imu_callback, raw, is_quit,
                 ldsVars, poll>>

\* With nothing to take, the thread looks again after 500 ms.
Take ==
  /\ proc.pc = "take"
  /\ \/ /\ raw # << >>
        /\ raw' = Tail(raw)
        /\ proc' = [pc |-> "store", at |-> Head(raw)]
     \/ /\ raw = << >>
        /\ raw' = raw
        /\ proc' = [proc EXCEPT !.pc = "check"]
  /\ UNCHANGED <<cacheVars, main, initialized, sdk, info, imu_callback, is_quit, ldsVars, poll>>

StoragePointData ==
  /\ proc.pc = "store"
  /\ proc' = [pc |-> "check", at |-> Anyone]
  /\ Storage(proc.at, "pcd")
  /\ UNCHANGED <<cacheVars, main, initialized, sdk, info, imu_callback, raw, is_quit, poll>>

-------------------------------------------------------------------------------
(***************************************************************************)
(* The poll threads.                                                       *)
(***************************************************************************)

PollTo(p, pc) == poll' = [poll EXCEPT ![p] = pc]

exit_signal == main.pc \notin {"summary", "parse", "sdk", "fill", "insert", "observer",
                               "imu", "process", "threads", "run", "signal"}

Distribute(p) ==
  /\ poll[p] = "start"
  /\ IF request_exit THEN PollTo(p, "future") ELSE PollTo(p, "wait")
  /\ UNCHANGED <<cacheVars, main, initialized, sdk, info, pubVars, ldsVars>>

Wait(p) ==
  /\ poll[p] = "wait"
  /\ count[p] > 0
  /\ count' = [count EXCEPT ![p] = @ - 1]
  /\ PollTo(p, "future")
  /\ UNCHANGED <<cacheVars, main, initialized, sdk, info, pubVars, stored, request_exit>>

CheckFuture(p) ==
  /\ poll[p] = "future"
  /\ IF exit_signal THEN PollTo(p, "done") ELSE PollTo(p, "start")
  /\ UNCHANGED <<cacheVars, main, initialized, sdk, info, pubVars, ldsVars>>

PollStep(p) == Distribute(p) \/ Wait(p) \/ CheckFuture(p)

-------------------------------------------------------------------------------
(***************************************************************************)
(* ~DriverNode, ~Lddc and the destructors of the static objects: the       *)
(* PubHandler, constructed after LdsLidar, goes first.                     *)
(***************************************************************************)

RequestExit ==
  /\ main.pc = "run"
  /\ MainTo("signal")
  /\ request_exit' = TRUE
  /\ UNCHANGED <<cacheVars, initialized, sdk, info, pubVars, stored, count, poll>>

\* Broken: the SDK is shut down first.
SetExitSignalUninit ==
  /\ main.pc = "signal"
  /\ MainTo("join_pcd")
  /\ sdk' = [sdk EXCEPT !.up = FALSE]
  /\ UNCHANGED <<cacheVars, initialized, info, pubVars, ldsVars, poll>>

SetExitSignal ==
  /\ main.pc = "signal"
  /\ MainTo("join_pcd")
  /\ UNCHANGED <<cacheVars, initialized, sdk, info, pubVars, ldsVars, poll>>

\* Broken: the IMU thread is not waited for.
JoinOne(p, pc, next) ==
  /\ main.pc = pc
  /\ p = "pcd" => poll[p] = "done"
  /\ MainTo(next)
  /\ UNCHANGED <<cacheVars, initialized, sdk, info, pubVars, ldsVars, poll>>

Join(p, pc, next) ==
  /\ main.pc = pc
  /\ poll[p] = "done"
  /\ MainTo(next)
  /\ UNCHANGED <<cacheVars, initialized, sdk, info, pubVars, ldsVars, poll>>

\* LivoxLidarSdkUninit: no callback is called any more ...
PrepareExit ==
  /\ main.pc = "lddc"
  /\ IF initialized THEN MainTo("callbacks") /\ sdk' = [sdk EXCEPT !.up = FALSE]
                    ELSE MainTo("pub_handler") /\ sdk' = sdk
  /\ UNCHANGED <<cacheVars, initialized, info, pubVars, ldsVars, poll>>

\* ... and the one that is running ends before it returns.
SdkStopped ==
  /\ main.pc = "callbacks"
  /\ info.pc = "idle"
  /\ MainTo("pub_handler")
  /\ UNCHANGED <<cacheVars, initialized, sdk, info, pubVars, ldsVars, poll>>

Uninit ==
  /\ main.pc = "pub_handler"
  /\ MainTo("join_proc")
  /\ sdk' = [sdk EXCEPT !.observer = FALSE]
  /\ is_quit' = TRUE
  /\ UNCHANGED <<cacheVars, initialized, info, imu_callback, raw, proc, ldsVars, poll>>

JoinProcess ==
  /\ main.pc = "join_proc"
  /\ proc.pc \in {"none", "done"}
  /\ MainTo("exited")
  /\ UNCHANGED <<cacheVars, initialized, sdk, info, pubVars, ldsVars, poll>>

Destroy ==
  \/ SetExitSignal \/ Join("pcd", "join_pcd", "join_imu") \/ Join("imu", "join_imu", "lddc")
  \/ PrepareExit \/ SdkStopped \/ Uninit \/ JoinProcess

-------------------------------------------------------------------------------
Process == CheckQuit \/ Take \/ StoragePointData

Next ==
  \/ Construct
  \/ \E h \in Handle : InfoChange(h) \/ PointPacket(h) \/ ImuPacket(h)
  \/ InfoFind \/ InfoInsert
  \/ Process
  \/ \E p \in Poll : PollStep(p)
  \/ RequestExit
  \/ Destroy

Spec == Init /\ [][Next]_vars

\* Threads that can run are scheduled, and every lidar goes on sending points and
\* IMU samples for as long as the SDK is up.  Reports and the decision to exit are
\* not assumed to come.
FairSpec ==
  /\ Spec
  /\ WF_vars(Construct) /\ WF_vars(Destroy) /\ WF_vars(InfoFind \/ InfoInsert)
  /\ WF_vars(Process)
  /\ \A p \in Poll : WF_vars(PollStep(p))
  /\ \A h \in Handle : SF_vars(PointPacket(h)) /\ WF_vars(ImuPacket(h))

-------------------------------------------------------------------------------
(***************************************************************************)
(* Properties.                                                             *)
(***************************************************************************)

MainPlace == {"summary", "parse", "sdk", "fill", "insert", "observer", "imu", "process",
              "threads", "run", "signal", "join_pcd", "join_imu", "lddc", "callbacks",
              "pub_handler", "join_proc", "exited"}

\* Every variable has its type.
TypeOK ==
  /\ map_index \in [Handle -> Slots \cup {NoIndex}]
  /\ index_cache \in [Slots -> BOOLEAN]
  /\ main \in [pc : MainPlace, todo : SUBSET Configured, at : Handle]
  /\ sdk \in [up : BOOLEAN, info_cb : BOOLEAN, observer : BOOLEAN]
  /\ info \in [pc : {"idle", "find", "insert"}, at : Handle]
  /\ proc \in [pc : {"none", "check", "take", "store", "done"}, at : Handle]
  /\ initialized \in BOOLEAN /\ imu_callback \in BOOLEAN
  /\ is_quit \in BOOLEAN /\ request_exit \in BOOLEAN
  /\ raw \in Seq(Handle) /\ Len(raw) <= MaxRaw
  /\ stored \in [Slots -> SUBSET Handle]
  /\ count \in [Poll -> 0 .. 1]
  /\ poll \in [Poll -> {"none", "start", "wait", "future", "done"}]

\* GetFreeIndex, although it looks and inserts under two locks, never gives a
\* slot to two lidars nor leaves one taken that no lidar has: the node's thread
\* and the SDK's do not insert at the same time.
IndexConsistent ==
  \A i \in Slots : index_cache[i] <=> \E h \in Handle : {g \in Handle : map_index[g] = i} = {h}

\* A lidar that has a device slot keeps it: LdsLidar, the data path and the
\* publishers (named after the slot) may hold its index without a lock.
StableIndex == [][\A h \in Handle : Has(h) => map_index'[h] = map_index[h]]_vars

\* Lds::lidars_[i] never receives the data of two lidars, whatever unknown
\* lidars send and however many there are.
OneLidarPerSlot == \A i \in Slots : \A g, h \in stored[i] : g = h

\* When the static objects are gone, no thread is left that would use them: the
\* poll threads and the point process thread have ended, and the SDK, shut down
\* by ~Lddc, calls nothing any more.
NothingRunsAtExit ==
  main.pc = "exited" =>
    /\ \A p \in Poll : poll[p] = "done"
    /\ proc.pc \in {"none", "done"} /\ info.pc = "idle"
    /\ ~sdk.up /\ ~sdk.observer

\* ~DriverNode wakes nobody up.  It joins the poll threads before ~Lddc shuts
\* the SDK down, so as long as one lidar with a slot is sending, both threads
\* are woken by its data and the process ends.
ExitsWhileDataFlows ==
  (main.pc = "join_pcd" /\ initialized /\ \E h \in Handle : Has(h)) ~> main.pc = "exited"
==============================================================================
