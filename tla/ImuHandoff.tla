------------------------------ MODULE ImuHandoff ------------------------------
(***************************************************************************)
(* How IMU samples travel from the SDK's threads to the ROS publisher: the *)
(* same wake-up protocol as that of the point packets (PointHandoff), but  *)
(* over a list with a mutex (LidarImuDataQueue), without a limit, and fed  *)
(* by threads of the SDK.  How many there are is the SDK's business; the   *)
(* samples of one lidar come from one of them.                             *)
(*                                                                         *)
(* Push and Empty take the queue's mutex, which empties the store buffer:  *)
(* what a thread stored is visible before it reads the semaphore's count.  *)
(***************************************************************************)
EXTENDS Integers, Sequences, FiniteSets

CONSTANTS NLidar,    \* lidar_count_
          Thread,    \* the SDK's threads that deliver samples
          ThreadOf,  \* the thread that delivers those of each lidar
          Late,      \* lidars that are not sampling yet at the start
          MaxImu     \* bound: samples of each lidar

Lidar == 1 .. NLidar
Sample(i) == 1 .. MaxImu[i]

ASSUME ImuAssumption ==
  /\ NLidar \in Nat \ {0}
  /\ MaxImu \in [Lidar -> Nat]
  /\ IsFiniteSet(Thread)
  /\ ThreadOf \in [Lidar -> Thread]
  /\ Late \subseteq Lidar

VARIABLES
  imu_data,       \* lidars_[i].imu_data
  delivered,      \* samples the SDK has delivered of each lidar
  dropped,        \* those of which the lidar was not found
  published,      \* last sample of each lidar that was published
  connect_state,  \* lidars_[i].connect_state
  imu_count,      \* imu_semaphore_.count_
  sdk,            \* place and lidar of each thread of the SDK
  poll,           \* IMU poll thread: place and lidar index
  request_exit,   \* Lds::request_exit_
  main            \* the thread that runs ~DriverNode

queueVars == <<imu_data, delivered, dropped, published>>
exitVars == <<request_exit, main>>
vars == <<queueVars, connect_state, imu_count, sdk, poll, exitVars>>

exit_signal == main \in {"join_pcd", "join_imu", "joined"}  \* it has its value

Init ==
  /\ imu_data = [i \in Lidar |-> << >>]
  /\ delivered = [i \in Lidar |-> 0]
  /\ dropped = [i \in Lidar |-> {}]
  /\ published = [i \in Lidar |-> 0]
  /\ connect_state = [i \in Lidar |-> IF i \in Late THEN "off" ELSE "sampling"]
  /\ imu_count = 0
  /\ sdk = [t \in Thread |-> [pc |-> "idle", at |-> 1]]
  /\ poll = [pc |-> "start", i |-> 1]
  /\ request_exit = FALSE
  /\ main = "run"

-------------------------------------------------------------------------------
(***************************************************************************)
(* A thread of the SDK: Lds::StorageImuData.                               *)
(***************************************************************************)

SdkTo(t, pc) == sdk' = [sdk EXCEPT ![t].pc = pc]

Deliver(i) ==
  /\ sdk[ThreadOf[i]].pc = "idle"
  /\ delivered[i] < MaxImu[i]
  /\ delivered' = [delivered EXCEPT ![i] = @ + 1]

\* Broken: the newest sample goes to the front.
PushFront(i) ==
  /\ Deliver(i)
  /\ imu_data' = [imu_data EXCEPT ![i] = <<delivered'[i]>> \o @]
  /\ sdk' = [sdk EXCEPT ![ThreadOf[i]] = [pc |-> "empty", at |-> i]]
  /\ UNCHANGED <<dropped, published, connect_state, imu_count, poll, exitVars>>

\* A sample is pushed if its lidar is found in cache_index_ ...
Push(i) ==
  /\ Deliver(i)
  /\ imu_data' = [imu_data EXCEPT ![i] = Append(@, delivered'[i])]
  /\ sdk' = [sdk EXCEPT ![ThreadOf[i]] = [pc |-> "empty", at |-> i]]
  /\ UNCHANGED <<dropped, published, connect_state, imu_count, poll, exitVars>>

\* ... and dropped if not.  The search is not locked and may miss any lidar while
\* another is inserted (DriverLifecycle says when); here it misses at will.
Drop(i) ==
  /\ Deliver(i)
  /\ dropped' = [dropped EXCEPT ![i] = @ \cup {delivered'[i]}]
  /\ UNCHANGED <<imu_data, published, connect_state, imu_count, sdk, poll, exitVars>>

CheckEmpty(t) ==
  /\ sdk[t].pc = "empty"
  /\ IF imu_data[sdk[t].at] = << >> THEN SdkTo(t, "idle") ELSE SdkTo(t, "count")
  /\ UNCHANGED <<queueVars, connect_state, imu_count, poll, exitVars>>

\* Broken: every sample is signalled.
CheckCountNot(t) ==
  /\ sdk[t].pc = "count"
  /\ SdkTo(t, "signal")
  /\ UNCHANGED <<queueVars, connect_state, imu_count, poll, exitVars>>

\* Broken: off by one, nobody is ever woken.
CheckCountBelowZero(t) ==
  /\ sdk[t].pc = "count"
  /\ IF imu_count < 0 THEN SdkTo(t, "signal") ELSE SdkTo(t, "idle")
  /\ UNCHANGED <<queueVars, connect_state, imu_count, poll, exitVars>>

\* GetCount reads count_ without the semaphore's lock.
CheckCount(t) ==
  /\ sdk[t].pc = "count"
  /\ IF imu_count <= 0 THEN SdkTo(t, "signal") ELSE SdkTo(t, "idle")
  /\ UNCHANGED <<queueVars, connect_state, imu_count, poll, exitVars>>

Signal(t) ==
  /\ sdk[t].pc = "signal"
  /\ imu_count' = imu_count + 1
  /\ SdkTo(t, "idle")
  /\ UNCHANGED <<queueVars, connect_state, poll, exitVars>>

-------------------------------------------------------------------------------
(***************************************************************************)
(* The IMU poll thread.                                                    *)
(***************************************************************************)

PollTo(pc, i) == poll' = [pc |-> pc, i |-> i]

DistributeBegin ==
  /\ poll.pc = "start"
  /\ IF request_exit THEN PollTo("future", 1) ELSE PollTo("wait", 1)
  /\ UNCHANGED <<queueVars, connect_state, imu_count, sdk, exitVars>>

Wait ==
  /\ poll.pc = "wait"
  /\ imu_count > 0
  /\ imu_count' = imu_count - 1
  /\ PollTo("scan", 1)
  /\ UNCHANGED <<queueVars, connect_state, sdk, exitVars>>

Scan ==
  /\ poll.pc = "scan"
  /\ \/ poll.i > NLidar /\ PollTo("future", 1)
     \/ /\ poll.i <= NLidar
        /\ IF connect_state[poll.i] # "sampling" THEN PollTo("scan", poll.i + 1)
                                                 ELSE PollTo("poll", poll.i)
  /\ UNCHANGED <<queueVars, connect_state, imu_count, sdk, exitVars>>

\* Broken: the queue is not looked at.
PollingUnchecked ==
  /\ poll.pc = "poll"
  /\ IF request_exit THEN PollTo("scan", poll.i + 1) ELSE PollTo("pop", poll.i)
  /\ UNCHANGED <<queueVars, connect_state, imu_count, sdk, exitVars>>

PollingLidarImuData ==
  /\ poll.pc = "poll"
  /\ IF request_exit \/ imu_data[poll.i] = << >> THEN PollTo("scan", poll.i + 1)
                                                 ELSE PollTo("pop", poll.i)
  /\ UNCHANGED <<queueVars, connect_state, imu_count, sdk, exitVars>>

\* Broken: one sample for each wake-up.
PublishOne ==
  /\ poll.pc = "pop"
  /\ imu_data' = [imu_data EXCEPT ![poll.i] = Tail(@)]
  /\ published' = [published EXCEPT ![poll.i] = Head(imu_data[poll.i])]
  /\ PollTo("scan", poll.i + 1)
  /\ UNCHANGED <<delivered, dropped, connect_state, imu_count, sdk, exitVars>>

PublishImuData ==
  /\ poll.pc = "pop"
  /\ imu_data' = [imu_data EXCEPT ![poll.i] = Tail(@)]
  /\ published' = [published EXCEPT ![poll.i] = Head(imu_data[poll.i])]
  /\ PollTo("poll", poll.i)
  /\ UNCHANGED <<delivered, dropped, connect_state, imu_count, sdk, exitVars>>

CheckFuture ==
  /\ poll.pc = "future"
  /\ IF exit_signal THEN PollTo("done", 1) ELSE PollTo("start", 1)
  /\ UNCHANGED <<queueVars, connect_state, imu_count, sdk, exitVars>>

-------------------------------------------------------------------------------
(***************************************************************************)
(* The configuration callbacks and ~DriverNode.                            *)
(***************************************************************************)

BecomeSampling(i) ==
  /\ connect_state[i] = "off"
  /\ connect_state' = [connect_state EXCEPT ![i] = "sampling"]
  /\ UNCHANGED <<queueVars, imu_count, sdk, poll, exitVars>>

MainTo(from, to) ==
  /\ main = from
  /\ main' = to
  /\ UNCHANGED <<queueVars, connect_state, imu_count, sdk, poll>>

RequestExit == MainTo("run", "set_value") /\ request_exit' = TRUE

SetExitSignal == MainTo("set_value", "join_pcd") /\ UNCHANGED request_exit

\* The point cloud poll thread has stopped (PointHandoff says when).
JoinPointCloud == MainTo("join_pcd", "join_imu") /\ UNCHANGED request_exit

JoinImu == poll.pc = "done" /\ MainTo("join_imu", "joined") /\ UNCHANGED request_exit

-------------------------------------------------------------------------------
SdkStep(t) == CheckEmpty(t) \/ CheckCount(t) \/ Signal(t)

PollStep ==
  \/ DistributeBegin \/ Wait \/ Scan \/ PollingLidarImuData \/ PublishImuData
  \/ CheckFuture

Next ==
  \/ \E i \in Lidar : Push(i) \/ Drop(i) \/ BecomeSampling(i)
  \/ \E t \in Thread : SdkStep(t)
  \/ PollStep
  \/ RequestExit \/ SetExitSignal \/ JoinPointCloud \/ JoinImu

Spec == Init /\ [][Next]_vars

\* A thread that can run is eventually scheduled, and a callback of the SDK that
\* has begun goes on.  Samples, acknowledgements, the decision to exit and the end
\* of the point cloud poll thread are not assumed to come.
FairSpec ==
  /\ Spec
  /\ \A t \in Thread : WF_vars(SdkStep(t))
  /\ WF_vars(PollStep)
  /\ WF_vars(SetExitSignal)
  /\ WF_vars(JoinImu)

-------------------------------------------------------------------------------
(***************************************************************************)
(* Properties.                                                             *)
(***************************************************************************)

Place == [pc : {"idle", "empty", "count", "signal"}, at : Lidar]
Poll == [pc : {"start", "wait", "scan", "poll", "pop", "future", "done"}, i : 1 .. NLidar + 1]

\* Every variable stays in its domain; a thread of the SDK looks at lidars of its
\* own, and the poll thread pops from a queue that it has seen not to be empty.
TypeOK ==
  /\ imu_data \in [Lidar -> Seq(Nat)]
  /\ delivered \in [Lidar -> Nat]
  /\ published \in [Lidar -> Nat]
  /\ DOMAIN dropped = Lidar
  /\ \A i \in Lidar : delivered[i] \in 0 .. MaxImu[i] /\ dropped[i] \subseteq 1 .. delivered[i]
  /\ connect_state \in [Lidar -> {"off", "sampling"}]
  /\ imu_count \in Nat
  /\ sdk \in [Thread -> Place]
  /\ \A t \in Thread : sdk[t].pc # "idle" => ThreadOf[sdk[t].at] = t
  /\ poll \in Poll
  /\ poll.pc = "pop" => imu_data[poll.i] # << >>
  /\ request_exit \in BOOLEAN
  /\ main \in {"run", "set_value", "join_pcd", "join_imu", "joined"}

Queued(i) == {imu_data[i][k] : k \in DOMAIN imu_data[i]}

\* A sample is lost only where its lidar is not found (lds.cpp:109-113), never after
\* that, unlike a point packet: those still queued are exactly the later ones that
\* were not dropped there, in order, and none that was dropped is published.
NoImuLost == \A i \in Lidar :
  /\ \A j, k \in DOMAIN imu_data[i] : j < k => imu_data[i][j] < imu_data[i][k]
  /\ Queued(i) = (published[i] + 1 .. delivered[i]) \ dropped[i]
  /\ published[i] \notin dropped[i]

\* The count is looked at without the lock and incremented later: wake-ups pile
\* up to one for each thread of the SDK, and no further (lds.cpp:119).
WakeUpsBounded == imu_count <= Cardinality(Thread)

\* A queued sample of a lidar that is sampling all along is published, unless the
\* driver is told to exit first: with locked queues no wake-up is lost, however many
\* threads look at the count at the same time.
EveryImuPublished == \A i \in Lidar \ Late : \A n \in Sample(i) :
  (n \in Queued(i)) ~> (request_exit \/ published[i] >= n)

\* The samples queued of a lidar before it was sampling leave with the first one
\* queued after.
LateImuPublished == \A i \in Late : \A n \in Sample(i) :
  (connect_state[i] = "sampling" /\ sdk[ThreadOf[i]] = [pc |-> "empty", at |-> i]
   /\ n \in Queued(i)) ~> (request_exit \/ published[i] >= n)

\* ~DriverNode, once the point cloud poll thread has stopped, returns if one more
\* sample is queued, of any lidar; a sample queued and taken before the exit was
\* requested is not enough, and it wakes the IMU poll thread itself for nothing.
ExitAfterImu ==
  (main = "join_imu" /\ \E t \in Thread : sdk[t].pc = "empty" /\ imu_data[sdk[t].at] # << >>)
  ~> main = "joined"
==============================================================================
