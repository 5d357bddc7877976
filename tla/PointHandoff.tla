----------------------------- MODULE PointHandoff -----------------------------
(***************************************************************************)
(* How point packets travel from the point process thread to the ROS       *)
(* publisher: Lds::StoragePointData puts each packet of a PointFrame in the*)
(* ring of its lidar and wakes the poll thread through pcd_semaphore_, and *)
(* Lddc::DistributePointCloudData, woken, drains the ring of every lidar   *)
(* that is sampling.  ~DriverNode stops the poll thread.                   *)
(*                                                                         *)
(* The rings are the FrameFifo that LidarDataQueue implements.  The store  *)
(* of wr_idx may still sit in the store buffer of the process thread when  *)
(* that thread goes on to read the semaphore's count without its lock      *)
(* (lds.cpp:187); taking any lock empties the buffer.                      *)
(***************************************************************************)
EXTENDS Integers, Sequences

CONSTANTS NLidar,       \* lidar_count_
          QueueSize,    \* packets a ring holds
          Late,         \* lidars that are not sampling yet at the start
          MaxFrames     \* bound: number of PointFrames

Lidar == 1 .. NLidar
NoLidar == 0
Stamp == 1 .. MaxFrames

ASSUME HandoffAssumption ==
  /\ NLidar \in Nat \ {0}
  /\ QueueSize \in Nat \ {0}
  /\ MaxFrames \in Nat
  /\ Late \subseteq Lidar

VARIABLES
  queue,          \* lidars_[i].data: the frames each ring holds
  unseen,         \* the ring whose last wr_idx store is still buffered
  held,           \* rd_idx stores of each ring that are still buffered
  published,      \* last frame of each lidar that was popped and published
  connect_state,  \* lidars_[i].connect_state
  pcd_count,      \* pcd_semaphore_.count_
  proc,           \* point process thread: place, frame, its lidars to do, last one
  poll,           \* point cloud poll thread: place and lidar index
  request_exit,   \* Lds::request_exit_
  main,           \* the thread that runs ~DriverNode
  supported,      \* transfer_format_ is one that ROS2 can publish
  overtook        \* since the last signal, a read of pcd_count has overtaken a
                  \* buffered store of wr_idx (not in the code)

ringVars == <<queue, unseen, held, published>>
exitVars == <<request_exit, main, supported>>
wakeVars == <<pcd_count, overtook>>
vars == <<ringVars, connect_state, wakeVars, proc, poll, exitVars>>

exit_signal == main \in {"join_pcd", "join_imu"}     \* exit_signal_ has its value

\* What each thread sees of a ring.
Visible(i) == Len(queue[i]) - (IF unseen = i THEN 1 ELSE 0)
FullOneLate(i) == Len(queue[i]) + held[i] > QueueSize          \* broken
QueueIsFull(i) == Len(queue[i]) + held[i] >= QueueSize
QueueIsEmpty(i) == Len(queue[i]) + held[i] = 0

Init ==
  /\ queue = [i \in Lidar |-> << >>]
  /\ unseen = NoLidar
  /\ held = [i \in Lidar |-> 0]
  /\ published = [i \in Lidar |-> 0]
  /\ connect_state = [i \in Lidar |-> IF i \in Late THEN "off" ELSE "sampling"]
  /\ pcd_count = 0
  /\ proc = [pc |-> "idle", frame |-> 0, todo |-> {}, at |-> NoLidar]
  /\ poll = [pc |-> "start", i |-> 1]
  /\ request_exit = FALSE
  /\ main = "run"
  /\ supported \in BOOLEAN
  /\ overtook = FALSE

-------------------------------------------------------------------------------
(***************************************************************************)
(* The point process thread.                                               *)
(***************************************************************************)

\* RawDataProcess took packet_mutex_ for the packet that completes this frame.  The
\* lidars are those of the frame that StoragePointData finds in cache_index_; it goes
\* on to the next where it finds none (lds.cpp:162-165).
NewFrame(lidars) ==
  /\ proc.pc = "idle"
  /\ proc.frame < MaxFrames
  /\ unseen = NoLidar
  /\ proc' = [proc EXCEPT !.pc = "store", !.frame = @ + 1, !.todo = lidars]
  /\ UNCHANGED <<ringVars, connect_state, wakeVars, poll, exitVars>>

NextLidar(p) == [p EXCEPT !.pc = IF p.todo = {} THEN "idle" ELSE "store"]

\* Broken: a full ring forgets its oldest packet instead of dropping the new one.
StoreOverwrites(i) ==
  /\ proc.pc = "store"
  /\ i \in proc.todo
  /\ unseen = NoLidar
  /\ queue' = [queue EXCEPT ![i] = Append(IF QueueIsFull(i) /\ @ # << >> THEN Tail(@) ELSE @,
                                         proc.frame)]
  /\ unseen' = i
  /\ proc' = [proc EXCEPT !.pc = "empty", !.todo = @ \ {i}, !.at = i]
  /\ UNCHANGED <<held, published, connect_state, wakeVars, poll, exitVars>>

\* Broken: a dropped packet wakes nobody.
StoreFullSilent(i) ==
  /\ proc.pc = "store"
  /\ i \in proc.todo
  /\ unseen = NoLidar
  /\ \/ /\ ~QueueIsFull(i)
        /\ queue' = [queue EXCEPT ![i] = Append(@, proc.frame)]
        /\ unseen' = i
        /\ proc' = [proc EXCEPT !.pc = "empty", !.todo = @ \ {i}, !.at = i]
     \/ /\ QueueIsFull(i)
        /\ proc' = NextLidar([proc EXCEPT !.todo = @ \ {i}, !.at = i])
        /\ UNCHANGED <<queue, unseen>>
  /\ UNCHANGED <<held, published, connect_state, wakeVars, poll, exitVars>>

\* cache_index_.GetIndex takes index_mutex_, then PushLidarData pushes or drops.
Store(i) ==
  /\ proc.pc = "store"
  /\ i \in proc.todo
  /\ unseen = NoLidar
  /\ \/ /\ ~QueueIsFull(i)
        /\ queue' = [queue EXCEPT ![i] = Append(@, proc.frame)]
        /\ unseen' = i
        /\ proc' = [proc EXCEPT !.pc = "empty", !.todo = @ \ {i}, !.at = i]
     \/ /\ QueueIsFull(i)
        /\ proc' = [proc EXCEPT !.pc = "count", !.todo = @ \ {i}, !.at = i]
        /\ UNCHANGED <<queue, unseen>>
  /\ UNCHANGED <<held, published, connect_state, wakeVars, poll, exitVars>>

CheckEmpty ==
  /\ proc.pc = "empty"
  /\ proc' = IF QueueIsEmpty(proc.at) THEN NextLidar(proc)
                                      ELSE [proc EXCEPT !.pc = "count"]
  /\ UNCHANGED <<ringVars, connect_state, wakeVars, poll, exitVars>>

\* Broken: every packet is signalled.
CheckCountNot ==
  /\ proc.pc = "count"
  /\ proc' = [proc EXCEPT !.pc = "signal"]
  /\ overtook' = (overtook \/ unseen # NoLidar)
  /\ UNCHANGED <<ringVars, connect_state, pcd_count, poll, exitVars>>

\* Broken: off by one, nobody is ever woken.
CheckCountBelowZero ==
  /\ proc.pc = "count"
  /\ proc' = IF pcd_count < 0 THEN [proc EXCEPT !.pc = "signal"]
                              ELSE NextLidar(proc)
  /\ overtook' = (overtook \/ unseen # NoLidar)
  /\ UNCHANGED <<ringVars, connect_state, pcd_count, poll, exitVars>>

\* GetCount reads count_ without the semaphore's lock.
CheckCount ==
  /\ proc.pc = "count"
  /\ proc' = IF pcd_count <= 0 THEN [proc EXCEPT !.pc = "signal"]
                               ELSE NextLidar(proc)
  /\ overtook' = (overtook \/ unseen # NoLidar)
  /\ UNCHANGED <<ringVars, connect_state, pcd_count, poll, exitVars>>

Signal ==
  /\ proc.pc = "signal"
  /\ unseen = NoLidar
  /\ pcd_count' = pcd_count + 1
  /\ overtook' = FALSE
  /\ proc' = NextLidar(proc)
  /\ UNCHANGED <<ringVars, connect_state, poll, exitVars>>

-------------------------------------------------------------------------------
(***************************************************************************)
(* The point cloud poll thread.                                            *)
(***************************************************************************)

PollTo(pc, i) == poll' = [pc |-> pc, i |-> i]

DistributeBegin ==
  /\ poll.pc = "start"
  /\ IF request_exit THEN PollTo("future", 1) ELSE PollTo("wait", 1)
  /\ UNCHANGED <<ringVars, connect_state, wakeVars, proc, exitVars>>

\* Semaphore::Wait takes mutex_, so what this thread stored has been seen.
Wait ==
  /\ poll.pc = "wait"
  /\ \A i \in Lidar : held[i] = 0
  /\ pcd_count > 0
  /\ pcd_count' = pcd_count - 1
  /\ PollTo("scan", 1)
  /\ UNCHANGED <<ringVars, connect_state, overtook, proc, exitVars>>

Scan ==
  /\ poll.pc = "scan"
  /\ \/ poll.i > NLidar /\ PollTo("future", 1)
     \/ /\ poll.i <= NLidar
        /\ IF connect_state[poll.i] # "sampling" THEN PollTo("scan", poll.i + 1)
                                                 ELSE PollTo("poll", poll.i)
  /\ UNCHANGED <<ringVars, connect_state, wakeVars, proc, exitVars>>

\* Broken: the outer loop does not look at request_exit_.
PollingIgnoresExit ==
  /\ poll.pc = "poll"
  /\ \/ Visible(poll.i) = 0 /\ PollTo("scan", poll.i + 1)
     \/ Visible(poll.i) > 0 /\ supported /\ PollTo("publish", poll.i)
  /\ UNCHANGED <<ringVars, connect_state, wakeVars, proc, exitVars>>

\* The outer loop.  With a format ROS2 cannot publish it spins here, popping
\* nothing, until exit is requested.
PollingLidarPointCloudData ==
  /\ poll.pc = "poll"
  /\ \/ (request_exit \/ Visible(poll.i) = 0) /\ PollTo("scan", poll.i + 1)
     \/ ~request_exit /\ Visible(poll.i) > 0 /\ supported /\ PollTo("publish", poll.i)
  /\ UNCHANGED <<ringVars, connect_state, wakeVars, proc, exitVars>>

\* Broken: one packet for each wake-up.
PublishOne ==
  /\ poll.pc = "publish"
  /\ queue' = [queue EXCEPT ![poll.i] = Tail(@)]
  /\ held' = [held EXCEPT ![poll.i] = @ + 1]
  /\ published' = [published EXCEPT ![poll.i] = Head(queue[poll.i])]
  /\ PollTo("scan", poll.i + 1)
  /\ UNCHANGED <<unseen, connect_state, wakeVars, proc, exitVars>>

\* The inner loop does not look at request_exit_.
PublishPointcloud ==
  /\ poll.pc = "publish"
  /\ \/ /\ Visible(poll.i) > 0
        /\ queue' = [queue EXCEPT ![poll.i] = Tail(@)]
        /\ held' = [held EXCEPT ![poll.i] = @ + 1]
        /\ published' = [published EXCEPT ![poll.i] = Head(queue[poll.i])]
        /\ UNCHANGED <<unseen, poll>>
     \/ /\ Visible(poll.i) = 0
        /\ PollTo("poll", poll.i)
        /\ UNCHANGED ringVars
  /\ UNCHANGED <<connect_state, wakeVars, proc, exitVars>>

CheckFuture ==
  /\ poll.pc = "future"
  /\ IF exit_signal THEN PollTo("done", 1) ELSE PollTo("start", 1)
  /\ UNCHANGED <<ringVars, connect_state, wakeVars, proc, exitVars>>

-------------------------------------------------------------------------------
(***************************************************************************)
(* The store buffers, the configuration callbacks and ~DriverNode.         *)
(***************************************************************************)

DrainWr ==
  /\ unseen # NoLidar
  /\ unseen' = NoLidar
  /\ UNCHANGED <<queue, held, published, connect_state, wakeVars, proc, poll, exitVars>>

DrainRd(i) ==
  /\ held[i] > 0
  /\ held' = [held EXCEPT ![i] = @ - 1]
  /\ UNCHANGED <<queue, unseen, published, connect_state, wakeVars, proc, poll, exitVars>>

\* The last outstanding configuration command of a lidar was acknowledged.
BecomeSampling(i) ==
  /\ connect_state[i] = "off"
  /\ connect_state' = [connect_state EXCEPT ![i] = "sampling"]
  /\ UNCHANGED <<ringVars, wakeVars, proc, poll, exitVars>>

RequestExit ==
  /\ main = "run"
  /\ request_exit' = TRUE
  /\ main' = "set_value"
  /\ UNCHANGED <<ringVars, connect_state, wakeVars, proc, poll, supported>>

SetExitSignal ==
  /\ main = "set_value"
  /\ main' = "join_pcd"
  /\ UNCHANGED <<ringVars, connect_state, wakeVars, proc, poll, request_exit, supported>>

\* The first of two joins; after it, ~DriverNode joins the IMU poll thread (ImuHandoff).
JoinPointCloud ==
  /\ main = "join_pcd"
  /\ poll.pc = "done"
  /\ main' = "join_imu"
  /\ UNCHANGED <<ringVars, connect_state, wakeVars, proc, poll, request_exit, supported>>

-------------------------------------------------------------------------------
ProcessStep == (\E i \in Lidar : Store(i)) \/ CheckEmpty \/ CheckCount \/ Signal

PollStep ==
  \/ DistributeBegin \/ Wait \/ Scan \/ PollingLidarPointCloudData
  \/ PublishPointcloud \/ CheckFuture

Drain == DrainWr \/ \E i \in Lidar : DrainRd(i)

Destroy == SetExitSignal \/ JoinPointCloud

Next ==
  \/ \E lidars \in (SUBSET Lidar) \ {{}} : NewFrame(lidars)
  \/ ProcessStep
  \/ PollStep
  \/ Drain
  \/ \E i \in Lidar : BecomeSampling(i)
  \/ RequestExit
  \/ Destroy

Spec == Init /\ [][Next]_vars

(***************************************************************************)
(* A thread that can run is eventually scheduled, and a store buffer is    *)
(* eventually emptied.  Frames, configuration acknowledgements and the     *)
(* decision to exit come from outside and are not assumed to come.         *)
(***************************************************************************)
Fairness ==
  /\ WF_vars(ProcessStep)
  /\ WF_vars(PollStep)
  /\ WF_vars(Drain)
  /\ WF_vars(Destroy)

FairSpec == Spec /\ Fairness

-------------------------------------------------------------------------------
(***************************************************************************)
(* Properties.                                                             *)
(***************************************************************************)

Process == [pc : {"idle", "store", "empty", "count", "signal"}, frame : Stamp \cup {0},
            todo : SUBSET Lidar, at : Lidar \cup {NoLidar}]
Poll == [pc : {"start", "wait", "scan", "poll", "publish", "future", "done"},
         i : 1 .. NLidar + 1]

\* Every variable stays in its domain.
TypeOK ==
  /\ queue \in [Lidar -> Seq(Stamp)]
  /\ \A i \in Lidar : Len(queue[i]) + held[i] <= QueueSize
  /\ unseen \in Lidar \cup {NoLidar}
  /\ unseen # NoLidar => Len(queue[unseen]) > 0
  /\ held \in [Lidar -> Nat]
  /\ published \in [Lidar -> Stamp \cup {0}]
  /\ connect_state \in [Lidar -> {"off", "sampling"}]
  /\ pcd_count \in Nat
  /\ proc \in Process
  /\ poll \in Poll
  /\ request_exit \in BOOLEAN
  /\ main \in {"run", "set_value", "join_pcd", "join_imu"}
  /\ supported \in BOOLEAN
  /\ overtook \in BOOLEAN

\* The count is looked at without the lock and incremented later, yet wake-ups
\* never pile up: at most one is pending, so a burst of frames costs the poll
\* thread one extra round and not one per packet (lds.cpp:187, 192).
OneWakeUp == pcd_count <= 1

\* The poll thread sleeps and nothing is on its way to wake it.
Asleep == poll.pc = "wait" /\ pcd_count = 0 /\ proc.pc = "idle" /\ ~request_exit

\* A wake-up is lost in one way only: the unlocked read of the count overtakes
\* the store of wr_idx that precedes it (lds.cpp:185-188).  As long as that has
\* not happened since the last signal, no packet of a sampling lidar is left in a
\* ring when the poll thread sleeps.
NothingStranded == Asleep /\ supported /\ ~overtook =>
  \A i \in Lidar \ Late : queue[i] = << >>

\* When it has happened, only ONE packet of the sampling lidars is left behind,
\* however many lidars a frame has and however slow the poll thread.
\* (It need not be the last one stored: a later packet that the poll thread takes
\* before the producer looks, lds.cpp:186, brings no wake-up either.)
StrandedAtMostOne == Asleep /\ supported =>
  \A i, j \in Lidar \ Late :
    \A k \in 1 .. Len(queue[i]), l \in 1 .. Len(queue[j]) : i = j /\ k = l

\* A packet left behind (its wake-up lost, or used up while its lidar was not
\* sampling yet, its ring even full) leaves with the next packet stored for the
\* same lidar, dropped or not, unless the driver is told to exit.
RecoveredByNextStore == \A i \in Lidar : \A n \in Stamp :
  (/\ supported
   /\ \E k \in 1 .. Len(queue[i]) : queue[i][k] = n
   /\ connect_state[i] = "sampling"
   /\ proc.pc = "store" /\ i \in proc.todo /\ n < proc.frame)
  ~> (request_exit \/ published[i] >= n)

\* ~DriverNode joins a poll thread that may be blocked in Semaphore::Wait and wakes
\* nobody itself (driver_node.cpp:35-37); one more stored packet is enough for this
\* first join to return, whatever the format and the state of the lidars.  (The second,
\* of the IMU poll thread, is ImuHandoff's ExitAfterImu.)
FirstJoinReturns == (exit_signal /\ proc.pc = "store") ~> main = "join_imu"

\* Each ring, as this protocol uses it, is the queue that LidarDataQueue
\* implements: pushed while there is room, popped while something is visible.
Fifo(i) == INSTANCE FrameFifo WITH
  Item <- Stamp, NoItem <- 0, Capacity <- QueueSize,
  q <- queue[i], vis <- Visible(i), held <- held[i], out <- published[i]

UsesFifo ==
  /\ \A i \in Lidar : Fifo(i)!Init
  /\ [][\A i \in Lidar : Fifo(i)!Next \/ UNCHANGED Fifo(i)!vars]_vars
==============================================================================
