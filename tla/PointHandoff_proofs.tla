-------------------------- MODULE PointHandoff_proofs --------------------------
(***************************************************************************)
(* Proofs about the hand-over of point packets, for every number of lidars *)
(* and frames, every ring size and every set of lidars that start late.    *)
(***************************************************************************)
EXTENDS PointHandoff, TLAPS

-------------------------------------------------------------------------------
(***************************************************************************)
(* Types.                                                                  *)
(***************************************************************************)

\* Where the two threads stand when they are inside a lidar's ring.
Places ==
  /\ poll.pc \in {"poll", "publish"} => poll.i \in Lidar
  /\ proc.pc # "idle" => proc.frame \in Stamp
  /\ proc.pc \in {"empty", "count", "signal"} => proc.at \in Lidar

\* A lidar configured before the start is sampling from then on.
OnTime == \A i \in Lidar \ Late : connect_state[i] = "sampling"

TypeInv == TypeOK /\ Places /\ OnTime

\* The poll thread's index goes from the first lidar to one past the last.
LEMMA LidarRange ==
  /\ \A i \in 1 .. NLidar + 1 : i <= NLidar => i \in Lidar
  /\ \A i \in Lidar : i + 1 \in 1 .. NLidar + 1
BY HandoffAssumption DEF Lidar

LEMMA TypeInit == Init => TypeInv
<1>. SUFFICES ASSUME Init PROVE TypeInv
  OBVIOUS
<1>. USE HandoffAssumption DEF Init, Lidar, NoLidar, Stamp
<1>1. proc \in Process /\ poll \in Poll
  BY DEF Process, Poll
<1>2. /\ queue \in [Lidar -> Seq(Stamp)]
      /\ \A i \in Lidar : Len(queue[i]) = 0 /\ held[i] = 0
  OBVIOUS
<1>3. TypeOK
  <2>1. \A i \in Lidar : Len(queue[i]) + held[i] <= QueueSize
    BY <1>2
  <2>2. /\ published \in [Lidar -> Stamp \cup {0}]
        /\ held \in [Lidar -> Nat]
        /\ connect_state \in [Lidar -> {"off", "sampling"}]
    OBVIOUS
  <2>. QED BY <1>1, <1>2, <2>1, <2>2 DEF TypeOK
<1>4. Places /\ OnTime
  BY DEF Places, OnTime
<1>. QED
  BY <1>3, <1>4 DEF TypeInv

\* What the process thread does after a packet.
LEMMA NextLidarType ==
  ASSUME NEW p \in Process
  PROVE  /\ NextLidar(p) \in Process
         /\ NextLidar(p).pc \in {"idle", "store"}
         /\ NextLidar(p).frame = p.frame
         /\ NextLidar(p).todo = p.todo
         /\ NextLidar(p).at = p.at
BY DEF NextLidar, Process

LEMMA TypeStep == TypeInv /\ [Next]_vars => TypeInv'
<1>. SUFFICES ASSUME TypeInv, [Next]_vars PROVE TypeInv'
  OBVIOUS
<1>. USE HandoffAssumption DEF TypeInv, TypeOK, Places, OnTime, ringVars, exitVars, wakeVars
<1>a. 1 \in 1 .. NLidar + 1 /\ NoLidar \notin Lidar /\ Lidar \subseteq 1 .. NLidar + 1
  BY DEF Lidar, NoLidar
<1>1. ASSUME NEW lidars \in (SUBSET Lidar) \ {{}}, NewFrame(lidars) PROVE TypeInv'
  <2>1. proc.frame + 1 \in Stamp
    BY <1>1 DEF NewFrame, Process, Stamp
  <2>2. proc' = [proc EXCEPT !.pc = "store", !.frame = proc.frame + 1, !.todo = lidars]
    BY <1>1 DEF NewFrame
  <2>3. proc' \in Process /\ proc'.frame \in Stamp /\ proc'.pc = "store"
    BY <2>1, <2>2 DEF Process
  <2>. QED BY <1>1, <2>3 DEF NewFrame
<1>2. ASSUME NEW i \in Lidar, Store(i) PROVE TypeInv'
  <2>1. proc.frame \in Stamp /\ unseen = NoLidar
    BY <1>2 DEF Store
  <2>2. proc' \in Process /\ proc'.at = i /\ proc'.frame = proc.frame
    <3>1. PICK pc \in {"empty", "count"} :
            proc' = [proc EXCEPT !.pc = pc, !.todo = @ \ {i}, !.at = i]
      BY <1>2 DEF Store
    <3>. QED BY <3>1 DEF Process
  <2>3. CASE QueueIsFull(i)
    BY <1>2, <2>1, <2>2, <2>3 DEF Store
  <2>4. CASE ~QueueIsFull(i)
    <3>1. queue' = [queue EXCEPT ![i] = Append(@, proc.frame)] /\ unseen' = i
      BY <1>2, <2>4 DEF Store
    <3>2. /\ Append(queue[i], proc.frame) \in Seq(Stamp)
          /\ Len(Append(queue[i], proc.frame)) = Len(queue[i]) + 1
          /\ Len(queue[i]) \in Nat
      BY <2>1
    <3>3. queue' \in [Lidar -> Seq(Stamp)]
      BY <3>1, <3>2
    <3>4. \A j \in Lidar : Len(queue'[j]) + held'[j] <= QueueSize
      BY <1>2, <2>4, <3>1, <3>2 DEF Store, QueueIsFull
    <3>. QED BY <1>2, <2>1, <2>2, <3>1, <3>2, <3>3, <3>4 DEF Store
  <2>. QED BY <2>3, <2>4
<1>3. CASE CheckEmpty
  <2>1. proc' \in Process /\ proc'.frame = proc.frame /\ proc'.at = proc.at
    BY <1>3, NextLidarType DEF CheckEmpty, Process
  <2>. QED BY <1>3, <2>1 DEF CheckEmpty
<1>4. CASE CheckCount
  <2>1. proc' \in Process /\ proc'.frame = proc.frame /\ proc'.at = proc.at
    BY <1>4, NextLidarType DEF CheckCount, Process
  <2>. QED BY <1>4, <2>1 DEF CheckCount
<1>5. CASE Signal
  <2>1. proc' \in Process /\ proc'.frame = proc.frame /\ proc'.at = proc.at
    BY <1>5, NextLidarType DEF Signal
  <2>2. pcd_count' \in Nat /\ overtook' = FALSE /\ (proc'.pc # "idle" => proc'.frame \in Stamp)
    BY <1>5, <2>1 DEF Signal
  <2>3. proc'.pc \notin {"empty", "count", "signal"}
    BY <1>5, NextLidarType DEF Signal
  <2>. QED BY <1>5, <2>1, <2>2, <2>3 DEF Signal
<1>6. CASE DistributeBegin
  BY <1>6, <1>a DEF DistributeBegin, PollTo, Poll
<1>7. CASE Wait
  BY <1>7, <1>a DEF Wait, PollTo, Poll
<1>8. CASE Scan
  <2>1. poll' \in Poll /\ (poll'.pc \in {"poll", "publish"} => poll'.i \in Lidar)
    <3>1. poll.i \in 1 .. NLidar + 1 /\ poll.pc = "scan"
      BY <1>8 DEF Scan, Poll
    <3>2. poll.i <= NLidar => poll.i \in Lidar /\ poll.i + 1 \in 1 .. NLidar + 1
      BY <3>1, LidarRange
    <3>3. \/ poll' = [pc |-> "future", i |-> 1]
          \/ poll.i <= NLidar /\ poll' = [pc |-> "scan", i |-> poll.i + 1]
          \/ poll.i <= NLidar /\ poll' = [pc |-> "poll", i |-> poll.i]
      BY <1>8 DEF Scan, PollTo
    <3>. QED BY <1>a, <3>1, <3>2, <3>3 DEF Poll
  <2>. QED BY <1>8, <2>1 DEF Scan
<1>9. CASE PollingLidarPointCloudData
  <2>1. poll' \in Poll /\ (poll'.pc \in {"poll", "publish"} => poll'.i \in Lidar)
    <3>0. poll.i \in Lidar
      BY <1>9 DEF PollingLidarPointCloudData
    <3>1. poll.i + 1 \in 1 .. NLidar + 1
      BY <3>0, LidarRange
    <3>. QED BY <1>9, <1>a, <3>0, <3>1 DEF PollingLidarPointCloudData, PollTo, Poll
  <2>. QED BY <1>9, <2>1 DEF PollingLidarPointCloudData
<1>10. CASE PublishPointcloud
  <2>1. CASE Visible(poll.i) > 0 /\ UNCHANGED poll
    <3>0. /\ poll.i \in Lidar
          /\ queue' = [queue EXCEPT ![poll.i] = Tail(@)]
          /\ held' = [held EXCEPT ![poll.i] = @ + 1]
          /\ published' = [published EXCEPT ![poll.i] = Head(queue[poll.i])]
          /\ unseen' = unseen
          /\ UNCHANGED <<connect_state, wakeVars, proc, exitVars>>
      BY <1>10, <2>1 DEF PublishPointcloud
    <3>1. PICK i \in Lidar :
            /\ Visible(i) > 0
            /\ queue' = [queue EXCEPT ![i] = Tail(@)]
            /\ held' = [held EXCEPT ![i] = @ + 1]
            /\ published' = [published EXCEPT ![i] = Head(queue[i])]
      BY <2>1, <3>0, Zenon
    <3>2. Len(queue[i]) \in Nat /\ Len(queue[i]) > 0 /\ (unseen = i => Len(queue[i]) > 1)
      <4>1. queue[i] \in Seq(Stamp)
        BY <3>1
      <4>2. Len(queue[i]) \in Nat
        BY <4>1
      <4>3. CASE unseen = i
        BY <3>1, <4>2, <4>3 DEF Visible
      <4>4. CASE unseen # i
        BY <3>1, <4>2, <4>4 DEF Visible
      <4>. QED BY <4>2, <4>3, <4>4
    <3>3. /\ Tail(queue[i]) \in Seq(Stamp)
          /\ Len(Tail(queue[i])) = Len(queue[i]) - 1
          /\ Head(queue[i]) \in Stamp
      BY <3>1, <3>2
    <3>4. /\ queue' \in [Lidar -> Seq(Stamp)]
          /\ held' \in [Lidar -> Nat]
          /\ published' \in [Lidar -> Stamp \cup {0}]
      BY <3>1, <3>3
    <3>5. \A j \in Lidar : Len(queue'[j]) + held'[j] <= QueueSize
      BY <3>1, <3>2, <3>3
    <3>6. unseen' # NoLidar => Len(queue'[unseen']) > 0
      BY <3>0, <3>1, <3>2, <3>3
    <3>. QED BY <2>1, <3>0, <3>4, <3>5, <3>6
  <2>2. CASE Visible(poll.i) = 0 /\ PollTo("poll", poll.i) /\ UNCHANGED ringVars
    <3>1. poll' \in Poll /\ poll'.i = poll.i /\ poll.i \in Lidar
      BY <1>10, <2>2 DEF PublishPointcloud, PollTo, Poll
    <3>. QED BY <1>10, <2>2, <3>1 DEF PublishPointcloud
  <2>. QED BY <1>10, <2>1, <2>2 DEF PublishPointcloud
<1>11. CASE CheckFuture
  BY <1>11, <1>a DEF CheckFuture, PollTo, Poll
<1>12. CASE DrainWr
  BY <1>12 DEF DrainWr
<1>13. ASSUME NEW i \in Lidar, DrainRd(i) PROVE TypeInv'
  <2>1. /\ held' \in [Lidar -> Nat]
        /\ \A j \in Lidar : Len(queue'[j]) + held'[j] <= QueueSize
    BY <1>13 DEF DrainRd
  <2>. QED BY <1>13, <2>1 DEF DrainRd
<1>14. ASSUME NEW i \in Lidar, BecomeSampling(i) PROVE TypeInv'
  BY <1>14 DEF BecomeSampling
<1>15. CASE RequestExit
  BY <1>15 DEF RequestExit
<1>16. CASE Destroy
  BY <1>16 DEF Destroy, SetExitSignal, JoinPointCloud
<1>17. CASE UNCHANGED vars
  BY <1>17 DEF vars
<1>. QED
  BY <1>1, <1>2, <1>3, <1>4, <1>5, <1>6, <1>7, <1>8, <1>9, <1>10, <1>11, <1>12,
     <1>13, <1>14, <1>15, <1>16, <1>17 DEF Next, ProcessStep, PollStep, Drain

\* Every variable stays in its domain.
THEOREM TypeCorrect == Spec => []TypeOK
<1>1. TypeInv => TypeOK
  BY DEF TypeInv
<1>. QED
  BY TypeInit, TypeStep, <1>1, PTL DEF Spec

-------------------------------------------------------------------------------
(***************************************************************************)
(* Wake-ups.  The count is 0 from the unlocked read that finds it so until *)
(* the signal, since only the poll thread changes it in between, downwards.*)
(***************************************************************************)

WakeInv ==
  /\ pcd_count <= 1
  /\ proc.pc = "signal" => pcd_count = 0

LEMMA WakeStep == TypeInv /\ WakeInv /\ [Next]_vars => WakeInv'
<1>. SUFFICES ASSUME TypeInv, WakeInv, [Next]_vars PROVE WakeInv'
  OBVIOUS
<1>0. proc \in Process /\ pcd_count \in Nat
  BY DEF TypeInv, TypeOK
<1>. USE DEF WakeInv, wakeVars
<1>1. ASSUME NEW lidars \in (SUBSET Lidar) \ {{}}, NewFrame(lidars) PROVE WakeInv'
  BY <1>0, <1>1 DEF NewFrame, Process
<1>2. ASSUME NEW i \in Lidar, Store(i) PROVE WakeInv'
  BY <1>0, <1>2 DEF Store, Process
<1>3. CASE CheckEmpty
  BY <1>0, <1>3, NextLidarType DEF CheckEmpty, Process
<1>4. CASE CheckCount
  BY <1>0, <1>4, NextLidarType DEF CheckCount, Process
<1>5. CASE Signal
  BY <1>0, <1>5, NextLidarType DEF Signal
<1>6. CASE PollStep
  <2>1. UNCHANGED proc /\ (UNCHANGED pcd_count \/ (pcd_count > 0 /\ pcd_count' = pcd_count - 1))
    BY <1>6 DEF PollStep, DistributeBegin, Wait, Scan, PollingLidarPointCloudData,
                PublishPointcloud, CheckFuture
  <2>. QED BY <1>0, <2>1
<1>7. CASE UNCHANGED <<wakeVars, proc>>
  BY <1>7
<1>8. Drain \/ (\E i \in Lidar : BecomeSampling(i)) \/ RequestExit \/ Destroy \/ UNCHANGED vars
        => UNCHANGED <<wakeVars, proc>>
  BY DEF Drain, DrainWr, DrainRd, BecomeSampling, RequestExit, Destroy, SetExitSignal, JoinPointCloud, vars
<1>. QED
  BY <1>1, <1>2, <1>3, <1>4, <1>5, <1>6, <1>7, <1>8 DEF Next, ProcessStep

\* Wake-ups never pile up, although the count is read without its lock and
\* incremented later.
THEOREM WakeUpsDoNotPileUp == Spec => []OneWakeUp
<1>1. Init => WakeInv
  BY DEF Init, WakeInv
<1>2. WakeInv => OneWakeUp
  BY DEF WakeInv, OneWakeUp
<1>. QED
  BY TypeInit, TypeStep, WakeStep, <1>1, <1>2, PTL DEF Spec

-------------------------------------------------------------------------------
(***************************************************************************)
(* The ring as a FrameFifo.                                                *)
(***************************************************************************)

LEMMA FifoInit == Init => \A i \in Lidar : Fifo(i)!Init
BY DEF Init, Fifo!Init, Visible, Lidar, NoLidar

\* Every step is a step of the abstract queue of each ring, or leaves it alone.
LEMMA FifoStep ==
  ASSUME TypeInv, [Next]_vars, NEW i \in Lidar
  PROVE  Fifo(i)!Next \/ UNCHANGED Fifo(i)!vars
<1>0. /\ queue \in [Lidar -> Seq(Stamp)] /\ queue[i] \in Seq(Stamp) /\ Len(queue[i]) \in Nat
      /\ held \in [Lidar -> Nat] /\ held[i] \in Nat
      /\ unseen = i => Len(queue[i]) > 0
      /\ published \in [Lidar -> Stamp \cup {0}]
      /\ i # NoLidar
  BY HandoffAssumption DEF TypeInv, TypeOK, Lidar, NoLidar
<1>. DEFINE v == Visible(i)
<1>. USE DEF ringVars
<1>1. ASSUME UNCHANGED <<queue[i], held[i], published[i]>>, unseen = i <=> unseen' = i
      PROVE  UNCHANGED Fifo(i)!vars
  BY <1>1 DEF Fifo!vars, Visible
<1>2. ASSUME NEW j \in Lidar, Store(j) PROVE Fifo(i)!Next \/ UNCHANGED Fifo(i)!vars
  <2>1. CASE j = i /\ ~QueueIsFull(i)
    <3>1. /\ queue' = [queue EXCEPT ![i] = Append(@, proc.frame)]
          /\ unseen = NoLidar /\ unseen' = i
          /\ UNCHANGED <<held, published>>
          /\ proc.frame \in Stamp
      BY <1>2, <2>1 DEF Store, TypeInv, Places
    <3>2. Len(queue[i]) + held[i] < QueueSize
      BY <1>0, <2>1, HandoffAssumption DEF QueueIsFull
    <3>3. queue'[i] = Append(queue[i], proc.frame)
      BY <1>0, <3>1
    <3>4. Visible(i)' = Visible(i)
      BY <1>0, <3>1, <3>3 DEF Visible
    <3>5. Fifo(i)!Push(proc.frame)
      BY <3>1, <3>2, <3>3, <3>4 DEF Fifo!Push
    <3>. QED BY <3>1, <3>5 DEF Fifo!Next
  <2>2. CASE j # i \/ QueueIsFull(i)
    <3>1. UNCHANGED <<queue[i], held[i], published[i]>> /\ (unseen = i <=> unseen' = i)
      BY <1>0, <1>2, <2>2 DEF Store
    <3>. QED BY <1>1, <3>1
  <2>. QED BY <2>1, <2>2
<1>3. ASSUME PublishPointcloud PROVE Fifo(i)!Next \/ UNCHANGED Fifo(i)!vars
  <2>1. CASE poll.i = i /\ Visible(i) > 0
    <3>1. /\ queue' = [queue EXCEPT ![i] = Tail(@)]
          /\ held' = [held EXCEPT ![i] = @ + 1]
          /\ published' = [published EXCEPT ![i] = Head(queue[i])]
          /\ unseen' = unseen
      BY <1>3, <2>1 DEF PublishPointcloud
    <3>2. /\ queue'[i] = Tail(queue[i])
          /\ held'[i] = held[i] + 1
          /\ published'[i] = Head(queue[i])
      BY <1>0, <3>1
    <3>3. Len(queue[i]) > 0 /\ Len(queue'[i]) = Len(queue[i]) - 1
      BY <1>0, <2>1, <3>2 DEF Visible
    <3>4. Visible(i)' = Visible(i) - 1
      BY <1>0, <3>1, <3>3 DEF Visible
    <3>5. Fifo(i)!Pop
      BY <2>1, <3>2, <3>4 DEF Fifo!Pop
    <3>. QED BY <3>5 DEF Fifo!Next
  <2>2. CASE ~(poll.i = i /\ Visible(i) > 0)
    <3>1. UNCHANGED <<queue[i], held[i], published[i]>> /\ unseen' = unseen
      BY <1>0, <1>3, <2>2 DEF PublishPointcloud
    <3>. QED BY <1>1, <3>1
  <2>. QED BY <2>1, <2>2
<1>4. ASSUME DrainWr PROVE Fifo(i)!Next \/ UNCHANGED Fifo(i)!vars
  <2>1. CASE unseen = i
    <3>1. UNCHANGED <<queue, held, published>> /\ unseen' = NoLidar
      BY <1>4 DEF DrainWr
    <3>2. Visible(i) < Len(queue[i]) /\ Visible(i)' = Visible(i) + 1
      BY <1>0, <2>1, <3>1 DEF Visible
    <3>. QED BY <3>1, <3>2 DEF Fifo!Next, Fifo!Show
  <2>2. CASE unseen # i
    BY <1>0, <1>1, <1>4, <2>2 DEF DrainWr
  <2>. QED BY <2>1, <2>2
<1>5. ASSUME NEW j \in Lidar, DrainRd(j) PROVE Fifo(i)!Next \/ UNCHANGED Fifo(i)!vars
  <2>1. CASE j = i
    <3>1. held[i] > 0 /\ held'[i] = held[i] - 1 /\ UNCHANGED <<queue, unseen, published>>
      BY <1>0, <1>5, <2>1 DEF DrainRd
    <3>2. Visible(i)' = Visible(i)
      BY <3>1 DEF Visible
    <3>. QED BY <3>1, <3>2 DEF Fifo!Next, Fifo!Release
  <2>2. CASE j # i
    BY <1>0, <1>1, <1>5, <2>2 DEF DrainRd
  <2>. QED BY <2>1, <2>2
<1>6. ASSUME UNCHANGED ringVars PROVE UNCHANGED Fifo(i)!vars
  BY <1>1, <1>6
<1>7. \/ \E j \in Lidar : Store(j) \/ DrainRd(j)
      \/ PublishPointcloud
      \/ DrainWr
      \/ UNCHANGED ringVars
  BY DEF Next, vars, ProcessStep, PollStep, Drain, NewFrame, CheckEmpty, CheckCount, Signal,
         DistributeBegin, Wait, Scan, PollingLidarPointCloudData, CheckFuture,
         BecomeSampling, RequestExit, Destroy, SetExitSignal, JoinPointCloud
<1>. QED
  BY <1>2, <1>3, <1>4, <1>5, <1>6, <1>7

\* The rings, as this protocol uses them, are queues of the kind LidarDataQueue
\* implements: a packet is pushed only while there is room and popped only when
\* it is visible.
THEOREM RingsAreUsedAsFifos == Spec => UsesFifo
<1>1. TypeInv /\ [Next]_vars => [\A i \in Lidar : Fifo(i)!Next \/ UNCHANGED Fifo(i)!vars]_vars
  BY FifoStep
<1>. QED
  BY TypeInit, TypeStep, FifoInit, <1>1, PTL DEF Spec, UsesFifo

-------------------------------------------------------------------------------
(***************************************************************************)
(* What may be left in a ring.  A ring is covered while a wake-up is there *)
(* or on its way, while the process thread is about to look at that very   *)
(* ring, and while the poll thread's round has not come past it.           *)
(***************************************************************************)

Covered(i) ==
  \/ pcd_count > 0
  \/ proc.pc \in {"count", "signal"}
  \/ proc.pc = "empty" /\ proc.at = i
  \/ poll.pc \in {"scan", "poll", "publish"} /\ poll.i <= i

\* The store of wr_idx that is still buffered is that of the packet the process
\* thread is busy with, unless the read of the count has overtaken it.
Buffered ==
  /\ proc.pc = "empty" => unseen \in {NoLidar, proc.at}
  /\ ~overtook /\ unseen # NoLidar => proc.pc \in {"empty", "count"} /\ proc.at = unseen

InService == supported /\ ~request_exit

\* Nothing is left in a ring that is not covered, unless the count was read early.
Kept == InService /\ ~overtook =>
  \A i \in Lidar \ Late : ~Covered(i) => queue[i] = << >>

\* Otherwise one packet is, in all such rings together; and while a store is still
\* buffered, it is in the ring of that store.
Behind == InService =>
  /\ \A i, j \in Lidar \ Late : ~Covered(i) /\ ~Covered(j) =>
       \A k \in 1 .. Len(queue[i]), l \in 1 .. Len(queue[j]) : i = j /\ k = l
  /\ unseen # NoLidar /\ proc.pc \in {"idle", "store"} =>
       \A i \in Lidar \ Late : ~Covered(i) /\ i # unseen => queue[i] = << >>

LEMMA BufferedStep == TypeInv /\ Buffered /\ [Next]_vars => Buffered'
<1>. SUFFICES ASSUME TypeInv, Buffered, [Next]_vars PROVE Buffered'
  OBVIOUS
<1>0. /\ proc \in Process
      /\ unseen # NoLidar => Len(queue[unseen]) > 0
      /\ \A i \in Lidar : Len(queue[i]) \in Nat /\ held[i] \in Nat
      /\ proc.pc = "empty" => proc.at \in Lidar
  BY DEF TypeInv, TypeOK, Places
<1>. USE DEF Buffered, ringVars, wakeVars
<1>1. ASSUME NEW lidars \in (SUBSET Lidar) \ {{}}, NewFrame(lidars) PROVE Buffered'
  BY <1>0, <1>1 DEF NewFrame, Process
<1>2. ASSUME NEW i \in Lidar, Store(i) PROVE Buffered'
  BY <1>0, <1>2 DEF Store, Process
<1>3. CASE CheckEmpty
  <2>1. CASE QueueIsEmpty(proc.at)
    <3>1. proc' = NextLidar(proc) /\ UNCHANGED <<unseen, overtook>> /\ proc.pc = "empty"
      BY <1>3, <2>1 DEF CheckEmpty
    <3>2. unseen = NoLidar
      BY <1>0, <2>1, <3>1 DEF QueueIsEmpty
    <3>. QED BY <1>0, <3>1, <3>2, NextLidarType
  <2>2. CASE ~QueueIsEmpty(proc.at)
    BY <1>0, <1>3, <2>2 DEF CheckEmpty, Process
  <2>. QED BY <2>1, <2>2
<1>4. CASE CheckCount
  <2>1. proc'.pc \in {"signal", "idle", "store"} /\ overtook' = (overtook \/ unseen # NoLidar)
        /\ unseen' = unseen
    BY <1>0, <1>4, NextLidarType DEF CheckCount, Process
  <2>. QED BY <2>1
<1>5. CASE Signal
  <2>1. proc'.pc \in {"idle", "store"} /\ unseen' = NoLidar
    BY <1>0, <1>5, NextLidarType DEF Signal
  <2>. QED BY <2>1
<1>6. CASE DrainWr
  BY <1>6 DEF DrainWr
<1>7. CASE UNCHANGED <<unseen, overtook, proc>>
  BY <1>7
<1>8. PollStep \/ (\E i \in Lidar : DrainRd(i) \/ BecomeSampling(i)) \/ RequestExit \/ Destroy
        \/ UNCHANGED vars => UNCHANGED <<unseen, overtook, proc>>
  BY DEF PollStep, DistributeBegin, Wait, Scan, PollingLidarPointCloudData, PublishPointcloud,
         CheckFuture, DrainRd, BecomeSampling, RequestExit, Destroy, SetExitSignal, JoinPointCloud, vars
<1>. QED
  BY <1>1, <1>2, <1>3, <1>4, <1>5, <1>6, <1>7, <1>8 DEF Next, ProcessStep, Drain

\* The poll thread moves on from a ring in which it sees nothing.
Passed(i) ==
  /\ poll.pc = "poll" /\ poll.i = i
  /\ Visible(i) = 0
  /\ UNCHANGED <<ringVars, wakeVars, proc>>

\* A ring that is not covered after a step is as it was, and was not covered either,
\* or is empty, or has just been passed.
LEMMA Uncovered ==
  ASSUME TypeInv, [Next]_vars, InService', NEW i \in Lidar \ Late, ~Covered(i)'
  PROVE  /\ InService
         /\ queue'[i] = queue[i]
         /\ ~Covered(i) \/ queue[i] = << >> \/ Passed(i)
<1>. DEFINE Goal == /\ InService
                    /\ queue'[i] = queue[i]
                    /\ ~Covered(i) \/ queue[i] = << >> \/ Passed(i)
<1>0. /\ proc \in Process /\ poll \in Poll /\ pcd_count \in Nat
      /\ queue \in [Lidar -> Seq(Stamp)]
      /\ \A j \in Lidar : Len(queue[j]) \in Nat /\ held[j] \in Nat
      /\ connect_state[i] = "sampling"
      /\ i \in Lidar /\ i \in 1 .. NLidar /\ NLidar \in Nat
      /\ Places
  BY HandoffAssumption DEF TypeInv, TypeOK, OnTime, Lidar
<1>. USE DEF InService, ringVars, wakeVars, exitVars
<1>1. ASSUME NEW lidars \in (SUBSET Lidar) \ {{}}, NewFrame(lidars) PROVE Goal
  BY <1>0, <1>1 DEF NewFrame, Covered
<1>2. ASSUME NEW j \in Lidar, Store(j) PROVE Goal
  <2>1. CASE QueueIsFull(j)
    BY <1>0, <1>2, <2>1 DEF Store, Covered, Process
  <2>2. CASE ~QueueIsFull(j)
    <3>1. /\ queue' = [queue EXCEPT ![j] = Append(@, proc.frame)]
          /\ proc.pc = "store" /\ proc'.pc = "empty" /\ proc'.at = j
          /\ UNCHANGED <<wakeVars, poll, exitVars>>
      BY <1>0, <1>2, <2>2 DEF Store, Process
    <3>2. i # j
      BY <3>1 DEF Covered
    <3>. QED BY <1>0, <3>1, <3>2 DEF Covered
  <2>. QED BY <2>1, <2>2
<1>3. CASE CheckEmpty
  <2>1. CASE QueueIsEmpty(proc.at)
    <3>1. /\ UNCHANGED <<queue, wakeVars, poll, exitVars>>
          /\ proc.pc = "empty" /\ proc.at \in Lidar
      BY <1>0, <1>3 DEF CheckEmpty, Places
    <3>2. Len(queue[proc.at]) = 0
      <4>1. Len(queue[proc.at]) \in Nat /\ held[proc.at] \in Nat
        BY <1>0, <3>1
      <4>2. Len(queue[proc.at]) + held[proc.at] = 0
        BY <2>1 DEF QueueIsEmpty
      <4>. QED BY <4>1, <4>2
    <3>4. queue[proc.at] \in Seq(Stamp)
      BY <1>0, <3>1
    <3>3. queue[proc.at] = << >>
      BY <3>2, <3>4
    <3>. QED BY <3>1, <3>3 DEF Covered
  <2>2. CASE ~QueueIsEmpty(proc.at)
    BY <1>0, <1>3, <2>2 DEF CheckEmpty, Covered, Process
  <2>. QED BY <2>1, <2>2
<1>4. CASE CheckCount
  BY <1>0, <1>4 DEF CheckCount, Covered, Process
<1>5. CASE Signal
  BY <1>0, <1>5 DEF Signal, Covered
<1>6. CASE PollStep
  <2>0. UNCHANGED <<proc, exitVars>>
    BY <1>6 DEF PollStep, DistributeBegin, Wait, Scan, PollingLidarPointCloudData,
                PublishPointcloud, CheckFuture
  <2>1. CASE DistributeBegin
    BY <2>1 DEF DistributeBegin, PollTo, Covered
  <2>2. CASE Wait
    BY <1>0, <2>2 DEF Wait, PollTo, Covered
  <2>3. CASE Scan
    <3>1. poll.pc = "scan" /\ UNCHANGED <<ringVars, wakeVars, proc, exitVars>>
      BY <2>3 DEF Scan
    <3>2. CASE poll.i <= i
      <4>1. poll.i <= NLidar /\ poll.i \in Nat
        BY <1>0, <3>2 DEF Poll
      <4>2. CASE connect_state[poll.i] = "sampling"
        BY <1>0, <2>3, <3>2, <4>1, <4>2 DEF Scan, PollTo, Covered
      <4>3. CASE connect_state[poll.i] # "sampling"
        <5>1. poll.i # i /\ poll' = [pc |-> "scan", i |-> poll.i + 1]
          BY <1>0, <2>3, <4>1, <4>3 DEF Scan, PollTo
        <5>2. poll.i + 1 <= i
          BY <1>0, <3>2, <4>1, <5>1
        <5>. QED BY <5>1, <5>2 DEF Covered
      <4>. QED BY <4>2, <4>3
    <3>3. CASE ~(poll.i <= i)
      BY <3>1, <3>3 DEF Covered
    <3>. QED BY <3>2, <3>3
  <2>4. CASE PollingLidarPointCloudData
    <3>0. /\ poll.pc = "poll" /\ UNCHANGED <<ringVars, wakeVars, proc, exitVars>>
      BY <2>4 DEF PollingLidarPointCloudData
    <3>1. /\ poll.pc = "poll" /\ poll.i \in Lidar /\ poll.i \in Nat
          /\ UNCHANGED <<ringVars, wakeVars, proc, exitVars>>
      <4>1. poll.i \in Lidar
        BY <1>0, <3>0 DEF Places
      <4>2. poll.i \in Nat
        BY <4>1 DEF Lidar
      <4>. QED BY <3>0, <4>1, <4>2
    <3>2. CASE Visible(poll.i) = 0
      <4>1. CASE poll.i = i
        BY <3>1, <3>2, <4>1 DEF Passed
      <4>2. CASE poll.i # i
        <5>1. poll' = [pc |-> "scan", i |-> poll.i + 1]
              \/ poll' = [pc |-> "publish", i |-> poll.i]
          BY <2>4 DEF PollingLidarPointCloudData, PollTo
        <5>2. poll.i <= i => poll.i + 1 <= i
          BY <1>0, <3>1, <4>2
        <5>. QED BY <3>1, <5>1, <5>2 DEF Covered
      <4>. QED BY <4>1, <4>2
    <3>3. CASE Visible(poll.i) # 0
      BY <2>4, <3>1, <3>3 DEF PollingLidarPointCloudData, PollTo, Covered
    <3>. QED BY <3>2, <3>3
  <2>5. CASE PublishPointcloud
    <3>1. /\ poll.pc = "publish" /\ poll.i \in Lidar
          /\ poll'.pc \in {"poll", "publish"} /\ poll'.i = poll.i
          /\ UNCHANGED <<wakeVars, proc, exitVars>>
      <4>1. poll.pc = "publish" /\ UNCHANGED <<wakeVars, proc, exitVars>>
        BY <2>5 DEF PublishPointcloud
      <4>2. poll' = poll \/ poll' = [pc |-> "poll", i |-> poll.i]
        BY <2>5 DEF PublishPointcloud, PollTo
      <4>3. poll.i \in Lidar
        BY <1>0, <4>1 DEF Places
      <4>4. poll'.pc \in {"poll", "publish"} /\ poll'.i = poll.i
        BY <4>1, <4>2
      <4>. QED BY <4>1, <4>3, <4>4
    <3>2. poll.i # i
      BY <1>0, <3>1 DEF Covered
    <3>3. queue'[i] = queue[i]
      BY <1>0, <2>5, <3>2 DEF PublishPointcloud
    <3>. QED BY <3>1, <3>3 DEF Covered
  <2>6. CASE CheckFuture
    BY <2>6 DEF CheckFuture, PollTo, Covered
  <2>. QED BY <1>6, <2>1, <2>2, <2>3, <2>4, <2>5, <2>6 DEF PollStep
<1>7. CASE UNCHANGED <<queue, wakeVars, proc, poll, request_exit, supported>>
  BY <1>7 DEF Covered
<1>8. Drain \/ (\E j \in Lidar : BecomeSampling(j)) \/ Destroy \/ UNCHANGED vars
        => UNCHANGED <<queue, wakeVars, proc, poll, request_exit, supported>>
  BY DEF Drain, DrainWr, DrainRd, BecomeSampling, Destroy, SetExitSignal, JoinPointCloud, vars
<1>9. ~RequestExit
  BY DEF RequestExit
<1>. QED
  BY <1>1, <1>2, <1>3, <1>4, <1>5, <1>6, <1>7, <1>8, <1>9 DEF Next, ProcessStep

\* A buffered store is an old one or the one just made, and only a signal ends
\* the time in which the count has been read early.
LEMMA StoreBuffer ==
  ASSUME TypeInv, [Next]_vars
  PROVE  /\ unseen' = unseen \/ unseen' = NoLidar \/ proc'.pc = "empty"
         /\ ~overtook' => ~overtook \/ pcd_count' > 0
         /\ ~ proc.pc = "empty" \/ UNCHANGED proc \/ CheckEmpty
<1>0. proc \in Process /\ pcd_count \in Nat
  BY DEF TypeInv, TypeOK
<1>. USE DEF ringVars, wakeVars
<1>1. ASSUME NEW i \in Lidar, Store(i)
      PROVE  overtook' = overtook /\ (unseen' = unseen \/ proc'.pc = "empty") /\ proc.pc = "store"
  BY <1>0, <1>1 DEF Store, Process
<1>2. Signal => proc.pc = "signal" /\ pcd_count' > 0 /\ unseen' = unseen
  BY <1>0 DEF Signal
<1>3. CheckCount => proc.pc = "count" /\ unseen' = unseen /\ (~overtook' => ~overtook)
  BY DEF CheckCount
<1>4. CheckEmpty => UNCHANGED <<unseen, overtook>>
  BY DEF CheckEmpty
<1>5. DrainWr => UNCHANGED <<overtook, proc, pcd_count>> /\ unseen' = NoLidar
  BY DEF DrainWr
<1>6. PollStep => UNCHANGED <<overtook, proc, unseen>>
  BY DEF PollStep, DistributeBegin, Wait, Scan, PollingLidarPointCloudData, PublishPointcloud,
         CheckFuture
<1>7. ASSUME NEW lidars \in (SUBSET Lidar) \ {{}}, NewFrame(lidars)
      PROVE  proc.pc = "idle" /\ UNCHANGED <<overtook, unseen>>
  BY <1>7 DEF NewFrame
<1>8. \/ \E i \in Lidar : DrainRd(i) \/ BecomeSampling(i)
      \/ RequestExit \/ Destroy \/ UNCHANGED vars
      => UNCHANGED <<overtook, proc, unseen, pcd_count>>
  BY DEF DrainRd, BecomeSampling, RequestExit, Destroy, SetExitSignal, JoinPointCloud, vars
<1>9. CASE CheckEmpty \/ CheckCount \/ Signal
  BY <1>2, <1>3, <1>4, <1>9
<1>10. CASE DrainWr \/ PollStep
  BY <1>5, <1>6, <1>10
<1>. QED
  BY <1>1, <1>7, <1>8, <1>9, <1>10 DEF Next, ProcessStep, Drain

\* A ring passed is one whose only packet, if any, is in the store buffer: the
\* process thread is past it and the count was read early.
LEMMA PassedRing ==
  ASSUME TypeInv, Buffered, NEW i \in Lidar \ Late, Passed(i), ~Covered(i)'
  PROVE  \/ queue[i] = << >>
         \/ Len(queue[i]) = 1 /\ unseen = i /\ proc.pc \in {"idle", "store"} /\ overtook
<1>1. /\ queue[i] \in Seq(Stamp) /\ Len(queue[i]) \in Nat /\ i # NoLidar
      /\ proc \in Process
  BY HandoffAssumption DEF TypeInv, TypeOK, Lidar, NoLidar
<1>2. proc.pc \notin {"count", "signal"} /\ ~(proc.pc = "empty" /\ proc.at = i)
  BY DEF Passed, Covered
<1>3. CASE unseen = i
  <2>1. Len(queue[i]) = 1
    BY <1>1, <1>3 DEF Passed, Visible
  <2>2. proc.pc \in {"idle", "store"}
    BY <1>1, <1>2, <1>3 DEF Buffered, Process
  <2>3. overtook
    BY <1>1, <1>2, <1>3 DEF Buffered
  <2>. QED BY <1>3, <2>1, <2>2, <2>3
<1>4. CASE unseen # i
  <2>1. Len(queue[i]) = 0
    BY <1>1, <1>4 DEF Passed, Visible
  <2>. QED BY <1>1, <2>1
<1>. QED BY <1>3, <1>4

LEMMA KeptStep == TypeInv /\ Buffered /\ Kept /\ [Next]_vars => Kept'
<1>. SUFFICES ASSUME TypeInv, Buffered, Kept, [Next]_vars, InService', ~overtook',
                     NEW i \in Lidar \ Late, ~Covered(i)'
              PROVE  queue'[i] = << >>
  BY DEF Kept
<1>1. InService /\ queue'[i] = queue[i] /\ (~Covered(i) \/ queue[i] = << >> \/ Passed(i))
  BY Uncovered
<1>2. ~overtook
  BY StoreBuffer DEF Covered
<1>3. CASE Passed(i)
  BY <1>1, <1>2, <1>3, PassedRing
<1>4. CASE ~Covered(i)
  BY <1>1, <1>2, <1>4 DEF Kept
<1>. QED BY <1>1, <1>3, <1>4

LEMMA BehindStep == TypeInv /\ Buffered /\ Behind /\ [Next]_vars => Behind'
<1>. SUFFICES ASSUME TypeInv, Buffered, Behind, [Next]_vars, InService' PROVE Behind'
  BY DEF Behind
<1>. DEFINE Open(i) == i \in Lidar \ Late /\ ~Covered(i)'
<1>1. ASSUME NEW i, Open(i)
      PROVE  InService /\ queue'[i] = queue[i] /\ (~Covered(i) \/ queue[i] = << >> \/ Passed(i))
  BY <1>1, Uncovered
<1>2. ASSUME NEW i, Open(i), Passed(i), queue[i] # << >>, NEW j, Open(j), j # i
      PROVE  queue[j] = << >>
  <2>1. unseen = i /\ proc.pc \in {"idle", "store"} /\ unseen # NoLidar
    BY <1>2, PassedRing, HandoffAssumption DEF Lidar, NoLidar
  <2>2. ~Passed(j)
    BY <1>2 DEF Passed
  <2>3. CASE ~Covered(j)
    BY <1>1, <1>2, <2>1, <2>3 DEF Behind
  <2>. QED BY <1>1, <1>2, <2>2, <2>3
<1>3. ASSUME NEW i, NEW j, Open(i), Open(j),
             NEW k \in 1 .. Len(queue'[i]), NEW l \in 1 .. Len(queue'[j])
      PROVE  i = j /\ k = l
  <2>1. queue'[i] = queue[i] /\ queue[i] # << >> /\ queue'[j] = queue[j] /\ queue[j] # << >>
    BY <1>1, <1>3
  <2>2. CASE ~Covered(i) /\ ~Covered(j)
    BY <1>1, <1>3, <2>1, <2>2 DEF Behind
  <2>3. CASE Passed(i) \/ Passed(j)
    <3>1. i = j /\ Passed(i)
      BY <1>2, <1>3, <2>1, <2>3
    <3>2. Len(queue[i]) = 1
      BY <1>3, <2>1, <3>1, PassedRing
    <3>. QED BY <1>3, <2>1, <3>1, <3>2
  <2>. QED BY <1>1, <1>3, <2>1, <2>2, <2>3
<1>4. ASSUME unseen' # NoLidar, proc'.pc \in {"idle", "store"}, NEW i, Open(i), i # unseen'
      PROVE  queue'[i] = << >>
  <2>1. unseen' = unseen
    BY <1>4, StoreBuffer
  <2>2. CASE Passed(i)
    BY <1>1, <1>4, <2>1, <2>2, PassedRing
  <2>3. CASE ~Covered(i)
    <3>1. proc.pc # "empty"
      <4>1. SUFFICES ASSUME proc.pc = "empty", CheckEmpty PROVE FALSE
        BY <1>4, StoreBuffer
      <4>2. QueueIsEmpty(proc.at)
        BY <1>4, <4>1 DEF CheckEmpty, TypeInv, TypeOK, Process
      <4>3. unseen = proc.at /\ proc.at \in Lidar /\ Len(queue[proc.at]) \in Nat /\ Len(queue[proc.at]) > 0
            /\ held[proc.at] \in Nat
        BY <1>4, <2>1, <4>1 DEF Buffered, TypeInv, TypeOK, Places
      <4>. QED BY <4>2, <4>3 DEF QueueIsEmpty
    <3>2. proc.pc \in {"idle", "store"}
      BY <2>3, <3>1 DEF Covered, TypeInv, TypeOK, Process
    <3>. QED BY <1>1, <1>4, <2>1, <2>3, <3>2 DEF Behind
  <2>. QED BY <1>1, <1>4, <2>2, <2>3
<1>. QED
  BY <1>3, <1>4 DEF Behind

LeftInv == TypeInv /\ Buffered /\ Kept /\ Behind

LEMMA LeftInit == Init => LeftInv
<1>. SUFFICES ASSUME Init PROVE LeftInv
  OBVIOUS
<1>1. Buffered
  BY DEF Init, Buffered
<1>2. \A i \in Lidar : queue[i] = << >>
  BY DEF Init
<1>3. \A i \in Lidar : Len(queue[i]) = 0
  BY <1>2
<1>4. Kept
  BY <1>2 DEF Kept
<1>5. Behind
  BY <1>2, <1>3 DEF Behind
<1>. QED
  BY TypeInit, <1>1, <1>4, <1>5 DEF LeftInv

LEMMA LeftStep == LeftInv /\ [Next]_vars => LeftInv'
BY TypeStep, BufferedStep, KeptStep, BehindStep DEF LeftInv

\* Asleep, no ring is covered.
LEMMA AsleepUncovered == Asleep => \A i \in Lidar : ~Covered(i)
BY DEF Asleep, Covered

\* The unlocked read of the count loses a wake-up only by overtaking the store of
\* wr_idx: otherwise no packet of a sampling lidar is left when the poll thread sleeps.
THEOREM NoPacketStranded == Spec => []NothingStranded
<1>1. LeftInv => NothingStranded
  BY AsleepUncovered DEF LeftInv, Kept, InService, NothingStranded, Asleep
<1>. QED
  BY LeftInit, LeftStep, <1>1, PTL DEF Spec

\* And when it has overtaken it, one packet is left behind, in all rings together.
THEOREM OnePacketStranded == Spec => []StrandedAtMostOne
<1>1. LeftInv => StrandedAtMostOne
  BY AsleepUncovered DEF LeftInv, Behind, InService, StrandedAtMostOne, Asleep
<1>. QED
  BY LeftInit, LeftStep, <1>1, PTL DEF Spec
==============================================================================
