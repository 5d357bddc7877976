--------------------------- MODULE ImuHandoff_proofs ---------------------------
(***************************************************************************)
(* Proofs about the hand-over of IMU samples, for every number of lidars,  *)
(* samples and threads of the SDK, and every set of lidars that start late.*)
(***************************************************************************)
EXTENDS ImuHandoff, FiniteSetTheorems, TLAPS

-------------------------------------------------------------------------------
(***************************************************************************)
(* Types.                                                                  *)
(***************************************************************************)

\* The poll thread is inside the queue of a lidar.
PollPlace == poll.pc \in {"poll", "pop"} => poll.i \in Lidar

TypeInv == TypeOK /\ PollPlace

\* The poll thread's index goes from the first lidar to one past the last.
LEMMA LidarRange ==
  /\ 1 \in Lidar /\ 1 \in 1 .. NLidar + 1
  /\ \A i \in Lidar : i \in 1 .. NLidar + 1 /\ i + 1 \in 1 .. NLidar + 1
BY ImuAssumption DEF Lidar

LEMMA TypeInit == Init => TypeInv
<1>. SUFFICES ASSUME Init PROVE TypeInv
  OBVIOUS
<1>. USE DEF Init
<1>1. sdk \in [Thread -> Place] /\ poll \in Poll
  BY ImuAssumption, LidarRange DEF Place, Poll
<1>2. /\ imu_data \in [Lidar -> Seq(Nat)]
      /\ delivered \in [Lidar -> Nat] /\ published \in [Lidar -> Nat]
      /\ DOMAIN dropped = Lidar
      /\ \A i \in Lidar : delivered[i] \in 0 .. MaxImu[i] /\ dropped[i] \subseteq 1 .. delivered[i]
      /\ connect_state \in [Lidar -> {"off", "sampling"}]
  BY ImuAssumption
<1>3. TypeOK
  BY <1>1, <1>2 DEF TypeOK
<1>. QED
  BY <1>3 DEF TypeInv, PollPlace

\* A sample is delivered.
DeliveredTo(i) ==
  /\ delivered' \in [Lidar -> Nat]
  /\ delivered'[i] = delivered[i] + 1 /\ delivered'[i] \in 0 .. MaxImu[i]
  /\ \A j \in Lidar \ {i} : delivered'[j] = delivered[j]

LEMMA DeliverStep ==
  ASSUME TypeInv, NEW i \in Lidar, Deliver(i)
  PROVE  ThreadOf[i] \in Thread /\ DeliveredTo(i)
<1>1. /\ ThreadOf[i] \in Thread /\ MaxImu[i] \in Nat
      /\ delivered \in [Lidar -> Nat] /\ delivered[i] < MaxImu[i]
  BY ImuAssumption DEF TypeInv, TypeOK, Deliver
<1>2. delivered' = [delivered EXCEPT ![i] = delivered[i] + 1]
  BY DEF Deliver
<1>3. delivered[i] + 1 \in Nat /\ delivered[i] + 1 \in 0 .. MaxImu[i]
  BY <1>1
<1>. QED
  BY <1>1, <1>2, <1>3 DEF DeliveredTo

LEMMA TypeStep == TypeInv /\ [Next]_vars => TypeInv'
<1>. SUFFICES ASSUME TypeInv, [Next]_vars PROVE TypeInv'
  OBVIOUS
<1>. USE ImuAssumption DEF TypeInv, TypeOK, PollPlace, queueVars, exitVars
<1>1. ASSUME NEW i \in Lidar, Push(i) PROVE TypeInv'
  <2>. DEFINE t == ThreadOf[i]
              n == delivered[i] + 1
  <2>1. t \in Thread /\ DeliveredTo(i)
    BY <1>1, DeliverStep DEF Push
  <2>2. /\ imu_data' = [imu_data EXCEPT ![i] = Append(@, n)]
        /\ sdk' = [sdk EXCEPT ![t] = [pc |-> "empty", at |-> i]]
        /\ UNCHANGED <<dropped, published, connect_state, imu_count, poll, exitVars>>
    BY <1>1 DEF Push, Deliver
  <2>3. Append(imu_data[i], n) \in Seq(Nat) /\ Append(imu_data[i], n) # << >>
    <3>1. imu_data[i] \in Seq(Nat) /\ n \in Nat
      OBVIOUS
    <3>2. Append(imu_data[i], n) \in Seq(Nat)
          /\ Len(Append(imu_data[i], n)) = Len(imu_data[i]) + 1
          /\ Len(imu_data[i]) \in Nat
      BY <3>1
    <3>3. Append(imu_data[i], n) = << >> => Len(imu_data[i]) + 1 = 0
      BY <3>2
    <3>4. Len(imu_data[i]) + 1 # 0
      BY <3>2
    <3>. QED BY <3>2, <3>3, <3>4
  <2>4. sdk' \in [Thread -> Place]
    BY <2>1, <2>2 DEF Place
  <2>5. \A u \in Thread : sdk'[u].pc # "idle" => ThreadOf[sdk'[u].at] = u
    BY <2>1, <2>2
  <2>6. imu_data' \in [Lidar -> Seq(Nat)]
    BY <2>1, <2>2, <2>3
  <2>7. poll.pc = "pop" => imu_data'[poll.i] # << >>
    BY <2>2, <2>3
  <2>8. \A j \in Lidar : delivered'[j] \in 0 .. MaxImu[j] /\ dropped'[j] \subseteq 1 .. delivered'[j]
    <3>1. dropped'[i] \subseteq 1 .. delivered'[i]
      BY <2>1, <2>2 DEF DeliveredTo
    <3>. QED BY <2>1, <2>2, <3>1 DEF DeliveredTo
  <2>9. delivered' \in [Lidar -> Nat]
    BY <2>1 DEF DeliveredTo
  <2>. QED BY <2>2, <2>4, <2>5, <2>6, <2>7, <2>8, <2>9
<1>1a. ASSUME NEW i \in Lidar, Drop(i) PROVE TypeInv'
  <2>1. DeliveredTo(i)
    BY <1>1a, DeliverStep DEF Drop
  <2>2. /\ dropped' = [dropped EXCEPT ![i] = @ \cup {delivered[i] + 1}]
        /\ UNCHANGED <<imu_data, published, connect_state, imu_count, sdk, poll, exitVars>>
    BY <1>1a DEF Drop, Deliver
  <2>3. \A j \in Lidar : delivered'[j] \in 0 .. MaxImu[j] /\ dropped'[j] \subseteq 1 .. delivered'[j]
    <3>1. dropped'[i] \subseteq 1 .. delivered'[i]
      <4>1. dropped'[i] = dropped[i] \cup {delivered[i] + 1}
        BY <2>2
      <4>2. delivered'[i] = delivered[i] + 1 /\ delivered[i] \in Nat /\ dropped[i] \subseteq 1 .. delivered[i]
        BY <2>1 DEF DeliveredTo
      <4>. QED BY <4>1, <4>2
    <3>. QED BY <2>1, <2>2, <3>1 DEF DeliveredTo
  <2>4. delivered' \in [Lidar -> Nat] /\ DOMAIN dropped' = Lidar
    BY <2>1, <2>2 DEF DeliveredTo
  <2>. QED BY <2>2, <2>3, <2>4
<1>2. ASSUME NEW t \in Thread, SdkStep(t) PROVE TypeInv'
  <2>1. PICK pc \in {"idle", "count", "signal"} : SdkTo(t, pc) /\ sdk[t].pc # "idle"
    BY <1>2 DEF SdkStep, CheckEmpty, CheckCount, Signal
  <2>2. UNCHANGED <<queueVars, connect_state, poll, exitVars>> /\ imu_count' \in Nat
    BY <1>2 DEF SdkStep, CheckEmpty, CheckCount, Signal
  <2>3. sdk[t] \in Place /\ sdk' = [sdk EXCEPT ![t] = [sdk[t] EXCEPT !.pc = pc]]
    BY <2>1 DEF SdkTo
  <2>4. [sdk[t] EXCEPT !.pc = pc] \in Place /\ [sdk[t] EXCEPT !.pc = pc].at = sdk[t].at
    BY <2>3 DEF Place
  <2>5. sdk' \in [Thread -> Place] /\ sdk'[t].at = sdk[t].at
        /\ \A u \in Thread \ {t} : sdk'[u] = sdk[u]
    BY <2>3, <2>4
  <2>6. \A u \in Thread : sdk'[u].pc # "idle" => ThreadOf[sdk'[u].at] = u
    BY <2>1, <2>5
  <2>. QED BY <2>2, <2>5, <2>6
<1>3. CASE DistributeBegin
  BY LidarRange, <1>3 DEF DistributeBegin, PollTo, Poll
<1>4. CASE Wait
  BY LidarRange, <1>4 DEF Wait, PollTo, Poll
<1>5. CASE Scan
  <2>1. poll' \in Poll /\ (poll'.pc \in {"poll", "pop"} => poll'.i \in Lidar) /\ poll'.pc # "pop"
    BY <1>5 DEF Scan, PollTo, Poll, Lidar
  <2>. QED BY <1>5, <2>1 DEF Scan
<1>6. CASE PollingLidarImuData
  <2>1. poll.i \in Lidar
    BY <1>6 DEF PollingLidarImuData
  <2>3. \/ poll' = [pc |-> "scan", i |-> poll.i + 1]
        \/ poll' = [pc |-> "pop", i |-> poll.i] /\ imu_data[poll.i] # << >>
    BY <1>6 DEF PollingLidarImuData, PollTo
  <2>4. poll' \in Poll
    BY LidarRange, <2>1, <2>3 DEF Poll
  <2>. QED BY <1>6, <2>1, <2>3, <2>4 DEF PollingLidarImuData
<1>7. CASE PublishImuData
  <2>1. poll.i \in Lidar /\ imu_data[poll.i] \in Seq(Nat) /\ imu_data[poll.i] # << >>
    BY <1>7 DEF PublishImuData
  <2>2. Head(imu_data[poll.i]) \in Nat /\ Tail(imu_data[poll.i]) \in Seq(Nat)
    BY <2>1
  <2>3. /\ imu_data' = [imu_data EXCEPT ![poll.i] = Tail(@)]
        /\ published' = [published EXCEPT ![poll.i] = Head(imu_data[poll.i])]
        /\ poll' = [pc |-> "poll", i |-> poll.i]
        /\ UNCHANGED <<delivered, dropped, connect_state, imu_count, sdk, exitVars>>
    BY <1>7 DEF PublishImuData, PollTo
  <2>4. poll' \in Poll
    BY LidarRange, <2>1, <2>3 DEF Poll
  <2>5. imu_data' \in [Lidar -> Seq(Nat)] /\ published' \in [Lidar -> Nat]
    BY <2>1, <2>2, <2>3
  <2>. QED BY <2>1, <2>3, <2>4, <2>5
<1>8. CASE CheckFuture
  BY LidarRange, <1>8 DEF CheckFuture, PollTo, Poll
<1>9. ASSUME NEW i \in Lidar, BecomeSampling(i) PROVE TypeInv'
  BY <1>9 DEF BecomeSampling
<1>10. CASE RequestExit \/ SetExitSignal \/ JoinPointCloud \/ JoinImu
  BY <1>10 DEF RequestExit, SetExitSignal, JoinPointCloud, JoinImu, MainTo
<1>11. CASE UNCHANGED vars
  BY <1>11 DEF vars
<1>. QED
  BY <1>1, <1>1a, <1>2, <1>3, <1>4, <1>5, <1>6, <1>7, <1>8, <1>9, <1>10, <1>11 DEF Next, PollStep

\* Every variable stays in its domain; the poll thread never pops an empty queue.
THEOREM TypeCorrect == Spec => []TypeOK
<1>1. TypeInv => TypeOK
  BY DEF TypeInv
<1>. QED
  BY TypeInit, TypeStep, <1>1, PTL DEF Spec

-------------------------------------------------------------------------------
(***************************************************************************)
(* The samples.                                                            *)
(***************************************************************************)

Increasing(s) == \A j, k \in DOMAIN s : j < k => s[j] < s[k]
Elements(s) == {s[k] : k \in DOMAIN s}

\* Appending a greater number, and taking off the first.
LEMMA AppendIncreasing ==
  ASSUME NEW s \in Seq(Nat), NEW n \in Nat, Increasing(s), \A x \in Elements(s) : x < n
  PROVE  Increasing(Append(s, n)) /\ Elements(Append(s, n)) = Elements(s) \cup {n}
<1>1. /\ Len(s) \in Nat /\ DOMAIN s = 1 .. Len(s)
      /\ DOMAIN Append(s, n) = 1 .. Len(s) + 1
      /\ \A k \in 1 .. Len(s) : Append(s, n)[k] = s[k]
      /\ Append(s, n)[Len(s) + 1] = n
  OBVIOUS
<1>. DEFINE m == Len(s)
            r == Append(s, n)
<1>2. \A k \in 1 .. m + 1 : k \in 1 .. m \/ k = m + 1
  BY <1>1
<1>3. \A k \in 1 .. m : s[k] < n
  BY <1>1 DEF Elements
<1>4. ASSUME NEW j \in 1 .. m + 1, NEW k \in 1 .. m + 1, j < k PROVE r[j] < r[k]
  <2>1. j \in 1 .. m
    BY <1>1, <1>4
  <2>. QED BY <1>1, <1>2, <1>3, <1>4, <2>1 DEF Increasing
<1>5. Elements(r) = Elements(s) \cup {n}
  <2>. HIDE DEF r, m
  <2>1. ASSUME NEW x \in Elements(r) PROVE x \in Elements(s) \cup {n}
    BY <1>1, <1>2, <2>1 DEF Elements, r, m
  <2>2. ASSUME NEW x \in Elements(s) PROVE x \in Elements(r)
    <3>1. PICK k \in 1 .. m : x = s[k]
      BY <1>1, <2>2 DEF Elements, m
    <3>2. k \in DOMAIN r /\ r[k] = x
      BY <1>1, <3>1 DEF r, m
    <3>. QED BY <3>2 DEF Elements
  <2>3. n \in Elements(r)
    <3>1. m + 1 \in DOMAIN r /\ r[m + 1] = n
      BY <1>1 DEF r, m
    <3>. QED BY <3>1 DEF Elements
  <2>. QED BY <2>1, <2>2, <2>3
<1>. QED
  BY <1>1, <1>4, <1>5 DEF Increasing

LEMMA TailIncreasing ==
  ASSUME NEW s \in Seq(Nat), s # << >>, Increasing(s)
  PROVE  /\ Increasing(Tail(s)) /\ Head(s) \in Elements(s)
         /\ \A x \in Elements(s) : Head(s) <= x
         /\ Elements(Tail(s)) = Elements(s) \ {Head(s)}
<1>. DEFINE m == Len(s)
            r == Tail(s)
<1>1. /\ m \in Nat /\ m > 0 /\ DOMAIN s = 1 .. m /\ Head(s) = s[1] /\ DOMAIN r = 1 .. m - 1
      /\ \A k \in 1 .. m - 1 : r[k] = s[k + 1]
      /\ \A k \in 1 .. m : s[k] \in Nat
  OBVIOUS
<1>. HIDE DEF m, r
<1>2. 1 \in 1 .. m /\ \A k \in 1 .. m - 1 : k + 1 \in 1 .. m /\ 1 < k + 1
  BY <1>1
<1>3. \A k \in 1 .. m : k = 1 \/ (k - 1 \in 1 .. m - 1 /\ (k - 1) + 1 = k)
  BY <1>1
<1>4. \A j, k \in 1 .. m : j < k => s[j] < s[k]
  BY <1>1 DEF Increasing
<1>5. Increasing(r)
  <2>1. ASSUME NEW j \in 1 .. m - 1, NEW k \in 1 .. m - 1, j < k PROVE r[j] < r[k]
    <3>1. j + 1 < k + 1 /\ j + 1 \in 1 .. m /\ k + 1 \in 1 .. m
      BY <1>1, <1>2, <2>1
    <3>2. s[j + 1] < s[k + 1]
      BY <1>4, <3>1
    <3>. QED BY <1>1, <3>2
  <2>. QED BY <1>1, <2>1 DEF Increasing
<1>6. \A k \in 1 .. m : k # 1 => Head(s) < s[k]
  <2>1. \A k \in 1 .. m : k # 1 => 1 < k
    BY <1>1
  <2>. QED BY <1>1, <1>2, <1>4, <2>1
<1>7. \A x \in Elements(s) : x = Head(s) \/ (Head(s) < x /\ x \in Elements(r))
  <2>1. ASSUME NEW k \in 1 .. m, k # 1 PROVE s[k] \in Elements(r)
    <3>1. k - 1 \in DOMAIN r /\ r[k - 1] = s[k]
      BY <1>1, <1>3, <2>1
    <3>. QED BY <3>1 DEF Elements
  <2>. QED BY <1>1, <1>6, <2>1 DEF Elements
<1>8. \A x \in Elements(r) : x \in Elements(s) /\ x # Head(s)
  <2>1. ASSUME NEW k \in 1 .. m - 1 PROVE r[k] \in Elements(s) /\ r[k] # Head(s)
    <3>1. k + 1 \in 1 .. m /\ k + 1 # 1 /\ r[k] = s[k + 1] /\ s[k + 1] \in Nat /\ s[1] \in Nat
      BY <1>1, <1>2
    <3>2. Head(s) < s[k + 1]
      BY <1>6, <3>1
    <3>3. s[k + 1] \in Elements(s)
      BY <1>1, <3>1 DEF Elements
    <3>. QED BY <1>1, <3>1, <3>2, <3>3
  <2>. QED BY <1>1, <2>1 DEF Elements
<1>9. Head(s) \in Elements(s) /\ Head(s) \in Nat
  BY <1>1, <1>2 DEF Elements
<1>10. Elements(s) \subseteq Nat
  BY <1>1 DEF Elements
<1>11. \A x \in Elements(s) : Head(s) <= x
  BY <1>7, <1>9, <1>10
<1>12. Elements(r) = Elements(s) \ {Head(s)}
  BY <1>7, <1>8
<1>. QED
  BY <1>5, <1>9, <1>11, <1>12 DEF r

\* The property of one lidar, of its four pieces of state.
Kept(s, p, d, lost) ==
  Increasing(s) /\ Elements(s) = (p + 1 .. d) \ lost /\ p \notin lost

LEMMA NoImuLostIsKept ==
  NoImuLost <=> \A i \in Lidar : Kept(imu_data[i], published[i], delivered[i], dropped[i])
BY DEF NoImuLost, Kept, Increasing, Elements, Queued

LEMMA KeptPush ==
  ASSUME NEW s \in Seq(Nat), NEW p \in Nat, NEW d \in Nat, NEW lost \in SUBSET (1 .. d),
         Kept(s, p, d, lost), p <= d
  PROVE  Kept(Append(s, d + 1), p, d + 1, lost)
<1>1. \A x \in Elements(s) : x < d + 1
  BY DEF Kept
<1>2. Increasing(Append(s, d + 1)) /\ Elements(Append(s, d + 1)) = Elements(s) \cup {d + 1}
  BY <1>1, AppendIncreasing DEF Kept
<1>3. ((p + 1 .. d) \ lost) \cup {d + 1} = (p + 1 .. d + 1) \ lost
  OBVIOUS
<1>. QED BY <1>2, <1>3 DEF Kept

LEMMA KeptDrop ==
  ASSUME NEW s, NEW p \in Nat, NEW d \in Nat, NEW lost \in SUBSET (1 .. d),
         Kept(s, p, d, lost), p <= d
  PROVE  Kept(s, p, d + 1, lost \cup {d + 1})
<1>1. (p + 1 .. d) \ lost = (p + 1 .. d + 1) \ (lost \cup {d + 1})
  OBVIOUS
<1>. QED BY <1>1 DEF Kept

LEMMA KeptPublish ==
  ASSUME NEW s \in Seq(Nat), s # << >>, NEW p \in Nat, NEW d \in Nat, NEW lost \in SUBSET Nat,
         Kept(s, p, d, lost)
  PROVE  Kept(Tail(s), Head(s), d, lost) /\ Head(s) <= d
<1>. DEFINE h == Head(s)
<1>1. /\ Increasing(Tail(s)) /\ h \in Elements(s) /\ (\A x \in Elements(s) : h <= x)
      /\ Elements(Tail(s)) = Elements(s) \ {h}
  BY TailIncreasing DEF Kept
<1>2. Elements(s) = (p + 1 .. d) \ lost
  BY DEF Kept
<1>. HIDE DEF h
<1>3. h \in p + 1 .. d /\ h \notin lost
  BY <1>1, <1>2
<1>4. ((p + 1 .. d) \ lost) \ {h} = (h + 1 .. d) \ lost
  <2>1. ASSUME NEW x \in (p + 1 .. d) \ lost, x # h PROVE x \in h + 1 .. d
    BY <1>1, <1>2, <1>3, <2>1
  <2>2. ASSUME NEW x \in h + 1 .. d PROVE x \in p + 1 .. d /\ x # h
    BY <1>3, <2>2
  <2>. QED BY <2>1, <2>2
<1>. QED BY <1>1, <1>2, <1>3, <1>4 DEF Kept, h

\* What has been published was delivered.
PublishedDelivered == \A i \in Lidar : published[i] <= delivered[i]

LEMMA SamplesStep ==
  TypeInv /\ NoImuLost /\ PublishedDelivered /\ [Next]_vars => NoImuLost' /\ PublishedDelivered'
<1>. SUFFICES ASSUME TypeInv, NoImuLost, PublishedDelivered, [Next]_vars, NEW i \in Lidar
              PROVE  /\ Kept(imu_data'[i], published'[i], delivered'[i], dropped'[i])
                     /\ published'[i] <= delivered'[i]
  <2>1. NoImuLost' <=> \A i \in Lidar : Kept(imu_data'[i], published'[i], delivered'[i], dropped'[i])
    BY DEF NoImuLost, Kept, Increasing, Elements, Queued
  <2>. QED BY <2>1 DEF PublishedDelivered
<1>. DEFINE q == imu_data[i]
            d == delivered[i]
<1>0. /\ q \in Seq(Nat) /\ published[i] \in Nat /\ d \in Nat /\ dropped[i] \in SUBSET (1 .. d)
      /\ Kept(q, published[i], d, dropped[i]) /\ published[i] <= d
  BY NoImuLostIsKept DEF TypeInv, TypeOK, PublishedDelivered
<1>1. CASE Push(i)
  <2>1. imu_data'[i] = Append(q, d + 1) /\ delivered'[i] = d + 1
        /\ published'[i] = published[i] /\ dropped'[i] = dropped[i]
    BY <1>1 DEF Push, Deliver, TypeInv, TypeOK
  <2>. HIDE DEF q, d
  <2>2. published[i] <= d + 1
    BY <1>0
  <2>. QED BY <1>0, <2>1, <2>2, KeptPush
<1>2. CASE Drop(i)
  <2>1. imu_data'[i] = q /\ delivered'[i] = d + 1
        /\ published'[i] = published[i] /\ dropped'[i] = dropped[i] \cup {d + 1}
    BY <1>2 DEF Drop, Deliver, TypeInv, TypeOK
  <2>. HIDE DEF q, d
  <2>2. published[i] <= d + 1
    BY <1>0
  <2>. QED BY <1>0, <2>1, <2>2, KeptDrop
<1>3. CASE PublishImuData /\ poll.i = i
  <2>1. imu_data'[i] = Tail(q) /\ published'[i] = Head(q) /\ q # << >>
        /\ delivered'[i] = d /\ dropped'[i] = dropped[i]
    BY <1>3 DEF PublishImuData, TypeInv, TypeOK
  <2>. HIDE DEF q, d
  <2>2. dropped[i] \in SUBSET Nat
    BY <1>0
  <2>. QED BY <1>0, <2>1, <2>2, KeptPublish
<1>4. CASE UNCHANGED <<imu_data[i], published[i], delivered[i], dropped[i]>>
  BY <1>0, <1>4
<1>5. \/ Push(i) \/ Drop(i) \/ (PublishImuData /\ poll.i = i)
      \/ UNCHANGED <<imu_data[i], published[i], delivered[i], dropped[i]>>
  <2>. USE DEF TypeInv, TypeOK, queueVars
  <2>. DEFINE Same == UNCHANGED <<imu_data[i], published[i], delivered[i], dropped[i]>>
  <2>1. ASSUME NEW j \in Lidar, Push(j) \/ Drop(j), j # i PROVE Same
    BY <2>1 DEF Push, Drop, Deliver
  <2>2. PublishImuData /\ poll.i # i => Same
    BY DEF PublishImuData
  <2>3. ASSUME NEW t \in Thread, SdkStep(t) PROVE UNCHANGED queueVars
    BY <2>3 DEF SdkStep, CheckEmpty, CheckCount, Signal
  <2>4. ASSUME NEW j \in Lidar, BecomeSampling(j) PROVE UNCHANGED queueVars
    BY <2>4 DEF BecomeSampling
  <2>5. DistributeBegin \/ Wait \/ Scan \/ PollingLidarImuData \/ CheckFuture \/ RequestExit
          \/ SetExitSignal \/ JoinPointCloud \/ JoinImu \/ UNCHANGED vars => UNCHANGED queueVars
    BY DEF DistributeBegin, Wait, Scan, PollingLidarImuData, CheckFuture, RequestExit,
           SetExitSignal, JoinPointCloud, JoinImu, MainTo, vars
  <2>6. UNCHANGED queueVars => Same
    OBVIOUS
  <2>. QED BY <2>1, <2>2, <2>3, <2>4, <2>5, <2>6 DEF Next, PollStep
<1>. QED
  BY <1>1, <1>2, <1>3, <1>4, <1>5

\* A sample is lost only where its lidar is not found: all others are queued in order
\* until they are published.
THEOREM SamplesKept == Spec => []NoImuLost
<1>1. Init => NoImuLost /\ PublishedDelivered
  BY DEF Init, NoImuLost, PublishedDelivered, Queued
<1>. QED
  BY TypeInit, TypeStep, SamplesStep, <1>1, PTL DEF Spec

-------------------------------------------------------------------------------
(***************************************************************************)
(* Wake-ups.  A thread that has read a count of 0 is a wake-up on its way; *)
(* those and the ones that have arrived are never more than the threads.   *)
(***************************************************************************)

Signalling == {t \in Thread : sdk[t].pc = "signal"}

WakeInv == imu_count + Cardinality(Signalling) <= Cardinality(Thread)

LEMMA SignallingFinite ==
  /\ IsFiniteSet(Signalling)
  /\ Cardinality(Signalling) \in Nat
  /\ Cardinality(Thread) \in Nat
  /\ Cardinality(Signalling) <= Cardinality(Thread)
<1>1. Signalling \subseteq Thread
  BY DEF Signalling
<1>. QED
  BY <1>1, ImuAssumption, FS_Subset, FS_CardinalityType

LEMMA WakeStep == TypeInv /\ WakeInv /\ [Next]_vars => WakeInv'
<1>. SUFFICES ASSUME TypeInv, WakeInv, [Next]_vars PROVE WakeInv'
  OBVIOUS
<1>0. imu_count \in Nat /\ sdk \in [Thread -> Place]
  BY DEF TypeInv, TypeOK
<1>1. ASSUME Signalling' = Signalling, imu_count' <= imu_count, imu_count' \in Nat PROVE WakeInv'
  BY <1>0, <1>1, SignallingFinite DEF WakeInv
<1>2. ASSUME NEW i \in Lidar, Push(i) PROVE WakeInv'
  <2>1. Signalling' = Signalling
    BY <1>0, <1>2, ImuAssumption DEF Push, Deliver, Signalling, Place
  <2>. QED BY <1>0, <1>1, <1>2, <2>1 DEF Push
<1>3. ASSUME NEW t \in Thread, CheckEmpty(t) PROVE WakeInv'
  <2>1. Signalling' = Signalling
    BY <1>0, <1>3 DEF CheckEmpty, SdkTo, Signalling, Place
  <2>. QED BY <1>0, <1>1, <1>3, <2>1 DEF CheckEmpty
<1>4. ASSUME NEW t \in Thread, CheckCount(t) PROVE WakeInv'
  <2>1. CASE imu_count <= 0
    <3>1. imu_count' = 0
      BY <1>0, <1>4, <2>1 DEF CheckCount
    <3>2. Cardinality(Signalling') \in Nat /\ Cardinality(Signalling') <= Cardinality(Thread)
          /\ Cardinality(Thread) \in Nat
      <4>1. Signalling' \subseteq Thread
        BY DEF Signalling
      <4>. QED BY <4>1, ImuAssumption, FS_Subset, FS_CardinalityType
    <3>. QED BY <3>1, <3>2 DEF WakeInv
  <2>2. CASE ~(imu_count <= 0)
    <3>1. Signalling' = Signalling
      BY <1>0, <1>4, <2>2 DEF CheckCount, SdkTo, Signalling, Place
    <3>. QED BY <1>0, <1>1, <1>4, <3>1 DEF CheckCount
  <2>. QED BY <2>1, <2>2
<1>5. ASSUME NEW t \in Thread, Signal(t) PROVE WakeInv'
  <2>1. t \in Signalling /\ Signalling' = Signalling \ {t}
    BY <1>0, <1>5 DEF Signal, SdkTo, Signalling, Place
  <2>2. Cardinality(Signalling') = Cardinality(Signalling) - 1
    BY <2>1, SignallingFinite, FS_RemoveElement
  <2>3. imu_count' = imu_count + 1
    BY <1>5 DEF Signal
  <2>. QED BY <1>0, <2>2, <2>3, SignallingFinite DEF WakeInv
<1>6. CASE Wait
  <2>1. imu_count' = imu_count - 1 /\ imu_count > 0 /\ UNCHANGED sdk
    BY <1>6 DEF Wait
  <2>. QED BY <1>0, <1>1, <2>1 DEF Signalling
<1>7. CASE UNCHANGED <<imu_count, sdk>>
  BY <1>0, <1>1, <1>7 DEF Signalling
<1>8. (\E i \in Lidar : Drop(i) \/ BecomeSampling(i)) \/ DistributeBegin \/ Scan \/ PollingLidarImuData
        \/ PublishImuData \/ CheckFuture \/ RequestExit \/ SetExitSignal \/ JoinPointCloud
        \/ JoinImu \/ UNCHANGED vars => UNCHANGED <<imu_count, sdk>>
  BY DEF Drop, BecomeSampling, DistributeBegin, Scan, PollingLidarImuData, PublishImuData, CheckFuture,
         RequestExit, SetExitSignal, JoinPointCloud, JoinImu, MainTo, vars
<1>. QED
  BY <1>2, <1>3, <1>4, <1>5, <1>6, <1>7, <1>8 DEF Next, SdkStep, PollStep

\* Wake-ups pile up to one for each thread of the SDK, and no further.
THEOREM WakeUpsPileUpBounded == Spec => []WakeUpsBounded
<1>1. Init => WakeInv
  BY SignallingFinite DEF Init, WakeInv
<1>2. TypeInv /\ WakeInv => WakeUpsBounded
  BY SignallingFinite DEF TypeInv, TypeOK, WakeInv, WakeUpsBounded
<1>. QED
  BY TypeInit, TypeStep, WakeStep, <1>1, <1>2, PTL DEF Spec
==============================================================================
