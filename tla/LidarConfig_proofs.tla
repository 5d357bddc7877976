-------------------------- MODULE LidarConfig_proofs --------------------------
(***************************************************************************)
(* Proofs about the configuration of the lidars, for every set of lidars,  *)
(* parameters and config files, every number of reports, whether lidars    *)
(* refuse commands or not, and whichever restart.                          *)
(***************************************************************************)
EXTENDS LidarConfig, FiniteSetTheorems, TLAPS

USE ConfigAssumption, NoneAssumption

-------------------------------------------------------------------------------
(***************************************************************************)
(* Types.                                                                  *)
(***************************************************************************)

\* The report of lidar l becomes r, and no other changes.
InfoBecomes(l, r) ==
  /\ DOMAIN info' = Lidar
  /\ \A m \in Lidar : info'[m] \in Info(m)
  /\ info'[l] = r
  /\ \A m \in Lidar \ {l} : info'[m] = info[m]

LEMMA InfoWrite ==
  ASSUME TypeOK, NEW l \in Lidar, NEW r \in Info(l), info' = [info EXCEPT ![l] = r]
  PROVE  InfoBecomes(l, r)
BY DEF TypeOK, InfoBecomes

\* What each part of a report makes of the report.
Place(pc, todo, count) == [pc |-> pc, todo |-> todo, count |-> count]

LEMMA ReportSteps ==
  ASSUME TypeOK, NEW l \in Lidar
  PROVE  /\ InfoChangeUnknown(l) => InfoBecomes(l, Place("insert", {}, info[l].count + 1))
         /\ InfoChangeKnown(l) => InfoBecomes(l, Place("keys", ToSend(l), info[l].count + 1))
         /\ GetFreeIndex(l) => InfoBecomes(l, Place(IF l \in known' THEN "finish" ELSE "idle",
                                                    info[l].todo, info[l].count))
         /\ KeysSent(l) => InfoBecomes(l, Place("finish", info[l].todo, info[l].count))
         /\ InfoChangeFinish(l) => InfoBecomes(l, Place("idle", info[l].todo, info[l].count))
         /\ \A k \in Key : SendKey(l, k)
              => InfoBecomes(l, Place(info[l].pc, info[l].todo \ {k}, info[l].count))
<1>1. info[l] \in Info(l)
  BY DEF TypeOK
<1>2. ASSUME Report(l) PROVE info[l].count + 1 \in 0 .. MaxInfo[l]
  BY <1>1, <1>2 DEF Info, Report
<1>3. ASSUME InfoChangeUnknown(l)
      PROVE  InfoBecomes(l, Place("insert", {}, info[l].count + 1))
  <2>1. Place("insert", {}, info[l].count + 1) \in Info(l)
    BY <1>2, <1>3 DEF InfoChangeUnknown, Info, Place
  <2>2. info' = [info EXCEPT ![l] = Place("insert", {}, info[l].count + 1)]
    BY <1>3 DEF InfoChangeUnknown, Reported, Place
  <2>. QED BY <2>1, <2>2, InfoWrite
<1>4. ASSUME InfoChangeKnown(l)
      PROVE  InfoBecomes(l, Place("keys", ToSend(l), info[l].count + 1))
  <2>1. Place("keys", ToSend(l), info[l].count + 1) \in Info(l)
    BY <1>2, <1>4 DEF InfoChangeKnown, Info, Place, ToSend
  <2>2. info' = [info EXCEPT ![l] = Place("keys", ToSend(l), info[l].count + 1)]
    BY <1>4 DEF InfoChangeKnown, Reported, Place
  <2>. QED BY <2>1, <2>2, InfoWrite
<1>5. ASSUME NEW pc \in {"finish", "idle"}, info' = [info EXCEPT ![l].pc = pc]
      PROVE  InfoBecomes(l, Place(pc, info[l].todo, info[l].count))
  <2>1. /\ Place(pc, info[l].todo, info[l].count) \in Info(l)
        /\ [info[l] EXCEPT !.pc = pc] = Place(pc, info[l].todo, info[l].count)
    BY <1>1 DEF Info, Place
  <2>2. info' = [info EXCEPT ![l] = Place(pc, info[l].todo, info[l].count)]
    BY <1>5, <2>1
  <2>. QED BY <2>1, <2>2, InfoWrite
<1>6. ASSUME NEW k \in Key, SendKey(l, k)
      PROVE  InfoBecomes(l, Place(info[l].pc, info[l].todo \ {k}, info[l].count))
  <2>1. Place(info[l].pc, info[l].todo \ {k}, info[l].count) \in Info(l)
    BY <1>1 DEF Info, Place
  <2>3. [info[l] EXCEPT !.todo = info[l].todo \ {k}]
        = Place(info[l].pc, info[l].todo \ {k}, info[l].count)
    <3>1. ASSUME NEW T \in SUBSET Key
          PROVE  [info[l] EXCEPT !.todo = T] = Place(info[l].pc, T, info[l].count)
      BY <1>1 DEF Info, Place
    <3>2. info[l].todo \ {k} \in SUBSET Key
      BY <1>1 DEF Info
    <3>. QED BY <3>1, <3>2
  <2>2. info' = [info EXCEPT ![l] = Place(info[l].pc, info[l].todo \ {k}, info[l].count)]
    BY <1>6, <2>3 DEF SendKey
  <2>. QED BY <2>1, <2>2, InfoWrite
<1>7. /\ GetFreeIndex(l) => info' = [info EXCEPT ![l].pc = IF l \in known' THEN "finish" ELSE "idle"]
      /\ KeysSent(l) => info' = [info EXCEPT ![l].pc = "finish"]
      /\ InfoChangeFinish(l) => info' = [info EXCEPT ![l].pc = "idle"]
  BY DEF GetFreeIndex, KeysSent, InfoChangeFinish
<1>. QED
  BY <1>3, <1>4, <1>5, <1>6, <1>7

\* Giving lidar l a slot while there is one.
LEMMA SlotTaken ==
  ASSUME NEW S \in SUBSET Lidar, NEW l \in Lidar, Cardinality(S) <= kMaxSourceLidar,
         l \in S \/ Cardinality(S) < kMaxSourceLidar
  PROVE  Cardinality(S \cup {l}) <= kMaxSourceLidar
<1>1. IsFiniteSet(S)
  BY FS_Subset
<1>2. CASE l \in S
  <2>1. S \cup {l} = S
    BY <1>2
  <2>. QED BY <2>1
<1>3. CASE l \notin S
  <2>1. Cardinality(S \cup {l}) = Cardinality(S) + 1 /\ Cardinality(S) \in Nat
    BY <1>1, <1>3, FS_AddElement, FS_CardinalityType
  <2>. QED BY <1>3, <2>1
<1>. QED
  BY <1>2, <1>3

LEMMA TypeInit == Init => TypeOK
<1>. SUFFICES ASSUME Init PROVE TypeOK
  OBVIOUS
<1>1. DOMAIN info = Lidar /\ \A l \in Lidar : info[l] \in Info(l) /\ info[l].pc = "idle"
  BY DEF Init, Info
<1>2. /\ known \subseteq Lidar /\ Cardinality(known) <= kMaxSourceLidar
      /\ FreeSlot => Configured \subseteq known
  BY DEF Init, Configured
<1>. QED
  BY <1>1, <1>2 DEF Init, TypeOK, Never

LEMMA TypeStep == TypeOK /\ [Next]_vars => TypeOK'
<1>. SUFFICES ASSUME TypeOK, [Next]_vars PROVE TypeOK'
  OBVIOUS
<1>. USE DEF driver, lidar, sdk, FreeSlot, Configured
<1>. DEFINE Rest == /\ file \in Files
                    /\ known \subseteq Lidar /\ Cardinality(known) <= kMaxSourceLidar
                    /\ FreeSlot => Configured \subseteq known
                    /\ set_bits \in [Lidar -> SUBSET Key]
                    /\ connect_state \in [Lidar -> {"off", "sampling"}]
                    /\ config_mutex \in Lidar \cup {None}
            Told == /\ inflight \in [Lidar -> [Key -> Nat]]
                    /\ refused \in [Lidar -> SUBSET Key]
                    /\ applied \in [Lidar -> SUBSET Key]
                    /\ work_mode \in [Lidar -> {"none", "asked", "normal"}]
                    /\ imu_asked \subseteq Lidar
                    /\ restarted \in [Lidar -> Nat \cup {Never}]
                    /\ stale \in [Lidar -> SUBSET Key]
            Reports == /\ DOMAIN info = Lidar
                       /\ \A l \in Lidar : info[l] \in Info(l)
            Lock == \A l \in Lidar : info[l].pc = "keys" <=> config_mutex = l
<1>0. Rest /\ Told /\ Reports /\ Lock
  BY DEF TypeOK
<1>a. Rest' /\ Told' /\ Reports' /\ Lock' => TypeOK'
  BY DEF TypeOK
<1>1. ASSUME NEW l \in Lidar, InfoChangeUnknown(l) PROVE TypeOK'
  <2>0. InfoBecomes(l, Place("insert", {}, info[l].count + 1))
    BY <1>1, ReportSteps
  <2>1. Reports' /\ info'[l].pc = "insert" /\ \A m \in Lidar : m # l => info'[m] = info[m]
    BY <2>0 DEF InfoBecomes, Place
  <2>2. Rest' /\ Told' /\ Lock'
    BY <1>0, <1>1, <2>1 DEF InfoChangeUnknown, Report
  <2>. QED BY <1>a, <2>1, <2>2
<1>2. ASSUME NEW l \in Lidar, GetFreeIndex(l) PROVE TypeOK'
  <2>0. InfoBecomes(l, Place(IF l \in known' THEN "finish" ELSE "idle", info[l].todo, info[l].count))
    BY <1>2, ReportSteps
  <2>1. /\ Reports' /\ info'[l].pc \in {"finish", "idle"}
        /\ \A m \in Lidar : m # l => info'[m] = info[m]
    BY <2>0 DEF InfoBecomes, Place
  <2>2. /\ known' \subseteq Lidar /\ Cardinality(known') <= kMaxSourceLidar
        /\ known \subseteq known' /\ (known' # known => FreeSlot)
    <3>1. CASE l \in known \/ FreeSlot
      <4>1. Cardinality(known \cup {l}) <= kMaxSourceLidar
        BY <1>0, <3>1, SlotTaken DEF FreeSlot
      <4>2. known' = known \cup {l}
        BY <1>2, <3>1 DEF GetFreeIndex
      <4>3. l \in known => known' = known
        BY <4>2
      <4>. QED BY <1>0, <3>1, <4>1, <4>2, <4>3
    <3>2. CASE ~(l \in known \/ FreeSlot)
      BY <1>0, <1>2, <3>2 DEF GetFreeIndex
    <3>. QED BY <3>1, <3>2
  <2>3. file' = file
    BY <1>2 DEF GetFreeIndex
  <2>4. FreeSlot' => Configured' \subseteq known'
    <3>1. Configured' = Configured
      BY <2>3 DEF Configured
    <3>2. CASE known' = known
      BY <1>0, <3>1, <3>2 DEF FreeSlot
    <3>3. CASE known' # known
      BY <1>0, <2>2, <3>1, <3>3
    <3>. QED BY <3>2, <3>3
  <2>5. Rest' /\ Told' /\ Lock'
    BY <1>0, <1>2, <2>1, <2>2, <2>4 DEF GetFreeIndex
  <2>. QED BY <1>a, <2>1, <2>5
<1>3. ASSUME NEW l \in Lidar, InfoChangeKnown(l) PROVE TypeOK'
  <2>0. InfoBecomes(l, Place("keys", ToSend(l), info[l].count + 1))
    BY <1>3, ReportSteps
  <2>1. Reports' /\ info'[l].pc = "keys" /\ \A m \in Lidar : m # l => info'[m] = info[m]
    BY <2>0 DEF InfoBecomes, Place
  <2>2. Rest' /\ Told' /\ Lock'
    BY <1>0, <1>3, <2>1 DEF InfoChangeKnown
  <2>. QED BY <1>a, <2>1, <2>2
<1>4. ASSUME NEW l \in Lidar, NEW k \in Key, SendKey(l, k) PROVE TypeOK'
  <2>0. InfoBecomes(l, Place(info[l].pc, info[l].todo \ {k}, info[l].count))
    BY <1>4, ReportSteps
  <2>1. Reports' /\ info'[l].pc = info[l].pc /\ \A m \in Lidar : m # l => info'[m] = info[m]
    BY <2>0 DEF InfoBecomes, Place
  <2>2. Rest' /\ Lock'
    BY <1>0, <1>4, <2>1 DEF SendKey
  <2>3. Told'
    <3>1. inflight[l][k] \in Nat /\ inflight[l][k] + 1 \in Nat
      BY <1>0
    <3>2. inflight' \in [Lidar -> [Key -> Nat]] /\ refused' \in [Lidar -> SUBSET Key]
      <4>1. CASE inflight' = [inflight EXCEPT ![l][k] = @ + 1] /\ refused' = refused
        BY <1>0, <3>1, <4>1
      <4>2. CASE inflight' = inflight /\ refused' = [refused EXCEPT ![l] = @ \cup {k}]
        BY <1>0, <4>2
      <4>. QED BY <1>4, <4>1, <4>2 DEF SendKey
    <3>. QED BY <1>0, <1>4, <3>2 DEF SendKey
  <2>. QED BY <1>a, <2>1, <2>2, <2>3
<1>5. ASSUME NEW l \in Lidar, KeysSent(l) PROVE TypeOK'
  <2>0. InfoBecomes(l, Place("finish", info[l].todo, info[l].count))
    BY <1>5, ReportSteps
  <2>1. Reports' /\ info'[l].pc = "finish" /\ \A m \in Lidar : m # l => info'[m] = info[m]
    BY <2>0 DEF InfoBecomes, Place
  <2>2. Rest' /\ Told'
    BY <1>0, <1>5 DEF KeysSent, SamplingIfDone
  <2>3. Lock'
    BY <1>0, <1>5, <2>1 DEF KeysSent
  <2>. QED BY <1>a, <2>1, <2>2, <2>3
<1>6. ASSUME NEW l \in Lidar, InfoChangeFinish(l) PROVE TypeOK'
  <2>0. InfoBecomes(l, Place("idle", info[l].todo, info[l].count))
    BY <1>6, ReportSteps
  <2>1. Reports' /\ info'[l].pc = "idle" /\ \A m \in Lidar : m # l => info'[m] = info[m]
    BY <2>0 DEF InfoBecomes, Place
  <2>2. Rest' /\ Told' /\ Lock'
    BY <1>0, <1>6, <2>1 DEF InfoChangeFinish
  <2>. QED BY <1>a, <2>1, <2>2
<1>7. ASSUME NEW l \in Lidar, NEW k \in Key, Success(l, k) PROVE TypeOK'
  <2>1. Rest' /\ Reports' /\ Lock'
    BY <1>0, <1>7 DEF Success, ClearBit, SamplingIfDone
  <2>2. Told'
    <3>1. inflight[l][k] \in Nat /\ inflight[l][k] > 0
      BY <1>0, <1>7 DEF Success
    <3>2. inflight' \in [Lidar -> [Key -> Nat]]
      BY <1>0, <1>7, <3>1 DEF Success
    <3>3. applied' \in [Lidar -> SUBSET Key] /\ stale' \in [Lidar -> SUBSET Key]
      <4>1. CASE applied' = [applied EXCEPT ![l] = @ \cup {k}] /\ stale' = stale
        BY <1>0, <4>1
      <4>2. CASE applied' = applied /\ stale' = [stale EXCEPT ![l] = @ \ {k}]
        BY <1>0, <4>2
      <4>. QED BY <1>7, <4>1, <4>2 DEF Success
    <3>. QED BY <1>0, <1>7, <3>2, <3>3 DEF Success
  <2>. QED BY <1>a, <2>1, <2>2
<1>8. ASSUME NEW l \in Lidar, NEW k \in Key, Timeout(l, k) \/ Failure(l, k) \/ Missed(l, k) PROVE TypeOK'
  <2>1. Rest' /\ Reports' /\ Lock'
    BY <1>0, <1>8 DEF Timeout, Failure, Missed
  <2>2. Told'
    <3>1. inflight[l][k] \in Nat /\ inflight[l][k] > 0
      BY <1>0, <1>8 DEF Timeout, Failure, Missed
    <3>2. inflight' \in [Lidar -> [Key -> Nat]]
      <4>1. inflight' = inflight \/ inflight' = [inflight EXCEPT ![l][k] = @ - 1]
        BY <1>8 DEF Timeout, Failure, Missed
      <4>2. inflight \in [Lidar -> [Key -> Nat]] /\ inflight[l][k] - 1 \in Nat
        BY <1>0, <3>1
      <4>. QED BY <4>1, <4>2
    <3>3. applied' \in [Lidar -> SUBSET Key] /\ refused' \in [Lidar -> SUBSET Key]
      <4>1. applied' = applied \/ applied' = [applied EXCEPT ![l] = @ \cup {k}]
        BY <1>8 DEF Timeout, Failure, Missed
      <4>2. refused' = refused \/ refused' = [refused EXCEPT ![l] = @ \cup {k}]
        BY <1>8 DEF Timeout, Failure, Missed
      <4>3. applied' \in [Lidar -> SUBSET Key]
        BY <1>0, <4>1
      <4>4. refused' \in [Lidar -> SUBSET Key]
        BY <1>0, <4>2
      <4>. QED BY <4>3, <4>4
    <3>. QED BY <1>0, <1>8, <3>2, <3>3 DEF Timeout, Failure, Missed
  <2>. QED BY <1>a, <2>1, <2>2
<1>9. ASSUME NEW l \in Lidar, WorkModeSuccess(l) \/ ImuAnswer(l) PROVE TypeOK'
  <2>1. Rest' /\ Reports' /\ Lock'
    BY <1>0, <1>9 DEF WorkModeSuccess, ImuAnswer
  <2>2. Told'
    BY <1>0, <1>9 DEF WorkModeSuccess, ImuAnswer
  <2>. QED BY <1>a, <2>1, <2>2
<1>10. ASSUME NEW l \in Lidar, Restart(l) PROVE TypeOK'
  <2>1. Rest' /\ Reports' /\ Lock'
    BY <1>0, <1>10 DEF Restart
  <2>2. info[l].count \in Nat /\ {k \in Key : inflight[l][k] > 0} \in SUBSET Key
    <3>1. info[l] \in Info(l)
      BY <1>0
    <3>. QED BY <3>1 DEF Info
  <2>3. Told'
    BY <1>0, <1>10, <2>2 DEF Restart
  <2>. QED BY <1>a, <2>1, <2>3
<1>11. CASE UNCHANGED vars
  BY <1>0, <1>a, <1>11 DEF vars
<1>. QED
  BY <1>1, <1>2, <1>3, <1>4, <1>5, <1>6, <1>7, <1>8, <1>9, <1>10, <1>11 DEF Next, Callback

\* Every variable stays in its domain, and config_mutex_ is held by the report that sends.
THEOREM TypeCorrect == Spec => []TypeOK
BY TypeInit, TypeStep, PTL DEF Spec

-------------------------------------------------------------------------------
(***************************************************************************)
(* Outstanding commands.                                                   *)
(***************************************************************************)

LEMMA BitStep == TypeOK /\ StuckBitHasCause /\ [Next]_vars => StuckBitHasCause'
<1>. SUFFICES ASSUME TypeOK, StuckBitHasCause, [Next]_vars,
                     NEW m \in Lidar, NEW j \in Key, j \in set_bits'[m]
              PROVE  inflight'[m][j] > 0 \/ j \in refused'[m]
  BY DEF StuckBitHasCause
<1>. DEFINE Cause == inflight[m][j] > 0 \/ j \in refused[m]
<1>. USE DEF driver, lidar, sdk
<1>0. /\ set_bits \in [Lidar -> SUBSET Key] /\ refused \in [Lidar -> SUBSET Key]
      /\ inflight \in [Lidar -> [Key -> Nat]] /\ inflight[m][j] \in Nat
      /\ j \in set_bits[m] => Cause
  BY DEF TypeOK, StuckBitHasCause
<1>1. ASSUME UNCHANGED <<set_bits, inflight, refused>> PROVE Cause'
  BY <1>0, <1>1
<1>2. ASSUME NEW l \in Lidar, NEW k \in Key, SendKey(l, k) PROVE Cause'
  <2>1. CASE l = m /\ k = j
    <3>1. inflight[l][k] + 1 > 0
      BY <1>0, <2>1
    <3>2. inflight'[m][j] = inflight[l][k] + 1 \/ j \in refused'[m]
      BY <1>0, <1>2, <2>1 DEF SendKey
    <3>. QED BY <3>1, <3>2
  <2>2. CASE ~(l = m /\ k = j)
    <3>1. j \in set_bits[m]
      BY <1>0, <1>2, <2>2 DEF SendKey
    <3>2. inflight'[m][j] = inflight[m][j]
      BY <1>0, <1>2, <2>2 DEF SendKey
    <3>3. refused[m] \subseteq refused'[m]
      BY <1>0, <1>2 DEF SendKey
    <3>. QED BY <1>0, <3>1, <3>2, <3>3
  <2>. QED BY <2>1, <2>2
<1>3. ASSUME NEW l \in Lidar, NEW k \in Key, Success(l, k) PROVE Cause'
  <2>1. set_bits' = [set_bits EXCEPT ![l] = @ \ {k}] /\ refused' = refused
        /\ inflight' = [inflight EXCEPT ![l][k] = @ - 1]
    BY <1>3 DEF Success, ClearBit
  <2>2. j \in set_bits[m] /\ ~(l = m /\ k = j)
    BY <1>0, <2>1
  <2>3. inflight'[m][j] = inflight[m][j]
    BY <1>0, <2>1, <2>2
  <2>. QED BY <1>0, <2>1, <2>2, <2>3
<1>4. ASSUME NEW l \in Lidar, NEW k \in Key, Failure(l, k) \/ Missed(l, k) PROVE Cause'
  <2>1. set_bits' = set_bits /\ refused' = [refused EXCEPT ![l] = @ \cup {k}]
        /\ inflight' = [inflight EXCEPT ![l][k] = @ - 1]
    BY <1>4 DEF Failure, Missed
  <2>2. CASE l = m /\ k = j
    BY <1>0, <2>1, <2>2
  <2>3. CASE ~(l = m /\ k = j)
    <3>1. inflight'[m][j] = inflight[m][j]
      BY <1>0, <2>1, <2>3
    <3>. QED BY <1>0, <2>1, <3>1
  <2>. QED BY <2>2, <2>3
<1>5. ASSUME NEW l \in Lidar, KeysSent(l) PROVE UNCHANGED <<set_bits, inflight, refused>>
  BY <1>5 DEF KeysSent
<1>6. ASSUME NEW l \in Lidar,
             \/ InfoChangeUnknown(l) \/ InfoChangeKnown(l) \/ GetFreeIndex(l)
             \/ InfoChangeFinish(l) \/ WorkModeSuccess(l) \/ ImuAnswer(l) \/ Restart(l)
             \/ \E k \in Key : Timeout(l, k)
      PROVE  UNCHANGED <<set_bits, inflight, refused>>
  BY <1>6 DEF InfoChangeUnknown, InfoChangeKnown, GetFreeIndex, InfoChangeFinish, WorkModeSuccess,
              ImuAnswer, Restart, Timeout
<1>7. CASE UNCHANGED vars
  BY <1>1, <1>7 DEF vars
<1>. QED
  BY <1>1, <1>2, <1>3, <1>4, <1>5, <1>6, <1>7 DEF Next, Callback

\* Neither timeouts nor repeated reports nor late answers leave a bit that nobody clears.
THEOREM BitsHaveCauses == Spec => []StuckBitHasCause
<1>1. Init => StuckBitHasCause
  BY DEF Init, StuckBitHasCause
<1>. QED
  BY TypeInit, TypeStep, BitStep, <1>1, PTL DEF Spec

-------------------------------------------------------------------------------
(***************************************************************************)
(* Published lidars.  Of a lidar that is being configured, or has been, and *)
(* has not been restarted, every parameter of its entry has been carried   *)
(* out, or its bit is set, or its command is still to be sent: so that,    *)
(* when the last bit is cleared and nothing is left to send, all have been *)
(* carried out.                                                            *)
(***************************************************************************)

\* Answers from before a restart exist only after one.
StaleAfterRestart == \A l \in Lidar : restarted[l] = Never => stale[l] = {}

\* A report of lidar l has found it in cache_index_.
Begun(l) ==
  \/ connect_state[l] = "sampling"
  \/ info[l].pc = "keys"
  \/ set_bits[l] # {}
  \/ \E k \in Key : inflight[l][k] > 0

Underway(l, k) == k \in applied[l] \/ k \in set_bits[l] \/ (info[l].pc = "keys" /\ k \in info[l].todo)

NothingForgotten == \A l \in Configured : \A k \in Entry(l) :
  Begun(l) /\ restarted[l] = Never => Underway(l, k)

ConfigInv ==
  /\ TypeOK
  /\ StaleAfterRestart
  /\ NothingForgotten
  /\ SamplingMeansConfigured

\* One lidar's step, and what all the others see of it: nothing.
StepOf(l) ==
  \/ InfoChangeUnknown(l) \/ InfoChangeKnown(l) \/ Callback(l)
  \/ \E k \in Key : Success(l, k) \/ Timeout(l, k) \/ Failure(l, k) \/ Missed(l, k)
  \/ WorkModeSuccess(l) \/ ImuAnswer(l) \/ Restart(l)

StateOf(m) == <<set_bits[m], connect_state[m], info[m], inflight[m], applied[m], restarted[m], stale[m]>>

LEMMA OthersLeftAlone ==
  ASSUME TypeOK, NEW l \in Lidar, NEW m \in Lidar \ {l}, StepOf(l)
  PROVE  UNCHANGED StateOf(m)
<1>. USE DEF StateOf, driver, lidar, sdk
<1>0. /\ set_bits \in [Lidar -> SUBSET Key] /\ connect_state \in [Lidar -> {"off", "sampling"}]
      /\ inflight \in [Lidar -> [Key -> Nat]] /\ applied \in [Lidar -> SUBSET Key]
      /\ restarted \in [Lidar -> Nat \cup {Never}] /\ stale \in [Lidar -> SUBSET Key]
  BY DEF TypeOK
<1>1. ASSUME NEW r, InfoBecomes(l, r) PROVE info'[m] = info[m]
  BY <1>1 DEF InfoBecomes
<1>2. CASE InfoChangeUnknown(l) \/ InfoChangeKnown(l) \/ GetFreeIndex(l) \/ InfoChangeFinish(l)
  <2>1. info'[m] = info[m]
    BY <1>1, <1>2, ReportSteps
  <2>2. UNCHANGED <<set_bits, connect_state, inflight, applied, restarted, stale>>
    BY <1>2 DEF InfoChangeUnknown, InfoChangeKnown, GetFreeIndex, InfoChangeFinish
  <2>. QED BY <2>1, <2>2
<1>3. CASE KeysSent(l)
  <2>1. info'[m] = info[m]
    BY <1>1, <1>3, ReportSteps
  <2>2. UNCHANGED <<set_bits, connect_state[m], inflight, applied, restarted, stale>>
    BY <1>0, <1>3 DEF KeysSent, SamplingIfDone
  <2>. QED BY <2>1, <2>2
<1>4. ASSUME NEW k \in Key, SendKey(l, k) PROVE UNCHANGED StateOf(m)
  <2>1. info'[m] = info[m]
    BY <1>1, <1>4, ReportSteps
  <2>2. UNCHANGED <<set_bits[m], connect_state, inflight[m], applied, restarted, stale>>
    BY <1>0, <1>4 DEF SendKey
  <2>. QED BY <2>1, <2>2
<1>5. ASSUME NEW k \in Key, Success(l, k) PROVE UNCHANGED StateOf(m)
  <2>1. UNCHANGED <<set_bits[m], connect_state[m]>>
    BY <1>0, <1>5 DEF Success, ClearBit, SamplingIfDone
  <2>2. UNCHANGED <<info, inflight[m], applied[m], restarted, stale[m]>>
    BY <1>0, <1>5 DEF Success
  <2>. QED BY <2>1, <2>2
<1>6. ASSUME NEW k \in Key, Timeout(l, k) \/ Failure(l, k) \/ Missed(l, k) PROVE UNCHANGED StateOf(m)
  BY <1>0, <1>6 DEF Timeout, Failure, Missed
<1>7. CASE WorkModeSuccess(l) \/ ImuAnswer(l)
  BY <1>7 DEF WorkModeSuccess, ImuAnswer
<1>8. CASE Restart(l)
  BY <1>0, <1>8 DEF Restart
<1>. QED
  BY <1>2, <1>3, <1>4, <1>5, <1>6, <1>7, <1>8 DEF StepOf, Callback

\* For a statement about each lidar's own state, only its own steps matter.
LEMMA NextCases ==
  ASSUME TypeOK, [Next]_vars, NEW m \in Lidar
  PROVE  StepOf(m) \/ UNCHANGED StateOf(m)
<1>1. CASE UNCHANGED vars
  BY <1>1 DEF vars, driver, sdk, lidar, StateOf
<1>2. ASSUME NEW l \in Lidar, StepOf(l) PROVE StepOf(m) \/ UNCHANGED StateOf(m)
  BY <1>2, OthersLeftAlone
<1>. QED
  BY <1>1, <1>2 DEF Next, StepOf

\* The fields of a lidar's own report.
LEMMA ReportFields ==
  ASSUME TypeOK, NEW m \in Lidar
  PROVE  /\ InfoChangeUnknown(m) => info'[m].pc = "insert"
         /\ InfoChangeKnown(m) => info'[m].pc = "keys" /\ info'[m].todo = ToSend(m)
         /\ GetFreeIndex(m) => info'[m].pc = IF m \in known' THEN "finish" ELSE "idle"
         /\ KeysSent(m) => info'[m].pc = "finish"
         /\ InfoChangeFinish(m) => info'[m].pc = "idle"
         /\ \A k \in Key : SendKey(m, k) => /\ info'[m].pc = info[m].pc
                                           /\ info'[m].todo = info[m].todo \ {k}
<1>. DEFINE Unknown == InfoBecomes(m, Place("insert", {}, info[m].count + 1))
           Known == InfoBecomes(m, Place("keys", ToSend(m), info[m].count + 1))
           Index == InfoBecomes(m, Place(IF m \in known' THEN "finish" ELSE "idle",
                                         info[m].todo, info[m].count))
           At(pc) == InfoBecomes(m, Place(pc, info[m].todo, info[m].count))
           Sent(k) == InfoBecomes(m, Place(info[m].pc, info[m].todo \ {k}, info[m].count))
<1>1. /\ Unknown => info'[m].pc = "insert"
      /\ Known => info'[m].pc = "keys" /\ info'[m].todo = ToSend(m)
      /\ Index => info'[m].pc = IF m \in known' THEN "finish" ELSE "idle"
      /\ At("finish") => info'[m].pc = "finish"
      /\ At("idle") => info'[m].pc = "idle"
      /\ \A k \in Key : Sent(k) => info'[m].pc = info[m].pc /\ info'[m].todo = info[m].todo \ {k}
  BY DEF InfoBecomes, Place
<1>2. /\ InfoChangeUnknown(m) => Unknown
      /\ InfoChangeKnown(m) => Known
      /\ GetFreeIndex(m) => Index
      /\ KeysSent(m) => At("finish")
      /\ InfoChangeFinish(m) => At("idle")
      /\ \A k \in Key : SendKey(m, k) => Sent(k)
  BY ReportSteps
<1>. HIDE DEF Unknown, Known, Index, At, Sent
<1>. QED
  BY <1>1, <1>2

LEMMA FileStep == [Next]_vars => file' = file /\ known \subseteq known'
BY DEF Next, vars, driver, sdk, InfoChangeUnknown, InfoChangeKnown, Callback, GetFreeIndex, SendKey,
       KeysSent, InfoChangeFinish, Success, Timeout, Failure, Missed, WorkModeSuccess, ImuAnswer, Restart

\* What a step may do to the answers of before a restart, and to what was carried out.
LEMMA AppliedStep ==
  ASSUME TypeOK, [Next]_vars, NEW m \in Lidar, restarted'[m] = Never
  PROVE  /\ restarted[m] = Never
         /\ stale[m] = {} => stale'[m] = {}
         /\ applied[m] \subseteq applied'[m]
         /\ ~Restart(m)
<1>0. /\ applied \in [Lidar -> SUBSET Key] /\ stale \in [Lidar -> SUBSET Key]
      /\ restarted \in [Lidar -> Nat \cup {Never}]
      /\ info[m] \in Info(m)
  BY DEF TypeOK
<1>. USE DEF driver, lidar, sdk
<1>1. ~Restart(m)
  <2>1. info[m].count # Never
    BY <1>0 DEF Info, Never
  <2>. QED BY <1>0, <2>1 DEF Restart
<1>2. CASE UNCHANGED StateOf(m)
  BY <1>1, <1>2 DEF StateOf
<1>3. ASSUME NEW k \in Key, Success(m, k) PROVE restarted'[m] = restarted[m]
        /\ (stale[m] = {} => stale'[m] = {}) /\ applied[m] \subseteq applied'[m]
  BY <1>0, <1>3 DEF Success
<1>4. ASSUME NEW k \in Key, Timeout(m, k) \/ Failure(m, k) \/ Missed(m, k)
      PROVE  UNCHANGED <<restarted, stale>> /\ applied[m] \subseteq applied'[m]
  BY <1>0, <1>4 DEF Timeout, Failure, Missed
<1>5. \/ InfoChangeUnknown(m) \/ InfoChangeKnown(m) \/ Callback(m)
      \/ WorkModeSuccess(m) \/ ImuAnswer(m)
      => UNCHANGED <<restarted, stale, applied>>
  BY DEF InfoChangeUnknown, InfoChangeKnown, Callback, GetFreeIndex, SendKey, KeysSent,
         InfoChangeFinish, WorkModeSuccess, ImuAnswer
<1>. QED
  BY <1>1, <1>2, <1>3, <1>4, <1>5, NextCases DEF StepOf

LEMMA StaleStep == TypeOK /\ StaleAfterRestart /\ [Next]_vars => StaleAfterRestart'
BY AppliedStep DEF StaleAfterRestart

LEMMA UnderwayStep ==
  TypeOK /\ StaleAfterRestart /\ NothingForgotten /\ [Next]_vars => NothingForgotten'
<1>. SUFFICES ASSUME TypeOK, StaleAfterRestart, NothingForgotten,
                     [Next]_vars, NEW m \in Configured, NEW j \in Entry(m),
                     Begun(m)', restarted'[m] = Never
              PROVE  Underway(m, j)'
  <2>1. [Next]_vars => file' = file
    BY FileStep
  <2>. QED BY <2>1 DEF NothingForgotten, Configured, Entry
<1>0. /\ m \in Lidar /\ j \in Key
      /\ restarted[m] = Never /\ stale[m] = {} /\ applied[m] \subseteq applied'[m] /\ ~Restart(m)
      /\ set_bits \in [Lidar -> SUBSET Key] /\ applied \in [Lidar -> SUBSET Key]
      /\ connect_state \in [Lidar -> {"off", "sampling"}] /\ inflight \in [Lidar -> [Key -> Nat]]
  <2>1. m \in Lidar /\ j \in Key
    BY DEF TypeOK, Configured, Entry
  <2>. QED BY <2>1, AppliedStep DEF StaleAfterRestart, TypeOK
<1>1. Begun(m) => Underway(m, j)
  BY <1>0 DEF NothingForgotten
<1>2. CASE UNCHANGED StateOf(m)
  BY <1>1, <1>2 DEF StateOf, Underway, Begun
<1>3. CASE InfoChangeKnown(m)
  <2>1. j \in ToSend(m)
    BY <1>0 DEF Entry, ToSend, livox_config, ParseUserConfigs, Configured
  <2>. QED BY <1>0, <1>3, <2>1, ReportFields DEF Underway
<1>4. ASSUME NEW k \in Key, SendKey(m, k) PROVE Underway(m, j)'
  <2>1. set_bits'[m] = set_bits[m] \cup {k} /\ info[m].pc = "keys"
    BY <1>0, <1>4 DEF SendKey
  <2>2. info'[m].pc = "keys" /\ info'[m].todo = info[m].todo \ {k}
    BY <1>0, <1>4, <2>1, ReportFields
  <2>. QED BY <1>0, <1>1, <2>1, <2>2 DEF Underway, Begun
<1>5. CASE KeysSent(m)
  <2>1. info[m].pc = "keys" /\ info[m].todo = {} /\ set_bits' = set_bits
    BY <1>5 DEF KeysSent
  <2>. QED BY <1>0, <1>1, <2>1 DEF Underway, Begun
<1>6. CASE InfoChangeUnknown(m) \/ GetFreeIndex(m) \/ InfoChangeFinish(m)
  <2>1. /\ info[m].pc # "keys" /\ UNCHANGED <<set_bits, connect_state, inflight>>
    BY <1>6 DEF InfoChangeUnknown, Report, GetFreeIndex, InfoChangeFinish, sdk
  <2>2. info'[m].pc # "keys"
    BY <1>0, <1>6, ReportFields
  <2>. QED BY <1>0, <1>1, <2>1, <2>2 DEF Underway, Begun
<1>7. ASSUME NEW k \in Key, Success(m, k) PROVE Underway(m, j)'
  <2>1. /\ inflight[m][k] > 0 /\ set_bits'[m] = set_bits[m] \ {k}
        /\ info' = info /\ applied' = [applied EXCEPT ![m] = @ \cup {k}]
    BY <1>0, <1>7 DEF Success, ClearBit, TypeOK
  <2>2. Underway(m, j)
    BY <1>1, <2>1 DEF Begun
  <2>. QED BY <1>0, <2>1, <2>2 DEF Underway
<1>8. ASSUME \/ \E k \in Key : Timeout(m, k) \/ Failure(m, k) \/ Missed(m, k)
             \/ WorkModeSuccess(m) \/ ImuAnswer(m)
      PROVE  Underway(m, j)'
  <2>1. UNCHANGED <<set_bits, info, connect_state>>
    BY <1>8 DEF Timeout, Failure, Missed, WorkModeSuccess, ImuAnswer, driver
  <2>2. \A k \in Key : inflight'[m][k] > 0 => Begun(m)
    <3>1. CASE inflight' = inflight
      BY <3>1 DEF Begun
    <3>2. ASSUME NEW k \in Key, Failure(m, k) \/ Missed(m, k)
          PROVE  Begun(m)
      BY <3>2 DEF Failure, Missed, Begun
    <3>. QED BY <1>8, <3>1, <3>2 DEF Timeout, WorkModeSuccess, ImuAnswer
  <2>. QED BY <1>0, <1>1, <2>1, <2>2 DEF Underway, Begun
<1>. QED
  BY <1>0, <1>2, <1>3, <1>4, <1>5, <1>6, <1>7, <1>8, NextCases DEF StepOf, Callback

LEMMA SamplingStep ==
  TypeOK /\ StaleAfterRestart /\ NothingForgotten /\ SamplingMeansConfigured /\ [Next]_vars
    => SamplingMeansConfigured'
<1>. SUFFICES ASSUME TypeOK, NothingForgotten', SamplingMeansConfigured, [Next]_vars,
                     NEW m \in Configured, connect_state'[m] = "sampling", restarted'[m] = Never
              PROVE  Entry(m) \subseteq applied'[m]
  <2>1. [Next]_vars => file' = file
    BY FileStep
  <2>. QED BY <2>1, UnderwayStep DEF SamplingMeansConfigured, Configured, Entry
<1>0. m \in Lidar /\ file' = file
  BY FileStep DEF TypeOK, Configured
<1>1. CASE connect_state'[m] = connect_state[m]
  BY <1>0, <1>1, AppliedStep DEF SamplingMeansConfigured
<1>2. ASSUME set_bits'[m] = {}, info'[m].pc # "keys"
      PROVE  Entry(m) \subseteq applied'[m]
  BY <1>0, <1>2 DEF NothingForgotten, Begun, Underway, Configured, Entry
<1>3. CASE KeysSent(m) /\ connect_state'[m] # connect_state[m]
  <2>1. set_bits'[m] = {}
    BY <1>3 DEF KeysSent, SamplingIfDone
  <2>2. info'[m].pc = "finish"
    BY <1>0, <1>3, ReportFields
  <2>. QED BY <1>2, <2>1, <2>2
<1>4. ASSUME NEW k \in Key, Success(m, k), connect_state'[m] # connect_state[m]
      PROVE  Entry(m) \subseteq applied'[m]
  <2>1. set_bits'[m] = {} /\ info' = info /\ config_mutex = None
    BY <1>4 DEF Success, ClearBit, SamplingIfDone
  <2>2. info[m].pc # "keys"
    BY <1>0, <2>1 DEF TypeOK
  <2>. QED BY <1>2, <2>1, <2>2
<1>5. \/ InfoChangeUnknown(m) \/ InfoChangeKnown(m) \/ GetFreeIndex(m) \/ InfoChangeFinish(m)
      \/ \E k \in Key : SendKey(m, k) \/ Timeout(m, k) \/ Failure(m, k) \/ Missed(m, k)
      \/ WorkModeSuccess(m) \/ ImuAnswer(m) \/ Restart(m)
      => connect_state' = connect_state
  BY DEF InfoChangeUnknown, InfoChangeKnown, GetFreeIndex, InfoChangeFinish, SendKey, Timeout,
         Failure, Missed, WorkModeSuccess, ImuAnswer, Restart, driver
<1>6. UNCHANGED StateOf(m) => connect_state'[m] = connect_state[m]
  BY DEF StateOf
<1>. QED
  BY <1>0, <1>1, <1>3, <1>4, <1>5, <1>6, NextCases DEF StepOf, Callback

\* A lidar that is published has carried out every parameter of its entry, although
\* answers may come while commands are still being sent.
THEOREM PublishedIsConfigured == Spec => []SamplingMeansConfigured
<1>1. Init => ConfigInv
  <2>. SUFFICES ASSUME Init PROVE ConfigInv
    OBVIOUS
  <2>1. \A l \in Lidar : /\ ~Begun(l) /\ connect_state[l] = "off"
                         /\ stale[l] = {}
    BY DEF Init, Begun
  <2>2. Configured \subseteq Lidar
    BY DEF Init, Configured
  <2>3. StaleAfterRestart /\ NothingForgotten /\ SamplingMeansConfigured
    BY <2>1, <2>2 DEF StaleAfterRestart, NothingForgotten, SamplingMeansConfigured
  <2>. QED BY <2>3, TypeInit DEF ConfigInv
<1>2. ConfigInv /\ [Next]_vars => ConfigInv'
  BY TypeStep, StaleStep, UnderwayStep, SamplingStep DEF ConfigInv
<1>3. ConfigInv => SamplingMeansConfigured
  BY DEF ConfigInv
<1>. QED
  BY <1>1, <1>2, <1>3, PTL DEF Spec

-------------------------------------------------------------------------------
(***************************************************************************)
(* Lidars without a slot.                                                  *)
(***************************************************************************)

\* A report gets as far as the commands or the work mode only if its lidar has a slot.
ServedHasSlot == \A l \in Lidar : info[l].pc \in {"keys", "finish"} => l \in known

LEMMA ServedStep == TypeOK /\ ServedHasSlot /\ [Next]_vars => ServedHasSlot'
<1>. SUFFICES ASSUME TypeOK, ServedHasSlot, [Next]_vars, NEW m \in Lidar,
                     info'[m].pc \in {"keys", "finish"}
              PROVE  m \in known'
  BY DEF ServedHasSlot
<1>0. known \subseteq known' /\ (info[m].pc \in {"keys", "finish"} => m \in known)
  BY FileStep DEF ServedHasSlot
<1>1. CASE info'[m].pc = info[m].pc
  BY <1>0, <1>1
<1>2. CASE InfoChangeUnknown(m) \/ InfoChangeKnown(m) \/ GetFreeIndex(m) \/ KeysSent(m)
           \/ InfoChangeFinish(m)
  <2>1. ~InfoChangeUnknown(m) /\ ~InfoChangeFinish(m)
    BY ReportFields
  <2>2. InfoChangeKnown(m) => m \in known
    BY DEF InfoChangeKnown
  <2>3. GetFreeIndex(m) => m \in known'
    BY ReportFields
  <2>4. KeysSent(m) => m \in known
    BY <1>0 DEF KeysSent
  <2>. QED BY <1>0, <1>2, <2>1, <2>2, <2>3, <2>4
<1>3. ASSUME \/ \E k \in Key : SendKey(m, k) \/ Success(m, k) \/ Timeout(m, k) \/ Failure(m, k)
                               \/ Missed(m, k)
             \/ WorkModeSuccess(m) \/ ImuAnswer(m) \/ Restart(m)
      PROVE  info'[m].pc = info[m].pc
  <2>1. ASSUME NEW k \in Key, SendKey(m, k) PROVE info'[m].pc = info[m].pc
    BY <2>1, ReportFields
  <2>2. \/ \E k \in Key : Success(m, k) \/ Timeout(m, k) \/ Failure(m, k) \/ Missed(m, k)
        \/ WorkModeSuccess(m) \/ ImuAnswer(m) \/ Restart(m)
        => info' = info
    BY DEF Success, Timeout, Failure, Missed, WorkModeSuccess, ImuAnswer, Restart, driver
  <2>. QED BY <1>3, <2>1, <2>2
<1>4. UNCHANGED StateOf(m) => info'[m] = info[m]
  BY DEF StateOf
<1>. QED
  BY <1>1, <1>2, <1>3, <1>4, NextCases DEF StepOf, Callback

LEMMA NoSlotStep == TypeOK /\ ServedHasSlot /\ NoSlotLeftAlone /\ [Next]_vars => NoSlotLeftAlone'
<1>. SUFFICES ASSUME TypeOK, ServedHasSlot, NoSlotLeftAlone, [Next]_vars, NEW m \in Lidar \ known'
              PROVE  /\ set_bits'[m] = {} /\ \A k \in Key : inflight'[m][k] = 0
                     /\ work_mode'[m] = "none" /\ m \notin imu_asked'
  BY DEF NoSlotLeftAlone
<1>. USE DEF driver, lidar, sdk
<1>0. /\ m \notin known /\ info[m].pc \notin {"keys", "finish"}
      /\ set_bits[m] = {} /\ (\A k \in Key : inflight[m][k] = 0)
      /\ work_mode[m] = "none" /\ m \notin imu_asked
      /\ work_mode \in [Lidar -> {"none", "asked", "normal"}]
  BY FileStep DEF NoSlotLeftAlone, ServedHasSlot, TypeOK
<1>1. UNCHANGED <<set_bits[m], inflight[m]>>
  <2>1. CASE UNCHANGED StateOf(m)
    BY <2>1 DEF StateOf
  <2>2. ASSUME NEW k \in Key PROVE ~SendKey(m, k) /\ ~Success(m, k) /\ ~Failure(m, k) /\ ~Missed(m, k)
    BY <1>0 DEF SendKey, Success, Failure, Missed
  <2>3. \/ InfoChangeUnknown(m) \/ InfoChangeKnown(m) \/ GetFreeIndex(m) \/ KeysSent(m)
        \/ InfoChangeFinish(m) \/ (\E k \in Key : Timeout(m, k))
        \/ WorkModeSuccess(m) \/ ImuAnswer(m) \/ Restart(m)
        => UNCHANGED <<set_bits, inflight>>
    BY DEF InfoChangeUnknown, InfoChangeKnown, GetFreeIndex, KeysSent, InfoChangeFinish, Timeout,
           WorkModeSuccess, ImuAnswer, Restart
  <2>. QED BY <2>1, <2>2, <2>3, NextCases DEF StepOf, Callback
<1>2. work_mode'[m] = "none" /\ m \notin imu_asked'
  <2>1. ASSUME NEW l \in Lidar, InfoChangeFinish(l) PROVE work_mode'[m] = "none" /\ m \notin imu_asked'
    <3>1. l # m
      BY <1>0, <2>1 DEF InfoChangeFinish
    <3>. QED BY <1>0, <2>1, <3>1 DEF InfoChangeFinish
  <2>2. ASSUME NEW l \in Lidar, WorkModeSuccess(l) \/ ImuAnswer(l) \/ Restart(l)
        PROVE  work_mode'[m] = "none" /\ m \notin imu_asked'
    BY <1>0, <2>2 DEF WorkModeSuccess, ImuAnswer, Restart
  <2>3. ASSUME NEW l \in Lidar,
               \/ InfoChangeUnknown(l) \/ InfoChangeKnown(l) \/ GetFreeIndex(l) \/ KeysSent(l)
               \/ \E k \in Key : \/ SendKey(l, k) \/ Success(l, k) \/ Timeout(l, k)
                                 \/ Failure(l, k) \/ Missed(l, k)
        PROVE  UNCHANGED <<work_mode, imu_asked>>
    BY <2>3 DEF InfoChangeUnknown, InfoChangeKnown, GetFreeIndex, KeysSent, SendKey, Success, Timeout,
                Failure, Missed
  <2>4. CASE UNCHANGED vars
    BY <1>0, <2>4 DEF vars
  <2>. QED BY <1>0, <2>1, <2>2, <2>3, <2>4 DEF Next, Callback
<1>. QED
  BY <1>0, <1>1, <1>2

\* A lidar that got no slot is told nothing, however the slots are contended for.
THEOREM WithoutSlotLeftAlone == Spec => []NoSlotLeftAlone
<1>1. Init => ServedHasSlot /\ NoSlotLeftAlone
  BY DEF Init, ServedHasSlot, NoSlotLeftAlone
<1>. QED
  BY TypeInit, TypeStep, ServedStep, NoSlotStep, <1>1, PTL DEF Spec
==============================================================================
