------------------------ MODULE DriverLifecycle_proofs ------------------------
(***************************************************************************)
(* Proofs about the device slots and about the start and end of the driver,*)
(* for every set of lidars, configured or not, every number of slots and   *)
(* of queued packets.                                                      *)
(***************************************************************************)
EXTENDS DriverLifecycle, WellFoundedInduction, TLAPS

USE IndexAssumption, LifecycleAssumption

-------------------------------------------------------------------------------
(***************************************************************************)
(* The index of a lidar.                                                   *)
(***************************************************************************)

\* The loop of GetFreeIndex stops at a free slot if there is one.
LEMMA FirstFree ==
  ASSUME FreeSlots # {}
  PROVE  (CHOOSE i \in FreeSlots : \A j \in FreeSlots : i <= j) \in FreeSlots
<1>1. FreeSlots \subseteq Nat
  BY DEF FreeSlots, Slots
<1>2. PICK i \in FreeSlots : \A j \in FreeSlots : ~(<<j, i>> \in OpToRel(<, Nat))
  BY <1>1, WFMin, NatLessThanWellFounded
<1>3. \A j \in FreeSlots : ~(j < i)
  BY <1>1, <1>2 DEF OpToRel
<1>4. \A j \in FreeSlots : i <= j
  BY <1>1, <1>3
<1>. QED
  BY <1>4

\* A taken slot has one lidar, a free one none.
OneOwner ==
  /\ \A g, h \in Handle : Has(g) /\ map_index[g] = map_index[h] => g = h
  /\ \A i \in Slots : index_cache[i] <=> \E h \in Handle : map_index[h] = i

CacheType ==
  /\ map_index \in [Handle -> Slots \cup {NoIndex}]
  /\ index_cache \in [Slots -> BOOLEAN]

\* Inserting a lidar that has no slot gives it one of its own, if any is free, and
\* leaves the others theirs.
LEMMA InsertNew ==
  ASSUME CacheType, OneOwner, NEW h \in Handle, ~Has(h), Insert(h)
  PROVE  /\ CacheType' /\ OneOwner'
         /\ \A g \in Handle : Has(g) => map_index'[g] = map_index[g]
<1>0. NoIndex \notin Slots
  BY DEF NoIndex, Slots
<1>1. CASE FreeSlots = {}
  <2>1. UNCHANGED cacheVars
    BY <1>1 DEF Insert
  <2>. QED BY <2>1 DEF cacheVars, CacheType, OneOwner, Has
<1>2. CASE FreeSlots # {}
  <2>1. PICK i \in FreeSlots : /\ map_index' = [map_index EXCEPT ![h] = i]
                               /\ index_cache' = [index_cache EXCEPT ![i] = TRUE]
    BY <1>2, FirstFree DEF Insert
  <2>2. i \in Slots /\ ~index_cache[i]
    BY DEF FreeSlots
  <2>3. \A g \in Handle : map_index[g] # i
    BY <2>2 DEF OneOwner
  <2>4. CacheType'
    BY <2>1, <2>2 DEF CacheType
  <2>5. map_index'[h] = i /\ \A g \in Handle \ {h} : map_index'[g] = map_index[g]
    BY <2>1 DEF CacheType
  <2>6. \A g \in Handle : Has(g) => map_index'[g] = map_index[g]
    BY <2>5
  <2>7. ASSUME NEW g \in Handle, NEW k \in Handle, Has(g)', map_index'[g] = map_index'[k] PROVE g = k
    BY <2>3, <2>5, <2>7 DEF OneOwner, Has
  <2>8. ASSUME NEW j \in Slots PROVE index_cache'[j] <=> \E k \in Handle : map_index'[k] = j
    <3>1. CASE j = i
      BY <2>1, <2>2, <2>5, <3>1 DEF CacheType
    <3>2. CASE j # i
      <4>1. index_cache'[j] = index_cache[j]
        BY <2>1, <3>2 DEF CacheType
      <4>2. (\E k \in Handle : map_index'[k] = j) <=> (\E k \in Handle : map_index[k] = j)
        BY <1>0, <2>5, <3>2 DEF Has
      <4>. QED BY <4>1, <4>2 DEF OneOwner
    <3>. QED BY <3>1, <3>2
  <2>. QED BY <2>4, <2>6, <2>7, <2>8 DEF OneOwner
<1>. QED
  BY <1>1, <1>2

-------------------------------------------------------------------------------
(***************************************************************************)
(* The inductive invariant.                                                *)
(***************************************************************************)

Early == {"summary", "parse", "sdk", "fill", "insert"}
Connected == {"fill", "insert", "observer", "imu", "process"}
PcdJoined == {"join_imu", "lddc", "callbacks", "pub_handler", "join_proc", "exited"}
ImuJoined == {"lddc", "callbacks", "pub_handler", "join_proc", "exited"}
Stopped == {"callbacks", "pub_handler", "join_proc", "exited"}

\* The node's thread and the SDK's thread are never about to insert at the same time,
\* and what each is about to insert has no index: nobody else could have given it one.
OneInserter ==
  /\ main.pc \in Early => ~sdk.info_cb
  /\ info.pc # "idle" => sdk.info_cb
  /\ main.pc = "insert" => ~Has(main.at)
  /\ info.pc = "insert" => ~Has(info.at)

\* A slot holds data of the lidar that has it.
OwnData == \A i \in Slots : \A h \in stored[i] : map_index[h] = i

\* How far the start has come, and how far the end.
Phases ==
  /\ sdk.up => initialized \/ main.pc \in Connected
  /\ info.pc # "idle" => sdk.up \/ main.pc = "callbacks"
  /\ main.pc \in PcdJoined => poll["pcd"] = "done"
  /\ main.pc \in ImuJoined => poll["imu"] = "done"
  /\ main.pc \in Stopped => ~sdk.up
  /\ main.pc \in {"join_proc", "exited"} => ~sdk.observer
  /\ main.pc = "exited" => proc.pc \in {"none", "done"}

LifeInv ==
  /\ TypeOK
  /\ OneOwner
  /\ OneInserter
  /\ OwnData
  /\ Phases

-------------------------------------------------------------------------------
(***************************************************************************)
(* Types.                                                                  *)
(***************************************************************************)

LEMMA AnyoneIsALidar == Anyone \in Handle
BY DEF Anyone

\* What the types say of each part of the state.
MainOK == main \in [pc : MainPlace, todo : SUBSET Configured, at : Handle]
SdkOK == sdk \in [up : BOOLEAN, info_cb : BOOLEAN, observer : BOOLEAN]
InfoOK == info \in [pc : {"idle", "find", "insert"}, at : Handle]
PubOK ==
  /\ proc \in [pc : {"none", "check", "take", "store", "done"}, at : Handle]
  /\ imu_callback \in BOOLEAN /\ is_quit \in BOOLEAN
  /\ raw \in Seq(Handle) /\ Len(raw) <= MaxRaw
LdsOK ==
  /\ initialized \in BOOLEAN /\ request_exit \in BOOLEAN
  /\ stored \in [Slots -> SUBSET Handle]
  /\ count \in [Poll -> 0 .. 1]
PollOK == poll \in [Poll -> {"none", "start", "wait", "future", "done"}]

LEMMA TypeParts ==
  /\ TypeOK <=> CacheType /\ MainOK /\ SdkOK /\ InfoOK /\ PubOK /\ LdsOK /\ PollOK
  /\ TypeOK' <=> CacheType' /\ MainOK' /\ SdkOK' /\ InfoOK' /\ PubOK' /\ LdsOK' /\ PollOK'
BY DEF TypeOK, CacheType, MainOK, SdkOK, InfoOK, PubOK, LdsOK, PollOK

LEMMA TypeInit == Init => TypeOK
<1>. SUFFICES ASSUME Init PROVE TypeOK
  OBVIOUS
<1>. USE AnyoneIsALidar DEF Init
<1>1. CacheType
  BY DEF CacheInit, CacheType
<1>2. MainOK /\ SdkOK /\ InfoOK
  BY DEF MainOK, MainPlace, SdkOK, InfoOK, InfoIdle
<1>3. << >> \in Seq(Handle) /\ Len(<< >>) = 0
  OBVIOUS
<1>4. PubOK
  <2>1. raw \in Seq(Handle) /\ Len(raw) <= MaxRaw
    BY <1>3
  <2>2. proc \in [pc : {"none", "check", "take", "store", "done"}, at : Handle]
    OBVIOUS
  <2>. QED BY <2>1, <2>2 DEF PubOK
<1>5. LdsOK
  <2>1. stored \in [Slots -> SUBSET Handle]
    OBVIOUS
  <2>2. count \in [Poll -> 0 .. 1]
    OBVIOUS
  <2>. QED BY <2>1, <2>2 DEF LdsOK
<1>6. PollOK
  BY DEF PollOK
<1>. QED
  BY <1>1, <1>2, <1>4, <1>5, <1>6, TypeParts

LEMMA TypeUnchanged ==
  /\ CacheType /\ UNCHANGED cacheVars => CacheType'
  /\ MainOK /\ UNCHANGED main => MainOK'
  /\ SdkOK /\ UNCHANGED sdk => SdkOK'
  /\ InfoOK /\ UNCHANGED info => InfoOK'
  /\ PubOK /\ UNCHANGED pubVars => PubOK'
  /\ LdsOK /\ UNCHANGED <<initialized, ldsVars>> => LdsOK'
  /\ PollOK /\ UNCHANGED poll => PollOK'
BY DEF cacheVars, pubVars, ldsVars, CacheType, MainOK, SdkOK, InfoOK, PubOK, LdsOK, PollOK

\* The node's thread goes on to another place.
LEMMA MainToType ==
  ASSUME MainOK, NEW pc \in MainPlace, MainTo(pc)
  PROVE  MainOK' /\ main'.pc = pc /\ main'.todo = main.todo /\ main'.at = main.at
BY DEF MainOK, MainTo

\* The start.
LEMMA ConstructType ==
  ASSUME TypeOK, OneOwner, OneInserter, Construct
  PROVE  TypeOK'
<1>0. CacheType /\ MainOK /\ SdkOK /\ InfoOK /\ PubOK /\ LdsOK /\ PollOK
  BY TypeParts
<1>1. CASE ParseSummaryConfig
  <2>1. PICK pc \in {"parse", "observer", "threads"} : MainTo(pc)
    BY <1>1 DEF ParseSummaryConfig
  <2>2. MainOK'
    BY <1>0, <2>1, MainToType DEF MainPlace
  <2>. QED BY <1>0, <1>1, <2>2, TypeParts, TypeUnchanged DEF ParseSummaryConfig
<1>2. CASE ParseConfig
  <2>1. MainOK'
    BY <1>0, <1>2 DEF ParseConfig, MainOK, MainPlace
  <2>. QED BY <1>0, <1>2, <2>1, TypeParts, TypeUnchanged DEF ParseConfig
<1>3. CASE SdkInit
  <2>1. PICK pc \in {"fill", "threads"} : MainTo(pc)
    BY <1>3 DEF SdkInit
  <2>2. MainOK'
    BY <1>0, <2>1, MainToType DEF MainPlace
  <2>3. SdkOK'
    BY <1>0, <1>3 DEF SdkInit, SdkOK
  <2>. QED BY <1>0, <1>3, <2>2, <2>3, TypeParts, TypeUnchanged DEF SdkInit
<1>4. ASSUME NEW h \in Handle, FillFind(h) PROVE TypeOK'
  <2>1. MainOK'
    BY <1>0, <1>4 DEF FillFind, MainOK, MainPlace
  <2>. QED BY <1>0, <1>4, <2>1, TypeParts, TypeUnchanged DEF FillFind
<1>5. CASE FillInsert
  <2>1. MainOK' /\ main.at \in Handle /\ ~Has(main.at)
    BY <1>0, <1>5, AnyoneIsALidar DEF FillInsert, MainOK, MainPlace, OneInserter
  <2>2. CacheType'
    BY <1>0, <1>5, <2>1, InsertNew DEF FillInsert
  <2>. QED BY <1>0, <1>5, <2>1, <2>2, TypeParts, TypeUnchanged DEF FillInsert
<1>6. CASE SetInfoCallback
  <2>1. MainOK'
    BY <1>0, <1>6, MainToType DEF SetInfoCallback, MainPlace
  <2>2. SdkOK'
    BY <1>0, <1>6 DEF SetInfoCallback, SdkOK
  <2>. QED BY <1>0, <1>6, <2>1, <2>2, TypeParts, TypeUnchanged DEF SetInfoCallback
<1>7. CASE SetPointCloudsCallback
  <2>1. MainOK'
    BY <1>0, <1>7, MainToType DEF SetPointCloudsCallback, MainPlace
  <2>2. SdkOK'
    BY <1>0, <1>7 DEF SetPointCloudsCallback, SdkOK
  <2>. QED BY <1>0, <1>7, <2>1, <2>2, TypeParts, TypeUnchanged DEF SetPointCloudsCallback
<1>8. CASE SetImuDataCallback
  <2>1. MainOK'
    BY <1>0, <1>8, MainToType DEF SetImuDataCallback, MainPlace
  <2>2. PubOK'
    BY <1>0, <1>8 DEF SetImuDataCallback, PubOK
  <2>. QED BY <1>0, <1>8, <2>1, <2>2, TypeParts, TypeUnchanged DEF SetImuDataCallback
<1>9. CASE SetPointCloudConfig
  <2>1. MainOK'
    BY <1>0, <1>9, MainToType DEF SetPointCloudConfig, MainPlace
  <2>2. PubOK' /\ LdsOK'
    BY <1>0, <1>9 DEF SetPointCloudConfig, PubOK, LdsOK, ldsVars
  <2>. QED BY <1>0, <1>9, <2>1, <2>2, TypeParts, TypeUnchanged DEF SetPointCloudConfig
<1>10. CASE StartPollThreads
  <2>1. MainOK'
    BY <1>0, <1>10, MainToType DEF StartPollThreads, MainPlace
  <2>2. PollOK'
    BY <1>0, <1>10 DEF StartPollThreads, PollOK
  <2>. QED BY <1>0, <1>10, <2>1, <2>2, TypeParts, TypeUnchanged DEF StartPollThreads
<1>. QED
  BY <1>1, <1>2, <1>3, <1>4, <1>5, <1>6, <1>7, <1>8, <1>9, <1>10 DEF Construct

\* Data for a slot.
LEMMA StorageType ==
  ASSUME CacheType, LdsOK, NEW h \in Handle, NEW p \in Poll, Storage(h, p)
  PROVE  /\ stored' \in [Slots -> SUBSET Handle]
         /\ count' \in [Poll -> 0 .. 1]
         /\ request_exit' = request_exit
         /\ stored' = stored \/ (/\ Has(h)
                                 /\ stored' = [stored EXCEPT ![map_index[h]] = @ \cup {h}])
<1>1. PICK found \in Found(h) :
        /\ stored' = IF found THEN [stored EXCEPT ![map_index[h]] = @ \cup {h}] ELSE stored
        /\ count' = IF found THEN [count EXCEPT ![p] = 1] ELSE count
        /\ request_exit' = request_exit
  BY DEF Storage
<1>2. found => Has(h)
  BY <1>1 DEF Found
<1>3. Has(h) => map_index[h] \in Slots
  BY DEF CacheType, Has
<1>. QED
  BY <1>1, <1>2, <1>3 DEF LdsOK

\* The threads of the SDK, the point process thread and the poll threads.
LEMMA ThreadsType ==
  ASSUME TypeOK, OneOwner, OneInserter,
         \/ \E h \in Handle : InfoChange(h) \/ PointPacket(h) \/ ImuPacket(h)
         \/ InfoFind \/ InfoInsert
         \/ Process
         \/ \E p \in Poll : PollStep(p)
  PROVE  TypeOK'
<1>0. CacheType /\ MainOK /\ SdkOK /\ InfoOK /\ PubOK /\ LdsOK /\ PollOK
  BY TypeParts
<1>1. ASSUME NEW h \in Handle, InfoChange(h) PROVE TypeOK'
  <2>1. InfoOK'
    BY <1>1 DEF InfoChange, InfoOK
  <2>. QED BY <1>0, <1>1, <2>1, TypeParts, TypeUnchanged DEF InfoChange
<1>2. ASSUME NEW h \in Handle, PointPacket(h) PROVE TypeOK'
  <2>1. PubOK'
    BY <1>0, <1>2 DEF PointPacket, PubOK
  <2>. QED BY <1>0, <1>2, <2>1, TypeParts, TypeUnchanged DEF PointPacket
<1>3. ASSUME NEW h \in Handle, ImuPacket(h) PROVE TypeOK'
  <2>1. LdsOK'
    BY <1>0, <1>3, StorageType DEF ImuPacket, LdsOK, Poll
  <2>. QED BY <1>0, <1>3, <2>1, TypeParts, TypeUnchanged DEF ImuPacket
<1>4. CASE InfoFind
  <2>1. InfoOK'
    BY <1>0, <1>4, AnyoneIsALidar DEF InfoFind, InfoOK, InfoIdle
  <2>. QED BY <1>0, <1>4, <2>1, TypeParts, TypeUnchanged DEF InfoFind
<1>5. CASE InfoInsert
  <2>1. InfoOK' /\ info.at \in Handle /\ ~Has(info.at)
    BY <1>0, <1>5, AnyoneIsALidar DEF InfoInsert, InfoOK, InfoIdle, OneInserter
  <2>2. CacheType'
    BY <1>0, <1>5, <2>1, InsertNew DEF InfoInsert
  <2>. QED BY <1>0, <1>5, <2>1, <2>2, TypeParts, TypeUnchanged DEF InfoInsert
<1>6. CASE CheckQuit
  <2>1. PubOK'
    BY <1>0, <1>6 DEF CheckQuit, PubOK
  <2>. QED BY <1>0, <1>6, <2>1, TypeParts, TypeUnchanged DEF CheckQuit
<1>7. CASE Take
  <2>1. PubOK'
    BY <1>0, <1>7 DEF Take, PubOK
  <2>. QED BY <1>0, <1>7, <2>1, TypeParts, TypeUnchanged DEF Take
<1>8. CASE StoragePointData
  <2>1. PubOK' /\ proc.at \in Handle
    BY <1>0, <1>8, AnyoneIsALidar DEF StoragePointData, PubOK
  <2>2. LdsOK'
    BY <1>0, <1>8, <2>1, StorageType DEF StoragePointData, LdsOK, Poll
  <2>. QED BY <1>0, <1>8, <2>1, <2>2, TypeParts, TypeUnchanged DEF StoragePointData
<1>9. ASSUME NEW p \in Poll, PollStep(p) PROVE TypeOK'
  <2>1. PollOK'
    BY <1>0, <1>9 DEF PollStep, Distribute, Wait, CheckFuture, PollTo, PollOK
  <2>2. LdsOK'
    BY <1>0, <1>9 DEF PollStep, Distribute, Wait, CheckFuture, LdsOK, ldsVars
  <2>. QED BY <1>0, <1>9, <2>1, <2>2, TypeParts, TypeUnchanged DEF PollStep, Distribute, Wait, CheckFuture
<1>. QED
  BY <1>1, <1>2, <1>3, <1>4, <1>5, <1>6, <1>7, <1>8, <1>9 DEF Process

\* The end.
LEMMA DestroyType ==
  ASSUME TypeOK, RequestExit \/ Destroy
  PROVE  TypeOK'
<1>0. CacheType /\ MainOK /\ SdkOK /\ InfoOK /\ PubOK /\ LdsOK /\ PollOK
  BY TypeParts
<1>1. PICK pc \in MainPlace : MainTo(pc)
  BY DEF MainPlace, RequestExit, Destroy, SetExitSignal, Join, PrepareExit, SdkStopped, Uninit,
         JoinProcess
<1>2. MainOK'
  BY <1>0, <1>1, MainToType
<1>3. SdkOK'
  BY <1>0 DEF SdkOK, RequestExit, Destroy, SetExitSignal, Join, PrepareExit, SdkStopped, Uninit,
              JoinProcess
<1>4. PubOK'
  BY <1>0 DEF PubOK, pubVars, RequestExit, Destroy, SetExitSignal, Join, PrepareExit, SdkStopped,
              Uninit, JoinProcess
<1>5. LdsOK'
  BY <1>0 DEF LdsOK, ldsVars, RequestExit, Destroy, SetExitSignal, Join, PrepareExit, SdkStopped,
              Uninit, JoinProcess
<1>6. UNCHANGED <<cacheVars, info, poll>>
  BY DEF RequestExit, Destroy, SetExitSignal, Join, PrepareExit, SdkStopped, Uninit, JoinProcess
<1>. QED
  BY <1>0, <1>2, <1>3, <1>4, <1>5, <1>6, TypeParts, TypeUnchanged

LEMMA TypeStep == TypeOK /\ OneOwner /\ OneInserter /\ [Next]_vars => TypeOK'
<1>1. TypeOK /\ UNCHANGED vars => TypeOK'
  BY TypeParts, TypeUnchanged DEF vars
<1>. QED
  BY <1>1, ConstructType, ThreadsType, DestroyType DEF Next

-------------------------------------------------------------------------------
(***************************************************************************)
(* Who inserts, and what the slots hold.                                   *)
(***************************************************************************)

\* Only two steps change the index, each for a lidar that has none.
LEMMA IndexStep ==
  ASSUME TypeOK, OneOwner, OneInserter, [Next]_vars
  PROVE  /\ OneOwner'
         /\ \A g \in Handle : Has(g) => map_index'[g] = map_index[g]
         /\ UNCHANGED cacheVars \/ FillInsert \/ InfoInsert
<1>0. CacheType /\ main.at \in Handle /\ info.at \in Handle
  BY TypeParts DEF MainOK, InfoOK
<1>1. CASE FillInsert
  BY <1>0, <1>1, InsertNew DEF FillInsert, OneInserter
<1>2. CASE InfoInsert
  BY <1>0, <1>2, InsertNew DEF InfoInsert, OneInserter
<1>3. CASE ~FillInsert /\ ~InfoInsert
  <2>1. UNCHANGED cacheVars
    <3>1. Construct => UNCHANGED cacheVars
      BY <1>3 DEF Construct, ParseSummaryConfig, ParseConfig, SdkInit, FillFind, SetInfoCallback,
                  SetPointCloudsCallback, SetImuDataCallback, SetPointCloudConfig, StartPollThreads
    <3>2. \A h \in Handle : InfoChange(h) \/ PointPacket(h) \/ ImuPacket(h) => UNCHANGED cacheVars
      BY DEF InfoChange, PointPacket, ImuPacket
    <3>3. InfoFind \/ Process => UNCHANGED cacheVars
      BY DEF InfoFind, Process, CheckQuit, Take, StoragePointData
    <3>4. \A p \in Poll : PollStep(p) => UNCHANGED cacheVars
      BY DEF PollStep, Distribute, Wait, CheckFuture
    <3>5. RequestExit \/ Destroy => UNCHANGED cacheVars
      BY DEF RequestExit, Destroy, SetExitSignal, Join, PrepareExit, SdkStopped, Uninit, JoinProcess
    <3>. QED BY <1>3, <3>1, <3>2, <3>3, <3>4, <3>5 DEF Next, vars
  <2>. QED BY <2>1 DEF cacheVars, OneOwner, Has
<1>. QED
  BY <1>1, <1>2, <1>3

\* Outside the start, the node's thread never goes back to it, and the SDK keeps its
\* info change callback.
LEMMA AfterStart ==
  ASSUME TypeOK, [Next]_vars, ~Construct
  PROVE  /\ main' = main \/ (main'.pc \in MainPlace \ Early)
         /\ sdk'.info_cb = sdk.info_cb
<1>0. MainOK /\ SdkOK
  BY TypeParts
<1>1. \A h \in Handle : InfoChange(h) \/ PointPacket(h) \/ ImuPacket(h) => UNCHANGED <<main, sdk>>
  BY DEF InfoChange, PointPacket, ImuPacket
<1>2. InfoFind \/ InfoInsert \/ Process => UNCHANGED <<main, sdk>>
  BY DEF InfoFind, InfoInsert, Process, CheckQuit, Take, StoragePointData
<1>3. \A p \in Poll : PollStep(p) => UNCHANGED <<main, sdk>>
  BY DEF PollStep, Distribute, Wait, CheckFuture
<1>4. ASSUME RequestExit \/ Destroy
      PROVE  main'.pc \in MainPlace \ Early /\ sdk'.info_cb = sdk.info_cb
  <2>1. PICK pc \in MainPlace \ Early : MainTo(pc)
    BY <1>4 DEF MainPlace, Early, RequestExit, Destroy, SetExitSignal, Join, PrepareExit, SdkStopped,
                Uninit, JoinProcess
  <2>2. main'.pc = pc
    BY <1>0, <2>1, MainToType
  <2>3. sdk'.info_cb = sdk.info_cb
    BY <1>0, <1>4 DEF SdkOK, RequestExit, Destroy, SetExitSignal, Join, PrepareExit, SdkStopped, Uninit,
                      JoinProcess
  <2>. QED BY <2>2, <2>3
<1>. QED
  BY <1>1, <1>2, <1>3, <1>4 DEF Next, vars

\* The node's thread sets the SDK's callback when it has nothing left to insert.
LEMMA ConstructInserter ==
  ASSUME TypeOK, OneOwner, OneInserter, Construct
  PROVE  OneInserter'
<1>0. MainOK /\ SdkOK /\ InfoOK
  BY TypeParts
<1>. USE DEF OneInserter
<1>1. CASE ParseSummaryConfig \/ ParseConfig \/ SdkInit
  <2>1. main'.pc \in {"parse", "observer", "threads", "sdk", "fill"} /\ UNCHANGED <<cacheVars, info>>
    BY <1>0, <1>1 DEF ParseSummaryConfig, ParseConfig, SdkInit, MainTo, MainOK
  <2>2. main.pc \in Early /\ sdk'.info_cb = sdk.info_cb
    BY <1>0, <1>1 DEF ParseSummaryConfig, ParseConfig, SdkInit, Early, SdkOK
  <2>. QED BY <2>1, <2>2 DEF cacheVars, Has
<1>2. ASSUME NEW h \in Handle, FillFind(h) PROVE OneInserter'
  <2>1. main.pc \in Early /\ main'.pc \in {"fill", "insert"} /\ UNCHANGED <<cacheVars, sdk, info>>
    BY <1>0, <1>2 DEF FillFind, Early, MainOK
  <2>2. main'.pc = "insert" => ~Has(main'.at)
    BY <1>0, <1>2 DEF FillFind, MainOK
  <2>. QED BY <2>1, <2>2 DEF cacheVars, Has
<1>3. CASE FillInsert
  <2>1. main.pc \in Early /\ main'.pc = "fill" /\ UNCHANGED <<sdk, info>>
    BY <1>0, <1>3 DEF FillInsert, Early, MainOK
  <2>. QED BY <2>1
<1>4. CASE SetInfoCallback
  <2>1. main.pc = "fill" /\ main'.pc = "observer" /\ sdk'.info_cb /\ UNCHANGED <<cacheVars, info>>
    BY <1>0, <1>4 DEF SetInfoCallback, MainTo, MainOK, SdkOK
  <2>. QED BY <2>1 DEF Early, cacheVars, Has
<1>5. CASE SetPointCloudsCallback \/ SetImuDataCallback \/ SetPointCloudConfig \/ StartPollThreads
  <2>1. main'.pc \in {"imu", "process", "threads", "run"} /\ UNCHANGED <<cacheVars, info>>
    BY <1>0, <1>5 DEF SetPointCloudsCallback, SetImuDataCallback, SetPointCloudConfig, StartPollThreads,
                      MainTo, MainOK
  <2>2. sdk'.info_cb = sdk.info_cb
    BY <1>0, <1>5 DEF SetPointCloudsCallback, SetImuDataCallback, SetPointCloudConfig, StartPollThreads,
                      SdkOK
  <2>. QED BY <2>1, <2>2 DEF Early, cacheVars, Has
<1>. QED
  BY <1>1, <1>2, <1>3, <1>4, <1>5 DEF Construct

\* The SDK's thread decides to insert a lidar that has no index, and nobody else
\* inserts before it does.
LEMMA InserterStep ==
  ASSUME TypeOK, OneOwner, OneInserter, [Next]_vars
  PROVE  OneInserter'
<1>0. MainOK /\ SdkOK /\ InfoOK
  BY TypeParts
<1>1. CASE Construct
  BY <1>1, ConstructInserter
<1>2. CASE ~Construct
  <2>1. /\ main' = main \/ (main'.pc \in MainPlace \ Early)
        /\ sdk'.info_cb = sdk.info_cb
    BY <1>2, AfterStart
  <2>2. main'.pc \in Early => ~sdk'.info_cb
    BY <2>1 DEF OneInserter
  <2>3. info' # info => InfoFind \/ InfoInsert \/ \E h \in Handle : InfoChange(h)
    <3>1. \A h \in Handle : PointPacket(h) \/ ImuPacket(h) => UNCHANGED info
      BY DEF PointPacket, ImuPacket
    <3>2. Process => UNCHANGED info
      BY DEF Process, CheckQuit, Take, StoragePointData
    <3>3. \A p \in Poll : PollStep(p) => UNCHANGED info
      BY DEF PollStep, Distribute, Wait, CheckFuture
    <3>4. RequestExit \/ Destroy => UNCHANGED info
      BY DEF RequestExit, Destroy, SetExitSignal, Join, PrepareExit, SdkStopped, Uninit, JoinProcess
    <3>. QED BY <1>2, <3>1, <3>2, <3>3, <3>4 DEF Next, vars
  <2>4. info'.pc # "idle" => sdk'.info_cb
    <3>1. InfoFind \/ InfoInsert => info'.pc = "idle" \/ info.pc # "idle"
      BY DEF InfoFind, InfoInsert, InfoIdle
    <3>2. \A h \in Handle : InfoChange(h) => sdk.info_cb
      BY DEF InfoChange
    <3>. QED BY <2>1, <2>3, <3>1, <3>2 DEF OneInserter
  <2>5. main'.pc = "insert" => ~Has(main.at)'
    <3>1. SUFFICES ASSUME main' = main, main.pc = "insert" PROVE ~Has(main.at)'
      BY <2>1 DEF Early
    <3>2. info.pc = "idle"
      BY <3>1 DEF OneInserter, Early
    <3>3. UNCHANGED cacheVars
      BY <1>2, <3>2, IndexStep DEF Construct, InfoInsert
    <3>. QED BY <3>1, <3>3 DEF OneInserter, cacheVars, Has
  <2>6. info'.pc = "insert" => ~Has(info.at)'
    <3>1. CASE InfoInsert
      BY <3>1 DEF InfoInsert, InfoIdle
    <3>2. CASE ~InfoInsert
      <4>1. UNCHANGED cacheVars
        BY <1>2, <3>2, IndexStep DEF Construct
      <4>2. InfoFind /\ info'.pc = "insert" => ~Has(info'.at)
        BY <1>0 DEF InfoFind, InfoIdle, InfoOK
      <4>3. \A h \in Handle : InfoChange(h) => info'.pc = "find"
        BY DEF InfoChange
      <4>. QED BY <2>3, <3>2, <4>1, <4>2, <4>3 DEF OneInserter, cacheVars, Has
    <3>. QED BY <3>1, <3>2
  <2>. QED BY <2>2, <2>4, <2>5, <2>6 DEF OneInserter
<1>. QED
  BY <1>1, <1>2

\* A slot receives the data of the lidar whose index it is, and that lidar keeps it.
LEMMA OwnDataStep ==
  ASSUME TypeOK, OneOwner, OneInserter, OwnData, [Next]_vars
  PROVE  OwnData'
<1>0. CacheType /\ LdsOK /\ PubOK
  BY TypeParts
<1>1. \A h \in Handle : Has(h) => map_index'[h] = map_index[h]
  BY IndexStep
<1>2. \A i \in Slots : \A h \in stored[i] : h \in Handle /\ Has(h)
  <2>1. \A i \in Slots : i # NoIndex
    BY DEF NoIndex, Slots
  <2>. QED BY <1>0, <2>1 DEF OwnData, Has, LdsOK
<1>3. ASSUME NEW h \in Handle, NEW p \in Poll, Storage(h, p) PROVE OwnData'
  <2>1. CASE stored' = stored
    BY <1>1, <1>2, <2>1 DEF OwnData
  <2>2. CASE Has(h) /\ stored' = [stored EXCEPT ![map_index[h]] = @ \cup {h}]
    <3>1. ASSUME NEW i \in Slots, NEW g \in stored'[i] PROVE map_index'[g] = i
      <4>1. g \in stored[i] \/ (i = map_index[h] /\ g = h)
        BY <1>0, <2>2, <3>1 DEF LdsOK
      <4>. QED BY <1>1, <1>2, <2>2, <4>1 DEF OwnData
    <3>. QED BY <3>1 DEF OwnData
  <2>. QED BY <1>0, <1>3, <2>1, <2>2, StorageType
<1>4. ASSUME UNCHANGED stored PROVE OwnData'
  BY <1>1, <1>2, <1>4 DEF OwnData
<1>5. Construct => UNCHANGED stored
  BY DEF ldsVars, Construct, ParseSummaryConfig, ParseConfig, SdkInit, FillFind, FillInsert,
         SetInfoCallback, SetPointCloudsCallback, SetImuDataCallback, SetPointCloudConfig,
         StartPollThreads
<1>6. ASSUME NEW h \in Handle, InfoChange(h) \/ PointPacket(h) \/ ImuPacket(h) PROVE OwnData'
  BY <1>3, <1>4, <1>6 DEF InfoChange, PointPacket, ImuPacket, ldsVars, Poll
<1>7. CASE InfoFind \/ InfoInsert \/ CheckQuit \/ Take
  BY <1>4, <1>7 DEF InfoFind, InfoInsert, CheckQuit, Take, ldsVars
<1>8. CASE StoragePointData
  <2>1. proc.at \in Handle
    BY <1>0 DEF PubOK
  <2>. QED BY <1>3, <1>8, <2>1 DEF StoragePointData, Poll
<1>9. \A p \in Poll : PollStep(p) => UNCHANGED stored
  BY DEF PollStep, Distribute, Wait, CheckFuture, ldsVars
<1>10. RequestExit \/ Destroy => UNCHANGED stored
  BY DEF ldsVars, RequestExit, Destroy, SetExitSignal, Join, PrepareExit, SdkStopped, Uninit, JoinProcess
<1>. QED
  BY <1>4, <1>5, <1>6, <1>7, <1>8, <1>9, <1>10 DEF Next, Process, vars, ldsVars

-------------------------------------------------------------------------------
(***************************************************************************)
(* How far the start and the end have come.                                *)
(***************************************************************************)

\* During the start: the SDK comes up once, and nothing has ended.
LEMMA ConstructPhases ==
  ASSUME TypeOK, Phases, Construct
  PROVE  Phases'
<1>0. MainOK /\ SdkOK /\ UNCHANGED info
  BY TypeParts DEF Construct, ParseSummaryConfig, ParseConfig, SdkInit, FillFind, FillInsert,
         SetInfoCallback, SetPointCloudsCallback, SetImuDataCallback, SetPointCloudConfig,
         StartPollThreads
<1>1. main'.pc \notin PcdJoined \cup ImuJoined \cup Stopped
  <2>1. CASE \E h \in Handle : FillFind(h)
    BY <1>0, <2>1 DEF MainOK, PcdJoined, ImuJoined, Stopped, FillFind
  <2>2. CASE ParseConfig \/ FillInsert
    BY <1>0, <2>2 DEF MainOK, PcdJoined, ImuJoined, Stopped, ParseConfig, FillInsert
  <2>3. CASE ~ParseConfig /\ ~FillInsert /\ \A h \in Handle : ~FillFind(h)
    <3>1. PICK pc \in {"parse", "observer", "threads", "fill", "imu", "process", "run"} : MainTo(pc)
      BY <2>3 DEF Construct, ParseSummaryConfig, SdkInit, SetInfoCallback, SetPointCloudsCallback,
                  SetImuDataCallback, SetPointCloudConfig, StartPollThreads
    <3>2. main'.pc = pc
      BY <1>0, <3>1, MainToType DEF MainPlace
    <3>. QED BY <3>1, <3>2 DEF PcdJoined, ImuJoined, Stopped
  <2>. QED BY <2>1, <2>2, <2>3
<1>2. main.pc # "callbacks"
  BY DEF Construct, ParseSummaryConfig, ParseConfig, SdkInit, FillFind, FillInsert,
         SetInfoCallback, SetPointCloudsCallback, SetImuDataCallback, SetPointCloudConfig,
         StartPollThreads
<1>3. sdk.up => sdk'.up
  BY <1>0 DEF SdkOK, Construct, ParseSummaryConfig, ParseConfig, SdkInit, FillFind, FillInsert,
         SetInfoCallback, SetPointCloudsCallback, SetImuDataCallback, SetPointCloudConfig,
         StartPollThreads
<1>4. sdk'.up => initialized' \/ main'.pc \in Connected
  <2>1. CASE ParseSummaryConfig \/ ParseConfig \/ StartPollThreads
    BY <2>1 DEF Phases, Connected, ParseSummaryConfig, ParseConfig, StartPollThreads
  <2>2. CASE SdkInit
    BY <1>0, <2>2 DEF Phases, Connected, SdkInit, MainTo, MainOK
  <2>3. CASE \E h \in Handle : FillFind(h)
    BY <1>0, <2>3 DEF Connected, FillFind, MainOK
  <2>4. CASE FillInsert \/ SetInfoCallback \/ SetPointCloudsCallback \/ SetImuDataCallback
    BY <1>0, <2>4 DEF Connected, MainTo, MainOK, FillInsert, SetInfoCallback, SetPointCloudsCallback,
                      SetImuDataCallback
  <2>5. CASE SetPointCloudConfig
    BY <2>5 DEF SetPointCloudConfig
  <2>. QED BY <2>1, <2>2, <2>3, <2>4, <2>5 DEF Construct
<1>. QED
  BY <1>0, <1>1, <1>2, <1>3, <1>4 DEF Phases, PcdJoined, ImuJoined, Stopped

\* The threads of the SDK and of the driver: a poll thread that has ended stays
\* ended, and the point process thread does too.
LEMMA ThreadsPhases ==
  ASSUME TypeOK, Phases,
         \/ \E h \in Handle : InfoChange(h) \/ PointPacket(h) \/ ImuPacket(h)
         \/ InfoFind \/ InfoInsert
         \/ Process
         \/ \E p \in Poll : PollStep(p)
  PROVE  Phases'
<1>0. PollOK /\ UNCHANGED <<main, initialized, sdk>>
  BY TypeParts DEF InfoChange, PointPacket, ImuPacket, InfoFind, InfoInsert, Process, CheckQuit, Take,
         StoragePointData, PollStep, Distribute, Wait, CheckFuture
<1>1. info'.pc # "idle" => sdk.up \/ info.pc # "idle"
  BY DEF InfoChange, PointPacket, ImuPacket, InfoFind, InfoInsert, InfoIdle, Process, CheckQuit, Take,
         StoragePointData, PollStep, Distribute, Wait, CheckFuture
<1>2. \A p \in Poll : poll[p] = "done" => poll'[p] = "done"
  <2>1. ASSUME NEW q \in Poll, PollStep(q)
        PROVE  poll[q] # "done" /\ \E pc : poll' = [poll EXCEPT ![q] = pc]
    BY <2>1 DEF PollStep, Distribute, Wait, CheckFuture, PollTo
  <2>2. ASSUME NEW q \in Poll, PollStep(q), NEW p \in Poll, poll[p] = "done"
        PROVE  poll'[p] = "done"
    BY <1>0, <2>1, <2>2 DEF PollOK
  <2>3. (\A q \in Poll : ~PollStep(q)) => poll' = poll
    BY DEF InfoChange, PointPacket, ImuPacket, InfoFind, InfoInsert, Process, CheckQuit, Take,
         StoragePointData
  <2>. QED BY <2>2, <2>3
<1>3. proc.pc \in {"none", "done"} => proc' = proc
  BY DEF InfoChange, PointPacket, ImuPacket, InfoFind, InfoInsert, pubVars, Process, CheckQuit, Take,
         StoragePointData, PollStep, Distribute, Wait, CheckFuture
<1>4. {"pcd", "imu"} = Poll
  BY DEF Poll
<1>. QED
  BY <1>0, <1>1, <1>2, <1>3, <1>4 DEF Phases

\* The end: each place is reached when what it waits for has come.
LEMMA DestroyPhases ==
  ASSUME TypeOK, Phases, RequestExit \/ Destroy
  PROVE  Phases'
<1>0. MainOK /\ SdkOK
  BY TypeParts
<1>. USE DEF Phases, Connected, PcdJoined, ImuJoined, Stopped
<1>1. CASE RequestExit
  BY <1>0, <1>1, MainToType DEF RequestExit, MainPlace, pubVars
<1>2. CASE SetExitSignal
  BY <1>0, <1>2, MainToType DEF SetExitSignal, MainPlace, pubVars
<1>3. CASE Join("pcd", "join_pcd", "join_imu")
  BY <1>0, <1>3, MainToType DEF Join, MainPlace, pubVars
<1>4. CASE Join("imu", "join_imu", "lddc")
  BY <1>0, <1>4, MainToType DEF Join, MainPlace, pubVars
<1>5. CASE PrepareExit
  <2>1. CASE initialized
    <3>1. main'.pc = "callbacks" /\ ~sdk'.up
      BY <1>0, <1>5, <2>1, MainToType DEF PrepareExit, MainPlace, SdkOK
    <3>. QED BY <1>5, <3>1 DEF PrepareExit, pubVars
  <2>2. CASE ~initialized
    <3>1. main'.pc = "pub_handler" /\ sdk' = sdk /\ ~sdk.up
      BY <1>0, <1>5, <2>2, MainToType DEF PrepareExit, MainPlace
    <3>. QED BY <1>5, <3>1 DEF PrepareExit, pubVars
  <2>. QED BY <2>1, <2>2
<1>6. CASE SdkStopped
  BY <1>0, <1>6, MainToType DEF SdkStopped, MainPlace, pubVars
<1>7. CASE Uninit
  <2>1. main'.pc = "join_proc" /\ ~sdk'.up /\ ~sdk'.observer
    BY <1>0, <1>7, MainToType DEF Uninit, MainPlace, SdkOK
  <2>. QED BY <1>7, <2>1 DEF Uninit
<1>8. CASE JoinProcess
  BY <1>0, <1>8, MainToType DEF JoinProcess, MainPlace, pubVars
<1>. QED
  BY <1>1, <1>2, <1>3, <1>4, <1>5, <1>6, <1>7, <1>8 DEF Destroy

-------------------------------------------------------------------------------
(***************************************************************************)
(* The theorems.                                                           *)
(***************************************************************************)

LEMMA LifeInit == Init => LifeInv
<1>. SUFFICES ASSUME Init PROVE LifeInv
  OBVIOUS
<1>1. TypeOK
  BY TypeInit
<1>2. OneOwner
  <2>1. \A h \in Handle : map_index[h] = NoIndex
    BY DEF Init, CacheInit
  <2>2. NoIndex \notin Slots /\ \A i \in Slots : ~index_cache[i]
    BY DEF Init, CacheInit, NoIndex, Slots
  <2>. QED BY <2>1, <2>2 DEF OneOwner, Has
<1>3. OneInserter /\ OwnData
  BY DEF Init, InfoIdle, OneInserter, OwnData
<1>4. Phases
  BY DEF Init, InfoIdle, Phases, PcdJoined, ImuJoined, Stopped
<1>. QED
  BY <1>1, <1>2, <1>3, <1>4 DEF LifeInv

LEMMA LifeStep == LifeInv /\ [Next]_vars => LifeInv'
<1>. SUFFICES ASSUME LifeInv, [Next]_vars PROVE LifeInv'
  OBVIOUS
<1>0. TypeOK /\ OneOwner /\ OneInserter /\ OwnData /\ Phases
  BY DEF LifeInv
<1>1. Phases'
  <2>1. CASE UNCHANGED vars
    BY <1>0, <2>1 DEF vars, pubVars, Phases
  <2>. QED BY <1>0, <2>1, ConstructPhases, ThreadsPhases, DestroyPhases DEF Next
<1>. QED
  BY <1>0, <1>1, TypeStep, IndexStep, InserterStep, OwnDataStep DEF LifeInv

LEMMA Life == Spec => []LifeInv
BY LifeInit, LifeStep, PTL DEF Spec

\* Every variable keeps its type, above all: every index handed out is that of a
\* device slot, and a wake-up is never counted twice.
THEOREM TypeCorrect == Spec => []TypeOK
<1>1. LifeInv => TypeOK
  BY DEF LifeInv
<1>. QED
  BY <1>1, Life, PTL

\* A slot that is taken has one lidar, a free one none, although GetFreeIndex looks
\* and inserts under two locks.
THEOREM IndexIsConsistent == Spec => []IndexConsistent
<1>1. OneOwner => IndexConsistent
  <2>1. NoIndex \notin Slots
    BY DEF NoIndex, Slots
  <2>2. ASSUME OneOwner, NEW i \in Slots
        PROVE  index_cache[i] <=> \E h \in Handle : {g \in Handle : map_index[g] = i} = {h}
    <3>1. ASSUME NEW h \in Handle, map_index[h] = i PROVE {g \in Handle : map_index[g] = i} = {h}
      BY <2>1, <2>2, <3>1 DEF OneOwner, Has
    <3>2. ASSUME NEW h \in Handle, {g \in Handle : map_index[g] = i} = {h} PROVE map_index[h] = i
      BY <3>2
    <3>. QED BY <2>2, <3>1, <3>2 DEF OneOwner
  <2>. QED BY <2>2 DEF IndexConsistent
<1>2. LifeInv => IndexConsistent
  BY <1>1 DEF LifeInv
<1>. QED
  BY <1>2, Life, PTL

\* A lidar that has a device slot keeps it, so its index may be held without a lock.
THEOREM IndexIsStable == Spec => StableIndex
<1>1. LifeInv /\ [Next]_vars => [\A h \in Handle : Has(h) => map_index'[h] = map_index[h]]_vars
  BY IndexStep DEF LifeInv
<1>. QED
  BY <1>1, Life, PTL DEF Spec, StableIndex

\* No slot receives the data of two lidars, whatever lidars are seen, configured or
\* not, and however many there are.
THEOREM SlotsAreNotShared == Spec => []OneLidarPerSlot
<1>1. TypeOK /\ OneOwner /\ OwnData => OneLidarPerSlot
  <2>. SUFFICES ASSUME TypeOK, OneOwner, OwnData, NEW i \in Slots, NEW g \in stored[i],
                       NEW h \in stored[i]
                PROVE  g = h
    BY DEF OneLidarPerSlot
  <2>1. g \in Handle /\ h \in Handle
    BY TypeParts DEF LdsOK
  <2>2. i # NoIndex
    BY DEF NoIndex, Slots
  <2>. QED BY <2>1, <2>2 DEF OwnData, OneOwner, Has
<1>2. LifeInv => OneLidarPerSlot
  BY <1>1 DEF LifeInv
<1>. QED
  BY <1>2, Life, PTL

\* When the process ends, the poll threads, the point process thread and the SDK have
\* all stopped using the objects that are gone, at whatever step the start failed.
THEOREM NothingIsLeftRunning == Spec => []NothingRunsAtExit
<1>1. LifeInv => NothingRunsAtExit
  BY DEF LifeInv, Phases, NothingRunsAtExit, PcdJoined, ImuJoined, Stopped, Poll
<1>. QED
  BY <1>1, Life, PTL
==============================================================================
