----------------------------- MODULE LidarConfig -----------------------------
(***************************************************************************)
(* How a lidar is configured before its data is published                  *)
(* (call_back/livox_lidar_callback.cpp).  When the SDK reports a lidar,    *)
(* LidarInfoChangeCallback sends it the parameters of the user's config,   *)
(* one asynchronous command each, and remembers in set_bits which are      *)
(* outstanding; the callback of each command clears its bit, asks again on *)
(* a timeout, and the one that clears the last bit sets                    *)
(* kConnectStateSampling.                                                  *)
(*                                                                         *)
(* The SDK and the lidars are not part of the repository.  They are        *)
(* modelled by what the callbacks may observe: a command is carried out and*)
(* answered, or times out (whether carried out or not), or is refused, and *)
(* a lidar may restart, which the driver is not told of.                   *)
(***************************************************************************)
EXTENDS Integers, FiniteSets

CONSTANTS Lidar,      \* the lidars the SDK may report
          Key,        \* the parameters that have a bit in set_bits
          Files,      \* the user's config files: a file gives each lidar it has an
                      \* entry for the values of some parameters
          kMaxSourceLidar, \* the lidars that cache_index_ has a slot for
          MayRefuse,  \* whether a lidar may refuse a command
          MaxInfo,    \* bound: reports of each lidar
          MayRestart  \* the lidars that may restart, once each

ASSUME ConfigAssumption ==
  /\ \A f \in Files : DOMAIN f \subseteq Lidar
  /\ \A f \in Files : \A l \in DOMAIN f : DOMAIN f[l] \subseteq Key
  /\ IsFiniteSet(Lidar) /\ kMaxSourceLidar \in Nat
  /\ MayRefuse \in BOOLEAN
  /\ MaxInfo \in [Lidar -> Nat]
  /\ MayRestart \subseteq Lidar

None == "none"
ASSUME NoneAssumption == None \notin Lidar

VARIABLES
  file,           \* the user's config file
  known,          \* lidars that have a slot in cache_index_, for good
  set_bits,       \* livox_config.set_bits of each lidar
  connect_state,  \* connect_state of each lidar
  config_mutex,   \* the lidar whose report holds config_mutex_, or None
  info,           \* LidarInfoChangeCallback of each lidar: place, keys to send, count
  inflight,       \* SDK: commands of each lidar and key not answered yet
  refused,        \* commands of each lidar refused, not sent or with the answer lost
  applied,        \* what each lidar has been told and carried out
  work_mode,      \* SetLivoxLidarWorkMode(kLivoxLidarNormal) of each lidar
  imu_asked,      \* lidars with an EnableLivoxLidarImuData not answered yet
  restarted,      \* reports of each lidar that had come when it restarted, or Never
  stale           \* keys of each lidar with an answer from before its restart to come

driver == <<file, known, set_bits, connect_state, config_mutex, info>>
lidar == <<restarted, stale>>
sdk == <<inflight, refused, applied, work_mode, imu_asked, lidar>>
vars == <<driver, sdk>>

Never == -1

Online == {l \in Lidar : MaxInfo[l] > 0}   \* the others are switched off

Configured == DOMAIN file

Int8(n) == ((n + 128) % 256) - 128   \* static_cast<int8_t>

\* ParseUserConfigs: -1 stands for a parameter that the entry does not have.
ParseUserConfigs(l) ==
  [k \in Key |-> IF k \in DOMAIN file[l] THEN Int8(file[l][k]) ELSE -1]

\* livox_config.  That of a lidar that is not in the user's config was never
\* filled in: LdsLidar is a static object, so its fields are 0 (lds_lidar.h:46).
livox_config == [l \in Lidar |-> IF l \in Configured THEN ParseUserConfigs(l)
                                                    ELSE [k \in Key |-> 0]]

ToSend(l) == {k \in Key : livox_config[l][k] # -1}

FreeSlot == Cardinality(known) < kMaxSourceLidar

\* Lidars of the file get their slots before any is reported, as far as there are.
Init ==
  /\ file \in Files
  /\ known \in SUBSET Configured /\ Cardinality(known) <= kMaxSourceLidar
  /\ FreeSlot => known = Configured
  /\ set_bits = [l \in Lidar |-> {}]
  /\ connect_state = [l \in Lidar |-> "off"]
  /\ config_mutex = None
  /\ info = [l \in Lidar |-> [pc |-> "idle", todo |-> {}, count |-> 0]]
  /\ inflight = [l \in Lidar |-> [k \in Key |-> 0]]
  /\ refused = [l \in Lidar |-> {}]
  /\ applied = [l \in Lidar |-> {}]
  /\ work_mode = [l \in Lidar |-> "none"]
  /\ imu_asked = {}
  /\ restarted = [l \in Lidar |-> Never]
  /\ stale = [l \in Lidar |-> {}]

-------------------------------------------------------------------------------
(***************************************************************************)
(* LidarInfoChangeCallback.                                                *)
(***************************************************************************)

Report(l) == info[l].pc = "idle" /\ info[l].count < MaxInfo[l]

Reported(l, pc, todo) ==
  info' = [info EXCEPT ![l] = [pc |-> pc, todo |-> todo, count |-> @.count + 1]]

\* cache_index_ is searched without its lock: while another lidar is inserted, the
\* search may miss lidar l though it has a slot.
Racing(l) == FreeSlot /\ \E other \in Lidar \ {l} :
  other \notin known /\ info[other].pc = "insert"

\* A lidar whose search finds nothing is sent no parameters: it is new, or was missed.
InfoChangeUnknown(l) ==
  /\ Report(l)
  /\ l \notin known \/ Racing(l)
  /\ Reported(l, "insert", {})
  /\ UNCHANGED <<file, known, set_bits, connect_state, config_mutex, sdk>>

\* Broken: the callback goes on without a slot.
GetFreeIndexUnchecked(l) ==
  /\ info[l].pc = "insert"
  /\ known' = IF FreeSlot THEN known \cup {l} ELSE known
  /\ info' = [info EXCEPT ![l].pc = "finish"]
  /\ UNCHANGED <<file, set_bits, connect_state, config_mutex, sdk>>

\* Under the lock the lidar is found, or gets a slot; if there is none, the
\* callback returns.
GetFreeIndex(l) ==
  /\ info[l].pc = "insert"
  /\ IF l \in known \/ FreeSlot
     THEN known' = known \cup {l} /\ info' = [info EXCEPT ![l].pc = "finish"]
     ELSE known' = known /\ info' = [info EXCEPT ![l].pc = "idle"]
  /\ UNCHANGED <<file, set_bits, connect_state, config_mutex, sdk>>

\* Broken: config_mutex_ is not taken.
InfoChangeUnlocked(l) ==
  /\ Report(l)
  /\ l \in known
  /\ Reported(l, "keys", ToSend(l))
  /\ UNCHANGED <<file, known, set_bits, connect_state, config_mutex, sdk>>

\* Broken: a lidar that is published already is not configured again.
InfoChangeOnce(l) ==
  /\ Report(l)
  /\ l \in known
  /\ config_mutex = None
  /\ config_mutex' = l
  /\ Reported(l, "keys", IF connect_state[l] = "sampling" THEN {} ELSE ToSend(l))
  /\ UNCHANGED <<file, known, set_bits, connect_state, sdk>>

InfoChangeKnown(l) ==
  /\ Report(l)
  /\ l \in known
  /\ config_mutex = None
  /\ config_mutex' = l
  /\ Reported(l, "keys", ToSend(l))
  /\ UNCHANGED <<file, known, set_bits, connect_state, sdk>>

\* One of the four blocks that set a bit and send its command.  What the SDK
\* returns is ignored: a command it could not send gets no answer.
SendKey(l, k) ==
  /\ info[l].pc = "keys"
  /\ k \in info[l].todo
  /\ set_bits' = [set_bits EXCEPT ![l] = @ \cup {k}]
  /\ info' = [info EXCEPT ![l].todo = @ \ {k}]
  /\ \/ /\ inflight' = [inflight EXCEPT ![l][k] = @ + 1]
        /\ refused' = refused
     \/ /\ MayRefuse
        /\ refused' = [refused EXCEPT ![l] = @ \cup {k}]
        /\ inflight' = inflight
  /\ UNCHANGED <<file, known, connect_state, config_mutex, applied, work_mode, imu_asked, lidar>>

SamplingIfDone(l) ==
  connect_state' = IF set_bits'[l] = {} THEN [connect_state EXCEPT ![l] = "sampling"]
                                        ELSE connect_state

\* Broken: the mutex is left locked.
KeysSentStillLocked(l) ==
  /\ info[l].pc = "keys"
  /\ info[l].todo = {}
  /\ set_bits' = set_bits
  /\ SamplingIfDone(l)
  /\ info' = [info EXCEPT ![l].pc = "finish"]
  /\ UNCHANGED <<file, known, config_mutex, sdk>>

\* Broken: a lidar with nothing to configure is forgotten.
KeysSentUnchecked(l) ==
  /\ info[l].pc = "keys"
  /\ info[l].todo = {}
  /\ config_mutex' = None
  /\ info' = [info EXCEPT ![l].pc = "finish"]
  /\ UNCHANGED <<file, known, set_bits, connect_state, sdk>>

KeysSent(l) ==
  /\ info[l].pc = "keys"
  /\ info[l].todo = {}
  /\ set_bits' = set_bits
  /\ SamplingIfDone(l)
  /\ config_mutex' = None
  /\ info' = [info EXCEPT ![l].pc = "finish"]
  /\ UNCHANGED <<file, known, sdk>>

\* Broken: only lidars that are sampling are put in work mode Normal.
InfoChangeFinishSampling(l) ==
  /\ info[l].pc = "finish"
  /\ info' = [info EXCEPT ![l].pc = "idle"]
  /\ work_mode' = IF connect_state[l] = "sampling" THEN [work_mode EXCEPT ![l] = "asked"]
                                                   ELSE work_mode
  /\ imu_asked' = imu_asked \cup {l}
  /\ UNCHANGED <<file, known, set_bits, connect_state, config_mutex, inflight, refused, applied, lidar>>

\* Every other report ends with the work mode and the IMU; the installation attitude,
\* which no state depends on, is left out.
InfoChangeFinish(l) ==
  /\ info[l].pc = "finish"
  /\ info' = [info EXCEPT ![l].pc = "idle"]
  /\ work_mode' = [work_mode EXCEPT ![l] = "asked"]
  /\ imu_asked' = imu_asked \cup {l}
  /\ UNCHANGED <<file, known, set_bits, connect_state, config_mutex, inflight, refused, applied, lidar>>

-------------------------------------------------------------------------------
(***************************************************************************)
(* SetDataTypeCallback, SetPatternModeCallback, SetBlindSpotCallback and   *)
(* SetDualEmitCallback: the same callback, each for its key.               *)
(***************************************************************************)

\* Under config_mutex_.
ClearBit(l, k) ==
  /\ set_bits' = [set_bits EXCEPT ![l] = @ \ {k}]
  /\ SamplingIfDone(l)

Success(l, k) ==
  /\ inflight[l][k] > 0
  /\ config_mutex = None
  /\ inflight' = [inflight EXCEPT ![l][k] = @ - 1]
  /\ \/ /\ applied' = [applied EXCEPT ![l] = @ \cup {k}]
        /\ stale' = stale
     \/ /\ k \in stale[l]
        /\ stale' = [stale EXCEPT ![l] = @ \ {k}]
        /\ applied' = applied
  /\ ClearBit(l, k)
  /\ UNCHANGED <<file, known, config_mutex, info, refused, work_mode, imu_asked, restarted>>

\* Broken: a timeout is not retried.
TimeoutGivesUp(l, k) ==
  /\ inflight[l][k] > 0
  /\ \/ applied' = applied
     \/ applied' = [applied EXCEPT ![l] = @ \cup {k}]
  /\ inflight' = [inflight EXCEPT ![l][k] = @ - 1]
  /\ UNCHANGED <<driver, refused, work_mode, imu_asked, lidar>>

\* The same command is sent again; the lidar may have carried out the lost one.
Timeout(l, k) ==
  /\ inflight[l][k] > 0
  /\ \/ applied' = applied
     \/ applied' = [applied EXCEPT ![l] = @ \cup {k}]
  /\ inflight' = inflight
  /\ UNCHANGED <<driver, refused, work_mode, imu_asked, lidar>>

\* Any other status is printed and forgotten; the bit stays.
Failure(l, k) ==
  /\ MayRefuse
  /\ inflight[l][k] > 0
  /\ inflight' = [inflight EXCEPT ![l][k] = @ - 1]
  /\ refused' = [refused EXCEPT ![l] = @ \cup {k}]
  /\ UNCHANGED <<driver, applied, work_mode, imu_asked, lidar>>

\* GetLidarDevice searches cache_index_ in the same way.  If it misses the lidar the
\* callback returns: no bit is cleared and nothing is sent again, whatever the answer.
Missed(l, k) ==
  /\ inflight[l][k] > 0
  /\ Racing(l)
  /\ \/ applied' = applied
     \/ applied' = [applied EXCEPT ![l] = @ \cup {k}]
  /\ inflight' = [inflight EXCEPT ![l][k] = @ - 1]
  /\ refused' = [refused EXCEPT ![l] = @ \cup {k}]
  /\ UNCHANGED <<driver, work_mode, imu_asked, lidar>>

\* WorkModeChangedCallback asks again for as long as it takes, whatever the status.
WorkModeSuccess(l) ==
  /\ work_mode[l] = "asked"
  /\ work_mode' = [work_mode EXCEPT ![l] = "normal"]
  /\ UNCHANGED <<driver, inflight, refused, applied, imu_asked, lidar>>

\* EnableLivoxLidarImuDataCallback: an answer ends the request, whatever it says,
\* and so does a call without a response, be it a timeout (:304-308).  Only a
\* timeout that comes with a response asks again, which changes nothing here.
ImuAnswer(l) ==
  /\ l \in imu_asked
  /\ imu_asked' = imu_asked \ {l}
  /\ UNCHANGED <<driver, inflight, refused, applied, work_mode, lidar>>

\* The lidar loses power for a moment and with it what it was told.  The driver
\* sees nothing of it (connect_state stays), and an answer to a command of before
\* may still be on its way.
Restart(l) ==
  /\ l \in MayRestart
  /\ restarted[l] = Never
  /\ restarted' = [restarted EXCEPT ![l] = info[l].count]
  /\ stale' = [stale EXCEPT ![l] = {k \in Key : inflight[l][k] > 0}]
  /\ applied' = [applied EXCEPT ![l] = {}]
  /\ work_mode' = [work_mode EXCEPT ![l] = IF @ = "normal" THEN "none" ELSE @]
  /\ UNCHANGED <<driver, inflight, refused, imu_asked>>

-------------------------------------------------------------------------------
Callback(l) ==
  \/ GetFreeIndex(l)
  \/ \E k \in Key : SendKey(l, k)
  \/ KeysSent(l)
  \/ InfoChangeFinish(l)

Next == \E l \in Lidar :
  \/ InfoChangeUnknown(l) \/ InfoChangeKnown(l) \/ Callback(l)
  \/ \E k \in Key : Success(l, k) \/ Timeout(l, k) \/ Failure(l, k) \/ Missed(l, k)
  \/ WorkModeSuccess(l) \/ ImuAnswer(l) \/ Restart(l)

Spec == Init /\ [][Next]_vars

\* A callback that has begun goes on, and a command that is asked again for ever
\* is one day answered.  Reports are not assumed to come.
FairSpec ==
  /\ Spec
  /\ \A l \in Online : WF_vars(Callback(l)) /\ WF_vars(WorkModeSuccess(l))
  /\ \A l \in Online, k \in Key : SF_vars(Success(l, k))

-------------------------------------------------------------------------------
(***************************************************************************)
(* Properties.                                                             *)
(***************************************************************************)

Info(l) == [pc : {"idle", "insert", "keys", "finish"}, todo : SUBSET Key, count : 0 .. MaxInfo[l]]

\* Every variable stays in its domain, config_mutex_ is held exactly by the report
\* that is sending its commands, and only for want of slots is a lidar of the file
\* without one.
TypeOK ==
  /\ file \in Files
  /\ known \subseteq Lidar /\ Cardinality(known) <= kMaxSourceLidar
  /\ FreeSlot => Configured \subseteq known
  /\ set_bits \in [Lidar -> SUBSET Key]
  /\ connect_state \in [Lidar -> {"off", "sampling"}]
  /\ config_mutex \in Lidar \cup {None}
  /\ DOMAIN info = Lidar
  /\ \A l \in Lidar : info[l] \in Info(l)
  /\ \A l \in Lidar : info[l].pc = "keys" <=> config_mutex = l
  /\ inflight \in [Lidar -> [Key -> Nat]]
  /\ refused \in [Lidar -> SUBSET Key]
  /\ applied \in [Lidar -> SUBSET Key]
  /\ work_mode \in [Lidar -> {"none", "asked", "normal"}]
  /\ imu_asked \subseteq Lidar
  /\ restarted \in [Lidar -> Nat \cup {Never}]
  /\ stale \in [Lidar -> SUBSET Key]

\* What the file asks of a lidar, as the driver reads it: -1 stands for no parameter
\* there too (and so does 255, which a signed byte cannot tell from it).
Entry(l) == {k \in Key : l \in Configured /\ k \in DOMAIN file[l] /\ Int8(file[l][k]) # -1}

\* A lidar is published (connect_state is what lddc.cpp:133 looks at) only when
\* it has carried out every parameter of its entry in the file, although the
\* answers to the first commands may come while later ones are still to be sent.
\* A lidar that has restarted is the exception: its connect_state stays.
SamplingMeansConfigured == \A l \in Configured :
  connect_state[l] = "sampling" /\ restarted[l] = Never => Entry(l) \subseteq applied[l]

\* A bit that keeps a lidar from being published stands for a command that is
\* still being asked for, or for one that was refused or missed: timeouts, repeated reports
\* and late answers to an earlier report never leave a bit nobody will clear.
StuckBitHasCause == \A l \in Lidar, k \in Key :
  k \in set_bits[l] => inflight[l][k] > 0 \/ k \in refused[l]

\* A configured lidar that refuses nothing is published once a report of it was
\* found in cache_index_, however often its commands time out, unless one of its
\* answers was missed.  A report that was missed promises nothing: it sends nothing.
ReportedIsSampled == \A l \in Online :
  (l \in Configured /\ info[l].pc = "keys") ~> (connect_state[l] = "sampling" \/ refused[l] # {})

\* Nor does a restart leave a lidar with its defaults for good: reported again (and
\* found), it is told everything once more although it counts as sampling, unless it
\* refuses or an answer is missed.
RestartedIsConfigured == \A l \in MayRestart :
  (l \in Configured /\ info[l].pc = "keys" /\ restarted[l] # Never /\ info[l].count > restarted[l])
    ~> (Entry(l) \subseteq applied[l] \/ refused[l] # {})

\* A lidar that has a slot ends up in work mode Normal once it is reported, after any
\* number of failures and also if its search missed it.
ReportedIsNormal == \A l \in Online :
  (l \in known /\ info[l].pc # "idle") ~> work_mode[l] = "normal"

\* A lidar that got no slot, because others took the last between the search for it
\* and its insertion or long before, is told nothing: no parameter, no work mode, no IMU.
NoSlotLeftAlone == \A l \in Lidar \ known :
  /\ set_bits[l] = {} /\ \A k \in Key : inflight[l][k] = 0
  /\ work_mode[l] = "none" /\ l \notin imu_asked

\* "set the lidar according to the user-defined config" (:56): a lidar that the
\* user's config does not define is not sent configuration commands.
OnlyConfiguredAreSet == \A l \in Lidar \ Configured :
  set_bits[l] = {} /\ \A k \in Key : inflight[l][k] = 0

\* "Range from 50 cm to 200 cm" (README.md:263): a parameter reaches the lidar
\* with the value the user's file gives it.
SetAsWritten == \A l \in Configured : \A k \in applied[l] :
  livox_config[l][k] = file[l][k]
==============================================================================
