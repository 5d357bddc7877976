# A TLA+ model of the rrc-data LiDAR recorder

The repository records a data set with a Livox LiDAR: a ROS 2 component
(`src/hardware_dependencies/livox_ros_driver2`) configures the lidars, gathers
their packets into frames and publishes them, and two small nodes
(`src/rrc_data`) invert the clouds and write synchronised groups of messages to
files. The driver is where the logic is: seven or more threads share rings,
lists, semaphores and flags, mostly without locks. This directory models it.

`S/` below is `src/hardware_dependencies/livox_ros_driver2/src/`.

## 1. The system

### Threads

| thread | runs | started / stopped by |
|---|---|---|
| SDK data thread(s) | `PubHandler::OnLivoxLidarPointCloudCallback`, `Lds::StorageImuData` | SDK init / `LivoxLidarSdkUninit` |
| SDK command thread | `LidarInfoChangeCallback` and the callbacks of the commands | same |
| point process thread | `PubHandler::RawDataProcess` to `Lds::PushLidarData` | `SetPointCloudConfig` / `PubHandler::Uninit` |
| point cloud poll thread | `Lddc::DistributePointCloudData` | `DriverNode` / `~DriverNode` |
| IMU poll thread | `Lddc::DistributeImuData` | same |
| the node's thread | constructor, destructor, static destructors | ROS |

### Components

- **Packet ring** (`S/comm/ldq.cpp`). State: slots, `rd_idx`, `wr_idx`
  (free-running `uint32_t`). Operations: init on first use, push, pop, full,
  empty. One thread pushes, another pops, no lock. Correct if the threads are
  never in one slot, no packet is torn, lost once pushed, repeated or reordered,
  across the wrap of the indices.
- **Point hand-over** (`S/lds.cpp`, `S/comm/semaphore.cpp`, `S/lddc.cpp`). A ring
  and a `connect_state` per lidar, one counting semaphore, `request_exit_`. The
  process thread stores and signals if the count, read without the lock, is 0;
  the poll thread waits, then drains every sampling lidar. Correct if wake-ups
  are not lost, do not pile up, and the thread can be stopped.
- **IMU hand-over** (`S/comm/lidar_imu_data_queue.cpp`, `S/lds.cpp:99`,
  `S/lddc.cpp:140`). The same protocol over a locked, unbounded list, possibly
  fed by several SDK threads.
- **Configuration callbacks** (`S/call_back/livox_lidar_callback.cpp`). `set_bits`
  and `connect_state` of each lidar under `config_mutex_`; answers arrive late,
  not at all, or as refusals, and commands are retried. Correct if a lidar is
  published only when configured, and is published in the end. A lidar may restart
  and forget what it was told; the driver is not told of it.
- **User configuration** (`S/parse_cfg_file/`, `S/lds_lidar.cpp:129`). What the
  file says must be what the lidar is told.
- **Frame assembly** (`S/comm/pub_handler.cpp`). The raw queue, a cloud per lidar,
  one flag for synchronised time, the last publish time, and `frame_`, arrays that
  are filled with one lidar after the other and handed over. Correct if frames cut
  the points of each lidar without loss, are as long as they should be, and carry
  the right time base.
- **Lidar index** (`S/comm/cache_index.cpp`). Handle to device slot. Correct if a
  slot has one lidar, a lidar keeps its slot, and one for which there is none is left
  alone.
- **Start and end** (`S/livox_ros_driver2.cpp`, `S/driver_node.cpp`,
  `S/lds_lidar.cpp`, `S/lddc.cpp:80`, `S/comm/pub_handler.cpp:44`). The order in
  which all of that comes up and goes down while threads already or still run.
- **Saving node** (`src/rrc_data/src/save_synced_data.cpp`). No state but the files:
  a callback writes seven or eight of them for each matched group, under one time
  stamp. Failures are logged at most; the process may be killed; the next run may
  write into the same directories. Correct if a reader can tell complete groups from
  others.
- **Inverting node** (`src/rrc_data/src/invert_lidar.cpp`). Stateless. Correct if
  clouds and IMU samples are turned alike, and turned rather than mirrored.
- **Derived sizes** (`S/livox_ros_driver2.cpp:148`, `S/comm/comm.cpp:42`,
  `S/comm/ldq.h:39`, `S/comm/pub_handler.cpp:65`). From the launch file's
  `publish_freq` to the ring size and the publish interval.
- Vendored or external: rapidjson, Livox SDK2, message_filters, PCL, OpenCV.

`PROJECT.json` has the same list with its sources and what is left out of each,
and, under `hazards`, what can go wrong where.

## 2. The modules

| module | models | extends / uses |
|---|---|---|
| `FrameFifo` | abstract: a bounded queue between one pushing and one popping thread, each seeing the other late | |
| `LidarDataQueue` | the ring, one action per shared access | implements `FrameFifo` |
| `PointHandoff` | the process thread, the semaphore, the point cloud poll thread, `~DriverNode` | a `FrameFifo` per lidar, which it is checked to use as allowed |
| `ImuHandoff` | the same for IMU samples | |
| `LidarConfig` | reports, commands, answers, retries, restarts; the parsed file; lidars without a slot and searches that miss | |
| `FrameAssembly` | packets to frames, both modes of `CheckTimer`, the filling of `frame_`, a host clock that is set, the custom message's times | |
| `CacheIndex` | `GetFreeIndex` as two critical sections | |
| `DriverLifecycle` | constructor to process exit, all threads | `CacheIndex` |
| `SyncedSaver` | the saving node: groups, files, failures, crashes, runs into one directory | |
| `PublishFrequency` | what is derived from `publish_freq` | |
| `InvertLidar` | the inverting node, with its theorem | |
| `*_proofs` | the theorems about the module they are named after; `LidarDataQueue_proofs` also those about `PublishFrequency`, `DriverLifecycle_proofs` those about `CacheIndex` | that module |

`MC*` modules give constants that a `.cfg` cannot write; `MCFrameAssembly` also
restricts the environment (below). Each action's lines are in `PROJECT.json`,
`map`. In every module `pc` fields are the places where another thread may
come in between; what lies between two of them touches nothing shared, or holds
a lock all along. Definitions commented *Broken* are bugs the code does not have: each property is
known to fail when one of them takes the place of the real definition
(`PROJECT.json`, `mutants`).

**Memory.** `volatile` orders nothing between threads. The models follow the
build for amd64 (`.devcontainer`), where a store may be delayed past later
reads of the same thread but stores stay in order: `wr_seen` and `rd_seen` in
`LidarDataQueue`, `unseen` and `held` in `PointHandoff`. A lock empties the
buffer. Reading a vector while another thread resizes it, undefined behaviour, is
shown not to happen (`NoSlotRace`), so it need not be modelled. Searching the
`std::map` of `CacheIndex` while another thread inserts does happen: in
`DriverLifecycle` such a search may miss a key that is there (`Found`). In
`LidarConfig`, while another lidar is inserted (`Racing`), an answer may be lost to
one (`Missed`), which like a refusal leaves its bit set, and a report of a known
lidar may take the branch of the unknown ones and send no parameter
(`InfoChangeUnknown`). In `ImuHandoff` it drops a sample (`Drop`), in `PointHandoff` a
packet (`NewFrame`).

**The SDK** is not in the repository. It is modelled by what its callbacks may
observe: a command is answered, times out whether carried out or not, or is
refused; a lidar may restart, unseen, with answers to earlier commands still to
come; reports and answers of different lidars may overlap (`LidarConfig`; in
`DriverLifecycle` one thread reports them); the IMU samples of one lidar come from
one thread; after `LivoxLidarSdkUninit` no callback runs.

## 3. The runs

| run | bounds | shows |
|---|---|---|
| `lidar_data_queue` | ring of 4, 8 index values, 2 packets, unbounded pushes | the ring is race free and implements `FrameFifo`. 8 values make the indices wrap all the time and 4 slots let ring and index laps differ |
| `handoff_safe` | 2 lidars, rings of 2, 4 frames | at most one wake-up pending; a packet is left behind only through the unlocked read of the count, and only one; rings are used as `FrameFifo` allows |
| `handoff_live` | 2 lidars, ring of 1, 3 frames, one lidar late | a packet left behind leaves with the next one stored, dropped or not; the destructor's first join returns after one more packet |
| `imu_handoff` | 2 lidars on 2 SDK threads, 3 samples of one and 2 of the other, which is late; any sample dropped because its lidar is not found | no queued sample lost; one pending wake-up per thread at most; every queued sample published; the destructor's second join |
| `config` | 3 lidars, 2 slots, 2 parameters, 2 files: one lidar in the file, or all three, two of them with no parameter; 2 reports and a restart of the first lidar, 1 report of the second, the third switched off | published only when configured; a bit left over has a cause; a lidar without a slot is told nothing; one that refuses nothing and of which no answer is missed is published, gets to work mode Normal if it has a slot, and is told everything again when reported after a restart, if the report's search finds it |
| `config_undefined` | as `config`, 2 reports each, no restart | *violation*, see 4 |
| `config_blind_spot` | `blind_spot_set` 150 | *violation*, see 4 |
| `frame_safe` | 2 lidars, 2 packets of 2 points, 2 ticks, any time source at any packet, the host clock set once by +4 or -3 | no point lost or repeated; base time, also past a skipped lidar; no entry past the end of `frame_` |
| `frame_steady` | 1 lidar, 35 ticks of a fifth of a millisecond, interval 11 ticks, packets 1 or 2 ticks apart | frames last one interval |
| `frame_offset` | 1 lidar, host clock ahead | *violation*, see 4 |
| `driver_lifecycle` | 3 lidars, 1 in the file, 2 slots, raw queue of 1 | one lidar per slot, for good; nothing runs at exit; the driver ends while data arrive |
| `synced_saver` | 2 time stamps, 3 runs of the node, 2 failures or crashes anywhere, with and without point clouds | a whole depth image vouches for its group; a failure costs one group; a run without a failure repairs a stamp |

**Why the bounds are enough.** Two lidars are what a shared semaphore, a shared flag, a scan
over lidars and a lidar skipped in a frame need; a third only matters when slots run out, as
in `config` and `driver_lifecycle`. Two parameters are the least with which the first answer
can race the second command, two reports the least with which a late answer meets a new
report. Four frames let two wake-ups overlap two drains. Rings of one or two make *full*
ordinary. Three runs of the saving node let a group be written, spoilt and written again; two
failures fall into one group or two. The steps of the host clock exceed the publish interval
both ways. `LidarDataQueue` is unbounded in time and its size is not a limit at all: section
5.

**`frame_steady` and its limit.** A synchronised frame ends at a packet whose
millisecond is a multiple of the interval in whole milliseconds, if the frame is
at least the interval minus one millisecond long. `MCFrameAssembly` lets packets
come as unevenly as they like but at most `MaxGap` apart: two gaps, and the part of a
millisecond by which the interval exceeds whole ones, are a millisecond at most.
With 5 ticks to a millisecond and an interval of 11 (2⅕ ms, rounded down to 2 ms by
the code) that is 2 ticks. It is a statement about such lidars only: with an interval
of whole milliseconds they send a packet in every half of one. Of a lidar that sends
one packet in every millisecond, early or late in it, a boundary *is* missed now and then
and the frame lasts two intervals: a frame that begins at 101.9 ms is 98.2 ms long at
the packet of 200.1 ms, too short by 0.8 ms, and the next packet comes at 201. So it is
when a packet is lost. Nothing in the code prevents it and no document says how often
a lidar sends.

**Deadlock** is checked for the ring. Elsewhere the system may stop (input is
bounded, or the driver has ended) and the liveness properties say where it may not.

### Fairness

`WF` for each thread that can run: the operating system schedules it
(`ProcessStep`, `PollStep`, `SdkStep`, `Callback`, `Process`, `Construct`,
`Destroy`, `Save`) and store buffers drain. `SF` for a command's success
(`LidarConfig`): a command retried for ever succeeds one day unless it is
refused; the retry is in the code, the success is the lidar's. In
`DriverLifecycle` the lidars go on sending while the SDK is up: `WF` for IMU
samples, `SF` for points, whose queue of `MaxRaw` may be full now and then. Nothing
is assumed of reports, restarts, frames (`PointHandoff`), samples (`ImuHandoff`), matching
messages (`SyncedSaver`) or the decision to exit.

## 4. What disagrees with the documents

1. **A lidar the file does not name is configured with zeros**
   (`config_undefined`, `livox_lidar_callback.cpp:59`). "set the lidar according
   to the user-defined config" (`:56`). The first report of an unknown lidar gives
   it an index; from the second on it counts as configured, and its
   `livox_config`, all zeros and not -1, is sent parameter by parameter.
2. **A blind spot beyond 127 cm becomes negative** (`config_blind_spot`,
   `parse_livox_lidar_cfg.cpp:88`): cast to `int8_t` although the driver's
   README says 50 to 200 cm.
3. **Offsets are not relative when a lidar synchronises inside a frame**
   (`frame_offset`, `lddc.cpp:395`): times from two clocks, difference cut to 32
   bits.

Facts the models record without a property: with an unsupported `xfer_format` the
poll thread spins; when `InitLdsLidar` fails, the poll threads start all the same
and nothing wakes them, so the destructor does not return; a refused command
keeps its lidar unpublished until it is reported again; so does a report whose search
misses a lidar of the file, of which nothing is sent; a lidar for which there is no slot
is sent no work mode and stays as it is (`NoSlotLeftAlone`), whether the file names it
or not; an IMU sample or a point packet whose lidar is not found is dropped; the installation attitude of
a lidar the file does not name is sent to handle 0; the IMU is not asked for again
after a timeout without response; a restarted lidar stays `kConnectStateSampling`
and is published with its defaults until it is reported again and the commands have
been carried out (`SamplingMeansConfigured` exempts it, `RestartedIsConfigured`
ends it); `lidar_id` of the custom message is the low byte of the handle, the first
octet of the address; a parameter of 255 in the file reads as -1 after the cast, i.e. as no
parameter (`Entry`). In `SyncedSaver` only the depth image, the last file, vouches
for a group; a file that is there says nothing, not even about itself, as no
writer looks whether the disk was full.

## 5. What is proved

All safety properties that the runs check, with one exception, are theorems, for every
value of the constants that the named assumptions allow. The exception is
`FramesAreRegular`, which holds of steady lidars only and is a statement about the
environment of `MCFrameAssembly`. Liveness is model-checked only (end of this section).

In each `*_proofs` module an inductive invariant is stated first (`RingInv`,
`TypeInv`, `LifeInv`, ...), then proved of the initial states and of every step,
action by action, and the theorems follow from it. TLC has checked the invariants on
the instances of section 3.

### The packet ring: `LidarDataQueue_proofs`

For every `QueueSize` and `IdxMod` with
`SizeAssumption` (the size is positive, below `IdxMod` and divides it; the code
rounds sizes to powers of two of at most 2^31 and indices are `uint32_t`), any
set of packets, and `NoFrameAssumption` (an unwritten field is not a packet):

| theorem | |
|---|---|
| `TypeCorrect` | `Spec => []TypeOK` |
| `IndexOrderCorrect` | the four views of the indices keep their order within one ring length |
| `NoSlotRaceCorrect` | the threads are never in the same slot |
| `NoTornPacketCorrect` | a popped packet is one pushed packet, whole |
| `RefinesFifo` | the ring implements `FrameFifo` |

`TypeOK` is inductive. The others follow from `RingInv`, which adds to
`IndexOrder`: before the first push all indices are 0 (`Fresh`); every slot from
`rd_idx` up to `wr_idx` holds one whole packet (`Contents`); a thread past its check
still has its room or its packet (`PushRoom`, `PopRoom`), as the other thread can
only add to it; and what each thread has written or copied so far is what its
slot says (`Copied`). `IndexOrder` alone is not inductive: it needs the outcome
of the checks, which were made on stale views.
Distances on a ring of `IdxMod` are reduced once to two cases without `%`
(`DistCases`, `IncCases`), and `SlotLap` is where divisibility is used: an index
that wraps stays on its slot.

About `PublishFrequency`, for every finite frequency the launch file may hold:

| theorem | |
|---|---|
| `RingSizeIsAllowed` | the ring's size meets `SizeAssumption` with 2^32 index values, so that the theorems above are about every ring the driver makes |
| `RingHoldsASecond` | the ring has room for the frames of a second |
| `IntervalIsAllowed` | the publish interval is a millisecond at least, as `AssemblyAssumption` wants: `% publish_interval_ms_` is defined and the tolerance does not wrap |

`ClampBounds`, `QueueSizeBounds` and `InitQueueBounds` follow the value through the
code: clamped to 0.5 .. 100 Hz, 10 to 101 packets, 16 to 128 slots. The interval is
computed in doubles; `PublishInterval` allows what rounding may give.

### The hand-over of points: `PointHandoff_proofs`

For every number of lidars and packets, every ring size, and every set of lidars that
start late (`HandoffAssumption`: at least one lidar, one slot).

| theorem | |
|---|---|
| `TypeCorrect` | `Spec => []TypeOK` |
| `WakeUpsDoNotPileUp` | `OneWakeUp`: at most one wake-up is pending |
| `RingsAreUsedAsFifos` | `UsesFifo`: every step is, for each ring, a step of `FrameFifo` or none. With `RefinesFifo` it joins the two models |
| `NoPacketStranded` | `NothingStranded`: a packet is left behind only if the read of the count overtook the store |
| `OnePacketStranded` | `StrandedAtMostOne`: and then one packet, in all rings together |

`TypeOK` needs where the threads stand (`Places`). `OneWakeUp` is inductive with one
more fact: a thread about to signal still finds the count at 0, as only the poll thread
changes it meanwhile, downwards (`WakeInv`). That nothing is stranded is a statement about the
sleeping thread; its invariant has to say of every state which rings are going to be
looked at. A ring is `Covered` while a wake-up is there or on its way, while the process
thread is about to look at that ring, and while the poll thread's round has not come past
it. `Kept`: a ring that is not covered is empty, unless the count was read too early.
`Behind`: then all such rings together hold one packet, and while its store is still
buffered it is in the ring of that store, so that the next lidar's store, which finds
the count at 0, signals. `Buffered` ties the store buffer to the packet the process
thread is busy with.

### The hand-over of IMU samples: `ImuHandoff_proofs`

For every number of lidars, samples and SDK threads (`ImuAssumption`: a lidar's samples
come from one thread).

| theorem | |
|---|---|
| `TypeCorrect` | `Spec => []TypeOK` |
| `SamplesKept` | `NoImuLost`: what is queued are exactly the samples after the last one published that were not dropped on arrival, in order |
| `WakeUpsPileUpBounded` | `WakeUpsBounded`: no more pending wake-ups than threads |

The bound alone is not inductive: threads that have read 0 and have not yet signalled
are wake-ups on their way. `WakeInv` counts them: the count and the number of such
threads together are at most the number of threads. `FiniteSetTheorems` gives the
cardinalities. `NoImuLost` is inductive but for one
fact: the sample published last has been delivered, so that it is not one dropped later
(`PublishedDelivered`).

### Configuration: `LidarConfig_proofs`

For every finite set of lidars, every set of parameters, every number of slots, every config
file in `Files`, every number of reports, whether or not commands may be refused, and
whichever lidars restart (`ConfigAssumption`, `NoneAssumption`).

| theorem | |
|---|---|
| `TypeCorrect` | `Spec => []TypeOK` |
| `BitsHaveCauses` | `StuckBitHasCause`: a bit that is left has a command under way, or was refused or missed |
| `WithoutSlotLeftAlone` | `NoSlotLeftAlone`: a lidar without a slot is told nothing |
| `PublishedIsConfigured` | `SamplingMeansConfigured`: a lidar is published only when it has carried out its entry of the file |

`ConfigInv` adds to the latter what happens on the way: every parameter of
a lidar that has been reported and not restarted has been carried out, or has its bit set, or
is still to be sent (`NothingForgotten`), so that when the last bit goes and nothing is
to be sent, all have been carried out. A restart breaks this, hence the exemption in
the property. `Begun` (a report has come in which the lidar was found) is what
starts it: before, and for a lidar whose reports were all missed, there is nothing
under way and nothing promised. Answers from before a restart exist only after it
(`StaleAfterRestart`). `ServedHasSlot` is behind `WithoutSlotLeftAlone`: whatever a callback
does for a lidar comes after its slot; slots are counted with `FiniteSetTheorems`.

### Lidar index, start and end: `DriverLifecycle_proofs`

For every set of lidars, of which any are in the file, every number of slots, 0
included, and every length of the raw queue (`LifecycleAssumption`, `IndexAssumption`).

| theorem | |
|---|---|
| `TypeCorrect` | `Spec => []TypeOK` |
| `IndexIsConsistent` | `IndexConsistent`: a slot is taken exactly if one lidar has it |
| `IndexIsStable` | `StableIndex`: a lidar keeps its slot (an action property) |
| `SlotsAreNotShared` | `OneLidarPerSlot`: a device slot holds the data of one lidar |
| `NothingIsLeftRunning` | `NothingRunsAtExit`: no thread is left when the static objects are gone |

`GetFreeIndex` looks under one lock and inserts under another: `InsertNew` proves that
inserting keeps slots apart (`OneOwner`) only for a lidar without a slot. That the look is still
true when the insertion comes is the heart of `LifeInv`: `OneInserter` says that the
node's thread and the SDK's never insert at the same time, since the callback is
registered after the file's lidars have their indices. `OwnData` ties what is stored to the
index; `Phases` says how far each thread is at each place of the start and
of the end.

### The saving node: `SyncedSaver_proofs`

For every set of time stamps and every number of runs and faults (`SaverAssumption`).

| theorem | |
|---|---|
| `TypeCorrect` | `Spec => []TypeOK` |
| `DepthImageVouches` | `DepthVouches`: a whole depth image means that every file is there whose writer did not fail |
| `FaultsAreContained` | `FaultCostsOneGroup`: groups not saved in full are no more than the faults |

Both are about finished groups. `SaverInv` says what a group looks like half
written: the files before the current one have been written or are excused, those
from there on are not written yet (`InOrder`), so that only the last file can vouch. It
needs that no group is begun twice in one run (`RunsInOrder`: stamps grow) and that what is
left to do is a tail of the order of files (`Suffix`). `Costs` is the count: the
spoilt groups, and the one being spoilt, have had a fault each.

### Frame assembly: `FrameAssembly_proofs`

For every finite set of lidars but the empty one for which `frame_` has entries enough,
every publish interval of at least a millisecond, packet size and width of time stamps,
and any set of ways in which the host's clock may be set (`AssemblyAssumption`; that the
interval meets it is `IntervalIsAllowed` above).

| theorem | |
|---|---|
| `TypeCorrect` | `Spec => []TypeOK` |
| `PointsAreKept` | `NoPointLostOrRepeated`: every point once and in order |
| `BaseTimeIsRight` | `BaseTimeIsFirstPoint`: every entry of `frame_` has points and the base time of its own lidar's first |

`FrameInv` has both properties, the types, and `Clocks`: the time of the last
publication was read from the host's clock before or after it was set, without which the
type of the times could not be kept. `Assembly` says where the filling of `frame_` is: a
lidar still to be put there has no entry yet, so that its points are not taken from under
an entry that points to them; and there is room for all that are still to come (a
cardinality, from `FiniteSetTheorems`), so that no entry past the end is written.
`AddLidarBase` then shows that the entry filled next gets its own base time over whatever
was there, and that the others keep theirs. `ReceiveKeeps`, `TakeKeeps`, `AddLidarKeeps` and
`PublishKeeps` show that a packet received or processed, a cloud put into `frame_` and a
frame handed over leave the line of points unbroken;
the modes of `CheckTimer` only choose which clouds go, which is why nothing about time
is needed for it. The property speaks of positions in the raw queue (`RawOf`,
`LastPoint`, `GoesOn`): the packets of one lidar, selected from the queue by a fold,
would be data that no induction of the prover's could follow.

### The inverting node: `InvertLidar`

`MotionIsKept`, for every sample and cloud with integer components,
from `InvertKeepsDot` (lengths and angles) and `InvertKeepsCross` (handedness).

### Only model-checked

Fairness and `ENABLED` are beyond the prover, so all liveness stays with TLC, on
the instances of section 3: `RecoveredByNextStore`, `FirstJoinReturns`, `EveryImuPublished`,
`LateImuPublished`, `ExitAfterImu`, `ReportedIsSampled`, `RestartedIsConfigured`,
`ReportedIsNormal`, `ExitsWhileDataFlows`, `RerunRepairs`. So does `FramesAreRegular`.
The disagreements of section 4 are counterexamples.

## 6. Not modelled

Coordinates, extrinsics, message layout, ROS 1 branches, the LVX file path, the
logging; `DeInitQueue` on a ring in use; that the racing search in
`CacheIndex::GetIndex` crashes; an invalid `data_src`; loading the component twice
in one process; the numbers in the saved files; the matching of messages
(message_filters). The reasons are in `PROJECT.json`, `components` and `hazards`.
Two hazards are unbounded by nature and have no property: the drain loop of one
lidar against a producer that keeps up (every model bounds its input), and the raw
queue, which nothing in the code bounds.

## 7. Plan

Done, in this order: `FrameFifo` and `LidarDataQueue`, its proofs,
`PointHandoff`, `LidarConfig`, `FrameAssembly`, `ImuHandoff`, `CacheIndex`,
`DriverLifecycle`; then the restart of a lidar, the host clock, the racing search,
`SyncedSaver`, `PublishFrequency` and `InvertLidar`; then the proofs of all their
invariants.

Next:

1. An abstract specification of the IMU queue (unbounded, first in first out,
   nothing lost) that `ImuHandoff` implements, and its proof.
2. An abstract specification of the index (a slot is given once, for good) that
   `DriverLifecycle` implements through its two critical sections, and its proof.
3. `FramesAreRegular` for every interval and every spacing of packets that
   `MCFrameAssembly` allows: by how late in its millisecond a frame may end.

## 8. Running

    tlc -config <cfg> <module>       # pairs: PROJECT.json, "runs"
    tlapm <module>.tla               # every *_proofs module, and InvertLidar

The longest runs take one or two minutes on two cores (`config`, `handoff_live`,
`frame_safe`, `driver_lifecycle`); each proof takes one or two at most.
