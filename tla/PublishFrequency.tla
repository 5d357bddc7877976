--------------------------- MODULE PublishFrequency ---------------------------
(***************************************************************************)
(* What the driver derives from the parameter publish_freq: the size of the*)
(* packet ring of a lidar and the publish interval.  LidarDataQueue and    *)
(* FrameAssembly assume something of both; LidarDataQueue_proofs shows that*)
(* the code meets this, whatever the user writes in the launch file.       *)
(*                                                                         *)
(* A frequency is a double, hence a fraction (an infinite one is clamped as*)
(* a large one is; that it is not a number is left out).                   *)
(***************************************************************************)
EXTENDS Integers

Freq == [num : Int, den : Nat \ {0}]   \* in Hz

\* DriverNode::DriverNode: not above 100 Hz nor below 0.5.
Clamp(f) == IF f.num > 100 * f.den THEN [num |-> 100, den |-> 1]
            ELSE IF 2 * f.num < f.den THEN [num |-> 1, den |-> 2]
            ELSE f

CalculatePacketQueueSize(f) == IF f.num > 10 * f.den THEN f.num \div f.den + 1 ELSE 10

\* 1 << i on a uint32_t.
Power == {1, 2, 4, 8, 16, 32, 64, 128, 256, 512, 1024, 2048, 4096, 8192, 16384, 32768,
          65536, 131072, 262144, 524288, 1048576, 2097152, 4194304, 8388608, 16777216,
          33554432, 67108864, 134217728, 268435456, 536870912, 1073741824, 2147483648}

IsPowerOf2(size) == size \in Power

RoundupPowerOf2(size) == IF size > 2147483648 THEN 2147483648
  ELSE CHOOSE p \in Power : size <= p /\ \A r \in Power : size <= r => p <= r

InitQueue(size) == IF IsPowerOf2(size) THEN size ELSE RoundupPowerOf2(size)

\* Lds::PushLidarData: the size of a lidar's ring.
RingSize(f) == InitQueue(CalculatePacketQueueSize(Clamp(f)))

\* SetPointCloudConfig: 10^9 / f in doubles, truncated, so within 2 of the quotient.
PublishInterval(f) == {n \in Nat : /\ n * f.num >= 1000000000 * f.den - 2 * f.num
                                   /\ n * f.num <= 1000000000 * f.den + 2 * f.num}
==============================================================================
