--------------------------- MODULE MCFrameAssembly ---------------------------
(***************************************************************************)
(* FrameAssembly for TLC.                                                  *)
(***************************************************************************)
EXTENDS FrameAssembly

\* The host's clock is set back by more than a frame, or forward by two.
MCHostSteps == {-3, 4}

\* An environment in which every lidar is synchronised and its packets are stamped at
\* most MaxGap ticks apart, evenly or not: two such gaps and the part of a millisecond
\* that publish_interval_ms_ leaves out of the interval are a millisecond at most.  With
\* whole milliseconds this is a packet in every half of one.

MaxGap == (TicksPerMs - (Interval % TicksPerMs)) \div 2
MaxLag == 1   \* bound: packets in the raw queue

\* The stamp of the lidar's last packet, of a packet of one point.
LastStamp(l) ==
  LET queued == SelectSeq(raw, LAMBDA packet : packet.lidar = l)
      stamps == points[l] \o cloud[l] \o queued
  IN  IF stamps = << >> THEN 0 ELSE stamps[Len(stamps)].time

SteadyTick == (\A l \in Lidar : now < LastStamp(l) + MaxGap) /\ Tick

SteadyReceive(l) ==
  /\ Len(raw) < MaxLag
  /\ received[l] = 0 \/ LastStamp(l) < now
  /\ ReceivePoints(l, TRUE)

SteadyNext == SteadyTick \/ (\E l \in Lidar : SteadyReceive(l)) \/ Process

SteadySpec == Init /\ [][SteadyNext]_vars
==============================================================================
