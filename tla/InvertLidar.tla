------------------------------ MODULE InvertLidar ------------------------------
(***************************************************************************)
(* The node that turns the data of a lidar mounted upside down (rrc_data,  *)
(* invert_lidar): two callbacks without state, one for point clouds and    *)
(* one for IMU samples.  Both must turn the same way, and turn rather than *)
(* mirror, for the two messages to describe one motion: the odometry that  *)
(* reads them integrates the angular velocity and moves the points by it.  *)
(*                                                                         *)
(* Components are integers, a unit being small enough.                     *)
(***************************************************************************)
EXTENDS Integers, Sequences, TLAPS

Vector == [x : Int, y : Int, z : Int]
Imu == [angular_velocity : Vector, linear_acceleration : Vector]

Invert(v) == [x |-> v.x, y |-> -v.y, z |-> -v.z]

lidar_callback(cloud) == [i \in DOMAIN cloud |-> Invert(cloud[i])]

imu_callback(imu) == [angular_velocity |-> Invert(imu.angular_velocity),
                      linear_acceleration |-> Invert(imu.linear_acceleration)]

-------------------------------------------------------------------------------
Dot(a, b) == a.x * b.x + a.y * b.y + a.z * b.z

Cross(a, b) == [x |-> a.y * b.z - a.z * b.y,
                y |-> a.z * b.x - a.x * b.z,
                z |-> a.x * b.y - a.y * b.x]

\* The components of an inverted vector.
LEMMA InvertFields ==
  ASSUME NEW v \in Vector
  PROVE  /\ Invert(v) \in Vector
         /\ Invert(v).x = v.x /\ Invert(v).y = -v.y /\ Invert(v).z = -v.z
BY DEF Invert, Vector

\* Lengths and angles are kept.
LEMMA InvertKeepsDot ==
  ASSUME NEW a \in Vector, NEW b \in Vector
  PROVE  Dot(Invert(a), Invert(b)) = Dot(a, b)
<1>1. /\ a.x \in Int /\ a.y \in Int /\ a.z \in Int
      /\ b.x \in Int /\ b.y \in Int /\ b.z \in Int
  BY DEF Vector
<1>2. (-a.y) * (-b.y) = a.y * b.y /\ (-a.z) * (-b.z) = a.z * b.z
  BY <1>1, SMT
<1>3. QED BY <1>2, InvertFields DEF Dot

\* So is the handedness: inverting is a rotation and not a reflection.
LEMMA InvertKeepsCross ==
  ASSUME NEW a \in Vector, NEW b \in Vector
  PROVE  Cross(Invert(a), Invert(b)) = Invert(Cross(a, b))
<1>1. /\ a.x \in Int /\ a.y \in Int /\ a.z \in Int
      /\ b.x \in Int /\ b.y \in Int /\ b.z \in Int
  BY DEF Vector
<1>2. /\ (-a.y) * (-b.z) - (-a.z) * (-b.y) = a.y * b.z - a.z * b.y
      /\ (-a.z) * b.x - a.x * (-b.z) = -(a.z * b.x - a.x * b.z)
      /\ a.x * (-b.y) - (-a.y) * b.x = -(a.x * b.y - a.y * b.x)
  BY <1>1, SMT
<1>3. Cross(a, b) \in Vector
  BY <1>1 DEF Cross, Vector
<1>4. Invert(Cross(a, b)) = [x |-> Cross(a, b).x, y |-> -Cross(a, b).y, z |-> -Cross(a, b).z]
  BY DEF Invert
<1>5. QED BY <1>2, <1>4, InvertFields DEF Cross

\* What the two callbacks publish describes the same rigid motion as what they get:
\* the velocity angular_velocity gives to a point, and the component of the measured
\* acceleration along it, come out inverted and unchanged.
THEOREM MotionIsKept ==
  ASSUME NEW imu \in Imu, NEW cloud \in Seq(Vector), NEW i \in DOMAIN cloud
  PROVE  /\ Cross(imu_callback(imu).angular_velocity, lidar_callback(cloud)[i])
              = Invert(Cross(imu.angular_velocity, cloud[i]))
         /\ Dot(imu_callback(imu).linear_acceleration, lidar_callback(cloud)[i])
              = Dot(imu.linear_acceleration, cloud[i])
<1>1. cloud[i] \in Vector
  OBVIOUS
<1>2. imu.angular_velocity \in Vector /\ imu.linear_acceleration \in Vector
  BY DEF Imu
<1>3. lidar_callback(cloud)[i] = Invert(cloud[i])
  BY DEF lidar_callback
<1>4. /\ imu_callback(imu).angular_velocity = Invert(imu.angular_velocity)
      /\ imu_callback(imu).linear_acceleration = Invert(imu.linear_acceleration)
  BY DEF imu_callback
<1>5. QED BY <1>1, <1>2, <1>3, <1>4, InvertKeepsDot, InvertKeepsCross
==============================================================================
