----------------------------- MODULE MCImuHandoff -----------------------------
(***************************************************************************)
(* ImuHandoff for TLC: each lidar's samples come from a thread of its own. *)
(***************************************************************************)
EXTENDS ImuHandoff

CONSTANTS t1, t2

MCThread == {t1, t2}
MCThreadOf == [i \in Lidar |-> IF i = 1 THEN t1 ELSE t2]
MCMaxImu == [i \in Lidar |-> IF i = 1 THEN 3 ELSE 2]
==============================================================================
