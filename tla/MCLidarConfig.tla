---------------------------- MODULE MCLidarConfig ----------------------------
(***************************************************************************)
(* LidarConfig for TLC: a lidar whose entry in the user's file has two     *)
(* parameters (the least that lets the first answer race the second        *)
(* command), one that the file does not have or gives no parameter, and    *)
(* one that is switched off: it has an entry but is never reported.        *)
(***************************************************************************)
EXTENDS LidarConfig

CONSTANTS l1, l2, l3, pcl_data_type, blind_spot_set

MCLidar == {l1, l2, l3}
MCKey == {pcl_data_type, blind_spot_set}

OneEntry(blind_spot) == [l \in {l1} |->
  [k \in MCKey |-> IF k = blind_spot_set THEN blind_spot ELSE 1]]

\* The second file sets one parameter of l1 and has entries for the others that set
\* none: with two slots, one of the three gets no slot.
MCFiles == {OneEntry(50),
            [l \in MCLidar |-> [k \in (IF l = l1 THEN {blind_spot_set} ELSE {}) |-> 50]]}
MCFileFar == {OneEntry(150)}   \* within the README's 50 .. 200

MCMaxInfo == [l \in MCLidar |-> CASE l = l1 -> 2 [] l = l2 -> 1 [] l = l3 -> 0]
MCMaxInfoTwo == [l \in MCLidar |-> IF l = l3 THEN 0 ELSE 2]
==============================================================================
