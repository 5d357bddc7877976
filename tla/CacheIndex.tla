------------------------------ MODULE CacheIndex ------------------------------
(***************************************************************************)
(* Which device slot (Lds::lidars_) belongs to which lidar:                *)
(* comm/cache_index.cpp.  A lidar gets the first free index and keeps it;  *)
(* ResetIndex, which would free it, is called by nobody.                   *)
(*                                                                         *)
(* GetFreeIndex looks for the key under index_mutex_, lets go of the mutex *)
(* and takes it again to insert, without looking a second time; a caller   *)
(* makes two steps of it, a test of Has(h) and then Insert(h).             *)
(***************************************************************************)
EXTENDS Integers

CONSTANTS Handle,          \* the lidars
          kMaxSourceLidar  \* number of device slots

Slots == 0 .. kMaxSourceLidar - 1
NoIndex == -1

ASSUME IndexAssumption == kMaxSourceLidar \in Nat

VARIABLES map_index,    \* index of each lidar, NoIndex if its key is absent
          index_cache   \* whether each slot is taken

cacheVars == <<map_index, index_cache>>

CacheInit ==
  /\ map_index = [h \in Handle |-> NoIndex]
  /\ index_cache = [i \in Slots |-> FALSE]

Has(h) == map_index[h] # NoIndex

FreeSlots == {i \in Slots : ~index_cache[i]}

\* Broken: the loop runs to kMaxSourceLidar inclusive.
InsertPastEnd(h) ==
  LET free == FreeSlots \cup {kMaxSourceLidar}
      i == CHOOSE i \in free : \A j \in free : i <= j
  IN /\ map_index' = [map_index EXCEPT ![h] = i]
     /\ index_cache' = [j \in Slots |-> index_cache[j] \/ i = j]

\* Broken: the slot is not marked.
InsertUnmarked(h) ==
  \/ /\ FreeSlots # {}
     /\ map_index' = [map_index EXCEPT ![h] = CHOOSE i \in FreeSlots : \A j \in FreeSlots : i <= j]
     /\ UNCHANGED index_cache
  \/ FreeSlots = {} /\ UNCHANGED cacheVars

\* The second half of GetFreeIndex; it fails when no slot is free.
Insert(h) ==
  \/ /\ FreeSlots # {}
     /\ LET i == CHOOSE i \in FreeSlots : \A j \in FreeSlots : i <= j
        IN /\ map_index' = [map_index EXCEPT ![h] = i]
           /\ index_cache' = [index_cache EXCEPT ![i] = TRUE]
  \/ FreeSlots = {} /\ UNCHANGED cacheVars
==============================================================================
