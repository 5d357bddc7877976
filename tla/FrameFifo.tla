------------------------------ MODULE FrameFifo ------------------------------
(***************************************************************************)
(* What a LidarDataQueue promises to the two threads that share it: a      *)
(* first-in first-out queue of at most Capacity packets between ONE thread *)
(* that pushes and ONE thread that pops, with no lock.  Each thread learns *)
(* of the other's progress with a delay: a packet that has been pushed can *)
(* be popped only once it has become visible, and the room of a packet     *)
(* that has been popped can be used again only once its release has.       *)
(***************************************************************************)
EXTENDS Naturals, Sequences

CONSTANTS Item,      \* the packets the queue may carry
          NoItem,    \* what the popping thread holds before its first pop
          Capacity   \* number of packets the queue may hold

VARIABLES q,     \* the packets in the queue, oldest first
          vis,   \* how many of them the popping thread can see
          held,  \* pops whose room the pushing thread cannot see yet
          out    \* the packet handed over by the last pop

vars == <<q, vis, held, out>>

Init == /\ q = << >>
        /\ vis = 0
        /\ held = 0
        /\ out = NoItem

Push(p) == /\ Len(q) + held < Capacity
           /\ q' = Append(q, p)
           /\ UNCHANGED <<vis, held, out>>

Show == /\ vis < Len(q)
        /\ vis' = vis + 1
        /\ UNCHANGED <<q, held, out>>

Pop == /\ vis > 0
       /\ q' = Tail(q)
       /\ vis' = vis - 1
       /\ held' = held + 1
       /\ out' = Head(q)

Release == /\ held > 0
           /\ held' = held - 1
           /\ UNCHANGED <<q, vis, out>>

Next == \/ \E p \in Item : Push(p)
        \/ Show
        \/ Pop
        \/ Release

Spec == Init /\ [][Next]_vars
==============================================================================
