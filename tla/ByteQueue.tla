------------------------------ MODULE ByteQueue ------------------------------
(***************************************************************************)
(* What one direction of a virtual serial peripheral promises its user: a  *)
(* queue of at most Cap bytes.  A call appends a run of bytes, bytes leave *)
(* in the order they came, and what has left is what the other side saw.   *)
(***************************************************************************)
EXTENDS Naturals, Sequences

CONSTANTS
    Byte,   \* the bytes
    Cap     \* how many of them the queue holds

VARIABLES
    queue,      \* the bytes under way
    delivered   \* the bytes that have left it since it was cleared

Init == queue = << >> /\ delivered = << >>

Put ==
    /\ queue' \in Seq(Byte)
    /\ Len(queue) <= Len(queue') /\ Len(queue') <= Cap
    /\ SubSeq(queue', 1, Len(queue)) = queue
    /\ UNCHANGED delivered

\* The first k bytes leave.
Take(k) ==
    /\ k <= Len(queue)
    /\ queue' = SubSeq(queue, k + 1, Len(queue))
    /\ delivered' = delivered \o SubSeq(queue, 1, k)

Clear == queue' = << >> /\ delivered' = << >>

Next == Put \/ (\E k \in 1 .. Cap : Take(k)) \/ Clear

Spec == Init /\ [][Next]_<<queue, delivered>>
=============================================================================
