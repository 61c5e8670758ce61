--------------------------- MODULE BoundedHandoff ---------------------------
(***************************************************************************)
(* What a DiskBufferRing promises the two threads that share it, without   *)
(* slots: a bounded first-in first-out handoff. The consumer borrows the   *)
(* oldest buffer and gives it back, the producer may be ahead by at most   *)
(* Capacity buffers, and the consumer is told there is nothing more only   *)
(* when it has had everything or when the handoff was torn down.           *)
(***************************************************************************)
EXTENDS Integers

CONSTANT Capacity

VARIABLES
    put,        \* buffers handed over so far
    got,        \* buffers given back so far
    borrowed,   \* the number of the buffer the consumer holds, or Nothing
    closed,     \* the producer will hand over no more
    torn,       \* the handoff was torn down
    ended       \* the consumer was told there is nothing more

handoffVars == <<put, got, borrowed, closed, torn, ended>>

Nothing == -1

HInit ==
    /\ put = 0 /\ got = 0
    /\ borrowed = Nothing
    /\ closed = FALSE /\ torn = FALSE /\ ended = FALSE

HPut ==
    /\ ~closed
    /\ put - got < Capacity
    /\ put' = put + 1
    /\ UNCHANGED <<got, borrowed, closed, torn, ended>>

\* Buffers are borrowed in the order they were put, none twice, none skipped
HBorrow ==
    /\ borrowed = Nothing
    /\ ~ended
    /\ got < put
    /\ borrowed' = got
    /\ UNCHANGED <<put, got, closed, torn, ended>>

HReturn ==
    /\ borrowed # Nothing
    /\ borrowed' = Nothing
    /\ got' = got + 1
    /\ UNCHANGED <<put, closed, torn, ended>>

HClose ==
    /\ closed' = TRUE
    /\ UNCHANGED <<put, got, borrowed, torn, ended>>

HTearDown ==
    /\ torn' = TRUE
    /\ UNCHANGED <<put, got, borrowed, closed, ended>>

HEnd ==
    /\ borrowed = Nothing
    /\ torn \/ (closed /\ got = put)
    /\ ended' = TRUE
    /\ UNCHANGED <<put, got, borrowed, closed, torn>>

HNext == HPut \/ HBorrow \/ HReturn \/ HClose \/ HTearDown \/ HEnd

HSpec == HInit /\ [][HNext]_handoffVars
=============================================================================
