----------------------------- MODULE BoundedQueue -----------------------------
(***************************************************************************)
(* What fifo.v promises: a queue of at most Depth words whose head is      *)
(* shown before it is asked for. On one clock a word may be offered, and   *)
(* is discarded if there is no room, and the head may be acknowledged.     *)
(***************************************************************************)
EXTENDS Naturals, Sequences

CONSTANTS
    Depth,      \* words
    Words,      \* what a word can be
    Junk        \* what is shown of an empty queue

VARIABLES
    queue,
    shown       \* the word at the port

vars == <<queue, shown>>

Shown(q) == IF q = <<>> THEN Words \cup {Junk} ELSE {q[1]}

Init == queue = <<>> /\ shown \in Shown(queue)

Taken(read) == IF read /\ queue # <<>> THEN Tail(queue) ELSE queue

Clock(write, word, read) ==
    /\ queue' = IF write /\ Len(queue) < Depth THEN Append(Taken(read), word) ELSE Taken(read)
    /\ shown' \in Shown(queue')

Reset == queue' = <<>> /\ shown' \in Shown(queue')

Next == Reset \/ \E write, read \in BOOLEAN, word \in Words : Clock(write, word, read)

Spec == Init /\ [][Next]_vars
=============================================================================
