------------------------------ MODULE CaptureFifo ------------------------------
(***************************************************************************)
(* fpga/application/fifo.v: the single-clock, show-ahead queue of the      *)
(* capture path. A step is a rising edge of the clock, at which every      *)
(* register takes its next value from the present ones, or a reset.        *)
(*                                                                         *)
(* The memory's output is registered, so it is read one address ahead.     *)
(* What a read returns of an address written on the same edge is not       *)
(* promised for an inferred memory: it is the old word, the new one, or    *)
(* neither. The bypass exists so that this is never shown.                 *)
(***************************************************************************)
EXTENDS Integers, Sequences

CONSTANTS
    Depth,      \* Depth: any number of words, a power of two or not
    Words,      \* what a word can be
    Junk        \* what memory and its output register power up with

ASSUME FifoAssumption == Depth \in Nat /\ Depth > 1 /\ Junk \notin Words

VARIABLES
    write_pointer, read_pointer, used,
    memory, memory_data_out,
    bypass_valid, bypass_data

pointers == <<write_pointer, read_pointer, used>>
storage == <<memory, memory_data_out>>
bypass == <<bypass_valid, bypass_data>>
vars == <<pointers, storage, bypass>>

Addresses == 0 .. Depth - 1

Init ==
    /\ write_pointer = 0 /\ read_pointer = 0 /\ used = 0
    /\ memory = [a \in Addresses |-> Junk] /\ memory_data_out = Junk
    /\ bypass_valid = FALSE /\ bypass_data = Junk

full == used = Depth
empty == used = 0
data_out == IF bypass_valid THEN bypass_data ELSE memory_data_out

-----------------------------------------------------------------------------
After(pointer) == IF pointer = Depth - 1 THEN 0 ELSE pointer + 1

read_pointer_next(read_enable) == IF read_enable THEN After(read_pointer) ELSE read_pointer

\* Mutant: no reason is seen for the bypass
NeverBypass(write_enable, read_enable, data_in) ==
    bypass_valid' = FALSE /\ bypass_data' = data_in

Bypass(write_enable, read_enable, data_in) ==
    /\ bypass_valid' = (write_enable /\ write_pointer = read_pointer_next(read_enable))
    /\ bypass_data' = data_in

Storage(write_enable, read_enable, data_in) ==
    LET head == read_pointer_next(read_enable) IN
    /\ memory' = IF write_enable THEN [memory EXCEPT ![write_pointer] = data_in] ELSE memory
    /\ memory_data_out' \in IF write_enable /\ write_pointer = head
                            THEN {memory[head], data_in, Junk}
                            ELSE {memory[head]}

\* Mutant: a read and a write on one edge count as a write
CountWriteFirst(write_enable, read_enable) ==
    IF write_enable THEN used + 1 ELSE IF read_enable THEN used - 1 ELSE used

Count(write_enable, read_enable) ==
    used + (IF write_enable THEN 1 ELSE 0) - (IF read_enable THEN 1 ELSE 0)

Clock(write_request, data_in, read_request) ==
    LET write_enable == write_request /\ ~ full
        read_enable == read_request /\ ~ empty
    IN  /\ write_pointer' = IF write_enable THEN After(write_pointer) ELSE write_pointer
        /\ read_pointer' = read_pointer_next(read_enable)
        /\ used' = Count(write_enable, read_enable)
        /\ Storage(write_enable, read_enable, data_in)
        /\ Bypass(write_enable, read_enable, data_in)

\* The reset reaches the pointers and the bypass. The memory and its output
\* register go on being clocked, and an offered word goes to the first address
Reset ==
    /\ write_pointer' = 0 /\ read_pointer' = 0 /\ used' = 0
    /\ bypass_valid' = FALSE /\ bypass_data' = Junk
    /\ memory' \in {memory} \cup {[memory EXCEPT ![0] = word] : word \in Words}
    /\ memory_data_out' \in Words \cup {Junk}

Next ==
    \/ Reset
    \/ \E write_request, read_request \in BOOLEAN, data_in \in Words :
           Clock(write_request, data_in, read_request)

Spec == Init /\ [][Next]_vars

-----------------------------------------------------------------------------
TypeOK ==
    /\ write_pointer \in Addresses /\ read_pointer \in Addresses
    /\ used \in 0 .. Depth
    /\ memory \in [Addresses -> Words \cup {Junk}]
    /\ memory_data_out \in Words \cup {Junk}
    /\ bypass_valid \in BOOLEAN /\ bypass_data \in Words \cup {Junk}

\* The address n words on from the one pointed to
Along(pointer, n) == IF pointer + n < Depth THEN pointer + n ELSE pointer + n - Depth

(***************************************************************************)
(* The three registers that say where the queue is agree, at every depth   *)
(* ("a depth that is not a power of two would otherwise corrupt data",     *)
(* fifo.v:29-32).                                                          *)
(***************************************************************************)
PointersAgree ==
    write_pointer = Along(read_pointer, used)

(***************************************************************************)
(* The FX3 samples the word on the edge that counts it as read, so the     *)
(* head is at the port in every cycle in which there is one (fifo.v:16-21) *)
(* and it is a word that was written, never what a collision left.         *)
(***************************************************************************)
HeadShown == ~ empty => data_out = memory[read_pointer] /\ data_out \in Words

(***************************************************************************)
(* The registers implement a bounded queue: words come out in the order    *)
(* they went in, once each, and what is offered to a full one is discarded *)
(* without touching what is queued.                                        *)
(***************************************************************************)
Q == INSTANCE BoundedQueue
        WITH queue <- [n \in 1 .. used |-> memory[Along(read_pointer, n - 1)]], shown <- data_out

IsAQueue == Q!Spec
=============================================================================
