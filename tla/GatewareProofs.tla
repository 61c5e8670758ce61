---------------------------- MODULE GatewareProofs -----------------------------
(***************************************************************************)
(* The theorems of four blocks of the FPGA.                                *)
(* CaptureFifo, for every depth above one and every set of words: its      *)
(* registers keep one queue, show its head, and implement BoundedQueue.    *)
(* CaptureBuffer, for every packet from five words up and every hold of    *)
(* the overflow flag, with an FX3 that is prompt and with one that is not: *)
(* the packet is whole and the queue stays where buffer.v says it stays.   *)
(* BufferMonitor, for every depth, packet, counter width, prescaler and    *)
(* latch counter: what the readings of the telemetry block add up to is    *)
(* what happened, or they say that they are saturated.                     *)
(* FpgaBoot, for every flash and boot block, every timing of the update    *)
(* block that three bytes of the FX3's outlast, and an FX3 that may be      *)
(* anywhere in an operation: what the flash is asked for is safe.           *)
(***************************************************************************)
EXTENDS CaptureFifo, CaptureBuffer, BufferMonitor, FpgaBoot, SequenceTheorems, TLAPS

-----------------------------------------------------------------------------
(* CaptureFifo *)

(***************************************************************************)
(* HeadShown is inductive once it is known that every queued address holds *)
(* a word that was written; which address that is, PointersAgree says.     *)
(***************************************************************************)
QueuedAreWords == \A n \in 0 .. used - 1 : memory[Along(read_pointer, n)] \in Words

FifoInv == TypeOK /\ PointersAgree /\ QueuedAreWords /\ HeadShown

-----------------------------------------------------------------------------
(* Addresses *)

LEMMA AlongFacts ==
    ASSUME NEW p \in Addresses, NEW n \in 0 .. Depth - 1
    PROVE  /\ Along(p, n) \in Addresses
           /\ \A m \in 0 .. Depth - 1 : m # n => Along(p, m) # Along(p, n)
           /\ After(Along(p, n)) = Along(p, n + 1) /\ After(Along(p, n)) \in Addresses
           /\ Along(p, 0) = p /\ Along(p, Depth) = p
           /\ Along(After(p), n) = Along(p, n + 1)
  BY FifoAssumption DEF Addresses, Along, After

-----------------------------------------------------------------------------
(* One edge of the clock, in terms of the two enables *)

FifoEdge(write, data_in, read) ==
    /\ write => ~ full
    /\ read => ~ empty
    /\ write_pointer' = IF write THEN After(write_pointer) ELSE write_pointer
    /\ read_pointer' = IF read THEN After(read_pointer) ELSE read_pointer
    /\ used' = used + (IF write THEN 1 ELSE 0) - (IF read THEN 1 ELSE 0)
    /\ Storage(write, read, data_in)
    /\ Bypass(write, read, data_in)

LEMMA ClockIsEdge ==
    ASSUME TypeOK, NEW write_request \in BOOLEAN, NEW read_request \in BOOLEAN,
           NEW data_in \in Words, Clock(write_request, data_in, read_request)
    PROVE  FifoEdge(write_request /\ ~ full, data_in, read_request /\ ~ empty)
  BY DEF Clock, FifoEdge, Count, read_pointer_next, TypeOK, full, empty

\* Where the queue is, and what is in it, after an edge
LEMMA EdgeQueue ==
    ASSUME FifoInv, NEW write \in BOOLEAN, NEW read \in BOOLEAN, NEW data_in \in Words,
           FifoEdge(write, data_in, read), NEW gone, gone = IF read THEN 1 ELSE 0
    PROVE  /\ TypeOK' /\ PointersAgree'
           /\ \A n \in 0 .. used - 1 - gone :
                  memory'[Along(read_pointer', n)] = memory[Along(read_pointer, n + gone)]
           /\ write => memory'[Along(read_pointer', used' - 1)] = data_in
  <1> USE FifoAssumption
  <1>1. /\ used \in 0 .. Depth /\ read_pointer \in Addresses /\ write_pointer \in Addresses
        /\ write_pointer = Along(read_pointer, used)
        /\ (write => used < Depth) /\ (read => used > 0) /\ gone \in {0, 1}
        /\ used' = used + (IF write THEN 1 ELSE 0) - gone
        /\ memory \in [Addresses -> Words \cup {Junk}]
    BY DEF FifoInv, TypeOK, PointersAgree, FifoEdge, full, empty
  <1>2. used' \in 0 .. Depth /\ used' + gone \in 0 .. Depth
    BY <1>1
  <1>3. read_pointer' = IF read THEN After(read_pointer) ELSE read_pointer
    BY DEF FifoEdge
  <1>4. read_pointer' \in Addresses
    BY <1>1, <1>3 DEF After, Addresses
  <1>5. \A n \in 0 .. Depth - gone :
            n + gone \in 0 .. Depth
            => Along(read_pointer', n) = Along(read_pointer, n + gone)
    BY <1>1, <1>3 DEF Along, After, Addresses
  <1>6. TypeOK'
    <2>1. memory' \in [Addresses -> Words \cup {Junk}]
      BY <1>1 DEF FifoEdge, Storage
    <2>2. read_pointer_next(read) \in Addresses
      BY <1>3, <1>4 DEF read_pointer_next
    <2>3. memory_data_out' \in Words \cup {Junk}
      BY <1>1, <2>2 DEF FifoEdge, Storage
    <2>4. bypass_valid' \in BOOLEAN /\ bypass_data' \in Words \cup {Junk}
      BY DEF FifoEdge, Bypass
    <2>5. write_pointer' \in Addresses
      BY <1>1 DEF FifoEdge, After, Addresses
    <2> QED
      BY <1>2, <1>4, <2>1, <2>3, <2>4, <2>5 DEF TypeOK
  <1>7. PointersAgree'
    <2>1. write_pointer' = Along(read_pointer, used + (IF write THEN 1 ELSE 0))
      BY <1>1, AlongFacts DEF FifoEdge
    <2>2. used + (IF write THEN 1 ELSE 0) = used' + gone
      BY <1>1
    <2>3. Along(read_pointer', used') = Along(read_pointer, used' + gone)
      BY <1>1, <1>2, <1>5
    <2> QED
      BY <2>1, <2>2, <2>3 DEF PointersAgree
  <1>8. ASSUME NEW n \in 0 .. used - 1 - gone
        PROVE  memory'[Along(read_pointer', n)] = memory[Along(read_pointer, n + gone)]
    <2>1. /\ n \in 0 .. Depth - gone /\ n + gone \in 0 .. Depth - 1
          /\ n + gone \in 0 .. Depth /\ n + gone # used
      BY <1>1
    <2>2. Along(read_pointer', n) = Along(read_pointer, n + gone)
      BY <1>5, <2>1
    <2>3. Along(read_pointer, n + gone) \in Addresses
      BY <1>1, <2>1, AlongFacts
    <2>4. write => Along(read_pointer, n + gone) # write_pointer
      BY <1>1, <2>1, AlongFacts
    <2> QED
      BY <1>1, <2>2, <2>3, <2>4 DEF FifoEdge, Storage
  <1>9. ASSUME write PROVE memory'[Along(read_pointer', used' - 1)] = data_in
    <2>1. used' - 1 = used - gone /\ used - gone \in 0 .. Depth - gone
      BY <1>1, <1>9
    <2>2. Along(read_pointer', used - gone) = Along(read_pointer, used)
      BY <1>1, <1>5, <2>1
    <2> QED
      BY <1>1, <1>9, <2>1, <2>2 DEF FifoEdge, Storage
  <1> QED
    BY <1>6, <1>7, <1>8, <1>9

\* The word at the port after an edge is what the head's address then holds,
\* whatever the memory returned for it
LEMMA EdgeShows ==
    ASSUME FifoInv, NEW write \in BOOLEAN, NEW read \in BOOLEAN, NEW data_in \in Words,
           FifoEdge(write, data_in, read)
    PROVE  data_out' = memory'[read_pointer']
  <1>1. read_pointer_next(read) = read_pointer'
    BY DEF FifoEdge, read_pointer_next
  <1>2. write_pointer \in Addresses /\ memory \in [Addresses -> Words \cup {Junk}]
    BY DEF FifoInv, TypeOK
  <1>3. CASE write /\ write_pointer = read_pointer'
    <2>1. bypass_valid' = TRUE /\ bypass_data' = data_in
      BY <1>1, <1>3 DEF FifoEdge, Bypass
    <2>2. memory'[read_pointer'] = data_in
      BY <1>2, <1>3 DEF FifoEdge, Storage
    <2> QED
      BY <2>1, <2>2 DEF data_out
  <1>4. CASE ~ (write /\ write_pointer = read_pointer')
    <2>1. bypass_valid' = FALSE
      BY <1>1, <1>4 DEF FifoEdge, Bypass
    <2>2. memory_data_out' = memory[read_pointer']
      BY <1>1, <1>4 DEF FifoEdge, Storage
    <2>3. memory'[read_pointer'] = memory[read_pointer']
      BY <1>2, <1>4 DEF FifoEdge, Storage
    <2> QED
      BY <2>1, <2>2, <2>3 DEF data_out
  <1> QED
    BY <1>3, <1>4

LEMMA EdgeKeeps ==
    ASSUME FifoInv, NEW write \in BOOLEAN, NEW read \in BOOLEAN, NEW data_in \in Words,
           FifoEdge(write, data_in, read)
    PROVE  FifoInv'
  <1> USE FifoAssumption
  <1>0. PICK gone : gone = IF read THEN 1 ELSE 0
    OBVIOUS
  <1>1. /\ TypeOK' /\ PointersAgree'
        /\ \A n \in 0 .. used - 1 - gone :
               memory'[Along(read_pointer', n)] = memory[Along(read_pointer, n + gone)]
        /\ write => memory'[Along(read_pointer', used' - 1)] = data_in
    BY <1>0, EdgeQueue
  <1>2. /\ used \in Nat /\ gone \in {0, 1}
        /\ used' = used + (IF write THEN 1 ELSE 0) - gone
    BY <1>0 DEF FifoInv, TypeOK, FifoEdge
  <1>3. QueuedAreWords'
    <2> SUFFICES ASSUME NEW n \in 0 .. used' - 1
                 PROVE  memory'[Along(read_pointer', n)] \in Words
      BY DEF QueuedAreWords
    <2>1. CASE n \in 0 .. used - 1 - gone
      <3>1. n + gone \in 0 .. used - 1
        BY <1>2, <2>1
      <3>2. memory[Along(read_pointer, n + gone)] \in Words
        BY <3>1 DEF FifoInv, QueuedAreWords
      <3> QED
        BY <1>1, <2>1, <3>2
    <2>2. CASE write /\ n = used' - 1
      BY <1>1, <2>2
    <2> QED
      BY <1>2, <2>1, <2>2
  <1>4. HeadShown'
    <2>1. Along(read_pointer', 0) = read_pointer' /\ used' \in 0 .. Depth
      BY <1>1, AlongFacts DEF TypeOK
    <2>2. used' # 0 => memory'[Along(read_pointer', 0)] \in Words
      <3>1. used' # 0 => 0 \in 0 .. used' - 1
        BY <1>2, <2>1, SMT
      <3> QED
        BY <1>3, <3>1 DEF QueuedAreWords
    <2>3. data_out' = memory'[read_pointer']
      BY EdgeShows
    <2> QED
      BY <2>1, <2>2, <2>3 DEF HeadShown, empty
  <1> QED
    BY <1>1, <1>3, <1>4 DEF FifoInv

LEMMA ResetKeeps == ASSUME FifoInv, Reset PROVE FifoInv'
  <1>1. 0 \in Addresses /\ 0 \in 0 .. Depth /\ Along(0, 0) = 0
    BY FifoAssumption DEF Addresses, Along
  <1>2. memory' \in [Addresses -> Words \cup {Junk}]
    BY <1>1 DEF FifoInv, TypeOK, Reset
  <1>3. TypeOK' /\ PointersAgree'
    BY <1>1, <1>2 DEF Reset, TypeOK, PointersAgree
  <1>4. QueuedAreWords' /\ HeadShown'
    BY DEF Reset, QueuedAreWords, HeadShown, empty
  <1> QED
    BY <1>3, <1>4 DEF FifoInv

(***************************************************************************)
(* The invariant of the queue's registers (fifo.v:79-168).                 *)
(***************************************************************************)
THEOREM FifoInvariant == Spec => []FifoInv
  <1>1. Init => FifoInv
    <2>1. 0 \in Addresses /\ 0 \in 0 .. Depth /\ Along(0, 0) = 0
      BY FifoAssumption DEF Addresses, Along
    <2>2. Init => TypeOK /\ PointersAgree
      BY <2>1 DEF Init, TypeOK, PointersAgree
    <2>3. Init => QueuedAreWords /\ HeadShown
      BY DEF Init, QueuedAreWords, HeadShown, empty
    <2> QED
      BY <2>2, <2>3 DEF FifoInv
  <1>2. FifoInv /\ [Next]_vars => FifoInv'
    <2> SUFFICES ASSUME FifoInv, [Next]_vars PROVE FifoInv'
      OBVIOUS
    <2>1. CASE UNCHANGED vars
      BY <2>1 DEF vars, pointers, storage, bypass, FifoInv, TypeOK, PointersAgree,
                  QueuedAreWords, HeadShown, empty, data_out
    <2>2. ASSUME NEW write_request \in BOOLEAN, NEW read_request \in BOOLEAN,
                 NEW data_in \in Words, Clock(write_request, data_in, read_request)
          PROVE  FifoInv'
      <3>1. (write_request /\ ~ full) \in BOOLEAN /\ (read_request /\ ~ empty) \in BOOLEAN
        OBVIOUS
      <3> QED
        BY <2>2, <3>1, ClockIsEdge, EdgeKeeps DEF FifoInv
    <2> QED
      BY <2>1, <2>2, ResetKeeps DEF Next
  <1> QED
    BY <1>1, <1>2, PTL DEF Spec

(***************************************************************************)
(* The registers are well typed: no pointer leaves the memory (fifo.v:79). *)
(***************************************************************************)
THEOREM FifoTypeCorrect == Spec => []TypeOK
  BY FifoInvariant, PTL DEF FifoInv

(***************************************************************************)
(* At every depth the pointers and the count agree (fifo.v:29-32).         *)
(***************************************************************************)
THEOREM PointersAlwaysAgree == Spec => []PointersAgree
  BY FifoInvariant, PTL DEF FifoInv

(***************************************************************************)
(* The head of the queue is at the port whenever there is one, collisions  *)
(* in the memory notwithstanding (fifo.v:16-21, 121-136).                  *)
(***************************************************************************)
THEOREM HeadAlwaysShown == Spec => []HeadShown
  BY FifoInvariant, PTL DEF FifoInv

-----------------------------------------------------------------------------
(* The refinement *)

AnyWord == Words \cup {Junk}
Queued(m, p, u) == [n \in 1 .. u |-> m[Along(p, n - 1)]]

LEMMA QueuedIsSeq ==
    ASSUME NEW m \in [Addresses -> AnyWord], NEW p \in Addresses, NEW u \in 0 .. Depth
    PROVE  /\ Queued(m, p, u) \in Seq(AnyWord) /\ Len(Queued(m, p, u)) = u
           /\ \A n \in 1 .. u : Queued(m, p, u)[n] = m[Along(p, n - 1)]
           /\ Queued(m, p, u) = <<>> <=> u = 0
  <1>1. \A n \in 1 .. u : m[Along(p, n - 1)] \in AnyWord
    BY FifoAssumption, AlongFacts
  <1>2. u \in Nat
    BY FifoAssumption
  <1>3. /\ Queued(m, p, u) \in Seq(AnyWord) /\ Len(Queued(m, p, u)) = u
        /\ \A n \in 1 .. u : Queued(m, p, u)[n] = m[Along(p, n - 1)]
    BY <1>1, <1>2 DEF Queued
  <1> QED
    BY <1>2, <1>3, EmptySeq

\* A port that shows the head shows what BoundedQueue lets it show
LEMMA PortIsShown ==
    ASSUME NEW m \in [Addresses -> AnyWord], NEW p \in Addresses, NEW u \in 0 .. Depth,
           NEW out \in AnyWord, u # 0 => out = m[p]
    PROVE  out \in Q!Shown(Queued(m, p, u))
  <1>1. CASE u = 0
    BY <1>1, QueuedIsSeq DEF Q!Shown, AnyWord
  <1>2. CASE u # 0
    <2>1. 1 \in 1 .. u /\ Along(p, 1 - 1) = p
      BY <1>2, FifoAssumption DEF Along, Addresses
    <2>2. Queued(m, p, u) # <<>> /\ Queued(m, p, u)[1] = m[p]
      BY <1>2, <2>1, QueuedIsSeq
    <2> QED
      BY <1>2, <2>2 DEF Q!Shown
  <1> QED
    BY <1>1, <1>2

\* What Clock does to the queue, as BoundedQueue has it
LEMMA ClockRefines ==
    ASSUME FifoInv, FifoInv', NEW write_request \in BOOLEAN, NEW read_request \in BOOLEAN,
           NEW data_in \in Words, Clock(write_request, data_in, read_request)
    PROVE  Q!Clock(write_request, data_in, read_request)
  <1>1. PICK write, read, gone :
            /\ write \in BOOLEAN /\ read \in BOOLEAN
            /\ write = (write_request /\ ~ full) /\ read = (read_request /\ ~ empty)
            /\ gone = IF read THEN 1 ELSE 0
    OBVIOUS
  <1>2. FifoEdge(write, data_in, read)
    BY <1>1, ClockIsEdge DEF FifoInv
  <1>3. PICK q, r : q = Queued(memory, read_pointer, used)
                    /\ r = Queued(memory', read_pointer', used')
    OBVIOUS
  <1>4. /\ used \in Nat /\ (read => used > 0) /\ gone \in {0, 1}
        /\ used' = used + (IF write THEN 1 ELSE 0) - gone
        /\ used' \in Nat
    BY <1>1, <1>2, FifoAssumption DEF FifoInv, TypeOK, FifoEdge, empty
  <1>5. /\ q \in Seq(AnyWord) /\ Len(q) = used /\ (q = <<>> <=> used = 0)
        /\ \A n \in 1 .. used : q[n] = memory[Along(read_pointer, n - 1)]
    BY <1>3, QueuedIsSeq DEF FifoInv, TypeOK, AnyWord
  <1>6. /\ r \in Seq(AnyWord) /\ Len(r) = used'
        /\ \A n \in 1 .. used' : r[n] = memory'[Along(read_pointer', n - 1)]
    BY <1>3, QueuedIsSeq DEF FifoInv, TypeOK, AnyWord
  <1>7. PICK taken : taken = IF read THEN Tail(q) ELSE q
    OBVIOUS
  <1>8. /\ taken \in Seq(AnyWord) /\ Len(taken) = used - gone
        /\ \A n \in 1 .. used - gone : taken[n] = q[n + gone]
    <2>1. CASE read
      BY <1>1, <1>4, <1>5, <1>7, <2>1, HeadTailProperties
    <2>2. CASE ~ read
      BY <1>1, <1>4, <1>5, <1>7, <2>2
    <2> QED
      BY <2>1, <2>2
  <1>9. PICK wanted : wanted = IF write THEN Append(taken, data_in) ELSE taken
    OBVIOUS
  <1>10. /\ wanted \in Seq(AnyWord) /\ Len(wanted) = used'
         /\ \A n \in 1 .. used - gone : wanted[n] = taken[n]
         /\ write => wanted[used'] = data_in
    <2>1. CASE write
      <3>1. data_in \in AnyWord /\ used' = used - gone + 1
        BY <1>4, <2>1 DEF AnyWord
      <3> QED
        BY <1>8, <1>9, <2>1, <3>1, AppendProperties
    <2>2. CASE ~ write
      BY <1>4, <1>8, <1>9, <2>2
    <2> QED
      BY <2>1, <2>2
  <1>11. /\ \A n \in 0 .. used - 1 - gone :
                memory'[Along(read_pointer', n)] = memory[Along(read_pointer, n + gone)]
         /\ write => memory'[Along(read_pointer', used' - 1)] = data_in
    BY <1>1, <1>2, EdgeQueue
  <1>12. ASSUME NEW n \in 1 .. used' PROVE r[n] = wanted[n]
    <2>1. CASE n \in 1 .. used - gone
      <3>1. PICK i : i = n + gone
        OBVIOUS
      <3>2. n - 1 \in 0 .. used - 1 - gone /\ i \in 1 .. used /\ n - 1 + gone = i - 1
        BY <1>4, <2>1, <3>1
      <3>3. memory'[Along(read_pointer', n - 1)] = memory[Along(read_pointer, i - 1)]
        BY <1>11, <3>2
      <3>4. wanted[n] = q[i]
        BY <1>8, <1>10, <2>1, <3>1
      <3>5. q[i] = memory[Along(read_pointer, i - 1)]
        BY <1>5, <3>2
      <3> QED
        BY <1>6, <3>3, <3>4, <3>5
    <2>2. CASE write /\ n = used'
      BY <1>6, <1>10, <1>11, <2>2
    <2> QED
      BY <1>4, <2>1, <2>2
  <1>13. r = wanted
    BY <1>6, <1>10, <1>12, SeqEqual
  <1>14. wanted = IF write_request /\ Len(q) < Depth
                  THEN Append(taken, data_in) ELSE taken
    <2>1. (Len(q) < Depth) = ~ full
      BY <1>5, FifoAssumption DEF FifoInv, TypeOK, full
    <2> QED
      BY <1>1, <1>9, <2>1
  <1>15. taken = IF read_request /\ q # <<>> THEN Tail(q) ELSE q
    BY <1>1, <1>5, <1>7 DEF empty
  <1>16. data_out' \in Q!Shown(r)
    <2>1. /\ memory' \in [Addresses -> AnyWord] /\ read_pointer' \in Addresses
          /\ used' \in 0 .. Depth /\ data_out' \in AnyWord
      BY DEF FifoInv, TypeOK, AnyWord, data_out
    <2>2. used' # 0 => data_out' = memory'[read_pointer']
      BY DEF FifoInv, HeadShown, empty
    <2> QED
      BY <1>3, <2>1, <2>2, PortIsShown
  <1> QED
    BY <1>3, <1>13, <1>14, <1>15, <1>16 DEF Q!Clock, Q!Taken, Queued

(***************************************************************************)
(* The queue of the capture path is a bounded queue: every word that finds *)
(* room comes out once, in order, and the head is shown before it is asked *)
(* for (fifo.v:11-32).                                                     *)
(***************************************************************************)
THEOREM FifoIsAQueue == Spec => IsAQueue
  <1>1. ASSUME NEW m \in [Addresses -> AnyWord], NEW p \in Addresses
        PROVE  Queued(m, p, 0) = <<>>
    BY <1>1, QueuedIsSeq, FifoAssumption
  <1>2. Init => Q!Init
    <2> SUFFICES ASSUME Init PROVE Q!Init
      OBVIOUS
    <2>1. memory \in [Addresses -> AnyWord] /\ read_pointer \in Addresses /\ used = 0
      BY FifoAssumption DEF Init, Addresses, AnyWord
    <2>2. Queued(memory, read_pointer, used) = <<>>
      BY <1>1, <2>1
    <2>3. data_out \in Words \cup {Junk}
      BY DEF Init, data_out
    <2> QED
      BY <2>2, <2>3 DEF Q!Init, Q!Shown, Queued
  <1>3. FifoInv /\ FifoInv' /\ [Next]_vars => [Q!Next]_(Q!vars)
    <2> SUFFICES ASSUME FifoInv, FifoInv', [Next]_vars PROVE [Q!Next]_(Q!vars)
      OBVIOUS
    <2>1. CASE UNCHANGED vars
      BY <2>1 DEF vars, pointers, storage, bypass, Q!vars, data_out
    <2>2. CASE Reset
      <3>1. /\ memory' \in [Addresses -> AnyWord] /\ read_pointer' \in Addresses
            /\ used' = 0 /\ data_out' \in Words \cup {Junk}
        BY <2>2 DEF Reset, FifoInv, TypeOK, AnyWord, data_out
      <3>2. Queued(memory', read_pointer', used') = <<>>
        BY <1>1, <3>1
      <3> QED
        BY <3>1, <3>2 DEF Q!Next, Q!Reset, Q!Shown, Queued
    <2>3. ASSUME NEW write_request \in BOOLEAN, NEW read_request \in BOOLEAN,
                 NEW data_in \in Words, Clock(write_request, data_in, read_request)
          PROVE  [Q!Next]_(Q!vars)
      BY <2>3, ClockRefines DEF Q!Next
    <2> QED
      BY <2>1, <2>2, <2>3 DEF Next
  <1> QED
    BY FifoInvariant, <1>2, <1>3, PTL DEF Spec, IsAQueue, Q!Spec

-----------------------------------------------------------------------------
(* CaptureBuffer *)

(***************************************************************************)
(* PacketsAreWhole says where the queue is at an overflow and when no      *)
(* packet has been late. Neither is inductive: between the two the queue   *)
(* goes through the handshake, where it grows by half a word a clock, and  *)
(* through the packet, where it shrinks by as much. Level counts in half   *)
(* words: a sample is in it half on the clock before it is written.        *)
(***************************************************************************)
Offset == IF (IF decimate THEN tick \in {2, 3} ELSE tick % 2 = 1) THEN 1 ELSE 0
Level == 2 * used_words - Offset

\* How far above a packet the queue may be here, in half words, apart from what
\* the time the packet was kept waiting let in
Allowance ==
    IF ~ data_available THEN -1
    ELSE IF is_reading THEN 4 - word_counter
    ELSE IF read_data_flag THEN 3
    ELSE IF gpif = "Request" THEN 2
    ELSE IF pins.available THEN 1 ELSE 0

Within(level, waited, room) == level <= 2 * PacketWords + waited + room

LevelBounded == Within(Level, late, Allowance)

\* The sender and the flag of the buffer, which does not look at the sender's counter
SenderInv ==
    /\ pins.reading <=> word_counter > 0
    /\ is_reading => data_available /\ word_counter \in 0 .. PacketWords - 1
    /\ ~ is_reading => word_counter \in {0, PacketWords}
    /\ data_available => packet_remaining = IF is_reading THEN PacketWords - word_counter
                                            ELSE PacketWords
    /\ ~ data_available => packet_remaining = 0
    /\ word_counter = PacketWords => ~ data_available
    /\ pins.available /\ ~ is_reading /\ word_counter = 0 => data_available
    /\ read_data_flag => data_available /\ word_counter \in {0, 1}

\* The sender and the FX3, two clocks apart
Handshake ==
    /\ gpif = "Wait" => ~ read_data_flag /\ ~ is_reading /\ word_counter = 0
    /\ gpif = "Request" =>
          /\ data_available /\ gpif_count \in 0 .. 2 /\ word_counter = 0
          /\ read_data_flag <=> gpif_count > 0
          /\ is_reading <=> gpif_count = 2
    /\ gpif = "Read" => word_counter = gpif_count + 1 /\ (read_data_flag => gpif_count = 0)
    /\ gpif \in {"Wait", "Off"} => gpif_count = 0

BufferInv ==
    BufferTypeOK /\ PromiseIsKept /\ FramesAgree /\ SenderInv /\ Handshake /\ LevelBounded

-----------------------------------------------------------------------------
LEMMA Sizes ==
    /\ PacketWords \in Nat /\ PacketWords >= 5
    /\ FifoDepth \in Nat /\ FifoDepth = 2 * PacketWords
    /\ LateLimit \in Nat /\ LateLimit = 4 * PacketWords
    /\ ErrorHoldCycles \in Nat
  BY BufferAssumption DEF LateLimit

\* What the invariant is for: an overflow takes a queue this far above a packet, and
\* without a late packet it is never there
LEMMA BoundIsEnough ==
    ASSUME BufferInv
    PROVE  GraceIsGiven /\ PeakIsSteady
  <1>1. /\ Allowance \in Int /\ Allowance <= 4 /\ used_words \in Nat /\ late \in Nat
    BY Sizes DEF BufferInv, BufferTypeOK, SenderInv, Allowance
  <1>2. Level <= 2 * PacketWords + late + 4
    <2>1. Level \in Int
      BY <1>1 DEF Level, Offset
    <2> QED
      BY <1>1, <2>1, Sizes DEF BufferInv, LevelBounded, Within
  <1>3. 2 * used_words - 1 <= 2 * PacketWords + late + 4
    BY <1>1, <1>2, Sizes DEF Level, Offset
  <1>4. ASSUME overflow PROVE late >= 2 * (FifoDepth - PacketWords - Overshoot)
    <2>1. write_enable /\ used_words = FifoDepth
      BY <1>4 DEF overflow, fifo_full
    <2>2. Offset = 0
      BY <2>1 DEF Offset, write_enable, BufferInv, BufferTypeOK
    <2> QED
      BY <1>1, <1>2, <2>1, <2>2, Sizes DEF Level, Overshoot
  <1>5. ASSUME late = 0 PROVE used_words <= PacketWords + Overshoot
    BY <1>1, <1>3, <1>5, Sizes DEF Overshoot
  <1> QED
    BY <1>4, <1>5 DEF GraceIsGiven, PeakIsSteady

-----------------------------------------------------------------------------
LEMMA BufferStarts == BufferInit => BufferInv
  <1> SUFFICES ASSUME BufferInit PROVE BufferInv
    OBVIOUS
  <1> USE Sizes DEF BufferInit, is_reading
  <1>1. BufferTypeOK
    <2>1. /\ 0 \in 0 .. 3 /\ 0 \in 0 .. FifoDepth /\ 0 \in 0 .. PacketWords
          /\ 0 \in 0 .. ErrorHoldCycles /\ 0 \in 0 .. LateLimit
      OBVIOUS
    <2> QED
      BY <2>1 DEF BufferTypeOK
  <1>2. PromiseIsKept /\ FramesAgree
    BY DEF PromiseIsKept, FramesAgree
  <1>3. SenderInv /\ Handshake
    BY DEF SenderInv, Handshake
  <1>4. LevelBounded
    BY <1>1 DEF LevelBounded, Within, Level, Offset, Allowance, BufferTypeOK
  <1> QED
    BY <1>1, <1>2, <1>3, <1>4 DEF BufferInv

LEMMA HalfWords ==
    ASSUME NEW queued \in Nat, NEW now \in Nat, NEW before \in {0, 1}, NEW after \in {0, 1},
           NEW took \in {0, 1}, now = queued - took
    PROVE  2 * now - after <= 2 * queued - before + 1 - 2 * took
  OBVIOUS

\* A clock adds half a word at most, and takes two half words back while reading
LEMMA LevelStep ==
    ASSUME BufferTypeOK, Cadence, BufferFifo
    PROVE  /\ Level \in Int /\ Level' \in Int
           /\ Level' <= Level + 1
           /\ is_reading /\ used_words > 0 => Level' <= Level - 1
           /\ used_words' \in 0 .. FifoDepth
  <1>1. /\ tick \in 0 .. 3 /\ decimate \in BOOLEAN /\ decimate' = decimate
        /\ used_words \in 0 .. FifoDepth
    BY DEF BufferTypeOK, Cadence
  <1>2. tick' = IF tick = 3 THEN 0 ELSE tick + 1
    BY <1>1 DEF Cadence
  <1>3. /\ Offset \in {0, 1} /\ Offset' \in {0, 1}
        /\ write_enable => Offset = 0 /\ Offset' = 1
        /\ ~ write_enable => Offset' <= Offset
    BY <1>1, <1>2 DEF Offset, write_enable
  <1> DEFINE taken == IF is_reading /\ used_words > 0 THEN 1 ELSE 0
            added == IF write_enable /\ ~ fifo_full THEN 1 ELSE 0
  <1>4. /\ used_words' = used_words + added - taken
        /\ taken \in {0, 1} /\ added \in {0, 1}
        /\ added = 1 => write_enable /\ used_words # FifoDepth
        /\ taken = 1 => used_words > 0
    BY DEF BufferFifo, fifo_full
  <1> HIDE DEF taken, added
  <1>5. /\ Level = 2 * used_words - Offset /\ Level' = 2 * used_words' - Offset'
        /\ taken = 1 <=> is_reading /\ used_words > 0
    BY DEF Level, taken
  <1>6. used_words' \in 0 .. FifoDepth
    BY <1>1, <1>4, Sizes
  <1>7. Level \in Int /\ Level' \in Int
    BY <1>1, <1>3, <1>5, <1>6, Sizes
  <1>8. Level' <= Level + 1 - 2 * taken
    <2>1. CASE write_enable
      BY <1>1, <1>3, <1>4, <1>5, <1>6, <2>1, Sizes
    <2>2. CASE ~ write_enable
      <3>1. used_words' = used_words - taken
        BY <1>1, <1>4, <2>2, Sizes
      <3>2. used_words \in Nat /\ used_words' \in Nat
        BY <1>1, <1>6, Sizes
      <3> QED
        BY <1>3, <1>4, <1>5, <3>1, <3>2, HalfWords
    <2> QED
      BY <2>1, <2>2
  <1> QED
    BY <1>4, <1>5, <1>6, <1>7, <1>8

-----------------------------------------------------------------------------
(* The registers of the FPGA *)

LEMMA Typed ==
    ASSUME BufferInv
    PROVE  /\ used_words \in Nat /\ used_words <= 2 * PacketWords
           /\ packet_remaining \in Nat /\ packet_remaining <= PacketWords
           /\ word_counter \in Nat /\ word_counter <= PacketWords
           /\ gpif_count \in Nat /\ gpif_count <= PacketWords
           /\ late \in Nat /\ late <= LateLimit
           /\ data_available \in BOOLEAN /\ read_data_flag \in BOOLEAN /\ buffer_error \in BOOLEAN
           /\ is_reading \in BOOLEAN /\ missed \in BOOLEAN
           /\ pins.available \in BOOLEAN /\ pins.reading \in BOOLEAN
           /\ gpif \in {"Wait", "Request", "Read", "Off"}
           /\ error_hold \in Nat /\ error_hold <= ErrorHoldCycles
  BY Sizes DEF BufferInv, BufferTypeOK, is_reading

LEMMA SenderCounts ==
    ASSUME BufferNext, word_counter \in Nat
    PROVE  /\ word_counter' = IF is_reading THEN word_counter + 1 ELSE 0
           /\ is_reading' <=> \/ is_reading /\ word_counter # PacketWords - 1
                              \/ ~ is_reading /\ read_data_flag /\ word_counter = 0
           /\ read_data_flag' = (gpif = "Request")
           /\ sm_state' \in {"WaitForRequest", "SendPacket"}
  <1>1. Sender
    BY DEF BufferNext
  <1>2. word_counter' = (IF is_reading THEN word_counter + 1 ELSE 0)
    BY <1>1 DEF Sender
  <1>3. read_data_flag' = (gpif = "Request")
    BY <1>1 DEF Sender, read_data
  <1>4. sm_state' = IF is_reading
                    THEN IF word_counter = PacketWords - 1 THEN "WaitForRequest" ELSE "SendPacket"
                    ELSE IF read_data_flag /\ word_counter = 0 THEN "SendPacket" ELSE "WaitForRequest"
    BY <1>1 DEF Sender
  <1>6. sm_state' \in {"WaitForRequest", "SendPacket"}
    BY <1>4
  <1>5. is_reading' <=> \/ is_reading /\ word_counter # PacketWords - 1
                        \/ ~ is_reading /\ read_data_flag /\ word_counter = 0
    BY <1>4 DEF is_reading
  <1> QED
    BY <1>2, <1>3, <1>5, <1>6

LEMMA FlagCounts ==
    ASSUME BufferInv, BufferNext
    PROVE  /\ data_available' <=> \/ ~ data_available /\ used_words >= PacketWords
                                  \/ data_available /\ ~ (is_reading /\ word_counter = PacketWords - 1)
           /\ data_available' \in BOOLEAN
           /\ packet_remaining' = IF ~ data_available' THEN 0
                                  ELSE IF is_reading THEN PacketWords - word_counter - 1
                                  ELSE PacketWords
  <1>1. Promise
    BY DEF BufferNext
  <1>0. data_available' \in BOOLEAN
    <2>1. CASE data_available
      BY <1>1, <2>1 DEF Promise
    <2>2. CASE ~ data_available
      BY <1>1, <2>2 DEF Promise
    <2> QED
      BY <2>1, <2>2
  <1>2. /\ data_available => packet_remaining = IF is_reading THEN PacketWords - word_counter
                                                ELSE PacketWords
        /\ is_reading => data_available /\ word_counter <= PacketWords - 1
    BY Typed, Sizes DEF BufferInv, SenderInv
  <1>3. CASE ~ data_available
    <2>1. /\ data_available' <=> used_words >= PacketWords
          /\ packet_remaining' = IF used_words >= PacketWords THEN PacketWords ELSE 0
      BY <1>1, <1>3 DEF Promise
    <2>2. ~ is_reading
      BY <1>2, <1>3
    <2> QED
      BY <1>0, <1>3, <2>1, <2>2
  <1>4. CASE data_available
    <2>1. /\ packet_remaining' = packet_remaining - (IF is_reading THEN 1 ELSE 0)
          /\ data_available' <=> packet_remaining - (IF is_reading THEN 1 ELSE 0) > 0
      BY <1>1, <1>4 DEF Promise
    <2>2. packet_remaining' = IF is_reading THEN PacketWords - word_counter - 1 ELSE PacketWords
      BY <1>2, <1>4, <2>1, Typed, Sizes
    <2>3. data_available' <=> ~ (is_reading /\ word_counter = PacketWords - 1)
      BY <1>2, <1>4, <2>1, Typed, Sizes
    <2>4. ~ data_available' => packet_remaining' = 0
      BY <1>2, <1>4, <2>2, <2>3, Typed, Sizes
    <2> QED
      BY <1>0, <1>4, <2>2, <2>3, <2>4
  <1> QED
    BY <1>3, <1>4, Typed


LEMMA Delayed ==
    ASSUME BufferNext
    PROVE  pins'.available = data_available /\ pins'.reading = is_reading
  BY DEF BufferNext, Pins

LEMMA SenderKeeps ==
    ASSUME BufferInv, BufferNext
    PROVE  SenderInv' /\ PromiseIsKept'
  <1> USE Typed, SenderCounts, FlagCounts, Sizes
  <1>1. /\ is_reading => data_available /\ word_counter <= PacketWords - 1
        /\ ~ is_reading => word_counter \in {0, PacketWords}
        /\ word_counter = PacketWords => ~ data_available
        /\ read_data_flag => data_available /\ word_counter \in {0, 1}
        /\ data_available => packet_remaining <= used_words
        /\ data_available => packet_remaining = IF is_reading THEN PacketWords - word_counter
                                                ELSE PacketWords
        /\ gpif = "Request" => data_available /\ word_counter = 0
    BY DEF BufferInv, SenderInv, PromiseIsKept, Handshake
  <1>2. word_counter' \in Nat /\ (word_counter' > 0 <=> is_reading)
    OBVIOUS
  <1>3. (pins.reading <=> word_counter > 0)'
    BY <1>2, Delayed
  <1>4. ASSUME is_reading' PROVE data_available' /\ word_counter' \in 0 .. PacketWords - 1
    BY <1>1, <1>4
  <1>5. ASSUME ~ is_reading' PROVE word_counter' \in {0, PacketWords}
    BY <1>1, <1>5
  <1>6. /\ data_available' => packet_remaining' = IF is_reading' THEN PacketWords - word_counter'
                                                  ELSE PacketWords
        /\ ~ data_available' => packet_remaining' = 0
    BY <1>1
  <1>7. word_counter' = PacketWords => ~ data_available'
    BY <1>1
  <1>8. ASSUME pins'.available, ~ is_reading', word_counter' = 0 PROVE data_available'
    <2>1. data_available
      BY <1>8, Delayed
    <2>2. ~ is_reading
      BY <1>2, <1>8
    <2> QED
      BY <2>1, <2>2
  <1>9. ASSUME read_data_flag' PROVE data_available' /\ word_counter' \in {0, 1}
    <2>1. data_available /\ word_counter = 0
      BY <1>1, <1>9
    <2> QED
      BY <2>1
  <1>10. ASSUME data_available' PROVE packet_remaining' \in 1 .. used_words'
    <2>1. /\ used_words' \in Nat
          /\ used_words' >= used_words - (IF is_reading THEN 1 ELSE 0)
      BY LevelStep DEF BufferInv, BufferNext, BufferFifo
    <2> QED
      BY <1>1, <1>10, <2>1
  <1> QED
    BY <1>3, <1>4, <1>5, <1>6, <1>7, <1>8, <1>9, <1>10 DEF SenderInv, PromiseIsKept

-----------------------------------------------------------------------------
(* The FX3 on the other side of the pins *)

LEMMA GpifKeeps ==
    ASSUME BufferInv, BufferNext
    PROVE  Handshake' /\ FramesAgree'
  <1> USE Typed, SenderCounts, FlagCounts, Delayed, Sizes
  <1>1. SenderInv /\ Handshake /\ FramesAgree
    BY DEF BufferInv
  <1>2. CASE GpifWait
    BY <1>1, <1>2 DEF GpifWait, SenderInv, Handshake, FramesAgree
  <1>3. CASE GpifRequest
    BY <1>1, <1>3 DEF GpifRequest, SenderInv, Handshake, FramesAgree, RequestCycles
  <1>4. CASE GpifRead
    <2>1. /\ word_counter = gpif_count + 1 /\ gpif = "Read" /\ pins.reading
          /\ read_data_flag => gpif_count = 0
          /\ is_reading => word_counter <= PacketWords - 1
          /\ ~ is_reading => word_counter = PacketWords
      BY <1>1, <1>4 DEF GpifRead, SenderInv, Handshake
    <2>2. CASE gpif_count = PacketWords - 1
      BY <2>1, <2>2, <1>4 DEF GpifRead, Handshake, FramesAgree
    <2>3. CASE gpif_count # PacketWords - 1
      <3>1. is_reading /\ gpif' = "Read" /\ gpif_count' = gpif_count + 1
        BY <2>1, <2>3, <1>4 DEF GpifRead
      <3>2. word_counter' = gpif_count' + 1 /\ ~ read_data_flag' /\ pins'.reading
        BY <2>1, <3>1
      <3> QED
        BY <3>1, <3>2 DEF Handshake, FramesAgree
    <2> QED
      BY <2>2, <2>3
  <1>5. CASE GpifStop
    BY <1>1, <1>5 DEF GpifStop, Handshake, FramesAgree
  <1>6. CASE GpifStart
    BY <1>1, <1>6 DEF GpifStart, SenderInv, Handshake, FramesAgree
  <1> QED
    BY <1>2, <1>3, <1>4, <1>5, <1>6 DEF BufferNext, Gpif

-----------------------------------------------------------------------------
(* The level of the queue *)

LEMMA LateStep ==
    ASSUME BufferInv, BufferNext
    PROVE  /\ late' \in 0 .. LateLimit
           /\ data_available \/ used_words >= PacketWords => late' >= late
           /\ /\ data_available /\ ~ is_reading /\ pins.available /\ late < LateLimit
              /\ gpif \in {"Wait", "Off"} /\ gpif' \in {"Wait", "Off"}
              => late' = late + 1
  <1>1. late' = IF ~ data_available /\ used_words < PacketWords THEN 0
                ELSE IF gpif \in {"Wait", "Off"} /\ gpif' \in {"Wait", "Off"}
                        /\ pins.available /\ ~ is_reading /\ late < LateLimit
                     THEN late + 1 ELSE late
    BY DEF BufferNext, History
  <1> QED
    BY <1>1, Typed, Sizes

LEMMA PacketGivesBack ==
    ASSUME NEW level \in Int, NEW next \in Int, NEW waited \in Nat, NEW waits \in Nat,
           NEW room \in Int, NEW later \in Int,
           next <= level - 1, waits >= waited, later >= room - 1
    PROVE  next + waited + room <= level + waits + later
  OBVIOUS

\* The level may rise by as much as the wait and the allowance do
LEMMA StaysWithin ==
    ASSUME NEW level \in Int, NEW next \in Int, NEW waited \in Nat, NEW waits \in Nat,
           NEW room \in Int, NEW later \in Int, Within(level, waited, room),
           next + waited + room <= level + waits + later
    PROVE  Within(next, waits, later)
  BY Sizes DEF Within

LEMMA AtMost ==
    ASSUME NEW next \in Int, NEW waits \in Nat, NEW later \in Int,
           next <= 2 * PacketWords + later \/ (next <= waits /\ later >= 0)
    PROVE  Within(next, waits, later)
  BY Sizes DEF Within

LEMMA LevelKeeps ==
    ASSUME BufferInv, BufferNext
    PROVE  LevelBounded'
  <1>1. /\ Level \in Int /\ Level' \in Int /\ Level' <= Level + 1
        /\ is_reading /\ used_words > 0 => Level' <= Level - 1
        /\ Within(Level, late, Allowance)
    BY LevelStep DEF BufferInv, BufferNext, LevelBounded
  <1>2. /\ is_reading => data_available /\ word_counter <= PacketWords - 1 /\ used_words > 0
        /\ data_available /\ ~ is_reading => word_counter = 0
        /\ read_data_flag => data_available
    BY Typed, Sizes DEF BufferInv, SenderInv, PromiseIsKept
  <1>3. /\ late \in Nat /\ late' \in Nat
        /\ data_available \/ used_words >= PacketWords => late' >= late
    BY LateStep, Typed, Sizes
  <1>4. ASSUME ~ data_available, used_words < PacketWords PROVE LevelBounded'
    <2>1. ~ data_available'
      BY <1>4, FlagCounts, Typed, Sizes
    <2>2. Allowance' = -1 /\ Level <= 2 * used_words
      BY <2>1, Typed DEF Allowance, Level, Offset
    <2>3. Level' <= 2 * PacketWords - 1
      BY <1>1, <1>4, <2>2, Typed, Sizes
    <2> QED
      BY <1>1, <1>3, <2>2, <2>3, Sizes, AtMost DEF LevelBounded
  <1>5. ASSUME ~ data_available, used_words >= PacketWords PROVE LevelBounded'
    <2>1. data_available' /\ ~ is_reading'
      BY <1>2, <1>5, FlagCounts, SenderCounts, Typed
    <2>2. Allowance = -1 /\ Allowance' \in 0 .. 3
      BY <1>5, <2>1 DEF Allowance
    <2> QED
      BY <1>1, <1>3, <1>5, <2>2, StaysWithin DEF LevelBounded
  <1>6. ASSUME data_available, ~ is_reading PROVE LevelBounded'
    <2>1. data_available' /\ word_counter = 0 /\ word_counter' = 0
      BY <1>2, <1>6, FlagCounts, SenderCounts, Typed
    <2>2. CASE Allowance' >= Allowance + 1 /\ Allowance \in Int /\ Allowance' \in Int
      BY <1>1, <1>3, <1>6, <2>2, StaysWithin DEF LevelBounded
    <2>3. CASE read_data_flag
      <3>1. is_reading'
        BY <1>6, <2>1, <2>3, SenderCounts, Typed
      <3>2. Allowance = 3 /\ Allowance' = 4
        BY <1>6, <2>1, <2>3, <3>1 DEF Allowance
      <3> QED
        BY <2>2, <3>2
    <2>4. CASE ~ read_data_flag
      <3>1. ~ is_reading'
        BY <1>6, <2>4, SenderCounts, Typed
      <3>2. CASE gpif = "Request"
        <4>1. Allowance = 2 /\ Allowance' = 3
          BY <1>6, <2>1, <2>4, <3>1, <3>2, SenderCounts, Typed DEF Allowance
        <4> QED
          BY <2>2, <4>1
      <3>3. CASE gpif # "Request"
        <4>1. ~ read_data_flag'
          BY <3>3, SenderCounts, Typed
        <4>2. Allowance = IF pins.available THEN 1 ELSE 0
          BY <1>6, <2>4, <3>3 DEF Allowance
        <4>3. Allowance' = IF gpif' = "Request" THEN 2 ELSE 1
          BY <1>6, <2>1, <3>1, <4>1, Delayed DEF Allowance
        <4>4. CASE ~ pins.available \/ gpif' = "Request"
          BY <2>2, <4>2, <4>3, <4>4
        <4>5. CASE pins.available /\ gpif' # "Request"
          <5>1. gpif \in {"Wait", "Off"} /\ gpif' \in {"Wait", "Off"}
            <6>1. gpif \in {"Wait", "Off"}
              BY <2>1, <3>3, Typed DEF BufferInv, Handshake
            <6>2. Gpif
              BY DEF BufferNext
            <6> QED
              BY <3>3, <4>5, <6>1, <6>2 DEF Gpif, GpifWait, GpifRequest, GpifRead, GpifStop, GpifStart
          <5>2. CASE late < LateLimit
            <6>1. late' = late + 1
              BY <1>6, <4>5, <5>1, <5>2, LateStep
            <6> QED
              BY <1>1, <1>3, <4>2, <4>3, <4>5, <6>1, StaysWithin DEF LevelBounded
          <5>3. CASE late = LateLimit
            <6>1. late' >= 4 * PacketWords
              BY <1>3, <1>6, <5>3, Sizes
            <6>2. Level' <= 4 * PacketWords
              BY LevelStep, Sizes DEF Level, Offset, BufferInv, BufferNext
            <6> QED
              BY <1>1, <1>3, <4>3, <6>1, <6>2, Sizes, AtMost DEF LevelBounded
          <5> QED
            BY <5>2, <5>3, Typed, Sizes
        <4> QED
          BY <4>4, <4>5, Typed
      <3> QED
        BY <3>2, <3>3
    <2> QED
      BY <2>3, <2>4
  <1>7. ASSUME data_available, is_reading PROVE LevelBounded'
    <2>1. Allowance = 4 - word_counter /\ Level' <= Level - 1
      BY <1>1, <1>2, <1>7 DEF Allowance
    <2>2. CASE word_counter = PacketWords - 1
      <3>1. ~ data_available'
        BY <1>7, <2>2, FlagCounts
      <3>2. Allowance' = -1
        BY <3>1 DEF Allowance
      <3>3. Allowance \in Int /\ Allowance' \in Int /\ Allowance' >= Allowance - 1
        BY <2>1, <2>2, <3>2, Sizes
      <3> QED
        BY <1>1, <1>3, <1>7, <2>1, <3>3, PacketGivesBack, StaysWithin DEF LevelBounded
    <2>3. CASE word_counter # PacketWords - 1
      <3>1. data_available' /\ is_reading' /\ word_counter' = word_counter + 1
        BY <1>7, <2>3, FlagCounts, SenderCounts, Typed
      <3>2. Allowance' = 4 - (word_counter + 1)
        BY <3>1 DEF Allowance
      <3>3. Allowance \in Int /\ Allowance' \in Int /\ Allowance' >= Allowance - 1
        BY <2>1, <3>2, Typed
      <3> QED
        BY <1>1, <1>3, <1>7, <2>1, <3>3, PacketGivesBack, StaysWithin DEF LevelBounded
    <2> QED
      BY <2>2, <2>3
  <1> QED
    BY <1>4, <1>5, <1>6, <1>7, Typed, Sizes

-----------------------------------------------------------------------------
LEMMA TypeStep ==
    ASSUME BufferInv, BufferNext
    PROVE  BufferTypeOK'
  <1> USE Typed, Sizes
  <1>1. tick' \in 0 .. 3 /\ decimate' \in BOOLEAN /\ used_words' \in 0 .. FifoDepth
    BY LevelStep DEF BufferInv, BufferTypeOK, BufferNext, Cadence
  <1>2. data_available' \in BOOLEAN /\ packet_remaining' \in 0 .. PacketWords
    <2>1. SenderInv
      BY DEF BufferInv
    <2> QED
      BY <2>1, FlagCounts DEF SenderInv
  <1>3. buffer_error' \in BOOLEAN /\ error_hold' \in 0 .. ErrorHoldCycles
    <2>1. ErrorFlag
      BY DEF BufferNext
    <2>2. buffer_error' \in BOOLEAN
      BY <2>1 DEF ErrorFlag
    <2>3. error_hold' \in 0 .. ErrorHoldCycles
      BY <2>1 DEF ErrorFlag
    <2> QED
      BY <2>2, <2>3
  <1>4. /\ sm_state' \in {"WaitForRequest", "SendPacket"} /\ read_data_flag' \in BOOLEAN
        /\ word_counter' \in 0 .. PacketWords
    <2>1. is_reading => word_counter <= PacketWords - 1
      BY DEF BufferInv, SenderInv
    <2> QED
      BY <2>1, SenderCounts
  <1>5. gpif' \in {"Wait", "Request", "Read", "Off"} /\ gpif_count' \in 0 .. PacketWords
    <2>1. Gpif /\ Handshake
      BY DEF BufferNext, BufferInv
    <2>2. CASE GpifWait \/ GpifStop \/ GpifStart
      <3>1. gpif_count' = 0
        BY <2>2 DEF GpifWait, GpifStop, GpifStart
      <3>2. gpif' \in {"Wait", "Request", "Read", "Off"}
        BY <2>2 DEF GpifWait, GpifStop, GpifStart
      <3> QED
        BY <3>1, <3>2
    <2>3. CASE GpifRequest
      BY <2>1, <2>3 DEF GpifRequest, RequestCycles, Handshake
    <2>4. CASE GpifRead
      BY <2>1, <2>4 DEF GpifRead, Handshake
    <2> QED
      BY <2>1, <2>2, <2>3, <2>4 DEF Gpif
  <1>6. pins' \in [available : BOOLEAN, reading : BOOLEAN]
    BY DEF BufferNext, Pins, is_reading
  <1>7. late' \in 0 .. LateLimit
    BY LateStep
  <1>8. missed' \in BOOLEAN
    <2>1. overflow \in BOOLEAN
      BY DEF overflow, fifo_full, write_enable
    <2> QED
      BY <2>1 DEF BufferNext, History
  <1> QED
    BY <1>1, <1>2, <1>3, <1>4, <1>5, <1>6, <1>7, <1>8 DEF BufferTypeOK

LEMMA BufferInvariant == BufferSpec => []BufferInv
  <1>1. ASSUME BufferInv, [BufferNext]_bufferVars PROVE BufferInv'
    <2>1. CASE BufferNext
      BY <1>1, <2>1, TypeStep, SenderKeeps, GpifKeeps, LevelKeeps DEF BufferInv
    <2>2. CASE UNCHANGED bufferVars
      BY <1>1, <2>2
         DEF BufferInv, BufferTypeOK, PromiseIsKept, FramesAgree, SenderInv, Handshake,
             LevelBounded, Level, Offset, Allowance, is_reading,
             bufferVars, cadence, promise, error_flag, sender, fx3, history
    <2> QED
      BY <1>1, <2>1, <2>2
  <1> QED
    BY <1>1, BufferStarts, PTL DEF BufferSpec

(***************************************************************************)
(* What buffer.v promises of a packet and of the level of its FIFO: a      *)
(* packet once offered is queued to its last word, the FX3 and the FPGA    *)
(* count the same one, the queue is no more than the overshoot above a     *)
(* packet while none has been late, and nothing is dropped before the      *)
(* grace of half a FIFO is used up.                                        *)
(***************************************************************************)
THEOREM PacketsAlwaysWhole == BufferSpec => []PacketsAreWhole
  <1>1. BufferInv => PacketsAreWhole
    BY BoundIsEnough DEF BufferInv, PacketsAreWhole
  <1> QED
    BY <1>1, BufferInvariant, PTL

-----------------------------------------------------------------------------
(* BufferMonitor *)

(***************************************************************************)
(* CountsAreTrue is not inductive: an account that a saturated counter has *)
(* fallen behind has to stay ahead of it until the next latch (Ahead), the *)
(* burst the account is in is the one the monitor is in, and an interval   *)
(* with a dropped word has seen the queue full.                            *)
(***************************************************************************)
OwedTypeOK ==
    /\ owed.bursts \in 0 .. OwedLimit /\ owed.drops \in 0 .. OwedLimit
    /\ owed.near \in 0 .. OwedLimit /\ owed.words \in Nat
    /\ owed.highest \in 0 .. MonitoredDepth /\ owed.ever \in 0 .. MonitoredDepth
    /\ owed.dropping \in BOOLEAN

Ahead ==
    /\ owed.bursts >= overflow_events /\ owed.drops >= dropped_words
    /\ owed.near >= Prescale * near_full_units + near_full_prescale

SameBurst == owed.dropping = overflow_active

DropsMeanFull == dropped_words > 0 => peak_interval = MonitoredDepth

MonitorInv == CountsAreTrue /\ OwedTypeOK /\ Ahead /\ SameBurst /\ DropsMeanFull

-----------------------------------------------------------------------------
(* Arithmetic *)

LEMMA Product ==
    ASSUME NEW a \in Nat, NEW b \in Nat
    PROVE  /\ a * b \in Nat /\ a * (b + 1) = a * b + a /\ a * 0 = 0 /\ a * 1 = a
           /\ \A c \in Nat : b <= c => a * b <= a * c
  OBVIOUS

LEMMA Below == ASSUME NEW m \in Nat \ {0}, NEW n \in 0 .. m - 1 PROVE n % m = n
  OBVIOUS

\* A counter that wraps, one step on
LEMMA StepsRound ==
    ASSUME NEW m \in Nat \ {0}, NEW n \in 0 .. m - 1
    PROVE  (n + 1) % m = IF n = m - 1 THEN 0 ELSE n + 1
  <1>1. CASE n = m - 1
    <2>1. n + 1 = m /\ m % m = 0
      BY <1>1
    <2> QED
      BY <1>1, <2>1
  <1>2. CASE n # m - 1
    <2>1. n + 1 \in 0 .. m - 1
      BY <1>2
    <2> QED
      BY <1>2, <2>1, Below
  <1> QED
    BY <1>1, <1>2

LEMMA WrapsAround ==
    ASSUME NEW m \in Nat \ {0}, NEW n \in 0 .. m - 1, NEW step \in BOOLEAN
    PROVE  (n + Bit(step)) % m = IF ~ step THEN n ELSE IF n = m - 1 THEN 0 ELSE n + 1
  <1>1. CASE step
    BY <1>1, StepsRound DEF Bit
  <1>2. CASE ~ step
    <2>1. n + Bit(step) = n
      BY <1>2 DEF Bit
    <2> QED
      BY <1>2, <2>1, Below
  <1> QED
    BY <1>1, <1>2

LEMMA Limits ==
    /\ OwedLimit \in Nat /\ OwedLimit > CounterMaximum
    /\ OwedLimit = Prescale * CounterMaximum + Prescale
    /\ CounterMaximum \in Nat \ {0} /\ Prescale \in Nat \ {0} /\ LatchModulus \in Nat \ {0}
    /\ MonitoredDepth \in Nat /\ MonitoredPacket \in Nat \ {0} /\ NearFullWords \in Nat
    /\ WordsModulus \in Nat \ {0}
    /\ WordsModulus = MonitoredPacket * CounterMaximum + MonitoredPacket
  <1>1. /\ CounterMaximum \in Nat \ {0} /\ Prescale \in Nat \ {0} /\ LatchModulus \in Nat \ {0}
        /\ MonitoredDepth \in Nat /\ MonitoredPacket \in Nat \ {0} /\ NearFullWords \in Nat
    BY MonitorAssumption
  <1>2. /\ OwedLimit = Prescale * CounterMaximum + Prescale
        /\ Prescale * CounterMaximum \in Nat
        /\ WordsModulus = MonitoredPacket * CounterMaximum + MonitoredPacket
        /\ MonitoredPacket * CounterMaximum \in Nat
    BY <1>1, Product DEF OwedLimit, WordsModulus
  <1>3. 1 * CounterMaximum = CounterMaximum /\ CounterMaximum * 1 <= CounterMaximum * Prescale
    BY <1>1, Product
  <1>4. CounterMaximum <= Prescale * CounterMaximum
    BY <1>1, <1>3
  <1> QED
    BY <1>1, <1>2, <1>4

-----------------------------------------------------------------------------
(* One counter and its account *)

Settled(latch, account, reported, settled, event) ==
    IF ~ latch THEN Lesser(account + Bit(event), OwedLimit)
    ELSE (IF saturated THEN settled ELSE account - reported) + Bit(event)

\* The counters of bursts and of dropped words
LEMMA OneCounter ==
    ASSUME NEW latch \in BOOLEAN, NEW event \in BOOLEAN, saturated \in BOOLEAN,
           NEW counter \in Counter, NEW account \in 0 .. OwedLimit,
           account >= counter, ~ saturated => account = counter,
           NEW after, after = Saturating(latch, counter, event),
           NEW owes, owes = Settled(latch, account, counter, 0, event)
    PROVE  /\ after \in Counter /\ owes \in 0 .. OwedLimit /\ owes >= after
           /\ latch \/ (~ saturated /\ ~ (event /\ counter = CounterMaximum)) => owes = after
           /\ ~ latch /\ (account > counter \/ (event /\ counter = CounterMaximum)) => owes > after
  <1> USE Limits DEF Saturating, Settled, Lesser, Bit, Counter
  <1>1. CASE latch
    BY <1>1
  <1>2. CASE ~ latch
    BY <1>2
  <1> QED
    BY <1>1, <1>2

\* An account that is ahead of what is shown, a step on
LEMMA StaysAhead ==
    ASSUME NEW shown \in Nat, NEW later \in 0 .. OwedLimit - 1,
           NEW account \in 0 .. OwedLimit, account >= shown,
           NEW happened \in {0, 1}, later <= shown + happened
    PROVE  LET owes == Lesser(account + happened, OwedLimit) IN
           /\ owes \in 0 .. OwedLimit /\ owes >= later
           /\ account = shown /\ later = shown + happened => owes = later
           /\ account > shown \/ later < shown + happened => owes > later
  BY Limits DEF Lesser

\* The near-full units, with the prescaler as their lowest digit, and the account
\* of the samples, after a clock
NearKeeps(latch, sample, units, phase, account) ==
    LET carry == sample /\ phase = Prescale - 1
        after == Saturating(latch, units, carry)
        phased == (phase + Bit(sample)) % Prescale
        owes == Settled(latch, account, Prescale * units, phase, sample)
    IN  /\ after \in Counter /\ phased \in 0 .. Prescale - 1 /\ owes \in 0 .. OwedLimit
        /\ owes >= Prescale * after + phased
        /\ latch \/ (~ saturated /\ ~ (carry /\ units = CounterMaximum))
           => owes = Prescale * after + phased
        /\ ~ latch /\ (account > Prescale * units + phase \/ (carry /\ units = CounterMaximum))
           => owes > Prescale * after + phased

LEMMA NearCounter ==
    ASSUME NEW latch \in BOOLEAN, NEW sample \in BOOLEAN, saturated \in BOOLEAN,
           NEW units \in Counter, NEW phase \in 0 .. Prescale - 1, NEW account \in 0 .. OwedLimit,
           account >= Prescale * units + phase,
           ~ saturated => account = Prescale * units + phase
    PROVE  NearKeeps(latch, sample, units, phase, account)
  <1> DEFINE carry == sample /\ phase = Prescale - 1
             after == Saturating(latch, units, carry)
             phased == (phase + Bit(sample)) % Prescale
             owes == Settled(latch, account, Prescale * units, phase, sample)
  <1>0. /\ carry = (sample /\ phase = Prescale - 1) /\ carry \in BOOLEAN
        /\ after = Saturating(latch, units, carry) /\ phased = (phase + Bit(sample)) % Prescale
        /\ owes = Settled(latch, account, Prescale * units, phase, sample)
    OBVIOUS
  <1> SUFFICES
        /\ after \in Counter /\ phased \in 0 .. Prescale - 1 /\ owes \in 0 .. OwedLimit
        /\ owes >= Prescale * after + phased
        /\ latch \/ (~ saturated /\ ~ (carry /\ units = CounterMaximum))
           => owes = Prescale * after + phased
        /\ ~ latch /\ (account > Prescale * units + phase \/ (carry /\ units = CounterMaximum))
           => owes > Prescale * after + phased
    BY DEF NearKeeps
  <1> HIDE DEF carry, after, phased, owes
  <1>1. /\ OwedLimit = Prescale * CounterMaximum + Prescale
        /\ Prescale \in Nat \ {0} /\ CounterMaximum \in Nat \ {0} /\ OwedLimit \in Nat
        /\ Prescale * CounterMaximum \in Nat
    BY Limits, Product
  <1>2. phased = IF ~ sample THEN phase ELSE IF carry THEN 0 ELSE phase + 1
    BY <1>0, <1>1, WrapsAround
  <1>3. after = IF latch THEN Bit(carry) ELSE IF carry /\ units < CounterMaximum THEN units + 1 ELSE units
    BY <1>0, <1>1 DEF Saturating, Lesser, Bit, Counter
  <1>4. /\ Prescale * units \in Nat /\ Prescale * (units + 1) = Prescale * units + Prescale
        /\ Prescale * units <= Prescale * CounterMaximum
        /\ Prescale * 0 = 0 /\ Prescale * 1 = Prescale
    BY <1>1, Product DEF Counter
  <1>5. CASE latch
    <2>1. Prescale * after = IF carry THEN Prescale ELSE 0
      BY <1>3, <1>4, <1>5 DEF Bit
    <2>2. owes = phase + Bit(sample)
      BY <1>0, <1>1, <1>4, <1>5 DEF Settled
    <2>3. Prescale * after + phased = phase + Bit(sample)
      BY <1>0, <1>1, <1>2, <2>1 DEF Bit
    <2>4. after \in Counter
      <3>1. after = Bit(carry) /\ Bit(carry) \in {0, 1}
        BY <1>0, <1>3, <1>5 DEF Bit
      <3>2. 0 \in Counter /\ 1 \in Counter
        BY <1>1 DEF Counter
      <3> QED
        BY <3>1, <3>2
    <2>8. phased \in 0 .. Prescale - 1
      BY <1>0, <1>1, <1>2
    <2>5. phase + Bit(sample) \in 0 .. Prescale /\ Prescale <= OwedLimit
      BY <1>1 DEF Bit
    <2>6. owes \in 0 .. OwedLimit
      BY <1>1, <2>2, <2>5
    <2>7. owes = Prescale * after + phased /\ owes >= owes
      BY <2>2, <2>3, <2>6
    <2> QED
      BY <1>5, <2>4, <2>6, <2>7, <2>8
  <1>6. CASE ~ latch
    <2> DEFINE shown == Prescale * units + phase
               later == Prescale * after + phased
    <2>1. after \in Counter /\ phased \in 0 .. Prescale - 1
      BY <1>0, <1>1, <1>2, <1>3, <1>6 DEF Counter
    <2>2. Prescale * after \in Nat /\ Prescale * after <= Prescale * CounterMaximum
      BY <1>1, <2>1, Product DEF Counter
    <2>3. shown \in Nat /\ later \in 0 .. OwedLimit - 1
      BY <1>1, <1>4, <2>1, <2>2
    <2>4. later = IF carry /\ units = CounterMaximum THEN shown + 1 - Prescale ELSE shown + Bit(sample)
      <3>1. CASE carry /\ units = CounterMaximum
        BY <1>0, <1>1, <1>2, <1>3, <1>4, <1>6, <3>1
      <3>2. CASE carry /\ units # CounterMaximum
        <4>1. after = units + 1 /\ phased = 0 /\ Bit(sample) = 1
          BY <1>0, <1>1, <1>2, <1>3, <1>6, <3>2 DEF Bit, Counter
        <4> QED
          BY <1>0, <1>1, <1>4, <3>2, <4>1
      <3>3. CASE ~ carry
        BY <1>0, <1>1, <1>2, <1>3, <1>4, <1>6, <3>3 DEF Bit
      <3> QED
        BY <3>1, <3>2, <3>3
    <2>5. owes = Lesser(account + Bit(sample), OwedLimit) /\ Bit(sample) \in {0, 1}
      BY <1>0, <1>6 DEF Settled, Bit
    <2>6. /\ later <= shown + Bit(sample)
          /\ carry /\ units = CounterMaximum => later < shown + Bit(sample)
          /\ ~ (carry /\ units = CounterMaximum) => later = shown + Bit(sample)
      <3> HIDE DEF shown, later
      <3> QED
        BY <1>0, <1>1, <2>3, <2>4 DEF Bit
    <2> HIDE DEF shown, later
    <2>7. /\ owes \in 0 .. OwedLimit /\ owes >= later
          /\ account = shown /\ later = shown + Bit(sample) => owes = later
          /\ account > shown \/ later < shown + Bit(sample) => owes > later
      <3>1. account >= shown
        BY DEF shown
      <3>2. later <= shown + Bit(sample) /\ later \in 0 .. OwedLimit - 1 /\ shown \in Nat
        BY <2>3, <2>6
      <3> HIDE <2>6
      <3> QED
        BY <1>1, <2>5, <3>1, <3>2, StaysAhead
    <2>8. ~ saturated => account = shown
      BY DEF shown
    <2>9. /\ owes >= Prescale * after + phased
          /\ ~ saturated /\ ~ (carry /\ units = CounterMaximum) => owes = Prescale * after + phased
          /\ account > Prescale * units + phase \/ (carry /\ units = CounterMaximum)
             => owes > Prescale * after + phased
      BY <2>6, <2>7, <2>8 DEF shown, later
    <2> QED
      BY <1>6, <2>1, <2>7, <2>9
  <1> QED
    BY <1>5, <1>6

\* The packets, with the position in the packet as their lowest digit, and the
\* account of the words, after a clock
PacketsKeep(latch, reading, packets, position, words) ==
    LET complete == reading /\ position = MonitoredPacket - 1
        after == Wrapping(latch, packets, complete)
        next == (position + Bit(reading)) % MonitoredPacket
        owes == (words - (IF latch THEN MonitoredPacket * packets ELSE 0)
                    + Bit(reading)) % WordsModulus
    IN  /\ after \in Counter /\ next \in 0 .. MonitoredPacket - 1 /\ owes \in Nat
        /\ owes = (MonitoredPacket * after + next) % WordsModulus

LEMMA PacketCounter ==
    ASSUME NEW latch \in BOOLEAN, NEW reading \in BOOLEAN,
           NEW packets \in Counter, NEW position \in 0 .. MonitoredPacket - 1,
           NEW words, words = (MonitoredPacket * packets + position) % WordsModulus
    PROVE  PacketsKeep(latch, reading, packets, position, words)
  <1> DEFINE complete == reading /\ position = MonitoredPacket - 1
             after == Wrapping(latch, packets, complete)
             next == (position + Bit(reading)) % MonitoredPacket
             owes == (words - (IF latch THEN MonitoredPacket * packets ELSE 0)
                         + Bit(reading)) % WordsModulus
  <1>0. /\ complete = (reading /\ position = MonitoredPacket - 1) /\ complete \in BOOLEAN
        /\ after = Wrapping(latch, packets, complete)
        /\ next = (position + Bit(reading)) % MonitoredPacket
        /\ owes = (words - (IF latch THEN MonitoredPacket * packets ELSE 0)
                      + Bit(reading)) % WordsModulus
    OBVIOUS
  <1> HIDE DEF complete, after, next, owes
  <1>1. /\ MonitoredPacket \in Nat \ {0} /\ CounterMaximum \in Nat \ {0} /\ WordsModulus \in Nat \ {0}
        /\ WordsModulus = MonitoredPacket * CounterMaximum + MonitoredPacket
        /\ MonitoredPacket * CounterMaximum \in Nat
    BY Limits, Product
  <1>2. next = IF ~ reading THEN position ELSE IF complete THEN 0 ELSE position + 1
    BY <1>0, <1>1, WrapsAround
  <1>3. after = IF latch THEN Bit(complete)
                ELSE IF ~ complete THEN packets
                ELSE IF packets = CounterMaximum THEN 0 ELSE packets + 1
    <2>1. packets \in 0 .. (CounterMaximum + 1) - 1 /\ CounterMaximum + 1 \in Nat \ {0}
      BY <1>1 DEF Counter
    <2>2. /\ packets % (CounterMaximum + 1) = packets
          /\ (packets + 1) % (CounterMaximum + 1) =
                IF packets = (CounterMaximum + 1) - 1 THEN 0 ELSE packets + 1
      BY <2>1, Below, StepsRound
    <2> QED
      BY <1>0, <1>1, <2>1, <2>2 DEF Wrapping, Bit
  <1>4. /\ MonitoredPacket * packets \in Nat
        /\ MonitoredPacket * (packets + 1) = MonitoredPacket * packets + MonitoredPacket
        /\ MonitoredPacket * packets <= MonitoredPacket * CounterMaximum
        /\ MonitoredPacket * 0 = 0 /\ MonitoredPacket * 1 = MonitoredPacket
    BY <1>1, Product DEF Counter
  <1>5. words = MonitoredPacket * packets + position
    <2>1. MonitoredPacket * packets + position \in 0 .. WordsModulus - 1
      BY <1>1, <1>4
    <2> QED
      BY <1>1, <2>1, Below
  <1>6. after \in Counter /\ next \in 0 .. MonitoredPacket - 1
    BY <1>0, <1>1, <1>2, <1>3 DEF Counter, Bit
  <1>7. owes = (MonitoredPacket * after + next) % WordsModulus
    <2>1. CASE latch
      <3>1. MonitoredPacket * after = IF complete THEN MonitoredPacket ELSE 0
        BY <1>3, <1>4, <2>1 DEF Bit
      <3>2. MonitoredPacket * after + next = position + Bit(reading)
        BY <1>0, <1>1, <1>2, <3>1 DEF Bit
      <3>3. words - MonitoredPacket * packets + Bit(reading) = position + Bit(reading)
        BY <1>4, <1>5
      <3> QED
        BY <1>0, <2>1, <3>2, <3>3
    <2>2. CASE ~ latch /\ ~ (complete /\ packets = CounterMaximum)
      <3>1. MonitoredPacket * after + next = words + Bit(reading)
        BY <1>0, <1>1, <1>2, <1>3, <1>4, <1>5, <2>2 DEF Bit
      <3> QED
        BY <1>0, <1>4, <1>5, <2>2, <3>1 DEF Bit
    <2>3. CASE ~ latch /\ complete /\ packets = CounterMaximum
      <3>1. MonitoredPacket * after + next = 0
        BY <1>0, <1>2, <1>3, <1>4, <2>3
      <3>2. words - 0 + Bit(reading) = WordsModulus
        BY <1>0, <1>1, <1>5, <2>3 DEF Bit
      <3>3. 0 % WordsModulus = 0 /\ WordsModulus % WordsModulus = 0
        BY <1>1, Below
      <3> QED
        BY <1>0, <2>3, <3>1, <3>2, <3>3
    <2> QED
      BY <2>1, <2>2, <2>3
  <1>8. owes \in Nat
    <2>1. MonitoredPacket * after + next \in Nat
      BY <1>1, <1>6, Product DEF Counter
    <2> QED
      BY <1>1, <1>7, <2>1
  <1> QED
    BY <1>6, <1>7, <1>8 DEF complete, after, next, owes, PacketsKeep

-----------------------------------------------------------------------------
(* A clock edge *)

EdgeOf(written, sending, latch) ==
    /\ MonitoredFifo(written, sending)
    /\ MonitorClock(written, sending, latch)
    /\ Latch(latch)
    /\ Account(written, sending, latch)

\* What is lost, and what the interval and the run have met
LEMMA PeaksStep ==
    ASSUME MonitorInv, NEW written \in BOOLEAN, NEW sending \in BOOLEAN,
           NEW latch \in BOOLEAN, EdgeOf(written, sending, latch)
    PROVE  /\ PeaksAreTrue' /\ DropsMeanFull' /\ SameBurst'
           /\ monitored_words' \in 0 .. MonitoredDepth
           /\ peak_interval' \in 0 .. MonitoredDepth /\ peak_lifetime' \in 0 .. MonitoredDepth
           /\ owed.highest' \in 0 .. MonitoredDepth /\ owed.ever' \in 0 .. MonitoredDepth
           /\ owed.dropping' \in BOOLEAN
  <1> DEFINE dropped == written /\ monitored_words = MonitoredDepth
  <1>1. /\ monitored_words \in 0 .. MonitoredDepth /\ MonitoredDepth \in Nat
        /\ peak_interval \in 0 .. MonitoredDepth /\ peak_lifetime \in 0 .. MonitoredDepth
        /\ overflow_active \in BOOLEAN /\ overflow_sticky \in BOOLEAN /\ dropped_words \in Counter
        /\ CounterMaximum \in Nat \ {0}
    BY Limits DEF MonitorInv, CountsAreTrue, MonitorTypeOK
  <1>2. /\ owed.highest = peak_interval /\ owed.ever = peak_lifetime
        /\ owed.dropping = overflow_active
    BY DEF MonitorInv, CountsAreTrue, PeaksAreTrue, SameBurst
  <1>3. /\ peak_interval' = IF latch THEN monitored_words ELSE Greater(monitored_words, peak_interval)
        /\ peak_lifetime' = Greater(monitored_words, peak_lifetime)
        /\ dropped_words' = Saturating(latch, dropped_words, dropped)
        /\ overflow_active' = (dropped \/ (overflow_active /\ ~ written))
        /\ overflow_sticky' = (overflow_sticky \/ dropped)
    BY DEF EdgeOf, MonitorClock, Peaks
  <1>4. /\ owed'.highest = IF latch THEN monitored_words ELSE Greater(owed.highest, monitored_words)
        /\ owed'.ever = Greater(owed.ever, monitored_words)
        /\ owed'.dropping = IF written THEN dropped ELSE owed.dropping
    BY DEF EdgeOf, Account
  <1>5. monitored_words' \in 0 .. MonitoredDepth
    BY <1>1 DEF EdgeOf, MonitoredFifo, Lesser, Bit
  <1>6. /\ peak_interval' \in 0 .. MonitoredDepth /\ peak_lifetime' \in 0 .. MonitoredDepth
        /\ owed'.highest = peak_interval' /\ owed'.ever = peak_lifetime'
    BY <1>1, <1>2, <1>3, <1>4 DEF Greater
  <1>7. owed'.dropping = overflow_active' /\ overflow_active' \in BOOLEAN
    BY <1>1, <1>2, <1>3, <1>4
  <1>8. dropped_words' > 0 => peak_interval' = MonitoredDepth
    BY <1>1, <1>3 DEF Greater, Saturating, Lesser, Bit, Counter, MonitorInv, DropsMeanFull
  <1>9. overflow_sticky' => peak_lifetime' = MonitoredDepth
    BY <1>1, <1>3 DEF Greater, MonitorInv, CountsAreTrue, PeaksAreTrue
  <1>10. shadow'.dropped_words > 0 => shadow'.peak_interval = MonitoredDepth
    BY DEF EdgeOf, Latch, MonitorInv, CountsAreTrue, PeaksAreTrue, DropsMeanFull
  <1> QED
    BY <1>5, <1>6, <1>7, <1>8, <1>9, <1>10 DEF PeaksAreTrue, DropsMeanFull, SameBurst

\* The accounts and the counters that they are settled with
LEMMA CountsStep ==
    ASSUME MonitorInv, NEW written \in BOOLEAN, NEW sending \in BOOLEAN,
           NEW latch \in BOOLEAN, EdgeOf(written, sending, latch)
    PROVE  /\ NothingIsLost' /\ SaturationIsTrue' /\ Ahead' /\ saturated' \in BOOLEAN
           /\ overflow_events' \in Counter /\ dropped_words' \in Counter /\ near_full_units' \in Counter
           /\ near_full_prescale' \in 0 .. Prescale - 1
           /\ owed.bursts' \in 0 .. OwedLimit /\ owed.drops' \in 0 .. OwedLimit
           /\ owed.near' \in 0 .. OwedLimit
  <1> DEFINE drop == written /\ monitored_words = MonitoredDepth
             burst == drop /\ ~ overflow_active
             sample == written /\ monitored_words >= NearFullWords
             carry == sample /\ near_full_prescale = Prescale - 1
             clip == \/ burst /\ overflow_events = CounterMaximum
                     \/ drop /\ dropped_words = CounterMaximum
                     \/ carry /\ near_full_units = CounterMaximum
             shown == Prescale * near_full_units + near_full_prescale
  <1>1. /\ drop \in BOOLEAN /\ burst \in BOOLEAN /\ sample \in BOOLEAN /\ carry \in BOOLEAN
        /\ clip \in BOOLEAN /\ saturated \in BOOLEAN
        /\ overflow_events \in Counter /\ dropped_words \in Counter /\ near_full_units \in Counter
        /\ near_full_prescale \in 0 .. Prescale - 1
        /\ owed.bursts \in 0 .. OwedLimit /\ owed.drops \in 0 .. OwedLimit
        /\ owed.near \in 0 .. OwedLimit
    BY DEF MonitorInv, CountsAreTrue, MonitorTypeOK, OwedTypeOK
  <1>2. /\ owed.bursts >= overflow_events /\ owed.drops >= dropped_words /\ owed.near >= shown
        /\ ~ saturated => /\ owed.bursts = overflow_events /\ owed.drops = dropped_words
                          /\ owed.near = shown
        /\ saturated => \/ owed.bursts > overflow_events \/ owed.drops > dropped_words
                        \/ owed.near > shown
    BY DEF MonitorInv, CountsAreTrue, NothingIsLost, SaturationIsTrue, Ahead
  <1>3. /\ overflow_events' = Saturating(latch, overflow_events, burst)
        /\ dropped_words' = Saturating(latch, dropped_words, drop)
        /\ near_full_units' = Saturating(latch, near_full_units, carry)
        /\ near_full_prescale' = (near_full_prescale + Bit(sample)) % Prescale
        /\ saturated' = (~ latch /\ (saturated \/ clip))
    BY DEF EdgeOf, MonitorClock, Saturation
  <1>4. /\ owed'.bursts = Settled(latch, owed.bursts, overflow_events, 0, burst)
        /\ owed'.drops = Settled(latch, owed.drops, dropped_words, 0, drop)
        /\ owed'.near = Settled(latch, owed.near, Prescale * near_full_units, near_full_prescale,
                               sample)
    BY DEF EdgeOf, Account, Settled, MonitorInv, SameBurst
  <1>5. /\ overflow_events' \in Counter /\ owed'.bursts \in 0 .. OwedLimit
        /\ owed'.bursts >= overflow_events'
        /\ latch \/ (~ saturated /\ ~ clip) => owed'.bursts = overflow_events'
        /\ ~ latch /\ (owed.bursts > overflow_events \/ (burst /\ overflow_events = CounterMaximum))
           => owed'.bursts > overflow_events'
    <2> HIDE DEF burst, drop, carry
    <2> QED
      BY <1>1, <1>2, <1>3, <1>4, OneCounter
  <1>6. /\ dropped_words' \in Counter /\ owed'.drops \in 0 .. OwedLimit
        /\ owed'.drops >= dropped_words'
        /\ latch \/ (~ saturated /\ ~ clip) => owed'.drops = dropped_words'
        /\ ~ latch /\ (owed.drops > dropped_words \/ (drop /\ dropped_words = CounterMaximum))
           => owed'.drops > dropped_words'
    <2> HIDE DEF burst, drop, carry
    <2> QED
      BY <1>1, <1>2, <1>3, <1>4, OneCounter
  <1>7. /\ near_full_units' \in Counter /\ near_full_prescale' \in 0 .. Prescale - 1
        /\ owed'.near \in 0 .. OwedLimit
        /\ owed'.near >= Prescale * near_full_units' + near_full_prescale'
        /\ latch \/ (~ saturated /\ ~ clip)
           => owed'.near = Prescale * near_full_units' + near_full_prescale'
        /\ ~ latch /\ (owed.near > shown \/ (carry /\ near_full_units = CounterMaximum))
           => owed'.near > Prescale * near_full_units' + near_full_prescale'
    <2>1. carry = (sample /\ near_full_prescale = Prescale - 1)
      OBVIOUS
    <2>2. /\ near_full_units \in Counter /\ near_full_prescale \in 0 .. Prescale - 1
          /\ owed.near \in 0 .. OwedLimit /\ saturated \in BOOLEAN /\ sample \in BOOLEAN
          /\ owed.near >= Prescale * near_full_units + near_full_prescale
          /\ ~ saturated => owed.near = Prescale * near_full_units + near_full_prescale
      BY <1>1, <1>2
    <2>3. /\ near_full_units' = Saturating(latch, near_full_units, carry)
          /\ near_full_prescale' = (near_full_prescale + Bit(sample)) % Prescale
          /\ owed'.near = Settled(latch, owed.near, Prescale * near_full_units,
                                 near_full_prescale, sample)
      BY <1>3, <1>4
    <2>4. carry /\ near_full_units = CounterMaximum => clip
      OBVIOUS
    <2> HIDE DEF burst, drop, sample, carry, clip
    <2>5. NearKeeps(latch, sample, near_full_units, near_full_prescale, owed.near)
      BY <2>2, NearCounter
    <2>6. shown = Prescale * near_full_units + near_full_prescale
      OBVIOUS
    <2> HIDE DEF shown
    <2> QED
      BY <2>1, <2>3, <2>4, <2>5, <2>6 DEF NearKeeps
  <1>8. saturated' \in BOOLEAN /\ (~ saturated' => latch \/ (~ saturated /\ ~ clip))
    BY <1>1, <1>3
  <1>9. NothingIsLost'
    BY <1>5, <1>6, <1>7, <1>8 DEF NothingIsLost
  <1>10. SaturationIsTrue'
    BY <1>2, <1>3, <1>5, <1>6, <1>7 DEF SaturationIsTrue
  <1>11. Ahead'
    BY <1>5, <1>6, <1>7 DEF Ahead
  <1> QED
    BY <1>5, <1>6, <1>7, <1>8, <1>9, <1>10, <1>11

LEMMA PacketsStep ==
    ASSUME MonitorInv, NEW written \in BOOLEAN, NEW sending \in BOOLEAN,
           NEW latch \in BOOLEAN, EdgeOf(written, sending, latch)
    PROVE  /\ PacketsAreExact' /\ owed.words' \in Nat /\ packets_read' \in Counter
           /\ packet_word_count' \in 0 .. MonitoredPacket - 1
  <1> DEFINE complete == sending /\ packet_word_count = MonitoredPacket - 1
  <1>1. /\ packets_read \in Counter /\ packet_word_count \in 0 .. MonitoredPacket - 1
        /\ owed.words = (MonitoredPacket * packets_read + packet_word_count) % WordsModulus
    BY DEF MonitorInv, CountsAreTrue, MonitorTypeOK, PacketsAreExact
  <1>2. /\ packets_read' = Wrapping(latch, packets_read, complete)
        /\ packet_word_count' = (packet_word_count + Bit(sending)) % MonitoredPacket
    BY DEF EdgeOf, MonitorClock
  <1>3. owed'.words = (owed.words - (IF latch THEN MonitoredPacket * packets_read ELSE 0)
                         + Bit(sending)) % WordsModulus
    BY DEF EdgeOf, Account
  <1>4. complete = (sending /\ packet_word_count = MonitoredPacket - 1)
    OBVIOUS
  <1> HIDE DEF complete
  <1>5. /\ packets_read' \in Counter /\ packet_word_count' \in 0 .. MonitoredPacket - 1
        /\ owed'.words \in Nat
        /\ owed'.words = (MonitoredPacket * packets_read' + packet_word_count') % WordsModulus
    <2>1. PacketsKeep(latch, sending, packets_read, packet_word_count, owed.words)
      BY <1>1, PacketCounter
    <2> QED
      BY <1>2, <1>3, <1>4, <2>1 DEF PacketsKeep
  <1> QED
    BY <1>5 DEF PacketsAreExact

LEMMA EdgeKeepsMonitor ==
    ASSUME MonitorInv, NEW written \in BOOLEAN, NEW sending \in BOOLEAN,
           NEW latch \in BOOLEAN, EdgeOf(written, sending, latch)
    PROVE  MonitorInv'
  <1>1. MonitorTypeOK
    BY DEF MonitorInv, CountsAreTrue
  <1>2. /\ latch_counter' \in 0 .. LatchModulus - 1
        /\ overflow_active' \in BOOLEAN /\ overflow_sticky' \in BOOLEAN
    <2>1. latch_counter' = (latch_counter + Bit(latch)) % LatchModulus
      BY DEF EdgeOf, MonitorClock
    <2>2. latch_counter' \in 0 .. LatchModulus - 1
      BY <1>1, <2>1, Limits, WrapsAround DEF MonitorTypeOK
    <2> QED
      BY <1>1, <2>2 DEF EdgeOf, MonitorClock, MonitorTypeOK
  <1>3. shadow' \in
        [saturated : BOOLEAN, sticky : BOOLEAN, latch_count : 0 .. LatchModulus - 1,
         used_now : 0 .. MonitoredDepth, peak_interval : 0 .. MonitoredDepth,
         peak_lifetime : 0 .. MonitoredDepth, overflow_events : Counter,
         dropped_words : Counter, packets_read : Counter, near_full_units : Counter]
    <2>1. (latch_counter + 1) % LatchModulus \in 0 .. LatchModulus - 1
      BY <1>1, Limits, StepsRound DEF MonitorTypeOK
    <2> QED
      BY <1>1, <2>1 DEF EdgeOf, Latch, MonitorTypeOK
  <1>4. MonitorTypeOK'
    BY <1>2, <1>3, PeaksStep, CountsStep, PacketsStep DEF MonitorTypeOK
  <1>5. OwedTypeOK'
    BY PeaksStep, CountsStep, PacketsStep DEF OwedTypeOK
  <1> QED
    BY <1>4, <1>5, PeaksStep, CountsStep, PacketsStep DEF MonitorInv, CountsAreTrue

-----------------------------------------------------------------------------
(***************************************************************************)
(* Whatever the FIFO does and whenever the telemetry block is read, no     *)
(* burst, dropped word, packet or near-full sample is lost to the clearing *)
(* of the counters or counted in two intervals, a reading says that it is  *)
(* saturated exactly when a count is short, and every clock's occupancy is *)
(* in the peak of its own interval (bufferMonitor.v:126-128, 176-177).     *)
(***************************************************************************)
THEOREM CountsAlwaysTrue == MonitorSpec => []CountsAreTrue
  <1>1. MonitorInit => MonitorInv
    <2> SUFFICES ASSUME MonitorInit PROVE MonitorInv
      OBVIOUS
    <2>1. /\ 0 \in Counter /\ 0 \in 0 .. MonitoredDepth /\ 0 \in 0 .. MonitoredPacket - 1
          /\ 0 \in 0 .. Prescale - 1 /\ 0 \in 0 .. LatchModulus - 1 /\ 0 \in 0 .. OwedLimit
          /\ ~ (0 > 0)
      BY Limits DEF Counter
    <2>5. MonitorTypeOK
      BY <2>1 DEF MonitorInit, MonitorTypeOK, NothingSampled
    <2>2. OwedTypeOK /\ SameBurst /\ DropsMeanFull
      BY <2>1 DEF MonitorInit, OwedTypeOK, NothingOwed, SameBurst, DropsMeanFull
    <2>3. Prescale * 0 + 0 = 0 /\ MonitoredPacket * 0 + 0 = 0 /\ 0 % WordsModulus = 0
      BY Limits, Product, Below
    <2>4. NothingIsLost /\ SaturationIsTrue /\ PacketsAreExact /\ PeaksAreTrue /\ Ahead
      BY <2>3 DEF MonitorInit, NothingOwed, NothingSampled, NothingIsLost, SaturationIsTrue,
         PacketsAreExact, PeaksAreTrue, Ahead
    <2> QED
      BY <2>2, <2>4, <2>5 DEF MonitorInv, CountsAreTrue
  <1>2. MonitorInv /\ [MonitorNext]_monitorVars => MonitorInv'
    <2> SUFFICES ASSUME MonitorInv, [MonitorNext]_monitorVars PROVE MonitorInv'
      OBVIOUS
    <2>1. CASE MonitorNext
      BY <2>1, EdgeKeepsMonitor DEF MonitorNext, Edge, EdgeOf
    <2>2. CASE UNCHANGED monitorVars
      BY <2>2 DEF monitorVars, peaks, counters, phases, flags, MonitorInv, CountsAreTrue, MonitorTypeOK, OwedTypeOK,
         SameBurst, DropsMeanFull, Ahead, NothingIsLost, SaturationIsTrue, PacketsAreExact,
         PeaksAreTrue
    <2> QED
      BY <2>1, <2>2
  <1>3. MonitorInv => CountsAreTrue
    BY DEF MonitorInv
  <1> QED
    BY <1>1, <1>2, <1>3, PTL DEF MonitorSpec

-----------------------------------------------------------------------------
(* FpgaBoot *)

Before    == {"settle", "unlock", "selectHeader", "headerCommand"}
Commands  == {"headerCommand", "headerData", "imageCommand", "imageData"}
Blocked   == {"selectImage", "imageCommand", "imageData", "imageSettle", "imageCheck",
              "relock", "arm", "handOver"}
States    == Before \cup Commands \cup Blocked \cup {"headerSettle", "headerCheck", "recovery"}

\* The Data writes of the command so far
Issued ==
    CASE boot_state \in {"headerCommand", "imageCommand"} -> byte_index
      [] boot_state \in {"headerData", "imageData"} -> byte_index + 2
      [] OTHER -> 0

LoaderMayWrite(w) ==
    /\ w.to \in {"none", "unlock", "control", "data"}
    /\ w.to \in {"unlock", "data"} => w.data \in Int
    /\ w.to = "control" => w.select \in BOOLEAN

LoaderTyped ==
    /\ boot_state \in States /\ byte_index \in Nat
    /\ boot_state = "settle" => byte_index = 0
    /\ boot_state = "unlock" => byte_index \in 0 .. 3
    /\ boot_state \in {"headerCommand", "imageCommand"} => byte_index \in 0 .. 1
    /\ LoaderMayWrite(boot_window)
    /\ image = "application" => boot_state = "settle"
    /\ header \in Seq(Int) /\ received_byte \in Int
    /\ chip.heard \in Nat /\ chip.at \in Int /\ shift.data \in Int
    /\ boot_state \in Before => header = <<>>
    /\ boot_state = "headerData" =>
         byte_index <= BootBlockBytes /\ Len(header) = (IF byte_index = 0 THEN 0 ELSE byte_index - 1)
    /\ DOMAIN shift = {"left", "data", "by", "nth"}
    /\ reconfigure_hold \in Nat /\ block.asked \in 0 .. ReconfigClocks
    /\ block_busy_sync \in BOOLEAN \X BOOLEAN
    /\ read_timer \in Nat /\ fx3_wait \in 0 .. ShiftClocks

Promised ==
    /\ image_valid => flash.image
    /\ boot_state \in Blocked => flash.block
    /\ boot_state \in {"arm", "handOver"} => image_valid
    /\ boot_state = "handOver" => armed

ParametersIn ==
    /\ armed => writing > Len(Parameters)
    /\ \A k \in 1 .. Len(Parameters) :
          (k < writing \/ (k = writing /\ (~write_pending \/ block.busy > 0)))
              => Parameters[k] \in block.set
    /\ block.set \subseteq {Parameters[k] : k \in 1 .. Len(Parameters)}
    /\ writing \notin 1 .. Len(Parameters) => ~write_pending
    /\ writing = 0 => block.busy = 0 /\ ~block_busy_sync[1] /\ ~block_busy_sync[2]
    /\ ~write_pending =>
         /\ block.busy > 0 => block_busy_sync[1]
         /\ block_busy_sync[1] => block_busy_sync[2]
    /\ write_pending =>
         \/ block.busy = 0 /\ ~block_busy_sync[1] /\ ~block_busy_sync[2]
         \/ block.busy > 0 /\ block.phase = 1 /\ ~block_busy_sync[1] /\ ~block_busy_sync[2]
         \/ block.busy > 0 /\ block.phase = 2 /\ block_busy_sync[1] /\ ~block_busy_sync[2]
         \/ block.busy > 0 /\ block.phase = 3 /\ block_busy_sync[1] /\ block_busy_sync[2]

LoaderOwns ==
    boot_active =>
    /\ reconfigure_hold = 0 /\ block.asked = 0
    /\ boot_state = "arm" =>
         \/ boot_window.to = "none" /\ ~unlocked /\ unlock_progress = 0
         \/ boot_window = Relock
    /\ boot_window.to = "data" => shift_started /\ ~bridge_busy /\ boot_state \in Commands
                                  /\ boot_window.nth = Issued
    /\ bridge_busy => boot_window.to = "none" /\ boot_state \in Commands /\ chip_select_asserted
    /\ boot_state \in {"headerCheck", "imageCheck", "relock"} => boot_window.to = "none"
    /\ boot_window.to = "control" =>
         IF boot_state \in {"headerSettle", "imageSettle"} THEN ~boot_window.select
         ELSE /\ boot_window.select /\ boot_state \in {"headerCommand", "imageCommand"}
              /\ byte_index = 0
    /\ boot_state \in {"headerSettle", "imageSettle"} => boot_window.to = "control"
    /\ chip_select_asserted =>
         /\ unlocked
         /\ \/ boot_state \in {"headerSettle", "imageSettle"}
            \/ /\ boot_state \in Commands
               /\ IF bridge_busy THEN shift.nth = Issued /\ chip.heard + 1 = Issued
                  ELSE IF boot_window.to = "data" THEN chip.heard + 1 = Issued
                  ELSE chip.heard = Issued

\* The Data writes of the firmware's command so far; Selecting, while it has one
Sent ==
    CASE fx3_step \in {6, 9, 13} -> 1 [] fx3_step \in {10, 14} -> 2 [] OTHER -> 0
Selecting == fx3_step \in {5, 6, 8, 9, 10, 12, 13, 14}

Fx3Owns ==
    ~boot_active =>
    /\ shift.left <= fx3_wait
    /\ chip_select_asserted =>
         /\ unlocked /\ Selecting
         /\ IF bridge_busy THEN shift.nth = Sent /\ chip.heard + 1 = Sent
            ELSE chip.heard = Sent

HandingOver ==
    HandsOver =>
    /\ ~unlocked
    /\ \/ reconfigure_hold = 0 /\ block.asked = 0 /\ unlock_progress = 0
       \/ /\ reconfigure_hold = HoldClocks
          /\ unlock_progress > 0 =>
               block.asked + 1 >= (unlock_progress - 1) * (ShiftClocks + 1)
                                  + 1 + (ShiftClocks - fx3_wait)

BootInv == /\ BootTypeOK /\ LoaderTyped /\ Promised /\ ParametersIn
           /\ LoaderOwns /\ Fx3Owns /\ HandingOver

-----------------------------------------------------------------------------
(* The bridge *)

LEMMA TheSequence ==
    /\ Len(UnlockSequence) = 4 /\ Len(Parameters) = 5
    /\ \A k \in 1 .. 4 : UnlockSequence[k] \in Int /\ UnlockSequence[k] # 0
  BY DEF UnlockSequence, Parameters

\* What a clock of the bridge does, whoever writes
LEMMA BridgeStep ==
    ASSUME BootTypeOK, LoaderTyped, NEW w, Bridge(w), chip_select_asserted => unlocked,
           w.to = "unlock" => w.data \in Int, w.to = "control" => w.select \in BOOLEAN,
           w.to = "data" => w.data \in Int
    PROVE  /\ unlock_progress' \in 0 .. 3 /\ unlocked' \in BOOLEAN
           /\ w.to # "unlock" => UNCHANGED <<unlock_progress, unlocked>>
           /\ w.to = "unlock" => chip_select_asserted' = FALSE /\ unlock_progress' <= unlock_progress + 1
           /\ w.to = "unlock" /\ unlocked' => unlock_progress = 3
           /\ w = Relock => unlock_progress' = 0 /\ ~unlocked'
           /\ chip_select_asserted' \in BOOLEAN /\ (chip_select_asserted' => unlocked')
           /\ w.to \in {"none", "data", "reconfigure"} => UNCHANGED chip_select_asserted
           /\ w.to = "control" => chip_select_asserted' = (IF unlocked THEN w.select ELSE chip_select_asserted)
           /\ received_byte' \in Int
  <1> USE BootAssumption
  <1>1. /\ unlock_progress \in 0 .. 3 /\ unlocked \in BOOLEAN /\ chip_select_asserted \in BOOLEAN
        /\ shift.left \in 0 .. ShiftClocks
    BY TheSequence DEF BootTypeOK
  <1>2. CASE w.to = "unlock"
    <2>1. /\ unlock_progress' = IF w.data = UnlockSequence[unlock_progress + 1]
                                THEN (unlock_progress + 1) % 4 ELSE 0
          /\ unlocked' = (w.data = UnlockSequence[unlock_progress + 1] /\ unlock_progress = 3)
      BY <1>2, TheSequence DEF Bridge, Lock
    <2>2. unlock_progress' \in 0 .. 3 /\ unlock_progress' <= unlock_progress + 1
      BY <1>1, <2>1
    <2>3. w = Relock => unlock_progress' = 0 /\ ~unlocked'
      <3>1. w = Relock => w.data = 0
        BY DEF Relock, Unlock
      <3>2. UnlockSequence[unlock_progress + 1] # 0
        BY <1>1, TheSequence
      <3> QED
        BY <2>1, <3>1, <3>2
    <2>4. chip_select_asserted' = FALSE
      BY <1>2 DEF Bridge, ChipSelect
    <2>5. unlocked' \in BOOLEAN /\ (unlocked' => unlock_progress = 3)
      BY <2>1
    <2>6. received_byte' \in Int
      BY <1>1 DEF Bridge, Shift, LoaderTyped, Noise
    <2> QED
      BY <1>2, <2>2, <2>3, <2>4, <2>5, <2>6
  <1>3. CASE w.to # "unlock"
    <2>1. UNCHANGED <<unlock_progress, unlocked>>
      BY <1>3 DEF Bridge, Lock
    <2>2. chip_select_asserted' = (IF w.to = "control" /\ unlocked THEN w.select ELSE chip_select_asserted)
      BY <1>3 DEF Bridge, ChipSelect
    <2>3. w # Relock
      BY <1>3 DEF Relock, Unlock
    <2>4. received_byte' \in Int
      BY <1>1 DEF Bridge, Shift, LoaderTyped, Noise
    <2> QED
      BY <1>1, <1>3, <2>1, <2>2, <2>3, <2>4
  <1> QED
    BY <1>2, <1>3

\* A byte is shifted, and heard when its last bit is
LEMMA ShiftStep ==
    ASSUME BootTypeOK, LoaderTyped, NEW w, Bridge(w), chip_select_asserted => unlocked,
           w.to = "data" => w.data \in Int
    PROVE  /\ DOMAIN shift' = {"left", "data", "by", "nth"} /\ shift'.data \in Int
           /\ shift'.left \in 0 .. ShiftClocks /\ chip'.heard \in Nat /\ chip'.at \in Int
           /\ bridge_busy => shift'.left = shift.left - 1 /\ shift'.nth = shift.nth
           /\ ~bridge_busy /\ w.to = "data" /\ chip_select_asserted =>
                shift'.left = ShiftClocks /\ shift'.nth = w.nth
           /\ ~bridge_busy /\ (w.to # "data" \/ ~chip_select_asserted) => shift' = shift
           /\ ~chip_select_asserted => chip'.heard = 0
           /\ chip_select_asserted =>
                chip'.heard = (IF shift.left = 1 THEN chip.heard + 1 ELSE chip.heard)
  <1> USE BootAssumption
  <1>1. /\ unlocked \in BOOLEAN /\ chip_select_asserted \in BOOLEAN
        /\ shift.left \in 0 .. ShiftClocks /\ bridge_busy \in BOOLEAN
        /\ DOMAIN shift = {"left", "data", "by", "nth"} /\ shift.data \in Int
    BY DEF BootTypeOK, LoaderTyped, bridge_busy
  <1>2. start_shift(w) <=> w.to = "data" /\ chip_select_asserted /\ ~bridge_busy
    BY DEF start_shift
  <1>3. CASE start_shift(w)
    <2>0. ~bridge_busy /\ shift.left = 0
      BY <1>1, <1>2, <1>3 DEF bridge_busy
    <2>1. shift' = [left |-> ShiftClocks, data |-> w.data, by |-> w.by, nth |-> w.nth]
      BY <1>3, <2>0 DEF Bridge, Shift
    <2> QED
      <3>1. /\ shift'.left = ShiftClocks /\ shift'.nth = w.nth /\ shift'.data = w.data
            /\ DOMAIN shift' = {"left", "data", "by", "nth"}
        BY <2>1
      <3>2. /\ chip'.heard \in Nat /\ chip'.at \in Int
            /\ chip'.heard = chip.heard
        <4>1. chip' = chip
          BY <1>2, <1>3, <2>0 DEF Bridge, Shift
        <4> QED
          BY <4>1 DEF LoaderTyped
      <3>3. shift.left # 1
        BY <2>0
      <3> QED
        BY <1>1, <1>2, <1>3, <3>1, <3>2, <3>3
  <1>4. CASE ~start_shift(w)
    <2>1. shift' = IF bridge_busy THEN [shift EXCEPT !.left = @ - 1] ELSE shift
      BY <1>4 DEF Bridge, Shift
    <2>2. bridge_busy => shift.left \in 1 .. ShiftClocks
      BY <1>1 DEF bridge_busy
    <2>3. /\ DOMAIN shift' = {"left", "data", "by", "nth"} /\ shift'.data \in Int
          /\ shift'.left \in 0 .. ShiftClocks
          /\ bridge_busy => shift'.left = shift.left - 1 /\ shift'.nth = shift.nth
          /\ ~bridge_busy => shift' = shift
      <3>1. CASE bridge_busy
        BY <1>1, <2>1, <2>2, <3>1
      <3>2. CASE ~bridge_busy
        BY <1>1, <2>1, <3>2
      <3> QED
        BY <1>1, <3>1, <3>2
    <2>4. chip' = IF ~chip_select_asserted THEN Unselected
                  ELSE IF shift.left = 1 THEN Hears ELSE chip
      BY DEF Bridge, Shift
    <2>5. /\ Unselected.heard = 0 /\ Unselected.at \in Int
          /\ Hears.heard = chip.heard + 1 /\ Hears.at \in Int
      <3>1. chip.at + 1 \in Int /\ FlashSize \in Nat /\ FlashSize > 0
        BY DEF LoaderTyped
      <3>2. (chip.at + 1) % FlashSize \in Int
        BY <3>1
      <3> QED
        BY <1>1, <3>2 DEF Unselected, Hears, Noise
    <2>6. CASE ~chip_select_asserted
      BY <1>1, <1>2, <1>4, <2>3, <2>4, <2>5, <2>6
    <2>7. CASE chip_select_asserted
      <3>1. chip' = IF shift.left = 1 THEN Hears ELSE chip
        BY <2>4, <2>7
      <3>2. chip'.heard = (IF shift.left = 1 THEN chip.heard + 1 ELSE chip.heard)
            /\ chip'.heard \in Nat /\ chip'.at \in Int
        BY <2>5, <3>1 DEF LoaderTyped
      <3> QED
        BY <1>1, <1>2, <1>4, <2>3, <2>7, <3>2
    <2> QED
      BY <1>1, <2>6, <2>7
  <1> QED
    BY <1>3, <1>4

-----------------------------------------------------------------------------
(* The firmware *)

\* The operation on the flash, write by write
LEMMA OperationIs ==
    /\ Len(Operation) = 17
    /\ \A k \in 1 .. 4 : Operation[k] = Unlock(UnlockSequence[k])
    /\ \A k \in {5, 8, 12} : Operation[k] = Control(TRUE)
    /\ \A k \in {7, 11, 15, 16} : Operation[k] = Control(FALSE)
    /\ \A k \in {6, 9, 13} : \E b \in Int : Operation[k] = Data(b, "fx3", 1)
    /\ \A k \in {10, 14} : \E b \in Int : Operation[k] = Data(b, "fx3", 2)
    /\ Operation[17] = Relock
  <1> DEFINE first == [k \in 1 .. 4 |-> Unlock(UnlockSequence[k])]
             rest == <<Control(TRUE), Data(6, "fx3", 1), Control(FALSE),
                       Control(TRUE), Data(216, "fx3", 1), Data(0, "fx3", 2), Control(FALSE),
                       Control(TRUE), Data(5, "fx3", 1), Data(255, "fx3", 2), Control(FALSE),
                       Control(FALSE), Relock>>
             all == {first[k] : k \in 1 .. 4} \cup {rest[k] : k \in 1 .. 13}
  <1>1. Operation = first \o rest
    BY DEF Operation
  <1>2. /\ Len(rest) = 13 /\ DOMAIN rest = 1 .. 13
        /\ rest[1] = Control(TRUE) /\ rest[2] = Data(6, "fx3", 1) /\ rest[3] = Control(FALSE)
        /\ rest[4] = Control(TRUE) /\ rest[5] = Data(216, "fx3", 1) /\ rest[6] = Data(0, "fx3", 2)
        /\ rest[7] = Control(FALSE) /\ rest[8] = Control(TRUE) /\ rest[9] = Data(5, "fx3", 1)
        /\ rest[10] = Data(255, "fx3", 2) /\ rest[11] = Control(FALSE)
        /\ rest[12] = Control(FALSE) /\ rest[13] = Relock
    OBVIOUS
  <1>3. first \in Seq(all) /\ Len(first) = 4
    OBVIOUS
  <1>4. rest = [k \in 1 .. 13 |-> rest[k]]
    OBVIOUS
  <1> HIDE DEF rest
  <1>5. rest \in Seq(all)
    BY <1>4
  <1> HIDE DEF first, all
  <1>6. /\ Len(first \o rest) = 17
        /\ \A k \in 1 .. 17 : (first \o rest)[k] = IF k <= 4 THEN first[k] ELSE rest[k - 4]
    <2>1. /\ Len(first \o rest) = Len(first) + Len(rest)
          /\ \A k \in 1 .. Len(first) + Len(rest) :
                (first \o rest)[k] = IF k <= Len(first) THEN first[k] ELSE rest[k - Len(first)]
      BY <1>3, <1>5, ConcatProperties
    <2>2. Len(first) = 4 /\ Len(rest) = 13 /\ 4 + 13 = 17
      BY <1>2, <1>3
    <2> QED
      BY <2>1, <2>2
  <1>7. \A k \in 1 .. 4 : Operation[k] = Unlock(UnlockSequence[k])
    BY <1>1, <1>6 DEF first
  <1>8. \A k \in 5 .. 17 : Operation[k] = rest[k - 4]
    <2> SUFFICES ASSUME NEW k \in 5 .. 17
                 PROVE  Operation[k] = rest[k - 4]
      OBVIOUS
    <2>1. k \in 1 .. 17 /\ ~(k <= 4)
      OBVIOUS
    <2> QED
      BY <1>1, <1>6, <2>1
  <1>9. /\ Operation[5] = Control(TRUE) /\ Operation[8] = Control(TRUE)
        /\ Operation[12] = Control(TRUE) /\ Operation[7] = Control(FALSE)
        /\ Operation[11] = Control(FALSE) /\ Operation[15] = Control(FALSE)
        /\ Operation[16] = Control(FALSE) /\ Operation[17] = Relock
    <2>1. /\ Operation[5] = rest[1] /\ Operation[8] = rest[4] /\ Operation[12] = rest[8]
          /\ Operation[7] = rest[3] /\ Operation[11] = rest[7] /\ Operation[15] = rest[11]
          /\ Operation[16] = rest[12] /\ Operation[17] = rest[13]
      BY <1>8
    <2> QED
      BY <1>2, <2>1, Zenon
  <1>10. /\ Operation[6] = Data(6, "fx3", 1) /\ Operation[9] = Data(216, "fx3", 1)
         /\ Operation[13] = Data(5, "fx3", 1) /\ Operation[10] = Data(0, "fx3", 2)
         /\ Operation[14] = Data(255, "fx3", 2)
    BY <1>2, <1>8
  <1>11. Len(Operation) = 17
    BY <1>1, <1>6
  <1>12. /\ \A k \in {5, 8, 12} : Operation[k] = Control(TRUE)
         /\ \A k \in {7, 11, 15, 16} : Operation[k] = Control(FALSE)
    BY <1>9, Zenon
  <1>13. /\ \A k \in {6, 9, 13} : \E b \in Int : Operation[k] = Data(b, "fx3", 1)
         /\ \A k \in {10, 14} : \E b \in Int : Operation[k] = Data(b, "fx3", 2)
    BY <1>10
  <1> QED
    BY <1>7, <1>9, <1>11, <1>12, <1>13, Zenon

\* What the firmware may write, and where that leaves it
LEMMA FirmwareWrites ==
    ASSUME BootTypeOK, LoaderTyped, NEW w, Firmware(w)
    PROVE  /\ fx3_step' \in 0 .. 16 /\ fx3_wait' \in 0 .. ShiftClocks /\ triggers' \in 0 .. MaxTriggers
           /\ w.to \in {"none", "reconfigure", "unlock", "control", "data"}
           /\ \/ /\ w.to = "none" /\ fx3_step' = fx3_step
                 /\ fx3_wait' = (IF fx3_wait > 0 THEN fx3_wait - 1 ELSE 0)
              \/ /\ w.to = "reconfigure" /\ fx3_step = 0 /\ fx3_step' = 0
                 /\ fx3_wait = 0 /\ fx3_wait' = ShiftClocks
              \/ /\ w.to \in {"unlock", "control", "data"}
                 /\ fx3_step' = (IF fx3_step = 16 THEN 0 ELSE fx3_step + 1)
                 /\ fx3_wait = 0 /\ fx3_wait' = ShiftClocks
           /\ w.to = "unlock" => w.data \in Int
           /\ w.to = "control" => \/ w.select = TRUE /\ fx3_step \in {4, 7, 11}
                                  \/ w.select = FALSE /\ fx3_step \in {6, 10, 14, 15}
           /\ w.to = "data" => /\ w.data \in Int /\ fx3_step \in {5, 8, 9, 12, 13}
                               /\ w.nth = (IF fx3_step \in {9, 13} THEN 2 ELSE 1)
  <1> USE BootAssumption, OperationIs
  <1>1. fx3_step \in 0 .. 16 /\ fx3_wait \in 0 .. ShiftClocks /\ triggers \in 0 .. MaxTriggers
    BY DEF BootTypeOK, LoaderTyped
  <1>2. CASE Silent(w)
    BY <1>1, <1>2 DEF Silent, NoWrite
  <1>3. CASE Triggers(w)
    BY <1>1, <1>3 DEF Triggers, Trigger, Paused
  <1>4. CASE Writes(w)
    <2>1. /\ fx3_wait = 0 /\ fx3_wait' = ShiftClocks /\ UNCHANGED triggers
          /\ fx3_step' = (fx3_step + 1) % 17 /\ w = Operation[fx3_step + 1]
      BY <1>4 DEF Writes, Paused
    <2>2. fx3_step' = (IF fx3_step = 16 THEN 0 ELSE fx3_step + 1)
      BY <1>1, <2>1
    <2>3. CASE fx3_step \in {0, 1, 2, 3, 16}
      <3>1. \E b \in Int : w = Unlock(b)
        BY <2>1, <2>3, TheSequence DEF Relock
      <3>2. w.to = "unlock" /\ w.data \in Int
        BY <3>1 DEF Unlock
      <3> QED
        BY <1>1, <2>1, <2>2, <3>2
    <2>4. CASE fx3_step \in {4, 7, 11}
      <3>1. w.to = "control" /\ w.select = TRUE
        BY <2>1, <2>4 DEF Control
      <3> QED
        BY <1>1, <2>1, <2>2, <2>4, <3>1
    <2>5. CASE fx3_step \in {6, 10, 14, 15}
      <3>1. w.to = "control" /\ w.select = FALSE
        BY <2>1, <2>5 DEF Control
      <3> QED
        BY <1>1, <2>1, <2>2, <2>5, <3>1
    <2>6. CASE fx3_step \in {5, 8, 12}
      <3>1. w.to = "data" /\ w.data \in Int /\ w.nth = 1
        BY <2>1, <2>6 DEF Data
      <3> QED
        BY <1>1, <2>1, <2>2, <2>6, <3>1
    <2>7. CASE fx3_step \in {9, 13}
      <3>1. w.to = "data" /\ w.data \in Int /\ w.nth = 2
        BY <2>1, <2>7 DEF Data
      <3> QED
        BY <1>1, <2>1, <2>2, <2>7, <3>1
    <2>8. \/ fx3_step \in {0, 1, 2, 3, 16} \/ fx3_step \in {4, 7, 11}
          \/ fx3_step \in {6, 10, 14, 15} \/ fx3_step \in {5, 8, 12} \/ fx3_step \in {9, 13}
      BY <1>1
    <2> QED
      BY <2>3, <2>4, <2>5, <2>6, <2>7, <2>8, Zenon
  <1> QED
    BY <1>2, <1>3, <1>4 DEF Firmware

-----------------------------------------------------------------------------
(* The remote update block *)

LEMMA BlockStep ==
    ASSUME BootTypeOK, LoaderTyped, NEW w, RemoteUpdate(w)
    PROVE  /\ reconfigure_hold' = IF reconfigure_now(w) THEN HoldClocks
                                  ELSE IF reconfigure_hold > 0 THEN reconfigure_hold - 1 ELSE 0
           /\ block'.asked = IF reconfigure_hold = 0 THEN 0
                             ELSE IF block.asked < ReconfigClocks THEN block.asked + 1
                             ELSE block.asked
           /\ reconfigure_hold' \in Nat /\ block'.asked \in 0 .. ReconfigClocks
           /\ block_busy_sync' \in BOOLEAN \X BOOLEAN
           /\ block_busy_sync'[1] <=> block.busy > 0
           /\ block_busy_sync'[2] <=> block_busy_sync[1]
           /\ block'.phase = (IF block.phase = 3 THEN 0 ELSE block.phase + 1)
           /\ IF block.phase = 0 /\ write_pending /\ block.busy = 0
              THEN block'.busy \in 1 .. 2 /\ block'.set = block.set \cup {Parameters[writing]}
              ELSE /\ block'.set = block.set /\ block'.busy \in 0 .. 2
                   /\ block.busy = 0 => block'.busy = 0
                   /\ block.phase # 0 => block'.busy = block.busy
  <1> USE BootAssumption
  <1>1. /\ block.phase \in 0 .. 3 /\ block.busy \in 0 .. 2 /\ write_pending \in BOOLEAN
        /\ block.asked \in 0 .. ReconfigClocks /\ reconfigure_hold \in Nat
    BY DEF BootTypeOK, LoaderTyped
  <1>2. /\ reconfigure_hold' = IF reconfigure_now(w) THEN HoldClocks
                               ELSE IF reconfigure_hold > 0 THEN reconfigure_hold - 1 ELSE 0
    BY DEF RemoteUpdate, Requests
  <1>3. reconfigure_hold' \in Nat
    BY <1>1, <1>2
  <1>4. PICK clocks \in 1 .. 2 :
            block' = [phase |-> (block.phase + 1) % 4,
                 busy |-> CASE BlockEdge /\ write_pending /\ block.busy = 0 -> clocks
                            [] BlockEdge /\ block.busy > 0 -> block.busy - 1
                            [] OTHER -> block.busy,
                 set |-> IF BlockEdge /\ write_pending /\ block.busy = 0
                         THEN block.set \cup {Parameters[writing]} ELSE block.set,
                 asked |-> IF reconfigure_hold = 0 THEN 0
                           ELSE IF block.asked < ReconfigClocks THEN block.asked + 1
                           ELSE block.asked]
    BY DEF RemoteUpdate, Block
  <1>5. block'.phase = (IF block.phase = 3 THEN 0 ELSE block.phase + 1)
    BY <1>1, <1>4
  <1>6. /\ block'.asked = IF reconfigure_hold = 0 THEN 0
                          ELSE IF block.asked < ReconfigClocks THEN block.asked + 1
                          ELSE block.asked
        /\ block'.asked \in 0 .. ReconfigClocks
    BY <1>1, <1>4
  <1>7. block_busy_sync' = <<block.busy > 0, block_busy_sync[1]>>
    BY DEF RemoteUpdate, Block
  <1>8. /\ block_busy_sync' \in BOOLEAN \X BOOLEAN
        /\ block_busy_sync'[1] <=> block.busy > 0
        /\ block_busy_sync'[2] <=> block_busy_sync[1]
    <2>1. block_busy_sync[1] \in BOOLEAN
      BY DEF LoaderTyped
    <2> DEFINE b == block.busy > 0
    <2>2. b \in BOOLEAN
      OBVIOUS
    <2>3. block_busy_sync' = <<b, block_busy_sync[1]>>
      BY <1>7
    <2> HIDE DEF b
    <2>4. block_busy_sync'[1] = b /\ block_busy_sync'[2] = block_busy_sync[1]
      BY <2>3
    <2>5. block_busy_sync' \in BOOLEAN \X BOOLEAN
      BY <2>1, <2>2, <2>3
    <2>6. block_busy_sync'[1] <=> b
      BY <2>4, Zenon
    <2>7. block_busy_sync'[2] <=> block_busy_sync[1]
      BY <2>4, Zenon
    <2> QED
      BY <2>5, <2>6, <2>7 DEF b
  <1>9. CASE block.phase = 0 /\ write_pending /\ block.busy = 0
    <2>1. block'.busy = clocks /\ block'.set = block.set \cup {Parameters[writing]}
      BY <1>4, <1>9 DEF BlockEdge
    <2> QED
      BY <1>2, <1>3, <1>5, <1>6, <1>8, <1>9, <2>1
  <1>10. CASE ~(block.phase = 0 /\ write_pending /\ block.busy = 0)
    <2>1. /\ block'.busy = IF block.phase = 0 /\ block.busy > 0 THEN block.busy - 1 ELSE block.busy
          /\ block'.set = block.set
      BY <1>1, <1>4, <1>10 DEF BlockEdge
    <2> QED
      BY <1>1, <1>2, <1>3, <1>5, <1>6, <1>8, <1>10, <2>1
  <1> QED
    BY <1>9, <1>10

LEMMA ParametersStep ==
    ASSUME BootTypeOK, LoaderTyped, ParametersIn, NEW w, RemoteUpdate(w)
    PROVE  /\ ParametersIn' /\ writing' \in 0 .. 6 /\ write_pending' \in BOOLEAN
           /\ armed' \in BOOLEAN /\ read_timer' \in Nat
           /\ (armed => armed')
  <1> USE BootAssumption, TheSequence
  <1>1. /\ block.phase \in 0 .. 3 /\ block.busy \in 0 .. 2 /\ write_pending \in BOOLEAN
        /\ writing \in 0 .. 6 /\ armed \in BOOLEAN /\ read_timer \in Nat
        /\ block_busy_sync[1] \in BOOLEAN /\ block_busy_sync[2] \in BOOLEAN
    BY DEF BootTypeOK, LoaderTyped
  <1>2. \/ /\ write_pending' /\ ~write_pending /\ ~block_busy_sync[2]
           /\ writing' = writing + 1 /\ writing < 5 /\ (armed' <=> armed) /\ read_timer' \in Nat
        \/ /\ ~write_pending' /\ ~write_pending /\ ~block_busy_sync[2]
           /\ writing = 5 /\ writing' = 6 /\ (armed' <=> armed) /\ read_timer' \in Nat
        \/ /\ (write_pending' <=> write_pending) /\ writing = 6 /\ writing' = 6
           /\ read_timer' \in Nat /\ (armed => armed')
        \/ /\ (write_pending' <=> write_pending /\ ~block_busy_sync[2]) /\ writing' = writing
           /\ writing < 6 /\ (armed' <=> armed) /\ read_timer' \in Nat
    <2>1. CASE /\ writing = 0 /\ boot_state = "arm"
               /\ Issue(1) /\ UNCHANGED <<read_timer, armed>>
      <3>1. ~block_busy_sync[2] /\ ~write_pending
        BY <1>1, <2>1 DEF ParametersIn
      <3>2. write_pending' /\ (armed' <=> armed)
        BY <2>1 DEF Issue
      <3>3. writing' = writing + 1 /\ writing < 5 /\ read_timer' \in Nat
        BY <1>1, <2>1 DEF Issue
      <3> QED
        BY <3>1, <3>2, <3>3
    <2>2. CASE /\ writing \in 1 .. Len(Parameters) - 1 /\ block_idle
               /\ Issue(writing + 1) /\ UNCHANGED <<read_timer, armed>>
      <3>1. ~block_busy_sync[2] /\ ~write_pending
        BY <2>2 DEF block_idle, block_busy
      <3>2. write_pending' /\ (armed' <=> armed)
        BY <2>2 DEF Issue
      <3>3. writing' = writing + 1 /\ writing < 5 /\ read_timer' \in Nat
        BY <1>1, <2>2 DEF Issue
      <3> QED
        BY <3>1, <3>2, <3>3
    <2>3. CASE /\ writing = Len(Parameters) /\ block_idle
               /\ writing' = writing + 1 /\ read_timer' = ReadClocks /\ UNCHANGED <<write_pending, armed>>
      <3>1. ~block_busy_sync[2] /\ ~write_pending /\ ~write_pending' /\ (armed' <=> armed)
        BY <2>3 DEF block_idle, block_busy
      <3>2. writing = 5 /\ writing' = 6 /\ read_timer' \in Nat
        BY <2>3
      <3> QED
        BY <3>1, <3>2
    <2>4. CASE /\ writing > Len(Parameters)
               /\ read_timer' = (IF read_timer > 0 THEN read_timer - 1 ELSE 0)
               /\ armed' = (armed \/ read_timer = 0) /\ UNCHANGED <<writing, write_pending>>
      <3>1. writing = 6 /\ read_timer' \in Nat /\ writing' = writing
        BY <1>1, <2>4
      <3>2. (armed => armed') /\ (write_pending' <=> write_pending)
        BY <2>4
      <3> QED
        BY <3>1, <3>2
    <2>5. CASE /\ IF writing = 0 THEN boot_state # "arm" ELSE writing <= Len(Parameters) /\ ~block_idle
               /\ write_pending' = (write_pending /\ ~block_busy) /\ UNCHANGED <<writing, read_timer, armed>>
      <3>1. writing < 6 /\ writing' = writing /\ read_timer' \in Nat
        BY <1>1, <2>5
      <3>2. (armed' <=> armed) /\ (write_pending' <=> write_pending /\ ~block_busy_sync[2])
        BY <2>5 DEF block_busy
      <3> QED
        BY <3>1, <3>2
    <2> QED
      BY <2>1, <2>2, <2>3, <2>4, <2>5 DEF RemoteUpdate, Parameter
  <1>2a. write_pending' \in BOOLEAN /\ armed' \in BOOLEAN
    <2>1. armed' = armed \/ armed' = (armed \/ read_timer = 0)
      BY DEF RemoteUpdate, Parameter
    <2>2. \/ write_pending' = write_pending \/ write_pending' = TRUE
          \/ write_pending' = (write_pending /\ ~block_busy)
      BY DEF RemoteUpdate, Parameter, Issue
    <2> QED
      BY <1>1, <2>1, <2>2
  <1>3. /\ writing' \in 0 .. 6 /\ write_pending' \in BOOLEAN /\ armed' \in BOOLEAN
        /\ read_timer' \in Nat /\ (armed => armed')
    BY <1>1, <1>2, <1>2a
  <1>4. armed' => writing' > 5
    BY <1>1, <1>2 DEF ParametersIn
  <1>5. writing' \notin 1 .. 5 => ~write_pending'
    BY <1>1, <1>2 DEF ParametersIn
  <1> DEFINE taken == block.busy > 0
             first == block_busy_sync[1]
             second == block_busy_sync[2]
             phase == block.phase
  <1>6. /\ ~write_pending => (taken => first) /\ (first => second)
        /\ write_pending => \/ ~taken /\ ~first /\ ~second
                            \/ taken /\ phase = 1 /\ ~first /\ ~second
                            \/ taken /\ phase = 2 /\ first /\ ~second
                            \/ taken /\ phase = 3 /\ first /\ second
    BY <1>1 DEF ParametersIn
  <1>7. /\ taken \in BOOLEAN /\ first \in BOOLEAN /\ second \in BOOLEAN /\ phase \in 0 .. 3
        /\ block_busy_sync'[1] <=> taken
        /\ block_busy_sync'[2] <=> first
        /\ block'.phase = (IF phase = 3 THEN 0 ELSE phase + 1)
        /\ phase # 0 => (block'.busy > 0 <=> taken)
        /\ ~taken /\ (~write_pending \/ phase # 0) => ~(block'.busy > 0)
        /\ ~taken /\ write_pending /\ phase = 0 =>
              block'.busy > 0 /\ block'.set = block.set \cup {Parameters[writing]}
        /\ taken \/ ~write_pending \/ phase # 0 => block'.set = block.set
        /\ block'.busy \in 0 .. 2
    BY <1>1, BlockStep
  <1>8. block_busy_sync' \in BOOLEAN \X BOOLEAN
    BY BlockStep
  <1>9. /\ write_pending' => (write_pending /\ ~second /\ writing' = writing) \/ (~write_pending /\ ~second)
        /\ ~write_pending' => ~write_pending \/ second
    <2>1. writing = 6 => ~write_pending
      BY DEF ParametersIn
    <2> QED
      BY <1>2, <2>1
  <1>10. /\ ~write_pending' => (block'.busy > 0 => block_busy_sync'[1])
                                /\ (block_busy_sync'[1] => block_busy_sync'[2])
    BY <1>6, <1>7, <1>9
  <1>11. write_pending' => \/ block'.busy = 0 /\ ~block_busy_sync'[1] /\ ~block_busy_sync'[2]
                           \/ block'.busy > 0 /\ block'.phase = 1
                              /\ ~block_busy_sync'[1] /\ ~block_busy_sync'[2]
                           \/ block'.busy > 0 /\ block'.phase = 2
                              /\ block_busy_sync'[1] /\ ~block_busy_sync'[2]
                           \/ block'.busy > 0 /\ block'.phase = 3
                              /\ block_busy_sync'[1] /\ block_busy_sync'[2]
    BY <1>6, <1>7, <1>9
  <1>12. writing' = 0 => block'.busy = 0 /\ ~block_busy_sync'[1] /\ ~block_busy_sync'[2]
    <2>1. writing' = 0 => writing = 0 /\ ~write_pending
      BY <1>1, <1>2 DEF ParametersIn
    <2>2. writing = 0 => ~taken /\ ~first
      BY <1>1 DEF ParametersIn
    <2> QED
      BY <1>7, <2>1, <2>2
  <1>13. ASSUME NEW k \in 1 .. 5,
                (k < writing' \/ (k = writing' /\ (~write_pending' \/ block'.busy > 0)))
         PROVE  Parameters[k] \in block'.set
    <2>1. block.set \subseteq block'.set
      BY <1>1, <1>7
    <2>2. (k < writing \/ (k = writing /\ (~write_pending \/ taken))) => Parameters[k] \in block.set
      BY DEF ParametersIn
    <2>3. CASE k < writing \/ (k = writing /\ (~write_pending \/ taken))
      BY <2>1, <2>2, <2>3
    <2>4. CASE ~(k < writing \/ (k = writing /\ (~write_pending \/ taken)))
      <3>1. k = writing /\ write_pending /\ ~taken
        BY <1>1, <1>2, <1>6, <1>7, <1>13, <2>4
      <3>2. writing' = writing
        BY <1>2, <1>6, <3>1
      <3>3. write_pending'
        BY <1>6, <1>9, <3>1
      <3> QED
        BY <1>7, <1>13, <3>1, <3>2, <3>3
    <2> QED
      BY <2>3, <2>4
  <1>14. block'.set \subseteq {Parameters[k] : k \in 1 .. 5}
    <2>1. block'.set = block.set \/ (writing \in 1 .. 5 /\ block'.set = block.set \cup {Parameters[writing]})
      BY <1>1, <1>7 DEF ParametersIn
    <2> QED
      BY <2>1 DEF ParametersIn
  <1>15. ParametersIn'
    BY <1>4, <1>5, <1>10, <1>11, <1>12, <1>13, <1>14 DEF ParametersIn
  <1> QED
    BY <1>3, <1>15

-----------------------------------------------------------------------------
(* The loader, while it owns the bridge *)

LEMMA LoaderWrites ==
    /\ LoaderMayWrite(NoWrite) /\ NoWrite.to = "none"
    /\ \A b \in Int : LoaderMayWrite(Unlock(b)) /\ Unlock(b).to = "unlock"
    /\ LoaderMayWrite(Relock) /\ Relock.to = "unlock"
    /\ LoaderMayWrite(Control(TRUE)) /\ Control(TRUE).to = "control" /\ Control(TRUE).select = TRUE
    /\ LoaderMayWrite(Control(FALSE)) /\ Control(FALSE).to = "control" /\ Control(FALSE).select = FALSE
    /\ \A b \in Int, n \in Int :
          /\ LoaderMayWrite(Data(b, "loader", n))
          /\ Data(b, "loader", n).to = "data" /\ Data(b, "loader", n).nth = n
    /\ Trigger.to = "reconfigure"
  <1>1. LoaderMayWrite(NoWrite) /\ NoWrite.to = "none"
    BY DEF LoaderMayWrite, NoWrite
  <1>2. /\ \A b \in Int : LoaderMayWrite(Unlock(b)) /\ Unlock(b).to = "unlock"
        /\ LoaderMayWrite(Relock) /\ Relock.to = "unlock"
    BY DEF LoaderMayWrite, Unlock, Relock
  <1>3. /\ LoaderMayWrite(Control(TRUE)) /\ Control(TRUE).to = "control" /\ Control(TRUE).select = TRUE
        /\ LoaderMayWrite(Control(FALSE)) /\ Control(FALSE).to = "control" /\ Control(FALSE).select = FALSE
    BY DEF LoaderMayWrite, Control
  <1>4. \A b \in Int, n \in Int :
          /\ LoaderMayWrite(Data(b, "loader", n))
          /\ Data(b, "loader", n).to = "data" /\ Data(b, "loader", n).nth = n
    BY DEF LoaderMayWrite, Data
  <1>5. Trigger.to = "reconfigure"
    BY DEF Trigger
  <1> QED
    BY <1>1, <1>2, <1>3, <1>4, <1>5, Zenon

(***************************************************************************)
(* A clock of the state machine, as the write it leaves in the window and  *)
(* the state it goes to.                                                   *)
(***************************************************************************)
Went ==
    \/ /\ boot_window'.to = "none"
       /\ \/ /\ boot_state' = boot_state /\ byte_index' = byte_index
             /\ boot_state \in Commands \cup {"settle", "arm"}
          \/ boot_state = "settle" /\ boot_state' = "unlock" /\ byte_index' = 0
          \/ boot_state = "headerSettle" /\ boot_state' = "headerCheck"
          \/ boot_state = "imageSettle" /\ boot_state' = "imageCheck"
          \/ boot_state = "headerCheck" /\ boot_state' \in {"selectImage", "recovery"}
          \/ boot_state = "imageCheck" /\ boot_state' = "relock"
          \/ boot_state = "arm" /\ boot_state' = "handOver"
       /\ boot_state \in Commands => ~bridge_idle
    \/ /\ boot_window'.to = "unlock"
       /\ \/ boot_state = "unlock" /\ boot_state' \in {"unlock", "selectHeader"} /\ byte_index' \in 0 .. 3
          \/ boot_state = "relock" /\ boot_state' \in {"arm", "recovery"} /\ boot_window' = Relock
    \/ /\ boot_window'.to = "control" /\ boot_window'.select = TRUE /\ byte_index' = 0
       /\ \/ boot_state = "selectHeader" /\ boot_state' = "headerCommand"
          \/ boot_state = "selectImage" /\ boot_state' = "imageCommand"
    \/ /\ boot_window'.to = "control" /\ boot_window'.select = FALSE /\ bridge_idle
       /\ \/ boot_state = "headerData" /\ boot_state' = "headerSettle"
          \/ boot_state = "imageData" /\ boot_state' = "imageSettle"
    \/ /\ boot_window'.to = "data" /\ bridge_idle /\ boot_window'.nth = Issued + 1 /\ Issued' = Issued + 1
       /\ \/ boot_state = "headerCommand" /\ boot_state' = "headerCommand" /\ byte_index' = 1
          \/ boot_state = "headerCommand" /\ boot_state' = "headerData" /\ byte_index' = 0
          \/ boot_state = "imageCommand" /\ boot_state' = "imageCommand" /\ byte_index' = 1
          \/ boot_state = "imageCommand" /\ boot_state' = "imageData" /\ byte_index' = 0
          \/ boot_state = "headerData" /\ boot_state' = "headerData" /\ byte_index' = byte_index + 1
             /\ byte_index # BootBlockBytes
          \/ boot_state = "imageData" /\ boot_state' = "imageData" /\ byte_index' = byte_index + 1

LEMMA LoaderWent ==
    ASSUME BootTypeOK, LoaderTyped, boot_active, BootLoader
    PROVE  /\ LoaderMayWrite(boot_window') /\ byte_index' \in Nat /\ Went
           /\ shift_started' \in BOOLEAN
           /\ shift_started' <=> boot_window'.to = "data" \/ (shift_started /\ ~bridge_busy)
  <1> USE BootAssumption
  <1>1. ASSUME NEW next, NEW w, NEW n \in Nat, Goes(next, w, n), LoaderMayWrite(w)
        PROVE  /\ boot_window' = w /\ boot_state' = next /\ byte_index' = n
               /\ shift_started' \in BOOLEAN
               /\ shift_started' <=> boot_window'.to = "data" \/ (shift_started /\ ~bridge_busy)
               /\ LoaderMayWrite(boot_window') /\ byte_index' \in Nat
    BY <1>1 DEF Goes
  <1>2. byte_index \in Nat
    BY DEF LoaderTyped
  <1>3. CASE Settle
    <2>1. Goes(IF settle_count = SettleClocks THEN "unlock" ELSE "settle", NoWrite, 0)
      BY <1>3 DEF Settle
    <2>2. boot_state = "settle" /\ byte_index = 0
      BY <1>3 DEF Settle, LoaderTyped
    <2>3. /\ boot_window'.to = "none" /\ byte_index' = 0
          /\ boot_state' = IF settle_count = SettleClocks THEN "unlock" ELSE "settle"
      BY <1>1, <2>1, LoaderWrites
    <2>4. Went
      BY <2>2, <2>3 DEF Went, Commands
    <2> QED
      BY <1>1, <2>1, <2>4, LoaderWrites
  <1>4. CASE Unlocks
    <2>1. boot_state = "unlock" /\ byte_index \in 0 .. 3
      BY <1>4 DEF Unlocks, LoaderTyped
    <2>2. UnlockSequence[byte_index + 1] \in Int
      BY <2>1, TheSequence
    <2>3. Goes(IF byte_index = 3 THEN "selectHeader" ELSE "unlock",
               Unlock(UnlockSequence[byte_index + 1]), IF byte_index = 3 THEN 0 ELSE byte_index + 1)
      BY <1>4, TheSequence DEF Unlocks
    <2>4. LoaderMayWrite(Unlock(UnlockSequence[byte_index + 1]))
          /\ Unlock(UnlockSequence[byte_index + 1]).to = "unlock"
      BY <2>2, LoaderWrites
    <2>5. (IF byte_index = 3 THEN 0 ELSE byte_index + 1) \in 0 .. 3
      BY <2>1
    <2>6. /\ boot_window'.to = "unlock" /\ byte_index' \in 0 .. 3
          /\ boot_state' = IF byte_index = 3 THEN "selectHeader" ELSE "unlock"
      BY <1>1, <2>3, <2>4, <2>5
    <2>7. Went
      BY <2>1, <2>6 DEF Went
    <2> QED
      BY <1>1, <2>3, <2>4, <2>5, <2>7
  <1>5. CASE HeaderData
    <2>1. boot_state = "headerData" /\ bridge_idle
      BY <1>5 DEF HeaderData
    <2>2. CASE byte_index = BootBlockBytes
      <3>1. Goes("headerSettle", Control(FALSE), byte_index)
        BY <1>5, <2>2 DEF HeaderData, ReceiveOrDeselect
      <3>2. boot_window'.to = "control" /\ boot_window'.select = FALSE /\ boot_state' = "headerSettle"
        BY <1>1, <1>2, <3>1, LoaderWrites
      <3>3. Went
        BY <2>1, <3>2 DEF Went
      <3> QED
        BY <1>1, <1>2, <3>1, <3>3, LoaderWrites
    <2>3. CASE byte_index # BootBlockBytes
      <3>1. Goes("headerData", Data(Noise, "loader", byte_index + 3), byte_index + 1)
        BY <1>5, <2>3 DEF HeaderData, ReceiveOrDeselect
      <3>2. Noise \in Int /\ byte_index + 3 \in Int /\ byte_index + 1 \in Nat
        BY <1>2 DEF Noise
      <3>3. /\ boot_window'.to = "data" /\ boot_window'.nth = byte_index + 3
            /\ boot_state' = "headerData" /\ byte_index' = byte_index + 1
            /\ LoaderMayWrite(Data(Noise, "loader", byte_index + 3))
        BY <1>1, <3>1, <3>2, LoaderWrites
      <3>4. Issued' = Issued + 1 /\ boot_window'.nth = Issued + 1
        BY <1>2, <2>1, <3>3 DEF Issued
      <3>5. Went
        BY <2>1, <2>3, <3>3, <3>4 DEF Went
      <3> QED
        BY <1>1, <3>1, <3>2, <3>3, <3>5
    <2> QED
      BY <2>2, <2>3
  <1>6. CASE HeaderCheck
    <2>1. /\ Goes(IF header_valid THEN "selectImage" ELSE "recovery", NoWrite, byte_index)
          /\ boot_state = "headerCheck"
      BY <1>6 DEF HeaderCheck
    <2>2. boot_window'.to = "none" /\ boot_state' \in {"selectImage", "recovery"}
      <3>1. (IF header_valid THEN "selectImage" ELSE "recovery") \in {"selectImage", "recovery"}
        OBVIOUS
      <3> QED
        BY <1>1, <1>2, <2>1, <3>1, LoaderWrites
    <2>3. Went
      BY <2>1, <2>2 DEF Went, Commands
    <2> QED
      BY <1>1, <1>2, <2>1, <2>3, LoaderWrites
  <1>7. CASE ImageData
    <2>1. boot_state = "imageData" /\ bridge_idle
      BY <1>7 DEF ImageData
    <2>2. CASE byte_index = flash.length
      <3>1. Goes("imageSettle", Control(FALSE), byte_index)
        BY <1>7, <2>2 DEF ImageData, ReceiveOrDeselect
      <3>2. boot_window'.to = "control" /\ boot_window'.select = FALSE /\ boot_state' = "imageSettle"
        BY <1>1, <1>2, <3>1, LoaderWrites
      <3>3. Went
        BY <2>1, <3>2 DEF Went
      <3> QED
        BY <1>1, <1>2, <3>1, <3>3, LoaderWrites
    <2>3. CASE byte_index # flash.length
      <3>1. Goes("imageData", Data(Noise, "loader", byte_index + 3), byte_index + 1)
        BY <1>7, <2>3 DEF ImageData, ReceiveOrDeselect
      <3>2. Noise \in Int /\ byte_index + 3 \in Int /\ byte_index + 1 \in Nat
        BY <1>2 DEF Noise
      <3>3. /\ boot_window'.to = "data" /\ boot_window'.nth = byte_index + 3
            /\ boot_state' = "imageData" /\ byte_index' = byte_index + 1
            /\ LoaderMayWrite(Data(Noise, "loader", byte_index + 3))
        BY <1>1, <3>1, <3>2, LoaderWrites
      <3>4. Issued' = Issued + 1 /\ boot_window'.nth = Issued + 1
        BY <1>2, <2>1, <3>3 DEF Issued
      <3>5. Went
        BY <2>1, <3>3, <3>4 DEF Went
      <3> QED
        BY <1>1, <3>1, <3>2, <3>3, <3>5
    <2> QED
      BY <2>2, <2>3
  <1>8. CASE ImageCheck
    <2>1. Goes("relock", NoWrite, byte_index) /\ boot_state = "imageCheck"
      BY <1>8 DEF ImageCheck
    <2>2. boot_window'.to = "none" /\ boot_state' = "relock"
      BY <1>1, <1>2, <2>1, LoaderWrites
    <2>3. Went
      BY <2>1, <2>2 DEF Went, Commands
    <2> QED
      BY <1>1, <1>2, <2>1, <2>3, LoaderWrites
  <1>9. ASSUME NEW here, NEW next, Select(here, next),
               <<here, next>> \in {<<"selectHeader", "headerCommand">>, <<"selectImage", "imageCommand">>}
        PROVE  /\ LoaderMayWrite(boot_window') /\ byte_index' \in Nat /\ Went
               /\ shift_started' \in BOOLEAN
               /\ shift_started' <=> boot_window'.to = "data" \/ (shift_started /\ ~bridge_busy)
    <2>1. Goes(next, Control(TRUE), 0) /\ boot_state = here
      BY <1>9 DEF Select
    <2>2. /\ boot_window'.to = "control" /\ boot_window'.select = TRUE /\ boot_state' = next
          /\ byte_index' = 0
      BY <1>1, <2>1, LoaderWrites
    <2>3. Went
      BY <1>9, <2>1, <2>2 DEF Went
    <2> QED
      BY <1>1, <2>1, <2>3, LoaderWrites
  <1>10. ASSUME NEW here, NEW address \in Int, NEW next, Command(here, address, next),
                <<here, next>> \in {<<"headerCommand", "headerData">>, <<"imageCommand", "imageData">>}
         PROVE  /\ LoaderMayWrite(boot_window') /\ byte_index' \in Nat /\ Went
                /\ shift_started' \in BOOLEAN
                /\ shift_started' <=> boot_window'.to = "data" \/ (shift_started /\ ~bridge_busy)
    <2>1. boot_state = here /\ bridge_idle /\ byte_index \in 0 .. 1
      BY <1>10 DEF Command, LoaderTyped
    <2>2. CASE byte_index = 0
      <3>1. Goes(here, Data(ReadCommand, "loader", 1), 1)
        BY <1>10, <2>2 DEF Command
      <3>2. ReadCommand \in Int
        BY DEF ReadCommand
      <3>3. /\ boot_window'.to = "data" /\ boot_window'.nth = 1 /\ boot_state' = here /\ byte_index' = 1
            /\ LoaderMayWrite(Data(ReadCommand, "loader", 1))
        BY <1>1, <3>1, <3>2, LoaderWrites
      <3>4. Issued' = Issued + 1 /\ boot_window'.nth = Issued + 1
        BY <1>10, <2>1, <2>2, <3>3 DEF Issued
      <3>5. Went
        BY <1>10, <2>1, <3>3, <3>4 DEF Went
      <3> QED
        BY <1>1, <3>1, <3>3, <3>5
    <2>3. CASE byte_index = 1
      <3>1. Goes(next, Data(address, "loader", 2), 0)
        BY <1>10, <2>3 DEF Command
      <3>3. /\ boot_window'.to = "data" /\ boot_window'.nth = 2 /\ boot_state' = next /\ byte_index' = 0
            /\ LoaderMayWrite(Data(address, "loader", 2))
        BY <1>1, <3>1, LoaderWrites
      <3>4. Issued' = Issued + 1 /\ boot_window'.nth = Issued + 1
        BY <1>10, <2>1, <2>3, <3>3 DEF Issued
      <3>5. Went
        BY <1>10, <2>1, <3>3, <3>4 DEF Went
      <3> QED
        BY <1>1, <3>1, <3>3, <3>5
    <2> QED
      BY <2>1, <2>2, <2>3
  <1>11. CASE Relocks
    <2>1. /\ Goes(IF image_valid THEN "arm" ELSE "recovery", Relock, byte_index)
          /\ boot_state = "relock"
      BY <1>11 DEF Relocks
    <2>2. boot_window' = Relock /\ boot_window'.to = "unlock" /\ boot_state' \in {"arm", "recovery"}
      <3>1. (IF image_valid THEN "arm" ELSE "recovery") \in {"arm", "recovery"}
        OBVIOUS
      <3> QED
        BY <1>1, <1>2, <2>1, <3>1, LoaderWrites
    <2>3. Went
      BY <2>1, <2>2 DEF Went
    <2> QED
      BY <1>1, <1>2, <2>1, <2>3, LoaderWrites
  <1>12. CASE Arms
    <2>1. Goes("handOver", NoWrite, byte_index) /\ boot_state = "arm"
      BY <1>12 DEF Arms
    <2>2. boot_window'.to = "none" /\ boot_state' = "handOver"
      BY <1>1, <1>2, <2>1, LoaderWrites
    <2>3. Went
      BY <2>1, <2>2 DEF Went, Commands
    <2> QED
      BY <1>1, <1>2, <2>1, <2>3, LoaderWrites
  <1>13. CASE Passes
    <2>1. /\ Goes(IF boot_state = "headerSettle" THEN "headerCheck" ELSE "imageCheck", NoWrite, byte_index)
          /\ boot_state \in {"headerSettle", "imageSettle"}
      BY <1>13 DEF Passes
    <2>2. /\ boot_window'.to = "none"
          /\ boot_state' = IF boot_state = "headerSettle" THEN "headerCheck" ELSE "imageCheck"
      BY <1>1, <1>2, <2>1, LoaderWrites
    <2>3. Went
      BY <2>1, <2>2 DEF Went, Commands
    <2> QED
      BY <1>1, <1>2, <2>1, <2>3, LoaderWrites
  <1>14. CASE Waits
    <2>1. /\ Goes(boot_state, NoWrite, byte_index)
          /\ (boot_state \in Commands /\ ~bridge_idle) \/ boot_state = "arm"
      BY <1>14 DEF Waits, Commands, boot_active
    <2>2. boot_window'.to = "none" /\ boot_state' = boot_state /\ byte_index' = byte_index
      BY <1>1, <1>2, <2>1, LoaderWrites
    <2>3. Went
      BY <2>1, <2>2 DEF Went, Commands
    <2> QED
      BY <1>1, <1>2, <2>1, <2>3, LoaderWrites
  <1>15. BootBlockAddress \in Int /\ ApplicationAddress \in Int
    OBVIOUS
  <1> QED
    BY <1>3, <1>4, <1>5, <1>6, <1>7, <1>8, <1>9, <1>10, <1>11, <1>12, <1>13, <1>14, <1>15
       DEF BootLoader

\* What the clock does to the rest of the loader, and what a decision rests on
LEMMA LoaderDecides ==
    ASSUME BootTypeOK, LoaderTyped, boot_active, BootLoader
    PROVE  /\ settle_count' \in 0 .. SettleClocks /\ Len(crc_byte') <= 1 /\ image_valid' \in BOOLEAN
           /\ boot_state # "headerData" => header' = header
           /\ boot_state = "headerData" /\ ~bridge_idle => header' = header
           /\ boot_state = "headerData" /\ bridge_idle =>
                 header' = IF byte_index > 0 THEN Append(header, received_byte) ELSE header
           /\ boot_state = "imageCheck" /\ image_valid' => flash.image
           /\ boot_state # "imageCheck" => (image_valid' <=> image_valid)
           /\ boot_state = "headerCheck" /\ boot_state' = "selectImage" => flash.block
           /\ boot_state' = "arm" /\ boot_state # "arm" => image_valid
           /\ boot_state' = "handOver" => armed
  <1> USE BootAssumption
  <1>1. settle_count \in 0 .. SettleClocks /\ image_valid \in BOOLEAN
    BY DEF BootTypeOK
  <1>2. Len(crc_byte') <= 1
    <2>1. crc_byte' \in {<<>>, <<received_byte>>}
      BY DEF BootLoader, Quiet, Settle, Unlocks, HeaderData, HeaderCheck, ImageData,
             ImageCheck, Select, Command, Relocks, Arms, Passes, Waits
    <2>2. CASE crc_byte' = <<>>
      BY <2>2
    <2>3. CASE crc_byte' = <<received_byte>>
      BY <2>3
    <2> QED
      BY <2>1, <2>2, <2>3
  <1>3. settle_count' \in 0 .. SettleClocks
    <2>1. settle_count' = settle_count \/ (settle_count # SettleClocks /\ settle_count' = settle_count + 1)
      BY DEF BootLoader, Keeps, Settle, Unlocks, HeaderData, HeaderCheck, ImageData,
             ImageCheck, Select, Command, Relocks, Arms, Passes, Waits
    <2> QED
      BY <1>1, <2>1
  <1>4. /\ boot_state # "headerData" => header' = header
        /\ boot_state = "headerData" /\ ~bridge_idle => header' = header
        /\ boot_state = "headerData" /\ bridge_idle =>
              header' = IF byte_index > 0 THEN Append(header, received_byte) ELSE header
    BY DEF BootLoader, Keeps, Settle, Unlocks, HeaderData, HeaderCheck, ImageData,
           ImageCheck, Select, Command, Relocks, Arms, Passes, Waits
  <1>5. /\ boot_state = "imageCheck" =>
              image_valid' = (flash.image /\ crc = Bytes(ApplicationAddress, flash.length))
        /\ boot_state # "imageCheck" => image_valid' = image_valid
    BY DEF BootLoader, Keeps, Settle, Unlocks, HeaderData, HeaderCheck, ImageData,
           ImageCheck, Select, Command, Relocks, Arms, Passes, Waits
  <1>6. /\ image_valid' \in BOOLEAN /\ (boot_state = "imageCheck" /\ image_valid' => flash.image)
        /\ boot_state # "imageCheck" => (image_valid' <=> image_valid)
    <2>1. CASE boot_state = "imageCheck"
      <3>1. image_valid' = (flash.image /\ crc = Bytes(ApplicationAddress, flash.length))
        BY <1>5, <2>1
      <3>2. image_valid' \in BOOLEAN /\ (image_valid' => flash.image)
        BY <3>1, Zenon
      <3> QED
        BY <2>1, <3>2
    <2>2. CASE boot_state # "imageCheck"
      BY <1>1, <1>5, <2>2
    <2> QED
      BY <2>1, <2>2
  <1>7. boot_state = "headerCheck" /\ boot_state' = "selectImage" => flash.block
    <2>1. boot_state = "headerCheck" =>
              boot_state' = IF header_valid THEN "selectImage" ELSE "recovery"
      BY DEF BootLoader, Goes, Settle, Unlocks, HeaderData, HeaderCheck, ImageData,
             ImageCheck, Select, Command, Relocks, Arms, Passes, Waits
    <2> QED
      BY <2>1 DEF header_valid
  <1>8. boot_state' = "arm" /\ boot_state # "arm" => image_valid
    <2>1. boot_state = "relock" => boot_state' = IF image_valid THEN "arm" ELSE "recovery"
      BY DEF BootLoader, Goes, Settle, Unlocks, HeaderData, HeaderCheck, ImageData,
             ImageCheck, Select, Command, Relocks, Arms, Passes, Waits
    <2>2. boot_state' = "arm" /\ boot_state # "arm" => boot_state = "relock"
      BY LoaderWent DEF Went, Commands
    <2> QED
      BY <2>1, <2>2
  <1>9. boot_state' = "handOver" => armed
    <2>1. boot_state' = "handOver" => boot_state = "arm"
      BY LoaderWent DEF Went, Commands, boot_active
    <2>2. boot_state = "arm" => armed \/ boot_state' = "arm"
      BY DEF BootLoader, Goes, Settle, Unlocks, HeaderData, HeaderCheck, ImageData,
             ImageCheck, Select, Command, Relocks, Arms, Passes, Waits
    <2> QED
      BY <2>1, <2>2
  <1> QED
    BY <1>2, <1>3, <1>4, <1>6, <1>7, <1>8, <1>9

\* The loader's clock keeps what it knows of the bridge
LEMMA LoaderClock ==
    ASSUME BootTypeOK, LoaderTyped, LoaderOwns, boot_active, BootLoader,
           Bridge(boot_window), RemoteUpdate(boot_window), image' = image, fx3_wait' \in Nat
    PROVE  LoaderOwns' /\ Fx3Owns' /\ HandingOver'
  <1> USE BootAssumption
  <1> DEFINE w == boot_window
  <1>1. Went /\ LoaderMayWrite(boot_window) /\ LoaderMayWrite(boot_window')
        /\ (shift_started' <=> boot_window'.to = "data" \/ (shift_started /\ ~bridge_busy))
    BY LoaderWent DEF LoaderTyped
  <1>2. chip_select_asserted => unlocked
    BY DEF LoaderOwns
  <1>3. /\ unlock_progress' \in 0 .. 3 /\ unlocked' \in BOOLEAN
        /\ boot_window.to # "unlock" => UNCHANGED <<unlock_progress, unlocked>>
        /\ boot_window.to = "unlock" => chip_select_asserted' = FALSE
        /\ boot_window = Relock => unlock_progress' = 0 /\ ~unlocked'
        /\ chip_select_asserted' \in BOOLEAN /\ (chip_select_asserted' => unlocked')
        /\ boot_window.to \in {"none", "data"} => UNCHANGED chip_select_asserted
        /\ boot_window.to = "control" =>
              chip_select_asserted' = (IF unlocked THEN boot_window.select ELSE chip_select_asserted)
    BY <1>1, <1>2, BridgeStep DEF LoaderMayWrite
  <1>4. /\ shift'.left \in 0 .. ShiftClocks
        /\ bridge_busy => shift'.left = shift.left - 1 /\ shift'.nth = shift.nth
        /\ ~bridge_busy /\ boot_window.to = "data" /\ chip_select_asserted =>
             shift'.left = ShiftClocks /\ shift'.nth = boot_window.nth
        /\ ~bridge_busy /\ (boot_window.to # "data" \/ ~chip_select_asserted) => shift' = shift
        /\ ~chip_select_asserted => chip'.heard = 0
        /\ chip_select_asserted =>
             chip'.heard = (IF shift.left = 1 THEN chip.heard + 1 ELSE chip.heard)
    BY <1>1, <1>2, ShiftStep DEF LoaderMayWrite
  <1>5. shift.left \in 0 .. ShiftClocks /\ (bridge_busy <=> shift.left > 0) /\ (bridge_busy' <=> shift'.left > 0)
    BY DEF BootTypeOK, bridge_busy
  <1>6. boot_state \in States /\ boot_state \notin {"recovery", "handOver"} /\ image = "factory"
    BY DEF LoaderTyped, boot_active
  <1>7. reconfigure_hold' = 0 /\ block'.asked = 0
    <2>1. ~reconfigure_now(boot_window)
      BY <1>1, <1>6, LoaderWrites DEF reconfigure_now, LoaderMayWrite
    <2> QED
      BY <2>1, BlockStep DEF LoaderOwns
  <1>8. boot_window'.to = "data" => shift_started' /\ ~bridge_busy' /\ boot_state' \in Commands
                                    /\ boot_window'.nth = Issued'
    <2> SUFFICES ASSUME boot_window'.to = "data"
                 PROVE  /\ shift_started' /\ ~bridge_busy' /\ boot_state' \in Commands
                        /\ boot_window'.nth = Issued'
      OBVIOUS
    <2>1. bridge_idle /\ boot_window'.nth = Issued' /\ boot_state' \in Commands
      BY <1>1 DEF Went, Commands
    <2>2. ~bridge_busy /\ boot_window.to # "data"
      BY <2>1 DEF bridge_idle, LoaderOwns
    <2>3. shift'.left = 0
      BY <1>4, <1>5, <2>2
    <2> QED
      BY <1>1, <1>5, <2>1, <2>3
  <1>9. bridge_busy' => /\ boot_window'.to = "none" /\ boot_state' \in Commands
                        /\ chip_select_asserted'
    <2> SUFFICES ASSUME bridge_busy'
                 PROVE  boot_window'.to = "none" /\ boot_state' \in Commands /\ chip_select_asserted'
      OBVIOUS
    <2>1. bridge_busy \/ (boot_window.to = "data" /\ chip_select_asserted)
      BY <1>4, <1>5
    <2>2. ~bridge_idle /\ boot_state \in Commands /\ chip_select_asserted
          /\ boot_window.to \in {"none", "data"}
      BY <2>1 DEF LoaderOwns, bridge_idle
    <2>3. boot_window'.to = "none" /\ boot_state' = boot_state
      BY <1>1, <2>2 DEF Went, Commands
    <2> QED
      BY <1>3, <2>2, <2>3
  <1>10. boot_state' \in {"headerCheck", "imageCheck", "relock"} => boot_window'.to = "none"
    BY <1>1, <1>6 DEF Went, Commands, States, Before, Blocked
  <1>11. boot_window'.to = "control" =>
            IF boot_state' \in {"headerSettle", "imageSettle"} THEN ~boot_window'.select
            ELSE /\ boot_window'.select /\ boot_state' \in {"headerCommand", "imageCommand"}
                 /\ byte_index' = 0
    BY <1>1 DEF Went
  <1>12. boot_state' \in {"headerSettle", "imageSettle"} => boot_window'.to = "control"
    BY <1>1, <1>6 DEF Went, Commands, States, Before, Blocked
  <1>13. boot_state' = "arm" =>
            \/ boot_window'.to = "none" /\ ~unlocked' /\ unlock_progress' = 0
            \/ boot_window' = Relock
    <2> SUFFICES ASSUME boot_state' = "arm", boot_window' # Relock
                 PROVE  boot_window'.to = "none" /\ ~unlocked' /\ unlock_progress' = 0
      OBVIOUS
    <2>1. boot_window'.to = "none" /\ boot_state = "arm"
      BY <1>1 DEF Went, Commands
    <2> QED
      BY <1>3, <2>1 DEF LoaderOwns
  <1>14. chip_select_asserted' /\ boot_active' =>
            \/ boot_state' \in {"headerSettle", "imageSettle"}
            \/ /\ boot_state' \in Commands
               /\ IF bridge_busy' THEN shift'.nth = Issued' /\ chip'.heard + 1 = Issued'
                  ELSE IF boot_window'.to = "data" THEN chip'.heard + 1 = Issued'
                  ELSE chip'.heard = Issued'
    <2> SUFFICES ASSUME chip_select_asserted', boot_active', boot_state' \notin {"headerSettle", "imageSettle"}
                 PROVE  /\ boot_state' \in Commands
                        /\ IF bridge_busy' THEN shift'.nth = Issued' /\ chip'.heard + 1 = Issued'
                           ELSE IF boot_window'.to = "data" THEN chip'.heard + 1 = Issued'
                           ELSE chip'.heard = Issued'
      OBVIOUS
    <2>0. chip.heard \in Nat /\ byte_index \in Nat
      BY DEF LoaderTyped
    <2>1. CASE ~chip_select_asserted
      <3>1. /\ boot_window.to = "control" /\ boot_window.select
            /\ boot_state \in {"headerCommand", "imageCommand"} /\ byte_index = 0
        BY <1>1, <1>3, <2>1 DEF LoaderOwns, LoaderMayWrite
      <3>2. ~bridge_busy' /\ chip'.heard = 0 /\ Issued = 0
        BY <1>4, <1>5, <1>9, <2>1, <3>1 DEF LoaderOwns, Issued
      <3>3. \/ boot_window'.to = "data" /\ Issued' = 1 /\ boot_state' \in Commands
            \/ boot_window'.to = "none" /\ boot_state' = boot_state /\ byte_index' = byte_index
        BY <1>1, <3>1, <3>2 DEF Went, Commands
      <3>4. boot_window'.to = "none" => Issued' = 0
        BY <3>1, <3>3 DEF Issued
      <3> QED
        BY <3>1, <3>2, <3>3, <3>4 DEF Commands
    <2>2. CASE chip_select_asserted
      <3>1. boot_state \in Commands
        BY <1>2, <1>3, <2>2 DEF LoaderOwns
      <3>2. Issued \in Nat
        BY <2>0, <3>1 DEF Issued, Commands
      <3>3. CASE bridge_busy \/ boot_window.to = "data"
        <4>1. ~bridge_idle
          BY <3>3 DEF LoaderOwns, bridge_idle
        <4>2. boot_window'.to = "none" /\ boot_state' = boot_state /\ byte_index' = byte_index
          BY <1>1, <3>1, <4>1 DEF Went, Commands
        <4>3. Issued' = Issued
          BY <4>2 DEF Issued
        <4>4. CASE bridge_busy
          <5>1. shift.nth = Issued /\ chip.heard + 1 = Issued
            BY <2>2, <3>1, <4>4 DEF LoaderOwns, Commands
          <5>2. shift.left >= 1 /\ shift'.left = shift.left - 1 /\ shift'.nth = shift.nth
            BY <1>4, <1>5, <4>4
          <5> QED
            BY <1>4, <1>5, <2>0, <2>2, <3>1, <4>2, <4>3, <5>1, <5>2
        <4>5. CASE ~bridge_busy
          <5>1. boot_window.to = "data" /\ boot_window.nth = Issued /\ chip.heard + 1 = Issued
            BY <2>2, <3>1, <3>3, <4>5 DEF LoaderOwns, Commands
          <5>2. shift'.left = ShiftClocks /\ shift'.nth = boot_window.nth /\ chip'.heard = chip.heard
            BY <1>4, <1>5, <2>2, <4>5, <5>1
          <5>3. bridge_busy'
            BY <1>5, <5>2
          <5> QED
            BY <3>1, <4>2, <4>3, <5>1, <5>2, <5>3
        <4> QED
          BY <4>4, <4>5
      <3>4. CASE ~bridge_busy /\ boot_window.to # "data"
        <4>1. chip.heard = Issued
          BY <2>2, <3>1, <3>4 DEF LoaderOwns, Commands
        <4>2. ~bridge_busy' /\ chip'.heard = Issued
          <5>1. shift.left = 0 /\ shift' = shift
            BY <1>4, <1>5, <3>4
          <5> QED
            BY <1>4, <1>5, <2>2, <4>1, <5>1
        <4>3. \/ boot_window'.to = "data" /\ Issued' = Issued + 1 /\ boot_state' \in Commands
              \/ boot_window'.to = "none" /\ boot_state' = boot_state /\ byte_index' = byte_index
          BY <1>1, <3>1 DEF Went, Commands
        <4>4. boot_window'.to = "none" => Issued' = Issued
          BY <4>3 DEF Issued
        <4> QED
          BY <3>1, <4>2, <4>3, <4>4
      <3> QED
        BY <3>3, <3>4
    <2> QED
      BY <2>1, <2>2
  <1>15. ~boot_active' => shift'.left = 0 /\ ~chip_select_asserted'
    <2> SUFFICES ASSUME ~boot_active'
                 PROVE  shift'.left = 0 /\ ~chip_select_asserted'
      OBVIOUS
    <2>1. boot_state' \in {"recovery", "handOver"}
      BY <1>6 DEF boot_active
    <2>2. boot_state \in {"headerCheck", "relock", "arm"}
      BY <1>1, <1>6, <2>1 DEF Went, Commands
    <2>3. /\ ~bridge_busy /\ ~chip_select_asserted
          /\ boot_window.to = "none" \/ boot_window = Relock
      BY <2>2 DEF LoaderOwns, Commands
    <2>4. boot_window.to \in {"none", "unlock"}
      BY <2>3, LoaderWrites
    <2> QED
      BY <1>3, <1>4, <1>5, <2>3, <2>4
  <1>16. boot_state' = "handOver" => ~unlocked' /\ unlock_progress' = 0
    <2>1. boot_state' = "handOver" => boot_state = "arm"
      BY <1>1, <1>6 DEF Went, Commands
    <2> QED
      BY <1>3, <2>1 DEF LoaderOwns
  <1>17. LoaderOwns'
    BY <1>3, <1>7, <1>8, <1>9, <1>10, <1>11, <1>12, <1>13, <1>14 DEF LoaderOwns
  <1>18. Fx3Owns'
    BY <1>15 DEF Fx3Owns
  <1>19. HandingOver'
    BY <1>7, <1>16 DEF HandingOver, HandsOver
  <1> QED
    BY <1>17, <1>18, <1>19

\* When it has decided, or never had to, it stays where it is
LEMMA LoaderRests ==
    ASSUME LoaderTyped, ~boot_active, IF image = "factory" THEN BootLoader ELSE UNCHANGED loader,
           BootTypeOK
    PROVE  /\ boot_state' = boot_state /\ header' = header /\ (image_valid' <=> image_valid)
           /\ boot_window' = boot_window \/ boot_window' = NoWrite
           /\ byte_index' = byte_index /\ settle_count' = settle_count
           /\ shift_started' \in BOOLEAN /\ image_valid' \in BOOLEAN /\ Len(crc_byte') <= 1
  <1>1. shift_started \in BOOLEAN /\ image_valid \in BOOLEAN /\ Len(crc_byte) <= 1
    BY DEF BootTypeOK
  <1>2. CASE image # "factory"
    BY <1>1, <1>2 DEF loader
  <1>3. CASE image = "factory"
    <2>1. boot_state \in {"recovery", "handOver"} /\ BootLoader
      BY <1>3 DEF boot_active
    <2>2. Waits
      BY <2>1 DEF BootLoader, Settle, Unlocks, HeaderData, HeaderCheck, ImageData,
             ImageCheck, Select, Command, Relocks, Arms, Passes
    <2>3. Goes(boot_state, NoWrite, byte_index) /\ Quiet /\ Keeps
      BY <2>2 DEF Waits
    <2>4. /\ boot_state' = boot_state /\ boot_window' = NoWrite /\ byte_index' = byte_index
          /\ UNCHANGED <<settle_count, header, image_valid>>
      BY <2>3 DEF Goes, Keeps
    <2>5. shift_started' \in BOOLEAN
      BY <2>3 DEF Goes
    <2>6. Len(crc_byte') <= 1
      <3>1. crc_byte' = <<>>
        BY <2>3 DEF Quiet
      <3> QED
        BY <3>1
    <2> QED
      BY <1>1, <2>4, <2>5, <2>6
  <1> QED
    BY <1>2, <1>3

LEMMA PromisesKept ==
    ASSUME BootTypeOK, LoaderTyped, Promised, LoaderOwns, UNCHANGED contents, (armed => armed'),
           IF image = "factory" THEN BootLoader ELSE UNCHANGED loader
    PROVE  Promised'
  <1>1. CASE boot_active
    <2>1. BootLoader /\ boot_state \in States /\ boot_state \notin {"recovery", "handOver"}
      BY <1>1 DEF boot_active, LoaderTyped
    <2>2. Went
      BY <1>1, <2>1, LoaderWent
    <2>3. image_valid' => flash.image
      BY <1>1, <2>1, LoaderDecides DEF Promised
    <2>4. boot_state' \in Blocked => flash.block
      BY <1>1, <2>1, <2>2, LoaderDecides DEF Went, Promised, Blocked, Commands
    <2>5. boot_state' \in {"arm", "handOver"} => image_valid'
      <3>1. boot_state' = "handOver" => boot_state = "arm"
        BY <2>1, <2>2 DEF Went, Commands
      <3>2. boot_state' \in {"arm", "handOver"} => boot_state # "imageCheck"
        BY <2>2 DEF Went, Commands
      <3> QED
        BY <1>1, <2>1, <3>1, <3>2, LoaderDecides DEF Promised
    <2>6. boot_state' = "handOver" => armed'
      BY <1>1, <2>1, LoaderDecides
    <2> QED
      BY <2>3, <2>4, <2>5, <2>6 DEF Promised, contents
  <1>2. CASE ~boot_active
    BY <1>2, LoaderRests DEF Promised, contents
  <1> QED
    BY <1>1, <1>2

LEMMA LoaderStaysTyped ==
    ASSUME BootTypeOK, LoaderTyped, UNCHANGED contents, NEW w, RemoteUpdate(w), ParametersIn,
           IF image = "factory" THEN BootLoader ELSE UNCHANGED loader,
           Bridge(w), chip_select_asserted => unlocked, fx3_wait' \in 0 .. ShiftClocks,
           w.to \in {"unlock", "data"} => w.data \in Int, w.to = "control" => w.select \in BOOLEAN
    PROVE  LoaderTyped'
  <1> USE BootAssumption
  <1>1. /\ boot_state' \in States /\ byte_index' \in Nat /\ LoaderMayWrite(boot_window')
        /\ boot_state' = "settle" => byte_index' = 0
        /\ boot_state' = "unlock" => byte_index' \in 0 .. 3
        /\ boot_state' \in {"headerCommand", "imageCommand"} => byte_index' \in 0 .. 1
        /\ image' = "application" => boot_state' = "settle"
    <2>1. CASE boot_active
      <3>1. Went /\ LoaderMayWrite(boot_window') /\ byte_index' \in Nat
        BY <2>1, LoaderWent DEF boot_active
      <3>2. boot_state' \in States
        BY <3>1 DEF Went, LoaderTyped, States, Before, Blocked, Commands
      <3>3. boot_state' = "settle" => byte_index' = 0
        BY <3>1 DEF Went, LoaderTyped, Commands
      <3>4. boot_state' = "unlock" => byte_index' \in 0 .. 3
        BY <3>1 DEF Went, LoaderTyped, Commands
      <3>5. boot_state' \in {"headerCommand", "imageCommand"} => byte_index' \in 0 .. 1
        BY <3>1 DEF Went, LoaderTyped, Commands
      <3> QED
        BY <2>1, <3>1, <3>2, <3>3, <3>4, <3>5 DEF boot_active, contents
    <2>2. CASE ~boot_active
      <3>1. boot_state' = boot_state /\ byte_index' = byte_index /\ image' = image
        BY <2>2, LoaderRests DEF contents
      <3>2. LoaderMayWrite(boot_window')
        <4>1. boot_window' = boot_window \/ boot_window' = NoWrite
          BY <2>2, LoaderRests
        <4> QED
          BY <4>1, LoaderWrites DEF LoaderTyped
      <3> QED
        BY <3>1, <3>2 DEF LoaderTyped
    <2> QED
      BY <2>1, <2>2
  <1>2. /\ header' \in Seq(Int)
        /\ boot_state' \in Before => header' = <<>>
        /\ boot_state' = "headerData" =>
             byte_index' <= BootBlockBytes /\ Len(header') = (IF byte_index' = 0 THEN 0 ELSE byte_index' - 1)
    <2>1. CASE boot_active
      <3>1. Went /\ BootLoader
        BY <2>1, LoaderWent DEF boot_active
      <3>2. header \in Seq(Int) /\ received_byte \in Int /\ byte_index \in Nat
        BY DEF LoaderTyped
      <3>3. Append(header, received_byte) \in Seq(Int)
            /\ Len(Append(header, received_byte)) = Len(header) + 1
        BY <3>2
      <3>4. CASE boot_state = "headerData"
        <4>1. byte_index <= BootBlockBytes /\ Len(header) = (IF byte_index = 0 THEN 0 ELSE byte_index - 1)
          BY <3>4 DEF LoaderTyped
        <4>2. CASE boot_state' = "headerData"
          <5>1. \/ ~bridge_idle /\ byte_index' = byte_index
                \/ bridge_idle /\ byte_index' = byte_index + 1 /\ byte_index # BootBlockBytes
            BY <3>1, <3>4, <4>2 DEF Went, Commands
          <5>2. /\ header' = IF byte_index > 0 /\ bridge_idle THEN Append(header, received_byte)
                             ELSE header
            BY <2>1, <3>1, <3>4, LoaderDecides
          <5>3. header' \in Seq(Int)
            BY <3>2, <3>3, <5>2
          <5>4. Len(header') = (IF byte_index' = 0 THEN 0 ELSE byte_index' - 1)
            BY <3>2, <3>3, <4>1, <5>1, <5>2
          <5>5. byte_index' <= BootBlockBytes
            BY <3>2, <4>1, <5>1
          <5>6. boot_state' \notin Before
            BY <4>2 DEF Before
          <5> QED
            BY <5>3, <5>4, <5>5, <5>6
        <4>3. CASE boot_state' # "headerData"
          <5>1. boot_state' \notin Before
            BY <3>1, <3>4, <4>3 DEF Went, Commands, Before
          <5>2. header' \in {header, Append(header, received_byte)}
            BY <2>1, <3>1, <3>4, LoaderDecides
          <5> QED
            BY <3>2, <3>3, <4>3, <5>1, <5>2
        <4> QED
          BY <4>2, <4>3
      <3>5. CASE boot_state # "headerData"
        <4>1. header' = header
          BY <2>1, <3>1, <3>5, LoaderDecides
        <4>2. boot_state' \in Before => boot_state \in Before
          BY <3>1 DEF Went, Commands, Before
        <4>3. boot_state' = "headerData" => boot_state = "headerCommand" /\ byte_index' = 0
          BY <3>1, <3>5 DEF Went, Commands
        <4>4. boot_state = "headerCommand" => header = <<>>
          BY DEF LoaderTyped, Before
        <4>5. header' \in Seq(Int)
          BY <3>2, <4>1
        <4>6. boot_state' \in Before => header' = <<>>
          BY <4>1, <4>2 DEF LoaderTyped
        <4>7. boot_state' = "headerData" => byte_index' = 0 /\ Len(header') = 0
          <5>1. Len(<<>>) = 0
            OBVIOUS
          <5> QED
            BY <4>1, <4>3, <4>4, <5>1
        <4> QED
          BY <4>5, <4>6, <4>7
      <3> QED
        BY <3>4, <3>5
    <2>2. CASE ~boot_active
      BY <2>2, LoaderRests DEF LoaderTyped
    <2> QED
      BY <2>1, <2>2
  <1>3. received_byte' \in Int
    BY BridgeStep
  <1>4. /\ DOMAIN shift' = {"left", "data", "by", "nth"} /\ shift'.data \in Int
        /\ chip'.heard \in Nat /\ chip'.at \in Int
    BY ShiftStep
  <1>5. /\ reconfigure_hold' \in Nat /\ block'.asked \in 0 .. ReconfigClocks
        /\ block_busy_sync' \in BOOLEAN \X BOOLEAN
    BY BlockStep
  <1>6. read_timer' \in Nat
    BY ParametersStep
  <1> QED
    BY <1>1, <1>2, <1>3, <1>4, <1>5, <1>6 DEF LoaderTyped

\* A clock of the FX3's, once the loader has decided
LEMMA Fx3Clock ==
    ASSUME BootTypeOK, LoaderTyped, Fx3Owns, HandingOver, ~boot_active, ~Reconfigured,
           NEW w, Firmware(w), Bridge(w), RemoteUpdate(w),
           boot_state' = boot_state, image' = image
    PROVE  LoaderOwns' /\ Fx3Owns' /\ HandingOver'
  <1> USE BootAssumption
  <1>1. ~boot_active' /\ (HandsOver' <=> HandsOver)
    BY DEF boot_active, HandsOver
  <1>2. chip_select_asserted => unlocked
    BY DEF Fx3Owns
  <1>3. /\ fx3_step \in 0 .. 16 /\ fx3_wait \in 0 .. ShiftClocks
        /\ chip.heard \in Nat /\ shift.left \in 0 .. ShiftClocks
        /\ unlock_progress \in 0 .. 3 /\ block.asked \in 0 .. ReconfigClocks
        /\ (bridge_busy <=> shift.left > 0) /\ (bridge_busy' <=> shift'.left > 0)
        /\ unlocked \in BOOLEAN /\ chip_select_asserted \in BOOLEAN
    BY OperationIs, TheSequence DEF BootTypeOK, LoaderTyped, bridge_busy
  <1>4. /\ w.to \in {"none", "reconfigure", "unlock", "control", "data"}
        /\ \/ /\ w.to = "none" /\ fx3_step' = fx3_step
              /\ fx3_wait' = (IF fx3_wait > 0 THEN fx3_wait - 1 ELSE 0)
           \/ /\ w.to = "reconfigure" /\ fx3_step = 0 /\ fx3_step' = 0
              /\ fx3_wait = 0 /\ fx3_wait' = ShiftClocks
           \/ /\ w.to \in {"unlock", "control", "data"}
              /\ fx3_step' = (IF fx3_step = 16 THEN 0 ELSE fx3_step + 1)
              /\ fx3_wait = 0 /\ fx3_wait' = ShiftClocks
        /\ w.to = "control" => \/ w.select = TRUE /\ fx3_step \in {4, 7, 11}
                               \/ w.select = FALSE /\ fx3_step \in {6, 10, 14, 15}
        /\ w.to = "data" => /\ fx3_step \in {5, 8, 9, 12, 13}
                            /\ w.nth = (IF fx3_step \in {9, 13} THEN 2 ELSE 1)
    BY FirmwareWrites
  <1>5. /\ w.to = "unlock" => w.data \in Int
        /\ w.to = "control" => w.select \in BOOLEAN
        /\ w.to = "data" => w.data \in Int
    BY FirmwareWrites
  <1>6. /\ unlock_progress' \in 0 .. 3 /\ unlocked' \in BOOLEAN
        /\ w.to # "unlock" => UNCHANGED <<unlock_progress, unlocked>>
        /\ w.to = "unlock" => chip_select_asserted' = FALSE /\ unlock_progress' <= unlock_progress + 1
        /\ w.to = "unlock" /\ unlocked' => unlock_progress = 3
        /\ chip_select_asserted' \in BOOLEAN /\ (chip_select_asserted' => unlocked')
        /\ w.to \in {"none", "data", "reconfigure"} => UNCHANGED chip_select_asserted
        /\ w.to = "control" =>
              chip_select_asserted' = (IF unlocked THEN w.select ELSE chip_select_asserted)
    BY <1>2, <1>5, BridgeStep
  <1>7. /\ shift'.left \in 0 .. ShiftClocks /\ chip'.heard \in Nat
        /\ bridge_busy => shift'.left = shift.left - 1 /\ shift'.nth = shift.nth
        /\ ~bridge_busy /\ w.to = "data" /\ chip_select_asserted =>
             shift'.left = ShiftClocks /\ shift'.nth = w.nth
        /\ ~bridge_busy /\ (w.to # "data" \/ ~chip_select_asserted) => shift' = shift
        /\ ~chip_select_asserted => chip'.heard = 0
        /\ chip_select_asserted =>
             chip'.heard = (IF shift.left = 1 THEN chip.heard + 1 ELSE chip.heard)
    BY <1>2, <1>5, ShiftStep
  <1>8. shift.left <= fx3_wait
    BY DEF Fx3Owns
  <1>9. shift'.left <= fx3_wait'
    <2>1. CASE bridge_busy
      BY <1>3, <1>4, <1>7, <1>8, <2>1
    <2>2. CASE ~bridge_busy
      <3>1. shift.left = 0 /\ fx3_wait' \in Nat
        BY <1>3, <1>4, <2>2
      <3>2. CASE w.to = "data" /\ chip_select_asserted
        BY <1>4, <1>7, <2>2, <3>2
      <3>3. CASE ~(w.to = "data" /\ chip_select_asserted)
        BY <1>7, <2>2, <3>1, <3>3
      <3> QED
        BY <3>2, <3>3
    <2> QED
      BY <2>1, <2>2
  <1>10. chip_select_asserted' =>
           /\ unlocked' /\ Selecting'
           /\ IF bridge_busy' THEN shift'.nth = Sent' /\ chip'.heard + 1 = Sent'
              ELSE chip'.heard = Sent'
    <2> SUFFICES ASSUME chip_select_asserted'
                 PROVE  /\ Selecting'
                        /\ IF bridge_busy' THEN shift'.nth = Sent' /\ chip'.heard + 1 = Sent'
                           ELSE chip'.heard = Sent'
      BY <1>6
    <2>1. CASE ~chip_select_asserted
      <3>1. w.to = "control" /\ w.select = TRUE /\ fx3_step \in {4, 7, 11}
        BY <1>4, <1>6, <2>1
      <3>2. fx3_step' = fx3_step + 1 /\ fx3_wait = 0
        BY <1>4, <3>1
      <3>3. Sent' = 0 /\ Selecting'
        BY <3>1, <3>2 DEF Sent, Selecting
      <3>4. ~bridge_busy'
        BY <1>3, <1>7, <1>8, <3>1, <3>2
      <3> QED
        BY <1>7, <2>1, <3>3, <3>4
    <2>2. CASE chip_select_asserted
      <3>1. /\ Selecting /\ unlocked
            /\ IF bridge_busy THEN shift.nth = Sent /\ chip.heard + 1 = Sent
               ELSE chip.heard = Sent
        BY <2>2 DEF Fx3Owns
      <3>2. w.to \in {"none", "data"}
        <4>1. w.to # "reconfigure"
          BY <1>4, <3>1 DEF Selecting
        <4>2. w.to # "unlock"
          BY <1>6
        <4>3. w.to # "control"
          <5>1. w.to = "control" => w.select = FALSE
            BY <1>4, <3>1 DEF Selecting
          <5> QED
            BY <1>6, <3>1, <5>1
        <4> QED
          BY <1>4, <4>1, <4>2, <4>3
      <3>3. CASE w.to = "none"
        <4>1. Sent' = Sent /\ Selecting'
          BY <1>4, <3>1, <3>3 DEF Sent, Selecting
        <4>2. CASE bridge_busy
          BY <1>3, <1>7, <2>2, <3>1, <4>1, <4>2
        <4>3. CASE ~bridge_busy
          <5>1. shift' = shift /\ shift.left = 0
            BY <1>3, <1>7, <3>3, <4>3
          <5> QED
            BY <1>3, <1>7, <2>2, <3>1, <4>1, <4>3, <5>1
        <4> QED
          BY <4>2, <4>3
      <3>4. CASE w.to = "data"
        <4>1. /\ fx3_step \in {5, 8, 9, 12, 13} /\ fx3_step' = fx3_step + 1 /\ fx3_wait = 0
              /\ w.nth = (IF fx3_step \in {9, 13} THEN 2 ELSE 1)
          BY <1>4, <3>4
        <4>2. shift.left = 0 /\ ~bridge_busy
          BY <1>3, <1>8, <4>1
        <4>3. shift'.left = ShiftClocks /\ shift'.nth = w.nth /\ chip'.heard = chip.heard
          BY <1>7, <2>2, <3>4, <4>2
        <4>4. Sent' = w.nth /\ Sent' = Sent + 1 /\ Selecting'
          BY <4>1 DEF Sent, Selecting
        <4> QED
          BY <1>3, <3>1, <4>2, <4>3, <4>4
      <3> QED
        BY <3>2, <3>3, <3>4
    <2> QED
      BY <2>1, <2>2
  <1>11. Fx3Owns'
    BY <1>9, <1>10 DEF Fx3Owns
  <1>12. ASSUME HandsOver
         PROVE  /\ ~unlocked' /\ reconfigure_hold' = HoldClocks
                /\ unlock_progress' > 0 =>
                     block'.asked + 1 >= (unlock_progress' - 1) * (ShiftClocks + 1)
                                          + 1 + (ShiftClocks - fx3_wait')
    <2>1. reconfigure_hold' = HoldClocks
      BY <1>12, BlockStep DEF reconfigure_now, HandsOver
    <2>2. /\ ~unlocked
          /\ \/ reconfigure_hold = 0 /\ block.asked = 0 /\ unlock_progress = 0
             \/ /\ reconfigure_hold = HoldClocks
                /\ unlock_progress > 0 =>
                     block.asked + 1 >= (unlock_progress - 1) * (ShiftClocks + 1)
                                        + 1 + (ShiftClocks - fx3_wait)
      BY <1>12 DEF HandingOver
    <2>3. block.asked < ReconfigClocks /\ ReconfigClocks \in Nat
      BY <1>3 DEF Reconfigured
    <2>4. block'.asked = IF reconfigure_hold = 0 THEN 0 ELSE block.asked + 1
      BY <2>3, BlockStep
    <2>5. ~unlocked'
      <3>1. unlock_progress = 3 /\ fx3_wait = 0 => block.asked + 1 >= 2 * (ShiftClocks + 1) + 1 + ShiftClocks
        BY <1>3, <2>2
      <3>2. unlock_progress = 3 => fx3_wait # 0
        BY <1>3, <2>3, <3>1
      <3> QED
        BY <1>4, <1>6, <2>2, <3>2
    <2>6. ASSUME unlock_progress' > 0
          PROVE  block'.asked + 1 >= (unlock_progress' - 1) * (ShiftClocks + 1)
                                      + 1 + (ShiftClocks - fx3_wait')
      <3>1. CASE reconfigure_hold = 0 /\ block.asked = 0 /\ unlock_progress = 0
        <4>1. w.to = "unlock"
          BY <1>6, <2>6, <3>1
        <4>2. unlock_progress' = 1 /\ fx3_wait' = ShiftClocks
          BY <1>4, <1>6, <2>6, <3>1, <4>1
        <4> QED
          BY <2>4, <3>1, <4>2
      <3>2. CASE /\ reconfigure_hold = HoldClocks
                 /\ unlock_progress > 0 =>
                      block.asked + 1 >= (unlock_progress - 1) * (ShiftClocks + 1)
                                         + 1 + (ShiftClocks - fx3_wait)
        <4>1. block'.asked = block.asked + 1
          BY <2>3, <2>4, <3>2
        <4>2. CASE w.to = "unlock"
          <5>1. fx3_wait = 0 /\ fx3_wait' = ShiftClocks /\ unlock_progress' <= unlock_progress + 1
            BY <1>4, <1>6, <4>2
          <5>2. unlock_progress' \in {1, 2, 3} /\ unlock_progress \in {0, 1, 2, 3}
            BY <1>3, <1>6, <2>6
          <5>3. /\ unlock_progress = 1 => block.asked + 1 >= 1 + ShiftClocks
                /\ unlock_progress = 2 => block.asked + 1 >= (ShiftClocks + 1) + 1 + ShiftClocks
                /\ unlock_progress = 3 => block.asked + 1 >= 2 * (ShiftClocks + 1) + 1 + ShiftClocks
            BY <3>2, <5>1
          <5> QED
            BY <1>3, <4>1, <5>1, <5>2, <5>3
        <4>3. CASE w.to # "unlock"
          <5>1. unlock_progress' = unlock_progress
            BY <1>6, <4>3
          <5>2. fx3_wait' >= fx3_wait - 1 /\ fx3_wait' \in Int
            BY <1>3, <1>4
          <5>3. unlock_progress \in {1, 2, 3}
            BY <1>3, <2>6, <5>1
          <5> QED
            BY <1>3, <3>2, <4>1, <5>1, <5>2, <5>3
        <4> QED
          BY <4>2, <4>3
      <3> QED
        BY <2>2, <3>1, <3>2
    <2> QED
      BY <2>1, <2>5, <2>6
  <1>13. HandingOver'
    BY <1>1, <1>12 DEF HandingOver
  <1>14. LoaderOwns'
    BY <1>1 DEF LoaderOwns
  <1> QED
    BY <1>11, <1>13, <1>14

\* The header never grows past the block it was read from
LEMMA HeaderFits ==
    ASSUME BootTypeOK, LoaderTyped,
           IF image = "factory" THEN BootLoader ELSE UNCHANGED loader
    PROVE  /\ Len(header') <= BootBlockBytes
           /\ settle_count' \in 0 .. SettleClocks /\ Len(crc_byte') <= 1
           /\ image_valid' \in BOOLEAN /\ shift_started' \in BOOLEAN
  <1> USE BootAssumption
  <1>1. Len(header) <= BootBlockBytes /\ settle_count \in 0 .. SettleClocks
    BY DEF BootTypeOK
  <1>2. CASE ~boot_active
    BY <1>1, <1>2, LoaderRests
  <1>3. CASE boot_active
    <2>1. BootLoader
      BY <1>3 DEF boot_active
    <2>2. Len(header') <= BootBlockBytes
      <3>1. header' = header \/ (boot_state = "headerData" /\ byte_index > 0
                                 /\ header' = Append(header, received_byte))
        BY <1>3, <2>1, LoaderDecides
      <3>2. header \in Seq(Int) /\ received_byte \in Int /\ byte_index \in Nat
            /\ (boot_state = "headerData" =>
                  byte_index <= BootBlockBytes /\ Len(header) = (IF byte_index = 0 THEN 0 ELSE byte_index - 1))
        BY DEF LoaderTyped
      <3>3. Len(Append(header, received_byte)) = Len(header) + 1
        BY <3>2
      <3>4. CASE header' = header
        BY <1>1, <3>4
      <3>5. CASE boot_state = "headerData" /\ byte_index > 0 /\ header' = Append(header, received_byte)
        <4>1. Len(header) = byte_index - 1 /\ byte_index <= BootBlockBytes
          BY <3>2, <3>5
        <4> QED
          BY <3>2, <3>3, <3>5, <4>1
      <3> QED
        BY <3>1, <3>4, <3>5
    <2>3. settle_count' \in 0 .. SettleClocks /\ Len(crc_byte') <= 1 /\ image_valid' \in BOOLEAN
      BY <1>3, <2>1, LoaderDecides
    <2>4. shift_started' \in BOOLEAN
      BY <1>3, <2>1, LoaderWent
    <2> QED
      BY <2>2, <2>3, <2>4
  <1> QED
    BY <1>2, <1>3

LEMMA ClockKeeps == BootInv /\ Clocks => BootInv'
  <1> SUFFICES ASSUME BootInv, Clocks
               PROVE  BootInv'
    OBVIOUS
  <1> USE BootAssumption
  <1>0. /\ BootTypeOK /\ LoaderTyped /\ Promised /\ ParametersIn
        /\ LoaderOwns /\ Fx3Owns /\ HandingOver
    BY DEF BootInv
  <1>1. /\ ~Reconfigured /\ UNCHANGED contents /\ image' = image
        /\ IF image = "factory" THEN BootLoader ELSE UNCHANGED loader
    BY DEF Clocks, contents
  <1>2. PICK write : Firmware(write) /\ Bridge(Window(write)) /\ RemoteUpdate(Window(write))
    BY DEF Clocks
  <1> DEFINE w == Window(write)
  <1>3. /\ boot_active => w = boot_window
        /\ ~boot_active => w = write
    BY DEF Window
  <1> HIDE DEF w
  <1>4. Bridge(w) /\ RemoteUpdate(w)
    BY <1>2 DEF w
  <1>5. /\ fx3_step' \in 0 .. 16 /\ fx3_wait' \in 0 .. ShiftClocks /\ triggers' \in 0 .. MaxTriggers
        /\ write.to = "unlock" => write.data \in Int
        /\ write.to = "control" => write.select \in BOOLEAN
        /\ write.to = "data" => write.data \in Int
    BY <1>0, <1>2, FirmwareWrites
  <1>6. /\ w.to \in {"unlock", "data"} => w.data \in Int
        /\ w.to = "control" => w.select \in BOOLEAN
    <2>1. CASE boot_active
      BY <1>0, <1>3, <2>1 DEF LoaderTyped, LoaderMayWrite
    <2>2. CASE ~boot_active
      BY <1>3, <1>5, <2>2
    <2> QED
      BY <2>1, <2>2
  <1>7. chip_select_asserted => unlocked
    BY <1>0 DEF LoaderOwns, Fx3Owns
  <1>8. LoaderTyped'
    BY <1>0, <1>1, <1>4, <1>5, <1>6, <1>7, LoaderStaysTyped
  <1>9. /\ ParametersIn' /\ writing' \in 0 .. 6 /\ write_pending' \in BOOLEAN
        /\ armed' \in BOOLEAN /\ (armed => armed')
    BY <1>0, <1>4, ParametersStep
  <1>10. Promised'
    BY <1>0, <1>1, <1>9, PromisesKept
  <1>11. LoaderOwns' /\ Fx3Owns' /\ HandingOver'
    <2>1. CASE boot_active
      <3>1. BootLoader /\ Bridge(boot_window) /\ RemoteUpdate(boot_window) /\ fx3_wait' \in Nat
        BY <1>1, <1>3, <1>4, <1>5, <2>1 DEF boot_active
      <3> QED
        BY <1>0, <1>1, <2>1, <3>1, LoaderClock
    <2>2. CASE ~boot_active
      <3>1. Bridge(write) /\ RemoteUpdate(write) /\ boot_state' = boot_state
        BY <1>0, <1>1, <1>3, <1>4, <2>2, LoaderRests
      <3> QED
        BY <1>0, <1>1, <1>2, <2>2, <3>1, Fx3Clock
    <2> QED
      BY <2>1, <2>2
  <1>12. BootTypeOK'
    <2>1. flash' \in Contents /\ image' \in {"factory", "application"}
      BY <1>0, <1>1 DEF BootTypeOK, contents
    <2>2. /\ Len(header') <= BootBlockBytes
          /\ settle_count' \in 0 .. SettleClocks /\ Len(crc_byte') <= 1
          /\ image_valid' \in BOOLEAN /\ shift_started' \in BOOLEAN
      BY <1>0, <1>1, HeaderFits
    <2>3. /\ unlock_progress' \in 0 .. 3 /\ unlocked' \in BOOLEAN
          /\ chip_select_asserted' \in BOOLEAN
      BY <1>0, <1>4, <1>6, <1>7, BridgeStep
    <2>4. shift'.left \in 0 .. ShiftClocks
      BY <1>0, <1>4, <1>6, <1>7, ShiftStep
    <2>5. block'.phase \in 0 .. 3 /\ block'.busy \in 0 .. 2
      <3>1. block.phase \in 0 .. 3
        BY <1>0 DEF BootTypeOK
      <3>2. block'.phase = (IF block.phase = 3 THEN 0 ELSE block.phase + 1)
            /\ (block'.busy \in 1 .. 2 \/ block'.busy \in 0 .. 2)
        BY <1>0, <1>4, BlockStep
      <3> QED
        BY <3>1, <3>2
    <2>6. Len(UnlockSequence) - 1 = 3 /\ Len(Parameters) + 1 = 6 /\ Len(Operation) - 1 = 16
      BY TheSequence, OperationIs
    <2>7. {shift_started', image_valid', unlocked', chip_select_asserted', write_pending', armed'}
             \subseteq BOOLEAN
      BY <1>9, <2>2, <2>3, Zenon
    <2> QED
      BY <1>5, <1>9, <2>1, <2>2, <2>3, <2>4, <2>5, <2>6, <2>7 DEF BootTypeOK, Contents
  <1> QED
    BY <1>8, <1>9, <1>10, <1>11, <1>12 DEF BootInv

-----------------------------------------------------------------------------
(* The device, as it is configured *)

\* However it comes up, nothing is promised, selected or asked for
ComesUp ==
    /\ Configured /\ flash \in Contents /\ image \in {"factory", "application"}
    /\ fx3_step \in 0 .. 16 /\ fx3_wait \in 0 .. ShiftClocks /\ triggers \in 0 .. MaxTriggers

LEMMA ConfiguredIsSafe == ComesUp => BootInv
  <1> SUFFICES ASSUME ComesUp
               PROVE  BootInv
    OBVIOUS
  <1> USE BootAssumption, TheSequence, OperationIs DEF ComesUp, Configured
  <1>1. Len(<<>>) = 0 /\ <<>> \in Seq(Int)
    OBVIOUS
  <1>2. BootTypeOK
    <2>1. {shift_started, image_valid, unlocked, chip_select_asserted, write_pending, armed}
             \subseteq BOOLEAN
      OBVIOUS
    <2> QED
      BY <1>1, <2>1 DEF BootTypeOK
  <1>3. LoaderTyped
    <2>1. LoaderMayWrite(boot_window)
      BY LoaderWrites
    <2>2. block_busy_sync \in BOOLEAN \X BOOLEAN
      OBVIOUS
    <2>3. chip.heard \in Nat /\ chip.at \in Int /\ shift.data \in Int
          /\ DOMAIN shift = {"left", "data", "by", "nth"}
      BY DEF Unselected, Noise
    <2> QED
      BY <1>1, <2>1, <2>2, <2>3 DEF LoaderTyped, States, Before
  <1>4. Promised
    BY DEF Promised, Blocked
  <1>5. ParametersIn
    <2>1. ~block_busy_sync[1] /\ ~block_busy_sync[2]
      OBVIOUS
    <2> QED
      BY <2>1 DEF ParametersIn
  <1>6. LoaderOwns
    <2>1. boot_window.to = "none" /\ ~bridge_busy
      BY LoaderWrites DEF bridge_busy
    <2> QED
      BY <2>1 DEF LoaderOwns
  <1>7. Fx3Owns
    BY DEF Fx3Owns
  <1>8. HandingOver
    BY DEF HandingOver, HandsOver
  <1> QED
    BY <1>2, <1>3, <1>4, <1>5, <1>6, <1>7, <1>8 DEF BootInv

LEMMA ReconfigurationKeeps == BootInv /\ Reconfigures => BootInv'
  <1> SUFFICES ASSUME BootInv, Reconfigures
               PROVE  BootInv'
    OBVIOUS
  <1> USE BootAssumption
  <1>1. /\ flash \in Contents /\ fx3_step \in 0 .. 16 /\ fx3_wait \in 0 .. ShiftClocks
        /\ triggers \in 0 .. MaxTriggers
    BY OperationIs DEF BootInv, BootTypeOK, LoaderTyped
  <1>2. flash' \in Contents /\ image' \in {"factory", "application"}
    <2>1. flash' \in Contents
      BY <1>1 DEF Reconfigures
    <2>2. image' \in {"factory", "application"}
      BY DEF Reconfigures
    <2> QED
      BY <2>1, <2>2
  <1>3. fx3_step' \in 0 .. 16 /\ fx3_wait' \in 0 .. ShiftClocks /\ triggers' \in 0 .. MaxTriggers
    BY <1>1 DEF Reconfigures, firmware
  <1>4. Configured'
    BY DEF Reconfigures, Resets, Configured, Unselected
  <1>5. ComesUp'
    BY <1>2, <1>3, <1>4 DEF ComesUp
  <1> QED
    BY <1>5, ConfiguredIsSafe, PTL

-----------------------------------------------------------------------------

\* What the loader, the bridge, the update block and the firmware hold to
\* at every clock, whatever the sizes, the times and the contents of the flash.
THEOREM BootInvariant == BootSpec => []BootInv
  <1>1. BootInit => BootInv
    BY ConfiguredIsSafe, BootAssumption DEF BootInit, BootStart, ComesUp
  <1>2. BootInv /\ [BootNext]_bootVars => BootInv'
    <2> SUFFICES ASSUME BootInv, [BootNext]_bootVars
                 PROVE  BootInv'
      OBVIOUS
    <2>1. CASE BootNext
      BY <2>1, ClockKeeps, ReconfigurationKeeps DEF BootNext
    <2>2. CASE UNCHANGED bootVars
      <3> USE <2>2 DEF bootVars, contents, loader, bridge, update, firmware
      <3>1. BootTypeOK'
        BY DEF BootInv, BootTypeOK
      <3>2. LoaderTyped'
        BY DEF BootInv, LoaderTyped
      <3>3. Promised' /\ ParametersIn'
        BY DEF BootInv, Promised, ParametersIn
      <3>4. LoaderOwns'
        BY DEF BootInv, LoaderOwns, boot_active, bridge_busy, Issued
      <3>5. Fx3Owns'
        BY DEF BootInv, Fx3Owns, boot_active, bridge_busy, Sent, Selecting
      <3>6. HandingOver'
        BY DEF BootInv, HandingOver, HandsOver
      <3> QED
        BY <3>1, <3>2, <3>3, <3>4, <3>5, <3>6 DEF BootInv
    <2> QED
      BY <2>1, <2>2
  <1> QED
    BY <1>1, <1>2, PTL DEF BootSpec

\* The flash is safe: the application image is asked for only of a flash whose
\* boot block and image passed, with every parameter in the update block and
\* the bridge locked (bootLoader.v, from StateImageCheck on), and no command on the
\* flash is cut in two by the change of masters (flashBridge.v), for every constant.
THEOREM FlashAlwaysSafe == BootSpec => []FlashIsSafe
  <1>1. BootInv => FlashIsSafe
    <2> SUFFICES ASSUME BootInv
                 PROVE  FlashIsSafe
      OBVIOUS
    <2>1. HandOverIsSafe
      <3> SUFFICES ASSUME HandsOver
                   PROVE  flash.block /\ flash.image /\ HasAll /\ ~unlocked
        BY DEF HandOverIsSafe
      <3>1. flash.block /\ flash.image /\ armed
        BY DEF BootInv, Promised, HandsOver, Blocked
      <3>2. HasAll
        <4>1. DOMAIN Parameters = 1 .. 5 /\ writing > 5 /\ writing \in Int
          BY <3>1, TheSequence DEF BootInv, ParametersIn, Parameters, BootTypeOK
        <4>2. \A k \in 1 .. 5 : k < writing
          BY <4>1
        <4>3. \A k \in 1 .. 5 : Parameters[k] \in block.set
          BY <4>2, TheSequence DEF BootInv, ParametersIn
        <4>4. block.set \subseteq {Parameters[k] : k \in 1 .. 5}
          BY TheSequence DEF BootInv, ParametersIn
        <4> QED
          BY <4>1, <4>3, <4>4 DEF HasAll
      <3>3. ~unlocked
        BY DEF BootInv, HandingOver
      <3> QED
        BY <3>1, <3>2, <3>3
    <2>2. CommandsAreWhole
      <3> SUFFICES ASSUME bridge_busy, chip_select_asserted
                   PROVE  shift.nth = chip.heard + 1
        BY DEF CommandsAreWhole
      <3>1. CASE boot_active
        BY <3>1 DEF BootInv, LoaderOwns, Commands
      <3>2. CASE ~boot_active
        BY <3>2 DEF BootInv, Fx3Owns
      <3> QED
        BY <3>1, <3>2
    <2> QED
      BY <2>1, <2>2 DEF FlashIsSafe, BootInv
  <1> QED
    BY <1>1, BootInvariant, PTL
=============================================================================
