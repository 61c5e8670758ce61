--------------------------- MODULE SnapshotPublisher ---------------------------
(***************************************************************************)
(* SnapshotPublisher (ddd-gui/src/capture/monitor_tap.{h,cpp}): three      *)
(* buffers, one the writer's, one the reader's, and one between them, in   *)
(* an atomic that holds its index and a flag that says it is new. Filling  *)
(* and reading a buffer are taken a word at a time.                        *)
(***************************************************************************)
EXTENDS Integers

CONSTANTS
    SnapshotWords,  \* the words of a buffer
    MaxSnapshots    \* bound: snapshots published

ASSUME SnapshotAssumption == SnapshotWords # {} /\ MaxSnapshots \in Nat

Indices == 0 .. 2
kFreshFlag == 4

VARIABLES
    buffers,        \* buffers_, each word as the number of the snapshot it is of
    generation,     \* generation_
    write_index, read_index, ready,
    filled,         \* the words the writer has filled
    tPc, taken, out

fillerVars == <<generation, write_index, filled>>
takerVars == <<read_index, tPc, taken, out>>
snapshotVars == <<buffers, ready, fillerVars, takerVars>>

IndexOf(packed) == packed % kFreshFlag
Fresh(packed) == packed >= kFreshFlag

SnapshotInit ==
    /\ buffers = [i \in Indices |-> [w \in SnapshotWords |-> 0]]
    /\ generation = 0
    /\ write_index = 0 /\ read_index = 1 /\ ready = 2
    /\ filled = {}
    /\ tPc = "idle" /\ taken = {} /\ out = [w \in SnapshotWords |-> 0]

-----------------------------------------------------------------------------
(* Publish *)

FillWord(w) ==
    /\ generation < MaxSnapshots
    /\ w \in SnapshotWords \ filled
    /\ buffers' = [buffers EXCEPT ![write_index][w] = generation + 1]
    /\ filled' = filled \cup {w}
    /\ UNCHANGED <<generation, write_index, ready, takerVars>>

\* Mutant: a store where the exchange is
StoreReady ==
    /\ filled = SnapshotWords
    /\ generation' = generation + 1
    /\ ready' = write_index + kFreshFlag
    /\ write_index' = (write_index + 1) % 3
    /\ filled' = {}
    /\ UNCHANGED <<buffers, takerVars>>

HandOver ==
    /\ filled = SnapshotWords
    /\ generation' = generation + 1
    /\ ready' = write_index + kFreshFlag
    /\ write_index' = IndexOf(ready)
    /\ filled' = {}
    /\ UNCHANGED <<buffers, takerVars>>

-----------------------------------------------------------------------------
(* TryRead *)

\* Mutant: what is ready is taken, new or not
CheckNothing ==
    /\ tPc = "idle"
    /\ tPc' = "take"
    /\ UNCHANGED <<buffers, ready, fillerVars, read_index, taken, out>>

CheckFresh ==
    /\ tPc = "idle" /\ Fresh(ready)
    /\ tPc' = "take"
    /\ UNCHANGED <<buffers, ready, fillerVars, read_index, taken, out>>

TakeReady ==
    /\ tPc = "take"
    /\ ready' = read_index
    /\ read_index' = IndexOf(ready)
    /\ taken' = {}
    /\ tPc' = "copy"
    /\ UNCHANGED <<buffers, fillerVars, out>>

CopySnapshotWord(w) ==
    /\ tPc = "copy"
    /\ w \in SnapshotWords \ taken
    /\ out' = [out EXCEPT ![w] = buffers[read_index][w]]
    /\ taken' = taken \cup {w}
    /\ UNCHANGED <<buffers, ready, fillerVars, read_index, tPc>>

EndRead ==
    /\ tPc = "copy" /\ taken = SnapshotWords
    /\ tPc' = "idle"
    /\ UNCHANGED <<buffers, ready, fillerVars, read_index, taken, out>>

SnapshotNext == (\E w \in SnapshotWords : FillWord(w) \/ CopySnapshotWord(w))
        \/ HandOver \/ CheckFresh \/ TakeReady \/ EndRead

SnapshotSpec == SnapshotInit /\ [][SnapshotNext]_snapshotVars

-----------------------------------------------------------------------------
SnapshotTypeOK ==
    /\ buffers \in [Indices -> [SnapshotWords -> Nat]]
    /\ generation \in Nat
    /\ write_index \in Indices /\ read_index \in Indices
    /\ ready \in Indices \cup {4, 5, 6}
    /\ filled \subseteq SnapshotWords /\ taken \subseteq SnapshotWords
    /\ tPc \in {"idle", "take", "copy"} /\ out \in [SnapshotWords -> Nat]

(***************************************************************************)
(* "the writer always has a buffer nobody is reading, the reader always    *)
(* has one nobody is writing" (monitor_tap.h:152-153): the three are three.*)
(***************************************************************************)
NobodyShares ==
    /\ write_index # read_index
    /\ IndexOf(ready) \notin {write_index, read_index}

(***************************************************************************)
(* What a read has taken is one snapshot's: it is never torn by a         *)
(* publication, however many pass while the reader is at it.               *)
(***************************************************************************)
SnapshotIsWhole ==
    tPc = "copy" => \A w \in taken : \A x \in SnapshotWords : out[w] = buffers[read_index][x]

(***************************************************************************)
(* A read that succeeds brings a newer snapshot than the last one did.     *)
(***************************************************************************)
EachReadIsNewer ==
    [][TakeReady => \A w \in SnapshotWords : buffers[read_index'][w] > out[w]]_snapshotVars
=============================================================================
