---------------------------- MODULE StatsPublisher ----------------------------
(***************************************************************************)
(* The sequence lock of ddd-gui/src/capture/monitor_tap.cpp: one writer    *)
(* that never waits and readers that retry. StatsPublisher and             *)
(* TelemetryPublisher are the same algorithm over different values.        *)
(*                                                                         *)
(* The value is plain memory, copied while it may be written to: it is a   *)
(* set of words that are written, and read, one at a time in any order.    *)
(* The fences on either side keep a word from leaving its bracket.         *)
(***************************************************************************)
EXTENDS Integers

CONSTANTS
    Words,          \* the words of value_
    Readers,        \* the threads that call Read
    MaxPublished    \* bound: values published

ASSUME PublisherAssumption == Words # {} /\ MaxPublished \in Nat

VARIABLES
    sequence,       \* sequence_
    value,          \* value_, each word as the number of the value it is of
    published,      \* values whose publication has begun
    left,           \* the words the writer has still to write
    wPc,
    rPc, before, copied, copy

writerVars == <<sequence, value, published, left, wPc>>
readerVars == <<rPc, before, copied, copy>>
statsVars == <<writerVars, readerVars>>

StatsInit ==
    /\ sequence = 0 /\ published = 0
    /\ value = [w \in Words |-> 0]
    /\ left = {} /\ wPc = "idle"
    /\ rPc = [r \in Readers |-> "idle"]
    /\ before = [r \in Readers |-> 0]
    /\ copied = [r \in Readers |-> {}]
    /\ copy = [r \in Readers |-> [w \in Words |-> 0]]

-----------------------------------------------------------------------------
(* Publish *)

\* Mutant: the counter is not made odd first
BeginPublishSilently ==
    /\ wPc = "idle" /\ published < MaxPublished
    /\ sequence' = sequence
    /\ published' = published + 1
    /\ left' = Words
    /\ wPc' = "writing"
    /\ UNCHANGED <<value, readerVars>>

BeginPublish ==
    /\ wPc = "idle" /\ published < MaxPublished
    /\ sequence' = sequence + 1
    /\ published' = published + 1
    /\ left' = Words
    /\ wPc' = "writing"
    /\ UNCHANGED <<value, readerVars>>

WriteWord(w) ==
    /\ wPc = "writing" /\ w \in left
    /\ value' = [value EXCEPT ![w] = published]
    /\ left' = left \ {w}
    /\ UNCHANGED <<sequence, published, wPc, readerVars>>

EndPublish ==
    /\ wPc = "writing" /\ left = {}
    /\ sequence' = sequence + 1
    /\ wPc' = "idle"
    /\ UNCHANGED <<value, published, left, readerVars>>

Writer == BeginPublish \/ (\E w \in Words : WriteWord(w)) \/ EndPublish

-----------------------------------------------------------------------------
(* Read *)

BeginRead(r) ==
    /\ rPc[r] = "idle"
    /\ rPc' = [rPc EXCEPT ![r] = "load"]
    /\ UNCHANGED <<writerVars, before, copied, copy>>

\* An odd counter is loaded again
LoadBefore(r) ==
    /\ rPc[r] = "load" /\ sequence % 2 = 0
    /\ before' = [before EXCEPT ![r] = sequence]
    /\ copied' = [copied EXCEPT ![r] = {}]
    /\ rPc' = [rPc EXCEPT ![r] = "copy"]
    /\ UNCHANGED <<writerVars, copy>>

CopyWord(r, w) ==
    /\ rPc[r] = "copy" /\ w \in Words \ copied[r]
    /\ copy' = [copy EXCEPT ![r][w] = value[w]]
    /\ copied' = [copied EXCEPT ![r] = @ \cup {w}]
    /\ UNCHANGED <<writerVars, rPc, before>>

Settled(r) == rPc[r] = "copy" /\ copied[r] = Words /\ sequence = before[r]

CheckAfter(r) ==
    /\ rPc[r] = "copy" /\ copied[r] = Words
    /\ rPc' = [rPc EXCEPT ![r] = IF sequence = before[r] THEN "idle" ELSE "load"]
    /\ UNCHANGED <<writerVars, before, copied, copy>>

Reader(r) == LoadBefore(r) \/ (\E w \in Words : CopyWord(r, w)) \/ CheckAfter(r)

StatsNext == Writer \/ (\E r \in Readers : BeginRead(r) \/ Reader(r))

StatsSpec == StatsInit /\ [][StatsNext]_statsVars

-----------------------------------------------------------------------------
StatsTypeOK ==
    /\ sequence \in Nat /\ published \in Nat
    /\ value \in [Words -> Nat]
    /\ left \subseteq Words /\ wPc \in {"idle", "writing"}
    /\ rPc \in [Readers -> {"idle", "load", "copy"}]
    /\ before \in [Readers -> Nat]
    /\ copied \in [Readers -> SUBSET Words]
    /\ copy \in [Readers -> [Words -> Nat]]

(***************************************************************************)
(* A read that is about to be accepted is no mixture of two publications:  *)
(* what it copied is, word for word, the value as it stands, and that is   *)
(* the last one published, whole (monitor_tap.cpp:43-49).                  *)
(***************************************************************************)
ReadIsSettled ==
    \A r \in Readers : Settled(r) =>
        copy[r] = value /\ \A w \in Words : value[w] = published
=============================================================================
