----------------------------- MODULE RingHandoff -----------------------------
(***************************************************************************)
(* The two worker threads of a capture meeting in a DiskBufferRing         *)
(* (ddd-gui/src/capture/disk_buffer_ring.cpp), one atomic operation of the *)
(* ring to a step: the transfer thread filling slots in order, the         *)
(* processing thread emptying them in order, the control thread padding    *)
(* the ring once the producer has gone, and whoever tears it down.         *)
(*                                                                         *)
(* put, got and data are history: how many buffers were handed over and    *)
(* given back, and which buffer's bytes a slot holds. No guard reads them  *)
(* except the bound SlotLimit, which is SyntheticSource's own slot_limit.  *)
(***************************************************************************)
EXTENDS Integers, DiskBufferRing

CONSTANT SlotLimit      \* options_.slot_limit: buffers the source delivers

ASSUME SlotLimitAssumption == SlotLimit \in Nat

VARIABLES
    pPc, pSlot,             \* the transfer thread: step, slot_index
    pResult,                \* what its Run returned
    cPc, cSlot,             \* the processing thread: step, slot_index
    cQuit,                  \* it is leaving its loop on a failure of its own
    cTold,                  \* WaitForSlotFull answered it "nothing more"
    abort_requested,        \* CapturePipeline::abort_requested_
    ring_abort, abortAt,    \* the ring's abort_requested_ and Abort's loop index
    dumpAt,                 \* MarkEmptySlotsDumped's loop index
    slots_filled, slots_freed, peak_slots_in_use,
    put, got, data

producerVars == <<pPc, pSlot, pResult>>
consumerVars == <<cPc, cSlot, cQuit, cTold>>
shutdownVars == <<abort_requested, ring_abort, abortAt, dumpAt>>
counterVars  == <<slots_filled, slots_freed, peak_slots_in_use>>
historyVars  == <<put, got, data>>

vars == <<slotState, producerVars, consumerVars, shutdownVars, counterVars,
          historyVars>>

Stale == -1             \* what a slot holds before anything was written to it

Init ==
    /\ RingInit
    /\ pPc = "top" /\ pSlot = 0 /\ pResult = "running"
    /\ cPc = "top" /\ cSlot = 0 /\ cQuit = FALSE /\ cTold = FALSE
    /\ abort_requested = FALSE /\ ring_abort = FALSE /\ abortAt = 0
    /\ dumpAt = SlotCount
    /\ slots_filled = 0 /\ slots_freed = 0 /\ peak_slots_in_use = 0
    /\ put = 0 /\ got = 0 /\ data = [i \in Slots |-> Stale]

-----------------------------------------------------------------------------
(* The transfer thread: SyntheticSource::Run *)

PReturn(result) ==
    /\ pPc' = "done"
    /\ pResult' = result
    /\ UNCHANGED pSlot

PStep(next) ==
    /\ pPc' = next
    /\ UNCHANGED <<pSlot, pResult>>

\* An abort is noticed at the top of the loop
PAborted ==
    /\ pPc = "top" /\ (abort_requested \/ ring_abort)
    /\ PReturn("aborted")
    /\ UNCHANGED <<slotState, consumerVars, shutdownVars, counterVars,
                   historyVars>>

\* Stop requested, slot limit reached, or a transfer failed before the wait
PStop ==
    /\ pPc = "top" /\ ~abort_requested /\ ~ring_abort
    /\ \E result \in {"success", "failed"} : PReturn(result)
    /\ UNCHANGED <<slotState, consumerVars, shutdownVars, counterVars,
                   historyVars>>

PGoOn ==
    /\ pPc = "top" /\ ~abort_requested /\ ~ring_abort
    /\ put < SlotLimit
    /\ PStep("wait")
    /\ UNCHANGED <<slotState, consumerVars, shutdownVars, counterVars,
                   historyVars>>

PWait ==
    /\ pPc = "wait"
    /\ \/ SlotIsFree(pSlot) /\ PStep("fill")
       \/ FreeWaitAborted(pSlot) /\ PReturn("aborted")
    /\ UNCHANGED <<slotState, consumerVars, shutdownVars, counterVars,
                   historyVars>>

\* The slot's bytes are written; a short delivery ends the run here
PFill ==
    /\ pPc = "fill"
    /\ PStep("cas") \/ PReturn("failed")
    /\ data' = [data EXCEPT ![pSlot] = put]
    /\ UNCHANGED <<slotState, consumerVars, shutdownVars, counterVars, put, got>>

\* MarkSlotFull's compare-exchange
PHandOver ==
    /\ pPc = "cas"
    /\ CasEmptyToFull(pSlot)
    /\ IF FillResult(pSlot) = "handedOver"
       THEN put' = put + 1 /\ PStep("count")
       ELSE put' = put /\ PReturn(FillResult(pSlot))
    /\ UNCHANGED <<consumerVars, shutdownVars, counterVars, got, data>>

PCount ==
    /\ pPc = "count"
    /\ slots_filled' = slots_filled + 1
    /\ PStep("peak")
    /\ UNCHANGED <<slotState, consumerVars, shutdownVars, slots_freed,
                   peak_slots_in_use, historyVars>>

\* Mutant: the depth taken from the value fetch_add returns
PPeakOneShort ==
    LET in_use == slots_filled - 1 - slots_freed IN
    /\ pPc = "peak"
    /\ peak_slots_in_use' = IF in_use > peak_slots_in_use THEN in_use
                                                          ELSE peak_slots_in_use
    /\ pPc' = "top"
    /\ pSlot' = NextSlot(pSlot)
    /\ UNCHANGED <<slotState, pResult, consumerVars, shutdownVars, slots_filled,
                   slots_freed, historyVars>>

\* slots_freed_ is read here, later than the fetch_add; the loop that raises
\* the peak has no other writer to race
PPeak ==
    LET in_use == slots_filled - slots_freed IN
    /\ pPc = "peak"
    /\ peak_slots_in_use' = IF in_use > peak_slots_in_use THEN in_use
                                                          ELSE peak_slots_in_use
    /\ pPc' = "top"
    /\ pSlot' = NextSlot(pSlot)
    /\ UNCHANGED <<slotState, pResult, consumerVars, shutdownVars, slots_filled,
                   slots_freed, historyVars>>

Producer == PAborted \/ PStop \/ PGoOn \/ PWait \/ PFill \/ PHandOver
            \/ PCount \/ PPeak

-----------------------------------------------------------------------------
(* The processing thread: ProcessingThread's loop *)

\* break, or slot_index moves on and the loop goes round
CNextTurn ==
    /\ IF cQuit THEN cPc' = "done" /\ cSlot' = cSlot
                ELSE cPc' = "top" /\ cSlot' = NextSlot(cSlot)
    /\ UNCHANGED <<cQuit, cTold>>

CTop ==
    /\ cPc = "top"
    /\ cPc' = IF abort_requested THEN "done" ELSE "wait"
    /\ UNCHANGED <<slotState, producerVars, cSlot, cQuit, cTold, shutdownVars,
                   counterVars, historyVars>>

CWait ==
    /\ cPc = "wait"
    /\ \/ SlotHasData(cSlot) /\ cPc' = "read" /\ cTold' = cTold
       \/ SlotReleased(cSlot) /\ cPc' = "done" /\ cTold' = TRUE
    /\ UNCHANGED <<slotState, producerVars, cSlot, cQuit, shutdownVars,
                   counterVars, historyVars>>

\* Validate, verify, snapshot, write: any of them may end the loop
CRead ==
    /\ cPc = "read"
    /\ cPc' = "free"
    /\ cQuit' \in BOOLEAN
    /\ UNCHANGED <<slotState, producerVars, cSlot, cTold, shutdownVars,
                   counterVars, historyVars>>

\* MarkSlotFree's compare-exchange; an aborted slot is not counted
CFree ==
    /\ cPc = "free"
    /\ CasToEmpty(cSlot)
    /\ got' = got + 1
    /\ IF slotState[cSlot] = "full"
       THEN cPc' = "count" /\ UNCHANGED <<cSlot, cQuit, cTold>>
       ELSE CNextTurn
    /\ UNCHANGED <<producerVars, shutdownVars, counterVars, put, data>>

CCount ==
    /\ cPc = "count"
    /\ slots_freed' = slots_freed + 1
    /\ CNextTurn
    /\ UNCHANGED <<slotState, producerVars, shutdownVars, slots_filled,
                   peak_slots_in_use, historyVars>>

Consumer == CTop \/ CWait \/ CRead \/ CFree \/ CCount

-----------------------------------------------------------------------------
(* Shutdown: CapturePipeline::Abort and the control thread *)

\* The flag goes up before the ring is torn down
RequestAbort ==
    /\ pPc # "done" \/ cPc # "done"
    /\ ~abort_requested
    /\ abort_requested' = TRUE
    /\ UNCHANGED <<slotState, producerVars, consumerVars, ring_abort, abortAt,
                   dumpAt, counterVars, historyVars>>

\* Ring::Abort, entered after the flag, or by the control thread to release a
\* producer whose consumer has gone. A second caller's loop stores the same
\* value to the same slots, so one loop stands for all of them.
BeginAbort ==
    /\ ~ring_abort
    /\ abort_requested \/ (cPc = "done" /\ pPc # "done")
    /\ ring_abort' = TRUE
    /\ UNCHANGED <<slotState, producerVars, consumerVars, abort_requested,
                   abortAt, dumpAt, counterVars, historyVars>>

AbortSlot ==
    /\ ring_abort /\ abortAt < SlotCount
    /\ StoreAborted(abortAt)
    /\ abortAt' = abortAt + 1
    /\ UNCHANGED <<producerVars, consumerVars, abort_requested, ring_abort,
                   dumpAt, counterVars, historyVars>>

\* Mutant: the ring is padded while the producer still fills it
BeginDumpEarly ==
    /\ cPc # "done"
    /\ dumpAt = SlotCount
    /\ dumpAt' = 0
    /\ UNCHANGED <<slotState, producerVars, consumerVars, abort_requested,
                   ring_abort, abortAt, counterVars, historyVars>>

\* Once the producer is gone, every turn of the control loop pads the ring
BeginDump ==
    /\ pPc = "done" /\ cPc # "done"
    /\ dumpAt = SlotCount
    /\ dumpAt' = 0
    /\ UNCHANGED <<slotState, producerVars, consumerVars, abort_requested,
                   ring_abort, abortAt, counterVars, historyVars>>

DumpSlot ==
    /\ dumpAt < SlotCount
    /\ CasEmptyToDumped(dumpAt)
    /\ dumpAt' = dumpAt + 1
    /\ UNCHANGED <<producerVars, consumerVars, abort_requested, ring_abort,
                   abortAt, counterVars, historyVars>>

\* Both threads joined and no loop half done: the ring is idle for good
Finished ==
    /\ pPc = "done" /\ cPc = "done" /\ dumpAt = SlotCount
    /\ ring_abort => abortAt = SlotCount
    /\ abort_requested => ring_abort
    /\ UNCHANGED vars

Next == Producer \/ Consumer \/ RequestAbort \/ BeginAbort \/ AbortSlot
        \/ BeginDump \/ DumpSlot \/ Finished

(***************************************************************************)
(* Every thread is scheduled, and an Abort once entered runs on; nobody    *)
(* has to call it.                                                         *)
(***************************************************************************)
Fairness ==
    /\ WF_vars(Producer)
    /\ WF_vars(Consumer)
    /\ WF_vars(BeginAbort \/ AbortSlot)
    /\ WF_vars(BeginDump \/ DumpSlot)

Spec == Init /\ [][Next]_vars
FairSpec == Spec /\ Fairness

-----------------------------------------------------------------------------
(* What the ring promises *)

PcOfProducer == {"top", "wait", "fill", "cas", "count", "peak", "done"}
PcOfConsumer == {"top", "wait", "read", "free", "count", "done"}
Results == {"running", "success", "failed", "aborted", "overflow"}

TypeOK ==
    /\ slotState \in [Slots -> SlotStates]
    /\ pPc \in PcOfProducer /\ pSlot \in Slots /\ pResult \in Results
    /\ cPc \in PcOfConsumer /\ cSlot \in Slots
    /\ cQuit \in BOOLEAN /\ cTold \in BOOLEAN
    /\ abort_requested \in BOOLEAN /\ ring_abort \in BOOLEAN
    /\ abortAt \in 0 .. SlotCount /\ dumpAt \in 0 .. SlotCount
    /\ slots_filled \in Nat /\ slots_freed \in Nat
    /\ peak_slots_in_use \in Nat
    /\ put \in Nat /\ got \in Nat
    /\ data \in [Slots -> Nat \cup {Stale}]

\* The producer may write to its slot, the consumer read and rewrite its own
ProducerOwns == pPc \in {"fill", "cas"}
ConsumerOwns == cPc \in {"read", "free"}

(***************************************************************************)
(* The bytes of a slot are never touched by both threads at once, whatever *)
(* else is tearing the ring down ("No one may touch a slot outside those   *)
(* two windows", disk_buffer_ring.h:116).                                  *)
(***************************************************************************)
NoSharedSlot == ProducerOwns /\ ConsumerOwns => pSlot # cSlot

(***************************************************************************)
(* The buffer being processed is the next one that was handed over, whole: *)
(* none skipped, none twice, none overwritten while it waited.             *)
(***************************************************************************)
InOrder == ConsumerOwns => got < put /\ data[cSlot] = got

(***************************************************************************)
(* MarkSlotFull never finds a slot still full: waiting for the slot to be  *)
(* free first leaves kOverflow for a second producer only.                 *)
(***************************************************************************)
NoOverflow == pResult # "overflow"

(***************************************************************************)
(* The dump that releases a stopping consumer costs it nothing: told there *)
(* is nothing more, it has had every buffer that was handed over, unless   *)
(* the ring was torn down.                                                 *)
(***************************************************************************)
GracefulDrain == cTold /\ ~ring_abort => pPc = "done" /\ got = put

(***************************************************************************)
(* The two counters agree with the handoffs to within the one fetch_add    *)
(* each side may still owe, so the depth the consumer samples on its way   *)
(* in is at most one short; at rest they are equal to what was handed over *)
(* and given back.                                                         *)
(***************************************************************************)
CountersTrack ==
    /\ slots_filled = IF pPc = "count" THEN put - 1 ELSE put
    /\ ~ring_abort => slots_freed = IF cPc = "count" THEN got - 1 ELSE got

(***************************************************************************)
(* The high-water mark is never below the backlog the producer left when   *)
(* it last handed a slot over.                                             *)
(***************************************************************************)
PeakCoversBacklog ==
    pPc \notin {"count", "peak"} => peak_slots_in_use >= put - got

(***************************************************************************)
(* Abort leaves no path back: a slot it has stored stays aborted, and so   *)
(* is not fillable again.                                                  *)
(***************************************************************************)
AbortIsFinal ==
    [][\A i \in Slots : slotState[i] = "aborted" => slotState'[i] = "aborted"]_vars

(***************************************************************************)
(* Once the producer has returned, for any reason, the consumer is         *)
(* released; and a teardown releases both ("this cannot leave a waiter     *)
(* behind however the scheduler orders it", disk_buffer_ring.cpp:189).     *)
(* None of the three is ever undone, so that to hold again and again is to *)
(* follow sooner or later.                                                 *)
(***************************************************************************)
Released ==
    /\ pPc = "done" => cPc = "done"
    /\ ring_abort => pPc = "done" /\ cPc = "done"
EveryoneIsReleased == []<>Released

(***************************************************************************)
(* What the header says of the mark: "The high-water mark" of "Slots       *)
(* currently holding data the consumer has not finished with"              *)
(* (disk_buffer_ring.h:162-167), which cannot be more slots than there are.*)
(***************************************************************************)
PeakWithinRing == peak_slots_in_use <= SlotCount

-----------------------------------------------------------------------------
(* RingHandoff implements BoundedHandoff *)

Handoff == INSTANCE BoundedHandoff WITH
    Capacity <- SlotCount,
    borrowed <- IF ConsumerOwns THEN got ELSE -1,
    closed   <- pPc = "done",
    torn     <- ring_abort,
    ended    <- cTold

(***************************************************************************)
(* Slots, compare-exchanges, padding and teardown together are a bounded   *)
(* first-in first-out handoff.                                             *)
(***************************************************************************)
ImplementsHandoff == Handoff!HSpec

-----------------------------------------------------------------------------
(* The inductive invariant behind them *)

Wrap(n) == IF n >= SlotCount THEN n - SlotCount ELSE n

Lag == put - got

\* The slots the next buffer given back, and the next handed over, are in
CNext == IF cPc = "count" \/ (cPc = "done" /\ cQuit) THEN NextSlot(cSlot) ELSE cSlot
PNext == IF pPc \in {"count", "peak"} THEN NextSlot(pSlot) ELSE pSlot

\* How many slots after CNext slot i comes round
Ahead(i) == IF i >= CNext THEN i - CNext ELSE i - CNext + SlotCount

\* The Lag slots from CNext on hold the buffers in flight, in order
Layout ==
    /\ got <= put /\ Lag <= SlotCount
    /\ PNext = Wrap(CNext + Lag)
    /\ \A i \in Slots :
        /\ slotState[i] = "full" => Ahead(i) < Lag
        /\ slotState[i] \in {"empty", "dumped"} => Ahead(i) >= Lag
        /\ Ahead(i) < Lag => data[i] = got + Ahead(i)

Windows ==
    /\ pPc \in {"fill", "cas"} =>
         slotState[pSlot] \in {"empty", "aborted"} /\ Lag < SlotCount
    /\ pPc = "cas" => data[pSlot] = put
    /\ pPc \in {"count", "peak"} => put > 0
    /\ cPc \in {"read", "free"} =>
         slotState[cSlot] \in {"full", "aborted"} /\ Lag > 0
    /\ cPc = "count" => got > 0
    /\ cQuit => cPc \in {"free", "count", "done"}
    /\ cTold => cPc = "done" /\ ~cQuit

Teardown ==
    /\ \A i \in Slots : slotState[i] = "aborted" => ring_abort
    /\ \A i \in Slots : slotState[i] = "dumped" => pPc = "done"
    /\ dumpAt < SlotCount => pPc = "done"

RingInv ==
    /\ TypeOK /\ Layout /\ Windows /\ Teardown
    /\ NoOverflow /\ GracefulDrain /\ CountersTrack
=============================================================================
