--------------------------- MODULE DiskBufferRing ---------------------------
(***************************************************************************)
(* The slots of ddd-gui/src/capture/disk_buffer_ring.{h,cpp}: one atomic   *)
(* state per slot, and the read-modify-write each public operation does on *)
(* it. There is no lock, so an operation is a few atomic steps; this       *)
(* module gives the steps that touch a slot, and the modules that model    *)
(* the threads (RingHandoff, CapturePipeline, LibUsbSource) say in what    *)
(* order a thread takes them.                                              *)
(*                                                                         *)
(* A blocked wait is a guard: std::atomic::wait returns once the value is  *)
(* not the one observed, every change is followed by a notify_all, and the *)
(* loop reloads the value after every wake.                                *)
(***************************************************************************)
EXTENDS Naturals

CONSTANT SlotCount      \* geometry_.slot_count

ASSUME SlotCountAssumption == SlotCount \in Nat \ {0}

VARIABLE slotState      \* slots_[i].state

Slots == 0 .. SlotCount - 1

SlotStates == {"empty", "full", "dumped", "aborted"}

\* (slot_index + 1) % slot_count
NextSlot(i) == IF i = SlotCount - 1 THEN 0 ELSE i + 1

RingInit == slotState = [i \in Slots |-> "empty"]

(***************************************************************************)
(* WaitForSlotFree: true once the slot is empty, false once it is aborted, *)
(* blocked in between.                                                     *)
(***************************************************************************)
\* Mutant: the wait ends whenever the slot is not full
SlotIsNotFull(i) == slotState[i] # "full"

SlotIsFree(i) == slotState[i] = "empty"
FreeWaitAborted(i) == slotState[i] = "aborted"

(***************************************************************************)
(* WaitForSlotFull: returns once the slot is not empty, and true only if   *)
(* it holds data.                                                          *)
(***************************************************************************)
SlotHasData(i) == slotState[i] = "full"
SlotReleased(i) == slotState[i] \in {"dumped", "aborted"}

(***************************************************************************)
(* MarkSlotFull's compare-exchange and the three ways it ends.             *)
(***************************************************************************)
FillResult(i) == CASE slotState[i] = "empty"   -> "handedOver"
                   [] slotState[i] = "aborted" -> "aborted"
                   [] OTHER                    -> "overflow"

CasEmptyToFull(i) ==
    slotState' = IF slotState[i] = "empty"
                 THEN [slotState EXCEPT ![i] = "full"]
                 ELSE slotState

(***************************************************************************)
(* MarkSlotFree's two compare-exchanges: full or dumped becomes empty, and *)
(* an aborted slot stays aborted.                                          *)
(***************************************************************************)
CasToEmpty(i) ==
    slotState' = IF slotState[i] \in {"full", "dumped"}
                 THEN [slotState EXCEPT ![i] = "empty"]
                 ELSE slotState

\* One turn of the loop in MarkEmptySlotsDumped
CasEmptyToDumped(i) ==
    slotState' = IF slotState[i] = "empty"
                 THEN [slotState EXCEPT ![i] = "dumped"]
                 ELSE slotState

\* One turn of the loop in Abort: an unconditional store
\* Mutant: a compare-exchange from empty where the store is
CasEmptyToAborted(i) ==
    slotState' = [slotState EXCEPT ![i] = IF @ = "empty" THEN "aborted" ELSE @]

StoreAborted(i) == slotState' = [slotState EXCEPT ![i] = "aborted"]

(***************************************************************************)
(* The whole of the two loops, for the modules that do not interleave the  *)
(* other threads with their turns.                                         *)
(***************************************************************************)
DumpEmptySlots ==
    slotState' = [i \in Slots |-> IF slotState[i] = "empty" THEN "dumped"
                                                            ELSE slotState[i]]

AbortSlots == slotState' = [i \in Slots |-> "aborted"]
=============================================================================
