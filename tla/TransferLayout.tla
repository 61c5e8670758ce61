---------------------------- MODULE TransferLayout ----------------------------
(***************************************************************************)
(* PlanTransferLayout (ddd-gui/src/capture/usb_device.cpp): how the slots  *)
(* of the ring are divided into USB transfers. "Getting the stride wrong   *)
(* by one produces a capture that is subtly interleaved rather than one    *)
(* that fails." Sizes are in endpoint packets, which every size is a whole *)
(* number of once the two early refusals are past.                         *)
(***************************************************************************)
EXTENDS Integers, FiniteSetsExt

\* The first count of transfers the nudging loop of usb_device.cpp starts from
FirstTransfersPerSlot(slot_packets, target_packets) ==
    (slot_packets + target_packets - 1) \div target_packets

\* "Nudge upwards until it divides"
TransfersPerSlot(slot_packets, target_packets) ==
    Min({n \in FirstTransfersPerSlot(slot_packets, target_packets) .. slot_packets :
            slot_packets % n = 0})

AtMost(m, n) == IF m < n THEN m ELSE n
AtLeast(m, n) == IF m > n THEN m ELSE n

\* Mutant: one slot held back where two are needed
SlotSpanTight(slot_count, slot_packets, small_transfers, queue_packets) ==
    IF small_transfers
    THEN AtMost(AtLeast(1, queue_packets \div slot_packets), slot_count)
    ELSE slot_count - 1

SlotSpan(slot_count, slot_packets, small_transfers, queue_packets) ==
    IF small_transfers
    THEN AtMost(AtLeast(1, queue_packets \div slot_packets), slot_count - 2)
    ELSE slot_count - 1

FirstSlot(slot_count, discard_slots) == (slot_count - discard_slots) % slot_count

PlanTransferLayout(slot_packets, slot_count, target_packets, options) ==
    LET transfers_per_slot ==
            IF options.small_transfers
            THEN TransfersPerSlot(slot_packets, target_packets) ELSE 1
        slot_span == SlotSpan(slot_count, slot_packets, options.small_transfers,
                              options.transfer_queue_packets)
        discard_slots == AtMost(options.discard_slots, slot_count)
    IN [valid              |-> slot_count >= 4,
        transfers_per_slot |-> transfers_per_slot,
        slot_span          |-> slot_span,
        transfer_count     |-> transfers_per_slot * slot_span,
        discard_transfers  |-> discard_slots * transfers_per_slot,
        discard_slots      |-> discard_slots,
        first_slot_index   |-> FirstSlot(slot_count, discard_slots)]
=============================================================================
