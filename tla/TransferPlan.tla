----------------------------- MODULE TransferPlan -----------------------------
(***************************************************************************)
(* PlanTransferLayout run a step at a time, its nudging loop included, and *)
(* the transfers LibUsbSource::Prepare lays out from it, over every input  *)
(* up to the bounds: what the plan must be for the ring to be rolled over  *)
(* slot by slot.                                                           *)
(***************************************************************************)
EXTENDS TransferLayout

CONSTANTS
    MaxSlotPackets, MaxSlots, MaxTarget     \* bounds on the inputs

ASSUME PlanAssumption ==
    MaxSlotPackets \in Nat \ {0} /\ MaxSlots \in Nat \ {0} /\ MaxTarget \in Nat \ {0}

VARIABLES
    slot_packets, slot_count, target_packets, options,  \* the inputs
    transfers_per_slot,                                 \* the loop's variable
    planned

planVars == <<slot_packets, slot_count, target_packets, options, transfers_per_slot,
              planned>>

PlanInit ==
    /\ slot_packets \in 1 .. MaxSlotPackets
    /\ slot_count \in 4 .. MaxSlots
    /\ target_packets \in 1 .. MaxTarget
    /\ options \in [small_transfers : BOOLEAN, discard_slots : 0 .. MaxSlots + 1,
                    transfer_queue_packets : {0, slot_packets, 2 * slot_packets + 1,
                                              MaxSlots * slot_packets}]
    /\ transfers_per_slot = IF options.small_transfers
                            THEN FirstTransfersPerSlot(slot_packets, target_packets) ELSE 1
    /\ planned = FALSE

Divides == slot_packets % transfers_per_slot = 0

Nudge ==
    /\ ~planned /\ ~Divides
    /\ transfers_per_slot' = transfers_per_slot + 1
    /\ UNCHANGED <<slot_packets, slot_count, target_packets, options, planned>>

Settle ==
    /\ ~planned /\ Divides
    /\ planned' = TRUE
    /\ UNCHANGED <<slot_packets, slot_count, target_packets, options, transfers_per_slot>>

Done == planned /\ UNCHANGED planVars

PlanNext == Nudge \/ Settle \/ Done

PlanLayout == PlanTransferLayout(slot_packets, slot_count, target_packets, options)

\* Prepare: the t-th transfer's place (t from 0), and where the one that
\* completes as the t-th of the run is aimed next
Place(t) == [slot  |-> (PlanLayout.first_slot_index + t \div PlanLayout.transfers_per_slot)
                           % slot_count,
             index |-> t % PlanLayout.transfers_per_slot]

AimedNext(place) == [place EXCEPT !.slot = (@ + PlanLayout.slot_span) % slot_count]

-----------------------------------------------------------------------------
(***************************************************************************)
(* The loop stops, for "at worst it reaches packets_per_slot, one packet   *)
(* per transfer" (usb_device.cpp:82), and it stops at the count of the     *)
(* reference definition: the fewest transfers that divide the slot evenly  *)
(* and are no larger than the target.                                      *)
(***************************************************************************)
LoopFindsTheFewest ==
    /\ transfers_per_slot <= slot_packets
    /\ planned => /\ transfers_per_slot = PlanLayout.transfers_per_slot
                  /\ slot_packets % transfers_per_slot = 0
                  /\ options.small_transfers =>
                       slot_packets \div transfers_per_slot <= target_packets

(***************************************************************************)
(* The fixed set of transfers rolls through the ring in one unbroken order *)
(* whatever the layout: the transfer resubmitted after the t-th completes  *)
(* is where the (t + transfer_count)-th belongs.                           *)
(***************************************************************************)
RollsInOrder ==
    \A t \in 0 .. 2 * PlanLayout.transfer_count :
        AimedNext(Place(t)) = Place(t + PlanLayout.transfer_count)

(***************************************************************************)
(* The first slot past the discarded ones is slot zero, the one the        *)
(* consumer starts at (usb_device.h:82-88).                                *)
(***************************************************************************)
FirstKeptIsSlotZero == Place(PlanLayout.discard_transfers) = [slot |-> 0, index |-> 0]

(***************************************************************************)
(* A transfer that is aimed next is aimed at a slot no other transfer in   *)
(* flight is in, and at least one slot is left for the consumer.           *)
(***************************************************************************)
LeavesOneForTheConsumer ==
    /\ PlanLayout.slot_span \in 1 .. slot_count - 1
    /\ \A t \in 0 .. PlanLayout.transfer_count - 1 :
         t # 0 => AimedNext(Place(0)) # Place(t)

\* What the roll through the ring rests on
PlanIsSafe ==
    LoopFindsTheFewest /\ RollsInOrder /\ FirstKeptIsSlotZero /\ LeavesOneForTheConsumer
=============================================================================
