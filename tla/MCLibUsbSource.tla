--------------------------- MODULE MCLibUsbSource ---------------------------
(***************************************************************************)
(* Layouts for TLC over a ring of four two-packet slots: two transfers to  *)
(* a slot, in one slot or two, or one transfer to a slot; with a slot      *)
(* discarded or none; and once with the telemetry polled.                  *)
(***************************************************************************)
EXTENDS LibUsbSource

Option(small, packets, discard, polls) ==
    [small_transfers |-> small, transfer_queue_packets |-> packets,
     discard_slots |-> discard, polls |-> polls]

SplitSlots == {Option(TRUE, 2, 0, FALSE)}
WholeSlots == {Option(FALSE, 4, 1, FALSE)}

AllLayouts == {Option(TRUE, 2, 0, TRUE), Option(TRUE, 2, 1, FALSE),
               Option(TRUE, 4, 0, FALSE)} \cup WholeSlots
=============================================================================
