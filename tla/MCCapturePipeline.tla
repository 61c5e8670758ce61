-------------------------- MODULE MCCapturePipeline --------------------------
(***************************************************************************)
(* Option records for TLC: every fault on its own, at the first buffer and *)
(* the second, the ramp check on where a fault concerns it; a sink that    *)
(* fails at its first buffer or its third, at Finish, or at both; and the  *)
(* pairs in which two failures race to be the one reported.                *)
(***************************************************************************)
EXTENDS CapturePipeline

OneOption(fault, at, test_mode, write_fails_at, finish_fails) ==
    [fault |-> fault, fault_at_slot |-> at, test_mode |-> test_mode,
     write_fails_at |-> write_fails_at, finish_fails |-> finish_fails]

RaceOptions ==
    {OneOption(f, 1, f = "rampBreak", SlotLimit, FALSE) : f \in Faults}
    \cup {OneOption(f, 0, FALSE, SlotLimit, FALSE) : f \in {"sequenceBreak", "rampBreak"}}
    \cup {OneOption(None, 1, FALSE, w, fails) : w \in {0, 2}, fails \in BOOLEAN}
    \cup {OneOption(None, 1, FALSE, SlotLimit, TRUE)}
    \cup {OneOption(f, 1, FALSE, 0, TRUE) : f \in {"stall", "sequenceBreak", "transferFailure"}}
=============================================================================
