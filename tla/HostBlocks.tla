------------------------------ MODULE HostBlocks ------------------------------
(***************************************************************************)
(* Parts of the host's program that meet only through what each promises,  *)
(* for TLC: the ring between the two threads of a capture (RingHandoff),   *)
(* what its processing thread shows the rest (StatsPublisher and           *)
(* SnapshotPublisher), the two sequential algorithms (SequenceValidator,   *)
(* TransferPlan), the automatic capture of a side (AutoCapture), and a     *)
(* capture run from a script (CaptureControl, ControlSocket). A behaviour  *)
(* of the run exercises one of them, and the others stand still.           *)
(***************************************************************************)
EXTENDS RingHandoff, StatsPublisher, SnapshotPublisher, SequenceValidator, TransferPlan,
        AutoCapture, CaptureControl, ControlSocket

VARIABLE exercised      \* which part

blockVars == <<vars, statsVars, snapshotVars, sequenceVars, planVars, autoVars, controlVars,
               socketVars, exercised>>

Here(part, Action) == exercised = part /\ Action
Exercise(part, Action) == Here(part, Action) /\ UNCHANGED exercised

Ring(Action) ==
    /\ Exercise("ring", Action)
    /\ UNCHANGED <<statsVars, snapshotVars, sequenceVars, planVars, autoVars, controlVars, socketVars>>
Stats ==
    /\ Exercise("stats", StatsNext)
    /\ UNCHANGED <<vars, snapshotVars, sequenceVars, planVars, autoVars, controlVars, socketVars>>
Snapshots ==
    /\ Exercise("snapshots", SnapshotNext)
    /\ UNCHANGED <<vars, statsVars, sequenceVars, planVars, autoVars, controlVars, socketVars>>
Validate ==
    /\ Exercise("validator", ValidatorNext)
    /\ UNCHANGED <<vars, statsVars, snapshotVars, planVars, autoVars, controlVars, socketVars>>
Plan ==
    /\ Exercise("plan", PlanNext)
    /\ UNCHANGED <<vars, statsVars, snapshotVars, sequenceVars, autoVars, controlVars, socketVars>>
Side(Action) ==
    /\ Exercise("side", Action)
    /\ UNCHANGED <<vars, statsVars, snapshotVars, sequenceVars, planVars, controlVars, socketVars>>
Script(Action) ==
    /\ Exercise("script", Action)
    /\ UNCHANGED <<vars, statsVars, snapshotVars, sequenceVars, planVars, autoVars, socketVars>>
Sockets ==
    /\ Exercise("socket", SocketNext)
    /\ UNCHANGED <<vars, statsVars, snapshotVars, sequenceVars, planVars, autoVars, controlVars>>

BlocksNext ==
    \/ Ring(Next) \/ Stats \/ Snapshots \/ Validate \/ Plan
    \/ Side(AutoNext) \/ Script(ControlNext) \/ Sockets

-----------------------------------------------------------------------------
(* One initial state each for the parts that stand still *)

PlanAtRest ==
    /\ slot_packets = 1 /\ slot_count = 4 /\ target_packets = 1
    /\ options = [small_transfers |-> TRUE, discard_slots |-> 0, transfer_queue_packets |-> 0]
    /\ transfers_per_slot = 1 /\ planned = TRUE

ValidatorAtRest ==
    ValidatorInit /\ block = 0 /\ position = 0 /\ size = CHOOSE n \in BufferSamples : TRUE

SideAtRest == AutoStart("over") /\ plan.shape = "range" /\ disc = "parked" /\ late = <<>>

BlocksInit ==
    /\ exercised \in {"ring", "stats", "snapshots", "validator", "plan", "side", "script", "socket"}
    /\ Init /\ StatsInit /\ SnapshotInit /\ SocketInit
    /\ IF exercised = "validator" THEN ValidatorInit ELSE ValidatorAtRest
    /\ IF exercised = "plan" THEN PlanInit ELSE PlanAtRest
    /\ IF exercised = "side" THEN AutoInit ELSE SideAtRest
    /\ ControlInit /\ (exercised = "script" \/ ~headless)

-----------------------------------------------------------------------------
(* The fairness of each part, as its own specification has it                 *)

RingFairness ==
    /\ WF_vars(Here("ring", Producer)) /\ WF_vars(Here("ring", Consumer))
    /\ WF_vars(Here("ring", BeginAbort \/ AbortSlot))
    /\ WF_vars(Here("ring", BeginDump \/ DumpSlot))
SideFairness ==
    /\ WF_autoVars(Here("side", Controller)) /\ WF_autoVars(Here("side", Worker))
    /\ WF_autoVars(Here("side", DiscTurns)) /\ WF_autoVars(Here("side", Poll))
ScriptFairness ==
    /\ WF_controlVars(Here("script", Tick))
    /\ WF_controlVars(Here("script", PerformPendingSinkChange))
    /\ WF_controlVars(Here("script", Runner))

BlocksSpec ==
    BlocksInit /\ [][BlocksNext]_blockVars /\ RingFairness /\ SideFairness /\ ScriptFairness

-----------------------------------------------------------------------------
(***************************************************************************)
(* Whatever ends a capture, nobody is left waiting for it: neither thread  *)
(* of the ring (EveryoneIsReleased), nor a run over a side of a disc       *)
(* (EveryRunFinishes), nor a headless process (EveryRunExits). The three   *)
(* are one property here, for TLC to look for one kind of cycle only: a    *)
(* part that stands still is at rest (disk_buffer_ring.cpp:189,            *)
(* auto_capture_sequence.cpp:624, capture_controller.cpp:928).             *)
(***************************************************************************)
NobodyIsLeftWaiting == []<>(Released /\ RunIsOver /\ RunnerIsGone)
=============================================================================
