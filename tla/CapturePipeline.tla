--------------------------- MODULE CapturePipeline ---------------------------
(***************************************************************************)
(* One run of ddd-gui/src/capture/capture_pipeline.cpp over a              *)
(* SyntheticSource: the transfer thread delivering buffers into the ring,  *)
(* the processing thread checking and writing them, the control thread     *)
(* watching both, and the caller that may stop, abort or start again at    *)
(* any moment. The ring is taken an operation at a time (RingHandoff shows *)
(* what its operations amount to); a sink change mid-run is in SinkChange. *)
(*                                                                         *)
(* Time: the watchdog's stall_timeout is far longer than any step but two, *)
(* a source that has gone quiet and a sink whose Write blocks, so it can   *)
(* run out only while the transfer thread is held up by one of those.      *)
(***************************************************************************)
EXTENDS Integers, Sequences, DiskBufferRing

CONSTANTS
    SlotLimit,      \* options_.slot_limit
    DiscardSlots,   \* options_.discard_slots
    RunOptions      \* the option records a run may be started with

None == "none"

\* SyntheticSource::Fault
Faults == {None, "stall", "transferFailure", "shortDelivery", "rampBreak",
           "sequenceBreak"}

\* What the source injects and where, whether the ramp is checked, and where
\* the sink fails: at which buffer (none, if the run is shorter), or at Finish
OptionRecords == [fault : Faults, fault_at_slot : Nat, test_mode : BOOLEAN,
                  write_fails_at : Nat, finish_fails : BOOLEAN]

ASSUME LimitsAssumption ==
    /\ SlotLimit \in Nat \ {0} /\ DiscardSlots \in Nat
    /\ RunOptions \subseteq OptionRecords

\* The TransferResult values a run can end with
Failures == {"usbTransferFailure", "sequenceMismatch", "verificationError",
             "fileWriteError", "sourceStalled", "forcedAbort", "bufferOverflow",
             "programError"}

Threads == {"transfer", "processing", "control", "caller"}

VARIABLES
    options,                    \* what this run was started with
    pPc, pSlot, generated, delivered,           \* SyntheticSource::Run
    cPc, cSlot, buffers_processed, data,        \* ProcessingThread
    kPc, source_finished,                       \* ControlThread
    uPc, asked,                                 \* the caller; what it has asked
    stop_requested, abort_requested, ring_abort,
    transfer_finished, processing_finished,
    result_latched, latching, result,           \* LatchResult
    running,
    file, sink_finished                         \* what the sink was given

sourceVars  == <<pPc, pSlot, generated, delivered>>
workerVars  == <<cPc, cSlot, buffers_processed>>
controlVars == <<kPc, source_finished>>
callerVars  == <<uPc, asked>>
flagVars    == <<stop_requested, abort_requested, ring_abort>>
latchVars   == <<result_latched, latching, result>>
sinkVars    == <<file, sink_finished>>

vars == <<slotState, options, sourceVars, workerVars, data, controlVars,
          callerVars, flagVars, transfer_finished, processing_finished,
          latchVars, running, sinkVars>>

(***************************************************************************)
(* A delivered buffer is its number and what a check of it would find. A   *)
(* break made while filling buffer n shows at the start of buffer n + 1.   *)
(***************************************************************************)
Buffer(n) ==
    [number |-> n,
     flaw   |-> IF options.fault \in {"rampBreak", "sequenceBreak"}
                   /\ n = options.fault_at_slot + 1
                THEN options.fault ELSE None]

\* Start, past the point where nothing can refuse it any more
Init ==
    /\ RingInit
    /\ options \in RunOptions
    /\ pPc = "top" /\ pSlot = 0 /\ generated = 0 /\ delivered = 0
    /\ cPc = "top" /\ cSlot = 0 /\ buffers_processed = 0
    /\ data = [i \in Slots |-> Buffer(0)]
    /\ kPc = "poll" /\ source_finished = FALSE
    /\ uPc = "idle" /\ asked = {}
    /\ stop_requested = FALSE /\ abort_requested = FALSE /\ ring_abort = FALSE
    /\ transfer_finished = FALSE /\ processing_finished = FALSE
    /\ result_latched = FALSE /\ latching = [t \in Threads |-> None]
    /\ result = "running"
    /\ running = TRUE
    /\ file = <<>> /\ sink_finished = FALSE

-----------------------------------------------------------------------------
(* LatchResult: the compare-exchange, and later the store it won *)

\* Mutant: a store where the compare-exchange is
LatchLast(t, failure) ==
    /\ result_latched' = TRUE
    /\ latching' = [latching EXCEPT ![t] = failure]
    /\ result' = result

Latch(t, failure) ==
    /\ result_latched' = TRUE
    /\ latching' = IF result_latched THEN latching
                                     ELSE [latching EXCEPT ![t] = failure]
    /\ result' = result

StoreResult(t) ==
    /\ latching[t] # None
    /\ result' = latching[t]
    /\ latching' = [latching EXCEPT ![t] = None]
    /\ UNCHANGED <<slotState, options, sourceVars, workerVars, data, controlVars,
                   callerVars, flagVars, transfer_finished, processing_finished,
                   result_latched, running, sinkVars>>

Idle(t) == latching[t] = None

-----------------------------------------------------------------------------
(* The transfer thread *)

SourceFrame == UNCHANGED <<options, workerVars, controlVars, callerVars, flagVars,
                           processing_finished, running, sinkVars>>

\* Run returns, and a failure is latched before transfer_finished_ is set
SourceReturns(outcome) ==
    /\ pPc' = "returned"
    /\ UNCHANGED <<pSlot, generated, delivered>>
    /\ IF outcome = "success" THEN UNCHANGED latchVars
                              ELSE Latch("transfer", outcome)

Discarding == generated < DiscardSlots
Faulting(f) == ~Discarding /\ options.fault = f /\ delivered = options.fault_at_slot

SourceTop ==
    /\ pPc = "top"
    /\ IF abort_requested \/ ring_abort THEN SourceReturns("forcedAbort")
       ELSE IF stop_requested \/ delivered >= SlotLimit THEN SourceReturns("success")
       ELSE IF Faulting("transferFailure") THEN SourceReturns("usbTransferFailure")
       ELSE /\ pPc' = IF Faulting("stall") THEN "stalled" ELSE "wait"
            /\ UNCHANGED <<pSlot, generated, delivered, latchVars>>
    /\ UNCHANGED <<slotState, data, transfer_finished>>
    /\ SourceFrame

\* The injected stall: silent until told to stop, and then asked once more why
SourceStalled ==
    /\ pPc = "stalled" /\ (ring_abort \/ abort_requested \/ stop_requested)
    /\ pPc' = "unstalled"
    /\ UNCHANGED <<pSlot, generated, delivered, latchVars, slotState, data,
                   transfer_finished>>
    /\ SourceFrame

SourceUnstalled ==
    /\ pPc = "unstalled"
    /\ SourceReturns(IF stop_requested THEN "success" ELSE "forcedAbort")
    /\ UNCHANGED <<slotState, data, transfer_finished>>
    /\ SourceFrame

SourceWait ==
    /\ pPc = "wait"
    /\ \/ /\ SlotIsFree(pSlot)
          /\ pPc' = "fill"
          /\ UNCHANGED <<pSlot, generated, delivered, latchVars>>
       \/ FreeWaitAborted(pSlot) /\ SourceReturns("forcedAbort")
    /\ UNCHANGED <<slotState, data, transfer_finished>>
    /\ SourceFrame

\* Generate a slot; a discarded one is simply generated over
SourceFill ==
    /\ pPc = "fill"
    /\ data' = [data EXCEPT ![pSlot] = Buffer(delivered)]
    /\ IF Faulting("shortDelivery")
       THEN SourceReturns("usbTransferFailure")
       ELSE /\ generated' = IF Discarding THEN generated + 1 ELSE generated
            /\ pPc' = IF Discarding THEN "top" ELSE "hand"
            /\ UNCHANGED <<pSlot, delivered, latchVars>>
    /\ UNCHANGED <<slotState, transfer_finished>>
    /\ SourceFrame

SourceHandOver ==
    /\ pPc = "hand"
    /\ CasEmptyToFull(pSlot)
    /\ CASE FillResult(pSlot) = "handedOver" ->
              /\ delivered' = delivered + 1
              /\ pSlot' = NextSlot(pSlot)
              /\ pPc' = "top"
              /\ UNCHANGED <<generated, latchVars>>
         [] FillResult(pSlot) = "overflow" -> SourceReturns("bufferOverflow")
         [] FillResult(pSlot) = "aborted"  -> SourceReturns("forcedAbort")
    /\ UNCHANGED <<data, transfer_finished>>
    /\ SourceFrame

TransferFinishes ==
    /\ pPc = "returned" /\ Idle("transfer")
    /\ pPc' = "done"
    /\ transfer_finished' = TRUE
    /\ UNCHANGED <<pSlot, generated, delivered, slotState, data, latchVars>>
    /\ SourceFrame

TransferThread ==
    \/ SourceTop \/ SourceStalled \/ SourceUnstalled \/ SourceWait \/ SourceFill
    \/ SourceHandOver \/ TransferFinishes \/ StoreResult("transfer")

-----------------------------------------------------------------------------
(* The processing thread *)

WorkerFrame == UNCHANGED <<options, sourceVars, data, controlVars, callerVars,
                           flagVars, transfer_finished, running, sink_finished>>

WorkerTop ==
    /\ cPc = "top"
    /\ cPc' = IF abort_requested THEN "leaving" ELSE "wait"
    /\ UNCHANGED <<slotState, cSlot, buffers_processed, processing_finished,
                   latchVars, file>>
    /\ WorkerFrame

WorkerWait ==
    /\ cPc = "wait"
    /\ \/ SlotHasData(cSlot) /\ cPc' = "check"
       \/ SlotReleased(cSlot) /\ cPc' = "leaving"
    /\ UNCHANGED <<slotState, cSlot, buffers_processed, processing_finished,
                   latchVars, file>>
    /\ WorkerFrame

\* Mutant: a broken buffer is reported, and written all the same
WorkerCheckWritesOn ==
    /\ cPc = "check"
    /\ IF data[cSlot].flaw = "sequenceBreak"
       THEN Latch("processing", "sequenceMismatch") ELSE UNCHANGED latchVars
    /\ cPc' = "write"
    /\ UNCHANGED <<slotState, cSlot, buffers_processed, processing_finished, file>>
    /\ WorkerFrame

\* The counters, then the test ramp when it is being checked
WorkerCheck ==
    /\ cPc = "check"
    /\ CASE data[cSlot].flaw = "sequenceBreak" ->
              Latch("processing", "sequenceMismatch") /\ cPc' = "giveUp"
         [] data[cSlot].flaw = "rampBreak" /\ options.test_mode ->
              Latch("processing", "verificationError") /\ cPc' = "giveUp"
         [] OTHER -> cPc' = "write" /\ UNCHANGED latchVars
    /\ UNCHANGED <<slotState, cSlot, buffers_processed, processing_finished, file>>
    /\ WorkerFrame

WorkerWrite ==
    /\ cPc = "write"
    /\ IF buffers_processed = options.write_fails_at
       THEN Latch("processing", "fileWriteError") /\ cPc' = "giveUp" /\ file' = file
       ELSE /\ file' = Append(file, data[cSlot].number)
            /\ cPc' = "free"
            /\ UNCHANGED latchVars
    /\ UNCHANGED <<slotState, cSlot, buffers_processed, processing_finished>>
    /\ WorkerFrame

WorkerFree ==
    /\ cPc = "free"
    /\ CasToEmpty(cSlot)
    /\ buffers_processed' = buffers_processed + 1
    /\ cSlot' = NextSlot(cSlot)
    /\ cPc' = "top"
    /\ UNCHANGED <<processing_finished, latchVars, file>>
    /\ WorkerFrame

\* The slot goes back before the loop is left, but is not counted as processed
WorkerGivesUp ==
    /\ cPc = "giveUp" /\ Idle("processing")
    /\ CasToEmpty(cSlot)
    /\ cPc' = "leaving"
    /\ UNCHANGED <<cSlot, buffers_processed, processing_finished, latchVars, file>>
    /\ WorkerFrame

WorkerLeaves ==
    /\ cPc = "leaving"
    /\ cPc' = "done"
    /\ processing_finished' = TRUE
    /\ UNCHANGED <<slotState, cSlot, buffers_processed, latchVars, file>>
    /\ WorkerFrame

ProcessingThread ==
    \/ WorkerTop \/ WorkerWait \/ WorkerCheck \/ WorkerWrite \/ WorkerFree
    \/ WorkerGivesUp \/ WorkerLeaves \/ StoreResult("processing")

-----------------------------------------------------------------------------
(* The control thread. Its timed wait only paces the loop *)

ControlFrame == UNCHANGED <<options, sourceVars, workerVars, data, callerVars,
                            transfer_finished, processing_finished, file>>

KeepRing == UNCHANGED <<slotState, flagVars>>
TearDown ==
    /\ abort_requested' = TRUE /\ ring_abort' = TRUE /\ AbortSlots
    /\ UNCHANGED stop_requested

ControlPoll ==
    /\ kPc = "poll"
    /\ kPc' = IF processing_finished THEN "release" ELSE "watch"
    /\ KeepRing
    /\ UNCHANGED <<source_finished, latchVars, running, sink_finished>>
    /\ ControlFrame

\* The only two ways for the count of transfers to stand still that long
DeviceSilent == pPc = "stalled"
SinkBlocksSource == pPc = "wait" /\ ~SlotIsFree(pSlot) /\ cPc = "write"

WatchdogMayFire ==
    /\ ~transfer_finished /\ ~stop_requested
    /\ DeviceSilent \/ SinkBlocksSource

\* Mutant: no watchdog
ControlWatchNever ==
    /\ kPc = "watch"
    /\ kPc' = "pad"
    /\ KeepRing
    /\ UNCHANGED <<latchVars, source_finished, running, sink_finished>>
    /\ ControlFrame

ControlWatch ==
    /\ kPc = "watch"
    /\ \/ kPc' = "pad" /\ UNCHANGED latchVars
       \/ WatchdogMayFire /\ Latch("control", "sourceStalled") /\ kPc' = "stalled"
    /\ KeepRing
    /\ UNCHANGED <<source_finished, running, sink_finished>>
    /\ ControlFrame

ControlStalled ==
    /\ kPc = "stalled" /\ Idle("control")
    /\ TearDown
    /\ kPc' = "pad"
    /\ UNCHANGED <<source_finished, latchVars, running, sink_finished>>
    /\ ControlFrame

ControlPad ==
    /\ kPc = "pad"
    /\ IF transfer_finished THEN DumpEmptySlots ELSE UNCHANGED slotState
    /\ kPc' = "failure"
    /\ UNCHANGED <<flagVars, source_finished, latchVars, running, sink_finished>>
    /\ ControlFrame

ControlFailure ==
    /\ kPc = "failure"
    /\ IF result_latched /\ result \in Failures THEN TearDown ELSE KeepRing
    /\ kPc' = "poll"
    /\ UNCHANGED <<source_finished, latchVars, running, sink_finished>>
    /\ ControlFrame

ControlRelease ==
    /\ kPc = "release"
    /\ IF transfer_finished THEN KeepRing
       ELSE /\ stop_requested' = TRUE /\ ring_abort' = TRUE /\ AbortSlots
            /\ UNCHANGED abort_requested
    /\ kPc' = "join"
    /\ UNCHANGED <<source_finished, latchVars, running, sink_finished>>
    /\ ControlFrame

\* Both joins, then the source's Finish
ControlJoin ==
    /\ kPc = "join" /\ pPc = "done" /\ cPc = "done"
    /\ source_finished' = TRUE
    /\ kPc' = "close"
    /\ KeepRing
    /\ UNCHANGED <<latchVars, running, sink_finished>>
    /\ ControlFrame

ControlClose ==
    /\ kPc = "close"
    /\ sink_finished' = TRUE
    /\ IF options.finish_fails THEN Latch("control", "fileWriteError")
                               ELSE UNCHANGED latchVars
    /\ kPc' = "settle"
    /\ KeepRing
    /\ UNCHANGED <<source_finished, running>>
    /\ ControlFrame

ControlSettle ==
    /\ kPc = "settle" /\ Idle("control")
    /\ result' = IF result_latched THEN result ELSE "success"
    /\ kPc' = "stop"
    /\ KeepRing
    /\ UNCHANGED <<source_finished, result_latched, latching, running, sink_finished>>
    /\ ControlFrame

ControlStops ==
    /\ kPc = "stop"
    /\ running' = FALSE
    /\ kPc' = "done"
    /\ KeepRing
    /\ UNCHANGED <<source_finished, latchVars, sink_finished>>
    /\ ControlFrame

ControlThread ==
    \/ ControlPoll \/ ControlWatch \/ ControlStalled \/ ControlPad \/ ControlFailure
    \/ ControlRelease \/ ControlJoin \/ ControlClose \/ ControlSettle \/ ControlStops
    \/ StoreResult("control")

-----------------------------------------------------------------------------
(* The caller, once for each thing it may ask *)

CallerFrame == UNCHANGED <<options, sourceVars, workerVars, data, controlVars,
                           transfer_finished, processing_finished, running, sinkVars>>

CallerFree == uPc = "idle" /\ Idle("caller")

RequestStop ==
    /\ CallerFree /\ "stop" \notin asked
    /\ asked' = asked \cup {"stop"}
    /\ stop_requested' = TRUE
    /\ UNCHANGED <<slotState, uPc, abort_requested, ring_abort, latchVars>>
    /\ CallerFrame

\* Abort looks at running_ first, then raises two flags and tears the ring down
BeginAbort ==
    /\ CallerFree /\ "abort" \notin asked
    /\ running
    /\ asked' = asked \cup {"abort"}
    /\ abort_requested' = TRUE
    /\ uPc' = "flagged"
    /\ UNCHANGED <<slotState, stop_requested, ring_abort, latchVars>>
    /\ CallerFrame

AbortStops ==
    /\ uPc = "flagged"
    /\ stop_requested' = TRUE
    /\ uPc' = "tearing"
    /\ UNCHANGED <<slotState, asked, abort_requested, ring_abort, latchVars>>
    /\ CallerFrame

AbortTearsDown ==
    /\ uPc = "tearing"
    /\ ring_abort' = TRUE /\ AbortSlots
    /\ uPc' = "idle"
    /\ UNCHANGED <<asked, stop_requested, abort_requested, latchVars>>
    /\ CallerFrame

\* A Start while running_: refused, and the refusal is latched
StartAgain ==
    /\ CallerFree /\ "start" \notin asked
    /\ running
    /\ asked' = asked \cup {"start"}
    /\ Latch("caller", "programError")
    /\ UNCHANGED <<slotState, uPc, flagVars>>
    /\ CallerFrame

Caller == RequestStop \/ BeginAbort \/ AbortStops \/ AbortTearsDown \/ StartAgain
          \/ StoreResult("caller")

Stopped ==
    /\ ~running /\ CallerFree
    /\ UNCHANGED vars

Next == TransferThread \/ ProcessingThread \/ ControlThread \/ Caller \/ Stopped

(***************************************************************************)
(* Every thread runs, a call the caller has entered runs to its end, and   *)
(* the watchdog's timer runs out on a source that stays silent.            *)
(***************************************************************************)
Fairness ==
    /\ WF_vars(TransferThread)
    /\ WF_vars(ProcessingThread)
    /\ WF_vars(ControlThread)
    /\ SF_vars(ControlWatch /\ kPc' = "stalled" /\ DeviceSilent)
    /\ WF_vars(AbortStops \/ AbortTearsDown \/ StoreResult("caller"))

Spec == Init /\ [][Next]_vars
FairSpec == Spec /\ Fairness

-----------------------------------------------------------------------------
(* What a run promises *)

Results == {"running", "success"} \cup Failures

TypeOK ==
    /\ slotState \in [Slots -> SlotStates]
    /\ pPc \in {"top", "stalled", "unstalled", "wait", "fill", "hand", "returned", "done"}
    /\ pSlot \in Slots /\ generated \in 0 .. DiscardSlots /\ delivered \in 0 .. SlotLimit
    /\ cPc \in {"top", "wait", "check", "write", "free", "giveUp", "leaving", "done"}
    /\ cSlot \in Slots /\ buffers_processed \in 0 .. SlotLimit
    /\ latching \in [Threads -> Failures \cup {None}]
    /\ result \in Results
    /\ {stop_requested, abort_requested, ring_abort, transfer_finished,
        processing_finished, result_latched, running, source_finished,
        sink_finished} \subseteq BOOLEAN

\* TransferFailed(result_)
TransferFailed == result \in Failures

(***************************************************************************)
(* "Record the first failure and leave later ones alone": whatever fails   *)
(* afterwards, and in whatever order the threads notice, the failure the   *)
(* user is shown does not change (capture_pipeline.h:207-210).             *)
(***************************************************************************)
FirstFailureStands == [][TransferFailed => result' = result]_vars

(***************************************************************************)
(* A run that ends as a success, and that nobody aborted, wrote every      *)
(* buffer the source handed over, once each and in order, and closed the   *)
(* file.                                                                   *)
(***************************************************************************)
SuccessIsComplete ==
    ~running /\ result = "success" /\ "abort" \notin asked =>
        /\ file = [n \in 1 .. delivered |-> n - 1]
        /\ buffers_processed = delivered
        /\ sink_finished

(***************************************************************************)
(* Whatever ends the run, the file is the stream from its first buffer up  *)
(* to some buffer, and nothing a check rejected is in it.                  *)
(***************************************************************************)
FileIsCleanPrefix ==
    /\ file = [n \in 1 .. Len(file) |-> n - 1]
    /\ \A n \in 1 .. Len(file) :
         Buffer(file[n]).flaw \in IF options.test_mode THEN {None}
                                                       ELSE {None, "rampBreak"}

(***************************************************************************)
(* "nothing can be mid-write while the stream header is being patched"     *)
(* (capture_pipeline.cpp:945), and the source's Finish comes after its Run.*)
(***************************************************************************)
ClosedLast ==
    /\ sink_finished => cPc = "done" /\ pPc = "done" /\ source_finished
    /\ source_finished => transfer_finished /\ processing_finished

(***************************************************************************)
(* kForcedAbort is what a tear-down makes a source return. It is reported  *)
(* only when the caller aborted: a tear-down of the pipeline's own always  *)
(* has the failure that caused it latched first.                           *)
(***************************************************************************)
ForcedAbortWasAsked == result = "forcedAbort" => "abort" \in asked

(***************************************************************************)
(* A fault is never reported as another: the code a run ends with names a  *)
(* fault this run really had.                                              *)
(***************************************************************************)
FailureIsReal ==
    /\ result = "sequenceMismatch" => options.fault = "sequenceBreak"
    /\ result = "verificationError" => options.fault = "rampBreak" /\ options.test_mode
    /\ result = "usbTransferFailure" => options.fault \in {"transferFailure", "shortDelivery"}
    /\ result = "fileWriteError" =>
         options.finish_fails \/ buffers_processed = options.write_fails_at
    /\ result # "bufferOverflow"

(***************************************************************************)
(* Every run ends, "the reason a capture can no longer hang"               *)
(* (capture_pipeline.cpp:886-889), whatever the source does, and with a    *)
(* result; and a stall that the caller does not interrupt is a failure.    *)
(***************************************************************************)
RunsEnd ==
    /\ <>[](~running /\ result # "running")
    /\ DeviceSilent ~> TransferFailed \/ asked # {}

(***************************************************************************)
(* What a run leaves behind, and what it says of itself: the file is sound *)
(* whatever ends the run, and the verdict is the truth about it.           *)
(***************************************************************************)
RunIsSound ==
    /\ TypeOK /\ FileIsCleanPrefix /\ ClosedLast
    /\ SuccessIsComplete /\ FailureIsReal /\ ForcedAbortWasAsked

-----------------------------------------------------------------------------
(* What the sources say and the code does not do: each of these has a      *)
(* counterexample, described in the README under "Divergences".            *)

(***************************************************************************)
(* "Nothing arrived for longer than the watchdog allows. A device that     *)
(* stops delivering" (transfer_result.h:72): so a device that is           *)
(* delivering is not accused of stopping.                                  *)
(***************************************************************************)
StalledMeansSilent == result = "sourceStalled" => options.fault = "stall"

(***************************************************************************)
(* kForcedAbort is "Stopped by force rather than gracefully, so the tail   *)
(* of the data was discarded" (transfer_result.h:80): a run whose tail was *)
(* discarded by an Abort says so, or names a failure.                      *)
(***************************************************************************)
DiscardedTailIsReported ==
    ~running /\ Len(file) < delivered => result # "success"
=============================================================================
