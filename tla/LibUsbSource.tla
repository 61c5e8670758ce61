----------------------------- MODULE LibUsbSource -----------------------------
(***************************************************************************)
(* ddd-gui/src/capture/libusb_source.cpp: a fixed set of USB transfers     *)
(* rolled through the ring by their own completions, on the transfer       *)
(* thread. Around it, as far as it meets them: the host controller, the    *)
(* device, the pipeline's consumer and control thread (CapturePipeline),   *)
(* and the caller that stops or aborts the run.                            *)
(*                                                                         *)
(* The device sends blocks, one to a transfer, numbered as it sends them;  *)
(* a number says which block it is within two laps of the ring.            *)
(***************************************************************************)
EXTENDS DiskBufferRing, TransferLayout, Sequences

CONSTANTS
    SlotPackets, TargetPackets,     \* slot_bytes, kTargetSmallTransferBytes
    SourceOptions,                  \* the UsbSourceOptions to run with
    MaxFaults                       \* bound: failed transfers or submissions

\* UsbSourceOptions is a bool and two unsigned sizes (usb_device.h:30); `polls` is whether
\* the run reads the device's telemetry
ASSUME LayoutAssumption ==
    /\ SlotPackets \in Nat \ {0} /\ TargetPackets \in Nat \ {0} /\ MaxFaults \in Nat
    /\ SlotCount >= 4
    /\ SourceOptions \subseteq [small_transfers : BOOLEAN, transfer_queue_packets : Nat,
                                discard_slots : Nat, polls : BOOLEAN]

VARIABLES
    layout, polling,                            \* fixed for the run
    sPc, sweeping, entry, place, submitted, cancelled,      \* Run; transfers_
    discarded_transfers, capture_complete, failed, result,
    telemetry, telemetry_failures,              \* the control transfer's state
    wire, reaped, data, sent, faults,           \* the host controller
    device,                                     \* "streaming", "silent" or "gone"
    cPc, cSlot, taken,                          \* the consumer, what it was given
    stop_requested, abort_requested, ring_abort

runVars       == <<sPc, sweeping, entry, place, submitted, cancelled, discarded_transfers,
                   capture_complete, failed, result>>
telemetryVars == <<telemetry, telemetry_failures>>
usbVars       == <<wire, reaped, data, sent, faults, device>>
consumerVars  == <<cPc, cSlot, taken>>
flagVars      == <<stop_requested, abort_requested, ring_abort>>
vars == <<slotState, layout, polling, runVars, telemetryVars, usbVars, consumerVars, flagVars>>

Transfers == 0 .. layout.transfer_count - 1
PerSlot == layout.transfers_per_slot
IndexInSlot(t) == t % PerSlot
LastInSlot(t) == IndexInSlot(t) = PerSlot - 1

\* Two laps of the ring, in blocks
Laps == 2 * SlotCount * PerSlot
Junk == -1

\* Each transfer, the n-th from 0, starts in a slot of its own order
Init ==
    /\ RingInit
    /\ \E options \in SourceOptions :
          /\ layout = PlanTransferLayout(SlotPackets, SlotCount, TargetPackets, options)
          /\ polling = options.polls
    /\ place = [t \in Transfers |-> (layout.first_slot_index + t \div PerSlot) % SlotCount]
    /\ sPc = "submit" /\ sweeping = FALSE /\ entry = 0
    /\ submitted = {} /\ cancelled = {}
    /\ discarded_transfers = 0 /\ capture_complete = FALSE
    /\ failed = FALSE /\ result = "success"
    /\ telemetry = "idle" /\ telemetry_failures = 0
    /\ wire = <<>> /\ reaped = <<>>
    /\ data = [i \in Slots |-> [n \in 0 .. PerSlot - 1 |-> Junk]]
    /\ sent = 0 /\ faults = 0 /\ device = "streaming"
    /\ cPc = "wait" /\ cSlot = 0 /\ taken = layout.discard_transfers
    /\ stop_requested = FALSE /\ abort_requested = FALSE /\ ring_abort = FALSE

-----------------------------------------------------------------------------
(* The source *)

\* Fail: the first one is kept
Fail(outcome) ==
    /\ failed' = TRUE
    /\ result' = IF failed THEN result ELSE outcome

SourceFrame == UNCHANGED <<layout, polling, data, sent, consumerVars, flagVars>>

\* SubmitTransfer, into the queue the host controller serves in order; `then`
\* is where the thread goes if it succeeds
Submit(t, then) ==
    \/ /\ device # "gone"
       /\ wire' = Append(wire, t)
       /\ submitted' = submitted \cup {t} /\ cancelled' = cancelled \ {t}
       /\ sPc' = then
       /\ UNCHANGED <<failed, result, faults>>
    \/ /\ device = "gone" \/ faults < MaxFaults
       /\ faults' = IF device = "gone" THEN faults ELSE faults + 1
       /\ \/ Fail("usbTransferFailure")
          \/ device # "gone" /\ Fail("usbMemoryLimit")
       /\ sPc' = IF sPc = "submit" THEN "loop" ELSE then
       /\ UNCHANGED <<wire, submitted, cancelled>>

SubmitNext ==
    /\ sPc = "submit"
    /\ entry \in Transfers
    /\ Submit(entry, IF entry + 1 \in Transfers THEN "submit" ELSE "loop")
    /\ entry' = entry + 1
    /\ UNCHANGED <<slotState, sweeping, place, discarded_transfers, capture_complete,
                   telemetryVars, reaped, device>>
    /\ SourceFrame

\* PollTelemetry, when the interval is up: one reading at a time, and none of a
\* device that has refused twice
PollTelemetry ==
    \/ UNCHANGED telemetryVars
    \/ /\ polling /\ telemetry = "idle" /\ telemetry_failures < 2
       /\ \/ telemetry' = "in flight" /\ UNCHANGED telemetry_failures
          \/ telemetry_failures' = telemetry_failures + 1 /\ UNCHANGED telemetry

\* The top of Run's loop, and the sweep: what is still outstanding is cancelled
RunLoop ==
    /\ sPc = "loop"
    /\ sPc' = "events"
    /\ IF ~failed /\ submitted # {}
       THEN PollTelemetry /\ UNCHANGED <<sweeping, cancelled>>
       ELSE /\ sweeping' = TRUE
            /\ telemetry' = IF telemetry = "in flight" THEN "cancelled" ELSE telemetry
            /\ cancelled' = submitted
            /\ UNCHANGED telemetry_failures
    /\ UNCHANGED <<slotState, entry, place, submitted, discarded_transfers,
                   capture_complete, failed, result, wire, reaped, faults, device>>
    /\ SourceFrame

\* libusb_handle_events returns, having reaped what it reaped, or timed out
EventsReturn ==
    /\ sPc = "events" /\ ~sweeping
    /\ sPc' = "loop"
    /\ IF abort_requested \/ ring_abort THEN Fail("forcedAbort")
                                        ELSE UNCHANGED <<failed, result>>
    /\ UNCHANGED <<slotState, sweeping, entry, place, submitted, cancelled,
                   discarded_transfers, capture_complete, telemetryVars, wire, reaped,
                   faults, device>>
    /\ SourceFrame

\* What every completion starts with
Reap(outcomes) ==
    /\ sPc = "events"
    /\ reaped # <<>> /\ Head(reaped).status \in outcomes
    /\ submitted' = submitted \ {Head(reaped).transfer}
    /\ reaped' = Tail(reaped)

\* OnCompletion of a transfer that did not complete: an error, a short packet,
\* or a cancellation, which is nobody's failure
OnFailure ==
    /\ Reap({"error", "noDevice", "cancelled"})
    /\ CASE Head(reaped).status = "cancelled" -> UNCHANGED <<failed, result>>
         [] Head(reaped).status = "noDevice"  -> Fail("connectionFailure")
         [] OTHER                             -> Fail("usbTransferFailure")
    /\ UNCHANGED <<slotState, sPc, sweeping, entry, place, cancelled,
                   discarded_transfers, capture_complete, telemetryVars, wire, faults,
                   device>>
    /\ SourceFrame

OnCompletionAborted ==
    /\ Reap({"completed"})
    /\ abort_requested
    /\ Fail("forcedAbort")
    /\ UNCHANGED <<slotState, sPc, sweeping, entry, place, cancelled,
                   discarded_transfers, capture_complete, telemetryVars, wire, faults,
                   device>>
    /\ SourceFrame

\* The last part of OnCompletion: on to the next slot, or nothing any more
\* Mutant: a failed run resubmits
ResubmitFailed(t, over) ==
    /\ entry' = t
    /\ IF over THEN UNCHANGED <<sPc, place>>
       ELSE /\ place' = [place EXCEPT ![t] = (@ + layout.slot_span) % SlotCount]
            /\ sPc' = "secure"

Resubmit(t, over) ==
    /\ entry' = t
    /\ IF over \/ failed THEN UNCHANGED <<sPc, place>>
       ELSE /\ place' = [place EXCEPT ![t] = (@ + layout.slot_span) % SlotCount]
            /\ sPc' = "secure"

Discarding == discarded_transfers < layout.discard_transfers
Complete(t) == stop_requested /\ LastInSlot(t)

OnCompletionDiscarded ==
    /\ Reap({"completed"})
    /\ ~abort_requested /\ Discarding
    /\ discarded_transfers' = discarded_transfers + 1
    /\ LET t == Head(reaped).transfer IN
         /\ capture_complete' = (capture_complete \/ Complete(t))
         /\ Resubmit(t, capture_complete')
    /\ UNCHANGED <<slotState, sweeping, cancelled, failed, result, telemetryVars, wire,
                   faults, device>>
    /\ SourceFrame

OnCompletionKept ==
    /\ Reap({"completed"})
    /\ ~abort_requested /\ ~Discarding
    /\ LET t == Head(reaped).transfer
           fill == FillResult(place[t]) IN
         IF ~LastInSlot(t) \/ fill = "handedOver"
         THEN /\ IF LastInSlot(t) THEN CasEmptyToFull(place[t]) ELSE UNCHANGED slotState
              /\ capture_complete' = (capture_complete \/ Complete(t))
              /\ Resubmit(t, capture_complete')
              /\ UNCHANGED <<failed, result>>
         ELSE /\ Fail(IF fill = "overflow" THEN "programError" ELSE "forcedAbort")
              /\ UNCHANGED <<slotState, capture_complete, sPc, entry, place>>
    /\ UNCHANGED <<sweeping, cancelled, discarded_transfers, telemetryVars, wire, faults,
                   device>>
    /\ SourceFrame

\* Mutant: no transfer waits for its slot
SecureNot ==
    /\ sPc = "secure"
    /\ Submit(entry, "events")
    /\ UNCHANGED <<slotState, sweeping, entry, place, discarded_transfers,
                   capture_complete, telemetryVars, reaped, device>>
    /\ SourceFrame

\* "Only the first transfer of a slot waits", inside the callback
SecureSlot ==
    /\ sPc = "secure"
    /\ \/ /\ IndexInSlot(entry) # 0 \/ SlotIsFree(place[entry])
          /\ Submit(entry, "events")
       \/ /\ IndexInSlot(entry) = 0 /\ FreeWaitAborted(place[entry])
          /\ Fail("forcedAbort")
          /\ sPc' = "events"
          /\ UNCHANGED <<wire, submitted, cancelled, faults>>
    /\ UNCHANGED <<slotState, sweeping, entry, place, discarded_transfers,
                   capture_complete, telemetryVars, reaped, device>>
    /\ SourceFrame

\* Run returns when nothing is in flight
RunReturns ==
    /\ sPc = "events" /\ sweeping /\ submitted = {} /\ telemetry = "idle"
    /\ sPc' = "returned"
    /\ UNCHANGED <<slotState, sweeping, entry, place, submitted, cancelled,
                   discarded_transfers, capture_complete, failed, result,
                   telemetryVars, wire, reaped, faults, device>>
    /\ SourceFrame

Source == SubmitNext \/ RunLoop \/ EventsReturn \/ OnFailure \/ OnCompletionAborted
          \/ OnCompletionDiscarded \/ OnCompletionKept \/ SecureSlot \/ RunReturns

-----------------------------------------------------------------------------
(* The host controller and the device: bulk transfers of one endpoint end  *)
(* in the order they were submitted in                                     *)

UsbFrame == UNCHANGED <<slotState, layout, polling, runVars, telemetryVars, consumerVars,
                        flagVars>>

Ends(status) ==
    /\ wire # <<>>
    /\ wire' = Tail(wire)
    /\ reaped' = Append(reaped, [transfer |-> Head(wire), status |-> status])

BlockArrives ==
    /\ device = "streaming"
    /\ Ends("completed")
    /\ data' = [data EXCEPT ![place[Head(wire)]][IndexInSlot(Head(wire))] = sent]
    /\ sent' = (sent + 1) % Laps
    /\ UNCHANGED <<faults, device>>
    /\ UsbFrame

\* An error or a short packet: the block is lost and the queue goes on
BlockLost ==
    /\ device = "streaming" /\ faults < MaxFaults
    /\ Ends("error")
    /\ sent' = (sent + 1) % Laps
    /\ faults' = faults + 1
    /\ UNCHANGED <<data, device>>
    /\ UsbFrame

CancelTakesEffect ==
    /\ wire # <<>> /\ Head(wire) \in cancelled /\ device # "gone"
    /\ Ends("cancelled")
    /\ UNCHANGED <<data, sent, faults, device>>
    /\ UsbFrame

GoneEnds ==
    /\ device = "gone"
    /\ Ends("noDevice")
    /\ UNCHANGED <<data, sent, faults, device>>
    /\ UsbFrame

\* The device stops delivering, or is unplugged
DeviceFails ==
    /\ \/ device = "streaming" /\ device' = "silent"
       \/ device # "gone" /\ device' = "gone"
    /\ UNCHANGED <<wire, reaped, data, sent, faults>>
    /\ UsbFrame

\* The reading is answered, refused or cancelled, and its callback run, while
\* the thread is in libusb. What it reads is not modelled
TelemetryEnds ==
    /\ sPc = "events" /\ telemetry # "idle"
    /\ telemetry' = "idle"
    /\ \/ UNCHANGED telemetry_failures
       \/ /\ telemetry = "in flight"
          /\ telemetry_failures' = telemetry_failures + 1
    /\ UNCHANGED <<slotState, layout, polling, runVars, usbVars, consumerVars, flagVars>>

Usb == BlockArrives \/ CancelTakesEffect \/ GoneEnds \/ TelemetryEnds

-----------------------------------------------------------------------------
(* The consumer, which checks and writes a slot and frees it; and what the *)
(* control thread and the caller do to a run                               *)

ConsumerFrame == UNCHANGED <<layout, polling, runVars, telemetryVars, usbVars, flagVars>>

ConsumerTakes ==
    /\ cPc = "wait"
    /\ \/ SlotHasData(cSlot) /\ cPc' = "hold"
       \/ SlotReleased(cSlot) /\ cPc' = "left"
    /\ UNCHANGED <<slotState, cSlot, taken>>
    /\ ConsumerFrame

ConsumerFrees ==
    /\ cPc = "hold"
    /\ CasToEmpty(cSlot)
    /\ cSlot' = NextSlot(cSlot)
    /\ taken' = (taken + PerSlot) % Laps
    /\ cPc' = IF abort_requested THEN "left" ELSE "wait"
    /\ ConsumerFrame

Consumer == ConsumerTakes \/ ConsumerFrees

EnvFrame == UNCHANGED <<layout, polling, runVars, telemetryVars, usbVars, consumerVars>>

\* The control thread, once Run has returned: a failure tears the ring down,
\* and otherwise the consumer is released from the slots that stayed empty
ControlSeesReturn ==
    /\ sPc = "returned"
    /\ IF failed THEN AbortSlots /\ abort_requested' = TRUE /\ ring_abort' = TRUE
                 ELSE DumpEmptySlots /\ UNCHANGED <<abort_requested, ring_abort>>
    /\ UNCHANGED stop_requested
    /\ EnvFrame

\* The watchdog, on a device that has gone quiet (capture_pipeline.cpp:895)
Quiet == device = "silent" /\ reaped = <<>> /\ ~sweeping

Watchdog ==
    /\ Quiet /\ ~stop_requested /\ ~abort_requested
    /\ abort_requested' = TRUE /\ ring_abort' = TRUE /\ AbortSlots
    /\ UNCHANGED stop_requested
    /\ EnvFrame

RequestStop ==
    /\ ~stop_requested /\ stop_requested' = TRUE
    /\ UNCHANGED <<slotState, abort_requested, ring_abort>>
    /\ EnvFrame

Abort ==
    /\ ~abort_requested /\ sPc # "returned"
    /\ abort_requested' = TRUE /\ stop_requested' = TRUE /\ ring_abort' = TRUE
    /\ AbortSlots
    /\ EnvFrame

RunOver == sPc = "returned" /\ cPc = "left" /\ UNCHANGED vars

Next == Source \/ Usb \/ BlockLost \/ DeviceFails \/ Consumer \/ ControlSeesReturn
        \/ Watchdog \/ RequestStop \/ Abort \/ RunOver

(***************************************************************************)
(* The threads run, a queued transfer is served while the device streams,  *)
(* is cancelled or is gone, and the watchdog's time does run out. Nobody   *)
(* is obliged to stop or abort a run.                                      *)
(***************************************************************************)
Fairness ==
    /\ WF_vars(SubmitNext \/ RunLoop \/ SecureSlot \/ RunReturns)
    /\ WF_vars(EventsReturn)
    /\ SF_vars(OnFailure \/ OnCompletionAborted \/ OnCompletionDiscarded \/ OnCompletionKept)
    /\ SF_vars(TelemetryEnds)
    /\ WF_vars(BlockArrives \/ CancelTakesEffect \/ GoneEnds)
    /\ WF_vars(Consumer) /\ WF_vars(ControlSeesReturn)
    /\ SF_vars(Watchdog)

Spec == Init /\ [][Next]_vars
FairSpec == Spec /\ Fairness

-----------------------------------------------------------------------------
(* What a run over USB promises *)

TypeOK ==
    /\ slotState \in [Slots -> SlotStates] /\ place \in [Transfers -> Slots]
    /\ sPc \in {"submit", "loop", "events", "secure", "returned"} /\ sweeping \in BOOLEAN
    /\ submitted \subseteq Transfers /\ cancelled \subseteq Transfers
    /\ discarded_transfers \in 0 .. layout.discard_transfers
    /\ result \in {"success", "usbTransferFailure", "usbMemoryLimit",
                   "connectionFailure", "forcedAbort", "programError"}
    /\ telemetry \in {"idle", "in flight", "cancelled"} /\ telemetry_failures \in 0 .. 2
    /\ cSlot \in Slots /\ taken \in 0 .. Laps - 1 /\ sent \in 0 .. Laps - 1
    /\ Len(wire) + Len(reaped) <= layout.transfer_count

(***************************************************************************)
(* The device never writes into a slot the processing thread has, or has   *)
(* yet to take: only the first transfer of a slot waits for it, and the    *)
(* rest rely on that (libusb_source.cpp:441-447).                          *)
(***************************************************************************)
NoWriteUnderConsumer ==
    \A n \in 1 .. Len(wire) :
        /\ slotState[place[wire[n]]] # "full"
        /\ cPc = "hold" => place[wire[n]] # cSlot

(***************************************************************************)
(* kOverflow is "Reachable only if the wait below failed to hold a         *)
(* transfer back" (libusb_source.cpp:407): a slow machine blocks instead.  *)
(***************************************************************************)
NeverOverflows == result # "programError"

(***************************************************************************)
(* Each slot handed over holds the blocks that follow the last slot's,     *)
(* from the first one past the discarded ones: nothing lost, repeated,     *)
(* reordered or left over from an earlier lap. Up to a failure, or over    *)
(* whole-slot transfers always: see SlotsAreWhole.                         *)
(***************************************************************************)
SlotFollows == data[cSlot] = [n \in 0 .. PerSlot - 1 |-> (taken + n) % Laps]

StreamUnbroken == cPc = "hold" /\ (~failed \/ PerSlot = 1) => SlotFollows

(***************************************************************************)
(* libusb may write to a transfer's memory until it is reaped, and Finish  *)
(* frees it: nothing is outstanding when Run returns, bulk or control      *)
(* (libusb_source.cpp:226-236).                                            *)
(***************************************************************************)
NothingOutstanding ==
    sPc = "returned" => wire = <<>> /\ reaped = <<>> /\ telemetry = "idle"

(***************************************************************************)
(* A run that is asked to stop, and that nothing goes wrong in, gives the  *)
(* consumer every whole slot the device delivered.                         *)
(***************************************************************************)
StopKeepsWholeSlots ==
    sPc = "returned" /\ cPc = "left" /\ ~failed /\ ~abort_requested /\ ~Discarding =>
        (sent - taken) % Laps < PerSlot

(***************************************************************************)
(* A failure, an abort and an unplugged device end Run: "the reap loop     *)
(* would then be waiting for a transfer created after it started, and      *)
(* would wait for it forever" (libusb_source.cpp:427-433).                 *)
(***************************************************************************)
FailureEndsRun == failed \/ abort_requested \/ device = "gone" ~> sPc = "returned"

(***************************************************************************)
(* A stop ends a run whose device goes on delivering, and a device that    *)
(* falls silent ends the run by the watchdog, unless it was asked to stop. *)
(***************************************************************************)
StopEndsRun == stop_requested ~> sPc = "returned" \/ device = "silent"
SilenceIsNoticed == device = "silent" ~> sPc = "returned" \/ stop_requested

(***************************************************************************)
(* The two questions the runs ask with these: is any memory touched by two *)
(* parties at once or after it was let go of, or handed over with anything *)
(* else than the stream in it, and does every run end that the code        *)
(* provides an end for (StopNeverHangs says which it does not).            *)
(***************************************************************************)
BuffersAreSafe ==
    /\ TypeOK /\ NoWriteUnderConsumer /\ NeverOverflows /\ NothingOutstanding
    /\ StreamUnbroken /\ StopKeepsWholeSlots
EveryRunEnds == FailureEndsRun /\ StopEndsRun /\ SilenceIsNoticed

-----------------------------------------------------------------------------
(* What the sources say and the code does not do: each of these has a      *)
(* counterexample, described in the README under "Divergences".            *)

(***************************************************************************)
(* The watchdog "is the reason a capture can no longer hang"               *)
(* (capture_pipeline.cpp:889): a run that is asked to stop does.           *)
(***************************************************************************)
StopNeverHangs == stop_requested ~> sPc = "returned"

(***************************************************************************)
(* "the last transfer in a slot has completed" means "the whole slot has   *)
(* arrived" (libusb_source.cpp:95-99): every slot handed over is whole.    *)
(***************************************************************************)
SlotsAreWhole == cPc = "hold" => SlotFollows
=============================================================================
