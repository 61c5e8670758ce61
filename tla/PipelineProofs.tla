----------------------------- MODULE PipelineProofs -----------------------------
(***************************************************************************)
(* The theorems of CapturePipeline, for every ring, every limit and every  *)
(* set of options: what a run leaves in its file, and that its result is   *)
(* the truth about it.                                                     *)
(***************************************************************************)
EXTENDS CapturePipeline, SequenceTheorems, TLAPS

(***************************************************************************)
(* How far the threads are tells what they have finished.                  *)
(***************************************************************************)
Stages ==
    /\ options \in RunOptions
    /\ kPc \in {"poll", "watch", "stalled", "pad", "failure", "release", "join", "close",
                "settle", "stop", "done"}
    /\ uPc \in {"idle", "flagged", "tearing"}
    /\ transfer_finished <=> pPc = "done"
    /\ processing_finished <=> cPc = "done"
    /\ source_finished <=> kPc \in {"close", "settle", "stop", "done"}
    /\ sink_finished <=> kPc \in {"settle", "stop", "done"}
    /\ running <=> kPc # "done"
    /\ kPc \in {"release", "join", "close", "settle", "stop", "done"} => cPc = "done"
    /\ kPc \in {"close", "settle", "stop", "done"} => pPc = "done"
    /\ uPc \in {"flagged", "tearing"} => "abort" \in asked
    /\ pPc = "unstalled" => ring_abort \/ abort_requested \/ stop_requested

\* A ring is torn down as a whole, and the slots nobody filled are dumped last
RingState ==
    \A i \in Slots :
        /\ slotState[i] = "aborted" <=> ring_abort
        /\ slotState[i] = "dumped" => transfer_finished

\* From the wait for a slot to handing it over, nobody else has it
ProducerOwns ==
    /\ pPc \in {"wait", "fill", "hand"} => delivered < SlotLimit
    /\ pPc \in {"fill", "hand"} => slotState[pSlot] \in {"empty", "aborted"}
    /\ pPc = "hand" => data[pSlot] = Buffer(delivered)

(***************************************************************************)
(* The buffers in flight lie in their order from the consumer's slot on,   *)
(* for as long as it takes buffers; the producer's slot is behind them.    *)
(***************************************************************************)
Consuming == cPc \notin {"leaving", "done"}
InFlight == delivered - buffers_processed
Ahead(i) == IF i >= cSlot THEN i - cSlot ELSE i - cSlot + SlotCount
Busy == cPc \in {"check", "write", "free", "giveUp"}
Behind(n) == IF cSlot + n >= SlotCount THEN cSlot + n - SlotCount ELSE cSlot + n

Layout ==
    /\ buffers_processed <= delivered
    /\ Consuming =>
        /\ InFlight <= SlotCount /\ pSlot = Behind(InFlight)
        /\ pPc \in {"fill", "hand"} => InFlight < SlotCount
        /\ Busy => InFlight > 0
        /\ \A i \in Slots :
              /\ ~ ring_abort => (slotState[i] = "full" <=> Ahead(i) < InFlight)
              /\ Ahead(i) < InFlight => data[i] = Buffer(buffers_processed + Ahead(i))

\* A break in the stream is one that this run injects
DataIsReal ==
    /\ DOMAIN data = Slots /\ data = [i \in Slots |-> data[i]]
    /\ \A i \in Slots : \E n \in Nat : data[i] = Buffer(n)

Allowed == IF options.test_mode THEN {None} ELSE {None, "rampBreak"}

FileInv ==
    /\ file \in Seq(Nat)
    /\ Len(file) = IF cPc = "free" THEN buffers_processed + 1 ELSE buffers_processed
    /\ \A n \in 1 .. Len(file) : file[n] = n - 1 /\ Buffer(n - 1).flaw \in Allowed
    /\ cPc = "write" => Buffer(buffers_processed).flaw \in Allowed

\* One thread wins the right to store a result, and stores it once
LatchInv ==
    /\ \A t \in Threads : latching[t] # None => result_latched /\ ~ TransferFailed
    /\ \A t, u \in Threads : latching[t] # None /\ latching[u] # None => t = u
    /\ TransferFailed => result_latched
    /\ kPc = "stalled" \/ cPc = "giveUp" => result_latched

\* What a failure says of the run
IsReal(failure) ==
    /\ failure = "sequenceMismatch" => options.fault = "sequenceBreak"
    /\ failure = "verificationError" => options.fault = "rampBreak" /\ options.test_mode
    /\ failure = "usbTransferFailure" => options.fault \in {"transferFailure", "shortDelivery"}
    /\ failure = "fileWriteError" =>
          \/ options.finish_fails
          \/ buffers_processed = options.write_fails_at /\ cPc \in {"giveUp", "leaving", "done"}
    /\ failure = "forcedAbort" => "abort" \in asked
    /\ failure # "bufferOverflow"

FailuresAreReal == IsReal(result) /\ \A t \in Threads : IsReal(latching[t])

(***************************************************************************)
(* While nothing has failed and nobody has aborted, nothing is torn down,  *)
(* and the consumer leaves only when it has had everything.                *)
(***************************************************************************)
Graceful ==
    ~ result_latched /\ "abort" \notin asked =>
        /\ ~ abort_requested /\ ~ ring_abort
        /\ ~ Consuming => transfer_finished /\ buffers_processed = delivered

SuccessInv ==
    result = "success" =>
        /\ kPc \in {"stop", "done"}
        /\ "abort" \in asked \/ buffers_processed = delivered

RunInv ==
    /\ TypeOK /\ Stages /\ RingState /\ ProducerOwns /\ Layout /\ DataIsReal /\ FileInv
    /\ LatchInv /\ FailuresAreReal /\ Graceful /\ SuccessInv

-----------------------------------------------------------------------------
(* What the proofs use of the constants and of the types *)

USE DEF sourceVars, workerVars, controlVars, callerVars, flagVars, latchVars, sinkVars,
        SourceFrame, WorkerFrame, ControlFrame, CallerFrame, KeepRing, TearDown

\* The limits the options set
LEMMA Limits ==
    /\ SlotCount \in Nat /\ SlotCount > 0 /\ SlotLimit \in Nat /\ SlotLimit > 0
    /\ DiscardSlots \in Nat /\ RunOptions \subseteq OptionRecords
    /\ Slots = 0 .. SlotCount - 1 /\ 0 \in Slots
  BY SlotCountAssumption, LimitsAssumption DEF Slots

\* TypeOK, a thread at a time
RingTyped == slotState \in [Slots -> SlotStates]
SourceTyped ==
    /\ pPc \in {"top", "stalled", "unstalled", "wait", "fill", "hand", "returned", "done"}
    /\ pSlot \in Slots /\ generated \in 0 .. DiscardSlots /\ delivered \in 0 .. SlotLimit
WorkerTyped ==
    /\ cPc \in {"top", "wait", "check", "write", "free", "giveUp", "leaving", "done"}
    /\ cSlot \in Slots /\ buffers_processed \in 0 .. SlotLimit
LatchTyped == latching \in [Threads -> Failures \cup {None}] /\ result \in Results
FlagsTyped ==
    /\ stop_requested \in BOOLEAN /\ abort_requested \in BOOLEAN /\ ring_abort \in BOOLEAN
    /\ transfer_finished \in BOOLEAN /\ processing_finished \in BOOLEAN
    /\ result_latched \in BOOLEAN /\ running \in BOOLEAN
    /\ source_finished \in BOOLEAN /\ sink_finished \in BOOLEAN

LEMMA TypeParts ==
    TypeOK <=> RingTyped /\ SourceTyped /\ WorkerTyped /\ LatchTyped /\ FlagsTyped
  BY DEF TypeOK, RingTyped, SourceTyped, WorkerTyped, LatchTyped, FlagsTyped

\* What the types give a proof
LEMMA Typed ==
    ASSUME TypeOK, Stages
    PROVE  /\ slotState \in [Slots -> SlotStates]
           /\ pPc \in {"top", "stalled", "unstalled", "wait", "fill", "hand", "returned", "done"}
           /\ pSlot \in Slots /\ generated \in 0 .. DiscardSlots /\ delivered \in 0 .. SlotLimit
           /\ cPc \in {"top", "wait", "check", "write", "free", "giveUp", "leaving", "done"}
           /\ cSlot \in Slots /\ buffers_processed \in 0 .. SlotLimit
           /\ latching \in [Threads -> Failures \cup {None}] /\ result \in Results
           /\ FlagsTyped
           /\ generated \in Nat /\ delivered \in Nat /\ buffers_processed \in Nat
           /\ cSlot \in Nat /\ cSlot < SlotCount /\ pSlot \in Nat /\ pSlot < SlotCount
           /\ options \in OptionRecords
  BY Limits, TypeParts DEF Stages, RingTyped, SourceTyped, WorkerTyped, LatchTyped

(***************************************************************************)
(* What each thread leaves alone.                                          *)
(***************************************************************************)
LEMMA Territories ==
    /\ TransferThread =>
          UNCHANGED <<options, cPc, cSlot, buffers_processed, kPc, source_finished, uPc,
                      asked, stop_requested, abort_requested, ring_abort,
                      processing_finished, running, file, sink_finished>>
    /\ ProcessingThread =>
          UNCHANGED <<options, pPc, pSlot, generated, delivered, data, kPc,
                      source_finished, uPc, asked, stop_requested, abort_requested,
                      ring_abort, transfer_finished, running, sink_finished>>
    /\ ControlThread =>
          UNCHANGED <<options, pPc, pSlot, generated, delivered, cPc, cSlot,
                      buffers_processed, data, uPc, asked, transfer_finished,
                      processing_finished, file>>
    /\ Caller =>
          UNCHANGED <<options, pPc, pSlot, generated, delivered, cPc, cSlot,
                      buffers_processed, data, kPc, source_finished, transfer_finished,
                      processing_finished, running, file, sink_finished>>
  <1>1. ASSUME TransferThread
        PROVE  UNCHANGED <<options, cPc, cSlot, buffers_processed, kPc, source_finished, uPc,
                           asked, stop_requested, abort_requested, ring_abort,
                           processing_finished, running, file, sink_finished>>
    BY <1>1 DEF TransferThread, SourceTop, SourceStalled, SourceUnstalled, SourceWait,
                SourceFill, SourceHandOver, TransferFinishes, StoreResult
  <1>2. ASSUME ProcessingThread
        PROVE  UNCHANGED <<options, pPc, pSlot, generated, delivered, data, kPc,
                           source_finished, uPc, asked, stop_requested, abort_requested,
                           ring_abort, transfer_finished, running, sink_finished>>
    BY <1>2 DEF ProcessingThread, WorkerTop, WorkerWait, WorkerCheck, WorkerWrite,
                WorkerFree, WorkerGivesUp, WorkerLeaves, StoreResult
  <1>3. ASSUME ControlThread
        PROVE  UNCHANGED <<options, pPc, pSlot, generated, delivered, cPc, cSlot,
                           buffers_processed, data, uPc, asked, transfer_finished,
                           processing_finished, file>>
    BY <1>3 DEF ControlThread, ControlPoll, ControlWatch, ControlStalled, ControlPad,
                ControlFailure, ControlRelease, ControlJoin, ControlClose, ControlSettle,
                ControlStops, StoreResult
  <1>4. ASSUME Caller
        PROVE  UNCHANGED <<options, pPc, pSlot, generated, delivered, cPc, cSlot,
                           buffers_processed, data, kPc, source_finished, transfer_finished,
                           processing_finished, running, file, sink_finished>>
    BY <1>4 DEF Caller, RequestStop, BeginAbort, AbortStops, AbortTearsDown, StartAgain,
                StoreResult
  <1> QED
    BY <1>1, <1>2, <1>3, <1>4

-----------------------------------------------------------------------------
(* The steps that move a buffer *)

\* A hand-over succeeds, or meets a ring torn down: it never overflows
LEMMA HandOver ==
    ASSUME RunInv, SourceHandOver
    PROVE  /\ UNCHANGED <<data, transfer_finished, generated>> /\ SourceFrame /\ pPc = "hand"
           /\ \/ /\ slotState[pSlot] = "empty" /\ slotState' = [slotState EXCEPT ![pSlot] = "full"]
                 /\ delivered' = delivered + 1 /\ pSlot' = NextSlot(pSlot) /\ pPc' = "top"
                 /\ UNCHANGED latchVars
              \/ /\ ring_abort /\ slotState' = slotState /\ pPc' = "returned"
                 /\ UNCHANGED <<pSlot, delivered>> /\ Latch("transfer", "forcedAbort")
  <1>1. pPc = "hand" /\ pSlot \in Slots /\ slotState[pSlot] \in {"empty", "aborted"}
    BY Typed DEF RunInv, ProducerOwns, SourceHandOver
  <1>2. UNCHANGED <<data, transfer_finished>> /\ SourceFrame
    BY DEF SourceHandOver
  <1>3. CASE slotState[pSlot] = "empty"
    BY <1>1, <1>2, <1>3 DEF SourceHandOver, FillResult, CasEmptyToFull
  <1>4. CASE slotState[pSlot] = "aborted"
    <2>1. FillResult(pSlot) = "aborted"
      BY <1>4 DEF FillResult
    <2>2. SourceReturns("forcedAbort") /\ slotState' = slotState
      BY <1>4, <2>1 DEF SourceHandOver, CasEmptyToFull
    <2>3. ring_abort
      BY <1>1, <1>4 DEF RunInv, RingState
    <2> QED
      BY <1>1, <1>2, <2>2, <2>3 DEF SourceReturns
  <1> QED
    BY <1>1, <1>3, <1>4

\* The buffer checked is the next of the stream, and a flaw found in it was injected
LEMMA Check ==
    ASSUME RunInv, WorkerCheck
    PROVE  /\ UNCHANGED <<slotState, cSlot, buffers_processed, processing_finished, file>>
           /\ WorkerFrame /\ cPc = "check"
           /\ data[cSlot] = Buffer(buffers_processed)
           /\ \/ /\ Latch("processing", "sequenceMismatch") /\ cPc' = "giveUp"
                 /\ options.fault = "sequenceBreak"
              \/ /\ Latch("processing", "verificationError") /\ cPc' = "giveUp"
                 /\ options.fault = "rampBreak" /\ options.test_mode
              \/ /\ UNCHANGED latchVars /\ cPc' = "write"
                 /\ Buffer(buffers_processed).flaw \in Allowed
  <1>1. cPc = "check" /\ cSlot \in Slots /\ options \in OptionRecords
    BY Typed DEF RunInv, WorkerCheck
  <1>2. data[cSlot] = Buffer(buffers_processed)
    <2>1. Ahead(cSlot) = 0 /\ InFlight > 0 /\ Consuming
      BY <1>1, Typed, Limits DEF RunInv, Layout, Ahead, Consuming, Busy
    <2> QED
      BY <1>1, <2>1, Typed DEF RunInv, Layout
  <1>3. /\ UNCHANGED <<slotState, cSlot, buffers_processed, processing_finished, file>>
        /\ WorkerFrame
    BY DEF WorkerCheck
  <1>4. Buffer(buffers_processed).flaw \in {None, "rampBreak", "sequenceBreak"} 
     /\ (Buffer(buffers_processed).flaw # None => Buffer(buffers_processed).flaw = options.fault)
    BY DEF Buffer
  <1>5. CASE data[cSlot].flaw = "sequenceBreak"
    BY <1>1, <1>2, <1>3, <1>4, <1>5 DEF WorkerCheck, None
  <1>6. CASE data[cSlot].flaw = "rampBreak" /\ options.test_mode
    BY <1>1, <1>2, <1>3, <1>4, <1>6 DEF WorkerCheck, None
  <1>7. CASE /\ data[cSlot].flaw # "sequenceBreak"
             /\ ~ (data[cSlot].flaw = "rampBreak" /\ options.test_mode)
    <2>1. UNCHANGED latchVars /\ cPc' = "write"
      BY <1>7 DEF WorkerCheck
    <2>2. Buffer(buffers_processed).flaw \in Allowed
      BY <1>2, <1>4, <1>7 DEF Allowed, None
    <2> QED
      BY <1>1, <1>2, <1>3, <2>1, <2>2
  <1> QED
    BY <1>5, <1>6, <1>7

(***************************************************************************)
(* Places in the ring, counted from the consumer's slot.                   *)
(***************************************************************************)
LEMMA Places ==
    ASSUME cSlot \in Slots
    PROVE  /\ Ahead(cSlot) = 0
           /\ \A i \in Slots : Ahead(i) \in 0 .. SlotCount - 1
           /\ \A n \in 0 .. SlotCount : Behind(n) \in Slots
           /\ \A n \in 0 .. SlotCount - 1 :
                 /\ \A i \in Slots : Ahead(i) = n <=> i = Behind(n)
                 /\ NextSlot(Behind(n)) = Behind(n + 1)
  BY Limits DEF Ahead, Behind, NextSlot

\* The consumer moves on by one slot
LEMMA MovedOn ==
    ASSUME cSlot \in Slots, cSlot' = NextSlot(cSlot)
    PROVE  /\ cSlot' \in Slots
           /\ \A i \in Slots : Ahead(i)' = IF i = cSlot THEN SlotCount - 1 ELSE Ahead(i) - 1
           /\ \A n \in 1 .. SlotCount : Behind(n - 1)' = Behind(n)
  BY Limits DEF Ahead, Behind, NextSlot

\* Nothing that keeps out of the ring, but for tearing it down, changes its order
LEMMA LayoutStill ==
    ASSUME RunInv, UNCHANGED <<options, pSlot, delivered, cSlot, buffers_processed, data>>,
           pPc' \in {"fill", "hand"} => pPc \in {"fill", "hand"},
           Consuming' => Consuming, Busy' => Busy,
           ring_abort => ring_abort',
           \A i \in Slots : ~ ring_abort' => (slotState'[i] = "full" <=> slotState[i] = "full")
    PROVE  Layout'
  <1>1. Layout /\ TypeOK /\ Stages
    BY DEF RunInv
  <1>2. UNCHANGED InFlight /\ \A n : Buffer(n)' = Buffer(n)
    BY DEF InFlight, Buffer
  <1>3. (\A i : Ahead(i)' = Ahead(i)) /\ \A n : Behind(n)' = Behind(n)
    BY DEF Ahead, Behind
  <1> QED
    BY <1>1, <1>2, <1>3, Typed DEF Layout, Busy

\* A free slot found is one that no buffer in flight has
LEMMA LayoutWait ==
    ASSUME RunInv, SourceWait
    PROVE  Layout'
  <1> USE Limits
  <1>0. TypeOK /\ Stages /\ RingState /\ Layout /\ cSlot \in Slots /\ pSlot \in Slots
    BY Typed DEF RunInv
  <1>1. UNCHANGED <<options, pSlot, delivered, cSlot, buffers_processed, data, cPc,
                    slotState, ring_abort>>
    BY DEF SourceWait, SourceFrame, workerVars, flagVars, SourceReturns
  <1>2. CASE pPc' = "fill"
    <2>1. slotState[pSlot] = "empty" /\ ~ ring_abort
      BY <1>0, <1>2 DEF SourceWait, SourceReturns, SlotIsFree, RingState
    <2>2. Consuming => InFlight < SlotCount
      <3>1. Ahead(pSlot) < SlotCount
        BY <1>0, Places
      <3>2. Consuming => InFlight # SlotCount
        BY <1>0, <2>1, <3>1 DEF Layout
      <3> QED
        BY <1>0, <3>2, Typed DEF Layout, InFlight
    <2>3. UNCHANGED InFlight /\ UNCHANGED Consuming /\ \A n : Buffer(n)' = Buffer(n)
      BY <1>1 DEF InFlight, Buffer, Consuming
    <2>4. (\A i : Ahead(i)' = Ahead(i)) /\ \A n : Behind(n)' = Behind(n)
      BY <1>1 DEF Ahead, Behind
    <2> QED
      BY <1>0, <1>1, <2>2, <2>3, <2>4 DEF Layout, Busy
  <1>3. CASE pPc' # "fill"
    <2>1. pPc' = "returned"
      BY <1>3 DEF SourceWait, SourceReturns
    <2> QED
      BY <1>1, <2>1, LayoutStill DEF Consuming, Busy
  <1> QED
    BY <1>2, <1>3

\* A buffer handed over is the last in flight
LEMMA LayoutHandOver ==
    ASSUME RunInv, SourceHandOver
    PROVE  Layout'
  <1> USE Limits
  <1>0. /\ TypeOK /\ Stages /\ RingState /\ ProducerOwns /\ Layout
        /\ cSlot \in Slots /\ pSlot \in Slots
    BY Typed DEF RunInv
  <1>1. UNCHANGED <<options, cSlot, buffers_processed, data, cPc, ring_abort>> /\ pPc = "hand"
    BY HandOver DEF SourceFrame, workerVars, flagVars
  <1>2. CASE slotState' = slotState /\ pPc' = "returned" /\ UNCHANGED <<pSlot, delivered>>
    BY <1>1, <1>2, LayoutStill DEF Consuming, Busy
  <1>3. CASE /\ slotState[pSlot] = "empty" /\ slotState' = [slotState EXCEPT ![pSlot] = "full"]
             /\ delivered' = delivered + 1 /\ pSlot' = NextSlot(pSlot) /\ pPc' = "top"
    <2>1. InFlight \in Int /\ InFlight' = InFlight + 1 /\ buffers_processed' <= delivered'
      BY <1>0, <1>1, <1>3, Typed DEF InFlight, Layout
    <2>2. UNCHANGED Consuming /\ \A n : Buffer(n)' = Buffer(n)
      BY <1>1 DEF Consuming, Buffer
    <2>3. (\A i : Ahead(i)' = Ahead(i)) /\ \A n : Behind(n)' = Behind(n)
      BY <1>1 DEF Ahead, Behind
    <2>4. SUFFICES ASSUME Consuming
                   PROVE  /\ InFlight' <= SlotCount /\ pSlot' = Behind(InFlight')
                          /\ InFlight' > 0
                          /\ \A i \in Slots :
                                /\ slotState'[i] = "full" <=> Ahead(i) < InFlight'
                                /\ Ahead(i) < InFlight' =>
                                      data[i] = Buffer(buffers_processed + Ahead(i))
      BY <1>1, <1>3, <2>1, <2>2, <2>3 DEF Layout, Busy
    <2>5. /\ InFlight \in 0 .. SlotCount - 1 /\ pSlot = Behind(InFlight)
          /\ InFlight + buffers_processed = delivered
      BY <1>0, <1>1, <2>1, <2>4, Typed DEF Layout, InFlight
    <2>6. pSlot' = Behind(InFlight')
      BY <1>0, <1>3, <2>1, <2>5, Places
    <2>7. ~ ring_abort /\ data[pSlot] = Buffer(delivered)
      BY <1>0, <1>1, <1>3 DEF RingState, ProducerOwns
    <2>8. ASSUME NEW i \in Slots
          PROVE  /\ slotState'[i] = "full" <=> Ahead(i) < InFlight'
                 /\ Ahead(i) < InFlight' => data[i] = Buffer(buffers_processed + Ahead(i))
      <3>1. Ahead(i) \in Int /\ (Ahead(i) = InFlight <=> i = pSlot)
        <4>1. Ahead(i) \in Int
          BY <1>0, Places
        <4>2. Ahead(i) = InFlight <=> i = Behind(InFlight)
          BY <1>0, <2>5, Places
        <4> QED
          BY <2>5, <4>1, <4>2
      <3>2. Ahead(i) < InFlight' <=> Ahead(i) < InFlight \/ i = pSlot
        BY <2>1, <3>1
      <3>3. slotState'[i] = "full" <=> slotState[i] = "full" \/ i = pSlot
        BY <1>0, <1>3, Typed
      <3>4. slotState[i] = "full" <=> Ahead(i) < InFlight
        BY <1>0, <2>4, <2>7 DEF Layout
      <3>5. i = pSlot => buffers_processed + Ahead(i) = delivered
        BY <1>0, <2>1, <2>5, <3>1, Typed
      <3>6. Ahead(i) < InFlight => data[i] = Buffer(buffers_processed + Ahead(i))
        BY <1>0, <2>4 DEF Layout
      <3>7. i = pSlot => data[i] = Buffer(buffers_processed + Ahead(i))
        BY <2>7, <3>5
      <3> QED
        BY <3>2, <3>3, <3>4, <3>6, <3>7
    <2> QED
      BY <2>1, <2>5, <2>6, <2>8
  <1> QED
    BY <1>2, <1>3, HandOver

\* Data found is the first buffer in flight
LEMMA LayoutWorkerWait ==
    ASSUME RunInv, WorkerWait
    PROVE  Layout'
  <1> USE Limits
  <1>0. TypeOK /\ Stages /\ RingState /\ Layout /\ cSlot \in Slots
    BY Typed DEF RunInv
  <1>1. /\ UNCHANGED <<options, pPc, pSlot, delivered, cSlot, buffers_processed, data,
                       slotState, ring_abort>>
        /\ cPc = "wait"
    BY DEF WorkerWait, WorkerFrame, sourceVars, flagVars
  <1>2. CASE cPc' = "check"
    <2>1. slotState[cSlot] = "full" /\ ~ ring_abort
      BY <1>0, <1>2 DEF WorkerWait, SlotHasData, RingState
    <2>2. InFlight > 0
      <3>1. Ahead(cSlot) = 0 /\ Consuming
        BY <1>0, <1>1, Places DEF Consuming
      <3> QED
        BY <1>0, <2>1, <3>1 DEF Layout
    <2>3. UNCHANGED InFlight /\ Consuming /\ \A n : Buffer(n)' = Buffer(n)
      BY <1>1 DEF InFlight, Buffer, Consuming
    <2>4. (\A i : Ahead(i)' = Ahead(i)) /\ \A n : Behind(n)' = Behind(n)
      BY <1>1 DEF Ahead, Behind
    <2> QED
      BY <1>0, <1>1, <2>2, <2>3, <2>4 DEF Layout, Busy
  <1>3. CASE cPc' = "leaving"
    BY <1>1, <1>3, LayoutStill DEF Consuming, Busy
  <1> QED
    BY <1>2, <1>3 DEF WorkerWait

\* The buffer given back was the first in flight
LEMMA LayoutFree ==
    ASSUME RunInv, WorkerFree
    PROVE  Layout'
  <1> USE Limits
  <1>0. TypeOK /\ Stages /\ RingState /\ Layout /\ cSlot \in Slots /\ pSlot \in Slots
    BY Typed DEF RunInv
  <1>1. /\ UNCHANGED <<options, pPc, pSlot, delivered, data, ring_abort>>
        /\ cPc = "free" /\ cPc' = "top" /\ cSlot' = NextSlot(cSlot)
        /\ buffers_processed' = buffers_processed + 1 /\ CasToEmpty(cSlot)
    BY DEF WorkerFree, WorkerFrame, sourceVars, flagVars
  <1>2. Consuming /\ Consuming' /\ \A n : Buffer(n)' = Buffer(n)
    BY <1>1 DEF Consuming, Buffer
  <1>3. /\ InFlight \in 1 .. SlotCount /\ InFlight' = InFlight - 1 /\ pSlot = Behind(InFlight)
        /\ pPc \in {"fill", "hand"} => InFlight < SlotCount
    BY <1>0, <1>1, <1>2, Typed DEF Layout, InFlight, Busy
  <1>4. buffers_processed' <= delivered'
    BY <1>0, <1>1, <1>3, Typed DEF InFlight
  <1>5. pSlot' = Behind(InFlight)'
    <2>1. pSlot' = IF cSlot + InFlight >= SlotCount THEN cSlot + InFlight - SlotCount
                                                    ELSE cSlot + InFlight
      BY <1>1, <1>3 DEF Behind
    <2>2. cSlot' = IF cSlot = SlotCount - 1 THEN 0 ELSE cSlot + 1
      BY <1>1 DEF NextSlot
    <2>3. cSlot \in Nat /\ cSlot < SlotCount
      BY <1>0, Typed
    <2>4. Behind(InFlight)' = IF cSlot' + InFlight' >= SlotCount
                              THEN cSlot' + InFlight' - SlotCount ELSE cSlot' + InFlight'
      BY DEF Behind
    <2> QED
      BY <1>3, <2>1, <2>2, <2>3, <2>4
  <1>6. ASSUME NEW i \in Slots
        PROVE  /\ ~ ring_abort => (slotState'[i] = "full" <=> Ahead(i)' < InFlight')
               /\ Ahead(i)' < InFlight' => data[i] = Buffer(buffers_processed' + Ahead(i)')
    <2>1. Ahead(i) \in 0 .. SlotCount - 1 /\ Ahead(cSlot) = 0
      BY <1>0, Places
    <2>2. CASE i = cSlot
      <3>1. ~ (Ahead(i)' < InFlight')
        BY <1>0, <1>1, <1>3, <2>2, MovedOn
      <3>2. ~ ring_abort => slotState'[i] # "full"
        BY <1>0, <1>1, <2>2, Typed DEF CasToEmpty
      <3> QED
        BY <3>1, <3>2
    <2>3. CASE i # cSlot
      <3>1. Ahead(i)' = Ahead(i) - 1
        BY <1>0, <1>1, <2>3, MovedOn
      <3>2. slotState'[i] = slotState[i]
        BY <1>0, <1>1, <2>3, Typed DEF CasToEmpty
      <3>3. Ahead(i)' < InFlight' <=> Ahead(i) < InFlight
        BY <1>3, <2>1, <3>1
      <3>4. buffers_processed' + Ahead(i)' = buffers_processed + Ahead(i)
        BY <1>0, <1>1, <2>1, <3>1, Typed
      <3>5. Ahead(i) < InFlight => data[i] = Buffer(buffers_processed + Ahead(i))
        BY <1>0, <1>2 DEF Layout
      <3>6. ~ ring_abort => (slotState[i] = "full" <=> Ahead(i) < InFlight)
        BY <1>0, <1>2 DEF Layout
      <3> QED
        BY <3>2, <3>3, <3>4, <3>5, <3>6
    <2> QED
      BY <2>2, <2>3
  <1>7. InFlight' <= SlotCount /\ (pPc' \in {"fill", "hand"} => InFlight' < SlotCount)
    BY <1>1, <1>3
  <1>8. /\ cPc' \notin {"check", "write", "free", "giveUp"}
        /\ UNCHANGED <<ring_abort, data>>
    BY <1>1
  <1> QED
    BY <1>2, <1>4, <1>5, <1>6, <1>7, <1>8 DEF Layout, Busy

\* A buffer filled is the next one to deliver
LEMMA FilledOwn ==
    ASSUME RunInv, SourceFill
    PROVE  ProducerOwns'
  <1>1. TypeOK /\ Stages /\ ProducerOwns /\ DataIsReal
    BY DEF RunInv
  <1>2. /\ pPc = "fill" /\ pPc' \in {"returned", "top", "hand"}
        /\ UNCHANGED <<pSlot, delivered, slotState, options>>
        /\ data' = [data EXCEPT ![pSlot] = Buffer(delivered)]
    BY DEF SourceFill, SourceFrame, SourceReturns
  <1>3. data'[pSlot] = Buffer(delivered)
    BY <1>1, <1>2, Typed DEF DataIsReal
  <1>4. Buffer(delivered)' = Buffer(delivered)
    BY <1>2 DEF Buffer
  <1> QED
    BY <1>1, <1>2, <1>3, <1>4 DEF ProducerOwns

\* What is written is the next buffer of the stream
LEMMA FileWritten ==
    ASSUME RunInv, WorkerWrite
    PROVE  FileInv'
  <1>1. TypeOK /\ Stages /\ FileInv /\ Layout /\ cSlot \in Slots /\ buffers_processed \in Nat
    BY Typed DEF RunInv
  <1>2. /\ UNCHANGED <<options, buffers_processed>> /\ cPc = "write"
        /\ \/ file' = file /\ cPc' = "giveUp"
           \/ file' = Append(file, data[cSlot].number) /\ cPc' = "free"
    BY DEF WorkerWrite, WorkerFrame
  <1>3. (\A n : Buffer(n)' = Buffer(n)) /\ Allowed' = Allowed
    BY <1>2 DEF Buffer, Allowed
  <1>4. CASE file' = file /\ cPc' = "giveUp"
    BY <1>1, <1>2, <1>3, <1>4 DEF FileInv
  <1>5. CASE file' = Append(file, data[cSlot].number) /\ cPc' = "free"
    <2>1. data[cSlot].number = buffers_processed
      <3>1. Ahead(cSlot) = 0 /\ Consuming /\ InFlight > 0
        BY <1>1, <1>2, Places DEF Layout, Consuming, Busy
      <3>2. data[cSlot] = Buffer(buffers_processed)
        BY <1>1, <3>1 DEF Layout
      <3> QED
        BY <3>2 DEF Buffer
    <2>2. /\ file \in Seq(Nat) /\ Len(file) = buffers_processed
          /\ file' = Append(file, buffers_processed)
      BY <1>1, <1>2, <1>5, <2>1 DEF FileInv
    <2>3. file' \in Seq(Nat) /\ Len(file') = buffers_processed + 1
      BY <1>1, <2>2
    <2>4. ASSUME NEW n \in 1 .. Len(file')
          PROVE  file'[n] = n - 1 /\ Buffer(n - 1).flaw \in Allowed
      <3>1. CASE n = buffers_processed + 1
        <4>1. file'[n] = buffers_processed
          BY <1>1, <2>2, <3>1
        <4>2. n - 1 = buffers_processed
          BY <1>1, <3>1
        <4>3. Buffer(buffers_processed).flaw \in Allowed
          BY <1>1, <1>2 DEF FileInv
        <4> QED
          BY <4>1, <4>2, <4>3
      <3>2. CASE n \in 1 .. Len(file)
        BY <1>1, <2>2, <3>2 DEF FileInv
      <3> QED
        BY <1>1, <2>2, <2>3, <2>4, <3>1, <3>2
    <2> QED
      BY <1>2, <1>3, <1>5, <2>3, <2>4 DEF FileInv
  <1> QED
    BY <1>2, <1>4, <1>5

\* What has been said of the run stays true of it
LEMMA RealStays ==
    ASSUME UNCHANGED <<options, buffers_processed>>, asked \subseteq asked',
           cPc \in {"giveUp", "leaving", "done"} => cPc' \in {"giveUp", "leaving", "done"}
    PROVE  \A failure : IsReal(failure) => IsReal(failure)'
  BY DEF IsReal

\* A failure that is true of the run may be latched
LEMMA LatchedIsReal ==
    ASSUME FailuresAreReal, NEW t \in Threads, NEW failure, Latch(t, failure),
           latching \in [Threads -> Failures \cup {None}],
           ~ result_latched => IsReal(failure)',
           UNCHANGED <<options, buffers_processed>>, asked \subseteq asked',
           cPc \in {"giveUp", "leaving", "done"} => cPc' \in {"giveUp", "leaving", "done"}
    PROVE  FailuresAreReal'
  <1>1. \A f : IsReal(f) => IsReal(f)'
    BY RealStays
  <1>2. result' = result
    BY DEF Latch
  <1>3. IsReal(result)'
    <2>1. IsReal(result)
      BY DEF FailuresAreReal
    <2> QED
      BY <1>2, <2>1, RealStays DEF IsReal
  <1>4. ASSUME NEW u \in Threads PROVE IsReal(latching[u])'
    <2>1. \/ latching'[u] = latching[u]
          \/ ~ result_latched /\ latching'[u] = failure
      BY DEF Latch
    <2>2. IsReal(latching[u])
      BY DEF FailuresAreReal
    <2> QED
      BY <1>1, <2>1, <2>2 DEF IsReal
  <1> QED
    BY <1>3, <1>4 DEF FailuresAreReal

\* A hand-over that fails for a tear-down follows another failure, or an Abort
LEMMA HandedOverIsReal ==
    ASSUME RunInv, SourceHandOver
    PROVE  FailuresAreReal'
  <1>1. FailuresAreReal /\ latching \in [Threads -> Failures \cup {None}] /\ Graceful
    BY Typed DEF RunInv
  <1>2. UNCHANGED <<options, buffers_processed, asked, cPc>>
    BY HandOver DEF SourceFrame, workerVars, callerVars
  <1>3. CASE UNCHANGED latchVars
    BY <1>1, <1>2, <1>3 DEF FailuresAreReal, IsReal, latchVars
  <1>4. CASE ring_abort /\ Latch("transfer", "forcedAbort")
    <2>1. ~ result_latched => IsReal("forcedAbort")'
      BY <1>1, <1>2, <1>4 DEF Graceful, IsReal
    <2> QED
      BY <1>1, <1>2, <1>4, <2>1, LatchedIsReal DEF Threads
  <1> QED
    BY <1>3, <1>4, HandOver

\* A check fails only for a break that was injected
LEMMA CheckedIsReal ==
    ASSUME RunInv, WorkerCheck
    PROVE  FailuresAreReal'
  <1>1. FailuresAreReal /\ latching \in [Threads -> Failures \cup {None}]
    BY Typed DEF RunInv
  <1>2. UNCHANGED <<options, buffers_processed, asked>> /\ cPc = "check"
    BY Check DEF WorkerFrame, callerVars
  <1>3. CASE UNCHANGED latchVars
    BY <1>1, <1>2, <1>3 DEF FailuresAreReal, IsReal, latchVars
  <1>4. CASE Latch("processing", "sequenceMismatch") /\ options.fault = "sequenceBreak"
    <2>1. IsReal("sequenceMismatch")'
      BY <1>2, <1>4 DEF IsReal
    <2> QED
      BY <1>1, <1>2, <1>4, <2>1, LatchedIsReal DEF Threads
  <1>5. CASE /\ Latch("processing", "verificationError")
             /\ options.fault = "rampBreak" /\ options.test_mode
    <2>1. IsReal("verificationError")'
      BY <1>2, <1>5 DEF IsReal
    <2> QED
      BY <1>1, <1>2, <1>5, <2>1, LatchedIsReal DEF Threads
  <1> QED
    BY <1>3, <1>4, <1>5, Check

\* A buffer is filled behind those in flight
LEMMA LayoutFill ==
    ASSUME RunInv, SourceFill
    PROVE  Layout'
  <1>1. TypeOK /\ Stages /\ Layout /\ DataIsReal /\ cSlot \in Slots /\ pSlot \in Slots
    BY Typed DEF RunInv, WorkerTyped, SourceTyped
  <1>2. /\ UNCHANGED <<options, pSlot, delivered, cSlot, buffers_processed, cPc, slotState,
                       ring_abort>>
        /\ pPc = "fill" /\ data' = [data EXCEPT ![pSlot] = Buffer(delivered)]
    BY DEF SourceFill, SourceReturns
  <1>3. UNCHANGED <<InFlight, Consuming, Busy>> /\ \A n : Buffer(n)' = Buffer(n)
    BY <1>2 DEF InFlight, Consuming, Busy, Buffer
  <1>4. (\A i : Ahead(i)' = Ahead(i)) /\ \A n : Behind(n)' = Behind(n)
    BY <1>2, Limits DEF Ahead, Behind
  <1>5. ASSUME Consuming, NEW i \in Slots, Ahead(i) < InFlight
        PROVE  data'[i] = data[i]
    <2>1. InFlight \in 0 .. SlotCount - 1 /\ pSlot = Behind(InFlight)
      BY <1>1, <1>2, <1>5, Typed, Limits DEF Layout, InFlight
    <2>2. Ahead(pSlot) = InFlight
      BY <1>1, <2>1, Places
    <2>3. i # pSlot
      BY <1>5, <2>1, <2>2
    <2> QED
      BY <1>1, <1>2, <2>3 DEF DataIsReal
  <1> QED
    BY <1>1, <1>2, <1>3, <1>4, <1>5 DEF Layout

\* A consumer that gives up takes no more buffers
LEMMA LayoutGivenUp ==
    ASSUME RunInv, WorkerGivesUp
    PROVE  Layout'
  <1>1. Layout
    BY DEF RunInv
  <1>2. UNCHANGED <<delivered, buffers_processed>> /\ ~ Consuming'
    BY DEF WorkerGivesUp, Consuming
  <1> QED
    BY <1>1, <1>2 DEF Layout

\* What is filled is a buffer of the stream
LEMMA FilledReal ==
    ASSUME RunInv, SourceFill
    PROVE  DataIsReal'
  <1>1. DataIsReal /\ pSlot \in Slots /\ delivered \in Nat
    BY Typed DEF RunInv, SourceTyped
  <1>2. data' = [data EXCEPT ![pSlot] = Buffer(delivered)] /\ options' = options
    BY DEF SourceFill
  <1>3. \A n : Buffer(n)' = Buffer(n)
    BY <1>2 DEF Buffer
  <1>4. DOMAIN data' = Slots /\ data' = [i \in Slots |-> data'[i]]
    BY <1>1, <1>2 DEF DataIsReal
  <1>5. \A i \in Slots : \E n \in Nat : data'[i] = Buffer(n)
    BY <1>1, <1>2 DEF DataIsReal
  <1> QED
    BY <1>3, <1>4, <1>5 DEF DataIsReal

\* What is stored was true when it was latched, and still is
LEMMA StoredIsReal ==
    ASSUME RunInv, NEW t \in Threads, StoreResult(t)
    PROVE  FailuresAreReal'
  <1>1. FailuresAreReal /\ latching \in [Threads -> Failures \cup {None}]
    BY Typed DEF RunInv
  <1>2. UNCHANGED <<options, buffers_processed, asked, cPc>>
    BY DEF StoreResult
  <1>3. result' = latching[t] /\ \A u \in Threads : latching'[u] \in {latching[u], None}
    BY <1>1 DEF StoreResult
  <1>4. IsReal(None)
    BY DEF IsReal, None
  <1>5. IsReal(result') /\ \A u \in Threads : IsReal(latching'[u])
    BY <1>1, <1>3, <1>4 DEF FailuresAreReal
  <1> QED
    BY <1>2, <1>5 DEF FailuresAreReal, IsReal

\* The consumer's wait ends without data only when none is left, or on a tear-down
LEMMA LeavesEmpty ==
    ASSUME RunInv, WorkerWait
    PROVE  \/ cPc' = "check"
           \/ ring_abort
           \/ transfer_finished /\ buffers_processed = delivered
  <1>1. /\ TypeOK /\ Stages /\ RingState /\ Layout /\ cSlot \in Slots
        /\ buffers_processed \in Nat /\ delivered \in Nat
    BY Typed DEF RunInv
  <1>2. Consuming /\ Ahead(cSlot) = 0
    BY <1>1, Places DEF WorkerWait, Consuming
  <1>3. CASE SlotReleased(cSlot) /\ ~ ring_abort
    <2>1. slotState[cSlot] = "dumped" /\ transfer_finished
      BY <1>1, <1>3 DEF SlotReleased, RingState
    <2>2. ~ (0 < InFlight)
      BY <1>1, <1>2, <1>3, <2>1 DEF Layout
    <2> QED
      BY <1>1, <2>1, <2>2 DEF Layout, InFlight
  <1> QED
    BY <1>3 DEF WorkerWait

-----------------------------------------------------------------------------
(* Every step keeps every part of the invariant *)

\* The slots
LEMMA RingTypeKept ==
    ASSUME RunInv, [Next]_vars
    PROVE  RingTyped'
  <1>0. TypeOK /\ Stages /\ ProducerOwns
    BY DEF RunInv
  <1> USE <1>0, Typed, Limits
        DEF RingTyped, SlotStates, SourceTyped, WorkerTyped, CasEmptyToFull, CasToEmpty,
            DumpEmptySlots, AbortSlots, SourceReturns
  <1>1. CASE TransferThread
    <2>1. CASE SourceTop \/ SourceStalled \/ SourceUnstalled \/ SourceWait
      BY <2>1 DEF SourceTop, SourceStalled, SourceUnstalled, SourceWait
    <2>2. CASE SourceFill
      BY <2>2 DEF SourceFill
    <2>3. CASE SourceHandOver
      BY <2>3, HandOver
    <2>4. CASE TransferFinishes \/ StoreResult("transfer")
      BY <2>4 DEF TransferFinishes, StoreResult
    <2> QED
      BY <1>1, <2>1, <2>2, <2>3, <2>4 DEF TransferThread
  <1>2. CASE ProcessingThread
    BY <1>2
       DEF ProcessingThread, WorkerTop, WorkerWait, WorkerCheck, WorkerWrite, WorkerFree,
           WorkerGivesUp, WorkerLeaves, StoreResult
  <1>3. CASE ControlThread
    BY <1>3
       DEF ControlThread, ControlPoll, ControlWatch, ControlStalled, ControlPad,
           ControlFailure, ControlRelease, ControlJoin, ControlClose, ControlSettle,
           ControlStops, StoreResult
  <1>4. CASE Caller
    BY <1>4
       DEF Caller, RequestStop, BeginAbort, AbortStops, AbortTearsDown, StartAgain,
           StoreResult
  <1>5. CASE UNCHANGED vars
    BY <1>5 DEF vars
  <1> QED
    BY <1>1, <1>2, <1>3, <1>4, <1>5 DEF Next, Stopped

\* The transfer thread
LEMMA SourceTypeKept ==
    ASSUME RunInv, [Next]_vars
    PROVE  SourceTyped'
  <1>0. TypeOK /\ Stages /\ ProducerOwns
    BY DEF RunInv
  <1> USE <1>0, Typed, Limits
        DEF SourceTyped, ProducerOwns, Discarding, SourceReturns, NextSlot
  <1>1. CASE TransferThread
    <2>1. CASE SourceTop \/ SourceStalled \/ SourceUnstalled \/ SourceWait
      BY <2>1 DEF SourceTop, SourceStalled, SourceUnstalled, SourceWait
    <2>2. CASE SourceFill
      BY <2>2 DEF SourceFill
    <2>3. CASE SourceHandOver
      BY <2>3, HandOver
    <2>4. CASE TransferFinishes \/ StoreResult("transfer")
      BY <2>4 DEF TransferFinishes, StoreResult
    <2> QED
      BY <1>1, <2>1, <2>2, <2>3, <2>4 DEF TransferThread
  <1>2. CASE ProcessingThread \/ ControlThread \/ Caller
    BY <1>2, Territories
  <1>3. CASE UNCHANGED vars
    BY <1>3 DEF vars
  <1> QED
    BY <1>1, <1>2, <1>3 DEF Next, Stopped

\* The processing thread
LEMMA WorkerTypeKept ==
    ASSUME RunInv, [Next]_vars
    PROVE  WorkerTyped'
  <1>0. TypeOK /\ Stages /\ Layout
    BY DEF RunInv
  <1> USE <1>0, Typed, Limits
        DEF SourceTyped, WorkerTyped, Layout, Consuming, InFlight, Busy, NextSlot
  <1>1. CASE ProcessingThread
    BY <1>1
       DEF ProcessingThread, WorkerTop, WorkerWait, WorkerCheck, WorkerWrite, WorkerFree,
           WorkerGivesUp, WorkerLeaves, StoreResult
  <1>2. CASE TransferThread \/ ControlThread \/ Caller
    BY <1>2, Territories
  <1>3. CASE UNCHANGED vars
    BY <1>3 DEF vars
  <1> QED
    BY <1>1, <1>2, <1>3 DEF Next, Stopped

\* The latch
LEMMA LatchTypeKept ==
    ASSUME RunInv, [Next]_vars
    PROVE  LatchTyped'
  <1>0. TypeOK /\ Stages
    BY DEF RunInv
  <1> USE <1>0, Typed, Limits
        DEF LatchTyped, Latch, SourceReturns, Results, Failures, Threads
  <1>1. CASE TransferThread
    <2>1. CASE SourceTop \/ SourceStalled \/ SourceUnstalled \/ SourceWait
      BY <2>1 DEF SourceTop, SourceStalled, SourceUnstalled, SourceWait
    <2>2. CASE SourceFill
      BY <2>2 DEF SourceFill
    <2>3. CASE SourceHandOver
      BY <2>3, HandOver
    <2>4. CASE TransferFinishes \/ StoreResult("transfer")
      BY <2>4 DEF TransferFinishes, StoreResult
    <2> QED
      BY <1>1, <2>1, <2>2, <2>3, <2>4 DEF TransferThread
  <1>2. CASE ProcessingThread
    <2>1. CASE WorkerTop \/ WorkerWait
      BY <2>1 DEF WorkerTop, WorkerWait
    <2>2. CASE WorkerCheck
      BY <2>2, Check
    <2>3. CASE WorkerWrite
      BY <2>3 DEF WorkerWrite
    <2>4. CASE WorkerFree \/ WorkerGivesUp \/ WorkerLeaves \/ StoreResult("processing")
      BY <2>4 DEF WorkerFree, WorkerGivesUp, WorkerLeaves, StoreResult
    <2> QED
      BY <1>2, <2>1, <2>2, <2>3, <2>4 DEF ProcessingThread
  <1>3. CASE ControlThread
    BY <1>3
       DEF ControlThread, ControlPoll, ControlWatch, ControlStalled, ControlPad,
           ControlFailure, ControlRelease, ControlJoin, ControlClose, ControlSettle,
           ControlStops, StoreResult
  <1>4. CASE Caller
    BY <1>4
       DEF Caller, RequestStop, BeginAbort, AbortStops, AbortTearsDown, StartAgain,
           StoreResult
  <1>5. CASE UNCHANGED vars
    BY <1>5 DEF vars
  <1> QED
    BY <1>1, <1>2, <1>3, <1>4, <1>5 DEF Next, Stopped

\* The flags are only ever raised, but for running_, which is only ever lowered
LEMMA FlagTypeKept ==
    ASSUME RunInv, [Next]_vars
    PROVE  FlagsTyped'
  <1>0. FlagsTyped
    BY Typed DEF RunInv
  <1> USE DEF SourceReturns, Latch
  <1>1. result_latched' = result_latched \/ result_latched' = TRUE
    <2>1. CASE TransferThread
      BY <2>1, HandOver
         DEF TransferThread, SourceTop, SourceStalled, SourceUnstalled, SourceWait,
             SourceFill, TransferFinishes, StoreResult
    <2>2. CASE ProcessingThread
      BY <2>2, Check
         DEF ProcessingThread, WorkerTop, WorkerWait, WorkerWrite, WorkerFree,
             WorkerGivesUp, WorkerLeaves, StoreResult
    <2>3. CASE ControlThread
      BY <2>3
         DEF ControlThread, ControlPoll, ControlWatch, ControlStalled, ControlPad,
             ControlFailure, ControlRelease, ControlJoin, ControlClose, ControlSettle,
             ControlStops, StoreResult
    <2>4. CASE Caller
      BY <2>4
         DEF Caller, RequestStop, BeginAbort, AbortStops, AbortTearsDown, StartAgain,
             StoreResult
    <2> QED
      BY <2>1, <2>2, <2>3, <2>4 DEF Next, Stopped, vars
  <1>2. CASE TransferThread
    <2>1. transfer_finished' = transfer_finished \/ transfer_finished' = TRUE
      BY <1>2, HandOver
         DEF TransferThread, SourceTop, SourceStalled, SourceUnstalled, SourceWait,
             SourceFill, TransferFinishes, StoreResult
    <2> QED
      BY <1>0, <1>1, <1>2, <2>1, Territories DEF FlagsTyped
  <1>3. CASE ProcessingThread
    <2>1. processing_finished' = processing_finished \/ processing_finished' = TRUE
      BY <1>3, Check
         DEF ProcessingThread, WorkerTop, WorkerWait, WorkerWrite, WorkerFree,
             WorkerGivesUp, WorkerLeaves, StoreResult
    <2> QED
      BY <1>0, <1>1, <1>3, <2>1, Territories DEF FlagsTyped
  <1>4. CASE ControlThread
    <2>1. /\ stop_requested' = stop_requested \/ stop_requested' = TRUE
          /\ abort_requested' = abort_requested \/ abort_requested' = TRUE
          /\ ring_abort' = ring_abort \/ ring_abort' = TRUE
      BY <1>4
         DEF ControlThread, ControlPoll, ControlWatch, ControlStalled, ControlPad,
             ControlFailure, ControlRelease, ControlJoin, ControlClose, ControlSettle,
             ControlStops, StoreResult
    <2>2. /\ source_finished' = source_finished \/ source_finished' = TRUE
          /\ sink_finished' = sink_finished \/ sink_finished' = TRUE
          /\ running' = running \/ running' = FALSE
      BY <1>4
         DEF ControlThread, ControlPoll, ControlWatch, ControlStalled, ControlPad,
             ControlFailure, ControlRelease, ControlJoin, ControlClose, ControlSettle,
             ControlStops, StoreResult
    <2>3. /\ stop_requested' \in BOOLEAN /\ abort_requested' \in BOOLEAN
          /\ ring_abort' \in BOOLEAN
      BY <1>0, <2>1 DEF FlagsTyped
    <2>4. /\ source_finished' \in BOOLEAN /\ sink_finished' \in BOOLEAN
          /\ running' \in BOOLEAN
      BY <1>0, <2>2 DEF FlagsTyped
    <2>5. UNCHANGED <<transfer_finished, processing_finished>>
      BY <1>4, Territories
    <2> QED
      BY <1>0, <1>1, <2>3, <2>4, <2>5 DEF FlagsTyped
  <1>5. CASE Caller
    <2>1. /\ stop_requested' = stop_requested \/ stop_requested' = TRUE
          /\ abort_requested' = abort_requested \/ abort_requested' = TRUE
          /\ ring_abort' = ring_abort \/ ring_abort' = TRUE
      BY <1>5
         DEF Caller, RequestStop, BeginAbort, AbortStops, AbortTearsDown, StartAgain,
             StoreResult
    <2> QED
      BY <1>0, <1>1, <1>5, <2>1, Territories DEF FlagsTyped
  <1>6. CASE UNCHANGED vars
    BY <1>0, <1>6 DEF FlagsTyped, vars
  <1> QED
    BY <1>2, <1>3, <1>4, <1>5, <1>6 DEF Next, Stopped

\* How far the threads are
LEMMA StagesKept ==
    ASSUME RunInv, [Next]_vars
    PROVE  Stages'
  <1>0. TypeOK /\ Stages
    BY DEF RunInv
  <1> USE <1>0, Typed, Limits
        DEF Stages, SourceReturns, CallerFree
  <1>1. CASE TransferThread
    <2>1. CASE SourceTop \/ SourceStalled \/ SourceUnstalled \/ SourceWait
      BY <2>1 DEF SourceTop, SourceStalled, SourceUnstalled, SourceWait
    <2>2. CASE SourceFill
      BY <2>2 DEF SourceFill
    <2>3. CASE SourceHandOver
      BY <2>3, HandOver
    <2>4. CASE TransferFinishes \/ StoreResult("transfer")
      BY <2>4 DEF TransferFinishes, StoreResult
    <2> QED
      BY <1>1, <2>1, <2>2, <2>3, <2>4 DEF TransferThread
  <1>2. CASE ProcessingThread
    BY <1>2
       DEF ProcessingThread, WorkerTop, WorkerWait, WorkerCheck, WorkerWrite, WorkerFree,
           WorkerGivesUp, WorkerLeaves, StoreResult
  <1>3. CASE ControlThread
    BY <1>3
       DEF ControlThread, ControlPoll, ControlWatch, ControlStalled, ControlPad,
           ControlFailure, ControlRelease, ControlJoin, ControlClose, ControlSettle,
           ControlStops, StoreResult
  <1>4. CASE Caller
    BY <1>4
       DEF Caller, RequestStop, BeginAbort, AbortStops, AbortTearsDown, StartAgain,
           StoreResult
  <1>5. CASE UNCHANGED vars
    BY <1>5 DEF vars
  <1> QED
    BY <1>1, <1>2, <1>3, <1>4, <1>5 DEF Next, Stopped

\* The ring is torn down as a whole
LEMMA RingKept ==
    ASSUME RunInv, [Next]_vars
    PROVE  RingState'
  <1>0. TypeOK /\ Stages /\ RingState
    BY DEF RunInv
  <1> USE <1>0, Typed, Limits
        DEF RingState, RingTyped, SourceTyped, WorkerTyped, Stages, SlotStates,
            CasEmptyToFull, CasToEmpty, DumpEmptySlots, AbortSlots, SourceReturns
  <1>1. CASE TransferThread
    <2>1. CASE SourceTop \/ SourceStalled \/ SourceUnstalled \/ SourceWait
      BY <2>1 DEF SourceTop, SourceStalled, SourceUnstalled, SourceWait
    <2>2. CASE SourceFill
      BY <2>2 DEF SourceFill
    <2>3. CASE SourceHandOver
      BY <2>3, HandOver
    <2>4. CASE TransferFinishes \/ StoreResult("transfer")
      BY <2>4 DEF TransferFinishes, StoreResult
    <2> QED
      BY <1>1, <2>1, <2>2, <2>3, <2>4 DEF TransferThread
  <1>2. CASE ProcessingThread
    <2>1. CASE WorkerTop \/ WorkerWait
      BY <2>1 DEF WorkerTop, WorkerWait
    <2>2. CASE WorkerCheck
      BY <2>2, Check
    <2>3. CASE WorkerWrite
      BY <2>3 DEF WorkerWrite
    <2>4. CASE WorkerFree \/ WorkerGivesUp \/ WorkerLeaves \/ StoreResult("processing")
      BY <2>4 DEF WorkerFree, WorkerGivesUp, WorkerLeaves, StoreResult
    <2> QED
      BY <1>2, <2>1, <2>2, <2>3, <2>4 DEF ProcessingThread
  <1>3. CASE ControlThread
    BY <1>3
       DEF ControlThread, ControlPoll, ControlWatch, ControlStalled, ControlPad,
           ControlFailure, ControlRelease, ControlJoin, ControlClose, ControlSettle,
           ControlStops, StoreResult
  <1>4. CASE Caller
    BY <1>4
       DEF Caller, RequestStop, BeginAbort, AbortStops, AbortTearsDown, StartAgain,
           StoreResult
  <1>5. CASE UNCHANGED vars
    BY <1>5 DEF vars
  <1> QED
    BY <1>1, <1>2, <1>3, <1>4, <1>5 DEF Next, Stopped

\* The producer's slot is its own
LEMMA OwnershipKept ==
    ASSUME RunInv, [Next]_vars
    PROVE  ProducerOwns'
  <1>0. TypeOK /\ Stages /\ RingState /\ ProducerOwns
    BY DEF RunInv
  <1> USE <1>0, Typed, Limits
        DEF ProducerOwns, RingState, RingTyped, SourceTyped, WorkerTyped, Stages, Buffer,
            CasEmptyToFull, CasToEmpty, DumpEmptySlots, AbortSlots, SourceReturns
  <1>1. CASE TransferThread
    <2>1. CASE SourceTop \/ SourceStalled \/ SourceUnstalled \/ SourceWait
      BY <2>1 DEF SourceTop, SourceStalled, SourceUnstalled, SourceWait, SlotIsFree
    <2>2. CASE SourceFill
      BY <2>2, FilledOwn
    <2>3. CASE SourceHandOver
      BY <2>3, HandOver
    <2>4. CASE TransferFinishes \/ StoreResult("transfer")
      BY <2>4 DEF TransferFinishes, StoreResult
    <2> QED
      BY <1>1, <2>1, <2>2, <2>3, <2>4 DEF TransferThread
  <1>2. CASE ProcessingThread
    <2>1. CASE WorkerTop \/ WorkerWait
      BY <2>1 DEF WorkerTop, WorkerWait
    <2>2. CASE WorkerCheck
      BY <2>2, Check
    <2>3. CASE WorkerWrite
      BY <2>3 DEF WorkerWrite
    <2>4. CASE WorkerFree \/ WorkerGivesUp \/ WorkerLeaves \/ StoreResult("processing")
      BY <2>4 DEF WorkerFree, WorkerGivesUp, WorkerLeaves, StoreResult
    <2> QED
      BY <1>2, <2>1, <2>2, <2>3, <2>4 DEF ProcessingThread
  <1>3. CASE ControlThread
    BY <1>3
       DEF ControlThread, ControlPoll, ControlWatch, ControlStalled, ControlPad,
           ControlFailure, ControlRelease, ControlJoin, ControlClose, ControlSettle,
           ControlStops, StoreResult
  <1>4. CASE Caller
    BY <1>4
       DEF Caller, RequestStop, BeginAbort, AbortStops, AbortTearsDown, StartAgain,
           StoreResult
  <1>5. CASE UNCHANGED vars
    BY <1>5 DEF vars
  <1> QED
    BY <1>1, <1>2, <1>3, <1>4, <1>5 DEF Next, Stopped

\* The buffers in flight keep their order
LEMMA LayoutKept ==
    ASSUME RunInv, [Next]_vars
    PROVE  Layout'
  <1>0. TypeOK /\ Stages /\ RingState /\ Layout
    BY DEF RunInv
  <1> USE <1>0, Typed, Limits
        DEF Consuming, Busy, RingState, RingTyped, SourceTyped, WorkerTyped, Stages
  <1>1. CASE TransferThread
    <2>1. CASE SourceTop \/ SourceStalled \/ SourceUnstalled
      BY <2>1, LayoutStill DEF SourceTop, SourceStalled, SourceUnstalled, SourceReturns
    <2>2. CASE SourceWait
      BY <2>2, LayoutWait
    <2>3. CASE SourceFill
      BY <2>3, LayoutFill
    <2>4. CASE SourceHandOver
      BY <2>4, LayoutHandOver
    <2>5. CASE TransferFinishes \/ StoreResult("transfer")
      BY <2>5, LayoutStill DEF TransferFinishes, StoreResult
    <2> QED
      BY <1>1, <2>1, <2>2, <2>3, <2>4, <2>5 DEF TransferThread
  <1>2. CASE ProcessingThread
    <2>1. CASE \/ WorkerTop \/ WorkerCheck \/ WorkerWrite \/ WorkerLeaves
               \/ StoreResult("processing")
      BY <2>1, LayoutStill
         DEF WorkerTop, WorkerCheck, WorkerWrite, WorkerLeaves, StoreResult
    <2>2. CASE WorkerWait
      BY <2>2, LayoutWorkerWait
    <2>3. CASE WorkerFree
      BY <2>3, LayoutFree
    <2>4. CASE WorkerGivesUp
      BY <2>4, LayoutGivenUp
    <2> QED
      BY <1>2, <2>1, <2>2, <2>3, <2>4 DEF ProcessingThread
  <1>3. CASE ControlThread
    BY <1>3, LayoutStill, Territories
         DEF ControlThread, ControlPoll, ControlWatch, ControlStalled, ControlPad,
             ControlFailure, ControlRelease, ControlJoin, ControlClose, ControlSettle,
             ControlStops, StoreResult, DumpEmptySlots, AbortSlots
  <1>4. CASE Caller
    BY <1>4, LayoutStill, Territories
         DEF Caller, RequestStop, BeginAbort, AbortStops, AbortTearsDown, StartAgain,
             StoreResult, AbortSlots
  <1>5. CASE UNCHANGED vars
    BY <1>5, LayoutStill DEF vars
  <1> QED
    BY <1>1, <1>2, <1>3, <1>4, <1>5 DEF Next, Stopped

\* What the slots hold
LEMMA DataKept ==
    ASSUME RunInv, [Next]_vars
    PROVE  DataIsReal'
  <1>0. TypeOK /\ Stages /\ DataIsReal
    BY DEF RunInv
  <1> USE <1>0, Typed, Limits
        DEF DataIsReal, Buffer
  <1>1. CASE TransferThread
    <2>1. CASE SourceFill
      BY <2>1, FilledReal
    <2>2. CASE \/ SourceTop \/ SourceStalled \/ SourceUnstalled \/ SourceWait
               \/ TransferFinishes \/ StoreResult("transfer")
      BY <2>2
         DEF SourceTop, SourceStalled, SourceUnstalled, SourceWait, TransferFinishes,
             StoreResult
    <2>3. CASE SourceHandOver
      BY <2>3, HandOver
    <2> QED
      BY <1>1, <2>1, <2>2, <2>3 DEF TransferThread
  <1>2. CASE ProcessingThread \/ ControlThread \/ Caller
    BY <1>2, Territories
  <1>3. CASE UNCHANGED vars
    BY <1>3 DEF vars
  <1> QED
    BY <1>1, <1>2, <1>3 DEF Next, Stopped

\* What the file holds
LEMMA FileKept ==
    ASSUME RunInv, [Next]_vars
    PROVE  FileInv'
  <1>0. TypeOK /\ Stages /\ Layout /\ FileInv
    BY DEF RunInv
  <1> USE <1>0, Typed, Limits
        DEF FileInv, Allowed, Buffer, WorkerTyped
  <1>1. CASE ProcessingThread
    <2>1. CASE WorkerTop \/ WorkerWait \/ WorkerFree \/ WorkerGivesUp
      BY <2>1 DEF WorkerTop, WorkerWait, WorkerFree, WorkerGivesUp
    <2>2. CASE WorkerCheck
      BY <2>2, Check
    <2>3. CASE WorkerWrite
      BY <2>3, FileWritten
    <2>4. CASE WorkerLeaves \/ StoreResult("processing")
      BY <2>4 DEF WorkerLeaves, StoreResult
    <2> QED
      BY <1>1, <2>1, <2>2, <2>3, <2>4 DEF ProcessingThread
  <1>2. CASE TransferThread \/ ControlThread \/ Caller
    BY <1>2, Territories
  <1>3. CASE UNCHANGED vars
    BY <1>3 DEF vars
  <1> QED
    BY <1>1, <1>2, <1>3 DEF Next, Stopped

\* One failure at most is on its way
LEMMA LatchKept ==
    ASSUME RunInv, [Next]_vars
    PROVE  LatchInv'
  <1>0. TypeOK /\ Stages /\ LatchInv
    BY DEF RunInv
  <1> USE <1>0, Typed, Limits
        DEF LatchInv, LatchTyped, Latch, SourceReturns, TransferFailed, Failures, Threads,
            Idle
  <1>1. CASE TransferThread
    <2>1. CASE SourceTop \/ SourceStalled \/ SourceUnstalled \/ SourceWait
      BY <2>1 DEF SourceTop, SourceStalled, SourceUnstalled, SourceWait
    <2>2. CASE SourceFill
      BY <2>2 DEF SourceFill
    <2>3. CASE SourceHandOver
      BY <2>3, HandOver
    <2>4. CASE TransferFinishes \/ StoreResult("transfer")
      BY <2>4 DEF TransferFinishes, StoreResult
    <2> QED
      BY <1>1, <2>1, <2>2, <2>3, <2>4 DEF TransferThread
  <1>2. CASE ProcessingThread
    <2>1. CASE WorkerTop \/ WorkerWait
      BY <2>1 DEF WorkerTop, WorkerWait
    <2>2. CASE WorkerCheck
      BY <2>2, Check
    <2>3. CASE WorkerWrite
      BY <2>3 DEF WorkerWrite
    <2>4. CASE WorkerFree \/ WorkerGivesUp \/ WorkerLeaves \/ StoreResult("processing")
      BY <2>4 DEF WorkerFree, WorkerGivesUp, WorkerLeaves, StoreResult
    <2> QED
      BY <1>2, <2>1, <2>2, <2>3, <2>4 DEF ProcessingThread
  <1>3. CASE ControlThread
    BY <1>3
       DEF ControlThread, ControlPoll, ControlWatch, ControlStalled, ControlPad,
           ControlFailure, ControlRelease, ControlJoin, ControlClose, ControlSettle,
           ControlStops, StoreResult
  <1>4. CASE Caller
    BY <1>4
       DEF Caller, RequestStop, BeginAbort, AbortStops, AbortTearsDown, StartAgain,
           StoreResult
  <1>5. CASE UNCHANGED vars
    BY <1>5 DEF vars
  <1> QED
    BY <1>1, <1>2, <1>3, <1>4, <1>5 DEF Next, Stopped

\* What is latched is true
LEMMA TruthKept ==
    ASSUME RunInv, [Next]_vars
    PROVE  FailuresAreReal'
  <1>0. TypeOK /\ Stages /\ RingState /\ ProducerOwns /\ FailuresAreReal /\ LatchInv /\ Graceful
    BY DEF RunInv
  <1> USE <1>0, Typed, Limits
        DEF FailuresAreReal, IsReal, LatchTyped, Latch, SourceReturns, Graceful, Stages,
            RingState, ProducerOwns, Faulting, Failures, Threads
  <1>1. CASE TransferThread
    <2>1. CASE SourceTop \/ SourceStalled \/ SourceUnstalled \/ SourceFill
      BY <2>1 DEF SourceTop, SourceStalled, SourceUnstalled, SourceFill
    <2>2. CASE SourceWait
      BY <2>2 DEF SourceWait, FreeWaitAborted
    <2>3. CASE SourceHandOver
      BY <2>3, HandedOverIsReal
    <2>4. CASE TransferFinishes
      BY <2>4 DEF TransferFinishes
    <2>5. CASE StoreResult("transfer")
      BY <2>5, StoredIsReal
    <2> QED
      BY <1>1, <2>1, <2>2, <2>3, <2>4, <2>5 DEF TransferThread
  <1>2. CASE ProcessingThread
    <2>1. CASE WorkerTop \/ WorkerWait
      BY <2>1 DEF WorkerTop, WorkerWait
    <2>2. CASE WorkerCheck
      BY <2>2, CheckedIsReal
    <2>3. CASE WorkerWrite
      BY <2>3 DEF WorkerWrite
    <2>4. CASE WorkerFree \/ WorkerGivesUp \/ WorkerLeaves
      BY <2>4 DEF WorkerFree, WorkerGivesUp, WorkerLeaves
    <2>5. CASE StoreResult("processing")
      BY <2>5, StoredIsReal
    <2> QED
      BY <1>2, <2>1, <2>2, <2>3, <2>4, <2>5 DEF ProcessingThread
  <1>3. CASE ControlThread
    <2>1. CASE ControlPoll \/ ControlWatch \/ ControlStalled
      BY <2>1 DEF ControlPoll, ControlWatch, ControlStalled
    <2>2. CASE ControlPad \/ ControlFailure \/ ControlRelease
      BY <2>2 DEF ControlPad, ControlFailure, ControlRelease
    <2>3. CASE ControlJoin \/ ControlClose \/ ControlSettle \/ ControlStops
      BY <2>3 DEF ControlJoin, ControlClose, ControlSettle, ControlStops
    <2>4. CASE StoreResult("control")
      BY <2>4, StoredIsReal
    <2> QED
      BY <1>3, <2>1, <2>2, <2>3, <2>4 DEF ControlThread
  <1>4. CASE Caller
    <2>1. CASE RequestStop \/ BeginAbort \/ AbortStops \/ AbortTearsDown
      BY <2>1 DEF RequestStop, BeginAbort, AbortStops, AbortTearsDown
    <2>2. CASE StartAgain
      BY <2>2 DEF StartAgain
    <2>3. CASE StoreResult("caller")
      BY <2>3, StoredIsReal
    <2> QED
      BY <1>4, <2>1, <2>2, <2>3 DEF Caller
  <1>5. CASE UNCHANGED vars
    BY <1>5 DEF vars
  <1> QED
    BY <1>1, <1>2, <1>3, <1>4, <1>5 DEF Next, Stopped

\* Nothing is torn down for nothing
LEMMA GraceKept ==
    ASSUME RunInv, [Next]_vars
    PROVE  Graceful'
  <1>0. TypeOK /\ Stages /\ RingState /\ Layout /\ LatchInv /\ Graceful
    BY DEF RunInv
  <1> USE <1>0, Typed, Limits
        DEF Graceful, Stages, RingState, RingTyped, SourceTyped, WorkerTyped, Layout,
            Consuming, InFlight, Ahead, Busy, LatchInv, Latch, SourceReturns,
            TransferFailed, Idle
  <1>1. CASE TransferThread
    <2>1. CASE SourceTop \/ SourceStalled \/ SourceUnstalled \/ SourceWait
      BY <2>1 DEF SourceTop, SourceStalled, SourceUnstalled, SourceWait
    <2>2. CASE SourceFill
      BY <2>2 DEF SourceFill
    <2>3. CASE SourceHandOver
      BY <2>3, HandOver
    <2>4. CASE TransferFinishes \/ StoreResult("transfer")
      BY <2>4 DEF TransferFinishes, StoreResult
    <2> QED
      BY <1>1, <2>1, <2>2, <2>3, <2>4 DEF TransferThread
  <1>2. CASE ProcessingThread
    <2>1. CASE WorkerTop
      BY <2>1 DEF WorkerTop
    <2>2. CASE WorkerWait
      BY <2>2, LeavesEmpty DEF WorkerWait
    <2>3. CASE WorkerCheck
      BY <2>3, Check
    <2>4. CASE WorkerWrite
      BY <2>4 DEF WorkerWrite
    <2>5. CASE WorkerFree \/ WorkerGivesUp \/ WorkerLeaves \/ StoreResult("processing")
      BY <2>5 DEF WorkerFree, WorkerGivesUp, WorkerLeaves, StoreResult
    <2> QED
      BY <1>2, <2>1, <2>2, <2>3, <2>4, <2>5 DEF ProcessingThread
  <1>3. CASE ControlThread
    BY <1>3
       DEF ControlThread, ControlPoll, ControlWatch, ControlStalled, ControlPad,
           ControlFailure, ControlRelease, ControlJoin, ControlClose, ControlSettle,
           ControlStops, StoreResult
  <1>4. CASE Caller
    BY <1>4
       DEF Caller, RequestStop, BeginAbort, AbortStops, AbortTearsDown, StartAgain,
           StoreResult
  <1>5. CASE UNCHANGED vars
    BY <1>5 DEF vars
  <1> QED
    BY <1>1, <1>2, <1>3, <1>4, <1>5 DEF Next, Stopped

\* A success is complete
LEMMA SuccessKept ==
    ASSUME RunInv, [Next]_vars
    PROVE  SuccessInv'
  <1>0. TypeOK /\ Stages /\ FailuresAreReal /\ LatchInv /\ Graceful /\ SuccessInv
    BY DEF RunInv
  <1> USE <1>0, Typed, Limits
        DEF SuccessInv, Graceful, Stages, LatchInv, Latch, LatchTyped, SourceReturns,
            Consuming, Failures, Threads, TransferFailed, FailuresAreReal, None
  <1>1. CASE TransferThread
    <2>1. CASE SourceTop \/ SourceStalled \/ SourceUnstalled \/ SourceWait
      BY <2>1 DEF SourceTop, SourceStalled, SourceUnstalled, SourceWait
    <2>2. CASE SourceFill
      BY <2>2 DEF SourceFill
    <2>3. CASE SourceHandOver
      BY <2>3, HandOver
    <2>4. CASE TransferFinishes \/ StoreResult("transfer")
      BY <2>4 DEF TransferFinishes, StoreResult
    <2> QED
      BY <1>1, <2>1, <2>2, <2>3, <2>4 DEF TransferThread
  <1>2. CASE ProcessingThread
    <2>1. CASE WorkerTop \/ WorkerWait
      BY <2>1 DEF WorkerTop, WorkerWait
    <2>2. CASE WorkerCheck
      BY <2>2, Check
    <2>3. CASE WorkerWrite
      BY <2>3 DEF WorkerWrite
    <2>4. CASE WorkerFree \/ WorkerGivesUp \/ WorkerLeaves \/ StoreResult("processing")
      BY <2>4 DEF WorkerFree, WorkerGivesUp, WorkerLeaves, StoreResult
    <2> QED
      BY <1>2, <2>1, <2>2, <2>3, <2>4 DEF ProcessingThread
  <1>3. CASE ControlThread
    BY <1>3
       DEF ControlThread, ControlPoll, ControlWatch, ControlStalled, ControlPad,
           ControlFailure, ControlRelease, ControlJoin, ControlClose, ControlSettle,
           ControlStops, StoreResult
  <1>4. CASE Caller
    BY <1>4
       DEF Caller, RequestStop, BeginAbort, AbortStops, AbortTearsDown, StartAgain,
           StoreResult
  <1>5. CASE UNCHANGED vars
    BY <1>5 DEF vars
  <1> QED
    BY <1>1, <1>2, <1>3, <1>4, <1>5 DEF Next, Stopped

-----------------------------------------------------------------------------
\* The invariant holds at the start
LEMMA RunInvInit == Init => RunInv
  <1> SUFFICES ASSUME Init
               PROVE  RunInv
    OBVIOUS
  <1> USE Limits DEF Init
  <1>1. TypeOK
    <2>1. RingTyped
      BY DEF RingTyped, RingInit, SlotStates
    <2>2. SourceTyped /\ WorkerTyped
      BY DEF SourceTyped, WorkerTyped
    <2>3. LatchTyped /\ FlagsTyped
      BY DEF LatchTyped, FlagsTyped, Results
    <2> QED
      BY <2>1, <2>2, <2>3, TypeParts
  <1>2. Stages
    BY DEF Stages
  <1>3. RingState /\ ProducerOwns /\ DataIsReal
    BY DEF RingState, RingInit, ProducerOwns, DataIsReal
  <1>4. Layout
    <2>1. InFlight = 0 /\ pSlot = Behind(0)
      BY DEF InFlight, Behind
    <2>2. \A i \in Slots : ~ (Ahead(i) < 0)
      BY DEF Ahead
    <2> QED
      BY <2>1, <2>2 DEF Layout, RingInit, Busy
  <1>5. FileInv
    BY DEF FileInv
  <1>6. LatchInv /\ FailuresAreReal
    BY DEF LatchInv, FailuresAreReal, IsReal, TransferFailed, Failures, None, Threads
  <1>7. Graceful /\ SuccessInv
    BY DEF Graceful, SuccessInv, Consuming
  <1> QED
    BY <1>1, <1>2, <1>3, <1>4, <1>5, <1>6, <1>7 DEF RunInv

\* Every step keeps it
LEMMA RunInvStep == RunInv /\ [Next]_vars => RunInv'
  <1> SUFFICES ASSUME RunInv, [Next]_vars
               PROVE  RunInv'
    OBVIOUS
  <1>1. TypeOK'
    BY RingTypeKept, SourceTypeKept, WorkerTypeKept, LatchTypeKept, FlagTypeKept, TypeParts, PTL
  <1> QED
    BY <1>1, StagesKept, RingKept, OwnershipKept, LayoutKept, DataKept, FileKept, LatchKept,
       TruthKept, GraceKept, SuccessKept DEF RunInv

\* It is what a run promises
LEMMA RunInvSound == RunInv => RunIsSound
  <1> SUFFICES ASSUME RunInv
               PROVE  RunIsSound
    OBVIOUS
  <1>1. /\ TypeOK /\ Stages /\ FileInv /\ FailuresAreReal /\ SuccessInv
        /\ buffers_processed \in Nat /\ delivered \in Nat
    BY Typed DEF RunInv
  <1>2. file = [n \in 1 .. Len(file) |-> n - 1]
    BY <1>1 DEF FileInv
  <1>3. FileIsCleanPrefix
    BY <1>1, <1>2 DEF FileInv, FileIsCleanPrefix, Allowed
  <1>4. ClosedLast
    BY <1>1 DEF ClosedLast, Stages
  <1>5. SuccessIsComplete
    <2> SUFFICES ASSUME ~ running, result = "success", "abort" \notin asked
                 PROVE  /\ file = [n \in 1 .. delivered |-> n - 1]
                        /\ buffers_processed = delivered
                        /\ sink_finished
      BY DEF SuccessIsComplete
    <2>1. buffers_processed = delivered /\ sink_finished /\ cPc = "done"
      BY <1>1 DEF SuccessInv, Stages
    <2>2. Len(file) = delivered
      BY <1>1, <2>1 DEF FileInv
    <2> QED
      BY <1>2, <2>1, <2>2
  <1>6. FailureIsReal /\ ForcedAbortWasAsked
    BY <1>1 DEF FailureIsReal, ForcedAbortWasAsked, FailuresAreReal, IsReal
  <1> QED
    BY <1>1, <1>3, <1>4, <1>5, <1>6 DEF RunIsSound

\* While a failure stands nobody is about to store another
LEMMA RunInvFirst == RunInv /\ [Next]_vars => [TransferFailed => result' = result]_vars
  <1> SUFFICES ASSUME RunInv, Next, TransferFailed
               PROVE  result' = result
    BY DEF TransferFailed, vars, latchVars
  <1>1. LatchInv
    BY DEF RunInv
  <1>2. \A t \in Threads : latching[t] = None
    BY <1>1 DEF LatchInv
  <1>3. \A t \in Threads : ~ StoreResult(t)
    BY <1>2 DEF StoreResult
  <1>4. result_latched
    BY <1>1 DEF LatchInv
  <1>5. CASE TransferThread
    BY <1>3, <1>5, HandOver
       DEF TransferThread, SourceTop, SourceStalled, SourceUnstalled, SourceWait, SourceFill,
           TransferFinishes, SourceReturns, Latch, Threads
  <1>6. CASE ProcessingThread
    BY <1>3, <1>6, Check
       DEF ProcessingThread, WorkerTop, WorkerWait, WorkerWrite, WorkerFree, WorkerGivesUp,
           WorkerLeaves, Latch, Threads
  <1>7. CASE ControlThread
    BY <1>3, <1>4, <1>7
       DEF ControlThread, ControlPoll, ControlWatch, ControlStalled, ControlPad,
           ControlFailure, ControlRelease, ControlJoin, ControlClose, ControlSettle,
           ControlStops, Latch, Threads
  <1>8. CASE Caller
    BY <1>3, <1>8
       DEF Caller, RequestStop, BeginAbort, AbortStops, AbortTearsDown, StartAgain, Latch,
           Threads
  <1> QED
    BY <1>5, <1>6, <1>7, <1>8 DEF Next, Stopped, vars

(***************************************************************************)
(* Whatever the ring's size, the limits and what goes wrong: the file is   *)
(* the stream from its first buffer up to some buffer, with nothing in it  *)
(* that a check rejected, it is closed after both threads have ended, and  *)
(* the verdict of the run is the truth about it.                           *)
(***************************************************************************)
THEOREM RunsAreSound == Spec => []RunIsSound
  <1>1. Spec => []RunInv
    BY RunInvInit, RunInvStep, PTL DEF Spec
  <1> QED
    BY <1>1, RunInvSound, PTL

(***************************************************************************)
(* LatchResult keeps the first failure, whichever threads fail after it    *)
(* and in whatever order they notice.                                      *)
(***************************************************************************)
THEOREM FirstFailuresStand == Spec => FirstFailureStands
  <1>1. Spec => []RunInv
    BY RunInvInit, RunInvStep, PTL DEF Spec
  <1> QED
    BY <1>1, RunInvFirst, PTL DEF Spec, FirstFailureStands
==============================================================================
