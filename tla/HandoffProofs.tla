--------------------------- MODULE HandoffProofs ---------------------------
(***************************************************************************)
(* The theorems about what one thread hands to another. RingInv is an      *)
(* invariant of RingHandoff for every ring size and every number of        *)
(* buffers, and with it the promises a checked instance shows for three    *)
(* slots. Of StatsPublisher, for any number of words, readers and          *)
(* publications, and of SnapshotPublisher, for any number of words and     *)
(* snapshots: a read that is accepted is one published value, whole.       *)
(***************************************************************************)
EXTENDS RingHandoff, StatsPublisher, SnapshotPublisher, TLAPS

USE SlotCountAssumption, SlotLimitAssumption

-----------------------------------------------------------------------------
(* Going round the ring *)

(***************************************************************************)
(* slot_index never leaves the ring.                                       *)
(***************************************************************************)
LEMMA NextSlotType == \A i \in Slots : NextSlot(i) \in Slots
  BY DEF Slots, NextSlot

(***************************************************************************)
(* Two slots are equally far ahead of the consumer only if they are one.   *)
(***************************************************************************)
LEMMA CNextType == TypeOK => CNext \in Slots
  BY NextSlotType DEF TypeOK, CNext

LEMMA AheadType ==
  ASSUME CNext \in Slots, NEW i \in Slots
  PROVE  Ahead(i) \in Slots
  BY DEF Slots, Ahead

(***************************************************************************)
(* The layout of the ring reads nothing but the slots, the history and the *)
(* two positions: a step that leaves those alone leaves it true.           *)
(***************************************************************************)
LEMMA LayoutFrame ==
  ASSUME Layout, UNCHANGED <<slotState, put, got, data>>,
         CNext' = CNext, PNext' = PNext
  PROVE  Layout'
  BY DEF Layout, Lag, Ahead, Wrap

-----------------------------------------------------------------------------
(***************************************************************************)
(* The two threads never hold one slot: the consumer's is at the head of   *)
(* the buffers in flight and the producer's just behind the last of them.  *)
(***************************************************************************)
LEMMA SlotsDistinct ==
  ASSUME TypeOK, Layout, Windows, ProducerOwns, ConsumerOwns
  PROVE  pSlot # cSlot
<1>1. pSlot \in Slots /\ CNext = cSlot /\ cSlot \in Slots /\ PNext = pSlot
  BY DEF TypeOK, CNext, PNext, ProducerOwns, ConsumerOwns
<1>2. Lag > 0 /\ Lag < SlotCount /\ Lag \in Nat /\ pSlot = Wrap(cSlot + Lag)
  BY <1>1 DEF Windows, Layout, Lag, TypeOK, ProducerOwns, ConsumerOwns
<1> QED
  BY <1>1, <1>2 DEF Wrap, Slots

LEMMA InitRingInv == Init => RingInv
<1> SUFFICES ASSUME Init PROVE RingInv
  OBVIOUS
<1> USE DEF Init, RingInit
<1>1. TypeOK
  <2>1. slotState \in [Slots -> SlotStates] /\ data \in [Slots -> Nat \cup {Stale}]
    BY DEF SlotStates
  <2>2. pSlot \in Slots /\ cSlot \in Slots /\ abortAt \in 0 .. SlotCount
        /\ dumpAt \in 0 .. SlotCount
    BY DEF Slots
  <2> QED
    BY <2>1, <2>2 DEF TypeOK, PcOfProducer, PcOfConsumer, Results
<1>2. Layout
  <2>1. CNext = 0 /\ PNext = 0 /\ Lag = 0
    BY DEF CNext, PNext, Lag
  <2> QED
    BY <2>1 DEF Layout, Ahead, Wrap, Slots
<1>3. Windows /\ Teardown
  BY DEF Windows, Teardown
<1>4. NoOverflow /\ GracefulDrain /\ CountersTrack
  BY DEF NoOverflow, GracefulDrain, CountersTrack
<1> QED
  BY <1>1, <1>2, <1>3, <1>4 DEF RingInv

-----------------------------------------------------------------------------
(* One lemma per thread *)

LEMMA ProducerStep ==
  ASSUME RingInv, Producer
  PROVE  RingInv'
<1> USE DEF RingInv
<1>1. CASE PAborted \/ PStop \/ PGoOn \/ PWait
  <2>1. TypeOK'
    BY <1>1 DEF TypeOK, PAborted, PStop, PGoOn, PWait, PReturn, PStep,
       PcOfProducer, Results, consumerVars, shutdownVars, counterVars, historyVars
  <2>2. Layout'
    <3>1. CNext' = CNext /\ PNext' = PNext
      BY <1>1 DEF PAborted, PStop, PGoOn, PWait, PReturn, PStep, CNext, PNext,
         consumerVars
    <3>2. UNCHANGED <<slotState, put, got, data>>
      BY <1>1 DEF PAborted, PStop, PGoOn, PWait, historyVars
    <3> QED
      BY <3>1, <3>2, LayoutFrame
  <2>3. Windows'
    <3>1. pPc' \in {"fill", "cas"} => slotState[pSlot] = "empty" /\ pPc = "wait"
      BY <1>1 DEF PAborted, PStop, PGoOn, PWait, PReturn, PStep, SlotIsFree
    <3>2. pPc = "wait" /\ slotState[pSlot] = "empty" => Lag < SlotCount
      <4> SUFFICES ASSUME pPc = "wait", slotState[pSlot] = "empty"
                   PROVE  Lag < SlotCount
        OBVIOUS
      <4>1. pSlot \in Slots /\ PNext = pSlot /\ CNext \in Slots
        BY CNextType DEF TypeOK, PNext
      <4>2. Ahead(pSlot) >= Lag /\ Ahead(pSlot) \in Slots
        BY <4>1, AheadType DEF Layout
      <4> QED
        BY <4>2 DEF Slots, TypeOK, Lag
    <3> QED
      BY <1>1, <3>1, <3>2 DEF Windows, Lag, PAborted, PStop, PGoOn, PWait,
         PReturn, PStep, consumerVars, shutdownVars, historyVars
  <2>4. Teardown'
    BY <1>1 DEF Teardown, PAborted, PStop, PGoOn, PWait, PReturn, PStep,
       shutdownVars
  <2>5. NoOverflow' /\ GracefulDrain' /\ CountersTrack'
    BY <1>1 DEF NoOverflow, GracefulDrain, CountersTrack, PAborted, PStop,
       PGoOn, PWait, PReturn, PStep, consumerVars, shutdownVars, counterVars,
       historyVars
  <2> QED
    BY <2>1, <2>2, <2>3, <2>4, <2>5
<1>2. CASE PFill
  <2>1. pPc = "fill" /\ data' = [data EXCEPT ![pSlot] = put]
        /\ UNCHANGED <<slotState, consumerVars, shutdownVars, counterVars, put, got, pSlot>>
        /\ pPc' \in {"cas", "done"} /\ pResult' \in Results \ {"overflow"}
    BY <1>2 DEF PFill, PStep, PReturn, TypeOK, Results, NoOverflow
  <2>2. pSlot \in Slots /\ CNext \in Slots /\ PNext = pSlot /\ Lag < SlotCount
        /\ Lag \in Nat
    BY <2>1, CNextType DEF TypeOK, PNext, Windows, Layout, Lag
  <2>3. TypeOK'
    BY <2>1 DEF TypeOK, PcOfProducer, consumerVars, shutdownVars, counterVars
  <2>4. Layout'
    <3>1. CNext' = CNext /\ PNext' = PNext /\ Lag' = Lag
      BY <2>1 DEF CNext, PNext, Lag, consumerVars
    <3>2. Ahead(pSlot) = Lag
      BY <2>2 DEF Layout, Ahead, Wrap, Slots
    <3>3. \A i \in Slots : Ahead(i)' = Ahead(i)
      BY <3>1 DEF Ahead
    <3>4. \A i \in Slots : Ahead(i) < Lag => data'[i] = data[i]
      BY <2>1, <2>2, <3>2 DEF TypeOK, Slots
    <3> QED
      BY <2>1, <3>1, <3>3, <3>4 DEF Layout, Wrap
  <2>5. Windows'
    BY <2>1, <2>2 DEF Windows, Lag, consumerVars, shutdownVars, TypeOK
  <2>6. Teardown'
    BY <2>1 DEF Teardown, shutdownVars
  <2>7. NoOverflow' /\ GracefulDrain' /\ CountersTrack'
    BY <2>1 DEF NoOverflow, GracefulDrain, CountersTrack, consumerVars,
       shutdownVars, counterVars
  <2> QED
    BY <2>3, <2>4, <2>5, <2>6, <2>7
<1>3. CASE PHandOver
  <2>1. pPc = "cas" /\ UNCHANGED <<consumerVars, shutdownVars, counterVars, got, data, pSlot>>
    BY <1>3 DEF PHandOver, PStep, PReturn
  <2>2. pSlot \in Slots /\ CNext \in Slots /\ PNext = pSlot /\ Lag < SlotCount
        /\ Lag \in Nat /\ data[pSlot] = put /\ slotState[pSlot] \in {"empty", "aborted"}
    BY <2>1, CNextType DEF TypeOK, PNext, Windows, Layout, Lag
  <2>3. Ahead(pSlot) = Lag
    BY <2>2 DEF Layout, Ahead, Wrap, Slots
  <2>4. CASE slotState[pSlot] = "empty"
    <3>1. /\ slotState' = [slotState EXCEPT ![pSlot] = "full"]
          /\ put' = put + 1 /\ pPc' = "count" /\ pResult' = pResult
      BY <1>3, <2>4 DEF PHandOver, FillResult, CasEmptyToFull, PStep
    <3>2. TypeOK'
      BY <2>1, <2>2, <3>1 DEF TypeOK, SlotStates, PcOfProducer, consumerVars,
         shutdownVars, counterVars
    <3>3. Layout'
      <4>1. CNext' = CNext /\ PNext' = NextSlot(pSlot) /\ Lag' = Lag + 1
        BY <2>1, <3>1 DEF CNext, PNext, Lag, consumerVars, TypeOK
      <4>2. PNext' = Wrap(CNext + Lag + 1)
        BY <2>2, <4>1 DEF Layout, Wrap, NextSlot, Slots
      <4>3. \A i \in Slots : Ahead(i)' = Ahead(i)
        BY <4>1 DEF Ahead
      <4>4. \A i \in Slots : i # pSlot => Ahead(i) # Lag /\ Ahead(i) \in Slots
        BY <2>2, <2>3 DEF Ahead, Slots
      <4>5. ASSUME NEW i \in Slots
            PROVE  /\ slotState'[i] = "full" => Ahead(i) < Lag + 1
                   /\ slotState'[i] \in {"empty", "dumped"} => Ahead(i) >= Lag + 1
                   /\ Ahead(i) < Lag + 1 => data[i] = got + Ahead(i)
        <5>1. CASE i = pSlot
          BY <5>1, <2>2, <2>3, <3>1 DEF TypeOK, Lag
        <5>2. CASE i # pSlot
          BY <5>2, <2>2, <4>4, <3>1 DEF TypeOK, Layout, Slots
        <5> QED
          BY <5>1, <5>2
      <4>6. got <= put + 1 /\ Lag + 1 <= SlotCount
        BY <2>2 DEF Lag, TypeOK
      <4> QED
        BY <2>1, <2>2, <3>1, <4>1, <4>2, <4>3, <4>5, <4>6 DEF Layout, Wrap, TypeOK, Slots
    <3>4. Windows'
      BY <2>1, <2>2, <3>1, SlotsDistinct DEF Windows, Lag, TypeOK, consumerVars, shutdownVars
    <3>5. Teardown'
      BY <2>1, <3>1 DEF Teardown, shutdownVars, TypeOK
    <3>6. NoOverflow' /\ GracefulDrain' /\ CountersTrack'
      BY <2>1, <3>1 DEF NoOverflow, GracefulDrain, CountersTrack, consumerVars,
         shutdownVars, counterVars, TypeOK
    <3> QED
      BY <3>2, <3>3, <3>4, <3>5, <3>6
  <2>5. CASE slotState[pSlot] = "aborted"
    <3>1. UNCHANGED <<slotState, put>> /\ pPc' = "done" /\ pResult' = "aborted"
      BY <1>3, <2>5 DEF PHandOver, FillResult, CasEmptyToFull, PReturn
    <3>2. TypeOK'
      BY <2>1, <3>1 DEF TypeOK, PcOfProducer, Results, consumerVars, shutdownVars,
         counterVars
    <3>3. Layout'
      BY <2>1, <3>1, LayoutFrame DEF CNext, PNext, consumerVars
    <3>4. Windows' /\ Teardown'
      BY <2>1, <3>1 DEF Windows, Teardown, Lag, consumerVars, shutdownVars
    <3>5. NoOverflow' /\ GracefulDrain' /\ CountersTrack'
      BY <2>1, <3>1 DEF NoOverflow, GracefulDrain, CountersTrack, consumerVars,
         shutdownVars, counterVars
    <3> QED
      BY <3>2, <3>3, <3>4, <3>5
  <2> QED
    BY <2>2, <2>4, <2>5
<1>4. CASE PCount \/ PPeak
  <2>1. /\ pPc \in {"count", "peak"}
        /\ UNCHANGED <<slotState, consumerVars, shutdownVars, put, got, data, pResult, slots_freed>>
    BY <1>4 DEF PCount, PPeak, PStep, historyVars
  <2>2. \/ pPc = "count" /\ pPc' = "peak" /\ pSlot' = pSlot /\ slots_filled' = slots_filled + 1
           /\ peak_slots_in_use' = peak_slots_in_use
        \/ /\ pPc = "peak" /\ pPc' = "top" /\ pSlot' = NextSlot(pSlot)
           /\ slots_filled' = slots_filled
           /\ peak_slots_in_use' \in {peak_slots_in_use, slots_filled - slots_freed}
           /\ peak_slots_in_use' >= peak_slots_in_use
    BY <1>4 DEF PCount, PPeak, PStep, TypeOK
  <2>3. TypeOK'
    BY <2>1, <2>2, NextSlotType DEF TypeOK, PcOfProducer, consumerVars, shutdownVars
  <2>4. Layout'
    <3>1. CNext' = CNext /\ PNext' = PNext
      BY <2>1, <2>2 DEF CNext, PNext, consumerVars
    <3> QED
      BY <2>1, <3>1, LayoutFrame
  <2>5. Windows' /\ Teardown'
    BY <2>1, <2>2 DEF Windows, Teardown, Lag, consumerVars, shutdownVars
  <2>6. NoOverflow' /\ GracefulDrain' /\ CountersTrack'
    BY <2>1, <2>2 DEF NoOverflow, GracefulDrain, CountersTrack, consumerVars,
       shutdownVars, TypeOK
  <2> QED
    BY <2>3, <2>4, <2>5, <2>6
<1> QED
  BY <1>1, <1>2, <1>3, <1>4 DEF Producer

LEMMA ConsumerStep ==
  ASSUME RingInv, Consumer
  PROVE  RingInv'
<1> USE DEF RingInv
<1>1. CASE CTop \/ CWait \/ CRead
  <2>1. UNCHANGED <<slotState, producerVars, cSlot, shutdownVars, counterVars, put, got, data>>
    BY <1>1 DEF CTop, CWait, CRead, historyVars
  <2>2. \/ /\ cPc = "top" /\ cPc' \in {"done", "wait"} /\ UNCHANGED <<cQuit, cTold>>
        \/ /\ cPc = "wait" /\ cPc' = "read" /\ UNCHANGED <<cQuit, cTold>>
           /\ slotState[cSlot] = "full"
        \/ /\ cPc = "wait" /\ cPc' = "done" /\ cTold' = TRUE /\ cQuit' = cQuit
           /\ slotState[cSlot] \in {"dumped", "aborted"}
        \/ /\ cPc = "read" /\ cPc' = "free" /\ cQuit' \in BOOLEAN /\ cTold' = cTold
    BY <1>1 DEF CTop, CWait, CRead, SlotHasData, SlotReleased
  <2>3. CNext = cSlot /\ CNext' = CNext /\ PNext' = PNext /\ cSlot \in Slots
    BY <2>1, <2>2 DEF CNext, PNext, Windows, TypeOK, producerVars
  <2>4. Ahead(cSlot) = 0
    BY <2>3 DEF Ahead, Slots
  <2>5. TypeOK'
    BY <2>1, <2>2 DEF TypeOK, PcOfConsumer, producerVars, shutdownVars, counterVars
  <2>6. Layout'
    BY <2>1, <2>3, LayoutFrame
  <2>7. Windows'
    BY <2>1, <2>2, <2>3, <2>4 DEF Windows, Layout, Lag, TypeOK, producerVars
  <2>8. Teardown'
    BY <2>1 DEF Teardown, producerVars, shutdownVars
  <2>9. GracefulDrain'
    <3>1. CASE cTold' /\ ~cTold /\ ~ring_abort
      <4>1. slotState[cSlot] = "dumped"
        BY <2>2, <2>3, <3>1 DEF Teardown
      <4>2. Lag <= 0 /\ pPc = "done"
        BY <2>3, <2>4, <4>1 DEF Layout, Teardown
      <4> QED
        BY <2>1, <4>2 DEF GracefulDrain, Layout, Lag, TypeOK, producerVars
    <3> QED
      BY <2>1, <2>2, <3>1 DEF GracefulDrain, producerVars, shutdownVars, TypeOK
  <2>10. NoOverflow' /\ CountersTrack'
    BY <2>1, <2>2 DEF NoOverflow, CountersTrack, producerVars, shutdownVars,
       counterVars
  <2> QED
    BY <2>5, <2>6, <2>7, <2>8, <2>9, <2>10
<1>2. CASE CFree
  <2>1. /\ cPc = "free" /\ UNCHANGED <<producerVars, shutdownVars, counterVars, put, data, cQuit, cTold>>
        /\ got' = got + 1 /\ CasToEmpty(cSlot)
    BY <1>2 DEF CFree, CNextTurn
  <2>2. /\ CNext = cSlot /\ cSlot \in Slots /\ Lag > 0 /\ Lag \in Nat /\ Lag <= SlotCount
        /\ slotState[cSlot] \in {"full", "aborted"} /\ ~cTold
    BY <2>1 DEF CNext, Windows, Layout, Lag, TypeOK
  <2>3. \/ /\ slotState[cSlot] = "full" /\ cPc' = "count" /\ cSlot' = cSlot
           /\ slotState' = [slotState EXCEPT ![cSlot] = "empty"]
        \/ /\ slotState[cSlot] = "aborted" /\ slotState' = slotState
           /\ \/ cPc' = "done" /\ cQuit /\ cSlot' = cSlot
              \/ cPc' = "top" /\ ~cQuit /\ cSlot' = NextSlot(cSlot)
    BY <1>2, <2>2 DEF CFree, CNextTurn, CasToEmpty
  <2>4. CNext' = NextSlot(cSlot) /\ PNext' = PNext /\ Lag' = Lag - 1
    BY <2>1, <2>3 DEF CNext, PNext, Lag, TypeOK, producerVars
  <2>5. TypeOK'
    BY <2>1, <2>2, <2>3, NextSlotType DEF TypeOK, SlotStates, PcOfConsumer,
       producerVars, shutdownVars, counterVars
  <2>6. Layout'
    <3>1. PNext' = Wrap(NextSlot(cSlot) + (Lag - 1))
      BY <2>2, <2>4 DEF Layout, Wrap, NextSlot, Slots
    <3>2. \A i \in Slots : i = cSlot => Ahead(i) = 0 /\ Ahead(i)' = SlotCount - 1
      BY <2>2, <2>4 DEF Ahead, NextSlot, Slots
    <3>3. \A i \in Slots : i # cSlot => Ahead(i)' = Ahead(i) - 1 /\ Ahead(i) \in Slots
      BY <2>2, <2>4 DEF Ahead, NextSlot, Slots
    <3>4. ASSUME NEW i \in Slots
          PROVE  /\ slotState'[i] = "full" => Ahead(i)' < Lag - 1
                 /\ slotState'[i] \in {"empty", "dumped"} => Ahead(i)' >= Lag - 1
                 /\ Ahead(i)' < Lag - 1 => data[i] = got + 1 + Ahead(i)'
      <4>1. CASE i = cSlot
        BY <4>1, <2>2, <2>3, <3>2 DEF TypeOK
      <4>2. CASE i # cSlot
        <5>1. slotState'[i] = slotState[i]
          BY <4>2, <2>3 DEF TypeOK
        <5>2. Ahead(i)' = Ahead(i) - 1 /\ Ahead(i) \in Int
          BY <4>2, <3>3 DEF Slots
        <5>3. /\ slotState[i] = "full" => Ahead(i) < Lag
              /\ slotState[i] \in {"empty", "dumped"} => Ahead(i) >= Lag
              /\ Ahead(i) < Lag => data[i] = got + Ahead(i)
          BY DEF Layout
        <5> QED
          BY <5>1, <5>2, <5>3, <2>2 DEF TypeOK
      <4> QED
        BY <4>1, <4>2
    <3>5. got + 1 <= put /\ Lag - 1 <= SlotCount
      BY <2>2 DEF Lag, TypeOK
    <3> QED
      BY <2>1, <2>4, <3>1, <3>4, <3>5 DEF Layout, Wrap
  <2>7. Windows'
    <3>1. ProducerOwns => slotState'[pSlot] = slotState[pSlot]
      BY <2>1, <2>2, <2>3, SlotsDistinct DEF ConsumerOwns, TypeOK
    <3> QED
      BY <2>1, <2>2, <2>3, <2>4, <3>1 DEF Windows, ProducerOwns, TypeOK, producerVars
  <2>8. Teardown'
    BY <2>1, <2>2, <2>3 DEF Teardown, producerVars, shutdownVars, TypeOK
  <2>9. NoOverflow' /\ GracefulDrain'
    BY <2>1, <2>2 DEF NoOverflow, GracefulDrain, producerVars, shutdownVars
  <2>10. CountersTrack'
    <3>1. slotState[cSlot] = "aborted" => ring_abort
      BY <2>2 DEF Teardown
    <3> QED
      BY <2>1, <2>3, <3>1 DEF CountersTrack, producerVars, shutdownVars, counterVars, TypeOK
  <2> QED
    BY <2>5, <2>6, <2>7, <2>8, <2>9, <2>10
<1>3. CASE CCount
  <2>1. /\ cPc = "count" /\ slots_freed' = slots_freed + 1
        /\ UNCHANGED <<slotState, producerVars, shutdownVars, slots_filled,
                       peak_slots_in_use, put, got, data, cQuit, cTold>>
        /\ \/ cPc' = "done" /\ cQuit /\ cSlot' = cSlot
           \/ cPc' = "top" /\ ~cQuit /\ cSlot' = NextSlot(cSlot)
    BY <1>3 DEF CCount, CNextTurn, historyVars
  <2>2. CNext' = CNext /\ PNext' = PNext
    BY <2>1 DEF CNext, PNext, producerVars
  <2>3. TypeOK'
    BY <2>1, NextSlotType DEF TypeOK, PcOfConsumer, producerVars, shutdownVars
  <2>4. Layout'
    BY <2>1, <2>2, LayoutFrame
  <2>5. Windows' /\ Teardown'
    BY <2>1 DEF Windows, Teardown, Lag, producerVars, shutdownVars
  <2>6. NoOverflow' /\ GracefulDrain' /\ CountersTrack'
    BY <2>1 DEF NoOverflow, GracefulDrain, CountersTrack, producerVars,
       shutdownVars, TypeOK, Windows
  <2> QED
    BY <2>3, <2>4, <2>5, <2>6
<1> QED
  BY <1>1, <1>2, <1>3 DEF Consumer

LEMMA ShutdownStep ==
  ASSUME RingInv, RequestAbort \/ BeginAbort \/ AbortSlot \/ BeginDump \/ DumpSlot
  PROVE  RingInv'
<1> USE DEF RingInv
<1>1. UNCHANGED <<producerVars, consumerVars, counterVars, put, got, data>>
  BY DEF RequestAbort, BeginAbort, AbortSlot, BeginDump, DumpSlot, historyVars
<1>2. CNext' = CNext /\ PNext' = PNext /\ Lag' = Lag /\ \A i \in Slots : Ahead(i)' = Ahead(i)
  BY <1>1 DEF CNext, PNext, Lag, Ahead, producerVars, consumerVars
<1>3. CASE RequestAbort \/ BeginAbort \/ BeginDump
  <2>1. /\ slotState' = slotState
        /\ abort_requested' \in BOOLEAN /\ ring_abort' \in BOOLEAN
        /\ ring_abort => ring_abort'
        /\ abortAt' = abortAt /\ dumpAt' \in {dumpAt, 0}
        /\ dumpAt' # dumpAt => pPc = "done"
    BY <1>3 DEF RequestAbort, BeginAbort, BeginDump, TypeOK
  <2>2. TypeOK'
    BY <1>1, <2>1 DEF TypeOK, producerVars, consumerVars, counterVars
  <2>3. Layout'
    BY <1>1, <1>2, <2>1, LayoutFrame
  <2>4. Windows' /\ Teardown' /\ NoOverflow' /\ GracefulDrain' /\ CountersTrack'
    BY <1>1, <2>1 DEF Windows, Teardown, Lag, NoOverflow, GracefulDrain,
       CountersTrack, producerVars, consumerVars, counterVars
  <2> QED
    BY <2>2, <2>3, <2>4
<1>4. CASE AbortSlot
  <2>1. /\ ring_abort /\ ring_abort' /\ abortAt \in Slots /\ abortAt' = abortAt + 1
        /\ slotState' = [slotState EXCEPT ![abortAt] = "aborted"]
        /\ UNCHANGED <<abort_requested, dumpAt>>
    BY <1>4 DEF AbortSlot, StoreAborted, TypeOK, Slots
  <2>2. TypeOK'
    BY <1>1, <2>1 DEF TypeOK, Slots, SlotStates, producerVars, consumerVars, counterVars
  <2>3. \A i \in Slots : slotState'[i] \in {slotState[i], "aborted"}
    BY <2>1 DEF TypeOK
  <2>4. Layout'
    BY <1>1, <1>2, <2>3 DEF Layout, Wrap
  <2>5. Windows' /\ Teardown'
    BY <1>1, <1>2, <2>1, <2>3 DEF Windows, Teardown, TypeOK, producerVars, consumerVars
  <2>6. NoOverflow' /\ GracefulDrain' /\ CountersTrack'
    BY <1>1, <2>1 DEF NoOverflow, GracefulDrain, CountersTrack, producerVars,
       consumerVars, counterVars
  <2> QED
    BY <2>2, <2>4, <2>5, <2>6
<1>5. CASE DumpSlot
  <2>1. /\ dumpAt \in Slots /\ dumpAt' = dumpAt + 1 /\ pPc = "done"
        /\ slotState' = IF slotState[dumpAt] = "empty"
                        THEN [slotState EXCEPT ![dumpAt] = "dumped"] ELSE slotState
        /\ UNCHANGED <<abort_requested, ring_abort, abortAt>>
    BY <1>5 DEF DumpSlot, CasEmptyToDumped, TypeOK, Slots, Teardown
  <2>2. TypeOK'
    BY <1>1, <2>1 DEF TypeOK, Slots, SlotStates, producerVars, consumerVars, counterVars
  <2>3. \A i \in Slots : \/ slotState'[i] = slotState[i]
                         \/ slotState[i] = "empty" /\ slotState'[i] = "dumped"
    BY <2>1 DEF TypeOK
  <2>4. Layout'
    BY <1>1, <1>2, <2>3 DEF Layout, Wrap
  <2>5. Windows' /\ Teardown'
    BY <1>1, <1>2, <2>1, <2>3 DEF Windows, Teardown, TypeOK, producerVars, consumerVars
  <2>6. NoOverflow' /\ GracefulDrain' /\ CountersTrack'
    BY <1>1, <2>1 DEF NoOverflow, GracefulDrain, CountersTrack, producerVars,
       consumerVars, counterVars
  <2> QED
    BY <2>2, <2>4, <2>5, <2>6
<1> QED
  BY <1>3, <1>4, <1>5

LEMMA StutterStep ==
  ASSUME RingInv, UNCHANGED vars
  PROVE  RingInv'
<1>1. UNCHANGED <<slotState, producerVars, consumerVars, shutdownVars, counterVars, put, got, data>>
  BY DEF vars, historyVars
<1>2. TypeOK' /\ Windows' /\ Teardown'
  BY <1>1 DEF RingInv, TypeOK, Windows, Teardown, Lag, producerVars, consumerVars,
     shutdownVars, counterVars
<1>3. Layout'
  BY <1>1, LayoutFrame DEF RingInv, CNext, PNext, producerVars, consumerVars
<1>4. NoOverflow' /\ GracefulDrain' /\ CountersTrack'
  BY <1>1 DEF RingInv, NoOverflow, GracefulDrain, CountersTrack, producerVars,
     consumerVars, shutdownVars, counterVars
<1> QED
  BY <1>2, <1>3, <1>4 DEF RingInv

-----------------------------------------------------------------------------
(***************************************************************************)
(* The layout of the ring, the windows the two threads work in and what a  *)
(* teardown may have stored hold in every state, for every SlotCount and   *)
(* every SlotLimit.                                                        *)
(***************************************************************************)
THEOREM RingInvariant == Spec => []RingInv
<1>1. RingInv /\ [Next]_vars => RingInv'
  BY ProducerStep, ConsumerStep, ShutdownStep, StutterStep DEF Next, Finished
<1> QED
  BY InitRingInv, <1>1, PTL DEF Spec

(***************************************************************************)
(* The types of the two loops' state never leave what the code declares.   *)
(***************************************************************************)
THEOREM TypeCorrect == Spec => []TypeOK
  BY RingInvariant, PTL DEF RingInv

(***************************************************************************)
(* No slot's bytes are ever touched by both threads (the windows of        *)
(* disk_buffer_ring.h:116), even while Abort is storing over the slots.    *)
(***************************************************************************)
THEOREM NeverShared == Spec => []NoSharedSlot
<1>1. RingInv => NoSharedSlot
  BY SlotsDistinct DEF RingInv, NoSharedSlot
<1> QED
  BY RingInvariant, <1>1, PTL

(***************************************************************************)
(* The buffer the processing thread holds is the next one handed over.     *)
(***************************************************************************)
THEOREM AlwaysInOrder == Spec => []InOrder
<1>1. ASSUME RingInv, ConsumerOwns
      PROVE  got < put /\ data[cSlot] = got
  <2>1. CNext = cSlot /\ cSlot \in Slots /\ Lag > 0
    BY <1>1 DEF RingInv, TypeOK, Windows, CNext, ConsumerOwns
  <2>2. Ahead(cSlot) = 0
    BY <2>1 DEF Ahead, Slots
  <2> QED
    BY <1>1, <2>1, <2>2 DEF RingInv, Layout, Lag, TypeOK
<1> QED
  BY RingInvariant, <1>1, PTL DEF InOrder

(***************************************************************************)
(* MarkSlotFull never answers kOverflow to a producer that waited for the  *)
(* slot to be free.                                                        *)
(***************************************************************************)
THEOREM NeverOverflows == Spec => []NoOverflow
  BY RingInvariant, PTL DEF RingInv

(***************************************************************************)
(* A consumer told there is nothing more has had every buffer that was     *)
(* handed over, unless the ring was torn down.                             *)
(***************************************************************************)
THEOREM AlwaysDrained == Spec => []GracefulDrain
  BY RingInvariant, PTL DEF RingInv

(***************************************************************************)
(* The fill-level counters stay within one of the handoffs they count.     *)
(***************************************************************************)
THEOREM CountersAlwaysTrack == Spec => []CountersTrack
  BY RingInvariant, PTL DEF RingInv

(***************************************************************************)
(* Nothing is counted as freed before it is given back, torn down or not:  *)
(* what the producer subtracts when it samples the depth is never more     *)
(* than what the consumer has given back.                                  *)
(***************************************************************************)
FreedIsBehind == slots_freed <= IF cPc = "count" THEN got - 1 ELSE got

LEMMA StillCovered ==
  ASSUME NEW mark \in Nat, NEW came \in Nat, NEW went \in Nat, NEW later \in Nat,
         later >= went, mark >= came - went
  PROVE  mark >= came - later
OBVIOUS

LEMMA ConsumerKeepsPeak ==
  ASSUME RingInv, FreedIsBehind, PeakCoversBacklog, Consumer
  PROVE  FreedIsBehind' /\ PeakCoversBacklog'
<1>1. pPc' = pPc /\ put' = put /\ peak_slots_in_use' = peak_slots_in_use
  BY DEF Consumer, CTop, CWait, CRead, CFree, CCount, producerVars, historyVars, counterVars
<1>2. got' \in Nat /\ got \in Nat /\ got' >= got
  BY DEF Consumer, CTop, CWait, CRead, CFree, CCount, RingInv, TypeOK, historyVars
<1>5. FreedIsBehind'
  BY DEF Consumer, CTop, CWait, CRead, CFree, CCount, CNextTurn, FreedIsBehind, RingInv,
     TypeOK, historyVars, counterVars
<1>3. put \in Nat /\ peak_slots_in_use \in Nat
  BY DEF RingInv, TypeOK
<1>4. peak_slots_in_use >= put - got => peak_slots_in_use >= put - got'
  BY <1>2, <1>3, StillCovered
<1> QED
  BY <1>1, <1>4, <1>5 DEF PeakCoversBacklog

LEMMA ProducerKeepsPeak ==
  ASSUME RingInv, FreedIsBehind, PeakCoversBacklog, Producer
  PROVE  FreedIsBehind' /\ PeakCoversBacklog'
<1>1. FreedIsBehind'
  BY DEF Producer, PAborted, PStop, PGoOn, PWait, PFill, PHandOver, PCount, PPeak,
     FreedIsBehind, historyVars, counterVars, consumerVars
<1>2. ASSUME PHandOver PROVE PeakCoversBacklog'
  BY <1>2 DEF PHandOver, PReturn, PStep, PeakCoversBacklog, counterVars
<1>3. ASSUME PCount PROVE PeakCoversBacklog'
  BY <1>3 DEF PCount, PStep, PeakCoversBacklog
<1>4. ASSUME PPeak PROVE PeakCoversBacklog'
  BY <1>4 DEF PPeak, PeakCoversBacklog, FreedIsBehind, RingInv, CountersTrack, TypeOK, historyVars
<1>5. ASSUME PAborted \/ PStop \/ PGoOn \/ PWait \/ PFill PROVE PeakCoversBacklog'
  BY <1>5 DEF PAborted, PStop, PGoOn, PWait, PFill, PReturn, PStep, PeakCoversBacklog,
     counterVars, historyVars
<1> QED
  BY <1>1, <1>2, <1>3, <1>4, <1>5 DEF Producer

LEMMA ShutdownKeepsPeak ==
  ASSUME FreedIsBehind, PeakCoversBacklog,
         \/ RequestAbort \/ BeginAbort \/ AbortSlot \/ BeginDump \/ DumpSlot
         \/ UNCHANGED vars
  PROVE  FreedIsBehind' /\ PeakCoversBacklog'
<1>1. UNCHANGED <<producerVars, consumerVars, counterVars, put, got>>
  BY DEF RequestAbort, BeginAbort, AbortSlot, BeginDump, DumpSlot, historyVars, vars
<1> QED
  BY <1>1 DEF FreedIsBehind, PeakCoversBacklog, producerVars, consumerVars, counterVars

(***************************************************************************)
(* Whenever the producer has gone on from a slot it handed over, the       *)
(* recorded high-water mark is at least the backlog: the depth is sampled  *)
(* after the handoff is counted, and freed slots are counted late, never   *)
(* early (disk_buffer_ring.cpp:108-131).                                   *)
(***************************************************************************)
THEOREM PeakAlwaysCovers == Spec => []PeakCoversBacklog
<1>1. Init => FreedIsBehind /\ PeakCoversBacklog
  BY DEF Init, FreedIsBehind, PeakCoversBacklog
<1>2. RingInv /\ FreedIsBehind /\ PeakCoversBacklog /\ [Next]_vars
      => FreedIsBehind' /\ PeakCoversBacklog'
  BY ProducerKeepsPeak, ConsumerKeepsPeak, ShutdownKeepsPeak DEF Next, Finished
<1> QED
  BY <1>1, <1>2, RingInvariant, PTL DEF Spec

(***************************************************************************)
(* There is no path back from an Abort: no compare-exchange of either      *)
(* thread, and no padding, takes a slot out of the aborted state.          *)
(***************************************************************************)
THEOREM AbortStays == Spec => AbortIsFinal
<1>1. ASSUME RingInv, [Next]_vars, NEW i \in Slots, slotState[i] = "aborted"
      PROVE  slotState'[i] = "aborted"
  <2>1. slotState \in [Slots -> SlotStates] /\ pSlot \in Slots /\ cSlot \in Slots
        /\ (dumpAt < SlotCount => dumpAt \in Slots)
        /\ (abortAt < SlotCount => abortAt \in Slots)
    BY <1>1 DEF RingInv, TypeOK, Slots
  <2>2. CASE Producer
    BY <1>1, <2>1, <2>2 DEF Producer, PAborted, PStop, PGoOn, PWait, PFill, PHandOver,
       PCount, PPeak, CasEmptyToFull
  <2>3. CASE Consumer
    BY <1>1, <2>1, <2>3 DEF Consumer, CTop, CWait, CRead, CFree, CCount, CasToEmpty
  <2>4. CASE RequestAbort \/ BeginAbort \/ AbortSlot \/ BeginDump \/ DumpSlot
    BY <1>1, <2>1, <2>4 DEF RequestAbort, BeginAbort, AbortSlot, BeginDump, DumpSlot,
       StoreAborted, CasEmptyToDumped
  <2>5. CASE UNCHANGED vars
    BY <1>1, <2>5 DEF vars
  <2> QED
    BY <1>1, <2>2, <2>3, <2>4, <2>5 DEF Next, Finished
<1>2. RingInv /\ [Next]_vars =>
        [\A i \in Slots : slotState[i] = "aborted" => slotState'[i] = "aborted"]_vars
  BY <1>1
<1> QED
  BY RingInvariant, <1>2, PTL DEF Spec, AbortIsFinal

-----------------------------------------------------------------------------
(* The refinement *)

LEMMA InitRefines == Init => Handoff!HInit
  BY DEF Init, Handoff!HInit, Handoff!Nothing, ConsumerOwns

LEMMA ProducerRefines ==
  ASSUME RingInv, Producer
  PROVE  [Handoff!HNext]_(Handoff!handoffVars)
<1> USE DEF RingInv
<1>1. UNCHANGED <<consumerVars, shutdownVars, got>>
  BY DEF Producer, PAborted, PStop, PGoOn, PWait, PFill, PHandOver, PCount, PPeak,
     historyVars
<1>2. CASE put' = put + 1 /\ pPc = "cas" /\ pPc' = "count"
  <2>1. put - got < SlotCount
    BY <1>2 DEF Windows, Lag
  <2>2. Handoff!HPut
    BY <1>1, <1>2, <2>1 DEF Handoff!HPut, ConsumerOwns, consumerVars, shutdownVars
  <2> QED
    BY <2>2 DEF Handoff!HNext
<1>3. CASE put' = put /\ pPc # "done" /\ pPc' = "done"
  <2>1. Handoff!HClose
    BY <1>1, <1>3 DEF Handoff!HClose, ConsumerOwns, consumerVars, shutdownVars
  <2> QED
    BY <2>1 DEF Handoff!HNext
<1>4. CASE put' = put /\ pPc # "done" /\ pPc' # "done"
  BY <1>1, <1>4 DEF Handoff!handoffVars, ConsumerOwns, consumerVars, shutdownVars
<1>5. \/ put' = put + 1 /\ pPc = "cas" /\ pPc' = "count"
      \/ put' = put /\ pPc # "done"
  BY DEF Producer, PAborted, PStop, PGoOn, PWait, PFill, PHandOver, PCount, PPeak,
     PStep, PReturn, historyVars
<1> QED
  BY <1>2, <1>3, <1>4, <1>5

LEMMA ConsumerRefines ==
  ASSUME RingInv, Consumer
  PROVE  [Handoff!HNext]_(Handoff!handoffVars)
<1> USE DEF RingInv
<1>1. UNCHANGED <<producerVars, shutdownVars, put>>
  BY DEF Consumer, CTop, CWait, CRead, CFree, CCount, historyVars
<1>2. CASE CTop \/ CRead \/ CCount
  <2>1. ConsumerOwns' = ConsumerOwns /\ got' = got /\ cTold' = cTold
    BY <1>2 DEF CTop, CRead, CCount, CNextTurn, ConsumerOwns, historyVars
  <2> QED
    BY <1>1, <2>1 DEF Handoff!handoffVars, producerVars, shutdownVars
<1>3. CASE CWait
  <2>1. ~ConsumerOwns /\ got' = got /\ ~cTold /\ cSlot \in Slots /\ cPc = "wait"
    BY <1>3 DEF CWait, ConsumerOwns, historyVars, Windows, TypeOK
  <2>2. CNext = cSlot /\ Ahead(cSlot) = 0
    BY <2>1 DEF CNext, Ahead, Slots
  <2>3. CASE SlotHasData(cSlot) /\ cPc' = "read" /\ cTold' = cTold
    <3>1. got < put /\ got \in Nat
      BY <2>1, <2>2, <2>3 DEF SlotHasData, Layout, Lag, TypeOK
    <3>2. Handoff!HBorrow
      BY <1>1, <2>1, <2>3, <3>1 DEF Handoff!HBorrow, Handoff!Nothing, ConsumerOwns,
         producerVars, shutdownVars
    <3> QED
      BY <3>2 DEF Handoff!HNext
  <2>4. CASE SlotReleased(cSlot) /\ cPc' = "done" /\ cTold' = TRUE
    <3>1. ring_abort \/ (pPc = "done" /\ got = put)
      <4>1. CASE slotState[cSlot] = "aborted"
        BY <2>1, <4>1 DEF Teardown
      <4>2. CASE slotState[cSlot] = "dumped"
        BY <2>1, <2>2, <4>2 DEF Teardown, Layout, Lag, TypeOK
      <4> QED
        BY <2>4, <4>1, <4>2 DEF SlotReleased
    <3>2. Handoff!HEnd
      BY <1>1, <2>1, <2>4, <3>1 DEF Handoff!HEnd, Handoff!Nothing, ConsumerOwns,
         producerVars, shutdownVars
    <3> QED
      BY <3>2 DEF Handoff!HNext
  <2> QED
    BY <1>3, <2>3, <2>4 DEF CWait
<1>4. CASE CFree
  <2>1. ConsumerOwns /\ ~ConsumerOwns' /\ got' = got + 1 /\ cTold' = cTold /\ got \in Nat
    BY <1>4 DEF CFree, CNextTurn, ConsumerOwns, TypeOK
  <2>2. Handoff!HReturn
    BY <1>1, <2>1 DEF Handoff!HReturn, Handoff!Nothing, producerVars, shutdownVars
  <2> QED
    BY <2>2 DEF Handoff!HNext
<1> QED
  BY <1>2, <1>3, <1>4 DEF Consumer

LEMMA ShutdownRefines ==
  ASSUME RingInv, RequestAbort \/ BeginAbort \/ AbortSlot \/ BeginDump \/ DumpSlot
  PROVE  [Handoff!HNext]_(Handoff!handoffVars)
<1>1. UNCHANGED <<producerVars, consumerVars, put, got>>
  BY DEF RequestAbort, BeginAbort, AbortSlot, BeginDump, DumpSlot, historyVars
<1>2. CASE ring_abort' = ring_abort
  BY <1>1, <1>2 DEF Handoff!handoffVars, ConsumerOwns, producerVars, consumerVars
<1>3. CASE ring_abort' = TRUE
  <2>1. Handoff!HTearDown
    BY <1>1, <1>3 DEF Handoff!HTearDown, ConsumerOwns, producerVars, consumerVars
  <2> QED
    BY <2>1 DEF Handoff!HNext
<1> QED
  BY <1>2, <1>3 DEF RequestAbort, BeginAbort, AbortSlot, BeginDump, DumpSlot

(***************************************************************************)
(* Whatever the ring's size: slots, compare-exchanges, padding and         *)
(* teardown together behave as a bounded first-in first-out handoff, and   *)
(* the consumer is only told "nothing more" when that is so.               *)
(***************************************************************************)
THEOREM Refinement == Spec => ImplementsHandoff
<1>1. RingInv /\ [Next]_vars => [Handoff!HNext]_(Handoff!handoffVars)
  <2>1. ASSUME UNCHANGED vars
        PROVE  UNCHANGED Handoff!handoffVars
    BY <2>1 DEF vars, Handoff!handoffVars, ConsumerOwns, producerVars, consumerVars,
       shutdownVars, historyVars
  <2> QED
    BY <2>1, ProducerRefines, ConsumerRefines, ShutdownRefines DEF Next, Finished
<1> QED
  BY RingInvariant, InitRefines, <1>1, PTL DEF Spec, ImplementsHandoff, Handoff!HSpec

-----------------------------------------------------------------------------
(* StatsPublisher *)

(***************************************************************************)
(* While no value is being written the counter is twice the number of      *)
(* values and the value is the last one, whole; while one is, the counter  *)
(* is odd and every word not left to write is of it.                       *)
(***************************************************************************)
WriterInv ==
    /\ wPc = "idle" => sequence = 2 * published /\ \A w \in Words : value[w] = published
    /\ wPc = "writing" =>
        /\ sequence = 2 * published - 1
        /\ \A w \in Words \ left : value[w] = published

\* The counter a reader began with is even and has not been overtaken, and as
\* long as it stands so does every word copied since
ReaderInv(r) ==
    rPc[r] = "copy" =>
        /\ \E n \in Nat : before[r] = 2 * n
        /\ before[r] <= sequence
        /\ before[r] = sequence =>
            wPc = "idle" /\ \A w \in copied[r] : copy[r][w] = value[w]

SeqlockInv == StatsTypeOK /\ WriterInv /\ \A r \in Readers : ReaderInv(r)

LEMMA SeqlockInit == StatsInit => SeqlockInv
  BY DEF StatsInit, SeqlockInv, StatsTypeOK, WriterInv, ReaderInv

LEMMA TypeStep == StatsTypeOK /\ [StatsNext]_statsVars => StatsTypeOK'
  <1> SUFFICES ASSUME StatsTypeOK, [StatsNext]_statsVars PROVE StatsTypeOK'
    OBVIOUS
  <1> USE DEF StatsTypeOK
  <1>1. CASE BeginPublish
    BY <1>1 DEF BeginPublish, readerVars
  <1>2. ASSUME NEW w \in Words, WriteWord(w) PROVE StatsTypeOK'
    BY <1>2 DEF WriteWord, readerVars
  <1>3. CASE EndPublish
    BY <1>3 DEF EndPublish, readerVars
  <1>4. ASSUME NEW r \in Readers, BeginRead(r) PROVE StatsTypeOK'
    BY <1>4 DEF BeginRead, writerVars
  <1>5. ASSUME NEW r \in Readers, LoadBefore(r) PROVE StatsTypeOK'
    BY <1>5 DEF LoadBefore, writerVars
  <1>6. ASSUME NEW r \in Readers, NEW w \in Words, CopyWord(r, w) PROVE StatsTypeOK'
    BY <1>6 DEF CopyWord, writerVars
  <1>7. ASSUME NEW r \in Readers, CheckAfter(r) PROVE StatsTypeOK'
    BY <1>7 DEF CheckAfter, writerVars
  <1>8. CASE UNCHANGED statsVars
    BY <1>8 DEF statsVars, writerVars, readerVars
  <1> QED
    BY <1>1, <1>2, <1>3, <1>4, <1>5, <1>6, <1>7, <1>8 DEF StatsNext, Writer, Reader

LEMMA WriterStep == StatsTypeOK /\ WriterInv /\ [StatsNext]_statsVars => WriterInv'
  <1> SUFFICES ASSUME StatsTypeOK, WriterInv, [StatsNext]_statsVars PROVE WriterInv'
    OBVIOUS
  <1> USE DEF StatsTypeOK, WriterInv
  <1>1. CASE BeginPublish
    BY <1>1 DEF BeginPublish
  <1>2. ASSUME NEW w \in Words, WriteWord(w) PROVE WriterInv'
    BY <1>2 DEF WriteWord
  <1>3. CASE EndPublish
    BY <1>3 DEF EndPublish
  <1>4. CASE UNCHANGED writerVars
    BY <1>4 DEF writerVars
  <1> QED
    BY <1>1, <1>2, <1>3, <1>4
    DEF StatsNext, Writer, Reader, BeginRead, LoadBefore, CopyWord, CheckAfter, statsVars

\* A reader's part survives the writer: its steps move the counter on, and the
\* one that does not is not taken while the counter is even
LEMMA ReaderKeptByWriter ==
    ASSUME SeqlockInv, NEW r \in Readers, Writer PROVE ReaderInv(r)'
  <1> USE DEF SeqlockInv, StatsTypeOK, WriterInv, ReaderInv
  <1>1. CASE BeginPublish
    BY <1>1 DEF BeginPublish, readerVars
  <1>2. ASSUME NEW w \in Words, WriteWord(w) PROVE ReaderInv(r)'
    BY <1>2 DEF WriteWord, readerVars
  <1>3. CASE EndPublish
    BY <1>3 DEF EndPublish, readerVars
  <1> QED
    BY <1>1, <1>2, <1>3 DEF Writer

LEMMA EvenIsSettled ==
    ASSUME NEW s \in Nat, NEW n \in Nat, s % 2 = 0 PROVE s # 2 * n - 1
  BY SMT

LEMMA ReaderKeptByReader ==
    ASSUME SeqlockInv, NEW r \in Readers, NEW s \in Readers,
           BeginRead(s) \/ Reader(s)
    PROVE  ReaderInv(r)'
  <1> USE DEF SeqlockInv, StatsTypeOK, ReaderInv
  <1>1. CASE BeginRead(s)
    BY <1>1 DEF BeginRead, writerVars
  <1>2. CASE LoadBefore(s)
    <2>1. sequence % 2 = 0 /\ sequence \in Nat /\ published \in Nat
      BY <1>2 DEF LoadBefore
    <2>2. sequence # 2 * published - 1
      BY <2>1, EvenIsSettled
    <2>3. wPc = "idle" /\ sequence = 2 * published
      BY <2>2 DEF WriterInv
    <2> QED
      BY <1>2, <2>1, <2>3 DEF LoadBefore, writerVars
  <1>3. ASSUME NEW w \in Words, CopyWord(s, w) PROVE ReaderInv(r)'
    BY <1>3 DEF CopyWord, writerVars
  <1>4. CASE CheckAfter(s)
    BY <1>4 DEF CheckAfter, writerVars
  <1> QED
    BY <1>1, <1>2, <1>3, <1>4 DEF Reader

(***************************************************************************)
(* The counter, the value and the readers agree throughout: SeqlockInv is  *)
(* the invariant by which the lock works (monitor_tap.cpp:19-51).          *)
(***************************************************************************)
THEOREM SeqlockInvariant == StatsSpec => []SeqlockInv
  <1>1. SeqlockInv /\ [StatsNext]_statsVars => SeqlockInv'
    <2> SUFFICES ASSUME SeqlockInv, [StatsNext]_statsVars PROVE SeqlockInv'
      OBVIOUS
    <2>1. StatsTypeOK' /\ WriterInv'
      BY TypeStep, WriterStep DEF SeqlockInv
    <2>2. ASSUME NEW r \in Readers PROVE ReaderInv(r)'
      <3>1. CASE UNCHANGED statsVars
        BY <3>1 DEF SeqlockInv, ReaderInv, statsVars, writerVars, readerVars
      <3> QED
        BY <3>1, ReaderKeptByWriter, ReaderKeptByReader DEF StatsNext
    <2> QED
      BY <2>1, <2>2 DEF SeqlockInv
  <1> QED
    BY SeqlockInit, <1>1, PTL DEF StatsSpec

(***************************************************************************)
(* The state of the lock is well typed (monitor_tap.h:144-148).            *)
(***************************************************************************)
THEOREM SeqlockTypeCorrect == StatsSpec => []StatsTypeOK
  BY SeqlockInvariant, PTL DEF SeqlockInv

(***************************************************************************)
(* A copy that is accepted is no mixture of two publications               *)
(* (monitor_tap.cpp:43-49).                                                *)
(***************************************************************************)
THEOREM ReadsAreSettled == StatsSpec => []ReadIsSettled
  <1>1. SeqlockInv => ReadIsSettled
    <2> SUFFICES ASSUME SeqlockInv, NEW r \in Readers, Settled(r)
                 PROVE  copy[r] = value /\ \A w \in Words : value[w] = published
      BY DEF ReadIsSettled
    <2> USE DEF SeqlockInv, Settled
    <2>1. wPc = "idle" /\ \A w \in Words : copy[r][w] = value[w]
      BY DEF ReaderInv
    <2>2. copy[r] = value
      BY <2>1 DEF StatsTypeOK
    <2> QED
      BY <2>1, <2>2 DEF WriterInv
  <1> QED
    BY SeqlockInvariant, <1>1, PTL

-----------------------------------------------------------------------------
(* SnapshotPublisher *)

Whole(i, n) == \A w \in SnapshotWords : buffers[i][w] = n

(***************************************************************************)
(* Only the writer's buffer is ever part one snapshot and part another:    *)
(* what is ready and new is the last snapshot published, and what is being *)
(* read is an earlier one.                                                 *)
(***************************************************************************)
WritesOne == \A w \in filled : buffers[write_index][w] = generation + 1

ReadyInv ==
    /\ Fresh(ready) => Whole(IndexOf(ready), generation)
    /\ tPc = "take" => Fresh(ready)

ReadsEarlier ==
    /\ \E n \in 0 .. generation : Whole(read_index, n) /\ (Fresh(ready) => n < generation)
    /\ tPc = "copy" => \A w \in taken : out[w] = buffers[read_index][w]
    /\ \A w \in SnapshotWords : out[w] <= buffers[read_index][w]

BufferInv == SnapshotTypeOK /\ NobodyShares /\ WritesOne /\ ReadyInv /\ ReadsEarlier

\* What the index and the flag are, of each value that ready takes
LEMMA Packing ==
    /\ \A i \in Indices :
        /\ IndexOf(i) = i /\ ~ Fresh(i)
        /\ IndexOf(i + kFreshFlag) = i /\ Fresh(i + kFreshFlag)
        /\ i + kFreshFlag \in Indices \cup {4, 5, 6}
    /\ \A p \in Indices \cup {4, 5, 6} : IndexOf(p) \in Indices
  <1> USE DEF Indices, IndexOf, Fresh, kFreshFlag
  <1>1. Indices = {0, 1, 2}
    OBVIOUS
  <1>2. /\ 0 % 4 = 0 /\ 1 % 4 = 1 /\ 2 % 4 = 2
        /\ 4 % 4 = 0 /\ 5 % 4 = 1 /\ 6 % 4 = 2
    OBVIOUS
  <1> QED
    BY <1>1, <1>2

LEMMA BufferInit == SnapshotInit => BufferInv
  <1> SUFFICES ASSUME SnapshotInit PROVE BufferInv
    OBVIOUS
  <1>1. 0 \in Indices /\ 1 \in Indices /\ 2 \in Indices
    BY DEF Indices
  <1>2. IndexOf(ready) = 2 /\ ~ Fresh(ready)
    BY <1>1, Packing DEF SnapshotInit
  <1> QED
    BY <1>1, <1>2
    DEF SnapshotInit, BufferInv, SnapshotTypeOK, NobodyShares, WritesOne, ReadyInv, ReadsEarlier, Whole

LEMMA FillKeeps == ASSUME BufferInv, NEW w \in SnapshotWords, FillWord(w) PROVE BufferInv'
  <1>1. IndexOf(ready) \in Indices
    BY Packing DEF BufferInv, SnapshotTypeOK
  <1> USE DEF BufferInv, SnapshotTypeOK, FillWord, takerVars
  <1>2. SnapshotTypeOK'
    OBVIOUS
  <1>3. \A i \in Indices \ {write_index} : buffers'[i] = buffers[i]
    OBVIOUS
  <1>4. NobodyShares' /\ WritesOne'
    BY DEF NobodyShares, WritesOne, IndexOf
  <1>5. ReadyInv'
    BY <1>1, <1>3 DEF NobodyShares, ReadyInv, IndexOf, Fresh, Whole
  <1>6. ReadsEarlier'
    BY <1>3 DEF NobodyShares, ReadsEarlier, Fresh, Whole
  <1> QED
    BY <1>2, <1>4, <1>5, <1>6

LEMMA HandOverKeeps == ASSUME BufferInv, HandOver PROVE BufferInv'
  <1>1. IndexOf(ready) \in Indices /\ write_index \in Indices /\ read_index \in Indices
    BY Packing DEF BufferInv, SnapshotTypeOK
  <1>2. /\ IndexOf(ready') = write_index /\ Fresh(ready')
        /\ ready' \in Indices \cup {4, 5, 6}
    BY <1>1, Packing DEF HandOver
  <1> USE DEF BufferInv, SnapshotTypeOK, HandOver, takerVars
  <1>3. SnapshotTypeOK'
    BY <1>1, <1>2
  <1>4. NobodyShares'
    BY <1>2 DEF NobodyShares
  <1>5. WritesOne' /\ ReadyInv'
    BY <1>2 DEF WritesOne, ReadyInv, Whole, Fresh
  <1>6. ReadsEarlier'
    BY DEF ReadsEarlier, Whole
  <1> QED
    BY <1>3, <1>4, <1>5, <1>6

LEMMA TakeKeeps == ASSUME BufferInv, TakeReady PROVE BufferInv'
  <1>1. IndexOf(ready) \in Indices /\ write_index \in Indices /\ read_index \in Indices
    BY Packing DEF BufferInv, SnapshotTypeOK
  <1>2. /\ IndexOf(ready') = read_index /\ ~ Fresh(ready')
        /\ Whole(IndexOf(ready), generation)
    BY <1>1, Packing DEF BufferInv, TakeReady, ReadyInv
  <1> USE DEF BufferInv, SnapshotTypeOK, TakeReady, fillerVars
  <1>3. SnapshotTypeOK'
    BY <1>1
  <1>4. NobodyShares' /\ WritesOne' /\ ReadyInv'
    BY <1>2 DEF NobodyShares, WritesOne, ReadyInv
  <1>5. \A w \in SnapshotWords : out'[w] <= buffers'[read_index'][w]
    BY <1>2 DEF ReadsEarlier, Whole
  <1>6. ReadsEarlier'
    BY <1>2, <1>5 DEF ReadsEarlier, Whole
  <1> QED
    BY <1>3, <1>4, <1>6

LEMMA ReaderKeeps ==
    ASSUME BufferInv, CheckFresh \/ (\E w \in SnapshotWords : CopySnapshotWord(w)) \/ EndRead
    PROVE  BufferInv'
  <1> USE DEF BufferInv, SnapshotTypeOK, fillerVars, NobodyShares, WritesOne, ReadyInv, ReadsEarlier,
              Whole, IndexOf, Fresh
  <1>1. CASE CheckFresh
    BY <1>1 DEF CheckFresh
  <1>2. ASSUME NEW w \in SnapshotWords, CopySnapshotWord(w) PROVE BufferInv'
    <2>1. out' = [out EXCEPT ![w] = buffers[read_index][w]]
      BY <1>2 DEF CopySnapshotWord
    <2>2. SnapshotTypeOK'
      BY <1>2, <2>1 DEF CopySnapshotWord
    <2>3. \A x \in SnapshotWords : out'[x] <= buffers[read_index][x]
      BY <2>1
    <2>4. \A x \in taken' : out'[x] = buffers[read_index][x]
      BY <1>2, <2>1 DEF CopySnapshotWord
    <2> QED
      BY <1>2, <2>2, <2>3, <2>4 DEF CopySnapshotWord
  <1>3. CASE EndRead
    BY <1>3 DEF EndRead
  <1> QED
    BY <1>1, <1>2, <1>3

(***************************************************************************)
(* The three buffers stay three, and hold what they are said to            *)
(* (monitor_tap.cpp:90-122).                                               *)
(***************************************************************************)
THEOREM BufferInvariant == SnapshotSpec => []BufferInv
  <1>1. BufferInv /\ [SnapshotNext]_snapshotVars => BufferInv'
    <2> SUFFICES ASSUME BufferInv, [SnapshotNext]_snapshotVars PROVE BufferInv'
      OBVIOUS
    <2>1. CASE UNCHANGED snapshotVars
      BY <2>1 DEF snapshotVars, fillerVars, takerVars, BufferInv, SnapshotTypeOK, NobodyShares, WritesOne,
                  ReadyInv, ReadsEarlier, Whole, IndexOf, Fresh
    <2> QED
      BY <2>1, FillKeeps, HandOverKeeps, TakeKeeps, ReaderKeeps DEF SnapshotNext
  <1> QED
    BY BufferInit, <1>1, PTL DEF SnapshotSpec

(***************************************************************************)
(* The state of the publisher is well typed (monitor_tap.h:184-205).       *)
(***************************************************************************)
THEOREM SnapshotTypeCorrect == SnapshotSpec => []SnapshotTypeOK
  BY BufferInvariant, PTL DEF BufferInv

(***************************************************************************)
(* Writer, reader and handover are never at the same buffer                *)
(* (monitor_tap.cpp:99-104, 113-116).                                      *)
(***************************************************************************)
THEOREM SnapshotNeverShared == SnapshotSpec => []NobodyShares
  BY BufferInvariant, PTL DEF BufferInv

(***************************************************************************)
(* A snapshot is read whole, whatever is published during the read         *)
(* (monitor_tap.cpp:118-121).                                              *)
(***************************************************************************)
THEOREM SnapshotsAreWhole == SnapshotSpec => []SnapshotIsWhole
  <1>1. BufferInv => SnapshotIsWhole
    BY DEF BufferInv, SnapshotTypeOK, ReadsEarlier, Whole, SnapshotIsWhole
  <1> QED
    BY BufferInvariant, <1>1, PTL

(***************************************************************************)
(* A read that succeeds is newer than the last (monitor_tap.cpp:109-116).  *)
(***************************************************************************)
THEOREM ReadsAreNewer == SnapshotSpec => EachReadIsNewer
  <1>1. BufferInv /\ [SnapshotNext]_snapshotVars =>
            [TakeReady => \A w \in SnapshotWords : buffers[read_index'][w] > out[w]]_snapshotVars
    <2> SUFFICES ASSUME BufferInv, TakeReady, NEW w \in SnapshotWords
                 PROVE  buffers[read_index'][w] > out[w]
      OBVIOUS
    <2>1. Fresh(ready) /\ buffers[read_index'][w] = generation
      BY DEF BufferInv, ReadyInv, TakeReady, Whole
    <2> QED
      BY <2>1 DEF BufferInv, SnapshotTypeOK, ReadsEarlier, Whole
  <1> QED
    BY BufferInvariant, <1>1, PTL DEF SnapshotSpec, EachReadIsNewer
=============================================================================
