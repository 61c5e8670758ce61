------------------------------ MODULE HostProofs ------------------------------
(***************************************************************************)
(* The theorems of UpdateHost: what the host sends keeps the invariant of  *)
(* the agent, a bring-up, however it is stopped, cut off from its device   *)
(* or powered off, never leaves the legacy firmware running over the new   *)
(* gateware, and the outcome of a run is the truth about the board.        *)
(***************************************************************************)
EXTENDS UpdateHost, UpdateProofs, SequenceTheorems

-----------------------------------------------------------------------------
(* The host *)

\* The order of a bring-up, and what may be left of a plan
AllThree == <<"eeprom", "factory", "application">>
Plans(f) ==
    IF f = "bring-up"
    THEN {<<>>, <<"application">>, <<"factory", "application">>, AllThree}
    ELSE {<<>>, <<"eeprom">>, <<"application">>, <<"eeprom", "application">>}

Writing == {"wake", "status", "begin", "send", "await"}
Around  == {"idle", "reconfigure", "reset", "return"}

HostTyped ==
    /\ hPc \in Writing \cup Around
    /\ flow \in {"update", "recover", "bring-up"} /\ todo \in Plans(flow)
    /\ hPc \in Writing <=> todo # <<>>
    /\ sent \in 0 .. Pages /\ (hPc = "begin" => sent = 0)
    /\ linked \in BOOLEAN /\ resetDue \in BOOLEAN /\ jumper \in BOOLEAN
    /\ hPc # "idle" => image \in Releases
    /\ resetDue => ~linked /\ hPc \in {"idle", "return"}

\* The EEPROM still starts the legacy firmware
Legacy == FirmwareBoots(medium) \in OldDesign
\* The factory's place holds no gateware but a legacy one
FactoryIsOld == \A design \in Images : Whole(medium["factory"], design) => design \in OldDesign

(***************************************************************************)
(* While the EEPROM starts the legacy firmware the factory's place is as   *)
(* it was, and without the jumper the device runs what the two start. The  *)
(* legacy firmware knows no update, so that nothing is at work while it    *)
(* runs.                                                                   *)
(***************************************************************************)
BoardKept ==
    /\ Legacy => FactoryIsOld /\ target # "factory"
    /\ Legacy /\ ~jumper => firmware \in OldDesign /\ fpga \in OldDesign \cup {"dark"}
    /\ firmware \in OldDesign =>
        /\ Legacy /\ ~jumper /\ ~linked
        /\ cPc = "idle" /\ aPc = "loop" /\ ~verifyPending
    /\ firstPage \notin OldDesign /\ chunk.content \notin OldDesign

(***************************************************************************)
(* A bring-up turns to the gateware only once a page of the EEPROM has     *)
(* been written: of the first two that it sends only one is held back.     *)
(***************************************************************************)
FirmwareFirst ==
    flow = "bring-up" /\ Legacy =>
    /\ hPc # "await" /\ todo \in {<<>>, AllThree}
    /\ hPc = "send" /\ linked /\ sent > 1 =>
          cPc # "idle" /\ target = "eeprom" /\ chunk.done < chunk.left

HostInv == AgentInv /\ HostTyped /\ BoardKept /\ FirmwareFirst

USE DEF stateVars, handedVars, verifyVars, mediaVars, deviceVars, historyVars
USE DEF bundleVars, runVars, boardVars, countVars

LEMMA Names ==
    /\ Targets = {"eeprom", "application", "factory"}
    /\ Releases \subseteq Images /\ Releases \cap OldDesign = {}
    /\ "bootloader" \notin Images /\ "dark" \notin Images /\ "factory" \notin Images
    /\ Blank \notin OldDesign /\ Junk \notin OldDesign
  BY HostAssumption, Sizes

-----------------------------------------------------------------------------
(* The plan *)

LEMMA Heads ==
    ASSUME NEW f, todo \in Plans(f), todo # <<>>
    PROVE  /\ Target \in {"eeprom", "application", "factory"}
           /\ Target = "factory" => f = "bring-up"
           /\ Target = "eeprom" <=> todo \notin {<<"application">>, <<"factory", "application">>}
           /\ Len(todo) \in 1 .. 3
           /\ Tail(todo) \in Plans(f) /\ Tail(todo) # AllThree
           /\ Len(todo) > 1 <=> Tail(todo) # <<>>
  <1> USE DEF Target, AllThree
  <1>1. CASE todo = <<"eeprom">>
    <2>1. Target = "eeprom" /\ Tail(todo) = <<>> /\ Len(todo) = 1
      BY <1>1
    <2> QED
      BY <1>1, <2>1 DEF Plans
  <1>2. CASE todo = <<"application">>
    <2>1. Target = "application" /\ Tail(todo) = <<>> /\ Len(todo) = 1
      BY <1>2
    <2> QED
      BY <1>2, <2>1 DEF Plans
  <1>3. CASE todo = <<"eeprom", "application">>
    <2>1. Target = "eeprom" /\ Tail(todo) = <<"application">> /\ Len(todo) = 2
      BY <1>3
    <2> QED
      BY <1>3, <2>1 DEF Plans
  <1>4. CASE todo = <<"factory", "application">>
    <2>1. Target = "factory" /\ Tail(todo) = <<"application">> /\ Len(todo) = 2
      BY <1>4
    <2> QED
      BY <1>4, <2>1 DEF Plans
  <1>5. CASE todo = AllThree
    <2>1. Target = "eeprom" /\ Tail(todo) = <<"factory", "application">> /\ Len(todo) = 3
      BY <1>5
    <2> QED
      BY <1>5, <2>1 DEF Plans
  <1> QED
    BY <1>1, <1>2, <1>3, <1>4, <1>5 DEF Plans

LEMMA TwoInARow ==
    ASSUME NEW a, NEW b
    PROVE  <<a>> \o <<b>> = <<a, b>>
  <1> DEFINE S == {a, b}
  <1>1. <<a>> \in Seq(S) /\ <<b>> \in Seq(S) /\ <<a, b>> \in Seq(S)
    OBVIOUS
  <1>2. /\ <<a>> \o <<b>> \in Seq(S) /\ Len(<<a>> \o <<b>>) = 2
        /\ (<<a>> \o <<b>>)[1] = a /\ (<<a>> \o <<b>>)[2] = b
    BY <1>1, ConcatProperties, Len(<<a>>) = 1, Len(<<b>>) = 1
  <1>3. Len(<<a, b>>) = 2 /\ <<a, b>>[1] = a /\ <<a, b>>[2] = b
    OBVIOUS
  <1>4. \A i \in 1 .. 2 : i = 1 \/ i = 2
    OBVIOUS
  <1> QED
    BY <1>1, <1>2, <1>3, <1>4, SeqEqual

LEMMA Planned ==
    ASSUME NEW f, NEW held
    PROVE  /\ Plan(f, held) \in Plans(f)
           /\ f = "bring-up" => Plan(f, held) = AllThree
           /\ ~Lacks(f, held) => Plan(f, held) # <<>>
  <1>1. CASE f = "bring-up"
    BY <1>1 DEF Plan, Plans, AllThree, Lacks
  <1>2. CASE f # "bring-up"
    <2>1. /\ IfHeld("eeprom", held) \in {<<>>, <<"eeprom">>}
          /\ IfHeld("application", held) \in {<<>>, <<"application">>}
      BY DEF IfHeld
    <2>2. Plan(f, held) = IfHeld("eeprom", held) \o IfHeld("application", held)
      BY <1>2 DEF Plan
    <2>3. /\ <<>> \o <<>> = <<>> /\ <<"eeprom">> \o <<>> = <<"eeprom">>
          /\ <<>> \o <<"application">> = <<"application">>
      OBVIOUS
    <2>4. <<"eeprom">> \o <<"application">> = <<"eeprom", "application">>
      BY TwoInARow
    <2>5. Plan(f, held) \in Plans(f)
      BY <1>2, <2>1, <2>2, <2>3, <2>4 DEF Plans
    <2> QED
      BY <1>2, <2>5 DEF Lacks
  <1> QED
    BY <1>1, <1>2

-----------------------------------------------------------------------------
(* What the memories start *)

LEMMA StartsLegacy ==
    ASSUME NEW m, NEW p \in Page, FirmwareBoots(m) \in OldDesign
    PROVE  m["eeprom"][p] \in OldDesign
  BY Names, Sizes DEF FirmwareBoots, Whole

LEMMA OldFactory ==
    ASSUME FactoryIsOld
    PROVE  FpgaBoots(medium, bootBlock) \in OldDesign \cup {"dark"}
  BY Sizes DEF FactoryIsOld, FpgaBoots, Whole

\* What the host writes on the EEPROM is no legacy firmware
LEMMA WritingTheEeprom ==
    ASSUME AgentInv, BoardKept, NEW result \in Results, WritePage(result), target = "eeprom"
    PROVE  FirmwareBoots(medium') \notin OldDesign
  <1> USE DEF AgentInv
  <1>1. DOMAIN medium["eeprom"] = Page /\ "eeprom" \in DOMAIN medium
    BY DEF MediaTyped
  <1>2. Reached \in Page
    BY Sizes DEF WritePage, Registers, WorkTyped, StateTyped, Reached
  <1>3. medium' = [medium EXCEPT ![target][Reached] =
            IF result = "ok" THEN Written(@, chunk.content) ELSE Junk]
    BY DEF WritePage
  <1>4. medium'["eeprom"][Reached] \in {chunk.content, Junk}
    BY <1>1, <1>2, <1>3 DEF Written, IsEpcs
  <1> QED
    BY <1>2, <1>4, StartsLegacy, Names DEF BoardKept

\* As long as it starts the legacy firmware it was not written, and the factory's place is
\* written only by an update of it
LEMMA MediumMoves ==
    ASSUME AgentInv, BoardKept, Callback \/ Application, FirmwareBoots(medium') \in OldDesign
    PROVE  /\ medium'["eeprom"] = medium["eeprom"]
           /\ medium'["factory"] = medium["factory"]
  <1> USE DEF AgentInv
  <1>1. /\ \A t \in {"eeprom", "application", "factory"} : DOMAIN medium[t] = Page
        /\ DOMAIN medium = {"eeprom", "application", "factory"}
        /\ target \in {"eeprom", "application", "factory"}
    BY Sizes DEF MediaTyped, StateTyped
  <1>2. CASE \/ EndChunk \/ PickUp \/ Compare
             \/ \E result \in Results : ReadBack(result) \/ Reread(result)
    BY <1>2 DEF EndChunk, PickUp, Compare, ReadBack, Reread
  <1>3. ASSUME NEW result \in Results, EraseSector(result)
        PROVE  /\ medium'["eeprom"] = medium["eeprom"]
               /\ target # "factory" => medium'["factory"] = medium["factory"]
    BY <1>1, <1>3 DEF EraseSector, IsEpcs
  <1>4. ASSUME NEW result \in Results, WritePage(result)
        PROVE  /\ medium'["eeprom"] = medium["eeprom"]
               /\ target # "factory" => medium'["factory"] = medium["factory"]
    <2>1. target # "eeprom"
      BY <1>4, WritingTheEeprom
    <2>2. medium' = [medium EXCEPT ![target][Reached] =
              IF result = "ok" THEN Written(@, chunk.content) ELSE Junk]
      BY <1>4 DEF WritePage
    <2> QED
      BY <1>1, <2>1, <2>2
  <1>5. ASSUME NEW result \in Results, Commit(result)
        PROVE  UNCHANGED medium
    <2>1. \/ medium' = medium
          \/ \E c \in {Junk, firstPage} : medium' = [medium EXCEPT !["eeprom"][0] = c]
      BY <1>5 DEF Commit
    <2>2. \A c : [medium EXCEPT !["eeprom"][0] = c]["eeprom"][0] = c
      BY <1>1, Sizes
    <2>3. firstPage \notin OldDesign /\ Junk \notin OldDesign
      BY Names DEF BoardKept
    <2> QED
      BY <2>1, <2>2, <2>3, StartsLegacy, Sizes
  <1>6. /\ medium'["eeprom"] = medium["eeprom"]
        /\ target # "factory" => medium'["factory"] = medium["factory"]
    BY <1>2, <1>3, <1>4, <1>5 DEF Callback, Application
  <1>7. FirmwareBoots(medium') = FirmwareBoots(medium)
    BY <1>6 DEF FirmwareBoots
  <1> QED
    BY <1>6, <1>7 DEF BoardKept, Legacy

-----------------------------------------------------------------------------
(* The board *)

LEMMA BoardStands ==
    ASSUME BoardKept, UNCHANGED <<medium, firmware, jumper>>,
           linked' => linked \/ firmware \notin OldDesign,
           target' = "factory" => target = "factory" \/ ~Legacy,
           fpga' = fpga \/ ~(Legacy /\ ~jumper),
           firmware \in OldDesign => UNCHANGED <<cPc, aPc, verifyPending>>,
           firstPage' \notin OldDesign, chunk'.content \notin OldDesign
    PROVE  BoardKept'
  BY DEF BoardKept, Legacy, FactoryIsOld

LEMMA BoardUntouched ==
    ASSUME BoardKept, UNCHANGED <<vars, jumper>>, linked' => linked \/ firmware \notin OldDesign
    PROVE  BoardKept'
  BY BoardStands DEF BoardKept, vars

\* The application thread and the callback touch the board's memories, and nothing the
\* board runs
LEMMA BoardAtWork ==
    ASSUME AgentInv, BoardKept, Callback \/ Application, UNCHANGED <<jumper, linked>>
    PROVE  BoardKept'
  <1>1. cPc # "idle" \/ aPc # "loop" \/ verifyPending
    BY DEF Callback, Application, EndChunk, EraseSector, WritePage, PickUp, ReadBack, Compare,
       Commit, Reread
  <1>2. firmware \notin OldDesign
    BY <1>1 DEF BoardKept
  <1>3. UNCHANGED <<target, firmware, fpga, firstPage>>
    BY DEF Callback, Application, EndChunk, EraseSector, WritePage, PickUp, ReadBack, Compare,
       Commit, Reread, Fail
  <1>4. chunk'.content \in {chunk.content, Blank}
    <2>1. chunk' = chunk \/ chunk' = NoChunk \/ chunk' = [chunk EXCEPT !.done = @ + 1]
      BY DEF Callback, Application, EndChunk, EraseSector, WritePage, PickUp, ReadBack, Compare,
         Commit, Reread
    <2>2. [chunk EXCEPT !.done = @ + 1].content = chunk.content
      BY DEF AgentInv, Registers
    <2>3. NoChunk.content = Blank
      BY DEF NoChunk
    <2> QED
      BY <2>1, <2>2, <2>3
  <1>5. ASSUME Legacy'
        PROVE  Legacy /\ (FactoryIsOld => FactoryIsOld')
    <2>1. FirmwareBoots(medium') \in OldDesign
      BY <1>5 DEF Legacy
    <2>2. medium'["eeprom"] = medium["eeprom"] /\ medium'["factory"] = medium["factory"]
      BY <2>1, MediumMoves
    <2> QED
      BY <2>1, <2>2 DEF Legacy, FactoryIsOld, FirmwareBoots
  <1> QED
    BY <1>2, <1>3, <1>4, <1>5, Names DEF BoardKept

\* Without the jumper the board starts what its memories hold; with it, its boot ROM
LEMMA BoardRestarts ==
    ASSUME BoardKept, ~linked', jumper' \in BOOLEAN,
           RestartsInto(IF jumper' THEN "bootloader" ELSE FirmwareBoots(medium)),
           \/ fpga' = FpgaBoots(medium, bootBlock)
           \/ UNCHANGED <<fpga, jumper>>
    PROVE  BoardKept'
  <1>1. /\ firmware' = IF jumper' THEN "bootloader" ELSE FirmwareBoots(medium)
        /\ UNCHANGED medium /\ target' = "eeprom"
        /\ cPc' = "idle" /\ aPc' = "loop" /\ verifyPending' = FALSE
        /\ firstPage' = Blank /\ chunk' = NoChunk
    BY ColdStart
  <1>2. /\ Legacy' <=> Legacy
        /\ FactoryIsOld' <=> FactoryIsOld
    BY <1>1 DEF Legacy, FactoryIsOld
  <1>3. Legacy /\ ~jumper' => fpga' \in OldDesign \cup {"dark"}
    BY OldFactory DEF BoardKept
  <1>4. chunk'.content = Blank
    BY <1>1 DEF NoChunk
  <1>5. firmware' \in OldDesign <=> Legacy /\ ~jumper'
    BY <1>1, Names, Sizes DEF Legacy
  <1> QED
    BY <1>1, <1>2, <1>3, <1>4, <1>5, Names DEF BoardKept

-----------------------------------------------------------------------------
(* The run of the host: what a step of it leaves *)

\* A run that is over, whether it failed or succeeded
Ends ==
    /\ hPc' = "idle" /\ todo' = <<>> /\ sent' = 0 /\ linked' = FALSE
    /\ UNCHANGED <<flow, image, resetDue, jumper>>
\* One that goes on with the same component
Continues(pc, n) ==
    /\ hPc' = pc /\ sent' = n
    /\ UNCHANGED <<flow, image, todo, linked, resetDue, jumper>>

LEMMA NoPlan == \A f : <<>> \in Plans(f)
  BY DEF Plans

LEMMA EndsWell ==
    ASSUME HostTyped, Ends
    PROVE  HostTyped' /\ FirmwareFirst'
  <1>1. HostTyped'
    <2>1. todo' \in Plans(flow') /\ sent' \in 0 .. Pages
      BY NoPlan, Sizes DEF Ends
    <2>2. /\ flow' \in {"update", "recover", "bring-up"} /\ linked' = FALSE /\ hPc' = "idle"
          /\ resetDue' \in BOOLEAN /\ jumper' \in BOOLEAN
      BY DEF HostTyped, Ends
    <2>3. todo' = <<>>
      BY DEF Ends
    <2> QED
      BY <2>1, <2>2, <2>3 DEF HostTyped, Writing, Around
  <1>2. FirmwareFirst'
    BY DEF FirmwareFirst, Ends
  <1> QED
    BY <1>1, <1>2

LEMMA StartHolds ==
    ASSUME HostInv, NEW f \in {"update", "recover", "bring-up"}, NEW held,
           NEW release \in Releases, Start(f, held, release)
    PROVE  HostInv'
  <1> USE DEF HostInv
  <1>1. /\ ~resetDue /\ flow' = f /\ image' = release /\ sent' = 0
        /\ UNCHANGED <<vars, resetDue, jumper>>
        /\ \/ hPc' = "idle" /\ todo' = <<>> /\ linked' = FALSE
           \/ /\ ~Lacks(f, held) /\ todo' = Plan(f, held)
              /\ hPc' = IF f = "update" THEN "status" ELSE "wake"
              /\ linked' = (f = "update") /\ Offered(f)
    BY DEF Start
  <1>2. AgentInv'
    BY <1>1, Unmoved
  <1>3. HostTyped'
    <2>1. todo' \in Plans(flow')
      BY <1>1, Planned, NoPlan
    <2>2. \/ hPc' = "idle" /\ todo' = <<>>
          \/ hPc' \in {"status", "wake"} /\ todo' # <<>>
      BY <1>1, Planned
    <2>3. flow' \in {"update", "recover", "bring-up"} /\ sent' \in 0 .. Pages /\ sent' = 0
      BY <1>1, Sizes
    <2>4. linked' \in BOOLEAN /\ resetDue' = FALSE /\ jumper' \in BOOLEAN
      BY <1>1 DEF HostTyped
    <2> QED
      BY <1>1, <2>1, <2>2, <2>3, <2>4 DEF HostTyped, Writing, Around
  <1>4. BoardKept'
    BY <1>1, BoardUntouched DEF Offered
  <1>5. FirmwareFirst'
    BY <1>1, Planned DEF FirmwareFirst
  <1> QED
    BY <1>2, <1>3, <1>4, <1>5

\* The firmware that a repair runs from memory is that of the bundle
LEMMA WakeHolds ==
    ASSUME HostInv, Wake
    PROVE  HostInv'
  <1> USE DEF HostInv
  <1>1. /\ hPc = "wake" /\ UNCHANGED jumper
        /\ \/ UNCHANGED vars /\ Ends
           \/ /\ RamBoot /\ firmware' = image
              /\ \/ Ends
                 \/ /\ hPc' = "status" /\ linked' = TRUE
                    /\ UNCHANGED <<flow, image, todo, sent, resetDue, jumper>>
    BY DEF Wake, Fails, End, Ends
  <1>2. AgentInv'
    BY <1>1, Unmoved, DeviceKeeps
  <1>3. HostTyped' /\ FirmwareFirst'
    <2>1. CASE Ends
      BY <2>1, EndsWell
    <2>2. CASE ~Ends
      <3>1. HostTyped'
        <4>1. /\ hPc' = "status" /\ linked' = TRUE /\ ~resetDue
              /\ UNCHANGED <<flow, image, todo, sent, resetDue, jumper>>
          BY <1>1, <2>2 DEF HostTyped
        <4> QED
          BY <1>1, <4>1 DEF HostTyped, Writing, Around
      <3>2. FirmwareFirst'
        BY <1>1, <2>2 DEF FirmwareFirst, RamBoot, Legacy
      <3> QED
        BY <3>1, <3>2
    <2> QED
      BY <2>1, <2>2
  <1>4. CASE UNCHANGED vars /\ Ends
    BY <1>1, <1>2, <1>3, <1>4, BoardUntouched DEF Ends
  <1>5. CASE RamBoot /\ firmware' = image
    <2>1. /\ firmware = "bootloader" /\ firmware' \notin OldDesign
          /\ UNCHANGED <<target, medium, fpga, firstPage, chunk>>
      BY <1>1, <1>5, Names DEF RamBoot, HostTyped
    <2>2. BoardKept'
      BY <1>1, <2>1, Names, Sizes DEF BoardKept, Legacy, FactoryIsOld
    <2> QED
      BY <1>2, <1>3, <2>2
  <1> QED
    BY <1>1, <1>4, <1>5

LEMMA StatusHolds ==
    ASSUME HostInv, ReadInitialStatus
    PROVE  HostInv'
  <1> USE DEF HostInv
  <1>1. hPc = "status" /\ UNCHANGED vars /\ (Ends \/ Continues("begin", 0))
    BY DEF ReadInitialStatus, Request, Fails, End, Ends, Goes, Continues
  <1>2. AgentInv' /\ BoardKept'
    BY <1>1, Unmoved, BoardUntouched DEF Ends, Continues
  <1>3. CASE Ends
    BY <1>2, <1>3, EndsWell
  <1>4. CASE Continues("begin", 0)
    <2>1. HostTyped'
      BY <1>1, <1>4, Sizes DEF HostTyped, Continues, Writing, Around
    <2>2. FirmwareFirst'
      BY <1>1, <1>4 DEF FirmwareFirst, Continues, Legacy, vars
    <2> QED
      BY <1>2, <2>1, <2>2
  <1> QED
    BY <1>1, <1>3, <1>4

\* The factory's place is asked for only when the legacy firmware is gone
LEMMA BeginHolds ==
    ASSUME HostInv, BeginComponent
    PROVE  HostInv'
  <1> USE DEF HostInv
  <1>1. hPc = "begin" /\ sent = 0 /\ image \in Images /\ todo # <<>>
    BY Names DEF BeginComponent, HostTyped, Writing
  <1>2. /\ Target \in Targets /\ Unlocks \in BOOLEAN
        /\ Target = "factory" => ~Legacy
    BY <1>1, Heads, Names DEF HostTyped, Unlocks, FirmwareFirst, AllThree
  <1>3. \/ UNCHANGED vars
        \/ linked /\ AcceptBegin(Target, TRUE, Unlocks, image)
        \/ linked /\ RefuseBegin(Target, TRUE, Unlocks)
    BY DEF BeginComponent, Request, StallBegin
  <1>4. Ends \/ Continues("send", 0)
    BY <1>1 DEF BeginComponent, Request, Fails, End, Ends, Goes, Continues
  <1>5. UNCHANGED <<medium, jumper, firmware, fpga, aPc, cPc, verifyPending, chunk>>
    BY <1>3, <1>4 DEF AcceptBegin, RefuseBegin, vars, Ends, Continues
  <1>6. AgentInv'
    BY <1>1, <1>2, <1>3, Unmoved, AcceptBeginKeeps, RefuseBeginKeeps
  <1>7. BoardKept'
    <2>1. linked' => linked
      BY <1>4 DEF Ends, Continues
    <2>2. firstPage' = firstPage \/ firstPage' = Blank
      BY <1>3 DEF AcceptBegin, RefuseBegin, vars
    <2>3. target' \in {target, "eeprom", Target}
      BY <1>3 DEF AcceptBegin, RefuseBegin, vars
    <2> QED
      BY <1>2, <1>5, <2>1, <2>2, <2>3, Names, BoardStands DEF BoardKept
  <1>8. CASE Ends
    BY <1>6, <1>7, <1>8, EndsWell
  <1>9. CASE Continues("send", 0)
    <2>1. HostTyped'
      BY <1>1, <1>9, Sizes DEF HostTyped, Continues, Writing, Around
    <2>2. FirmwareFirst'
      BY <1>1, <1>5, <1>9 DEF FirmwareFirst, Continues, Legacy
    <2> QED
      BY <1>6, <1>7, <2>1, <2>2
  <1> QED
    BY <1>4, <1>8, <1>9

\* The chunk that is on its way: what is left of the image, or as much as a chunk takes
InFlight == IF Pages - sent < UpdateMaxChunk THEN Pages - sent ELSE UpdateMaxChunk

\* Past the first page there is one that is not held back, and until it is written the
\* next chunk is not taken
LEMMA SendHolds ==
    ASSUME HostInv, SendChunk
    PROVE  HostInv'
  <1> USE DEF HostInv
  <1> DEFINE inOrder == sent = received
  <1>1. /\ hPc = "send" /\ sent \in 0 .. Pages /\ image \in Images /\ todo # <<>>
        /\ image \notin OldDesign /\ Target \in Targets
    BY Heads, Names DEF SendChunk, HostTyped, Writing
  <1>2. sent < Pages /\ InFlight \in 1 .. UpdateMaxChunk /\ sent + InFlight \in 0 .. Pages
    BY <1>1, Sizes DEF SendChunk, InFlight
  <1>3. \/ Ends /\ UNCHANGED vars
        \/ Ends /\ linked /\ RefuseData(Target, inOrder, InFlight)
        \/ /\ linked /\ TakeChunk(Target, inOrder, InFlight, image)
           /\ Ends \/ Continues("send", sent + InFlight)
    BY <1>1 DEF SendChunk, Request, Fails, End, Ends, Goes, Continues, InFlight
  <1>4. inOrder \in BOOLEAN
    OBVIOUS
  <1> HIDE DEF inOrder
  <1>5. /\ UNCHANGED <<medium, jumper, firmware, fpga, aPc, verifyPending, target>>
        /\ linked' => linked
    BY <1>3 DEF RefuseData, TakeChunk, Fail, vars, Ends, Continues
  <1>6. \/ UNCHANGED <<cPc, chunk, firstPage>>
        \/ linked /\ TakeChunk(Target, inOrder, InFlight, image)
    BY <1>3 DEF RefuseData, vars
  <1>7. AgentInv'
    <2>1. ASSUME RefuseData(Target, inOrder, InFlight) PROVE AgentInv'
      BY <2>1, RefuseDataKeeps
    <2>2. ASSUME TakeChunk(Target, inOrder, InFlight, image) PROVE AgentInv'
      BY <1>4, <1>1, <1>2, <2>2, TakeChunkKeeps
    <2> QED
      BY <1>3, <2>1, <2>2, Unmoved
  <1>8. ASSUME TakeChunk(Target, inOrder, InFlight, image)
        PROVE  /\ sent = received /\ target = Target /\ cPc' = "chunk"
               /\ firstPage' \in {firstPage, image}
               /\ chunk'.left = InFlight /\ chunk'.content = image
               /\ chunk'.done = IF target = "eeprom" /\ received = 0 THEN 1 ELSE 0
    <2>1. inOrder
      BY <1>8 DEF TakeChunk, ChunkRefusal, None
    <2>2. /\ target = Target /\ cPc' = "chunk"
          /\ IF target = "eeprom" /\ received = 0
             THEN /\ firstPage' = image
                  /\ chunk' = [left |-> InFlight, done |-> 1, content |-> image]
             ELSE /\ firstPage' = firstPage
                  /\ chunk' = [left |-> InFlight, done |-> 0, content |-> image]
      BY <1>4, <1>2, <1>8, Taken
    <2> QED
      BY <2>1, <2>2 DEF inOrder
  <1>9. BoardKept'
    <2>1. CASE UNCHANGED <<cPc, chunk, firstPage>>
      BY <1>5, <2>1, BoardStands DEF BoardKept
    <2>2. CASE linked /\ TakeChunk(Target, inOrder, InFlight, image)
      <3>1. firstPage' \in {firstPage, image} /\ chunk'.content = image
        BY <1>8, <2>2
      <3>2. firmware \notin OldDesign
        BY <2>2 DEF BoardKept
      <3> QED
        BY <1>1, <1>5, <3>1, <3>2, BoardStands DEF BoardKept
    <2> QED
      BY <1>6, <2>1, <2>2
  <1>10. CASE Ends
    BY <1>7, <1>9, <1>10, EndsWell
  <1>11. CASE /\ linked /\ TakeChunk(Target, inOrder, InFlight, image)
             /\ Continues("send", sent + InFlight)
    <2>1. HostTyped'
      BY <1>1, <1>2, <1>11 DEF HostTyped, Continues, Writing, Around
    <2>2. ASSUME flow = "bring-up", Legacy
          PROVE  /\ todo = AllThree /\ target' = "eeprom" /\ cPc' # "idle"
                 /\ sent + InFlight > 1 => chunk'.done < chunk'.left
      <3>1. todo = AllThree /\ Target = "eeprom"
        BY <1>1, <2>2 DEF FirmwareFirst, AllThree, Target
      <3> QED
        BY <1>2, <1>5, <1>8, <1>11, <3>1, Sizes
    <2>3. FirmwareFirst'
      BY <1>5, <1>11, <2>2 DEF FirmwareFirst, Continues, Legacy
    <2> QED
      BY <1>7, <1>9, <2>1, <2>3
  <1> QED
    BY <1>3, <1>10, <1>11

\* It is finished when every page was taken, and then the legacy firmware is gone
LEMMA FinishHolds ==
    ASSUME HostInv, FinishComponent
    PROVE  HostInv'
  <1> USE DEF HostInv
  <1>1. hPc = "send" /\ sent = Pages /\ todo # <<>> /\ Target \in Targets
    BY Heads, Names DEF FinishComponent, HostTyped, Writing
  <1>2. \/ Ends /\ UNCHANGED vars
        \/ /\ linked /\ Finish(Target)
           /\ Ends \/ Continues("await", 0)
    BY <1>1 DEF FinishComponent, Request, Fails, End, Ends, Goes, Continues
  <1>3. /\ UNCHANGED <<medium, jumper, firmware, fpga, aPc, cPc, target, firstPage, chunk>>
        /\ linked' => linked
        /\ verifyPending' = verifyPending \/ linked
    BY <1>2, Finished DEF vars, Ends, Continues
  <1>4. AgentInv'
    BY <1>1, <1>2, Unmoved, FinishKeeps
  <1>5. BoardKept'
    BY <1>3, BoardStands DEF BoardKept
  <1>6. CASE Ends
    BY <1>4, <1>5, <1>6, EndsWell
  <1>7. CASE linked /\ Finish(Target) /\ Continues("await", 0)
    <2>1. HostTyped'
      BY <1>1, <1>7, Sizes DEF HostTyped, Continues, Writing, Around
    <2>2. ~(flow = "bring-up" /\ Legacy)
      BY <1>1, <1>7, Finished, Sizes DEF FirmwareFirst
    <2>3. FirmwareFirst'
      BY <1>3, <1>7, <2>2 DEF FirmwareFirst, Continues, Legacy
    <2> QED
      BY <1>4, <1>5, <2>1, <2>3
  <1> QED
    BY <1>2, <1>6, <1>7

LEMMA AwaitHolds ==
    ASSUME HostInv, AwaitCompletion
    PROVE  HostInv'
  <1> USE DEF HostInv
  <1>1. hPc = "await" /\ UNCHANGED vars
    BY DEF AwaitCompletion
  <1>2. \/ Ends
        \/ /\ todo' = Tail(todo)
           /\ IF Len(todo) > 1 THEN hPc' = "status" ELSE hPc' \in {"reconfigure", "reset"}
           /\ UNCHANGED <<flow, image, sent, linked, resetDue, jumper>>
    BY DEF AwaitCompletion, Installed, NextComponent, Succeeds, Fails, End, Ends
  <1>3. AgentInv' /\ BoardKept'
    BY <1>1, <1>2, Unmoved, BoardUntouched DEF Ends
  <1>4. CASE Ends
    BY <1>3, <1>4, EndsWell
  <1>5. CASE ~Ends
    <2>1. /\ todo' \in Plans(flow') /\ (Len(todo) > 1 <=> todo' # <<>>)
          /\ hPc' \in {"status", "reconfigure", "reset"} /\ (hPc' = "status" <=> todo' # <<>>)
      BY <1>1, <1>2, <1>5, Heads DEF HostTyped, Writing
    <2>2. HostTyped'
      BY <1>1, <1>2, <1>5, <2>1 DEF HostTyped, Writing, Around
    <2>3. ~(flow = "bring-up" /\ Legacy)
      BY <1>1 DEF FirmwareFirst
    <2>4. FirmwareFirst'
      BY <1>1, <1>2, <1>5, <2>3 DEF FirmwareFirst, Legacy, vars
    <2> QED
      BY <1>3, <2>2, <2>4
  <1> QED
    BY <1>4, <1>5

\* Only gateware with a bridge is reconfigured
LEMMA ReconfigureHolds ==
    ASSUME HostInv, Reconfigure
    PROVE  HostInv'
  <1> USE DEF HostInv
  <1>1. /\ hPc = "reconfigure" /\ (UNCHANGED vars \/ ReconfigureFpga)
        /\ Ends \/ Continues("reset", sent)
    BY DEF Reconfigure, Request, Fails, End, Ends, Goes, Continues
  <1>2. AgentInv'
    BY <1>1, Unmoved, DeviceKeeps
  <1>3. UNCHANGED <<medium, firmware, jumper>> /\ (linked' => linked)
    BY <1>1 DEF vars, ReconfigureFpga, Ends, Continues
  <1>4. BoardKept'
    <2>1. CASE UNCHANGED vars
      BY <1>3, <2>1, BoardUntouched
    <2>2. CASE ReconfigureFpga
      <3>1. ~(Legacy /\ ~jumper)
        BY <2>2 DEF ReconfigureFpga, Bridged, BoardKept
      <3>2. UNCHANGED <<target, cPc, aPc, verifyPending, firstPage, chunk>>
        BY <2>2 DEF ReconfigureFpga
      <3> QED
        BY <1>3, <3>1, <3>2, BoardStands DEF BoardKept
    <2> QED
      BY <1>1, <2>1, <2>2
  <1>5. CASE Ends
    BY <1>2, <1>4, <1>5, EndsWell
  <1>6. CASE Continues("reset", sent)
    <2>1. HostTyped'
      BY <1>1, <1>6 DEF HostTyped, Continues, Writing, Around
    <2>2. FirmwareFirst'
      BY <1>1, <1>3, <1>6 DEF HostTyped, FirmwareFirst, Continues, Legacy, Writing
    <2> QED
      BY <1>2, <1>4, <2>1, <2>2
  <1> QED
    BY <1>1, <1>5, <1>6

LEMMA ResetHolds ==
    ASSUME HostInv, ResetDown
    PROVE  HostInv'
  <1> USE DEF HostInv
  <1>1. /\ hPc = "reset" /\ UNCHANGED vars /\ hPc' = "return" /\ linked' = FALSE
        /\ resetDue' = linked
        /\ UNCHANGED <<flow, image, todo, sent, jumper>>
    BY DEF ResetDown
  <1>2. AgentInv' /\ BoardKept'
    BY <1>1, Unmoved, BoardUntouched
  <1>3. HostTyped'
    BY <1>1 DEF HostTyped, Writing, Around
  <1>4. FirmwareFirst'
    BY <1>1 DEF HostTyped, FirmwareFirst, Legacy, Writing, vars
  <1> QED
    BY <1>2, <1>3, <1>4

LEMMA ReturnHolds ==
    ASSUME HostInv, WaitForReturn
    PROVE  HostInv'
  <1>1. UNCHANGED vars /\ Ends
    BY DEF WaitForReturn, Succeeds, Fails, End, Ends
  <1> QED
    BY <1>1, Unmoved, BoardUntouched, EndsWell DEF HostInv, Ends

-----------------------------------------------------------------------------
(* The device, and what is around it *)

hostRun == <<hPc, flow, image, todo, sent, linked, resetDue, jumper>>

\* The chunk that is on its way is not over before a page of it is written
LEMMA DeviceHolds ==
    ASSUME HostInv, Device
    PROVE  HostInv'
  <1> USE DEF HostInv
  <1>1. (Callback \/ Application) /\ UNCHANGED hostRun
    BY DEF Device, hostRun
  <1>2. AgentInv'
    BY <1>1, EndChunkKeeps, EraseKeeps, WritePageKeeps, PickUpKeeps, CompareKeeps, ReadBackKeeps,
       CommitKeeps, RereadKeeps DEF Callback, Application
  <1>3. HostTyped'
    BY <1>1 DEF hostRun, HostTyped
  <1>4. BoardKept'
    BY <1>1, BoardAtWork DEF hostRun
  <1>5. ASSUME flow = "bring-up", Legacy'
        PROVE  /\ Legacy
               /\ cPc # "idle" /\ target = "eeprom" /\ chunk.done < chunk.left
                  => UNCHANGED <<cPc, target, chunk>>
    <2>1. medium'["eeprom"] = medium["eeprom"]
      BY <1>1, <1>5, MediumMoves DEF Legacy
    <2>2. Legacy
      BY <1>5, <2>1 DEF Legacy, FirmwareBoots
    <2>3. ASSUME cPc # "idle", target = "eeprom", chunk.done < chunk.left
          PROVE  UNCHANGED <<cPc, target, chunk>>
      <3>1. ~EndChunk
        BY <2>3 DEF EndChunk, AgentInv, Registers
      <3>2. \A result \in Results : ~EraseSector(result)
        BY <2>3 DEF EraseSector, IsEpcs
      <3>3. \A result \in Results : ~WritePage(result)
        BY <1>5, <2>3, WritingTheEeprom DEF Legacy
      <3>4. Application
        BY <1>1, <3>1, <3>2, <3>3 DEF Callback
      <3> QED
        BY <3>4 DEF Application, PickUp, ReadBack, Compare, Commit, Reread, Fail
    <2> QED
      BY <2>2, <2>3
  <1>6. FirmwareFirst'
    BY <1>1, <1>5 DEF FirmwareFirst, hostRun
  <1> QED
    BY <1>2, <1>3, <1>4, <1>6

LEMMA DeviceResetsHolds ==
    ASSUME HostInv, DeviceResets
    PROVE  HostInv'
  <1> USE DEF HostInv
  <1>1. /\ resetDue /\ RestartsInto(IF jumper THEN "bootloader" ELSE FirmwareBoots(medium))
        /\ resetDue' = FALSE /\ UNCHANGED <<fpga, hPc, flow, image, todo, sent, linked, jumper>>
    BY DEF DeviceResets, Restarted
  <1>2. /\ FirmwareBoots(medium) \in Images \cup {"bootloader"}
        /\ fpga \in Images \cup {"dark", "factory"}
    BY WhatStarts DEF AgentInv, MediaTyped
  <1>3. AgentInv'
    BY <1>1, <1>2, RestartKeeps
  <1>4. HostTyped'
    BY <1>1 DEF HostTyped
  <1>5. BoardKept'
    BY <1>1, BoardRestarts DEF HostTyped
  <1>6. UNCHANGED medium /\ ~linked'
    BY <1>1, ColdStart DEF HostTyped
  <1>7. FirmwareFirst'
    BY <1>1, <1>6 DEF FirmwareFirst, Legacy
  <1> QED
    BY <1>3, <1>4, <1>5, <1>7

LEMMA PowerCycleHolds ==
    ASSUME HostInv, PowerCycle
    PROVE  HostInv'
  <1> USE DEF HostInv
  <1>1. /\ jumper' \in BOOLEAN
        /\ RestartsInto(IF jumper' THEN "bootloader" ELSE FirmwareBoots(medium))
        /\ fpga' = FpgaBoots(medium, bootBlock)
        /\ linked' = FALSE /\ resetDue' = FALSE
        /\ UNCHANGED <<hPc, flow, image, todo, sent>>
    BY DEF PowerCycle
  <1>2. AgentInv'
    BY <1>1, WhatStarts, RestartKeeps DEF AgentInv
  <1>3. HostTyped'
    BY <1>1 DEF HostTyped
  <1>4. BoardKept'
    BY <1>1, BoardRestarts
  <1>5. FirmwareFirst'
    BY <1>1, ColdStart DEF FirmwareFirst, Legacy
  <1> QED
    BY <1>2, <1>3, <1>4, <1>5

\* The vectors reach an FPGA beside a boot ROM, and not one beside the legacy firmware
LEMMA ConfigureHolds ==
    ASSUME HostInv, ConfigureFpga
    PROVE  HostInv'
  <1> USE DEF HostInv
  <1>1. /\ firmware = "bootloader" /\ fpga' \in {"factory", "dark"} /\ UNCHANGED hostRun
        /\ UNCHANGED <<stateVars, handedVars, cPc, chunk, verifyVars, mediaVars, dataCollection,
                       firmware, historyVars>>
    BY DEF ConfigureFpga, hostRun
  <1>2. AgentInv'
    <2>1. UNCHANGED <<StateTyped, HashesTyped, WorkTyped, Registers, Turns, Received, Verified,
                      RecordsAreProved, Completed>>
      BY <1>1 DEF StateTyped, HashesTyped, WorkTyped, Registers, Turns, Received, Verified,
         RecordsAreProved, Completed, OnMedium, ReadPages, InProgress, Reached, Whole
    <2>2. MediaTyped'
      BY <1>1 DEF AgentInv, MediaTyped
    <2> QED
      BY <1>1, <2>1, <2>2 DEF AgentInv
  <1>3. HostTyped'
    BY <1>1 DEF HostTyped, hostRun
  <1>4. ~(Legacy /\ ~jumper)
    BY <1>1, Names, Sizes DEF BoardKept
  <1>5. BoardKept'
    BY <1>1, <1>4, BoardStands DEF BoardKept, hostRun
  <1>6. FirmwareFirst'
    BY <1>1 DEF FirmwareFirst, Legacy, hostRun
  <1> QED
    BY <1>2, <1>3, <1>5, <1>6

LEMMA HostUnmoved ==
    ASSUME HostInv, UNCHANGED <<vars, hostRun>>
    PROVE  HostInv'
  <1> USE DEF HostInv
  <1>1. AgentInv' /\ BoardKept'
    BY Unmoved, BoardUntouched DEF hostRun
  <1>2. HostTyped' /\ FirmwareFirst'
    BY DEF HostTyped, FirmwareFirst, Legacy, hostRun, vars
  <1> QED
    BY <1>1, <1>2

-----------------------------------------------------------------------------
(* The invariant *)

\* A board that works ships with some design, the legacy one or not; a bare board has
\* nothing, or the legacy design in both places and its jumper fitted
LEMMA HostBegins == HostInit => HostInv
  <1> SUFFICES ASSUME HostInit PROVE HostInv
    OBVIOUS
  <1>1. /\ hPc = "idle" /\ flow = "update" /\ todo = <<>> /\ sent = 0
        /\ linked = FALSE /\ resetDue = FALSE
    BY DEF HostInit
  <1>2. target = "eeprom" /\ firstPage = Blank /\ chunk = NoChunk
        /\ cPc = "idle" /\ aPc = "loop" /\ verifyPending = FALSE
    BY DEF HostInit, BoardIsWorking, BoardIsNew, Init
  <1>3. firstPage \notin OldDesign /\ chunk.content \notin OldDesign
    BY <1>2, Names DEF NoChunk
  <1>4. jumper \in BOOLEAN
    BY DEF HostInit, BoardIsWorking, BoardIsNew
  <1>5. HostTyped /\ FirmwareFirst
    <2>1. todo \in Plans(flow) /\ sent \in 0 .. Pages
      BY <1>1, NoPlan, Sizes
    <2>2. HostTyped
      BY <1>1, <1>4, <2>1 DEF HostTyped, Writing, Around
    <2>3. FirmwareFirst
      BY <1>1 DEF FirmwareFirst
    <2> QED
      BY <2>2, <2>3
  <1>6. CASE BoardIsWorking
    <2>1. Init /\ jumper = FALSE /\ firmware = Shipped /\ fpga = Shipped
          /\ \A t \in {"eeprom", "application", "factory"} : \A p \in Page : medium[t][p] = Shipped
      BY <1>6 DEF BoardIsWorking, Init
    <2>2. FirmwareBoots(medium) = Shipped
      BY <2>1, Sizes DEF FirmwareBoots, Whole
    <2>3. \A design \in Images : Whole(medium["factory"], design) => design = Shipped
      BY <2>1, Sizes DEF Whole
    <2>4. BoardKept
      BY <1>1, <1>2, <1>3, <2>1, <2>2, <2>3 DEF BoardKept, Legacy, FactoryIsOld
    <2> QED
      BY <1>5, <2>1, <2>4, AgentInit DEF HostInv
  <1>7. ASSUME NEW content \in OldDesign \cup {Blank}, BoardIsNew(content, content)
        PROVE  HostInv
    <2>1. /\ firmware = "bootloader" /\ jumper = TRUE /\ bootBlock = Blank
          /\ medium = [t \in {"eeprom", "application", "factory"} |-> [p \in Page |->
                       CASE t = "eeprom" -> content [] t = "factory" -> content [] OTHER -> Blank]]
          /\ proved = {<<"eeprom", content>>, <<"factory", content>>}
          /\ fpga = FpgaBoots(medium, bootBlock)
      BY <1>7 DEF BoardIsNew, AllTargets
    <2>2. \A p \in Page : medium["eeprom"][p] = content /\ medium["factory"][p] = content
      BY <2>1
    <2>3. medium \in [{"eeprom", "application", "factory"} -> [Page -> Content]]
      BY <2>1, Sizes
    <2>4. FirmwareBoots(medium) \in OldDesign => content \in OldDesign
      BY <2>2, StartsLegacy, Sizes
    <2>5. \A design \in Images : Whole(medium["factory"], design) => design = content
      BY <2>2, Sizes DEF Whole
    <2>6. BoardKept
      BY <1>1, <1>2, <1>3, <2>1, <2>4, <2>5, Names, Sizes DEF BoardKept, Legacy, FactoryIsOld
    <2>7. fpga \in Images \cup {"dark", "factory"}
      BY <2>1, Sizes DEF FpgaBoots
    <2>8. StateTyped /\ HashesTyped
      BY <1>7, Sizes DEF BoardIsNew, StateTyped, HashesTyped
    <2>9. WorkTyped
      BY <1>7, Sizes DEF BoardIsNew, WorkTyped, Reached, NoChunk
    <2>10. MediaTyped
      BY <2>1, <2>3, <2>7 DEF MediaTyped
    <2>11. NoChunk \in [left : Nat, done : Nat, content : Content]
      BY Sizes DEF NoChunk
    <2>12. Registers
      <3>1. /\ received = 0 /\ length = 0
            /\ stray \in BOOLEAN /\ dataCollection \in BOOLEAN /\ onEpcs \in BOOLEAN
            /\ verifyPending \in BOOLEAN
        BY <1>2, <1>7 DEF BoardIsNew
      <3> QED
        BY <1>2, <2>11, <3>1 DEF Registers
    <2>13. Turns /\ Received /\ Verified /\ Completed
      BY <1>7 DEF BoardIsNew, Turns, Received, Verified, Completed, InProgress
    <2>14. RecordsAreProved
      BY <2>1, <2>2, Sizes DEF RecordsAreProved
    <2> QED
      BY <1>5, <2>6, <2>8, <2>9, <2>10, <2>12, <2>13, <2>14 DEF HostInv, AgentInv
  <1> QED
    BY <1>6, <1>7 DEF HostInit

LEMMA HostHolds ==
    ASSUME HostInv, [HostNext]_allVars
    PROVE  HostInv'
  <1>1. CASE UNCHANGED allVars
    BY <1>1, HostUnmoved DEF allVars, hostVars, hostRun
  <1>2. CASE Starts
    BY <1>2, StartHolds DEF Starts
  <1>3. CASE Host
    BY <1>3, WakeHolds, StatusHolds, BeginHolds, SendHolds, FinishHolds, AwaitHolds,
       ReconfigureHolds, ResetHolds, ReturnHolds DEF Host
  <1>4. CASE Cancel
    BY <1>4, HostUnmoved DEF Cancel, hostRun
  <1> QED
    BY <1>1, <1>2, <1>3, <1>4, DeviceHolds, DeviceResetsHolds, ConfigureHolds, PowerCycleHolds
       DEF HostNext

LEMMA HostAlways == HostSpec => []HostInv
  BY HostBegins, HostHolds, PTL DEF HostSpec

-----------------------------------------------------------------------------
(* The agent, from the run on *)

(***************************************************************************)
(* What UpdateProofs shows of an agent holds of one whose history begins   *)
(* with the run: no request has come in the middle of a verification yet,  *)
(* and any image may have been proved before. A device whose history is    *)
(* not so good is such an agent all the same once it was started anew.     *)
(***************************************************************************)
AllProved == {"eeprom", "application", "factory"} \X Content
Anew == INSTANCE UpdateProofs WITH stray <- FALSE, proved <- AllProved
Calm == Anew!AgentInv

USE DEF Anew!stateVars, Anew!handedVars, Anew!verifyVars, Anew!mediaVars, Anew!deviceVars
USE DEF Anew!historyVars

LEMMA CalmMeans ==
    ASSUME Calm
    PROVE  /\ Turns /\ Received /\ Completed
           /\ aPc \in {"commit", "program", "reread"} => target # "factory"
  BY DEF Calm, Anew!Verified, Anew!AgentInv, Anew!Turns, Turns, Anew!InProgress, InProgress, Anew!Received, Received,
     Anew!OnMedium, OnMedium, Anew!Reached, Reached, Anew!IsEpcs, IsEpcs, Anew!Completed, Completed,
     Anew!Whole, Whole, Anew!None, None, Anew!Page, Page

LEMMA TypedStaysTyped ==
    ASSUME AgentInv
    PROVE  Anew!StateTyped /\ Anew!HashesTyped /\ Anew!WorkTyped /\ Anew!MediaTyped /\ Anew!Registers
  BY DEF AgentInv, Anew!StateTyped, StateTyped, Anew!HashesTyped, HashesTyped, Anew!WorkTyped, WorkTyped,
     Anew!MediaTyped, MediaTyped, Anew!Registers, Registers, Anew!Reached, Reached, Anew!Content, Content,
     Anew!Page, Page, Anew!NoChunk, NoChunk, Anew!None, None

Resting == aPc = "loop" /\ cPc = "idle" /\ ~verifyPending /\ phase = "idle"

LEMMA RestIsCalm == AgentInv /\ Resting => Calm
  <1> SUFFICES ASSUME AgentInv, Resting PROVE Calm
    OBVIOUS
  <1>1. Anew!Turns /\ Anew!Received /\ Anew!Verified /\ Anew!Completed
    BY DEF Resting, Anew!Turns, Anew!Received, Anew!InProgress, Anew!Verified, Anew!Completed
  <1>2. Anew!RecordsAreProved
    BY Sizes DEF AgentInv, MediaTyped, HashesTyped, Anew!RecordsAreProved, AllProved, Page, Content
  <1> QED
    BY <1>1, <1>2, TypedStaysTyped DEF Calm, Anew!AgentInv

\* As long as no request came in the middle, the history makes no difference
LEMMA NoneCame ==
    ASSUME AgentInv, ~stray
    PROVE  Calm
  <1>1. Anew!Turns /\ Anew!Received /\ Anew!Completed
    BY DEF AgentInv, Anew!Turns, Turns, Anew!InProgress, InProgress, Anew!Received, Received, Anew!OnMedium,
       OnMedium, Anew!Reached, Reached, Anew!IsEpcs, IsEpcs, Anew!Completed, Completed, Anew!Whole, Whole,
       Anew!None, None, Anew!Page, Page
  <1>2. Anew!RecordsAreProved
    BY Sizes DEF AgentInv, MediaTyped, HashesTyped, Anew!RecordsAreProved, AllProved, Page, Content
  <1>3. \A t \in {"eeprom", "application"}, i \in Images : <<t, i>> \in AllProved
    BY Sizes DEF AllProved
  <1>4. aPc \in {"commit", "program", "reread"} => <<target, digest>> \in AllProved
    BY <1>3, Sizes DEF AgentInv, Verified, Turns, StateTyped, InProgress
  <1>5. Anew!Verified
    BY <1>4 DEF AgentInv, Anew!Verified, Verified, Anew!ReadPages, ReadPages, Anew!Page, Page
  <1> QED
    BY <1>1, <1>2, <1>5, TypedStaysTyped DEF Calm, Anew!AgentInv

\* The callback and the application thread of that agent are those of this one
LEMMA CalmCallback ==
    ASSUME Calm, Callback
    PROVE  Calm'
  <1>1. ASSUME EndChunk PROVE Calm'
    <2>1. Anew!EndChunk
      BY <1>1 DEF EndChunk, Anew!EndChunk, NoChunk, Anew!NoChunk, AllProved, Content
    <2> QED
      BY <2>1, Anew!EndChunkKeeps, AgentAssumption DEF Calm
  <1>2. ASSUME NEW result \in Results, EraseSector(result) PROVE Calm'
    <2>1. Anew!EraseSector(result) /\ result \in Anew!Results
      BY <1>2 DEF EraseSector, Anew!EraseSector, Results, Anew!Results, MediumDoes, Anew!MediumDoes, Reached,
         Anew!Reached, IsEpcs, Anew!IsEpcs, Fail, Anew!Fail, NoChunk, Anew!NoChunk, Page, Anew!Page
    <2> QED
      BY <2>1, Anew!EraseKeeps, AgentAssumption DEF Calm
  <1>3. ASSUME NEW result \in Results, WritePage(result) PROVE Calm'
    <2>1. Anew!WritePage(result) /\ result \in Anew!Results
      BY <1>3 DEF WritePage, Anew!WritePage, Results, Anew!Results, MediumDoes, Anew!MediumDoes, Reached,
         Anew!Reached, IsEpcs, Anew!IsEpcs, Fail, Anew!Fail, NoChunk, Anew!NoChunk, Written, Anew!Written
    <2> QED
      BY <2>1, Anew!WritePageKeeps, AgentAssumption DEF Calm
  <1> QED
    BY <1>1, <1>2, <1>3 DEF Callback

LEMMA CalmApplication ==
    ASSUME Calm, AgentInv, Application
    PROVE  Calm'
  <1>1. ASSUME PickUp PROVE Calm'
    <2>1. Anew!PickUp
      BY <1>1 DEF PickUp, Anew!PickUp, IsEpcs, Anew!IsEpcs, AllProved, Content
    <2> QED
      BY <2>1, Anew!PickUpKeeps, AgentAssumption DEF Calm
  <1>2. ASSUME Compare PROVE Calm'
    <2>1. <<ReadRegion, mediumHash>> \in AllProved
      BY DEF ReadRegion, AllProved, AgentInv, HashesTyped
    <2>2. Anew!Compare
      BY <1>2, <2>1 DEF Compare, Anew!Compare, Fail, Anew!Fail, Return, Anew!Return, Stay, Anew!Stay,
         ReadRegion, Anew!ReadRegion, AllProved, Content
    <2> QED
      BY <2>2, Anew!CompareKeeps, AgentAssumption DEF Calm
  <1>3. ASSUME NEW result \in Results, ReadBack(result) PROVE Calm'
    <2>1. Anew!ReadBack(result) /\ result \in Anew!Results
      BY <1>3 DEF ReadBack, Anew!ReadBack, Results, Anew!Results, MediumDoes, Anew!MediumDoes, AccessDoes,
         Anew!AccessDoes, Unreachable, Anew!Unreachable, Bridged, Anew!Bridged, Return, Anew!Return, Fail, Anew!Fail,
         Hash, Anew!Hash, ReadRegion, Anew!ReadRegion, AllProved, Content
    <2> QED
      BY <2>1, Anew!ReadBackKeeps, AgentAssumption DEF Calm
  <1>4. ASSUME NEW result \in Results, Commit(result) PROVE Calm'
    <2>1. Anew!Commit(result) /\ result \in Anew!Results
      BY <1>4 DEF Commit, Anew!Commit, Results, Anew!Results, MediumDoes, Anew!MediumDoes, AccessDoes,
         Anew!AccessDoes, Unreachable, Anew!Unreachable, Bridged, Anew!Bridged, Return, Anew!Return, Stay, Anew!Stay,
         Fail, Anew!Fail, AllProved, Content
    <2> QED
      BY <2>1, Anew!CommitKeeps, AgentAssumption DEF Calm
  <1>5. ASSUME NEW result \in Results, Reread(result) PROVE Calm'
    <2>1. Anew!Reread(result) /\ result \in Anew!Results
      BY <1>5 DEF Reread, Anew!Reread, Results, Anew!Results, MediumDoes, Anew!MediumDoes, AccessDoes,
         Anew!AccessDoes, Unreachable, Anew!Unreachable, Bridged, Anew!Bridged, Return, Anew!Return,
         Fail, Anew!Fail, AllProved, Content
    <2> QED
      BY <2>1, Anew!RereadKeeps, AgentAssumption DEF Calm
  <1> QED
    BY <1>1, <1>2, <1>3, <1>4, <1>5 DEF Application

LEMMA CalmBegin ==
    ASSUME Calm, NEW t \in Targets, NEW unlocked \in BOOLEAN, NEW promised \in Images,
           AcceptBegin(t, TRUE, unlocked, promised) \/ RefuseBegin(t, TRUE, unlocked)
    PROVE  Calm'
  <1>1. BeginRefusal(t, TRUE, unlocked) = Anew!BeginRefusal(t, TRUE, unlocked)
    BY DEF BeginRefusal, Anew!BeginRefusal, InProgress, Anew!InProgress, Bridged, Anew!Bridged, IsEpcs, Anew!IsEpcs,
       None, Anew!None
  <1>2. \/ Anew!AcceptBegin(t, TRUE, unlocked, promised)
        \/ Anew!RefuseBegin(t, TRUE, unlocked)
    BY <1>1 DEF AcceptBegin, Anew!AcceptBegin, RefuseBegin, Anew!RefuseBegin, InProgress, Anew!InProgress,
       Asked, Anew!Asked, None, Anew!None, AllProved, Content
  <1> QED
    BY <1>2, Anew!AcceptBeginKeeps, Anew!RefuseBeginKeeps, AgentAssumption DEF Calm

LEMMA CalmChunk ==
    ASSUME Calm, NEW inOrder \in BOOLEAN, NEW pages \in 0 .. UpdateMaxChunk, NEW t \in Targets,
           NEW content \in Images,
           \/ TakeChunk(t, inOrder, pages, content)
           \/ RefuseData(t, inOrder, pages) /\ aPc = "loop" /\ phase # "verifying"
    PROVE  Calm'
  <1>1. ChunkRefusal(t, inOrder, pages) = Anew!ChunkRefusal(t, inOrder, pages)
    BY DEF ChunkRefusal, Anew!ChunkRefusal, None, Anew!None
  <1>2. \/ Anew!TakeChunk(t, inOrder, pages, content)
        \/ Anew!RefuseData(t, inOrder, pages)
    BY <1>1 DEF TakeChunk, Anew!TakeChunk, RefuseData, Anew!RefuseData, Asked, Anew!Asked, None, Anew!None,
       Hash, Anew!Hash, Fail, Anew!Fail, Intrudes, Anew!Intrudes, AllProved, Content
  <1> QED
    BY <1>2, Anew!TakeChunkKeeps, Anew!RefuseDataKeeps, AgentAssumption DEF Calm

LEMMA CalmFinish ==
    ASSUME Calm, NEW t \in Targets, Finish(t), aPc = "loop", phase # "verifying"
    PROVE  Calm'
  <1>1. FinishRefusal(t) = Anew!FinishRefusal(t)
    BY DEF FinishRefusal, Anew!FinishRefusal, None, Anew!None
  <1>2. Anew!Finish(t)
    BY <1>1 DEF Finish, Anew!Finish, Asked, Anew!Asked, None, Anew!None, Fail, Anew!Fail, Intrudes, Anew!Intrudes,
       AllProved, Content
  <1> QED
    BY <1>2, Anew!FinishKeeps, AgentAssumption DEF Calm

LEMMA CalmBeside ==
    ASSUME Calm, UNCHANGED vars \/ ReconfigureFpga \/ RamBoot
    PROVE  Calm'
  <1>1. UNCHANGED Anew!vars \/ Anew!ReconfigureFpga \/ Anew!RamBoot
    BY DEF vars, Anew!vars, ReconfigureFpga, Anew!ReconfigureFpga, RamBoot, Anew!RamBoot, Asked, Anew!Asked,
       InProgress, Anew!InProgress, Bridged, Anew!Bridged, FpgaBoots, Anew!FpgaBoots, Whole, Anew!Whole,
       Page, Anew!Page, AllProved, Content
  <1> QED
    BY <1>1, Anew!Unmoved, Anew!DeviceKeeps, AgentAssumption DEF Calm

-----------------------------------------------------------------------------
(* What a run has installed *)

\* The components the bundle is for, those the run still has, and those it is done with
Installs == {t \in carries : t = "factory" => flow = "bring-up"}
Components(s) == {s[i] : i \in DOMAIN s}
Left == Components(todo)
Done == Installs \ Left
DoneWhole ==
    /\ \A t \in Done : Whole(medium[t], image)
    /\ "application" \in Done => bootBlock = image

\* A history in which no request came in the middle, or a device that was started anew
\* in its boot ROM since
Known == ~stray \/ flow # "update"
Untroubled == losses = 0 \/ clean

Before == {"wake", "status", "begin", "send"}
After  == {"reconfigure", "reset", "return"}
AtEnd  == aPc = "loop" /\ cPc = "idle" /\ phase \in {"complete", "idle"}

\* What is true of the device whatever the host does: the boot ROM knows no update
DeviceKept ==
    /\ firmware = "bootloader" => Resting
    /\ phase = "complete" => aPc = "loop"
    /\ phase = "receiving" => digest \in Images
    /\ dataCollection = FALSE

\* The application comes last, and a bring-up ends there
PlanKept ==
    /\ Left \subseteq Installs /\ carries \subseteq AllTargets
    /\ todo # <<>> /\ "application" \in Installs => "application" \in Left
    /\ flow = "bring-up" => carries = AllTargets /\ hPc \notin After

Settled ==
    /\ hPc \in {"await"} \cup After => cPc = "idle"
    /\ hPc \in After => AtEnd

(***************************************************************************)
(* What the run installed is whole, and stays so while the next component  *)
(* is written: the device writes where the run told it to, because a       *)
(* stream of this run is accepted only for the image that was promised.    *)
(***************************************************************************)
Installing ==
    /\ Known =>
        /\ Calm /\ DoneWhole /\ (InProgress => target \notin Done)
        /\ hPc = "send" /\ linked /\ sent > 0 /\ phase = "receiving" => streamHash \in {image, Junk}
        /\ hPc = "await" /\ linked /\ phase # "failed" =>
              phase \in {"verifying", "writing", "complete"} /\ target = Target /\ digest = image
    /\ flow # "update" /\ hPc \in Before =>
        aPc = "loop" /\ ~verifyPending /\ phase \notin {"verifying", "writing"}

(***************************************************************************)
(* The identity that is read back is that of a device that has restarted.  *)
(***************************************************************************)
Returning ==
    /\ Untroubled /\ hPc \in {"status", "begin", "send", "await", "reconfigure", "reset"} => linked
    /\ hPc \in {"reset", "return"} /\ "application" \in carries
          => fpga = FpgaBoots(medium, bootBlock)
    /\ hPc = "return" /\ ~resetDue /\ Untroubled => firmware = Restarted

\* And when it is over
Succeeded ==
    outcome.succeeded =>
    /\ hPc = "idle" /\ AtEnd /\ image \in Releases
    /\ flow = "bring-up" => carries = AllTargets
    /\ (stray => losses = 0) =>
        /\ \A t \in Installs : Whole(medium[t], image)
        /\ "application" \in carries => FpgaBoots(medium, bootBlock) = image

RunKept == hPc # "idle" => PlanKept /\ Settled /\ Installing /\ Returning

LEMMA ComponentsOf ==
    /\ Components(<<>>) = {}
    /\ Components(<<"eeprom">>) = {"eeprom"}
    /\ Components(<<"application">>) = {"application"}
    /\ Components(<<"eeprom", "application">>) = {"eeprom", "application"}
    /\ Components(<<"factory", "application">>) = {"factory", "application"}
    /\ Components(AllThree) = AllTargets
  <1>1. Components(<<>>) = {}
    BY DEF Components
  <1>2. ASSUME NEW a PROVE Components(<<a>>) = {a}
    <2>1. DOMAIN <<a>> = {1} /\ <<a>>[1] = a
      OBVIOUS
    <2> QED
      BY <2>1 DEF Components
  <1>3. ASSUME NEW a, NEW b PROVE Components(<<a, b>>) = {a, b}
    <2>1. DOMAIN <<a, b>> = {1, 2} /\ <<a, b>>[1] = a /\ <<a, b>>[2] = b
      OBVIOUS
    <2> QED
      BY <2>1 DEF Components
  <1>4. Components(AllThree) = AllTargets
    <2>1. /\ DOMAIN AllThree = {1, 2, 3}
          /\ AllThree[1] = "eeprom" /\ AllThree[2] = "factory" /\ AllThree[3] = "application"
      BY DEF AllThree
    <2> QED
      BY <2>1 DEF Components, AllTargets
  <1> QED
    BY <1>1, <1>2, <1>3, <1>4

LEMMA PlannedLeft ==
    ASSUME NEW f, NEW held \in SUBSET AllTargets, ~Lacks(f, held)
    PROVE  /\ Components(Plan(f, held)) = {t \in held : t = "factory" => f = "bring-up"}
           /\ f = "bring-up" => held = AllTargets
  <1>1. CASE f = "bring-up"
    BY <1>1, ComponentsOf DEF Lacks, Plan, AllThree, AllTargets
  <1>2. CASE f # "bring-up"
    <2>1. Plan(f, held) = IfHeld("eeprom", held) \o IfHeld("application", held)
      BY <1>2 DEF Plan
    <2>2. /\ <<>> \o <<>> = <<>> /\ <<"eeprom">> \o <<>> = <<"eeprom">>
          /\ <<>> \o <<"application">> = <<"application">>
          /\ <<"eeprom">> \o <<"application">> = <<"eeprom", "application">>
      BY TwoInARow
    <2>3. {t \in held : t = "factory" => f = "bring-up"} = held \cap {"eeprom", "application"}
      BY <1>2 DEF AllTargets
    <2>4. CASE "eeprom" \in held /\ "application" \in held
      BY <2>1, <2>2, <2>3, <2>4, <1>2, ComponentsOf DEF IfHeld
    <2>5. CASE "eeprom" \in held /\ "application" \notin held
      BY <2>1, <2>2, <2>3, <2>5, <1>2, ComponentsOf DEF IfHeld
    <2>6. CASE "eeprom" \notin held /\ "application" \in held
      BY <2>1, <2>2, <2>3, <2>6, <1>2, ComponentsOf DEF IfHeld
    <2>7. CASE "eeprom" \notin held /\ "application" \notin held
      BY <2>1, <2>2, <2>3, <2>7, <1>2, ComponentsOf DEF IfHeld
    <2> QED
      BY <2>4, <2>5, <2>6, <2>7
  <1> QED
    BY <1>1, <1>2

LEMMA NextLeft ==
    ASSUME NEW f, todo \in Plans(f), todo # <<>>
    PROVE  /\ Target \in Left /\ Components(Tail(todo)) = Left \ {Target}
           /\ Len(todo) > 1 /\ "application" \in Left => "application" \in Components(Tail(todo))
           /\ ~(Len(todo) > 1) => Left = {Target} /\ Tail(todo) = <<>>
           /\ Left \subseteq AllTargets
  <1> USE DEF Target, AllThree, Left, AllTargets
  <1>1. CASE todo = <<"eeprom">>
    <2>1. Target = "eeprom" /\ Tail(todo) = <<>> /\ Len(todo) = 1
      BY <1>1
    <2> QED
      BY <1>1, <2>1, ComponentsOf
  <1>2. CASE todo = <<"application">>
    <2>1. Target = "application" /\ Tail(todo) = <<>> /\ Len(todo) = 1
      BY <1>2
    <2> QED
      BY <1>2, <2>1, ComponentsOf
  <1>3. CASE todo = <<"eeprom", "application">>
    <2>1. Target = "eeprom" /\ Tail(todo) = <<"application">> /\ Len(todo) = 2
      BY <1>3
    <2> QED
      BY <1>3, <2>1, ComponentsOf
  <1>4. CASE todo = <<"factory", "application">>
    <2>1. Target = "factory" /\ Tail(todo) = <<"application">> /\ Len(todo) = 2
      BY <1>4
    <2> QED
      BY <1>4, <2>1, ComponentsOf
  <1>5. CASE todo = AllThree
    <2>1. Target = "eeprom" /\ Tail(todo) = <<"factory", "application">> /\ Len(todo) = 3
      BY <1>5
    <2> QED
      BY <1>5, <2>1, ComponentsOf
  <1> QED
    BY <1>1, <1>2, <1>3, <1>4, <1>5 DEF Plans

\* What the host asks of the device for a component
Commands(t) ==
    \/ \E unlocked \in BOOLEAN, promised \in Images :
           AcceptBegin(t, TRUE, unlocked, promised) \/ RefuseBegin(t, TRUE, unlocked)
    \/ \E inOrder \in BOOLEAN, pages \in 1 .. UpdateMaxChunk, content \in Images :
           TakeChunk(t, inOrder, pages, content) \/ RefuseData(t, inOrder, pages)
    \/ Finish(t)

LEMMA DeviceStands ==
    ASSUME DeviceKept, UNCHANGED <<firmware, aPc, cPc, verifyPending, phase, digest, dataCollection>>
    PROVE  DeviceKept'
  BY DEF DeviceKept, Resting

LEMMA DeviceObeys ==
    ASSUME DeviceKept, NEW t, Commands(t)
    PROVE  DeviceKept'
  <1>1. firmware # "bootloader" /\ UNCHANGED <<firmware, aPc, dataCollection>>
    BY DEF Commands, AcceptBegin, RefuseBegin, TakeChunk, RefuseData, Finish, Asked
  <1>2. phase' # "complete" \/ UNCHANGED phase
    BY DEF Commands, AcceptBegin, RefuseBegin, TakeChunk, RefuseData, Finish, Fail
  <1>3. phase' = "receiving" => digest' \in Images
    BY DEF Commands, AcceptBegin, RefuseBegin, TakeChunk, RefuseData, Finish, Fail, DeviceKept
  <1> QED
    BY <1>1, <1>2, <1>3 DEF DeviceKept

LEMMA DeviceWorks ==
    ASSUME DeviceKept, Callback \/ Application
    PROVE  DeviceKept'
  <1>1. UNCHANGED <<firmware, dataCollection, digest>>
    BY DEF Callback, EndChunk, EraseSector, WritePage, Application, PickUp, Compare, ReadBack,
       Commit, Reread, Fail
  <1>2. firmware # "bootloader"
    BY DEF DeviceKept, Resting, Callback, EndChunk, EraseSector, WritePage, Application, PickUp,
       Compare, ReadBack, Commit, Reread
  <1>3. CASE Callback
    <2>1. UNCHANGED aPc /\ phase' \in {phase, "failed"}
      BY <1>3 DEF Callback, EndChunk, EraseSector, WritePage, Fail
    <2> QED
      BY <1>1, <1>2, <2>1 DEF DeviceKept
  <1>4. CASE Application
    <2>1. phase' = "receiving" => phase = "receiving"
      BY <1>4 DEF Application, PickUp, Compare, ReadBack, Commit, Reread, Fail
    <2>2. ASSUME phase' = "complete" PROVE aPc' = "loop"
      <3>1. CASE PickUp
        BY <2>2, <3>1 DEF PickUp, DeviceKept
      <3>2. CASE Compare
        BY <2>2, <3>2 DEF Compare, Fail, Return
      <3>3. CASE \E result \in Results : ReadBack(result)
        BY <2>2, <3>3 DEF ReadBack, Fail, Return, DeviceKept
      <3>4. CASE \E result \in Results : Commit(result)
        BY <2>2, <3>4 DEF Commit, Fail, Return, Stay, DeviceKept
      <3>5. CASE \E result \in Results : Reread(result)
        BY <2>2, <3>5 DEF Reread, Return
      <3> QED
        BY <1>4, <3>1, <3>2, <3>3, <3>4, <3>5 DEF Application
    <2> QED
      BY <1>1, <1>2, <2>1, <2>2 DEF DeviceKept
  <1> QED
    BY <1>3, <1>4

LEMMA DeviceRestarts ==
    ASSUME NEW i, RestartsInto(i)
    PROVE  DeviceKept' /\ Resting'
  BY ColdStart DEF DeviceKept, Resting

-----------------------------------------------------------------------------
(* What a step of the host leaves of it *)

RunInv == losses \in Nat /\ RunKept /\ Succeeded

\* A run that ends without success promises nothing
Failed == hPc' = "idle" /\ ~outcome'.succeeded /\ losses' \in Nat
LEMMA FailedRun == Failed => RunInv'
  BY DEF Failed, RunInv, RunKept, Succeeded

LEMMA Failing ==
    ASSUME RunInv, NEW problem, Fails(problem), Loses \/ AllWell
    PROVE  Failed
  BY DEF RunInv, Fails, End, NoOutcome, Failed, Loses, AllWell

\* A step that goes on loses nothing
Onward == UNCHANGED <<flow, carries, image, resetDue, jumper, outcome, losses, clean>>

\* In the middle of a run
LEMMA Underway ==
    ASSUME HostInv, RunInv, hPc # "idle"
    PROVE  /\ PlanKept /\ Settled /\ Installing /\ Returning /\ ~outcome.succeeded
           /\ image \in Releases /\ image \in Images /\ image \notin OldDesign
  BY Names DEF RunInv, RunKept, Succeeded, HostInv, HostTyped

\* What goes on with the same plan
LEMMA GoesOn ==
    ASSUME HostInv, RunInv, hPc # "idle", Onward, UNCHANGED todo, hPc' # "idle",
           Settled', Installing', Returning', hPc' \notin After \/ hPc \in After \/ flow # "bring-up"
    PROVE  RunInv'
  <1>1. UNCHANGED <<Left, Installs>>
    BY DEF Onward, Left, Installs
  <1>2. PlanKept'
    BY <1>1, Underway DEF Onward, PlanKept
  <1>3. ~outcome'.succeeded
    BY Underway DEF Onward
  <1> QED
    BY <1>2, <1>3 DEF RunInv, RunKept, Succeeded, Onward

\* Nothing that was installed is touched
LEMMA WholeStays ==
    ASSUME UNCHANGED <<flow, carries, image, todo, medium, bootBlock>>
    PROVE  UNCHANGED <<Done, DoneWhole>>
  BY DEF Done, Left, Installs, DoneWhole

LEMMA StatusGoes ==
    ASSUME HostInv, RunInv, ReadInitialStatus
    PROVE  RunInv'
  <1>1. \/ Failed
        \/ /\ hPc = "status" /\ hPc' = "begin" /\ linked
           /\ UNCHANGED <<vars, todo, linked>> /\ Onward
    BY Failing DEF ReadInitialStatus, Request, Goes, Onward, AllWell
  <1>2. CASE ~Failed
    <2>1. /\ hPc = "status" /\ hPc' = "begin" /\ linked
          /\ UNCHANGED <<vars, todo, linked>> /\ Onward
      BY <1>1, <1>2
    <2>2. Settled' /\ Returning'
      BY <2>1 DEF Settled, Returning, Untroubled, Onward, After
    <2>3. UNCHANGED <<Known, Done, DoneWhole>> /\ (Calm => Calm')
      BY <2>1, WholeStays, CalmBeside DEF Known, Onward, vars
    <2>4. Installing'
      BY <2>1, <2>3, Underway DEF Installing, Onward, vars, InProgress, Before
    <2> QED
      BY <2>1, <2>2, <2>4, GoesOn DEF After
  <1> QED
    BY <1>2, FailedRun

LEMMA WakeGoes ==
    ASSUME HostInv, RunInv, Wake
    PROVE  RunInv'
  <1>1. \/ Failed
        \/ /\ hPc = "wake" /\ hPc' = "status" /\ linked' = TRUE /\ RamBoot
           /\ UNCHANGED todo /\ Onward
    BY Failing DEF Wake, Onward, AllWell
  <1>2. CASE ~Failed
    <2>1. /\ hPc = "wake" /\ hPc' = "status" /\ linked' = TRUE /\ RamBoot
          /\ UNCHANGED todo /\ Onward
      BY <1>1, <1>2
    <2>2. Settled' /\ Returning'
      BY <2>1 DEF Settled, Returning, Untroubled, Onward, After
    <2>3. UNCHANGED <<Known, Done, DoneWhole>> /\ (Calm => Calm')
      BY <2>1, WholeStays, CalmBeside DEF Known, Onward, RamBoot
    <2>4. Installing'
      BY <2>1, <2>3, Underway DEF Installing, Onward, RamBoot, InProgress, Before
    <2> QED
      BY <2>1, <2>2, <2>4, GoesOn DEF After
  <1> QED
    BY <1>2, FailedRun

\* The component that is asked for is not one that is done
LEMMA BeginGoes ==
    ASSUME HostInv, RunInv, BeginComponent
    PROVE  RunInv'
  <1>1. \/ Failed
        \/ /\ hPc = "begin" /\ hPc' = "send" /\ linked /\ sent' = sent
           /\ \/ AcceptBegin(Target, TRUE, Unlocks, image)
              \/ RefuseBegin(Target, TRUE, Unlocks)
              \/ UNCHANGED vars
           /\ UNCHANGED <<todo, linked>> /\ Onward
    BY Failing DEF BeginComponent, Request, Goes, Onward, AllWell, StallBegin
  <1>2. CASE ~Failed
    <2>1. /\ hPc = "begin" /\ hPc' = "send" /\ linked /\ sent' = sent
          /\ \/ AcceptBegin(Target, TRUE, Unlocks, image)
             \/ RefuseBegin(Target, TRUE, Unlocks)
             \/ UNCHANGED vars
          /\ UNCHANGED <<todo, linked>> /\ Onward
      BY <1>1, <1>2
    <2>2. /\ Target \in Targets /\ Unlocks \in BOOLEAN /\ Target \notin Done /\ sent = 0
      BY <2>1, NextLeft, Heads, Names DEF HostInv, HostTyped, Writing, Unlocks, Done
    <2>3. UNCHANGED <<medium, bootBlock, aPc, verifyPending, cPc, stray, firmware, fpga>>
      BY <2>1 DEF AcceptBegin, RefuseBegin, vars
    <2>4. Settled' /\ Returning'
      BY <2>1 DEF Settled, Returning, Untroubled, Onward, After
    <2>5. UNCHANGED <<Known, Done, DoneWhole>> /\ (Calm => Calm')
      BY <2>1, <2>2, <2>3, WholeStays, CalmBeside, CalmBegin, Underway DEF Known, Onward
    <2>6. InProgress' /\ Known => target' \notin Done
      BY <2>1, <2>2, Underway DEF AcceptBegin, RefuseBegin, vars, InProgress, Installing
    <2>7. phase' \in {phase, "receiving", "failed"}
      BY <2>1 DEF AcceptBegin, RefuseBegin, vars
    <2>8. Installing'
      BY <2>1, <2>2, <2>3, <2>5, <2>6, <2>7, Underway DEF Installing, Onward, Before
    <2> QED
      BY <2>1, <2>4, <2>8, GoesOn DEF After
  <1> QED
    BY <1>2, FailedRun

LEMMA SendGoes ==
    ASSUME HostInv, RunInv, SendChunk
    PROVE  RunInv'
  <1> DEFINE inOrder == sent = received
  <1>1. \/ Failed
        \/ /\ hPc = "send" /\ hPc' = "send" /\ linked
           /\ TakeChunk(Target, inOrder, InFlight, image)
           /\ UNCHANGED <<todo, linked>> /\ Onward
    BY Failing DEF SendChunk, Request, Goes, Onward, AllWell, InFlight
  <1>2. inOrder \in BOOLEAN
    OBVIOUS
  <1> HIDE DEF inOrder
  <1>3. CASE ~Failed
    <2>1. /\ hPc = "send" /\ hPc' = "send" /\ linked
          /\ TakeChunk(Target, inOrder, InFlight, image)
          /\ UNCHANGED <<todo, linked>> /\ Onward
      BY <1>1, <1>3
    <2>2. /\ Target \in Targets /\ InFlight \in 0 .. UpdateMaxChunk
      BY <2>1, Heads, Names, Sizes DEF HostInv, HostTyped, Writing, InFlight
    <2>3. /\ UNCHANGED <<medium, bootBlock, aPc, verifyPending, stray, phase, target, digest>>
          /\ streamHash' = Hash(streamHash, image)
      BY <2>1 DEF TakeChunk
    <2>4. Settled' /\ Returning'
      BY <2>1 DEF Settled, Returning, Untroubled, Onward, After
    <2>5. UNCHANGED <<Known, Done, DoneWhole>> /\ (Calm => Calm')
      BY <1>2, <2>1, <2>2, <2>3, WholeStays, CalmChunk, Underway DEF Known, Onward
    <2>6. streamHash' \in {image, Junk}
      BY <2>3 DEF Hash
    <2>7. Installing'
      BY <2>1, <2>3, <2>5, <2>6, Underway DEF Installing, Onward, Before, InProgress
    <2> QED
      BY <2>1, <2>4, <2>7, GoesOn DEF After
  <1> QED
    BY <1>3, FailedRun

\* A stream is accepted for the image that was promised, and then it is this run's
LEMMA FinishGoes ==
    ASSUME HostInv, RunInv, DeviceKept, FinishComponent
    PROVE  RunInv'
  <1>1. \/ Failed
        \/ /\ hPc = "send" /\ hPc' = "await" /\ linked /\ sent = Pages
           /\ Finish(Target)
           /\ UNCHANGED <<todo, linked>> /\ Onward
    BY Failing DEF FinishComponent, Request, Goes, Onward, AllWell
  <1>2. CASE ~Failed
    <2>1. /\ hPc = "send" /\ hPc' = "await" /\ linked /\ sent = Pages
          /\ Finish(Target)
          /\ UNCHANGED <<todo, linked>> /\ Onward
      BY <1>1, <1>2
    <2>2. Target \in Targets /\ Target' = Target
      BY <2>1, Heads, Names DEF HostInv, HostTyped, Writing, Target
    <2>3. /\ UNCHANGED <<medium, bootBlock, aPc, cPc, target, digest>> /\ cPc = "idle"
          /\ stray' = (stray \/ aPc # "loop" \/ phase = "verifying")
      BY <2>1, Finished
    <2>4. Settled' /\ Returning'
      BY <2>1, <2>3 DEF Settled, Returning, Untroubled, Onward, After
    <2>5. /\ UNCHANGED <<Done, DoneWhole>> /\ (Known' => Known)
          /\ (Known' /\ Calm => Calm')
      <3>1. UNCHANGED <<Done, DoneWhole>> /\ (Known' => Known)
        BY <2>1, <2>3, WholeStays DEF Known, Onward
      <3>2. Known' => aPc = "loop" /\ phase # "verifying"
        BY <2>1, <2>3, Underway DEF Known, Onward, Installing, Before
      <3> QED
        BY <2>1, <2>2, <3>1, <3>2, CalmFinish
    <2>6. ASSUME Known, phase' # "failed"
          PROVE  phase' = "verifying" /\ target = Target /\ digest = image
      <3>1. FinishRefusal(Target) = None /\ phase' = "verifying"
        BY <2>1, <2>6 DEF Finish, Fail
      <3>2. target = Target /\ phase = "receiving" /\ streamHash = digest
        BY <3>1 DEF FinishRefusal, None
      <3>3. streamHash \in {image, Junk} /\ digest \in Images
        BY <2>1, <2>6, <3>2, Sizes, Underway DEF Installing, DeviceKept
      <3> QED
        BY <3>1, <3>2, <3>3, Sizes
    <2>7. InProgress' => InProgress
      BY <2>1, Finished DEF InProgress
    <2>8. Installing'
      BY <2>1, <2>2, <2>3, <2>5, <2>6, <2>7, Underway DEF Installing, Onward, Before
    <2> QED
      BY <2>1, <2>4, <2>8, GoesOn, Underway DEF After
  <1> QED
    BY <1>2, FailedRun

\* What an image makes of the board's memories, once it is whole in them
LEMMA WholeBoots ==
    ASSUME \A t \in Installs : Whole(medium[t], image), "application" \in Installs => bootBlock = image,
           image \in Images, image \notin OldDesign
    PROVE  /\ "eeprom" \in Installs => FirmwareBoots(medium) = image
           /\ AllTargets \subseteq Installs => FpgaBoots(medium, bootBlock) = image
  BY Sizes DEF FirmwareBoots, FpgaBoots, Whole, AllTargets

\* The component the device calls complete is whole, and done
LEMMA AwaitGoes ==
    ASSUME HostInv, RunInv, DeviceKept, AwaitCompletion
    PROVE  RunInv'
  <1>1. \/ Failed
        \/ /\ hPc = "await" /\ linked /\ phase = "complete" /\ Installed
           /\ UNCHANGED vars /\ AllWell
    BY Failing DEF AwaitCompletion
  <1>2. CASE ~Failed
    <2>1. /\ hPc = "await" /\ linked /\ phase = "complete" /\ Installed
          /\ UNCHANGED <<vars, losses, clean>>
      BY <1>1, <1>2 DEF AllWell
    <2>2. /\ todo \in Plans(flow) /\ todo # <<>>
          /\ Target \in Left /\ Components(Tail(todo)) = Left \ {Target}
          /\ Len(todo) > 1 /\ "application" \in Left => "application" \in Components(Tail(todo))
          /\ ~(Len(todo) > 1) => Left = {Target} /\ Tail(todo) = <<>>
          /\ Len(todo) > 1 <=> Tail(todo) # <<>>
          /\ Len(todo) \in 1 .. 3
      BY <2>1, NextLeft, Heads DEF HostInv, HostTyped, Writing
    <2>3. AtEnd /\ cPc = "idle"
      BY <2>1, Underway DEF AtEnd, DeviceKept, Settled
    <2>4. Known => /\ Calm /\ ~verifyPending /\ Whole(medium[Target], image)
                   /\ Target = "application" => bootBlock = image
      BY <2>1, CalmMeans, Underway DEF Installing, Completed, Turns
    <2>5. Known => /\ \A t \in (Done \cup {Target}) : Whole(medium[t], image)
                   /\ "application" \in (Done \cup {Target}) => bootBlock = image
      BY <2>1, <2>4, Underway DEF Installing, DoneWhole
    <2>6. CASE Len(todo) = 1 /\ flow = "bring-up"
      <3>1. /\ hPc' = "idle" /\ UNCHANGED <<flow, carries, image>>
        BY <2>1, <2>6 DEF Installed, Succeeds, End
      <3>2. Installs \subseteq Done \cup {Target} /\ Known
        BY <2>2, <2>6 DEF Done, Known
      <3>3. AllTargets \subseteq Installs /\ carries = AllTargets
        BY <2>1, <2>6, Underway DEF PlanKept, Installs
      <3>4. FpgaBoots(medium, bootBlock) = image
        BY <2>1, <2>5, <3>2, <3>3, WholeBoots, Underway DEF AllTargets
      <3>5. Succeeded'
        BY <2>1, <2>3, <2>5, <3>1, <3>2, <3>3, <3>4, Underway DEF Succeeded, AtEnd, Installs, vars
      <3> QED
        BY <2>1, <3>1, <3>5 DEF RunInv, RunKept
    <2>7. CASE ~(Len(todo) = 1 /\ flow = "bring-up")
      <3>1. /\ todo' = Tail(todo)
            /\ hPc' = IF Len(todo) > 1 THEN "status"
                      ELSE IF Target = "application" THEN "reconfigure" ELSE "reset"
            /\ UNCHANGED <<flow, carries, image, sent, linked, resetDue, cancel, outcome, jumper, runs>>
        BY <2>1, <2>7 DEF Installed, NextComponent
      <3>2. Left' = Left \ {Target} /\ Installs' = Installs /\ Done' = Done \cup {Target}
        BY <2>1, <2>2, <3>1, Underway DEF Left, Installs, Done, PlanKept
      <3>3. PlanKept'
        <4>1. hPc' \in After => flow # "bring-up"
          BY <2>2, <2>7, <3>1 DEF After
        <4>2. PlanKept
          BY <2>1, Underway
        <4>3. todo' # <<>> /\ "application" \in Installs => "application" \in Left'
          BY <2>2, <3>1, <3>2, <4>2 DEF PlanKept, Left
        <4> QED
          BY <3>1, <3>2, <4>1, <4>2, <4>3 DEF PlanKept
      <3>4. Settled'
        BY <2>1, <2>3, <3>1 DEF Settled, AtEnd, vars
      <3>5. Returning'
        <4>1. hPc' = "reset" => "application" \notin carries
          BY <2>1, <2>2, <3>1, Underway DEF PlanKept, Installs
        <4>2. hPc' # "return"
          BY <3>1
        <4> QED
          BY <2>1, <3>1, <4>1, <4>2 DEF Returning
      <3>6. Known' = Known /\ (Known => Calm' /\ DoneWhole')
        BY <2>1, <2>4, <2>5, <3>1, <3>2, CalmBeside DEF Known, DoneWhole, vars
      <3>7. Installing'
        <4>1. /\ hPc' # "send" /\ hPc' # "await" /\ phase' = "complete" /\ aPc' = "loop"
              /\ UNCHANGED verifyPending
          BY <2>1, <2>3, <3>1 DEF AtEnd, vars
        <4>2. flow' # "update" => ~verifyPending
          BY <2>4, <3>1 DEF Known
        <4> QED
          BY <3>6, <4>1, <4>2 DEF Installing, InProgress
      <3>8. Succeeded'
        BY <2>1, <3>1, Underway DEF Succeeded
      <3> QED
        BY <2>1, <3>3, <3>4, <3>5, <3>7, <3>8 DEF RunInv, RunKept
    <2> QED
      BY <2>6, <2>7
  <1> QED
    BY <1>2, FailedRun

LEMMA ReconfigureGoes ==
    ASSUME HostInv, RunInv, Reconfigure
    PROVE  RunInv'
  <1>1. \/ Failed
        \/ /\ hPc = "reconfigure" /\ hPc' = "reset" /\ linked /\ ReconfigureFpga
           /\ UNCHANGED <<todo, linked>> /\ Onward
    BY Failing DEF Reconfigure, Request, Goes, Onward, AllWell
  <1>2. CASE ~Failed
    <2>1. /\ hPc = "reconfigure" /\ hPc' = "reset" /\ linked /\ ReconfigureFpga
          /\ UNCHANGED <<todo, linked>> /\ Onward
      BY <1>1, <1>2
    <2>2. /\ UNCHANGED <<medium, bootBlock, aPc, cPc, phase, verifyPending, target, stray>>
          /\ fpga' = FpgaBoots(medium, bootBlock)
      BY <2>1 DEF ReconfigureFpga
    <2>3. Settled' /\ Returning'
      BY <2>1, <2>2, Underway DEF Settled, AtEnd, Returning, Onward, After
    <2>4. UNCHANGED <<Known, Done, DoneWhole>> /\ (Calm => Calm')
      BY <2>1, <2>2, WholeStays, CalmBeside DEF Known, Onward
    <2>5. Installing'
      BY <2>1, <2>2, <2>4, Underway DEF Installing, Onward, InProgress, Before
    <2> QED
      BY <2>1, <2>3, <2>5, GoesOn DEF After
  <1> QED
    BY <1>2, FailedRun

LEMMA ResetGoes ==
    ASSUME HostInv, RunInv, ResetDown
    PROVE  RunInv'
  <1>1. /\ hPc = "reset" /\ hPc' = "return" /\ linked' = FALSE /\ resetDue' = linked
        /\ UNCHANGED <<vars, flow, carries, image, todo, sent, outcome, jumper, losses, clean>>
    BY DEF ResetDown, AllWell
  <1>2. Settled' /\ Returning'
    BY <1>1, Underway DEF Settled, AtEnd, Returning, After, Untroubled, vars
  <1>3. UNCHANGED <<Known, Done, DoneWhole>> /\ (Calm => Calm')
    BY <1>1, WholeStays, CalmBeside DEF Known, vars
  <1>4. Installing'
    BY <1>1, <1>3, Underway DEF Installing, InProgress, Before, vars
  <1>5. PlanKept' /\ ~outcome'.succeeded
    BY <1>1, Underway DEF PlanKept, Left, Installs, After
  <1> QED
    BY <1>1, <1>2, <1>4, <1>5 DEF RunInv, RunKept, Succeeded

\* What is confirmed is what will start
LEMMA ReturnGoes ==
    ASSUME HostInv, RunInv, WaitForReturn
    PROVE  RunInv'
  <1>1. \/ Failed
        \/ /\ hPc = "return" /\ (resetDue => Loses) /\ (Loses \/ AllWell)
           /\ Confirmed /\ Succeeds(TRUE) /\ UNCHANGED vars
    BY Failing DEF WaitForReturn
  <1>2. CASE ~Failed
    <2>1. /\ hPc = "return" /\ (resetDue => Loses) /\ (Loses \/ AllWell)
          /\ Confirmed /\ Succeeds(TRUE) /\ UNCHANGED vars
      BY <1>1, <1>2
    <2>2. /\ hPc' = "idle" /\ UNCHANGED <<flow, carries, image>> /\ losses' \in Nat
          /\ losses' = 0 => losses = 0 /\ ~resetDue
      BY <2>1 DEF Succeeds, End, Loses, AllWell, RunInv
    <2>3. todo = <<>> /\ Done = Installs /\ flow # "bring-up"
      BY <2>1, ComponentsOf, Underway DEF HostInv, HostTyped, Writing, Done, Left, PlanKept, After
    <2>4. "application" \in carries => FpgaBoots(medium, bootBlock) = image
      BY <2>1, Underway DEF Returning, Confirmed
    <2>5. ASSUME stray' => losses' = 0
          PROVE  \A t \in Installs : Whole(medium[t], image)
      <3>1. CASE ~stray
        BY <2>1, <2>3, <3>1, Underway DEF Known, Installing, DoneWhole
      <3>2. CASE stray
        <4>1. losses = 0 /\ ~resetDue
          BY <2>1, <2>2, <2>5, <3>2 DEF vars
        <4>2. firmware = Restarted
          BY <2>1, <4>1, Underway DEF Returning, Untroubled
        <4>3. "eeprom" \in carries => FirmwareBoots(medium) = image
          BY <2>1, <4>2, Underway, Names DEF Confirmed, Restarted
        <4>4. "eeprom" \in carries => Whole(medium["eeprom"], image)
          BY <2>1, <4>3, Names, Underway DEF FirmwareBoots
        <4>5. "application" \in carries => Whole(medium["application"], image)
          BY <2>4, Names, Underway, Sizes, <2>1 DEF FpgaBoots
        <4>6. Installs \subseteq {"eeprom", "application"} /\ Installs \subseteq carries
          <5>1. carries \subseteq AllTargets
            BY <2>1, Underway DEF PlanKept
          <5> QED
            BY <2>3, <5>1 DEF Installs, AllTargets
        <4> QED
          BY <4>4, <4>5, <4>6
      <3> QED
        BY <3>1, <3>2
    <2>6. AtEnd
      BY <2>1, Underway DEF Settled, After
    <2>7. Succeeded'
      BY <2>1, <2>2, <2>3, <2>4, <2>5, <2>6, Underway DEF Succeeded, AtEnd, Installs, vars
    <2> QED
      BY <2>2, <2>7 DEF RunInv, RunKept
  <1> QED
    BY <1>2, FailedRun

\* A run begins with nothing done, over a device that no request has intruded on, or that
\* is in its boot ROM
LEMMA StartGoes ==
    ASSUME HostInv, RunInv, DeviceKept, NEW f \in {"update", "recover", "bring-up"},
           NEW held \in Bundles, NEW release \in Releases, Start(f, held, release)
    PROVE  RunInv'
  <1>1. /\ hPc = "idle" /\ flow' = f /\ carries' = held /\ UNCHANGED <<losses, vars>>
        /\ \/ hPc' = "idle" /\ ~outcome'.succeeded
           \/ /\ ~Lacks(f, held) /\ todo' = Plan(f, held)
              /\ hPc' = IF f = "update" THEN "status" ELSE "wake"
              /\ linked' = (f = "update") /\ Offered(f) /\ ~outcome'.succeeded
    BY DEF Start, NoOutcome
  <1>2. CASE hPc' = "idle" /\ ~outcome'.succeeded
    BY <1>1, <1>2 DEF RunInv, RunKept, Succeeded
  <1>3. CASE /\ ~Lacks(f, held) /\ todo' = Plan(f, held)
             /\ hPc' = IF f = "update" THEN "status" ELSE "wake"
             /\ linked' = (f = "update") /\ Offered(f) /\ ~outcome'.succeeded
    <2>1. held \in SUBSET AllTargets
      BY HostAssumption DEF AllTargets
    <2>2. Left' = Installs' /\ Done' = {} /\ carries' \subseteq AllTargets
          /\ (flow' = "bring-up" => carries' = AllTargets)
      BY <1>1, <1>3, <2>1, PlannedLeft DEF Left, Installs, Done
    <2>3. PlanKept'
      BY <1>1, <1>3, <2>2 DEF PlanKept, After
    <2>4. Settled' /\ Returning'
      BY <1>1, <1>3 DEF Settled, Returning, After
    <2>5. f # "update" => Resting
      BY <1>3 DEF Offered, DeviceKept
    <2>6. Known' => Calm
      BY <1>1, <2>5, NoneCame, RestIsCalm DEF Known, HostInv, vars
    <2>7. Known' => Calm' /\ DoneWhole'
      BY <1>1, <2>2, <2>6, CalmBeside DEF DoneWhole
    <2>8. Installing'
      BY <1>1, <1>3, <2>2, <2>5, <2>7 DEF Installing, Resting, vars, Before
    <2> QED
      BY <1>1, <1>3, <2>3, <2>4, <2>8 DEF RunInv, RunKept, Succeeded
  <1> QED
    BY <1>1, <1>2, <1>3

-----------------------------------------------------------------------------
(* The device *)

\* The callback and the application thread write the component that is under way, only
LEMMA WritesItsTarget ==
    ASSUME AgentInv, Calm, Callback \/ Application
    PROVE  /\ UNCHANGED <<target, digest>> /\ (InProgress' => InProgress)
           /\ phase = "failed" => phase' = "failed"
           /\ phase \in {"verifying", "writing", "complete", "failed"} =>
                 phase' \in {"verifying", "writing", "complete", "failed"}
           /\ \A t \in AllTargets : ~InProgress \/ t # target => medium'[t] = medium[t]
           /\ ~InProgress \/ target # "application" => bootBlock' = bootBlock
  <1>1. DOMAIN medium = AllTargets /\ Turns /\ target \in AllTargets
    BY CalmMeans, Sizes DEF AgentInv, MediaTyped, AllTargets, StateTyped
  <1>2. CASE Callback
    <2>1. UNCHANGED <<target, digest, bootBlock>> /\ phase' \in {phase, "failed"}
      BY <1>2 DEF Callback, EndChunk, EraseSector, WritePage, Fail
    <2>2. phase = "receiving"
      BY <1>1, <1>2 DEF Turns, Callback, EndChunk, EraseSector, WritePage
    <2>3. \A t \in AllTargets : t # target => medium'[t] = medium[t]
      BY <1>1, <1>2 DEF Callback, EndChunk, EraseSector, WritePage
    <2> QED
      BY <2>1, <2>2, <2>3 DEF InProgress
  <1>3. CASE Application /\ ~\E result \in Results : Commit(result)
    <2>1. UNCHANGED <<target, digest, medium, bootBlock>>
      BY <1>3 DEF Application, PickUp, Compare, ReadBack, Reread, Fail
    <2>2. aPc # "loop" => phase \in {"verifying", "writing"}
      BY <1>1 DEF Turns, AgentInv, WorkTyped
    <2>3. phase' = phase \/ (aPc # "loop" /\ phase' \in {"complete", "writing", "failed"})
      BY <1>3 DEF Application, PickUp, Compare, ReadBack, Reread, Fail
    <2> QED
      BY <2>1, <2>2, <2>3 DEF InProgress
  <1>4. CASE \E result \in Results : Commit(result)
    <2>1. /\ aPc \in {"commit", "program"} /\ UNCHANGED <<target, digest>>
          /\ phase' \in {"failed", phase, "verifying"}
          /\ IF onEpcs THEN UNCHANGED medium
             ELSE /\ UNCHANGED bootBlock
                  /\ \E c \in {Junk, firstPage} : medium' = [medium EXCEPT !["eeprom"][0] = c]
      BY <1>4, Committed DEF RecordLeft
    <2>2. phase = "writing" /\ (onEpcs <=> IsEpcs(target)) /\ target # "factory"
      BY <1>1, <2>1, CalmMeans DEF Turns
    <2>3. \A c : \A t \in AllTargets : t # "eeprom" => [medium EXCEPT !["eeprom"][0] = c][t] = medium[t]
      BY <1>1
    <2> QED
      BY <1>1, <2>1, <2>2, <2>3 DEF InProgress, IsEpcs, AllTargets
  <1> QED
    BY <1>2, <1>3, <1>4 DEF Application

LEMMA AtRestStays ==
    ASSUME AtEnd, Callback \/ Application
    PROVE  /\ AtEnd' /\ UNCHANGED <<medium, bootBlock, aPc>>
  BY DEF AtEnd, Callback, EndChunk, EraseSector, WritePage, Application, PickUp, Compare,
     ReadBack, Commit, Reread

\* What the run has installed is not written, and the device answers for itself
LEMMA DeviceGoes ==
    ASSUME HostInv, RunInv, Device
    PROVE  RunInv'
  <1>1. /\ Callback \/ Application
        /\ UNCHANGED <<hPc, flow, carries, image, todo, sent, linked, resetDue, outcome, jumper, losses>>
        /\ clean' => clean
    BY DEF Device
  <1>2. /\ UNCHANGED <<firmware, fpga, stray, streamHash>>
        /\ phase' = "receiving" => phase = "receiving"
    BY <1>1 DEF Callback, EndChunk, EraseSector, WritePage, Application, PickUp, Compare, ReadBack,
       Commit, Reread, Fail
  <1>3. UNCHANGED <<Known, Done, Installs, Left>> /\ (Untroubled' => Untroubled)
    BY <1>1, <1>2 DEF Known, Done, Installs, Left, Untroubled
  <1>4. Succeeded'
    BY <1>1, <1>2, <1>3, AtRestStays DEF RunInv, Succeeded
  <1>5. CASE hPc = "idle"
    BY <1>1, <1>4, <1>5 DEF RunInv, RunKept
  <1>6. CASE hPc # "idle"
    <2>1. PlanKept'
      BY <1>1, <1>3, <1>6, Underway DEF PlanKept
    <2>2. hPc \in After => UNCHANGED <<medium, bootBlock>> /\ AtEnd'
      BY <1>1, <1>6, AtRestStays, Underway DEF Settled
    <2>3. cPc = "idle" => cPc' = "idle"
      BY <1>1 DEF Callback, EndChunk, EraseSector, WritePage, Application, PickUp, Compare, ReadBack,
         Commit, Reread
    <2>4. Settled'
      BY <1>1, <1>6, <2>2, <2>3, Underway DEF Settled
    <2>5. Returning'
      BY <1>1, <1>2, <1>3, <1>6, <2>2, Underway DEF Returning, Restarted, After
    <2>6. ASSUME Known
          PROVE  Calm' /\ DoneWhole' /\ (InProgress' => target' \notin Done)
      <3>1. Calm'
        BY <1>1, <1>6, <2>6, CalmCallback, CalmApplication, Underway DEF HostInv, Installing
      <3>2. \A t \in Done : medium'[t] = medium[t]
        BY <1>1, <1>6, <2>6, WritesItsTarget, Underway DEF HostInv, Installing, Done, Installs, PlanKept
      <3>3. "application" \in Done => bootBlock' = bootBlock
        BY <1>1, <1>6, <2>6, WritesItsTarget, Underway DEF HostInv, Installing
      <3>4. DoneWhole'
        BY <1>1, <1>3, <1>6, <2>6, <3>2, <3>3, Underway DEF Installing, DoneWhole, Whole
      <3> QED
        BY <1>1, <1>6, <2>6, <3>1, <3>4, WritesItsTarget, Underway DEF HostInv, Installing
    <2>7. ASSUME Known, hPc = "await", linked, phase' # "failed"
          PROVE  /\ phase' \in {"verifying", "writing", "complete"}
                 /\ target' = Target /\ digest' = image
      BY <1>1, <1>6, <2>7, WritesItsTarget, Underway DEF HostInv, Installing
    <2>8. ASSUME flow # "update", hPc \in Before
          PROVE  aPc' = "loop" /\ ~verifyPending' /\ phase' \notin {"verifying", "writing"}
      <3>1. aPc = "loop" /\ ~verifyPending /\ phase \notin {"verifying", "writing"}
        BY <1>6, <2>8, Underway DEF Installing
      <3>2. Callback
        BY <1>1, <3>1 DEF Application, PickUp, Compare, ReadBack, Commit, Reread
      <3> QED
        BY <3>1, <3>2 DEF Callback, EndChunk, EraseSector, WritePage, Fail
    <2>9. Target' = Target
      BY <1>1 DEF Target
    <2>10. Installing'
      BY <1>1, <1>2, <1>3, <1>6, <2>6, <2>7, <2>8, <2>9, Underway DEF Installing
    <2> QED
      BY <1>1, <1>4, <2>1, <2>4, <2>5, <2>10 DEF RunInv, RunKept
  <1> QED
    BY <1>5, <1>6

\* A device that starts anew, in the middle of a run, is at rest and holds what it held
LEMMA RestartGoes ==
    ASSUME HostInv, HostInv', RunInv, NEW i, RestartsInto(i), hPc # "idle", Returning', losses' \in Nat,
           ~linked', UNCHANGED <<hPc, flow, carries, image, todo, outcome>>
    PROVE  RunInv'
  <1>1. /\ Resting' /\ phase' = "idle" /\ aPc' = "loop" /\ ~verifyPending' /\ cPc' = "idle"
        /\ UNCHANGED <<medium, bootBlock, stray>>
    BY ColdStart, DeviceRestarts DEF Resting
  <1>2. Calm'
    <2>1. AgentInv' /\ Resting'
      BY <1>1 DEF HostInv
    <2> QED
      BY <2>1, RestIsCalm, PTL
  <1>3. UNCHANGED <<Known, DoneWhole>>
    BY <1>1, WholeStays DEF Known
  <1>4. PlanKept'
    BY Underway DEF PlanKept, Left, Installs
  <1>5. Settled' /\ Installing'
    BY <1>1, <1>2, <1>3, Underway DEF Settled, AtEnd, Installing, InProgress
  <1>6. ~outcome'.succeeded
    BY Underway
  <1> QED
    BY <1>4, <1>5, <1>6 DEF RunInv, RunKept, Succeeded

\* And one that starts anew afterwards still holds what was installed
LEMMA SuccessStays ==
    ASSUME HostInv, RunInv, hPc = "idle", losses' \in Nat, losses' = 0 => losses = 0,
           UNCHANGED <<hPc, flow, carries, image, outcome, medium, bootBlock, stray>>,
           AtEnd => AtEnd'
    PROVE  RunInv'
  BY DEF RunInv, RunKept, Succeeded, Installs

LEMMA DeviceResetsGoes ==
    ASSUME HostInv, HostInv', RunInv, DeviceResets
    PROVE  RunInv'
  <1>1. /\ resetDue /\ RestartsInto(Restarted) /\ resetDue' = FALSE
        /\ UNCHANGED <<fpga, hPc, flow, carries, image, todo, sent, linked, outcome, jumper, losses, clean>>
    BY DEF DeviceResets
  <1>2. /\ firmware' = Restarted /\ UNCHANGED <<medium, bootBlock, stray>> /\ AtEnd'
    BY <1>1, ColdStart DEF AtEnd
  <1>3. ~linked' /\ hPc \in {"idle", "return"}
    BY <1>1 DEF HostInv, HostTyped
  <1>4. CASE hPc = "idle"
    BY <1>1, <1>2, <1>4, SuccessStays DEF RunInv
  <1>5. CASE hPc = "return"
    <2>1. Returning'
      BY <1>1, <1>2, <1>5, Underway DEF Returning, Restarted
    <2> QED
      BY <1>1, <1>3, <1>5, <2>1, RestartGoes DEF RunInv
  <1> QED
    BY <1>3, <1>4, <1>5

LEMMA PowerCycleGoes ==
    ASSUME HostInv, HostInv', RunInv, PowerCycle
    PROVE  RunInv'
  <1>1. /\ RestartsInto(IF jumper' THEN "bootloader" ELSE FirmwareBoots(medium))
        /\ fpga' = FpgaBoots(medium, bootBlock) /\ linked' = FALSE
        /\ losses' = losses + 1 /\ clean' = FALSE
        /\ UNCHANGED <<hPc, flow, carries, image, todo, outcome>>
    BY DEF PowerCycle, Loses
  <1>2. UNCHANGED <<medium, bootBlock, stray>> /\ AtEnd'
    BY <1>1, ColdStart DEF AtEnd
  <1>3. ~Untroubled' /\ losses' \in Nat /\ losses' # 0
    BY <1>1 DEF Untroubled, RunInv
  <1>4. CASE hPc = "idle"
    BY <1>1, <1>2, <1>3, <1>4, SuccessStays
  <1>5. CASE hPc # "idle"
    <2>1. Returning'
      BY <1>1, <1>2, <1>3 DEF Returning
    <2> QED
      BY <1>1, <1>3, <1>5, <2>1, RestartGoes
  <1> QED
    BY <1>4, <1>5

LEMMA ConfigureGoes ==
    ASSUME HostInv, RunInv, ConfigureFpga
    PROVE  RunInv'
  <1>1. /\ hPc = "idle" /\ losses' \in {losses, losses + 1}
        /\ UNCHANGED <<hPc, flow, carries, image, outcome, medium, bootBlock, stray, aPc, cPc, phase>>
    BY DEF ConfigureFpga, Loses
  <1> QED
    BY <1>1, SuccessStays DEF RunInv, AtEnd

LEMMA CancelGoes ==
    ASSUME HostInv, RunInv, Cancel
    PROVE  RunInv'
  <1>1. /\ hPc # "idle" /\ clean' = FALSE
        /\ UNCHANGED <<vars, hPc, flow, carries, image, todo, sent, linked, resetDue, outcome, jumper, losses>>
    BY DEF Cancel
  <1>2. UNCHANGED <<Known, Done, DoneWhole, Left, Installs>> /\ (Calm => Calm')
    BY <1>1, WholeStays, CalmBeside DEF Known, vars, Left, Installs
  <1>3. PlanKept' /\ Settled'
    BY <1>1, <1>2, Underway DEF PlanKept, Settled, AtEnd, vars
  <1>4. Returning'
    BY <1>1, Underway DEF Returning, Untroubled, Restarted, vars
  <1>5. Installing'
    BY <1>1, <1>2, Underway DEF Installing, InProgress, vars, Target
  <1> QED
    BY <1>1, <1>3, <1>4, <1>5, Underway DEF RunInv, RunKept, Succeeded

LEMMA RunUnmoved ==
    ASSUME RunInv, UNCHANGED allVars
    PROVE  RunInv'
  <1>1. UNCHANGED <<vars, hPc, flow, carries, image, todo, sent, linked, resetDue, outcome, jumper, losses, clean>>
    BY DEF allVars, hostVars
  <1>2. UNCHANGED <<Known, Done, DoneWhole, Left, Installs>> /\ (Calm => Calm')
    BY <1>1, WholeStays, CalmBeside DEF Known, vars, Left, Installs
  <1>3. RunKept'
    BY <1>1, <1>2 DEF RunInv, RunKept, PlanKept, Settled, AtEnd, Returning, Untroubled, Restarted,
       Installing, InProgress, vars, Target
  <1> QED
    BY <1>1, <1>2, <1>3 DEF RunInv, Succeeded, AtEnd, vars

LEMMA DeviceKeptOn ==
    ASSUME HostInv, DeviceKept, [HostNext]_allVars
    PROVE  DeviceKept'
  <1>1. CASE UNCHANGED vars
    BY <1>1, DeviceStands DEF vars
  <1>2. CASE Wake
    <2>1. \/ UNCHANGED vars
          \/ /\ firmware' = image /\ hPc = "wake"
             /\ UNCHANGED <<aPc, cPc, verifyPending, phase, digest, dataCollection>>
      BY <1>2 DEF Wake, RamBoot
    <2>2. hPc = "wake" => image # "bootloader"
      BY Names DEF HostInv, HostTyped
    <2> QED
      BY <1>1, <2>1, <2>2 DEF DeviceKept
  <1>3. CASE ReadInitialStatus \/ AwaitCompletion \/ ResetDown \/ WaitForReturn \/ Cancel \/ Starts
    BY <1>1, <1>3 DEF ReadInitialStatus, Request, AwaitCompletion, ResetDown, WaitForReturn, Cancel,
       Starts, Start
  <1>4. CASE BeginComponent
    <2>1. UNCHANGED vars \/ Commands(Target)
      <3>1. Unlocks \in BOOLEAN /\ image \in Images
        BY <1>4, Names DEF Unlocks, BeginComponent, HostInv, HostTyped
      <3> QED
        BY <1>4, <3>1 DEF BeginComponent, Request, StallBegin, Commands
    <2> QED
      BY <1>1, <2>1, DeviceObeys
  <1>5. CASE SendChunk
    <2>1. UNCHANGED vars \/ Commands(Target)
      <3>1. InFlight \in 1 .. UpdateMaxChunk /\ image \in Images /\ (sent = received) \in BOOLEAN
        BY <1>5, Names, Sizes DEF SendChunk, HostInv, HostTyped, InFlight
      <3>2. \/ UNCHANGED vars
            \/ TakeChunk(Target, sent = received, InFlight, image)
            \/ RefuseData(Target, sent = received, InFlight)
        BY <1>5 DEF SendChunk, Request, InFlight
      <3> QED
        BY <3>1, <3>2 DEF Commands
    <2> QED
      BY <1>1, <2>1, DeviceObeys
  <1>6. CASE FinishComponent
    <2>1. UNCHANGED vars \/ Commands(Target)
      BY <1>6 DEF FinishComponent, Request, Commands
    <2> QED
      BY <1>1, <2>1, DeviceObeys
  <1>7. CASE Reconfigure
    <2>1. \/ UNCHANGED vars
          \/ UNCHANGED <<firmware, aPc, cPc, verifyPending, phase, digest, dataCollection>>
      BY <1>7 DEF Reconfigure, Request, ReconfigureFpga
    <2> QED
      BY <1>1, <2>1, DeviceStands
  <1>8. CASE Device
    BY <1>8, DeviceWorks DEF Device
  <1>9. CASE DeviceResets \/ PowerCycle
    BY <1>9, DeviceRestarts DEF DeviceResets, PowerCycle
  <1>10. CASE ConfigureFpga
    BY <1>10, DeviceStands DEF ConfigureFpga
  <1>11. CASE UNCHANGED allVars
    BY <1>1, <1>11 DEF allVars
  <1> QED
    BY <1>2, <1>3, <1>4, <1>5, <1>6, <1>7, <1>8, <1>9, <1>10, <1>11 DEF HostNext, Host

LEMMA OutcomeBegins == HostInit => DeviceKept /\ RunInv
  <1> SUFFICES ASSUME HostInit PROVE DeviceKept /\ RunInv
    OBVIOUS
  <1>1. hPc = "idle" /\ outcome = NoOutcome /\ losses = 0
    BY DEF HostInit
  <1>2. RunInv
    BY <1>1 DEF RunInv, RunKept, Succeeded, NoOutcome
  <1>3. phase = "idle" /\ aPc = "loop" /\ cPc = "idle" /\ verifyPending = FALSE /\ dataCollection = FALSE
    BY DEF HostInit, BoardIsWorking, BoardIsNew, Init
  <1> QED
    BY <1>2, <1>3 DEF DeviceKept, Resting

LEMMA OutcomeHolds ==
    ASSUME HostInv, DeviceKept, RunInv, [HostNext]_allVars
    PROVE  RunInv'
  <1>1. HostInv'
    BY HostHolds
  <1>2. CASE Host
    BY <1>2, WakeGoes, StatusGoes, BeginGoes, SendGoes, FinishGoes, AwaitGoes, ReconfigureGoes,
       ResetGoes, ReturnGoes DEF Host
  <1>3. CASE Starts
    BY <1>3, StartGoes DEF Starts
  <1> QED
    BY <1>1, <1>2, <1>3, RunUnmoved, DeviceGoes, DeviceResetsGoes, ConfigureGoes, CancelGoes,
       PowerCycleGoes DEF HostNext

LEMMA OutcomeAlways == HostSpec => [](HostInv /\ DeviceKept /\ RunInv)
  <1>1. HostInv /\ DeviceKept /\ RunInv /\ [HostNext]_allVars => (HostInv /\ DeviceKept /\ RunInv)'
    BY HostHolds, DeviceKeptOn, OutcomeHolds
  <1> QED
    BY <1>1, HostBegins, OutcomeBegins, PTL DEF HostSpec

LEMMA PlanIsInstalled ==
    ASSUME NEW f, NEW held, f = "bring-up" => held = AllTargets
    PROVE  \A i \in DOMAIN Plan(f, held) : Plan(f, held)[i] \in {t \in held : t = "factory" => f = "bring-up"}
  <1>1. CASE f = "bring-up"
    BY <1>1, ComponentsOf DEF Plan, AllThree, AllTargets, Components
  <1>2. CASE f # "bring-up"
    <2>2. /\ IfHeld("eeprom", held) = IF "eeprom" \in held THEN <<"eeprom">> ELSE <<>>
          /\ IfHeld("application", held) = IF "application" \in held THEN <<"application">> ELSE <<>>
          /\ Plan(f, held) = IfHeld("eeprom", held) \o IfHeld("application", held)
      BY <1>2 DEF Plan, IfHeld
    <2>3. /\ <<>> \o <<>> = <<>> /\ <<"eeprom">> \o <<>> = <<"eeprom">>
          /\ <<>> \o <<"application">> = <<"application">>
          /\ <<"eeprom">> \o <<"application">> = <<"eeprom", "application">>
      BY TwoInARow
    <2>4. Components(Plan(f, held)) \subseteq {t \in held : t # "factory"}
      BY <2>2, <2>3, ComponentsOf
    <2> QED
      BY <2>4 DEF Components
  <1> QED
    BY <1>1, <1>2

LEMMA WholeAtTheEnd == HostInv /\ RunInv => SuccessIsWhole
  <1> SUFFICES ASSUME HostInv, RunInv, outcome.succeeded, stray => losses = 0
               PROVE  /\ \A i \in DOMAIN Plan(flow, carries) : Whole(medium[Plan(flow, carries)[i]], image)
                      /\ "eeprom" \in carries => FirmwareBoots(medium) = image
                      /\ "application" \in carries => FpgaBoots(medium, bootBlock) \in {image, "dark"}
    BY DEF SuccessIsWhole
  <1>1. /\ flow = "bring-up" => carries = AllTargets
        /\ image \in Releases
        /\ \A t \in Installs : Whole(medium[t], image)
        /\ "application" \in carries => FpgaBoots(medium, bootBlock) = image
    BY DEF RunInv, Succeeded
  <1>2. \A i \in DOMAIN Plan(flow, carries) : Plan(flow, carries)[i] \in Installs
    BY <1>1, PlanIsInstalled DEF Installs
  <1>3. "eeprom" \in carries => Whole(medium["eeprom"], image)
    BY <1>1 DEF Installs
  <1>4. "eeprom" \in carries => FirmwareBoots(medium) = image
    BY <1>1, <1>3, Names, Sizes DEF FirmwareBoots, Whole
  <1> QED
    BY <1>1, <1>2, <1>4

-----------------------------------------------------------------------------
(* A run that nothing stands in the way of *)

\* What this run has put on the medium
InPlace(pages) ==
    \A p \in Page : p < pages /\ (IsEpcs(target) \/ p > 0) => medium[target][p] = image

(***************************************************************************)
(* Flash only clears bits: the pages that a chunk will reach before it     *)
(* enters another sector were erased when it entered this one.             *)
(***************************************************************************)
Entered == IF cPc = "program" THEN Reached + 1 ELSE Reached
Erased ==
    \A p \in Page :
        /\ IsEpcs(target) /\ p >= Reached
        /\ \A q \in Entered .. p : q % SectorPages # 0
        => medium[target][p] = Blank

CleanAgent ==
    /\ target = Target /\ digest = image /\ length = Pages
    /\ InPlace(Reached)
    /\ target = "eeprom" /\ Reached > 0 => firstPage = image

\* The stream is this run's, from its first page
CleanSend ==
    /\ CleanAgent /\ Erased
    /\ phase = "receiving" /\ aPc = "loop" /\ ~verifyPending
    /\ sent = received + chunk.left
    /\ streamHash = IF sent = 0 THEN Blank ELSE image
    /\ cPc # "idle" => chunk.content = image /\ (IsEpcs(target) \/ Reached > 0)

\* And what is read back of it is the image
CleanAwait ==
    /\ CleanAgent /\ received = Pages
    /\ aPc # "loop" => ~verifyPending /\ (onEpcs <=> IsEpcs(target))
    /\ aPc = "loop" =>
        \/ phase = "verifying" /\ verifyPending
        \/ /\ phase = "complete" /\ ~verifyPending
           /\ Whole(medium[target], image) /\ (target = "application" => bootBlock = image)
    /\ aPc = "read" =>
        /\ phase = "verifying" /\ (~onEpcs => address > 0)
        /\ mediumHash = IF onEpcs /\ address = 0 THEN Blank ELSE image
    /\ aPc \in {"commit", "program", "reread"} => mediumHash = image /\ target # "factory"
    /\ aPc \in {"commit", "program"} => phase = "writing"
    /\ aPc = "program" => onEpcs /\ bootBlock = Blank
    /\ aPc = "reread" =>
        phase = "verifying" /\ IF onEpcs THEN bootBlock = image ELSE medium["eeprom"][0] = image

\* What the bundle does not carry starts as it did
RestKept ==
    flow # "bring-up" =>
    /\ ~jumper
    /\ "eeprom" \notin carries => FirmwareBoots(medium) # "bootloader"
    /\ "application" \in carries => \E i \in Images \ OldDesign : Whole(medium["factory"], i)

CleanRun ==
    /\ ~cancel /\ DoneWhole /\ RestKept
    /\ hPc = "wake" => firmware = "bootloader"
    /\ hPc \in {"wake", "status", "begin"} =>
        cPc = "idle" /\ aPc = "loop" /\ ~verifyPending /\ ~InProgress
    /\ "application" \in carries /\ hPc \notin {"reset", "return"} => Bridged
    /\ hPc = "reconfigure" => "application" \in carries
    /\ hPc = "send" => CleanSend
    /\ hPc = "await" => CleanAwait

CleanInv ==
    /\ faults \in Nat
    /\ clean => IF hPc = "idle" THEN outcome.succeeded ELSE CleanRun

OutcomeInv == HostInv /\ DeviceKept /\ RunInv

LEMMA CleanUnderway ==
    ASSUME OutcomeInv, CleanInv, clean, hPc # "idle"
    PROVE  /\ CleanRun /\ PlanKept /\ Settled /\ Installing /\ Returning
           /\ image \in Images /\ image \notin OldDesign /\ image \notin {"bootloader", "factory", "dark"}
           /\ dataCollection = FALSE
           /\ hPc \in {"status", "begin", "send", "await", "reconfigure", "reset"} => linked
  BY Underway, Names DEF OutcomeInv, CleanInv, Untroubled, Returning, DeviceKept

\* What is asked for next is a component that the bundle carries and that is not done, and
\* the gateware gives a way to it
LEMMA Reachable ==
    ASSUME OutcomeInv, CleanInv, clean, hPc \in Writing
    PROVE  /\ Target \in Targets /\ Target \in AllTargets /\ Target \notin Done
           /\ IsEpcs(Target) => Bridged
           /\ flow # "bring-up" => Target # "factory" /\ Target \in carries
  <1>1. hPc # "idle" /\ hPc \notin {"reset", "return"} /\ todo # <<>> /\ todo \in Plans(flow)
    BY DEF OutcomeInv, HostInv, HostTyped, Writing
  <1>2. Target \in Left /\ Left \subseteq Installs /\ (flow = "bring-up" => carries = AllTargets)
    BY <1>1, NextLeft, CleanUnderway DEF PlanKept
  <1>3. Target \in AllTargets /\ AllTargets = Targets
    BY <1>1, NextLeft, Names DEF AllTargets
  <1>4. IsEpcs(Target) => "application" \in carries
    BY <1>2, <1>3 DEF Installs, AllTargets, IsEpcs
  <1> QED
    BY <1>1, <1>2, <1>3, <1>4, CleanUnderway DEF CleanRun, Done, Installs

\* What a step of the host leaves of a clean run, as long as it writes nothing
LEMMA CleanStays ==
    ASSUME CleanRun, UNCHANGED <<flow, carries, image, todo, medium, bootBlock, jumper, cancel>>
    PROVE  ~cancel' /\ DoneWhole' /\ RestKept'
  BY WholeStays DEF CleanRun, RestKept, FirmwareBoots, Whole

\* A run that is no longer clean promises nothing
LEMMA NoLonger == CleanInv /\ UNCHANGED faults /\ clean' = FALSE => CleanInv'
  BY DEF CleanInv

LEMMA StartIsClean ==
    ASSUME OutcomeInv, CleanInv, NEW f \in {"update", "recover", "bring-up"},
           NEW held \in Bundles, NEW release \in Releases, Start(f, held, release)
    PROVE  CleanInv'
  <1>1. /\ flow' = f /\ carries' = held /\ image' = release /\ cancel' = FALSE
        /\ UNCHANGED <<vars, jumper>>
        /\ \/ clean' = FALSE
           \/ /\ ~Lacks(f, held) /\ todo' = Plan(f, held)
              /\ hPc' = IF f = "update" THEN "status" ELSE "wake"
              /\ Offered(f) /\ clean' = Promising(f, held)
    BY DEF Start
  <1>2. CASE clean' = FALSE
    BY <1>1, <1>2, NoLonger DEF vars
  <1>3. CASE clean' # FALSE
    <2>1. /\ ~Lacks(f, held) /\ todo' = Plan(f, held)
          /\ hPc' = IF f = "update" THEN "status" ELSE "wake"
          /\ Offered(f) /\ clean' = Promising(f, held)
      BY <1>1, <1>3
    <2>2. Done' = {}
      <3>1. held \in SUBSET AllTargets
        BY HostAssumption DEF AllTargets
      <3> QED
        BY <1>1, <2>1, <3>1, PlannedLeft DEF Left, Installs, Done
    <2>3. ASSUME Promising(f, held) PROVE CleanRun'
      <3>1. ~cancel' /\ DoneWhole'
        BY <1>1, <2>2 DEF DoneWhole
      <3>2. RestKept'
        <4>1. ASSUME f # "bring-up", "application" \in held
              PROVE  \E i \in Images \ OldDesign : Whole(medium["factory"], i)
          <5>1. FpgaBoots(medium, bootBlock) \notin OldDesign \cup {"dark"}
            BY <2>3, <4>1 DEF Promising
          <5> QED
            BY <5>1, Sizes DEF FpgaBoots, Whole
        <4> QED
          BY <1>1, <2>3, <4>1 DEF RestKept, Promising, vars, FirmwareBoots, Whole
      <3>3. /\ hPc' = "wake" => firmware' = "bootloader"
            /\ cPc' = "idle" /\ aPc' = "loop" /\ ~verifyPending' /\ ~InProgress'
            /\ "application" \in held => Bridged'
        BY <1>1, <2>1, <2>3 DEF Promising, Offered, vars, InProgress, Bridged
      <3>4. hPc' \notin {"reconfigure", "send", "await"}
        BY <2>1
      <3> QED
        BY <1>1, <3>1, <3>2, <3>3, <3>4 DEF CleanRun
    <2> QED
      BY <1>1, <2>1, <2>3 DEF CleanInv, vars
  <1> QED
    BY <1>2, <1>3

LEMMA WakeIsClean ==
    ASSUME OutcomeInv, CleanInv, Wake
    PROVE  CleanInv'
  <1>1. hPc = "wake" /\ UNCHANGED faults /\ (clean' = FALSE \/ clean' = clean)
    BY DEF Wake, RamBoot, vars, Loses, AllWell
  <1>2. CASE clean /\ clean'
    <2>1. CleanRun
      BY <1>1, <1>2, CleanUnderway
    <2>2. /\ RamBoot /\ hPc' = "status"
          /\ UNCHANGED <<flow, carries, image, todo, jumper, cancel>>
      BY <1>1, <1>2, <2>1 DEF Wake, CleanRun, Loses
    <2>3. UNCHANGED <<medium, bootBlock, cPc, aPc, verifyPending, phase, fpga>>
      BY <2>2 DEF RamBoot
    <2> QED
      BY <1>1, <2>1, <2>2, <2>3, CleanStays DEF CleanInv, CleanRun, InProgress, Bridged
  <1> QED
    BY <1>1, <1>2, NoLonger DEF CleanInv

LEMMA StatusIsClean ==
    ASSUME OutcomeInv, CleanInv, ReadInitialStatus
    PROVE  CleanInv'
  <1>1. hPc = "status" /\ UNCHANGED vars /\ (clean' = FALSE \/ clean' = clean)
    BY DEF ReadInitialStatus, Request, Loses, AllWell
  <1>2. CASE clean /\ clean'
    <2>1. CleanRun /\ linked
      BY <1>1, <1>2, CleanUnderway
    <2>2. /\ hPc' = "begin" /\ UNCHANGED <<flow, carries, image, todo, jumper, cancel>>
      BY <1>1, <1>2, <2>1 DEF ReadInitialStatus, Request, Loses, Goes
    <2>3. UNCHANGED <<medium, bootBlock, cPc, aPc, verifyPending, phase, fpga, faults>>
      BY <1>1 DEF vars
    <2> QED
      BY <1>1, <2>1, <2>2, <2>3, CleanStays DEF CleanInv, CleanRun, InProgress, Bridged
  <1> QED
    BY <1>1, <1>2, NoLonger DEF CleanInv, vars

\* A device at rest accepts
LEMMA BeginIsClean ==
    ASSUME OutcomeInv, CleanInv, BeginComponent
    PROVE  CleanInv'
  <1>1. /\ hPc = "begin" /\ UNCHANGED faults /\ (clean' = FALSE \/ clean' = clean)
    BY DEF BeginComponent, Request, AcceptBegin, RefuseBegin, StallBegin, vars, Loses, AllWell
  <1>2. CASE clean /\ clean'
    <2>1. CleanRun /\ linked /\ dataCollection = FALSE
      BY <1>1, <1>2, CleanUnderway
    <2>2. cPc = "idle" /\ aPc = "loop" /\ ~verifyPending /\ ~InProgress
      BY <1>1, <2>1 DEF CleanRun
    <2>3. BeginRefusal(Target, TRUE, Unlocks) = None
      BY <1>1, <1>2, <2>1, <2>2, Reachable DEF BeginRefusal, Unlocks, Writing
    <2>4. /\ AcceptBegin(Target, TRUE, Unlocks, image)
          /\ hPc' = "send" /\ UNCHANGED <<flow, carries, image, todo, sent, jumper, cancel>>
      BY <1>1, <1>2, <2>1, <2>3 DEF BeginComponent, Request, RefuseBegin, StallBegin, Loses, Goes
    <2>5. /\ phase' = "receiving" /\ target' = Target /\ length' = Pages /\ digest' = image
          /\ received' = 0 /\ streamHash' = Blank
          /\ UNCHANGED <<verifyPending, cPc, chunk, aPc, medium, bootBlock, fpga>>
      BY <2>4 DEF AcceptBegin
    <2>6. chunk' = NoChunk /\ chunk'.left = 0 /\ Reached' = 0 /\ sent' = 0 /\ cPc' = "idle"
      BY <1>1, <2>2, <2>4, <2>5 DEF OutcomeInv, HostInv, AgentInv, Registers, HostTyped, NoChunk, Reached
    <2>7. CleanAgent'
      BY <2>4, <2>5, <2>6, Sizes DEF CleanAgent, InPlace, Target
    <2>8. Erased'
      <3>1. 0 % SectorPages = 0
        BY Sizes
      <3>2. ASSUME NEW p \in Page PROVE 0 \in Entered' .. p
        BY <2>6, Sizes DEF Entered
      <3> QED
        BY <3>1, <3>2 DEF Erased
    <2>9. CleanSend'
      BY <2>2, <2>5, <2>6, <2>7, <2>8 DEF CleanSend
    <2> QED
      BY <1>1, <2>1, <2>4, <2>5, <2>9, CleanStays DEF CleanInv, CleanRun, Bridged
  <1> QED
    BY <1>1, <1>2, NoLonger DEF CleanInv

\* The next chunk follows the last, and the device takes it
LEMMA SendIsClean ==
    ASSUME OutcomeInv, CleanInv, SendChunk
    PROVE  CleanInv'
  <1>1. /\ hPc = "send" /\ sent < Pages /\ UNCHANGED faults /\ (clean' = FALSE \/ clean' = clean)
    BY DEF SendChunk, Request, TakeChunk, RefuseData, vars, Loses, AllWell
  <1>2. CASE clean /\ clean'
    <2>1. CleanRun /\ linked /\ CleanSend /\ CleanAgent
      BY <1>1, <1>2, CleanUnderway DEF CleanRun, CleanSend
    <2>2. /\ received \in 0 .. Pages /\ sent \in 0 .. Pages /\ (cPc = "idle" => chunk = NoChunk)
          /\ chunk \in [left : Nat, done : Nat, content : Content]
      BY DEF OutcomeInv, HostInv, AgentInv, StateTyped, HostTyped, Registers
    <2>3. InFlight \in 1 .. UpdateMaxChunk /\ InFlight <= Pages - sent
      BY <1>1, <2>2, Sizes DEF InFlight
    <2>4. ASSUME cPc = "idle"
          PROVE  sent = received /\ ChunkRefusal(Target, sent = received, InFlight) = None
      <3>1. sent = received
        BY <2>1, <2>2, <2>4 DEF CleanSend, NoChunk
      <3> QED
        BY <2>1, <2>2, <2>3, <3>1, Sizes DEF ChunkRefusal, CleanSend, CleanAgent
    <2>5. /\ TakeChunk(Target, sent = received, InFlight, image)
          /\ hPc' = "send" /\ sent' = sent + InFlight /\ linked'
          /\ UNCHANGED <<flow, carries, image, todo, jumper, cancel>>
      <3>1. ~RefuseData(Target, sent = received, InFlight)
        BY <2>4 DEF RefuseData, Asked
      <3> QED
        BY <1>1, <1>2, <2>1, <3>1 DEF SendChunk, Request, Loses, Goes, InFlight, CleanRun
    <2>6. /\ cPc = "idle" /\ sent = received /\ cPc' = "chunk"
          /\ streamHash' = Hash(streamHash, image)
          /\ UNCHANGED <<stateVars, verifyPending, aPc, medium, bootBlock, fpga>>
      BY <2>4, <2>5 DEF TakeChunk, Asked
    <2>7. /\ target = "eeprom" /\ received = 0 =>
                firstPage' = image /\ chunk' = [left |-> InFlight, done |-> 1, content |-> image]
          /\ ~(target = "eeprom" /\ received = 0) =>
                firstPage' = firstPage /\ chunk' = [left |-> InFlight, done |-> 0, content |-> image]
      BY <2>5 DEF TakeChunk
    <2>8. /\ chunk'.left = InFlight /\ chunk'.content = image
          /\ chunk'.done = IF target = "eeprom" /\ received = 0 THEN 1 ELSE 0
      BY <2>7
    <2>9. Reached = received /\ Reached' = IF target = "eeprom" /\ received = 0 THEN 1 ELSE received
      BY <2>2, <2>6, <2>8, Sizes DEF Reached, NoChunk
    <2>10. CleanAgent'
      <3>1. InPlace(Reached)'
        BY <2>1, <2>5, <2>6, <2>9, Sizes DEF CleanAgent, InPlace, IsEpcs
      <3> QED
        BY <2>1, <2>2, <2>5, <2>6, <2>7, <2>9, <3>1 DEF CleanAgent, Target
    <2>11. Erased'
      BY <2>1, <2>6, <2>9 DEF CleanSend, Erased, Entered, IsEpcs
    <2>12. streamHash' = image /\ sent' # 0 /\ sent' = received' + chunk'.left
      BY <2>1, <2>2, <2>3, <2>5, <2>6, <2>8, Sizes DEF CleanSend, Hash
    <2>13. (IsEpcs(target) \/ Reached > 0)'
      BY <2>1, <2>2, <2>6, <2>9, Sizes DEF CleanAgent, IsEpcs
    <2>14. CleanSend'
      BY <2>1, <2>5, <2>6, <2>8, <2>10, <2>11, <2>12, <2>13 DEF CleanSend
    <2> QED
      BY <1>1, <2>1, <2>5, <2>6, <2>14, CleanStays DEF CleanInv, CleanRun, Bridged
  <1> QED
    BY <1>1, <1>2, NoLonger DEF CleanInv

\* The stream is whole, and its digest is the one that was promised
LEMMA FinishIsClean ==
    ASSUME OutcomeInv, CleanInv, FinishComponent
    PROVE  CleanInv'
  <1>1. /\ hPc = "send" /\ sent = Pages /\ UNCHANGED faults /\ (clean' = FALSE \/ clean' = clean)
    BY DEF FinishComponent, Request, Finish, vars, Loses, AllWell
  <1>2. CASE clean /\ clean'
    <2>1. CleanRun /\ linked /\ CleanSend /\ CleanAgent
      BY <1>1, <1>2, CleanUnderway DEF CleanRun, CleanSend
    <2>2. /\ Finish(Target) /\ hPc' = "await" /\ UNCHANGED <<flow, carries, image, todo, jumper, cancel>>
      BY <1>1, <1>2, <2>1 DEF FinishComponent, Request, Loses, Goes
    <2>3. cPc = "idle" /\ received = Pages /\ chunk.left = 0 /\ received \in 0 .. Pages
      BY <1>1, <2>1, <2>2 DEF Finish, Asked, OutcomeInv, HostInv, AgentInv, StateTyped, Registers,
         CleanSend, NoChunk
    <2>4. FinishRefusal(Target) = None
      <3>1. /\ target = Target /\ phase = "receiving" /\ received = length
            /\ streamHash = digest
        BY <1>1, <2>1, <2>3, Sizes DEF CleanSend, CleanAgent
      <3> QED
        BY <3>1 DEF FinishRefusal
    <2>5. /\ phase' = "verifying" /\ verifyPending' = TRUE
          /\ UNCHANGED <<target, length, digest, received, firstPage, cPc, chunk, aPc, medium,
                         bootBlock, fpga>>
      BY <2>2, <2>4 DEF Finish
    <2>6. CleanAgent'
      BY <2>1, <2>2, <2>5 DEF CleanAgent, InPlace, Target, Reached, IsEpcs
    <2>7. CleanAwait'
      BY <2>1, <2>3, <2>5, <2>6 DEF CleanAwait, CleanSend
    <2> QED
      BY <1>1, <2>1, <2>2, <2>5, <2>7, CleanStays DEF CleanInv, CleanRun, Bridged
  <1> QED
    BY <1>1, <1>2, NoLonger DEF CleanInv

LEMMA AwaitIsClean ==
    ASSUME OutcomeInv, CleanInv, AwaitCompletion
    PROVE  CleanInv'
  <1>1. /\ hPc = "await" /\ UNCHANGED vars /\ (clean' = FALSE \/ clean' = clean)
    BY DEF AwaitCompletion, Loses, AllWell
  <1>2. CASE clean /\ clean'
    <2>1. CleanRun /\ linked /\ CleanAwait /\ CleanAgent /\ PlanKept /\ Settled
      BY <1>1, <1>2, CleanUnderway DEF CleanRun, CleanAwait
    <2>2. phase # "failed"
      BY <2>1 DEF CleanAwait, OutcomeInv, HostInv, AgentInv, WorkTyped
    <2>3. phase = "complete" /\ Installed
      BY <1>1, <1>2, <2>1, <2>2 DEF AwaitCompletion, Loses, CleanRun
    <2>4. aPc = "loop" /\ ~verifyPending /\ cPc = "idle" /\ ~InProgress
      BY <1>1, <2>1, <2>3 DEF CleanAwait, Settled, OutcomeInv, DeviceKept, InProgress
    <2>5. Whole(medium[Target], image) /\ (Target = "application" => bootBlock = image)
      BY <2>1, <2>3, <2>4 DEF CleanAwait, CleanAgent
    <2>6. CASE Len(todo) = 1 /\ flow = "bring-up"
      BY <1>1, <2>3, <2>6 DEF Installed, Succeeds, End, CleanInv, vars
    <2>7. CASE ~(Len(todo) = 1 /\ flow = "bring-up")
      <3>1. /\ todo' = Tail(todo)
            /\ hPc' = IF Len(todo) > 1 THEN "status"
                      ELSE IF Target = "application" THEN "reconfigure" ELSE "reset"
            /\ UNCHANGED <<flow, carries, image, cancel, jumper>>
        BY <2>3, <2>7 DEF Installed, NextComponent
      <3>2. todo \in Plans(flow) /\ todo # <<>> /\ Target \in Left
            /\ Components(Tail(todo)) = Left \ {Target}
        BY <1>1, NextLeft DEF OutcomeInv, HostInv, HostTyped, Writing
      <3>3. Done' = Done \cup {Target} /\ Target \in carries
        BY <2>1, <3>1, <3>2 DEF Left, Installs, Done, PlanKept
      <3>4. DoneWhole'
        BY <1>1, <2>1, <2>5, <3>1, <3>3 DEF DoneWhole, CleanRun, vars
      <3>5. RestKept' /\ ~cancel'
        BY <1>1, <2>1, <3>1 DEF RestKept, CleanRun, vars, FirmwareBoots, Whole
      <3>6. CleanRun'
        BY <1>1, <2>1, <2>4, <3>1, <3>3, <3>4, <3>5 DEF CleanRun, vars, InProgress, Bridged
      <3> QED
        BY <1>1, <3>1, <3>6 DEF CleanInv, vars
    <2> QED
      BY <2>6, <2>7
  <1> QED
    BY <1>1, <1>2, NoLonger DEF CleanInv, vars

LEMMA ReconfigureIsClean ==
    ASSUME OutcomeInv, CleanInv, Reconfigure
    PROVE  CleanInv'
  <1>1. /\ hPc = "reconfigure" /\ UNCHANGED faults /\ (clean' = FALSE \/ clean' = clean)
    BY DEF Reconfigure, Request, ReconfigureFpga, vars, Loses, AllWell
  <1>2. CASE clean /\ clean'
    <2>1. CleanRun /\ linked /\ ~InProgress /\ Bridged
      BY <1>1, <1>2, CleanUnderway DEF CleanRun, Settled, AtEnd, After, InProgress
    <2>2. /\ ReconfigureFpga /\ hPc' = "reset" /\ UNCHANGED <<flow, carries, image, todo, jumper, cancel>>
      BY <1>1, <1>2, <2>1 DEF Reconfigure, Request, Loses, Goes
    <2>3. UNCHANGED <<medium, bootBlock>>
      BY <2>2 DEF ReconfigureFpga
    <2> QED
      BY <1>1, <2>1, <2>2, <2>3, CleanStays DEF CleanInv, CleanRun
  <1> QED
    BY <1>1, <1>2, NoLonger DEF CleanInv

LEMMA ResetIsClean ==
    ASSUME OutcomeInv, CleanInv, ResetDown
    PROVE  CleanInv'
  <1>1. /\ hPc = "reset" /\ hPc' = "return"
        /\ UNCHANGED <<vars, clean, flow, carries, image, todo, jumper, cancel>>
    BY DEF ResetDown, AllWell
  <1>2. ASSUME clean PROVE CleanRun'
    <2>1. CleanRun
      BY <1>1, <1>2, CleanUnderway
    <2> QED
      BY <1>1, <2>1, CleanStays DEF CleanRun, vars
  <1> QED
    BY <1>1, <1>2 DEF CleanInv, vars

\* What was installed is what has started, and the rest starts as it did
LEMMA ReturnIsClean ==
    ASSUME OutcomeInv, CleanInv, WaitForReturn
    PROVE  CleanInv'
  <1>1. /\ hPc = "return" /\ hPc' = "idle" /\ UNCHANGED vars /\ (clean' = FALSE \/ clean' = clean)
    BY DEF WaitForReturn, Succeeds, Fails, End, Loses, AllWell
  <1>2. CASE clean /\ clean'
    <2>1. CleanRun /\ PlanKept /\ Returning /\ image \in Images /\ image \notin OldDesign
          /\ image # "bootloader"
      BY <1>1, <1>2, CleanUnderway
    <2>2. flow # "bring-up" /\ todo = <<>> /\ Done = Installs
      BY <1>1, <2>1, ComponentsOf DEF OutcomeInv, HostInv, HostTyped, Writing, Done, Left, PlanKept, After
    <2>3. /\ ~jumper /\ (\A t \in Installs : Whole(medium[t], image))
          /\ "application" \in Installs => bootBlock = image
          /\ "eeprom" \in carries => "eeprom" \in Installs
          /\ "application" \in carries => "application" \in Installs
      BY <2>1, <2>2 DEF CleanRun, RestKept, DoneWhole, Installs
    <2>4. /\ FirmwareBoots(medium) # "bootloader"
          /\ "eeprom" \in carries => FirmwareBoots(medium) = image
      BY <2>1, <2>2, <2>3, WholeBoots DEF CleanRun, RestKept
    <2>5. "application" \in carries => FpgaBoots(medium, bootBlock) = image
      <3>1. SUFFICES ASSUME "application" \in carries PROVE FpgaBoots(medium, bootBlock) = image
        OBVIOUS
      <3>2. PICK i \in Images \ OldDesign : Whole(medium["factory"], i)
        BY <2>1, <2>2, <3>1 DEF CleanRun, RestKept
      <3>3. medium["factory"][0] = i
        BY <3>2, Sizes DEF Whole
      <3>4. bootBlock = image /\ Whole(medium["application"], bootBlock)
        BY <2>3, <3>1
      <3> QED
        BY <2>1, <3>2, <3>3, <3>4 DEF FpgaBoots
    <2>6. ~resetDue => firmware = FirmwareBoots(medium)
      BY <1>1, <1>2, <2>1, <2>3 DEF Returning, Untroubled, Restarted
    <2>7. ~resetDue => Confirmed /\ firmware # "bootloader"
      BY <1>1, <2>1, <2>4, <2>5, <2>6 DEF Returning, Confirmed
    <2>8. Succeeds(TRUE)
      BY <1>2, <2>7 DEF WaitForReturn, Loses
    <2> QED
      BY <1>1, <2>8 DEF Succeeds, End, CleanInv, vars
  <1> QED
    BY <1>1, <1>2, NoLonger DEF CleanInv, vars

\* A medium that has gone wrong is no longer unheard of
LEMMA DoesWell ==
    ASSUME faults \in Nat, UNCHANGED faults, NEW result, MediumDoes(result)
    PROVE  result = "ok"
  BY DEF MediumDoes

\* A multiple, and the next
LEMMA Multiple == ASSUME NEW m \in Nat \ {0}, NEW k \in Nat PROVE (m * k) % m = 0
  OBVIOUS

LEMMA NextMultiple ==
    ASSUME NEW m \in Nat \ {0}, NEW n \in Nat, n % m = 0
    PROVE  (n + m) % m = 0
  <1>1. PICK k \in Nat : n = m * k
    OBVIOUS
  <1>2. n + m = m * (k + 1) /\ k + 1 \in Nat
    BY <1>1
  <1> QED
    BY <1>2, Multiple

\* The callback erases a sector as it enters it, and fills it
LEMMA CallbackIsClean ==
    ASSUME OutcomeInv, CleanSend, faults \in Nat, Callback, UNCHANGED <<faults, image, todo, sent>>
    PROVE  /\ CleanSend'
           /\ \A t \in AllTargets : t # target => medium'[t] = medium[t]
           /\ UNCHANGED <<target, bootBlock, fpga>>
  <1>1. /\ CleanAgent /\ Erased /\ phase = "receiving" /\ aPc = "loop" /\ ~verifyPending
        /\ sent = received + chunk.left /\ streamHash = IF sent = 0 THEN Blank ELSE image
    BY DEF CleanSend
  <1>2. cPc # "idle" /\ chunk.content = image /\ (IsEpcs(target) \/ Reached > 0)
    BY DEF CleanSend, Callback, EndChunk, EraseSector, WritePage
  <1>3. /\ received \in 0 .. Pages /\ chunk \in [left : Nat, done : Nat, content : Content]
        /\ chunk.done \in 0 .. chunk.left /\ Reached = received + chunk.done /\ Reached \in Nat
        /\ cPc \in {"chunk", "program"} /\ target \in AllTargets
        /\ medium \in [AllTargets -> [Page -> Content]]
        /\ received + chunk.left <= length
    BY <1>2, Sizes DEF OutcomeInv, HostInv, AgentInv, StateTyped, WorkTyped, MediaTyped, Registers,
       Reached, AllTargets
  <1>4. UNCHANGED <<target, length, digest, streamHash, firstPage, verifyPending, aPc, bootBlock, fpga>>
    BY DEF Callback, EndChunk, EraseSector, WritePage, Fail
  <1>5. Target' = Target
    BY DEF Target
  <1>6. CASE EndChunk
    <2>1. /\ received' = received + chunk.left /\ chunk.done = chunk.left
          /\ cPc = "chunk" /\ cPc' = "idle" /\ chunk' = NoChunk /\ UNCHANGED <<phase, medium>>
      BY <1>3, <1>6 DEF EndChunk
    <2>2. chunk'.left = 0 /\ chunk'.done = 0
      BY <2>1 DEF NoChunk
    <2>3. Reached' = Reached /\ Entered' = Entered
      BY <1>3, <2>1, <2>2 DEF Reached, Entered
    <2>4. CleanAgent'
      BY <1>1, <1>4, <1>5, <2>1, <2>3 DEF CleanAgent, InPlace
    <2>5. Erased'
      BY <1>1, <1>4, <2>1, <2>3 DEF Erased
    <2> QED
      BY <1>1, <1>3, <1>4, <2>1, <2>2, <2>4, <2>5 DEF CleanSend
  <1>7. ASSUME NEW result \in Results, EraseSector(result)
        PROVE  CleanSend' /\ (\A t \in AllTargets : t # target => medium'[t] = medium[t])
    <2>1. result = "ok"
      BY <1>7, DoesWell DEF EraseSector
    <2>2. /\ IsEpcs(target) /\ Reached % SectorPages = 0 /\ cPc = "chunk" /\ cPc' = "program"
          /\ UNCHANGED <<phase, received, chunk>>
          /\ medium' = [medium EXCEPT ![target] =
                 [p \in Page |-> IF p \in Reached .. Reached + SectorPages - 1 THEN Blank ELSE @[p]]]
      BY <1>7, <2>1 DEF EraseSector
    <2>3. \A p \in Page : medium'[target][p] =
              IF p \in Reached .. Reached + SectorPages - 1 THEN Blank ELSE medium[target][p]
      BY <1>3, <2>2
    <2>4. \A t \in AllTargets : t # target => medium'[t] = medium[t]
      BY <1>3, <2>2
    <2>5. Reached' = Reached /\ Entered' = Reached + 1
      BY <2>2 DEF Reached, Entered
    <2>6. CleanAgent'
      <3>1. InPlace(Reached)'
        <4>1. \A p \in Page : p < Reached => medium'[target][p] = medium[target][p]
          BY <1>3, <2>3, Sizes
        <4> QED
          BY <1>1, <1>4, <2>5, <4>1 DEF CleanAgent, InPlace
      <3> QED
        BY <1>1, <1>4, <1>5, <2>5, <3>1 DEF CleanAgent
    <2>7. Erased'
      <3>1. SUFFICES ASSUME NEW p \in Page, p >= Reached, \A q \in Reached + 1 .. p : q % SectorPages # 0
                     PROVE  medium'[target][p] = Blank
        BY <1>4, <2>5 DEF Erased
      <3>2. ~(Reached + SectorPages \in Reached + 1 .. p)
        <4>1. (Reached + SectorPages) % SectorPages = 0
          BY <1>3, <2>2, NextMultiple, Sizes
        <4> QED
          BY <3>1, <4>1
      <3>3. p \in Reached .. Reached + SectorPages - 1
        BY <1>3, <3>1, <3>2, Sizes
      <3> QED
        BY <2>3, <3>3
    <2>8. CleanSend'
      BY <1>1, <1>2, <1>4, <2>2, <2>5, <2>6, <2>7 DEF CleanSend
    <2> QED
      BY <2>4, <2>8
  <1>8. ASSUME NEW result \in Results, WritePage(result)
        PROVE  CleanSend' /\ (\A t \in AllTargets : t # target => medium'[t] = medium[t])
    <2>1. result = "ok"
      BY <1>8, DoesWell DEF WritePage
    <2>2. /\ cPc = "program" \/ (cPc = "chunk" /\ ~(IsEpcs(target) /\ Reached % SectorPages = 0))
          /\ chunk.done < chunk.left
          /\ medium' = [medium EXCEPT ![target][Reached] =
                 IF result = "ok" THEN Written(@, chunk.content) ELSE Junk]
          /\ cPc' = "chunk" /\ chunk' = [chunk EXCEPT !.done = @ + 1] /\ UNCHANGED <<phase, received>>
      <3>1. result # "refused"
        BY <2>1
      <3>2. /\ cPc' = "chunk" /\ chunk' = [chunk EXCEPT !.done = @ + 1] /\ UNCHANGED stateVars
        BY <1>8, <3>1 DEF WritePage
      <3>3. /\ cPc = "program" \/ (cPc = "chunk" /\ ~(IsEpcs(target) /\ Reached % SectorPages = 0))
            /\ chunk.done < chunk.left
        BY <1>8 DEF WritePage
      <3>4. medium' = [medium EXCEPT ![target][Reached] =
                 IF result = "ok" THEN Written(@, chunk.content) ELSE Junk]
        BY <1>8 DEF WritePage
      <3> QED
        BY <3>2, <3>3, <3>4
    <2>3. /\ chunk'.left = chunk.left /\ chunk'.content = chunk.content /\ chunk'.done = chunk.done + 1
          /\ Reached' = Reached + 1 /\ Entered' = Reached + 1 /\ Reached \in Page
      BY <1>1, <1>3, <2>2, Sizes DEF Reached, Entered, CleanAgent
    <2>4. /\ \A t \in AllTargets : t # target => medium'[t] = medium[t]
          /\ \A p \in Page : p # Reached => medium'[target][p] = medium[target][p]
          /\ medium'[target][Reached] = Written(medium[target][Reached], image)
      BY <1>2, <1>3, <2>1, <2>2, <2>3
    <2>5. Entered \in {Reached, Reached + 1} /\ (IsEpcs(target) => Entered % SectorPages # 0 \/ Entered = Reached + 1)
      BY <1>3, <2>2 DEF Entered
    <2>6. IsEpcs(target) => medium[target][Reached] = Blank
      <3>1. ASSUME IsEpcs(target), NEW q \in Entered .. Reached PROVE q % SectorPages # 0
        BY <1>3, <2>5, <3>1
      <3> QED
        BY <1>1, <1>3, <2>3, <3>1 DEF Erased
    <2>7. medium'[target][Reached] = image
      BY <2>4, <2>6 DEF Written
    <2>8. CleanAgent'
      <3>1. InPlace(Reached)'
        <4>1. ASSUME NEW p \in Page, p < Reached + 1, IsEpcs(target) \/ p > 0
              PROVE  medium'[target][p] = image
          <5>1. p < Reached \/ p = Reached
            BY <1>3, <4>1, Sizes
          <5> QED
            BY <1>1, <1>3, <2>4, <2>7, <4>1, <5>1 DEF CleanAgent, InPlace
        <4> QED
          BY <1>4, <2>3, <4>1 DEF InPlace
      <3> QED
        BY <1>1, <1>2, <1>4, <1>5, <2>3, <3>1 DEF CleanAgent, IsEpcs
    <2>9. Erased'
      <3>1. SUFFICES ASSUME NEW p \in Page, IsEpcs(target), p >= Reached + 1,
                            \A q \in Reached + 1 .. p : q % SectorPages # 0
                     PROVE  medium'[target][p] = Blank
        BY <1>4, <2>3 DEF Erased, IsEpcs
      <3>2. ASSUME NEW q \in Entered .. p PROVE q % SectorPages # 0
        <4>1. q \in Int /\ (q = Reached \/ q \in Reached + 1 .. p) /\ Entered <= q
          BY <1>3, <2>5, <3>1, <3>2, Sizes
        <4> QED
          BY <1>3, <2>5, <3>1, <4>1
      <3>3. p >= Reached /\ p # Reached
        BY <1>3, <3>1, Sizes
      <3>4. medium[target][p] = Blank
        BY <1>1, <3>1, <3>2, <3>3 DEF Erased
      <3> QED
        BY <2>4, <3>3, <3>4
    <2>10. CleanSend'
      BY <1>1, <1>2, <1>3, <1>4, <2>2, <2>3, <2>8, <2>9 DEF CleanSend, IsEpcs
    <2> QED
      BY <2>4, <2>10
  <1>9. EndChunk => UNCHANGED medium
    BY DEF EndChunk
  <1> QED
    BY <1>4, <1>6, <1>7, <1>8, <1>9 DEF Callback

\* The application thread reads back what was sent, and makes it count
LEMMA ApplicationIsClean ==
    ASSUME OutcomeInv, CleanAwait, cPc = "idle", IsEpcs(target) => Bridged, image \in Images,
           faults \in Nat, Application, UNCHANGED <<faults, image, todo>>
    PROVE  /\ CleanAwait' /\ cPc' = "idle"
           /\ \A t \in AllTargets : t # target => medium'[t] = medium[t]
           /\ target # "application" => bootBlock' = bootBlock
           /\ UNCHANGED <<target, fpga>>
  <1>1. /\ target = Target /\ digest = image /\ length = Pages /\ InPlace(Reached) /\ received = Pages
        /\ target = "eeprom" /\ Reached > 0 => firstPage = image
    BY DEF CleanAwait, CleanAgent
  <1>2. /\ Reached = Pages /\ target \in AllTargets /\ address \in 0 .. Pages
        /\ medium \in [AllTargets -> [Page -> Content]]
    BY <1>1, Sizes DEF OutcomeInv, HostInv, AgentInv, StateTyped, WorkTyped, MediaTyped, Registers,
       Reached, AllTargets, NoChunk
  <1>3. /\ \A p \in Page : IsEpcs(target) \/ p > 0 => medium[target][p] = image
        /\ target = "eeprom" => firstPage = image
    BY <1>1, <1>2, Sizes DEF InPlace
  <1>4. UNCHANGED <<target, length, digest, received, firstPage, cPc, chunk, fpga>>
    BY DEF Application, PickUp, Compare, ReadBack, Commit, Reread, Fail
  <1>5. UNCHANGED <<Target, Reached>> /\ cPc' = "idle"
    BY <1>4 DEF Target, Reached
  <1>6. ASSUME UNCHANGED medium PROVE CleanAgent'
    BY <1>1, <1>4, <1>5, <1>6 DEF CleanAgent, InPlace
  <1>7. aPc # "loop" => /\ ~verifyPending /\ (onEpcs <=> IsEpcs(target)) /\ ~Unreachable
                        /\ ReadRegion = target
    BY <1>2 DEF CleanAwait, Unreachable, ReadRegion, IsEpcs, AllTargets
  <1>8. ASSUME NEW result, aPc # "loop", AccessDoes(result) PROVE result = "ok"
    BY <1>7, <1>8, DoesWell DEF AccessDoes
  <1>9. ASSUME PickUp PROVE CleanAwait' /\ UNCHANGED <<medium, bootBlock>>
    <2>1. phase = "verifying"
      BY <1>9 DEF PickUp, CleanAwait
    <2>2. /\ verifyPending' = FALSE /\ UNCHANGED <<medium, bootBlock, phase>>
          /\ aPc' = "read" /\ onEpcs' = IsEpcs(target)
          /\ address' = IF IsEpcs(target) THEN 0 ELSE 1
          /\ mediumHash' = IF IsEpcs(target) THEN Blank ELSE firstPage
      BY <1>9, <2>1 DEF PickUp
    <2>3. /\ (onEpcs' <=> IsEpcs(target')) /\ (~onEpcs' => address' > 0)
          /\ mediumHash' = IF onEpcs' /\ address' = 0 THEN Blank ELSE image
      <3>1. CASE IsEpcs(target)
        <4>1. onEpcs' /\ address' = 0 /\ mediumHash' = Blank /\ IsEpcs(target')
          BY <1>4, <2>2, <3>1
        <4> QED
          BY <4>1
      <3>2. CASE ~IsEpcs(target)
        <4>1. ~onEpcs' /\ address' = 1 /\ mediumHash' = image /\ ~IsEpcs(target')
          BY <1>3, <1>4, <2>2, <3>2 DEF IsEpcs
        <4> QED
          BY <4>1
      <3> QED
        BY <3>1, <3>2
    <2>4. CleanAgent' /\ received' = Pages
      BY <1>1, <1>4, <1>6, <2>2
    <2> QED
      BY <2>1, <2>2, <2>3, <2>4 DEF CleanAwait
  <1>10. ASSUME NEW result, ReadBack(result) PROVE CleanAwait' /\ UNCHANGED <<medium, bootBlock>>
    <2>1. aPc = "read" /\ address < Pages /\ result = "ok" /\ address \in Page
      BY <1>1, <1>2, <1>8, <1>10, Sizes DEF ReadBack
    <2>2. /\ mediumHash' = Hash(mediumHash, medium[target][address]) /\ address' = address + 1
          /\ UNCHANGED <<phase, aPc, onEpcs, verifyPending, medium, bootBlock>>
      BY <1>7, <1>10, <2>1 DEF ReadBack
    <2>3. /\ phase = "verifying" /\ (~onEpcs => address > 0)
          /\ mediumHash = IF onEpcs /\ address = 0 THEN Blank ELSE image
      BY <2>1 DEF CleanAwait
    <2>4. medium[target][address] = image
      BY <1>3, <1>7, <2>1, <2>3
    <2>5. mediumHash' = image
      BY <2>2, <2>3, <2>4 DEF Hash
    <2>6. address' > 0
      BY <1>2, <2>2
    <2> QED
      BY <1>1, <1>4, <1>6, <1>7, <2>1, <2>2, <2>3, <2>5, <2>6 DEF CleanAwait
  <1>11. ASSUME Compare PROVE CleanAwait' /\ UNCHANGED <<medium, bootBlock>>
    <2>1. aPc = "read" /\ address >= length /\ UNCHANGED <<verifyPending, medium, bootBlock>>
      BY <1>11 DEF Compare
    <2>2. mediumHash = digest
      BY <1>1, <1>2, <2>1, Sizes DEF CleanAwait
    <2>3. IF target = "factory" THEN phase' = "complete" /\ Return
          ELSE phase' = "writing" /\ Stay("commit")
      BY <1>7, <1>11, <2>1, <2>2 DEF Compare
    <2>4. target = "factory" => Whole(medium[target], image)
      BY <1>3 DEF Whole, IsEpcs
    <2> QED
      BY <1>1, <1>4, <1>6, <1>7, <2>1, <2>2, <2>3, <2>4 DEF CleanAwait, Return, Stay, Whole
  <1>12. ASSUME NEW result, Commit(result)
         PROVE  /\ CleanAwait'
                /\ \A t \in AllTargets : t # target => medium'[t] = medium[t]
                /\ target # "application" => bootBlock' = bootBlock
    <2>1. /\ aPc \in {"commit", "program"} /\ result = "ok" /\ UNCHANGED verifyPending
      BY <1>8, <1>12 DEF Commit
    <2>2. /\ mediumHash = image /\ target # "factory" /\ phase = "writing"
          /\ aPc = "program" => onEpcs /\ bootBlock = Blank
      BY <2>1 DEF CleanAwait
    <2>3. CASE onEpcs
      <3>1. /\ UNCHANGED medium /\ target = "application"
            /\ bootBlock' = IF aPc = "commit" THEN Blank ELSE image
        BY <1>2, <1>7, <1>12, <2>1, <2>2, <2>3 DEF Commit, IsEpcs, AllTargets
      <3>2. IF aPc = "commit" THEN Stay("program") /\ UNCHANGED phase
            ELSE Stay("reread") /\ phase' = "verifying"
        BY <1>12, <2>1, <2>3 DEF Commit
      <3> QED
        BY <1>1, <1>4, <1>6, <1>7, <2>1, <2>2, <2>3, <3>1, <3>2 DEF CleanAwait, Stay
    <2>4. CASE ~onEpcs
      <3>1. /\ medium' = [medium EXCEPT !["eeprom"][0] = firstPage] /\ UNCHANGED bootBlock
            /\ target = "eeprom" /\ firstPage = image /\ aPc = "commit"
        BY <1>3, <1>7, <1>12, <2>1, <2>2, <2>4 DEF Commit, IsEpcs
      <3>2. Stay("reread") /\ phase' = "verifying"
        BY <1>12, <2>1, <2>4 DEF Commit
      <3>3. /\ \A t \in AllTargets : t # target => medium'[t] = medium[t]
            /\ \A p \in Page : p # 0 => medium'[target][p] = medium[target][p]
            /\ medium'["eeprom"][0] = image
        BY <1>2, <3>1, Sizes
      <3>4. CleanAgent'
        BY <1>1, <1>4, <1>5, <3>1, <3>3, Sizes DEF CleanAgent, InPlace, IsEpcs
      <3> QED
        BY <1>1, <1>4, <1>7, <2>1, <2>2, <2>4, <3>1, <3>2, <3>3, <3>4 DEF CleanAwait, Stay
    <2> QED
      BY <2>3, <2>4
  <1>13. ASSUME NEW result, Reread(result) PROVE CleanAwait' /\ UNCHANGED <<medium, bootBlock>>
    <2>1. aPc = "reread" /\ result = "ok" /\ Return /\ UNCHANGED <<verifyPending, medium, bootBlock>>
      BY <1>8, <1>13 DEF Reread
    <2>2. /\ mediumHash = image /\ target # "factory"
          /\ IF onEpcs THEN bootBlock = image ELSE medium["eeprom"][0] = image
      BY <2>1 DEF CleanAwait
    <2>3. target = "eeprom" <=> ~onEpcs
      BY <1>7, <2>1 DEF IsEpcs
    <2>4. phase' = "complete"
      BY <1>3, <1>13, <2>1, <2>2, <2>3 DEF Reread
    <2>5. Whole(medium[target], image)
      <3>1. ASSUME NEW p \in Page PROVE medium[target][p] = image
        <4>1. IsEpcs(target) \/ p > 0 \/ (target = "eeprom" /\ p = 0)
          BY Sizes DEF IsEpcs
        <4> QED
          BY <1>3, <2>2, <2>3, <4>1
      <3> QED
        BY <3>1 DEF Whole
    <2>6. target = "application" => bootBlock = image
      BY <2>2, <2>3
    <2> QED
      BY <1>1, <1>4, <1>6, <1>7, <2>1, <2>4, <2>5, <2>6 DEF CleanAwait, Return, Whole
  <1> QED
    BY <1>4, <1>5, <1>9, <1>10, <1>11, <1>12, <1>13 DEF Application

\* What is written is what the run has asked for, and what it has installed stays
LEMMA OthersStay ==
    ASSUME CleanRun, PlanKept, Target \in AllTargets, Target \notin Done, todo # <<>>,
           flow # "bring-up" => Target # "factory" /\ Target \in carries,
           \A t \in AllTargets : t # Target => medium'[t] = medium[t],
           Target # "application" => bootBlock' = bootBlock,
           UNCHANGED <<flow, carries, image, todo, jumper, cancel>>
    PROVE  ~cancel' /\ DoneWhole' /\ RestKept'
  <1>1. Done' = Done /\ Done \subseteq AllTargets
    BY DEF Done, Installs, Left, PlanKept
  <1>2. DoneWhole'
    BY <1>1 DEF CleanRun, DoneWhole, Whole
  <1>3. RestKept'
    <2>1. flow # "bring-up" => medium'["factory"] = medium["factory"]
      BY DEF AllTargets
    <2>2. flow # "bring-up" /\ "eeprom" \notin carries => medium'["eeprom"] = medium["eeprom"]
      BY DEF AllTargets
    <2> QED
      BY <2>1, <2>2 DEF CleanRun, RestKept, FirmwareBoots, Whole
  <1> QED
    BY <1>2, <1>3 DEF CleanRun

\* A device whose medium does what it is told keeps a clean run clean
LEMMA DeviceIsClean ==
    ASSUME OutcomeInv, CleanInv, Device
    PROVE  CleanInv'
  <1>1. /\ Callback \/ Application
        /\ UNCHANGED <<hPc, flow, carries, image, todo, sent, linked, resetDue, cancel, outcome, jumper>>
        /\ clean' = (clean /\ faults' = faults)
    BY DEF Device
  <1>2. faults \in Nat
    BY DEF CleanInv
  <1>3. faults' \in Nat
    <2>1. ASSUME NEW result, MediumDoes(result) PROVE faults' \in Nat
      BY <1>2, <2>1 DEF MediumDoes
    <2> QED
      BY <1>1, <1>2, <2>1 DEF Callback, EndChunk, EraseSector, WritePage, Application, PickUp,
         Compare, ReadBack, Commit, Reread, AccessDoes
  <1>4. CASE ~clean'
    BY <1>3, <1>4 DEF CleanInv
  <1>5. CASE hPc = "idle"
    BY <1>1, <1>3, <1>5 DEF CleanInv
  <1>6. CASE clean' /\ hPc # "idle"
    <2>1. /\ clean /\ UNCHANGED faults
          /\ CleanRun /\ PlanKept /\ Settled /\ image \in Images
      BY <1>1, <1>6, CleanUnderway
    <2>2. hPc \in Writing \cup Around
      BY DEF OutcomeInv, HostInv, HostTyped
    <2>3. CASE hPc \in {"wake", "status", "begin"}
      <3>1. cPc = "idle" /\ aPc = "loop" /\ ~verifyPending
        BY <2>1, <2>3 DEF CleanRun
      <3> QED
        BY <1>1, <3>1 DEF Callback, EndChunk, EraseSector, WritePage, Application, PickUp, Compare,
           ReadBack, Commit, Reread
    <2>4. CASE hPc \in After
      <3>1. AtEnd' /\ UNCHANGED <<medium, bootBlock, fpga>>
        BY <1>1, <2>1, <2>4, AtRestStays DEF Settled, Callback, EndChunk, EraseSector, WritePage,
           Application, PickUp, Compare, ReadBack, Commit, Reread
      <3> QED
        BY <1>1, <1>3, <2>1, <2>4, <3>1, CleanStays DEF CleanInv, CleanRun, After, Bridged
    <2>5. CASE hPc \in {"send", "await"}
      <3>1. /\ Target \in AllTargets /\ Target \notin Done /\ todo # <<>>
            /\ IsEpcs(Target) => Bridged
            /\ flow # "bring-up" => Target # "factory" /\ Target \in carries
        BY <2>1, <2>5, Reachable DEF Writing, OutcomeInv, HostInv, HostTyped
      <3>2. CASE hPc = "send"
        <4>1. CleanSend /\ target = Target
          BY <2>1, <3>2 DEF CleanRun, CleanSend, CleanAgent
        <4>2. Callback
          BY <1>1, <4>1 DEF CleanSend, Application, PickUp, Compare, ReadBack, Commit, Reread
        <4>3. /\ CleanSend' /\ UNCHANGED <<bootBlock, fpga>>
              /\ \A t \in AllTargets : t # Target => medium'[t] = medium[t]
          BY <1>1, <1>2, <2>1, <4>1, <4>2, CallbackIsClean
        <4>4. ~cancel' /\ DoneWhole' /\ RestKept'
          BY <1>1, <2>1, <3>1, <4>3, OthersStay
        <4> QED
          BY <1>1, <1>3, <2>1, <3>2, <4>3, <4>4 DEF CleanInv, CleanRun, Bridged
      <3>3. CASE hPc = "await"
        <4>1. CleanAwait /\ target = Target /\ cPc = "idle"
          BY <2>1, <3>3 DEF CleanRun, CleanAwait, CleanAgent, Settled
        <4>2. Application
          BY <1>1, <4>1 DEF Callback, EndChunk, EraseSector, WritePage
        <4>3. /\ CleanAwait' /\ UNCHANGED fpga
              /\ \A t \in AllTargets : t # Target => medium'[t] = medium[t]
              /\ Target # "application" => bootBlock' = bootBlock
          BY <1>1, <1>2, <2>1, <3>1, <4>1, <4>2, ApplicationIsClean
        <4>4. ~cancel' /\ DoneWhole' /\ RestKept'
          BY <1>1, <2>1, <3>1, <4>3, OthersStay
        <4> QED
          BY <1>1, <1>3, <2>1, <3>3, <4>3, <4>4 DEF CleanInv, CleanRun, Bridged
      <3> QED
        BY <2>5, <3>2, <3>3
    <2> QED
      BY <1>6, <2>2, <2>3, <2>4, <2>5 DEF Writing, Around, After
  <1> QED
    BY <1>4, <1>5, <1>6

\* It is back with what it was sent
LEMMA DeviceResetsIsClean ==
    ASSUME OutcomeInv, CleanInv, DeviceResets
    PROVE  CleanInv'
  <1>1. /\ RestartsInto(Restarted) /\ resetDue
        /\ UNCHANGED <<fpga, hPc, flow, carries, image, todo, cancel, outcome, jumper, clean>>
    BY DEF DeviceResets
  <1>2. UNCHANGED <<medium, bootBlock, faults>> /\ hPc \in {"idle", "return"}
    BY <1>1, ColdStart DEF OutcomeInv, HostInv, HostTyped
  <1>3. ASSUME clean, hPc # "idle" PROVE CleanRun'
    <2>1. CleanRun
      BY <1>3, CleanUnderway
    <2> QED
      BY <1>1, <1>2, <1>3, <2>1, CleanStays DEF CleanRun
  <1> QED
    BY <1>1, <1>2, <1>3 DEF CleanInv

LEMMA AroundIsClean ==
    ASSUME OutcomeInv, CleanInv, ConfigureFpga \/ Cancel \/ PowerCycle
    PROVE  CleanInv'
  <1>1. CASE ConfigureFpga
    <2>1. hPc = "idle" /\ UNCHANGED <<hPc, outcome, faults>> /\ (clean' = FALSE \/ clean' = clean)
      BY <1>1 DEF ConfigureFpga, Loses
    <2> QED
      BY <2>1 DEF CleanInv
  <1>2. CASE Cancel \/ PowerCycle
    <2>1. clean' = FALSE /\ UNCHANGED faults
      BY <1>2, ColdStart DEF Cancel, PowerCycle, Loses, vars
    <2> QED
      BY <2>1, NoLonger
  <1> QED
    BY <1>1, <1>2

LEMMA CleanUnmoved ==
    ASSUME OutcomeInv, CleanInv, UNCHANGED allVars
    PROVE  CleanInv'
  <1>1. UNCHANGED <<vars, hPc, flow, carries, image, todo, sent, cancel, outcome, jumper, clean>>
    BY DEF allVars, hostVars
  <1>2. CleanAgent' = CleanAgent /\ Erased' = Erased
    BY <1>1 DEF CleanAgent, Erased, Entered, Reached, InPlace, Target, vars
  <1>3. CleanSend' = CleanSend /\ CleanAwait' = CleanAwait
    BY <1>1, <1>2 DEF CleanSend, CleanAwait, vars, Whole, Reached
  <1>4. ASSUME clean, hPc # "idle" PROVE CleanRun'
    <2>1. CleanRun
      BY <1>4, CleanUnderway
    <2>2. ~cancel' /\ DoneWhole' /\ RestKept'
      BY <1>1, <2>1, CleanStays DEF vars
    <2> QED
      BY <1>1, <1>3, <2>1, <2>2 DEF CleanRun, InProgress, Bridged, vars
  <1> QED
    BY <1>1, <1>4 DEF CleanInv, vars

LEMMA CleanHolds ==
    ASSUME OutcomeInv, CleanInv, [HostNext]_allVars
    PROVE  CleanInv'
  <1>1. CASE Host
    BY <1>1, WakeIsClean, StatusIsClean, BeginIsClean, SendIsClean, FinishIsClean, AwaitIsClean,
       ReconfigureIsClean, ResetIsClean, ReturnIsClean DEF Host
  <1>2. CASE Starts
    BY <1>2, StartIsClean DEF Starts
  <1> QED
    BY <1>1, <1>2, DeviceIsClean, DeviceResetsIsClean, AroundIsClean, CleanUnmoved DEF HostNext

LEMMA CleanAlways == HostSpec => [](OutcomeInv /\ CleanInv)
  <1>1. HostInit => CleanInv
    BY DEF HostInit, CleanInv, BoardIsWorking, BoardIsNew, Init
  <1>2. OutcomeInv /\ CleanInv /\ [HostNext]_allVars => CleanInv'
    BY CleanHolds
  <1>3. HostSpec => []OutcomeInv
    BY OutcomeAlways, PTL DEF OutcomeInv
  <1> QED
    BY <1>1, <1>2, <1>3, PTL DEF HostSpec

-----------------------------------------------------------------------------
(* The theorems *)

LEMMA DesignsMatch == HostInv => InterconnectIsSafe
  BY DEF HostInv, BoardKept, HostTyped, InterconnectIsSafe

(***************************************************************************)
(* A line of the interconnect changed direction between the two designs:   *)
(* no board runs the legacy firmware over the new gateware, wherever a     *)
(* bring-up was stopped or cut off and however often it was tried, with    *)
(* whatever bundle, and however the board is powered and jumpered          *)
(* afterwards (bringup_orchestrator.cpp writes the firmware first).        *)
(***************************************************************************)
THEOREM InterconnectAlwaysSafe == HostSpec => []InterconnectIsSafe
  BY HostAlways, DesignsMatch, PTL

(***************************************************************************)
(* What the agent promises it promises to this host too, on a board that   *)
(* it brings up or repairs as on one that works: one thread at a time on   *)
(* the medium, and nothing starts but what was read back whole.            *)
(***************************************************************************)
THEOREM HostedUpdatesAreSafe == HostSpec => [](UpdateIsSafe /\ BootsWhatWasProved)
  <1>1. HostInv => UpdateIsSafe /\ BootsWhatWasProved
    BY TurnsAreSafe, ProvedBoot, CompleteBoots DEF HostInv, BootsWhatWasProved
  <1> QED
    BY <1>1, HostAlways, PTL

(***************************************************************************)
(* The outcome that the user is shown is the truth about the board, either *)
(* way (RunUpdate in update_orchestrator.cpp, and bringup_orchestrator.cpp *)
(* with it): one that says it succeeded has left each image it installed   *)
(* whole and in its place, and a run that nothing stood in the way of ends *)
(* in success. It holds of any images and sizes, of a board that works or  *)
(* a bare one, of a user who tries again with whatever bundle, and however *)
(* often answers are lost, writes fail and power goes.                     *)
(***************************************************************************)
THEOREM OutcomesAreTrue == HostSpec => []OutcomeIsTrue
  <1>1. OutcomeInv /\ CleanInv => OutcomeIsTrue
    BY WholeAtTheEnd DEF OutcomeInv, CleanInv, OutcomeIsTrue, CleanRunSucceeds
  <1> QED
    BY <1>1, CleanAlways, PTL
=============================================================================
