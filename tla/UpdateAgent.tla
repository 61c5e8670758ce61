------------------------------ MODULE UpdateAgent ------------------------------
(***************************************************************************)
(* The firmware's update agent (fx3/firmware/src/update-agent.c and        *)
(* update-protocol.c): a device that rewrites the two memories it starts   *)
(* from. Two threads work it without a lock, told apart by the phase: the  *)
(* USB callback takes the host's requests and writes the chunks, and the   *)
(* application thread reads the medium back and, last, writes the record   *)
(* that makes the image count: the first page of the EEPROM, or the boot   *)
(* block that the factory gateware looks for.                              *)
(*                                                                         *)
(* Around it: hosts that ask for anything in any order, media that refuse  *)
(* or garble a write or a read, power that goes at any step, and what the  *)
(* boot ROM and the factory gateware start from what they then find. A     *)
(* page is known by the image it belongs to, and a digest likewise.        *)
(***************************************************************************)
EXTENDS Integers, FiniteSets

CONSTANTS
    Images,             \* the images a host may send
    Shipped,            \* the one the device ships with
    OldDesign,          \* those whose gateware is no boot loader, and has no flash bridge
    Targets,            \* among "eeprom", "application" and "factory"
    Pages,              \* the pages of an image
    UpdateMaxChunk,     \* the most pages of a chunk
    SectorPages,        \* the pages erased together on the EPCS
    Blank, Junk,        \* an erased page, and one that belongs to no image
    MaxBegins, MaxBoots, MaxFaults,     \* bounds
    FaultAfterStray                     \* bound: a fault may follow an intruding request

ASSUME AgentAssumption ==
    /\ Targets \subseteq {"eeprom", "application", "factory"}
    /\ Pages \in Nat \ {0, 1} /\ UpdateMaxChunk \in 1 .. Pages
    /\ SectorPages \in 1 .. Pages
    /\ Shipped \in Images /\ OldDesign \subseteq Images
    /\ Blank \notin Images /\ Junk \notin Images /\ Blank # Junk
    /\ {MaxBegins, MaxBoots, MaxFaults} \subseteq Nat
    /\ FaultAfterStray \in BOOLEAN

VARIABLES
    phase, error, target, length, digest, received,     \* glUpdateState
    streamHash, firstPage, verifyPending,   \* what the callback hands over
    cPc, chunk,         \* the USB callback, and the chunk it is writing
    aPc, onEpcs, address, mediumHash,       \* the application thread, and its branch
    dataCollection,     \* dataCollectionFlag
    medium,             \* the pages of each target
    bootBlock,          \* the image it describes, Blank or Junk
    firmware, fpga,     \* what the device runs
    begins, boots, faults, stray, proved    \* history; stray: a request came mid-verify

stateVars   == <<phase, error, target, length, digest, received>>
handedVars  == <<streamHash, firstPage, verifyPending>>
verifyVars  == <<aPc, onEpcs, address, mediumHash>>
mediaVars   == <<medium, bootBlock>>
deviceVars  == <<dataCollection, firmware, fpga>>
historyVars == <<begins, boots, faults, stray, proved>>
vars == <<stateVars, handedVars, cPc, chunk, verifyVars, mediaVars, deviceVars, historyVars>>

None == "none"          \* no digest yet, and no error
NoChunk == [left |-> 0, done |-> 0, content |-> Blank]

Page == 0 .. Pages - 1
Content == Images \cup {Blank, Junk}
Whole(pages, image) == \A p \in Page : pages[p] = image

\* A hash that is running: it is some image's for as long as everything is
Hash(hash, content) == IF hash \in {Blank, content} THEN content ELSE Junk

IsEpcs(t) == t # "eeprom"
InProgress == phase \in {"receiving", "writing", "verifying"}

-----------------------------------------------------------------------------
(* What the device starts, the boot ROM and the factory gateware *)

\* The signature is in the first page and the checksum covers the image
FirmwareBoots(m) ==
    IF m["eeprom"][0] \in Images /\ Whole(m["eeprom"], m["eeprom"][0])
    THEN m["eeprom"][0] ELSE "bootloader"

FpgaBoots(m, block) ==
    IF ~\E image \in Images : Whole(m["factory"], image) THEN "dark"
    ELSE IF m["factory"][0] \in OldDesign THEN m["factory"][0]
    ELSE IF block \in Images /\ Whole(m["application"], block) THEN block ELSE "factory"

\* updateStateReset
ResetState ==
    /\ phase' = "idle" /\ error' = None /\ target' = "eeprom"
    /\ length' = 0 /\ digest' = None /\ received' = 0

\* The gateware that gives the FX3 a way to the EPCS
Bridged == fpga \notin OldDesign \cup {"dark"}

\* Cold start of the FX3: the agent's statics are as they were linked
RestartsInto(image) ==
    /\ boots < MaxBoots /\ boots' = boots + 1
    /\ ResetState
    /\ streamHash' = Blank /\ firstPage' = Blank /\ verifyPending' = FALSE
    /\ cPc' = "idle" /\ chunk' = NoChunk
    /\ aPc' = "loop" /\ onEpcs' = FALSE /\ address' = 0 /\ mediumHash' = Blank
    /\ dataCollection' = FALSE
    /\ firmware' = image
    /\ UNCHANGED <<mediaVars, begins, faults, stray, proved>>
Restarts == RestartsInto(FirmwareBoots(medium))

Init ==
    /\ phase = "idle" /\ error = None /\ target = "eeprom"
    /\ length = 0 /\ digest = None /\ received = 0
    /\ streamHash = Blank /\ firstPage = Blank /\ verifyPending = FALSE
    /\ cPc = "idle" /\ chunk = NoChunk
    /\ aPc = "loop" /\ onEpcs = FALSE /\ address = 0 /\ mediumHash = Blank
    /\ dataCollection = FALSE
    /\ bootBlock = Shipped /\ firmware = Shipped /\ fpga = Shipped
    /\ medium = [t \in {"eeprom", "application", "factory"} |-> [p \in Page |-> Shipped]]
    /\ begins = 0 /\ boots = 0 /\ faults = 0 /\ stray = FALSE
    /\ proved = {<<t, Shipped>> : t \in {"eeprom", "application", "factory"}}

-----------------------------------------------------------------------------
(* The USB callback *)

\* Mutant: the last error wins
FailAgain(e) ==
    /\ phase' = "failed" /\ error' = e
    /\ UNCHANGED <<target, length, digest, received>>

\* updateStateFail: the first error wins
Fail(e) ==
    /\ phase' = "failed"
    /\ error' = IF phase = "failed" THEN error ELSE e
    /\ UNCHANGED <<target, length, digest, received>>

\* A request the callback can take now
Asked == firmware # "bootloader" /\ cPc = "idle"

\* One that is not a question, while the application thread has the medium
\* (bound: not once MaxFaults is used up, and a fault after it if FaultAfterStray)
Intrudes ==
    /\ stray' = (stray \/ aPc # "loop" \/ phase = "verifying")
    /\ stray' => stray \/ faults < MaxFaults

BeginRefusal(t, wellFormed, unlocked) ==
    IF ~wellFormed THEN "length"
    ELSE IF t \notin Targets \/ unlocked # (t = "factory") THEN "target"
    ELSE IF dataCollection THEN "busy"
    ELSE IF InProgress THEN "sequence"
    ELSE IF IsEpcs(t) /\ ~Bridged THEN "hardware"
    ELSE None

\* A BEGIN refused during an update is stalled and nothing more
StallBegin(t, wellFormed, unlocked) ==
    /\ Asked /\ InProgress
    /\ BeginRefusal(t, wellFormed, unlocked) # None
    /\ UNCHANGED vars

RefuseBegin(t, wellFormed, unlocked) ==
    /\ Asked /\ ~InProgress
    /\ BeginRefusal(t, wellFormed, unlocked) # None
    /\ begins < MaxBegins /\ begins' = begins + 1
    /\ phase' = "failed" /\ error' = BeginRefusal(t, wellFormed, unlocked)
    /\ target' = "eeprom" /\ length' = 0 /\ digest' = None /\ received' = 0
    /\ UNCHANGED <<handedVars, cPc, chunk, verifyVars, mediaVars, deviceVars,
                   boots, faults, stray, proved>>

AcceptBegin(t, wellFormed, unlocked, promised) ==
    /\ Asked /\ BeginRefusal(t, wellFormed, unlocked) = None
    /\ begins < MaxBegins /\ begins' = begins + 1
    /\ phase' = "receiving" /\ error' = None
    /\ target' = t /\ length' = Pages /\ digest' = promised /\ received' = 0
    /\ streamHash' = Blank /\ firstPage' = Blank
    /\ UNCHANGED <<verifyPending, cPc, chunk, verifyVars, mediaVars, deviceVars,
                   boots, faults, stray, proved>>

ChunkRefusal(t, inOrder, pages) ==
    IF t # target THEN "target"
    ELSE IF phase # "receiving" \/ ~inOrder THEN "sequence"
    ELSE IF pages \notin 1 .. UpdateMaxChunk THEN "chunk"
    ELSE IF pages > length - received THEN "overrun"
    ELSE None

\* Stalled before its data stage
RefuseData(t, inOrder, pages) ==
    /\ Asked /\ pages \in 1 .. UpdateMaxChunk
    /\ ChunkRefusal(t, inOrder, pages) # None
    /\ Fail(ChunkRefusal(t, inOrder, pages)) /\ Intrudes
    /\ UNCHANGED <<handedVars, cPc, chunk, verifyVars, mediaVars, deviceVars,
                   begins, boots, faults, proved>>

\* The data stage brings fewer pages than it declared, or no boot image
RefuseChunk(t, inOrder, pages, content) ==
    LET short       == ChunkRefusal(t, inOrder, pages)
        implausible == target = "eeprom" /\ received = 0 /\ content = Junk
    IN
    /\ Asked
    /\ \E declared \in pages .. UpdateMaxChunk :
           declared > 0 /\ ChunkRefusal(t, inOrder, declared) = None
    /\ short # None \/ implausible
    /\ Fail(IF short # None THEN short ELSE "image")
    /\ UNCHANGED <<handedVars, cPc, chunk, verifyVars, mediaVars, deviceVars, historyVars>>

\* Mutant: every page goes straight to the medium
TakeChunkWhole(t, inOrder, pages, content) ==
    /\ Asked
    /\ ChunkRefusal(t, inOrder, pages) = None
    /\ target = "eeprom" /\ received = 0 => content # Junk
    /\ streamHash' = Hash(streamHash, content)
    /\ firstPage' = IF received = 0 THEN content ELSE firstPage
    /\ cPc' = "chunk"
    /\ chunk' = [left |-> pages, done |-> 0, content |-> content]
    /\ UNCHANGED <<stateVars, verifyPending, verifyVars, mediaVars, deviceVars, historyVars>>

\* The chunk is hashed; the first page of an EEPROM image is held back
TakeChunk(t, inOrder, pages, content) ==
    LET held == target = "eeprom" /\ received = 0 IN
    /\ Asked
    /\ ChunkRefusal(t, inOrder, pages) = None
    /\ held => content # Junk
    /\ streamHash' = Hash(streamHash, content)
    /\ firstPage' = IF held THEN content ELSE firstPage
    /\ cPc' = "chunk"
    /\ chunk' = [left |-> pages, done |-> IF held THEN 1 ELSE 0, content |-> content]
    /\ UNCHANGED <<stateVars, verifyPending, verifyVars, mediaVars, deviceVars, historyVars>>

\* The page of the image that the callback has reached
Reached == received + chunk.done

\* A page as a write leaves it: flash only clears bits
Written(page, content) ==
    IF ~IsEpcs(target) \/ page \in {Blank, content} THEN content ELSE Junk

\* The medium does what it is told, garbles it unnoticed, or refuses
MediumDoes(result) ==
    /\ result = "ok" \/ (faults < MaxFaults /\ (stray => FaultAfterStray))
    /\ faults' = faults + (IF result = "ok" THEN 0 ELSE 1)
Results == {"ok", "garbled", "refused"}

\* A sector is erased as the write enters it
EraseSector(result) ==
    /\ cPc = "chunk" /\ chunk.done < chunk.left
    /\ IsEpcs(target) /\ Reached % SectorPages = 0
    /\ MediumDoes(result)
    /\ medium' = [medium EXCEPT ![target] =
           [p \in Page |-> IF p \in Reached .. Reached + SectorPages - 1
                           THEN IF result = "ok" THEN Blank ELSE Junk
                           ELSE @[p]]]
    /\ IF result = "refused"
       THEN Fail("write") /\ cPc' = "idle" /\ chunk' = NoChunk
       ELSE cPc' = "program" /\ UNCHANGED <<stateVars, chunk>>
    /\ UNCHANGED <<handedVars, verifyVars, bootBlock, deviceVars,
                   begins, boots, stray, proved>>

WritePage(result) ==
    /\ \/ cPc = "program"
       \/ cPc = "chunk" /\ ~(IsEpcs(target) /\ Reached % SectorPages = 0)
    /\ chunk.done < chunk.left
    /\ MediumDoes(result)
    /\ medium' = [medium EXCEPT ![target][Reached] =
           IF result = "ok" THEN Written(@, chunk.content) ELSE Junk]
    /\ IF result = "refused"
       THEN Fail("write") /\ cPc' = "idle" /\ chunk' = NoChunk
       ELSE /\ cPc' = "chunk" /\ chunk' = [chunk EXCEPT !.done = @ + 1]
            /\ UNCHANGED stateVars
    /\ UNCHANGED <<handedVars, verifyVars, bootBlock, deviceVars,
                   begins, boots, stray, proved>>

EndChunk ==
    /\ cPc = "chunk" /\ chunk.done >= chunk.left
    /\ received' = received + chunk.left
    /\ cPc' = "idle" /\ chunk' = NoChunk
    /\ UNCHANGED <<phase, error, target, length, digest, handedVars, verifyVars,
                   mediaVars, deviceVars, historyVars>>

FinishRefusal(t) ==
    IF t # target THEN "target"
    ELSE IF phase # "receiving" THEN "sequence"
    ELSE IF received # length THEN "short"
    ELSE IF streamHash # digest THEN "stream digest"
    ELSE None

Finish(t) ==
    /\ Asked
    /\ IF FinishRefusal(t) # None
       THEN Fail(FinishRefusal(t)) /\ UNCHANGED <<streamHash, verifyPending>>
       ELSE /\ phase' = "verifying" /\ verifyPending' = TRUE
            /\ streamHash' = Blank      \* closed
            /\ UNCHANGED <<error, target, length, digest, received>>
    /\ Intrudes
    /\ UNCHANGED <<firstPage, cPc, chunk, verifyVars, mediaVars, deviceVars,
                   begins, boots, faults, proved>>

\* Mutant: a capture starts whatever the device is doing
StartCollectingAnyway ==
    /\ Asked
    /\ dataCollection' = TRUE
    /\ UNCHANGED <<stateVars, handedVars, cPc, chunk, verifyVars, mediaVars,
                   firmware, fpga, historyVars>>

StartCollecting ==
    /\ Asked /\ ~InProgress
    /\ dataCollection' = TRUE
    /\ UNCHANGED <<stateVars, handedVars, cPc, chunk, verifyVars, mediaVars,
                   firmware, fpga, historyVars>>

StopCollecting ==
    /\ Asked
    /\ dataCollection' = FALSE
    /\ UNCHANGED <<stateVars, handedVars, cPc, chunk, verifyVars, mediaVars,
                   firmware, fpga, historyVars>>

ReconfigureFpga ==
    /\ Asked /\ ~InProgress /\ Bridged
    /\ fpga' = FpgaBoots(medium, bootBlock)
    /\ UNCHANGED <<stateVars, handedVars, cPc, chunk, verifyVars, mediaVars,
                   dataCollection, firmware, historyVars>>

-----------------------------------------------------------------------------
(* The application thread *)

PickUp ==
    /\ aPc = "loop" /\ verifyPending
    /\ verifyPending' = FALSE
    /\ IF phase = "verifying"
       THEN /\ aPc' = "read" /\ onEpcs' = IsEpcs(target)
            /\ address' = IF IsEpcs(target) THEN 0 ELSE 1
            /\ mediumHash' = IF IsEpcs(target) THEN Blank ELSE firstPage
       ELSE UNCHANGED verifyVars
    /\ UNCHANGED <<stateVars, streamHash, firstPage, cPc, chunk, mediaVars, deviceVars,
                   historyVars>>

\* updateAgentVerify returns, and what it kept is of no more use
Return == aPc' = "loop" /\ onEpcs' = FALSE /\ address' = 0 /\ mediumHash' = Blank
Stay(pc) == aPc' = pc /\ UNCHANGED <<onEpcs, address, mediumHash>>

\* The region the verification reads: its branch is chosen once, its base every time
ReadRegion == IF onEpcs THEN IF target = "factory" THEN "factory" ELSE "application"
              ELSE "eeprom"

\* Without such a gateware there is no bridge to the EPCS, and every access is refused
Unreachable == onEpcs /\ ~Bridged
AccessDoes(result) ==
    IF Unreachable THEN result = "refused" /\ UNCHANGED faults ELSE MediumDoes(result)

ReadBack(result) ==
    /\ aPc = "read" /\ address < length
    /\ AccessDoes(result)
    /\ IF result = "refused"
       THEN Fail("read") /\ Return
       ELSE /\ mediumHash' = Hash(mediumHash,
                    IF result = "ok" THEN medium[ReadRegion][address] ELSE Junk)
            /\ address' = address + 1
            /\ UNCHANGED <<stateVars, aPc, onEpcs>>
    /\ UNCHANGED <<handedVars, cPc, chunk, mediaVars, deviceVars,
                   begins, boots, stray, proved>>

\* Mutant: a mismatch is logged and not recorded
CompareQuietly ==
    /\ aPc = "read" /\ address >= length
    /\ IF mediumHash # digest
       THEN Return /\ UNCHANGED <<phase, proved>>
       ELSE /\ proved' = proved \cup {<<ReadRegion, mediumHash>>}
            /\ IF ReadRegion = "factory"
               THEN phase' = "complete" /\ Return
               ELSE phase' = "writing" /\ Stay("commit")
    /\ UNCHANGED <<error, target, length, digest, received>>
    /\ UNCHANGED <<handedVars, cPc, chunk, mediaVars, deviceVars, begins, boots, faults, stray>>

\* What was read is what was promised. A factory image has no record to write.
Compare ==
    /\ aPc = "read" /\ address >= length
    /\ IF mediumHash # digest
       THEN Fail("medium digest") /\ Return /\ UNCHANGED proved
       ELSE /\ proved' = proved \cup {<<ReadRegion, mediumHash>>}
            /\ IF ReadRegion = "factory"
               THEN phase' = "complete" /\ Return
               ELSE phase' = "writing" /\ Stay("commit")
            /\ UNCHANGED <<error, target, length, digest, received>>
    /\ UNCHANGED <<handedVars, cPc, chunk, mediaVars, deviceVars, begins, boots, faults, stray>>

\* The write that makes the image count; a boot block is erased first
Commit(result) ==
    /\ aPc \in {"commit", "program"}
    /\ AccessDoes(result)
    /\ IF onEpcs
       THEN /\ bootBlock' = IF Unreachable THEN bootBlock
                            ELSE IF result # "ok" THEN Junk
                            ELSE IF aPc = "commit" THEN Blank
                            ELSE IF bootBlock = Blank THEN mediumHash ELSE Junk
            /\ UNCHANGED medium
       ELSE /\ medium' = [medium EXCEPT !["eeprom"][0] = IF result = "ok" THEN firstPage ELSE Junk]
            /\ UNCHANGED bootBlock
    /\ IF result = "refused"
       THEN Fail("write") /\ Return
       ELSE IF onEpcs /\ aPc = "commit"
       THEN Stay("program") /\ UNCHANGED stateVars
       ELSE /\ Stay("reread") /\ phase' = "verifying"
            /\ UNCHANGED <<error, target, length, digest, received>>
    /\ UNCHANGED <<handedVars, cPc, chunk, deviceVars, begins, boots, stray, proved>>

\* The record read back, against the one that was written
Reread(result) ==
    LET there == IF onEpcs THEN bootBlock ELSE medium["eeprom"][0]
        meant == IF onEpcs THEN mediumHash ELSE firstPage
    IN
    /\ aPc = "reread"
    /\ AccessDoes(result)
    /\ Return
    /\ IF result = "refused" THEN Fail("read")
       ELSE IF result = "garbled" \/ there # meant THEN Fail("medium digest")
       ELSE phase' = "complete" /\ UNCHANGED <<error, target, length, digest, received>>
    /\ UNCHANGED <<handedVars, cPc, chunk, mediaVars, deviceVars, begins, boots, stray, proved>>

-----------------------------------------------------------------------------
(* The device around it *)

ResetDevice == Asked /\ Restarts /\ UNCHANGED fpga

PowerLoss == Restarts /\ fpga' = FpgaBoots(medium, bootBlock)

\* The capture application's recovery loads firmware into the RAM of a bare kit
RamBoot ==
    /\ firmware = "bootloader"
    /\ firmware' \in Images
    /\ UNCHANGED <<stateVars, handedVars, cPc, chunk, verifyVars, mediaVars,
                   dataCollection, fpga, historyVars>>

Begin ==
    \E t \in Targets \cup {"unknown"}, wellFormed, unlocked \in BOOLEAN :
        \/ StallBegin(t, wellFormed, unlocked)
        \/ RefuseBegin(t, wellFormed, unlocked)
        \/ \E promised \in Images : AcceptBegin(t, wellFormed, unlocked, promised)

Data ==
    \E t \in Targets, inOrder \in BOOLEAN, pages \in 0 .. UpdateMaxChunk :
        \/ RefuseData(t, inOrder, pages)
        \/ \E content \in Images \cup {Junk} :
               RefuseChunk(t, inOrder, pages, content) \/ TakeChunk(t, inOrder, pages, content)

Callback == EndChunk \/ \E result \in Results : EraseSector(result) \/ WritePage(result)

Application ==
    PickUp \/ Compare \/ \E result \in Results : ReadBack(result) \/ Commit(result) \/ Reread(result)

Next ==
    \/ Begin \/ Data \/ (\E t \in Targets : Finish(t))
    \/ StartCollecting \/ StopCollecting \/ ReconfigureFpga
    \/ ResetDevice \/ PowerLoss \/ RamBoot
    \/ Callback \/ Application

Spec == Init /\ [][Next]_vars /\ WF_vars(Callback) /\ WF_vars(Application)

-----------------------------------------------------------------------------
(* Properties *)

TypeOK ==
    /\ phase \in {"idle", "receiving", "writing", "verifying", "complete", "failed"}
    /\ target \in Targets \cup {"eeprom"} /\ length \in {0, Pages} /\ received \in 0 .. Pages
    /\ digest \in Images \cup {None}
    /\ {streamHash, firstPage, mediumHash, bootBlock} \subseteq Content
    /\ cPc \in {"idle", "chunk", "program"} /\ aPc \in {"loop", "read", "commit", "program", "reread"}
    /\ chunk.done \in 0 .. chunk.left /\ Reached <= Pages /\ address \in 0 .. Pages
    /\ medium \in [{"eeprom", "application", "factory"} -> [Page -> Content]]
    /\ firmware \in Images \cup {"bootloader"} /\ fpga \in Images \cup {"dark", "factory"}

\* The two threads share the state without a lock: only one of them is at work
\* on the medium, the application thread only in its own phases, and no capture
\* is started or running meanwhile. It holds of a host that waits for the
\* verification to end before it sends another DATA or FINISH.
UpdateIsSafe ==
    /\ TypeOK
    /\ ~stray =>
        /\ aPc # "loop" => phase \in {"verifying", "writing"} /\ cPc = "idle"
        /\ cPc # "idle" => phase = "receiving"
        /\ ~(dataCollection /\ InProgress)

\* Whatever is interrupted, refused or garbled, and wherever power goes, the boot
\* ROM starts only an image whose every page was read back and compared (or falls
\* back to its bootloader), and the factory gateware only such an application. (A
\* design that is no boot loader, in the place of the factory's, starts itself.)
OnlyProvedBoots ==
    ~stray =>
    /\ FirmwareBoots(medium) \in {i \in Images : <<"eeprom", i>> \in proved} \cup {"bootloader"}
    /\ FpgaBoots(medium, bootBlock) \in
           {i \in Images : <<"application", i>> \in proved} \cup OldDesign \cup {"factory", "dark"}

\* A device that reports COMPLETE holds the promised image whole, with the record
\* that makes it count, and starts it the next time it starts.
CompleteIsWhole ==
    phase = "complete" /\ ~stray =>
    /\ error = None
    /\ Whole(medium[target], digest)
    /\ target = "eeprom" => FirmwareBoots(medium) = digest
    /\ target = "application" =>
          FpgaBoots(medium, bootBlock) \in {digest, "dark"} \cup OldDesign

\* What was written is what starts: nothing else does, and what is complete does.
BootsWhatWasProved == OnlyProvedBoots /\ CompleteIsWhole

\* A failure is remembered, with the error that came first, until the next
\* UPDATE_BEGIN or restart: the chunks, FINISH requests and captures that follow
\* it do not change what the host will read.
FailureIsRemembered ==
    [][phase = "failed" /\ begins' = begins /\ boots' = boots /\ ~stray
       => phase' = "failed" /\ error' = error]_vars

\* Once FINISH is accepted the host, which only polls the status, sees an end:
\* complete or failed, or idle after a restart.
EveryUpdateSettles ==
    phase \in {"verifying", "writing"} ~> phase \in {"complete", "failed", "idle"}
=============================================================================
