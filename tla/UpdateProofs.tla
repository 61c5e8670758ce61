------------------------------ MODULE UpdateProofs ------------------------------
(***************************************************************************)
(* The theorems of UpdateAgent, for all images, page counts, chunk and     *)
(* sector sizes and old designs, and every host and medium: whose turn it  *)
(* is, what starts after any interruption, and what is remembered of a     *)
(* failure. The argument follows a page from the chunk that brings it to   *)
(* the record that makes it count.                                         *)
(***************************************************************************)
EXTENDS UpdateAgent, TLAPS

(* The invariant *)

(***************************************************************************)
(* A chunk fits in what is left of the image. It holds of every host.      *)
(***************************************************************************)
Registers ==
    /\ stray \in BOOLEAN /\ verifyPending \in BOOLEAN /\ dataCollection \in BOOLEAN
    /\ onEpcs \in BOOLEAN
    /\ chunk \in [left : Nat, done : Nat, content : Content]
    /\ received <= length
    /\ cPc = "idle" => chunk = NoChunk
    /\ cPc # "idle" =>
        /\ received + chunk.left <= length
        /\ chunk.content # Blank
    /\ cPc = "program" => chunk.done < chunk.left

(***************************************************************************)
(* Whose turn it is: the phase says so, as long as the host waits.         *)
(***************************************************************************)
Turns ==
    /\ aPc # "loop" => cPc = "idle" /\ ~ verifyPending /\ (onEpcs <=> IsEpcs(target))
    /\ aPc \in {"read", "reread"} => phase = "verifying"
    /\ aPc \in {"commit", "program"} => phase = "writing"
    /\ verifyPending => phase = "verifying"
    /\ cPc # "idle" => phase = "receiving"
    /\ InProgress => ~ dataCollection
    /\ InProgress \/ phase = "complete" =>
        error = None /\ length = Pages /\ digest \in Images
    /\ phase \in {"verifying", "writing", "complete"} => received = Pages

\* A page that the update has put on the medium: the first of the EEPROM is not
OnMedium(p) == p < Reached /\ (IsEpcs(target) \/ p > 0)

(***************************************************************************)
(* What the callback has written, and what it has kept back.               *)
(***************************************************************************)
Received ==
    /\ InProgress => \A p \in Page : OnMedium(p) => medium[target][p] # Blank
    /\ InProgress /\ target = "eeprom" /\ Reached > 0 => firstPage \in Images
    /\ cPc # "idle" /\ target = "eeprom" => Reached > 0

(***************************************************************************)
(* What the application thread knows of the medium it has read.            *)
(***************************************************************************)
ReadPages(from) ==
    \A p \in Page : p < from /\ (onEpcs \/ p > 0) => medium[target][p] = mediumHash

Verified ==
    /\ aPc = "read" =>
        /\ ~ onEpcs => address > 0
        /\ onEpcs /\ address = 0 => mediumHash = Blank
        /\ ~ onEpcs \/ address > 0 => mediumHash # Blank
        /\ mediumHash \in Images =>
              ReadPages(address) /\ (~ onEpcs => firstPage = mediumHash)
    /\ aPc \in {"commit", "program", "reread"} =>
        /\ mediumHash = digest /\ target # "factory"
        /\ <<target, digest>> \in proved
        /\ ReadPages(Pages)
        /\ ~ onEpcs => firstPage = digest

(***************************************************************************)
(* Only what was read back and compared has a record that makes it count.  *)
(***************************************************************************)
RecordsAreProved ==
    /\ medium["eeprom"][0] \in Images => <<"eeprom", medium["eeprom"][0]>> \in proved
    /\ bootBlock \in Images => <<"application", bootBlock>> \in proved

\* An update that is complete left the image whole, and its record
Completed ==
    phase = "complete" =>
        /\ Whole(medium[target], digest)
        /\ target = "application" => bootBlock = digest

\* TypeOK, in parts
StateTyped ==
    /\ phase \in {"idle", "receiving", "writing", "verifying", "complete", "failed"}
    /\ target \in Targets \cup {"eeprom"} /\ length \in {0, Pages} /\ received \in 0 .. Pages
    /\ digest \in Images \cup {None}
HashesTyped ==
    /\ streamHash \in Content /\ firstPage \in Content
    /\ mediumHash \in Content /\ bootBlock \in Content
WorkTyped ==
    /\ cPc \in {"idle", "chunk", "program"}
    /\ aPc \in {"loop", "read", "commit", "program", "reread"}
    /\ chunk.done \in 0 .. chunk.left /\ Reached <= Pages /\ address \in 0 .. Pages
MediaTyped ==
    /\ medium \in [{"eeprom", "application", "factory"} -> [Page -> Content]]
    /\ firmware \in Images \cup {"bootloader"} /\ fpga \in Images \cup {"dark", "factory"}

(***************************************************************************)
(* The types hold whatever the host does. The rest holds of one that does  *)
(* not send DATA or FINISH while a verification is under way: a request    *)
(* that fails the update under the application thread's feet (stray) lets  *)
(* it write a record in a phase where the callback can work too.           *)
(***************************************************************************)
AgentInv ==
    /\ StateTyped /\ HashesTyped /\ WorkTyped /\ MediaTyped /\ Registers
    /\ ~ stray => Turns /\ Received /\ Verified /\ RecordsAreProved /\ Completed

LEMMA TypeParts == TypeOK <=> StateTyped /\ HashesTyped /\ WorkTyped /\ MediaTyped
  BY DEF TypeOK, StateTyped, HashesTyped, WorkTyped, MediaTyped

LEMMA Sizes ==
    /\ Pages \in Nat /\ Pages > 1 /\ Page = 0 .. Pages - 1 /\ 0 \in Page
    /\ UpdateMaxChunk \in 1 .. Pages /\ SectorPages \in 1 .. Pages
    /\ Targets \subseteq {"eeprom", "application", "factory"}
    /\ Shipped \in Images /\ OldDesign \subseteq Images
    /\ Blank \notin Images /\ Junk \notin Images /\ Blank # Junk
    /\ Content = Images \cup {Blank, Junk}
  BY AgentAssumption DEF Page, Content

USE DEF stateVars, handedVars, verifyVars, mediaVars, deviceVars, historyVars

\* What counts is as proved as it was when neither it nor what is proved changes
LEMMA RecordsStay ==
    ASSUME RecordsAreProved, UNCHANGED <<medium, bootBlock, proved>>
    PROVE  RecordsAreProved'
  BY DEF RecordsAreProved

\* What a write of the record leaves of it: the wrong thing, or as it was
RecordLeft(content) ==
    IF onEpcs
    THEN bootBlock' \in {bootBlock, Junk, content} /\ UNCHANGED medium
    ELSE /\ \E c \in {Junk, content} : medium' = [medium EXCEPT !["eeprom"][0] = c]
         /\ UNCHANGED bootBlock

-----------------------------------------------------------------------------
(* What a step has passed, and the ends it can come to *)

LEMMA Begun ==
    ASSUME NEW t, NEW wellFormed \in BOOLEAN, NEW unlocked \in BOOLEAN, NEW promised,
           AcceptBegin(t, wellFormed, unlocked, promised)
    PROVE  /\ t \in Targets /\ ~ dataCollection /\ ~ InProgress /\ cPc = "idle"
           /\ phase' = "receiving" /\ error' = None /\ target' = t /\ length' = Pages
           /\ digest' = promised /\ received' = 0
           /\ streamHash' = Blank /\ firstPage' = Blank
           /\ UNCHANGED <<verifyPending, cPc, chunk, verifyVars, mediaVars, deviceVars,
                          boots, faults, stray, proved>>
  <1>1. /\ Asked /\ BeginRefusal(t, wellFormed, unlocked) = None
        /\ phase' = "receiving" /\ error' = None /\ target' = t /\ length' = Pages
        /\ digest' = promised /\ received' = 0
        /\ streamHash' = Blank /\ firstPage' = Blank
        /\ UNCHANGED <<verifyPending, cPc, chunk, verifyVars, mediaVars, deviceVars,
                       boots, faults, stray, proved>>
    BY DEF AcceptBegin
  <1>2. wellFormed /\ t \in Targets /\ ~ dataCollection /\ ~ InProgress
    BY <1>1 DEF BeginRefusal, None
  <1> QED
    BY <1>1, <1>2 DEF Asked

LEMMA Taken ==
    ASSUME NEW t, NEW inOrder \in BOOLEAN, NEW pages \in 0 .. UpdateMaxChunk, NEW content,
           TakeChunk(t, inOrder, pages, content)
    PROVE  /\ phase = "receiving" /\ t = target /\ cPc = "idle"
           /\ pages \in 1 .. UpdateMaxChunk /\ ~ (pages > length - received)
           /\ cPc' = "chunk" /\ streamHash' = Hash(streamHash, content)
           /\ UNCHANGED <<stateVars, verifyPending, verifyVars, mediaVars, deviceVars,
                          historyVars>>
           /\ IF target = "eeprom" /\ received = 0
              THEN /\ content # Junk /\ firstPage' = content
                   /\ chunk' = [left |-> pages, done |-> 1, content |-> content]
              ELSE /\ firstPage' = firstPage
                   /\ chunk' = [left |-> pages, done |-> 0, content |-> content]
  <1>1. Asked /\ ChunkRefusal(t, inOrder, pages) = None
    BY DEF TakeChunk
  <1>2. /\ t = target /\ phase = "receiving" /\ inOrder
        /\ pages \in 1 .. UpdateMaxChunk /\ ~ (pages > length - received)
    BY <1>1 DEF ChunkRefusal, None
  <1>3. /\ cPc' = "chunk" /\ streamHash' = Hash(streamHash, content)
        /\ UNCHANGED <<stateVars, verifyPending, verifyVars, mediaVars, deviceVars,
                       historyVars>>
    BY DEF TakeChunk
  <1>4. IF target = "eeprom" /\ received = 0
        THEN /\ content # Junk /\ firstPage' = content
             /\ chunk' = [left |-> pages, done |-> 1, content |-> content]
        ELSE /\ firstPage' = firstPage
             /\ chunk' = [left |-> pages, done |-> 0, content |-> content]
    BY DEF TakeChunk
  <1> QED
    BY <1>1, <1>2, <1>3, <1>4 DEF Asked

\* One that is refused at once is no part of an update that is being verified
LEMMA RefusedAtOnce ==
    ASSUME NEW t, NEW inOrder, NEW pages, RefuseData(t, inOrder, pages)
    PROVE  /\ cPc = "idle" /\ phase' = "failed"
           /\ stray' = (stray \/ aPc # "loop" \/ phase = "verifying")
           /\ UNCHANGED <<target, length, digest, received, handedVars, cPc, chunk,
                          verifyVars, mediaVars, deviceVars, begins, boots, faults, proved>>
  BY DEF RefuseData, Asked, Fail, Intrudes

\* A chunk that is refused was one that the image still had room for
LEMMA RefusedMidway ==
    ASSUME NEW t, NEW inOrder, NEW pages, NEW content, RefuseChunk(t, inOrder, pages, content)
    PROVE  /\ phase = "receiving" /\ cPc = "idle" /\ phase' = "failed"
           /\ UNCHANGED <<target, length, digest, received, handedVars, cPc, chunk,
                          verifyVars, mediaVars, deviceVars, historyVars>>
  <1>1. phase = "receiving"
    BY DEF RefuseChunk, ChunkRefusal, None
  <1> QED
    BY <1>1 DEF RefuseChunk, Asked, Fail

LEMMA Finished ==
    ASSUME NEW t, Finish(t)
    PROVE  /\ cPc = "idle" /\ stray' = (stray \/ aPc # "loop" \/ phase = "verifying")
           /\ UNCHANGED <<target, length, digest, received, firstPage, cPc, chunk,
                          verifyVars, mediaVars, deviceVars, begins, boots, faults, proved>>
           /\ \/ /\ t = target /\ phase = "receiving" /\ received = length
                 /\ phase' = "verifying" /\ verifyPending' = TRUE /\ streamHash' = Blank
                 /\ error' = error
              \/ /\ phase' = "failed" /\ UNCHANGED <<streamHash, verifyPending>>
                 /\ phase = "failed" => error' = error
  <1>1. /\ cPc = "idle" /\ stray' = (stray \/ aPc # "loop" \/ phase = "verifying")
        /\ UNCHANGED <<firstPage, cPc, chunk, verifyVars, mediaVars, deviceVars,
                       begins, boots, faults, proved>>
    BY DEF Finish, Asked, Intrudes
  <1>2. CASE FinishRefusal(t) # None
    BY <1>1, <1>2 DEF Finish, Fail
  <1>3. CASE FinishRefusal(t) = None
    <2>1. t = target /\ phase = "receiving" /\ received = length
      BY <1>3 DEF FinishRefusal, None
    <2>2. /\ phase' = "verifying" /\ verifyPending' = TRUE /\ streamHash' = Blank
          /\ UNCHANGED <<error, target, length, digest, received>>
      BY <1>3 DEF Finish
    <2> QED
      BY <1>1, <2>1, <2>2
  <1> QED
    BY <1>2, <1>3

\* The cold start leaves the media, and forgets the rest
LEMMA ColdStart ==
    ASSUME NEW i, RestartsInto(i)
    PROVE  /\ phase' = "idle" /\ error' = None /\ target' = "eeprom"
           /\ length' = 0 /\ digest' = None /\ received' = 0
           /\ streamHash' = Blank /\ firstPage' = Blank /\ verifyPending' = FALSE
           /\ cPc' = "idle" /\ chunk' = NoChunk
           /\ aPc' = "loop" /\ onEpcs' = FALSE /\ address' = 0 /\ mediumHash' = Blank
           /\ dataCollection' = FALSE
           /\ firmware' = i
           /\ UNCHANGED <<mediaVars, begins, faults, stray, proved>>
  BY DEF RestartsInto, ResetState

\* What the boot ROM and the gateware start is an image, or neither
LEMMA WhatStarts ==
    ASSUME MediaTyped
    PROVE  /\ FirmwareBoots(medium) \in Images \cup {"bootloader"}
           /\ FpgaBoots(medium, bootBlock) \in Images \cup {"dark", "factory"}
  BY Sizes DEF MediaTyped, FirmwareBoots, FpgaBoots

LEMMA Compared ==
    ASSUME Compare
    PROVE  /\ aPc = "read" /\ address >= length
           /\ UNCHANGED <<target, length, digest, received, handedVars, cPc, chunk,
                          mediaVars, deviceVars, begins, boots, faults, stray>>
           /\ \/ phase' = "failed" /\ Return /\ UNCHANGED proved
              \/ /\ mediumHash = digest /\ proved' = proved \cup {<<ReadRegion, mediumHash>>}
                 /\ error' = error
                 /\ \/ ReadRegion = "factory" /\ phase' = "complete" /\ Return
                    \/ ReadRegion # "factory" /\ phase' = "writing" /\ Stay("commit")
  <1>1. /\ aPc = "read" /\ address >= length
        /\ UNCHANGED <<handedVars, cPc, chunk, mediaVars, deviceVars, begins, boots,
                       faults, stray>>
    BY DEF Compare
  <1>2. CASE mediumHash # digest
    <2>1. Fail("medium digest") /\ Return /\ UNCHANGED proved
      BY <1>2 DEF Compare
    <2> QED
      BY <1>1, <2>1 DEF Fail
  <1>3. CASE mediumHash = digest
    <2>1. /\ proved' = proved \cup {<<ReadRegion, mediumHash>>}
          /\ IF ReadRegion = "factory"
             THEN phase' = "complete" /\ Return
             ELSE phase' = "writing" /\ Stay("commit")
          /\ UNCHANGED <<error, target, length, digest, received>>
      BY <1>3 DEF Compare
    <2> QED
      BY <1>1, <1>3, <2>1
  <1> QED
    BY <1>2, <1>3

LEMMA Committed ==
    ASSUME NEW result, Commit(result)
    PROVE  /\ aPc \in {"commit", "program"}
           /\ UNCHANGED <<target, length, digest, received, handedVars, cPc, chunk, deviceVars,
                          begins, boots, stray, proved>>
           /\ \/ phase' = "failed" /\ Return /\ RecordLeft(Junk)
              \/ /\ onEpcs /\ aPc = "commit"
                 /\ Stay("program") /\ UNCHANGED <<phase, error>>
                 /\ RecordLeft(Blank)
              \/ /\ Stay("reread") /\ phase' = "verifying" /\ error' = error
                 /\ RecordLeft(IF onEpcs THEN mediumHash ELSE firstPage)
  <1>1. /\ aPc \in {"commit", "program"}
        /\ UNCHANGED <<handedVars, cPc, chunk, deviceVars, begins, boots, stray, proved>>
    BY DEF Commit
  <1>2. CASE result = "refused"
    <2>1. phase' = "failed" /\ Return /\ UNCHANGED <<target, length, digest, received>>
      BY <1>2 DEF Commit, Fail
    <2>2. RecordLeft(Junk)
      BY <1>2 DEF Commit, RecordLeft
    <2> QED
      BY <1>1, <2>1, <2>2
  <1>3. CASE result # "refused" /\ onEpcs /\ aPc = "commit"
    <2>1. Stay("program") /\ UNCHANGED stateVars
      BY <1>3 DEF Commit
    <2>2. RecordLeft(Blank)
      BY <1>3 DEF Commit, RecordLeft
    <2> QED
      BY <1>1, <1>3, <2>1, <2>2 DEF stateVars
  <1>4. CASE result # "refused" /\ ~ (onEpcs /\ aPc = "commit")
    <2>1. /\ Stay("reread") /\ phase' = "verifying"
          /\ UNCHANGED <<error, target, length, digest, received>>
      BY <1>4 DEF Commit
    <2>2. RecordLeft(IF onEpcs THEN mediumHash ELSE firstPage)
      BY <1>1, <1>4 DEF Commit, RecordLeft
    <2> QED
      BY <1>1, <2>1, <2>2
  <1> QED
    BY <1>2, <1>3, <1>4

LEMMA RereadEnds ==
    ASSUME NEW result, Reread(result)
    PROVE  /\ aPc = "reread" /\ Return
           /\ UNCHANGED <<target, length, digest, received, handedVars, cPc, chunk, mediaVars,
                          deviceVars, begins, boots, stray, proved>>
           /\ \/ phase' = "failed"
              \/ /\ phase' = "complete" /\ error' = error
                 /\ IF onEpcs THEN bootBlock = mediumHash ELSE medium["eeprom"][0] = firstPage
  <1>1. /\ aPc = "reread" /\ Return
        /\ UNCHANGED <<handedVars, cPc, chunk, mediaVars, deviceVars, begins, boots,
                       stray, proved>>
    BY DEF Reread
  <1>2. CASE phase' = "failed"
    BY <1>1, <1>2 DEF Reread, Fail
  <1>3. CASE phase' # "failed"
    BY <1>1, <1>3 DEF Reread, Fail
  <1> QED
    BY <1>2, <1>3

-----------------------------------------------------------------------------
(* The steps *)

LEMMA Unmoved ==
    ASSUME AgentInv, UNCHANGED vars
    PROVE  AgentInv'
  BY DEF vars, AgentInv, StateTyped, HashesTyped, WorkTyped, MediaTyped, Registers, Turns,
      Received, Verified, RecordsAreProved, Completed, OnMedium, ReadPages, InProgress, Reached,
      Whole

\* A capture does not start during an update, and what the device runs is beside it
LEMMA DeviceKeeps ==
    ASSUME AgentInv, StartCollecting \/ StopCollecting \/ ReconfigureFpga \/ RamBoot
    PROVE  AgentInv'
  <1> USE DEF AgentInv
  <1>1. UNCHANGED <<stateVars, handedVars, cPc, chunk, verifyVars, mediaVars, historyVars>>
    BY DEF StartCollecting, StopCollecting, ReconfigureFpga, RamBoot
  <1>2. /\ dataCollection' = dataCollection \/ dataCollection' = FALSE
           \/ (dataCollection' = TRUE /\ ~ InProgress)
        /\ dataCollection \in BOOLEAN
    BY DEF StartCollecting, StopCollecting, ReconfigureFpga, RamBoot, Registers
  <1>3. MediaTyped'
    BY WhatStarts DEF StartCollecting, StopCollecting, ReconfigureFpga, RamBoot, MediaTyped
  <1>4. StateTyped' /\ HashesTyped' /\ WorkTyped'
    BY <1>1 DEF StateTyped, HashesTyped, WorkTyped, Reached
  <1>5. dataCollection' \in BOOLEAN
    BY <1>2
  <1>6. Registers'
    BY <1>1, <1>5 DEF Registers
  <1>7. ASSUME ~ stray'
        PROVE  Turns' /\ Received' /\ Verified' /\ RecordsAreProved' /\ Completed'
    <2>1. Turns' /\ Received'
      BY <1>1, <1>2, <1>7 DEF Turns, Received, InProgress, OnMedium, Reached
    <2>2. Verified' /\ RecordsAreProved' /\ Completed'
      BY <1>1, <1>7 DEF Verified, ReadPages, RecordsAreProved, Completed, Whole
    <2> QED
      BY <2>1, <2>2
  <1> QED
    BY <1>3, <1>4, <1>6, <1>7

\* A BEGIN that is refused when nothing is under way leaves a failed update that is empty
LEMMA RefuseBeginKeeps ==
    ASSUME AgentInv, NEW t \in Targets \cup {"unknown"}, NEW wellFormed \in BOOLEAN,
           NEW unlocked \in BOOLEAN, RefuseBegin(t, wellFormed, unlocked)
    PROVE  AgentInv'
  <1> USE DEF AgentInv
  <1>1. /\ ~ InProgress /\ cPc = "idle" /\ phase' = "failed" /\ target' = "eeprom"
        /\ length' = 0 /\ digest' = None /\ received' = 0
        /\ UNCHANGED <<handedVars, cPc, chunk, verifyVars, mediaVars, deviceVars,
                       boots, faults, stray, proved>>
    BY DEF RefuseBegin, Asked
  <1>2. StateTyped' /\ HashesTyped' /\ MediaTyped'
    BY <1>1, Sizes DEF StateTyped, HashesTyped, MediaTyped
  <1>3. WorkTyped' /\ Registers'
    BY <1>1, Sizes DEF WorkTyped, Registers, Reached, NoChunk
  <1>4. ASSUME ~ stray'
        PROVE  Turns' /\ Received' /\ Verified' /\ RecordsAreProved' /\ Completed'
    <2>1. aPc = "loop" /\ ~ verifyPending
      BY <1>1, <1>4 DEF Turns, InProgress, WorkTyped
    <2>2. Turns' /\ Received'
      BY <1>1, <2>1 DEF Turns, Received, InProgress
    <2>3. Verified' /\ Completed'
      BY <1>1, <2>1 DEF Verified, Completed
    <2>4. RecordsAreProved'
      BY <1>1, <1>4, RecordsStay
    <2> QED
      BY <2>2, <2>3, <2>4
  <1> QED
    BY <1>2, <1>3, <1>4

\* An accepted BEGIN finds no verification under way, and starts from nothing
LEMMA AcceptBeginKeeps ==
    ASSUME AgentInv, NEW t \in Targets \cup {"unknown"}, NEW wellFormed \in BOOLEAN,
           NEW unlocked \in BOOLEAN, NEW promised \in Images,
           AcceptBegin(t, wellFormed, unlocked, promised)
    PROVE  AgentInv'
  <1> USE DEF AgentInv
  <1>1. StateTyped' /\ HashesTyped'
    BY Begun, Sizes DEF StateTyped, HashesTyped
  <1>2. WorkTyped' /\ MediaTyped' /\ Registers'
    BY Begun, Sizes DEF StateTyped, WorkTyped, MediaTyped, Registers, Reached, NoChunk
  <1>3. ASSUME ~ stray'
        PROVE  Turns' /\ Received' /\ Verified' /\ RecordsAreProved' /\ Completed'
    <2>0. ~ stray
      BY <1>3, Begun
    <2>1. aPc = "loop" /\ ~ verifyPending
      BY <2>0, Begun DEF Turns, InProgress, WorkTyped
    <2>2. Turns' /\ Received'
      BY <2>0, <2>1, Begun, Sizes DEF Turns, Received, OnMedium, Reached, InProgress,
          Registers, NoChunk
    <2>3. Verified' /\ Completed'
      BY <2>1, Begun DEF Verified, Completed
    <2>4. RecordsAreProved'
      BY <2>0, Begun, RecordsStay
    <2> QED
      BY <2>1, <2>2, <2>3, <2>4
  <1> QED
    BY <1>1, <1>2, <1>3

\* A chunk that is refused before its data fails the update, if one was under way
LEMMA RefuseDataKeeps ==
    ASSUME AgentInv, NEW t, NEW inOrder, NEW pages, RefuseData(t, inOrder, pages)
    PROVE  AgentInv'
  <1> USE DEF AgentInv
  <1>1. StateTyped' /\ HashesTyped' /\ WorkTyped' /\ MediaTyped' /\ Registers'
    BY RefusedAtOnce DEF StateTyped, HashesTyped, WorkTyped, MediaTyped, Registers, Reached
  <1>2. ASSUME ~ stray'
        PROVE  Turns' /\ Received' /\ Verified' /\ RecordsAreProved' /\ Completed'
    <2>0. ~ stray
      BY <1>2, RefusedAtOnce
    <2>1. aPc = "loop" /\ ~ verifyPending
      BY <1>2, <2>0, RefusedAtOnce DEF Turns
    <2>2. Turns' /\ Received'
      BY <2>0, <2>1, RefusedAtOnce DEF Turns, Received, OnMedium, Reached, InProgress, Registers
    <2>3. Verified' /\ Completed'
      BY <2>1, RefusedAtOnce DEF Verified, Completed
    <2>4. RecordsAreProved'
      BY <2>0, RefusedAtOnce, RecordsStay
    <2> QED
      BY <2>1, <2>2, <2>3, <2>4
  <1> QED
    BY <1>1, <1>2

\* A chunk that is refused ends the update where it was
LEMMA RefuseChunkKeeps ==
    ASSUME AgentInv, NEW t, NEW inOrder, NEW pages, NEW content,
           RefuseChunk(t, inOrder, pages, content)
    PROVE  AgentInv'
  <1> USE DEF AgentInv
  <1>1. StateTyped' /\ HashesTyped' /\ WorkTyped' /\ MediaTyped' /\ Registers'
    BY RefusedMidway DEF StateTyped, HashesTyped, WorkTyped, MediaTyped, Registers, Reached
  <1>2. ASSUME ~ stray'
        PROVE  Turns' /\ Received' /\ Verified' /\ RecordsAreProved' /\ Completed'
    <2>0. ~ stray
      BY <1>2, RefusedMidway
    <2>1. aPc = "loop" /\ ~ verifyPending
      BY <2>0, RefusedMidway DEF Turns, WorkTyped
    <2>2. Turns' /\ Received'
      BY <2>0, <2>1, RefusedMidway DEF Turns, Received, OnMedium, Reached, InProgress, Registers
    <2>3. Verified' /\ Completed'
      BY <2>1, RefusedMidway DEF Verified, Completed
    <2>4. RecordsAreProved'
      BY <2>0, RefusedMidway, RecordsStay
    <2> QED
      BY <2>1, <2>2, <2>3, <2>4
  <1> QED
    BY <1>1, <1>2

\* A chunk that is taken fits, and its first page is kept if it is the image's
LEMMA TakeChunkKeeps ==
    ASSUME AgentInv, NEW t \in Targets, NEW inOrder \in BOOLEAN,
           NEW pages \in 0 .. UpdateMaxChunk,
           NEW content \in Images \cup {Junk}, TakeChunk(t, inOrder, pages, content)
    PROVE  AgentInv'
  <1> USE DEF AgentInv
  <1>1. chunk'.left = pages /\ chunk'.content = content /\ chunk'.done \in {0, 1}
        /\ chunk' \in [left : Nat, done : Nat, content : Content]
    BY Taken, Sizes
  <1>2. pages >= 1 /\ received + pages <= length /\ length <= Pages /\ received >= 0
    BY Taken, Sizes DEF StateTyped
  <1>3. StateTyped' /\ MediaTyped'
    BY Taken DEF StateTyped, MediaTyped
  <1>4. HashesTyped'
    BY Taken, Sizes DEF HashesTyped, Hash
  <1>5. WorkTyped'
    BY <1>1, <1>2, Taken, Sizes DEF WorkTyped, StateTyped, Reached
  <1>6. Registers'
    BY <1>1, <1>2, Taken, Sizes DEF Registers
  <1>7. ASSUME ~ stray'
        PROVE  Turns' /\ Received' /\ Verified' /\ RecordsAreProved' /\ Completed'
    <2>0. ~ stray
      BY <1>7, Taken
    <2>1. aPc = "loop" /\ ~ verifyPending
      BY <2>0, Taken DEF Turns, WorkTyped
    <2>2. Turns'
      BY <2>0, <2>1, Taken DEF Turns, InProgress
    <2>3. Received'
      BY <2>0, <1>1, <1>2, Taken, Sizes DEF Received, OnMedium, Reached, InProgress,
          StateTyped, Registers, NoChunk, IsEpcs
    <2>4. Verified' /\ Completed'
      BY <2>1, Taken DEF Verified, Completed
    <2>5. RecordsAreProved'
      BY <2>0, Taken, RecordsStay
    <2> QED
      BY <2>1, <2>2, <2>3, <2>4, <2>5
  <1> QED
    BY <1>1, <1>2, <1>3, <1>4, <1>5, <1>6, <1>7

\* FINISH hands a whole image over, or fails
LEMMA FinishKeeps ==
    ASSUME AgentInv, NEW t \in Targets, Finish(t)
    PROVE  AgentInv'
  <1> USE DEF AgentInv
  <1>1. StateTyped' /\ HashesTyped' /\ MediaTyped'
    BY Finished, Sizes DEF StateTyped, HashesTyped, MediaTyped
  <1>2. WorkTyped' /\ Registers'
    BY Finished DEF WorkTyped, Registers, Reached
  <1>3. ASSUME ~ stray'
        PROVE  Turns' /\ Received' /\ Verified' /\ RecordsAreProved' /\ Completed'
    <2>0. ~ stray
      BY <1>3, Finished
    <2>1. aPc = "loop" /\ phase # "verifying"
      BY <1>3, Finished
    <2>2. Turns' /\ Received'
      BY <2>0, <2>1, Finished, Sizes DEF Turns, Received, OnMedium, Reached, InProgress,
          Registers, StateTyped, NoChunk
    <2>3. Verified' /\ Completed'
      BY <2>1, Finished DEF Verified, Completed
    <2>4. RecordsAreProved'
      BY <2>0, Finished, RecordsStay
    <2> QED
      BY <2>1, <2>2, <2>3, <2>4
  <1> QED
    BY <1>1, <1>2, <1>3

\* A restart forgets what was under way, and leaves the media as they are
LEMMA RestartKeeps ==
    ASSUME AgentInv, NEW i \in Images \cup {"bootloader"}, RestartsInto(i),
           fpga' \in Images \cup {"dark", "factory"}
    PROVE  AgentInv'
  <1> USE DEF AgentInv
  <1>1. chunk' = NoChunk
    BY ColdStart
  <1>2. /\ NoChunk \in [left : Nat, done : Nat, content : Content]
        /\ NoChunk.left = 0 /\ NoChunk.done = 0
    BY Sizes DEF NoChunk
  <1>3. /\ phase' = "idle" /\ target' = "eeprom" /\ length' = 0 /\ digest' = None /\ received' = 0
        /\ cPc' = "idle" /\ aPc' = "loop" /\ address' = 0
        /\ streamHash' = Blank /\ firstPage' = Blank /\ mediumHash' = Blank
        /\ bootBlock' = bootBlock
    BY ColdStart
  <1>4. /\ verifyPending' \in BOOLEAN /\ onEpcs' \in BOOLEAN /\ dataCollection' \in BOOLEAN
        /\ stray' = stray
    BY ColdStart
  <1>5. StateTyped' /\ HashesTyped'
    BY <1>3, Sizes DEF StateTyped, HashesTyped
  <1>6. WorkTyped'
    BY <1>1, <1>2, <1>3, Sizes DEF WorkTyped, Reached
  <1>7. Registers'
    BY <1>1, <1>2, <1>3, <1>4 DEF Registers
  <1>8. MediaTyped'
    BY ColdStart DEF MediaTyped
  <1>9. ASSUME ~ stray'
        PROVE  Turns' /\ Received' /\ Verified' /\ RecordsAreProved' /\ Completed'
    <2>0. ~ stray
      BY <1>9, ColdStart
    <2>1. Turns' /\ Received'
      BY ColdStart DEF Turns, Received, InProgress
    <2>2. Verified' /\ Completed'
      BY ColdStart DEF Verified, Completed
    <2>3. RecordsAreProved'
      BY <2>0, ColdStart, RecordsStay
    <2> QED
      BY <2>1, <2>2, <2>3
  <1> QED
    BY <1>1, <1>2, <1>3, <1>4, <1>5, <1>6, <1>7, <1>8, <1>9

\* The bytes of a chunk count once they are all written
LEMMA EndChunkKeeps ==
    ASSUME AgentInv, EndChunk
    PROVE  AgentInv'
  <1> USE DEF AgentInv
  <1>1. StateTyped' /\ HashesTyped' /\ WorkTyped' /\ MediaTyped' /\ Registers'
    BY Sizes DEF EndChunk, StateTyped, HashesTyped, WorkTyped, MediaTyped, Registers, Reached,
        NoChunk
  <1>2. ASSUME ~ stray'
        PROVE  Turns' /\ Received' /\ Verified' /\ RecordsAreProved' /\ Completed'
    <2>0. ~ stray
      BY <1>2 DEF EndChunk
    <2>1. Turns' /\ Received'
      BY <2>0, Sizes DEF EndChunk, Turns, Received, OnMedium, Reached, InProgress, Registers,
          WorkTyped, StateTyped, NoChunk
    <2>2. Verified' /\ Completed'
      BY <2>0 DEF EndChunk, Turns, Verified, Completed
    <2>3. RecordsAreProved'
      BY <2>0, RecordsStay DEF EndChunk
    <2> QED
      BY <2>1, <2>2, <2>3
  <1> QED
    BY <1>1, <1>2

\* A sector is erased ahead of the pages that are written, never behind
LEMMA EraseKeeps ==
    ASSUME AgentInv, NEW result \in Results, EraseSector(result)
    PROVE  AgentInv'
  <1> USE DEF AgentInv
  <1>1. StateTyped' /\ HashesTyped'
    BY Sizes DEF EraseSector, StateTyped, HashesTyped, Fail
  <1>2. MediaTyped'
    <2> DEFINE pages ==
           [p \in Page |-> IF p \in Reached .. Reached + SectorPages - 1
                           THEN IF result = "ok" THEN Blank ELSE Junk
                           ELSE medium[target][p]]
    <2>1. medium' = [medium EXCEPT ![target] = pages]
      BY DEF EraseSector
    <2>2. pages \in [Page -> Content]
      BY Sizes DEF MediaTyped, StateTyped
    <2> HIDE DEF pages
    <2>3. medium' \in [{"eeprom", "application", "factory"} -> [Page -> Content]]
      BY <2>1, <2>2 DEF MediaTyped
    <2> QED
      BY <2>3 DEF EraseSector, MediaTyped
  <1>3. WorkTyped' /\ Registers'
    BY Sizes DEF EraseSector, WorkTyped, Registers, Reached, NoChunk, StateTyped, Fail
  <1>4. ASSUME ~ stray'
        PROVE  Turns' /\ Received' /\ Verified' /\ RecordsAreProved' /\ Completed'
    <2>0. ~ stray
      BY <1>4 DEF EraseSector
    <2>1. target # "eeprom" /\ aPc = "loop" /\ phase = "receiving"
      BY <2>0 DEF EraseSector, IsEpcs, Turns, WorkTyped
    <2>2. Turns'
      BY <2>0, <2>1 DEF EraseSector, Turns, Registers, InProgress, Fail, StateTyped, WorkTyped
    <2>3. Received'
      BY <2>0, <2>1, Sizes DEF EraseSector, Received, OnMedium, Reached, InProgress, Registers,
          StateTyped, WorkTyped, MediaTyped, NoChunk, Fail, IsEpcs
    <2>4. Verified' /\ Completed'
      BY <2>1 DEF EraseSector, Verified, Completed, Fail
    <2>5. RecordsAreProved'
      BY <2>0, <2>1 DEF EraseSector, RecordsAreProved, MediaTyped
    <2> QED
      BY <2>1, <2>2, <2>3, <2>4, <2>5
  <1> QED
    BY <1>1, <1>2, <1>3, <1>4

\* The first page of an EEPROM image is not written with the rest
LEMMA WritePageKeeps ==
    ASSUME AgentInv, NEW result \in Results, WritePage(result)
    PROVE  AgentInv'
  <1> USE DEF AgentInv
  <1>1. cPc # "idle" /\ Reached \in Page /\ target \in {"eeprom", "application", "factory"}
    BY Sizes DEF WritePage, Registers, WorkTyped, StateTyped, Reached
  <1>2. StateTyped' /\ HashesTyped'
    BY Sizes DEF WritePage, StateTyped, HashesTyped, Fail
  <1>3. MediaTyped'
    BY <1>1, Sizes DEF WritePage, MediaTyped, Written, Registers
  <1>4. WorkTyped' /\ Registers'
    BY Sizes DEF WritePage, WorkTyped, Registers, Reached, NoChunk, StateTyped, Fail
  <1>5. ASSUME ~ stray'
        PROVE  Turns' /\ Received' /\ Verified' /\ RecordsAreProved' /\ Completed'
    <2>0. ~ stray
      BY <1>5 DEF WritePage
    <2>1. aPc = "loop" /\ phase = "receiving"
      BY <1>1, <2>0 DEF Turns, WorkTyped
    <2>2. Turns'
      BY <2>0, <2>1 DEF WritePage, Turns, Registers, InProgress, Fail, StateTyped, WorkTyped
    <2>3. Received'
      <3>1. CASE result = "refused"
        BY <3>1 DEF WritePage, Received, InProgress, Fail
      <3>2. CASE result # "refused"
        <4>1. cPc' = "chunk" /\ chunk' = [chunk EXCEPT !.done = @ + 1] /\ UNCHANGED stateVars
          BY <3>2 DEF WritePage
        <4>2. Reached' = Reached + 1 /\ Reached \in Nat
          BY <1>1, <4>1, Sizes DEF Reached, Registers, StateTyped
        <4>3. \A before : Written(before, chunk.content) # Blank
          BY <1>1, Sizes DEF Written, Registers
        <4> DEFINE page == IF result = "ok" THEN Written(medium[target][Reached], chunk.content)
                           ELSE Junk
        <4>4. medium' = [medium EXCEPT ![target][Reached] = page] /\ page # Blank
          BY <4>3, Sizes DEF WritePage
        <4> HIDE DEF page
        <4>5. \A p \in Page : IF p = Reached THEN medium'[target][p] # Blank
                              ELSE medium'[target][p] = medium[target][p]
          <5>1. target \in DOMAIN medium /\ DOMAIN medium[target] = Page
            BY <1>1 DEF MediaTyped
          <5>2. medium'[target] = [medium[target] EXCEPT ![Reached] = page]
            BY <4>4, <5>1
          <5> QED
            BY <4>4, <5>1, <5>2
        <4>6. \A p \in Page : OnMedium(p)' => medium'[target][p] # Blank
          <5> SUFFICES ASSUME NEW p \in Page, OnMedium(p)', p # Reached
                       PROVE  medium[target][p] # Blank
            BY <4>5
          <5>1. p < Reached' /\ (IsEpcs(target) \/ p > 0)
            BY <4>1 DEF OnMedium, IsEpcs
          <5>2. p < Reached
            BY <4>2, <5>1, Sizes
          <5> QED
            BY <2>0, <2>1, <5>1, <5>2 DEF Received, InProgress, OnMedium
        <4>7. target = "eeprom" => firstPage \in Images
          BY <1>1, <2>0, <2>1 DEF Received, InProgress
        <4>8. firstPage' = firstPage /\ target' = target /\ Reached' > 0
          BY <4>1, <4>2 DEF WritePage
        <4> QED
          BY <4>6, <4>7, <4>8 DEF Received
      <3> QED
        BY <3>1, <3>2
    <2>4. Verified' /\ Completed'
      BY <2>1 DEF WritePage, Verified, Completed, Fail
    <2>5. medium'["eeprom"][0] = medium["eeprom"][0] /\ bootBlock' = bootBlock /\ proved' = proved
      BY <1>1, <2>0, Sizes DEF WritePage, Received, MediaTyped
    <2>6. RecordsAreProved'
      BY <2>0, <2>5 DEF RecordsAreProved
    <2> QED
      BY <2>1, <2>2, <2>3, <2>4, <2>5, <2>6
  <1> QED
    BY <1>1, <1>2, <1>3, <1>4, <1>5

\* The application thread starts with nothing read, or the page that was kept
LEMMA PickUpKeeps ==
    ASSUME AgentInv, PickUp
    PROVE  AgentInv'
  <1> USE DEF AgentInv
  <1>1. /\ verifyPending' = FALSE
        /\ UNCHANGED <<stateVars, streamHash, firstPage, cPc, chunk, mediaVars, deviceVars,
                       historyVars>>
    BY DEF PickUp
  <1>2. \/ phase # "verifying" /\ UNCHANGED verifyVars
        \/ /\ phase = "verifying" /\ aPc' = "read" /\ target = "eeprom"
           /\ onEpcs' = FALSE /\ address' = 1 /\ mediumHash' = firstPage
        \/ /\ phase = "verifying" /\ aPc' = "read" /\ target # "eeprom"
           /\ onEpcs' = TRUE /\ address' = 0 /\ mediumHash' = Blank
    BY DEF PickUp, IsEpcs
  <1>3. StateTyped' /\ HashesTyped' /\ MediaTyped'
    BY <1>1, <1>2, Sizes DEF StateTyped, HashesTyped, MediaTyped
  <1>4. WorkTyped'
    BY <1>1, <1>2, Sizes DEF WorkTyped, Reached
  <1>5. Registers'
    BY <1>1, <1>2 DEF Registers
  <1>6. ASSUME ~ stray'
        PROVE  Turns' /\ Received' /\ Verified' /\ RecordsAreProved' /\ Completed'
    <2>0. ~ stray
      BY <1>6 DEF PickUp
    <2>1. aPc = "loop" /\ verifyPending /\ phase = "verifying" /\ cPc = "idle"
      BY <2>0 DEF PickUp, Turns
    <2>2. Turns'
      BY <1>1, <1>2, <2>0, <2>1 DEF Turns, InProgress, IsEpcs
    <2>3. Received'
      BY <2>0, <2>1 DEF PickUp, Received, OnMedium, InProgress, Reached
    <2>4. target = "eeprom" => firstPage \in Images
      BY <2>0, <2>1, Sizes DEF Received, Turns, InProgress, Reached, WorkTyped, Registers,
          NoChunk
    <2>5. Verified'
      BY <1>1, <1>2, <2>1, <2>4, Sizes DEF Verified, ReadPages
    <2>6. Completed'
      BY <2>0, <2>1 DEF PickUp, Completed
    <2>7. RecordsAreProved'
      BY <2>0, RecordsStay DEF PickUp
    <2> QED
      BY <2>1, <2>2, <2>3, <2>4, <2>5, <2>6, <2>7
  <1> QED
    BY <1>1, <1>2, <1>3, <1>4, <1>5, <1>6

\* A page that is read joins the digest, and the pages read before it agree with it
LEMMA ReadBackKeeps ==
    ASSUME AgentInv, NEW result \in Results, ReadBack(result)
    PROVE  AgentInv'
  <1> USE DEF AgentInv
  <1>1. ReadRegion \in {"eeprom", "application", "factory"}
    BY DEF ReadRegion
  <1>2. /\ aPc = "read" /\ address < length
        /\ UNCHANGED <<target, length, digest, received, handedVars, cPc, chunk, mediaVars,
                       deviceVars, begins, boots, stray, proved>>
    BY DEF ReadBack, Fail
  <1>3. \/ phase' = "failed" /\ Return
        \/ /\ UNCHANGED <<phase, error, aPc, onEpcs>> /\ address' = address + 1
           /\ \E content \in {medium[ReadRegion][address], Junk} :
                  mediumHash' = Hash(mediumHash, content)
    BY DEF ReadBack, Fail
  <1>4. address \in Page
    BY <1>2, Sizes DEF WorkTyped, StateTyped
  <1>5. medium[ReadRegion][address] \in Content
    BY <1>1, <1>4 DEF MediaTyped
  <1>6. StateTyped' /\ MediaTyped'
    BY <1>2, <1>3 DEF StateTyped, MediaTyped
  <1>7. HashesTyped'
    BY <1>2, <1>3, <1>5, Sizes DEF HashesTyped, Hash, Return
  <1>8. WorkTyped'
    BY <1>2, <1>3, <1>4, Sizes DEF WorkTyped, Reached, Return
  <1>9. Registers'
    BY <1>2, <1>3 DEF Registers, Return
  <1>10. ASSUME ~ stray'
        PROVE  Turns' /\ Received' /\ Verified' /\ RecordsAreProved' /\ Completed'
    <2>0. ~ stray
      BY <1>10 DEF ReadBack
    <2>1. /\ phase = "verifying" /\ cPc = "idle" /\ ReadRegion = target
          /\ onEpcs <=> target # "eeprom"
      BY <2>0, <1>2, Sizes DEF Turns, ReadRegion, IsEpcs, StateTyped
    <2>2. Turns'
      BY <2>0, <2>1, <1>2, <1>3 DEF Turns, InProgress, IsEpcs, Return
    <2>3. Received'
      BY <2>0, <2>1, <1>2, <1>3 DEF Received, OnMedium, InProgress, Reached
    <2>4. onEpcs \/ address > 0 => medium[target][address] # Blank
      BY <2>0, <2>1, <1>2, <1>4, Sizes DEF Received, OnMedium, InProgress, Reached, Turns,
          IsEpcs, WorkTyped, Registers, NoChunk
    <2>5. Verified'
      BY <2>0, <2>1, <2>4, <1>2, <1>3, <1>4, Sizes DEF Verified, ReadPages, Hash, Return
    <2>6. Completed'
      BY <2>1, <1>2, <1>3 DEF Completed
    <2>7. RecordsAreProved'
      BY <2>0, <1>2, RecordsStay
    <2> QED
      BY <2>1, <2>2, <2>3, <2>4, <2>5, <2>6, <2>7
  <1> QED
    BY <1>1, <1>2, <1>3, <1>4, <1>5, <1>6, <1>7, <1>8, <1>9, <1>10

\* What agrees with the promise is the whole image: nothing of it was read as another's
LEMMA CompareKeeps ==
    ASSUME AgentInv, Compare
    PROVE  AgentInv'
  <1> USE DEF AgentInv
  <1>1. \/ aPc' = "loop" /\ address' = 0 /\ mediumHash' = Blank /\ onEpcs' = FALSE
        \/ aPc' = "commit" /\ UNCHANGED <<onEpcs, address, mediumHash>>
    BY Compared DEF Return, Stay
  <1>2. phase' \in {"failed", "complete", "writing"}
    BY Compared
  <1>3. StateTyped' /\ MediaTyped'
    BY <1>2, Compared DEF StateTyped, MediaTyped
  <1>4. HashesTyped'
    BY <1>1, Compared, Sizes DEF HashesTyped
  <1>5. WorkTyped'
    BY <1>1, Compared, Sizes DEF WorkTyped, Reached
  <1>6. Registers'
    BY <1>1, Compared DEF Registers
  <1>7. ASSUME ~ stray'
        PROVE  Turns' /\ Received' /\ Verified' /\ RecordsAreProved' /\ Completed'
    <2>0. ~ stray
      BY <1>7, Compared
    <2>1. /\ phase = "verifying" /\ cPc = "idle" /\ ~ verifyPending /\ ReadRegion = target
          /\ (onEpcs <=> target # "eeprom")
          /\ length = Pages /\ digest \in Images
          /\ target \in {"eeprom", "application", "factory"}
      BY <2>0, Compared, Sizes DEF Turns, ReadRegion, IsEpcs, StateTyped, InProgress
    <2>2. \/ phase' = "failed" /\ aPc' = "loop"
          \/ /\ mediumHash = digest /\ error' = error /\ <<target, digest>> \in proved'
             /\ \/ target = "factory" /\ phase' = "complete" /\ aPc' = "loop"
                \/ target # "factory" /\ phase' = "writing" /\ aPc' = "commit"
                   /\ UNCHANGED <<onEpcs, address, mediumHash>>
      BY <2>1, Compared DEF Return, Stay
    <2>3. Turns'
      BY <2>0, <2>1, <2>2, Compared DEF Turns, InProgress, IsEpcs
    <2>4. Received'
      BY <2>0, <2>1, <2>2, Compared DEF Received, OnMedium, InProgress, Reached
    <2>5. mediumHash = digest => ReadPages(Pages) /\ (~ onEpcs => firstPage = mediumHash)
      BY <2>0, <2>1, Compared, Sizes DEF Verified, ReadPages, WorkTyped
    <2>6. Verified'
      BY <2>1, <2>2, <2>5, Compared DEF Verified, ReadPages
    <2>7. Completed'
      BY <2>1, <2>2, <2>5, Compared, Sizes DEF Completed, ReadPages, Whole
    <2>8. proved \subseteq proved'
      BY Compared
    <2>9. RecordsAreProved'
      BY <2>0, <2>8, Compared DEF RecordsAreProved
    <2> QED
      BY <2>1, <2>2, <2>3, <2>4, <2>5, <2>6, <2>7, <2>8, <2>9
  <1> QED
    BY <1>1, <1>2, <1>3, <1>4, <1>5, <1>6, <1>7

\* The record is written for what was proved, and for nothing else
LEMMA CommitKeeps ==
    ASSUME AgentInv, NEW result \in Results, Commit(result)
    PROVE  AgentInv'
  <1> USE DEF AgentInv
  <1>1. \/ /\ aPc' = "loop" /\ phase' = "failed"
           /\ address' = 0 /\ mediumHash' = Blank /\ onEpcs' = FALSE
        \/ /\ aPc' = "program" /\ onEpcs
           /\ UNCHANGED <<onEpcs, address, mediumHash, phase, error>>
        \/ /\ aPc' = "reread" /\ phase' = "verifying"
           /\ UNCHANGED <<onEpcs, address, mediumHash, error>>
    BY Committed DEF Return, Stay
  <1>2. \/ onEpcs /\ medium' = medium /\ bootBlock' \in {bootBlock, Junk, Blank, mediumHash}
        \/ /\ ~ onEpcs /\ bootBlock' = bootBlock
           /\ \E content \in {Junk, firstPage} :
                  medium' = [medium EXCEPT !["eeprom"][0] = content]
    BY Committed DEF RecordLeft
  <1>3. bootBlock' \in Content
    BY <1>2, Sizes DEF HashesTyped
  <1>4. medium' \in [{"eeprom", "application", "factory"} -> [Page -> Content]]
    BY <1>2, Sizes DEF HashesTyped, MediaTyped
  <1>5. StateTyped' /\ MediaTyped'
    BY <1>1, <1>4, Committed DEF StateTyped, MediaTyped
  <1>6. HashesTyped'
    BY <1>1, <1>3, Committed, Sizes DEF HashesTyped
  <1>7. WorkTyped'
    BY <1>1, Committed, Sizes DEF WorkTyped, Reached
  <1>8. Registers'
    BY <1>1, Committed DEF Registers
  <1>9. ASSUME ~ stray'
        PROVE  Turns' /\ Received' /\ Verified' /\ RecordsAreProved' /\ Completed'
    <2>0. ~ stray
      BY <1>9, Committed
    <2>1. /\ phase = "writing" /\ cPc = "idle" /\ ~ verifyPending
          /\ onEpcs <=> target # "eeprom"
          /\ mediumHash = digest /\ digest \in Images /\ target \in {"eeprom", "application"}
          /\ <<target, digest>> \in proved /\ (~ onEpcs => firstPage = digest)
          /\ ReadPages(Pages)
      BY <2>0, Committed, Sizes DEF Turns, Verified, IsEpcs, StateTyped, InProgress
    <2>2. Turns'
      BY <2>0, <2>1, <1>1, Committed DEF Turns, InProgress, IsEpcs
    <2>3. \A p \in Page : onEpcs \/ p > 0 => medium'[target][p] = medium[target][p]
      BY <2>1, <1>2 DEF MediaTyped
    <2>4. Received'
      BY <2>0, <2>1, <2>3, <1>1, Committed DEF Received, OnMedium, InProgress, Reached, IsEpcs
    <2>5. Verified'
      BY <2>1, <2>3, <1>1, Committed DEF Verified, ReadPages
    <2>6. Completed'
      BY <1>1, <2>1 DEF Completed
    <2>7. onEpcs => target = "application"
      BY <2>1
    <2>8. bootBlock' \in Images => <<"application", bootBlock'>> \in proved
      BY <1>2, <2>0, <2>1, <2>7, Sizes DEF RecordsAreProved
    <2>9. DOMAIN medium = {"eeprom", "application", "factory"} /\ DOMAIN medium["eeprom"] = Page
      BY DEF MediaTyped
    <2>10. \A content : [medium EXCEPT !["eeprom"][0] = content]["eeprom"][0] = content
      BY <2>9, Sizes
    <2>11. ~ onEpcs => medium'["eeprom"][0] \in {Junk, firstPage}
      BY <1>2, <2>10
    <2>12. RecordsAreProved'
      BY <1>2, <2>0, <2>1, <2>8, <2>11, Committed, Sizes DEF RecordsAreProved
    <2> QED
      BY <2>1, <2>2, <2>3, <2>4, <2>5, <2>6, <2>7, <2>8, <2>9, <2>10, <2>11, <2>12
  <1> QED
    BY <1>1, <1>2, <1>3, <1>4, <1>5, <1>6, <1>7, <1>8, <1>9

\* An update is complete when the record itself was read back
LEMMA RereadKeeps ==
    ASSUME AgentInv, NEW result \in Results, Reread(result)
    PROVE  AgentInv'
  <1> USE DEF AgentInv
  <1>1. /\ aPc' = "loop" /\ address' = 0 /\ mediumHash' = Blank /\ onEpcs' = FALSE
        /\ phase' \in {"failed", "complete"}
    BY RereadEnds DEF Return
  <1>2. StateTyped' /\ MediaTyped'
    BY <1>1, RereadEnds DEF StateTyped, MediaTyped
  <1>3. HashesTyped'
    BY <1>1, RereadEnds, Sizes DEF HashesTyped
  <1>4. WorkTyped'
    BY <1>1, RereadEnds, Sizes DEF WorkTyped, Reached
  <1>5. Registers'
    BY <1>1, RereadEnds DEF Registers
  <1>6. ASSUME ~ stray'
        PROVE  Turns' /\ Received' /\ Verified' /\ RecordsAreProved' /\ Completed'
    <2>0. ~ stray
      BY <1>6, RereadEnds
    <2>1. /\ phase = "verifying" /\ cPc = "idle" /\ ~ verifyPending
          /\ onEpcs <=> target # "eeprom"
          /\ mediumHash = digest /\ digest \in Images /\ target \in {"eeprom", "application"}
          /\ (~ onEpcs => firstPage = digest) /\ ReadPages(Pages)
      BY <2>0, RereadEnds, Sizes DEF Turns, Verified, IsEpcs, StateTyped, InProgress
    <2>2. Turns'
      BY <2>0, <2>1, <1>1, RereadEnds DEF Turns, InProgress, IsEpcs
    <2>3. Received' /\ Verified'
      BY <1>1, <2>1, RereadEnds DEF Received, InProgress, Verified
    <2>4. phase' = "complete" => \A p \in Page : medium[target][p] = digest
      BY <2>1, RereadEnds, Sizes DEF ReadPages
    <2>5. Completed'
      BY <2>1, <2>4, RereadEnds DEF Completed, Whole
    <2>6. RecordsAreProved'
      BY <2>0, RereadEnds, RecordsStay
    <2> QED
      BY <2>1, <2>2, <2>3, <2>4, <2>5, <2>6
  <1> QED
    BY <1>1, <1>2, <1>3, <1>4, <1>5, <1>6

(***************************************************************************)
(* Requests and restarts are counted, so that one that comes is seen.      *)
(***************************************************************************)
Counted == begins \in Nat /\ boots \in Nat

LEMMA Counting ==
    ASSUME Next
    PROVE  /\ begins' = begins \/ begins' = begins + 1
           /\ boots' = boots \/ boots' = boots + 1
  <1>1. ASSUME Begin
        PROVE  UNCHANGED boots /\ (begins' = begins \/ begins' = begins + 1)
    BY <1>1 DEF Begin, StallBegin, RefuseBegin, AcceptBegin, vars
  <1>2. ASSUME Data PROVE UNCHANGED <<begins, boots>>
    BY <1>2 DEF Data, RefuseData, RefuseChunk, TakeChunk
  <1>3. ASSUME NEW t \in Targets, Finish(t) PROVE UNCHANGED <<begins, boots>>
    BY <1>3, Finished
  <1>4. ASSUME StartCollecting \/ StopCollecting \/ ReconfigureFpga \/ RamBoot
        PROVE  UNCHANGED <<begins, boots>>
    BY <1>4 DEF StartCollecting, StopCollecting, ReconfigureFpga, RamBoot
  <1>5. ASSUME ResetDevice \/ PowerLoss
        PROVE  UNCHANGED begins /\ boots' = boots + 1
    BY <1>5 DEF ResetDevice, PowerLoss, Restarts, RestartsInto
  <1>6. ASSUME Callback \/ Application PROVE UNCHANGED <<begins, boots>>
    BY <1>6 DEF Callback, Application, EndChunk, EraseSector, WritePage, PickUp, ReadBack,
          Compare, Commit, Reread
  <1> QED
    BY <1>1, <1>2, <1>3, <1>4, <1>5, <1>6 DEF Next

-----------------------------------------------------------------------------
(* The invariant *)

LEMMA AgentInit == Init => AgentInv /\ Counted
  <1> SUFFICES ASSUME Init PROVE AgentInv /\ Counted
    OBVIOUS
  <1> USE Sizes DEF Init
  <1>1. StateTyped /\ HashesTyped /\ Counted
    BY DEF StateTyped, HashesTyped, Counted
  <1>2. WorkTyped
    BY DEF WorkTyped, Reached, NoChunk
  <1>3. chunk \in [left : Nat, done : Nat, content : Content]
    BY DEF NoChunk
  <1>4. /\ received = 0 /\ length = 0 /\ cPc = "idle" /\ chunk = NoChunk
        /\ stray \in BOOLEAN /\ verifyPending \in BOOLEAN /\ dataCollection \in BOOLEAN
        /\ onEpcs \in BOOLEAN
    BY DEF NoChunk
  <1>5. Registers
    BY <1>3, <1>4 DEF Registers
  <1>6. MediaTyped
    BY DEF MediaTyped
  <1>7. Turns /\ Received /\ Verified /\ Completed
    BY DEF Turns, Received, Verified, Completed, InProgress
  <1>8. RecordsAreProved
    BY DEF RecordsAreProved
  <1> QED
    BY <1>1, <1>2, <1>5, <1>6, <1>7, <1>8 DEF AgentInv

LEMMA AgentNext ==
    ASSUME AgentInv, Counted, [Next]_vars
    PROVE  AgentInv' /\ Counted'
  <1>1. CASE UNCHANGED vars
    BY <1>1, Unmoved DEF vars, Counted
  <1>2. CASE Next
    <2> SUFFICES AgentInv'
      BY <1>2, Counting DEF Counted
    <2>1. CASE Begin
      BY <2>1, Unmoved, RefuseBeginKeeps, AcceptBeginKeeps DEF Begin, StallBegin
    <2>2. CASE Data
      BY <2>2, RefuseDataKeeps, RefuseChunkKeeps, TakeChunkKeeps DEF Data
    <2>3. CASE \E t \in Targets : Finish(t)
      BY <2>3, FinishKeeps
    <2>4. CASE StartCollecting \/ StopCollecting \/ ReconfigureFpga \/ RamBoot
      BY <2>4, DeviceKeeps
    <2>5. CASE ResetDevice \/ PowerLoss
      <3>1. /\ FirmwareBoots(medium) \in Images \cup {"bootloader"}
            /\ RestartsInto(FirmwareBoots(medium))
            /\ fpga' \in Images \cup {"dark", "factory"}
        BY <2>5, WhatStarts DEF ResetDevice, PowerLoss, Restarts, AgentInv, MediaTyped
      <3> QED
        BY <3>1, RestartKeeps
    <2>6. CASE Callback
      BY <2>6, EndChunkKeeps, EraseKeeps, WritePageKeeps DEF Callback
    <2>7. CASE Application
      BY <2>7, PickUpKeeps, CompareKeeps, ReadBackKeeps, CommitKeeps, RereadKeeps DEF
          Application
    <2> QED
      BY <1>2, <2>1, <2>2, <2>3, <2>4, <2>5, <2>6, <2>7 DEF Next
  <1> QED
    BY <1>1, <1>2

LEMMA AgentAlways == Spec => [](AgentInv /\ Counted)
  BY AgentInit, AgentNext, PTL DEF Spec

-----------------------------------------------------------------------------
(* The theorems *)

LEMMA TurnsAreSafe == AgentInv => UpdateIsSafe
  BY TypeParts DEF AgentInv, UpdateIsSafe, Turns, WorkTyped, InProgress

(***************************************************************************)
(* The USB callback and the application thread share the agent's state     *)
(* without a lock: as long as the host waits for a verification to end,    *)
(* only one of them is at work on the medium, each in its own phases, and  *)
(* no capture runs meanwhile.                                              *)
(***************************************************************************)
THEOREM UpdatesAreSafe == Spec => []UpdateIsSafe
  BY AgentAlways, TurnsAreSafe, PTL

LEMMA ProvedBoot == AgentInv => OnlyProvedBoots
  <1> SUFFICES ASSUME AgentInv, ~ stray PROVE OnlyProvedBoots
    BY DEF OnlyProvedBoots
  <1>1. RecordsAreProved
    BY DEF AgentInv
  <1>2. FirmwareBoots(medium) \in {i \in Images : <<"eeprom", i>> \in proved} \cup {"bootloader"}
    BY <1>1 DEF RecordsAreProved, FirmwareBoots
  <1>3. FpgaBoots(medium, bootBlock) \in
           {i \in Images : <<"application", i>> \in proved} \cup OldDesign \cup {"factory", "dark"}
    BY <1>1 DEF RecordsAreProved, FpgaBoots
  <1> QED
    BY <1>2, <1>3 DEF OnlyProvedBoots

LEMMA CompleteBoots == AgentInv => CompleteIsWhole
  <1> SUFFICES ASSUME AgentInv, phase = "complete", ~ stray PROVE CompleteIsWhole
    BY DEF CompleteIsWhole
  <1>1. error = None /\ digest \in Images
    BY DEF AgentInv, Turns
  <1>2. Whole(medium[target], digest) /\ (target = "application" => bootBlock = digest)
    BY DEF AgentInv, Completed
  <1>3. target = "eeprom" => FirmwareBoots(medium) = digest
    BY <1>1, <1>2, Sizes DEF FirmwareBoots, Whole
  <1>4. target = "application" => FpgaBoots(medium, bootBlock) \in {digest, "dark"} \cup OldDesign
    BY <1>1, <1>2 DEF FpgaBoots
  <1> QED
    BY <1>1, <1>2, <1>3, <1>4 DEF CompleteIsWhole

(***************************************************************************)
(* However an update is interrupted, refused or garbled, and wherever      *)
(* power goes, the boot ROM and the factory gateware start only an image   *)
(* that was read back whole and compared; and a device that reports        *)
(* COMPLETE holds the promised image, whole, and starts it.                *)
(***************************************************************************)
THEOREM OnlyTheProvedBoots == Spec => []BootsWhatWasProved
  <1>1. AgentInv => BootsWhatWasProved
    BY ProvedBoot, CompleteBoots DEF BootsWhatWasProved
  <1> QED
    BY <1>1, AgentAlways, PTL

LEMMA FailureStays ==
    ASSUME AgentInv, Counted, Next, phase = "failed", ~ stray, begins' = begins, boots' = boots
    PROVE  phase' = "failed" /\ error' = error
  <1>1. aPc = "loop" /\ cPc = "idle" /\ ~ verifyPending
    BY DEF AgentInv, Turns, WorkTyped
  <1>2. ~ (begins' = begins + 1) /\ ~ (boots' = boots + 1)
    BY DEF Counted
  <1>3. CASE Begin
    BY <1>2, <1>3 DEF Begin, StallBegin, RefuseBegin, AcceptBegin, vars
  <1>4. CASE Data
    <2>1. ASSUME NEW t \in Targets, NEW inOrder \in BOOLEAN, NEW pages \in 0 .. UpdateMaxChunk,
                 NEW content \in Images \cup {Junk}
          PROVE  ~ RefuseChunk(t, inOrder, pages, content)
                 /\ ~ TakeChunk(t, inOrder, pages, content)
      BY RefusedMidway, Taken
    <2> QED
      BY <1>4, <2>1 DEF Data, RefuseData, Fail
  <1>5. CASE \E t \in Targets : Finish(t)
    BY <1>5, Finished
  <1>6. CASE StartCollecting \/ StopCollecting \/ ReconfigureFpga \/ RamBoot
    BY <1>6 DEF StartCollecting, StopCollecting, ReconfigureFpga, RamBoot
  <1>7. CASE ResetDevice \/ PowerLoss
    BY <1>2, <1>7 DEF ResetDevice, PowerLoss, Restarts, RestartsInto
  <1>8. CASE Callback
    BY <1>1, <1>8 DEF Callback, EndChunk, EraseSector, WritePage
  <1>9. CASE Application
    BY <1>1, <1>9 DEF Application, PickUp, ReadBack, Compare, Commit, Reread
  <1> QED
    BY <1>3, <1>4, <1>5, <1>6, <1>7, <1>8, <1>9 DEF Next

(***************************************************************************)
(* What the host reads of a failure is the failure that came first, until  *)
(* it begins again or the device restarts (updateStateFail).               *)
(***************************************************************************)
THEOREM FailuresAreRemembered == Spec => FailureIsRemembered
  <1>1. AgentInv /\ Counted /\ [Next]_vars =>
           [phase = "failed" /\ begins' = begins /\ boots' = boots /\ ~ stray
            => phase' = "failed" /\ error' = error]_vars
    BY FailureStays
  <1> QED
    BY <1>1, AgentAlways, PTL DEF Spec, FailureIsRemembered
==============================================================================
