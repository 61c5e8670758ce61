------------------------------ MODULE UpdateHost ------------------------------
(***************************************************************************)
(* The host's side of an update, driving the device of UpdateAgent: an     *)
(* ordinary update, the repair of a device that is in its boot ROM, and    *)
(* the bring-up of a board that was never programmed or runs the legacy    *)
(* design (ddd-gui/src/capture/update_orchestrator.cpp over                *)
(* device_updater.cpp, device_recovery.cpp and bringup_orchestrator.cpp,   *)
(* on a worker thread of the windows).                                     *)
(*                                                                         *)
(* One call of IDeviceUpdater is one step, taken together with what the    *)
(* device does in its USB callback. Around them: a stop asked for at any   *)
(* moment, a transfer whose outcome the host never learns, a device slower *)
(* than the host's patience, power that goes, and a user who tries again,  *)
(* with this bundle or another.                                            *)
(***************************************************************************)
EXTENDS UpdateAgent, Sequences

CONSTANTS
    Bundles, Releases,      \* what a bundle may hold, and of which releases
    MaxTroubles             \* bound: runs started, and what goes wrong outside, together

ASSUME HostAssumption ==
    /\ Targets = {"eeprom", "application", "factory"}
    /\ Images \cap {"bootloader", "factory", "dark"} = {}
    /\ Releases \subseteq Images \ OldDesign
    /\ Bundles \subseteq SUBSET {"eeprom", "application", "factory"}
    /\ MaxTroubles \in Nat

VARIABLES
    hPc,            \* where the worker thread is in the orchestrator
    flow, carries, image,   \* what was asked for, what the bundle holds, and of which release
    todo, sent,     \* components still to install, and the pages of the first that were sent
    linked,         \* channel_ reaches a device
    resetDue,       \* the device has acknowledged RESET and is about to obey
    cancel,         \* cancelled_
    outcome,        \* UpdateOutcome
    configured,     \* fpga_configured_
    jumper,         \* PMODE is fitted: the FX3 starts in its boot ROM
    runs, losses, clean     \* history; clean: nothing stood in the way of this run

bundleVars == <<flow, carries, image>>
runVars    == <<todo, sent, linked, resetDue, cancel>>
boardVars  == <<configured, jumper>>
countVars  == <<runs, losses, clean>>
hostVars   == <<hPc, bundleVars, runVars, outcome, boardVars, countVars>>

NoOutcome == [succeeded |-> FALSE, confirmed |-> FALSE, problem |-> None]
AllTargets == {"eeprom", "application", "factory"}

-----------------------------------------------------------------------------
(* What is written, in which order *)

IfHeld(t, held) == IF t \in held THEN <<t>> ELSE <<>>

\* Mutant: the gateware before the firmware that keeps off its pins
GatewareFirst(f, held) ==
    IF f = "bring-up" THEN <<"factory", "application", "eeprom">>
    ELSE IfHeld("eeprom", held) \o IfHeld("application", held)

Plan(f, held) ==
    IF f = "bring-up" THEN <<"eeprom", "factory", "application">>
    ELSE IfHeld("eeprom", held) \o IfHeld("application", held)

Lacks(f, held) ==
    \/ f = "bring-up" /\ held # AllTargets
    \/ f = "recover" /\ "eeprom" \notin held
    \/ Plan(f, held) = <<>>

\* What the windows offer for a device: update_gate.cpp keeps an ordinary update
\* from a device of the legacy design and a repair from any but a boot ROM
Offered(f) ==
    IF f = "update" THEN firmware \notin OldDesign \cup {"bootloader"}
    ELSE firmware = "bootloader"

End(result) ==
    /\ hPc' = "idle" /\ outcome' = result
    /\ todo' = <<>> /\ sent' = 0 /\ cancel' = FALSE /\ linked' = FALSE
    /\ UNCHANGED <<bundleVars, resetDue, boardVars, runs>>
Fails(problem)    == End([NoOutcome EXCEPT !.problem = problem])
Succeeds(checked) == End([succeeded |-> TRUE, confirmed |-> checked, problem |-> None])

Goes(pc) ==
    /\ hPc' = pc
    /\ UNCHANGED <<bundleVars, todo, linked, resetDue, cancel, outcome, boardVars, runs>>

Loses == runs + losses < MaxTroubles /\ losses' = losses + 1 /\ clean' = FALSE
AllWell == UNCHANGED <<losses, clean>>

\* The device is at rest, and the rest of the board carries what the bundle does not
Promising(f, held) ==
    /\ cPc = "idle" /\ aPc = "loop" /\ ~verifyPending /\ ~InProgress
    /\ "application" \in held => Bridged
    /\ f # "bring-up" =>
        /\ ~jumper
        /\ "eeprom" \notin held => FirmwareBoots(medium) # "bootloader"
        /\ "application" \in held => FpgaBoots(medium, bootBlock) \notin OldDesign \cup {"dark"}

Start(f, held, release) ==
    /\ hPc = "idle" /\ Offered(f) /\ ~resetDue
    /\ runs + losses < MaxTroubles /\ runs' = runs + 1
    /\ flow' = f /\ carries' = held /\ image' = release
    /\ sent' = 0 /\ cancel' = FALSE /\ UNCHANGED <<losses, resetDue, boardVars>>
    /\ IF Lacks(f, held) \/ (f = "bring-up" /\ ~configured)
       THEN /\ hPc' = "idle" /\ todo' = <<>> /\ linked' = FALSE /\ clean' = FALSE
            /\ outcome' = [NoOutcome EXCEPT !.problem = "nothing"]
       ELSE /\ hPc' = IF f = "update" THEN "status" ELSE "wake"
            /\ todo' = Plan(f, held) /\ linked' = (f = "update") /\ outcome' = NoOutcome
            /\ clean' = Promising(f, held)
    /\ UNCHANGED vars

\* RecoveryInstaller::Wake: the bundle's firmware runs from the FX3's memory
Wake ==
    /\ hPc = "wake"
    /\ \/ /\ cancel /\ Fails("untouched") /\ AllWell /\ UNCHANGED vars
       \/ /\ ~cancel /\ RamBoot /\ firmware' = image
          /\ \/ /\ hPc' = "status" /\ linked' = TRUE /\ AllWell
                /\ UNCHANGED <<bundleVars, todo, sent, resetDue, cancel, outcome, boardVars, runs>>
             \/ Loses /\ Fails("unreachable")       \* it is back and cannot be opened
       \/ Loses /\ Fails("unreachable") /\ UNCHANGED vars
       \/ firmware # "bootloader" /\ Fails("unreachable") /\ AllWell /\ UNCHANGED vars

-----------------------------------------------------------------------------
(* UpdateOrchestrator::WriteComponent *)

\* A request that the device takes, whose answer may be lost on the way back,
\* or that never reaches it, or that has no device to reach
Request(deviceTakes, hostGoesOn, problem) ==
    \/ linked /\ deviceTakes /\ \/ hostGoesOn /\ AllWell
                                \/ Loses /\ Fails(problem)
    \/ linked /\ Loses /\ Fails(problem) /\ UNCHANGED vars
    \/ ~linked /\ Fails(problem) /\ AllWell /\ UNCHANGED vars

Target == Head(todo)
Unlocks == Target = "factory"       \* the flag word of TargetFlags

ReadInitialStatus ==
    /\ hPc = "status"
    /\ Request(Asked /\ UNCHANGED vars, Goes("begin") /\ sent' = 0, "unanswered")

\* The device acknowledges a BEGIN it refuses: its data stage is taken either way
BeginComponent ==
    /\ hPc = "begin"
    /\ Request(\/ AcceptBegin(Target, TRUE, Unlocks, image)
               \/ RefuseBegin(Target, TRUE, Unlocks)
               \/ StallBegin(Target, TRUE, Unlocks),
               Goes("send") /\ UNCHANGED sent, "refused")

SendChunk ==
    LET pages == IF Pages - sent < UpdateMaxChunk THEN Pages - sent ELSE UpdateMaxChunk IN
    /\ hPc = "send" /\ sent < Pages
    /\ IF cancel THEN Fails("stopped") /\ AllWell /\ UNCHANGED vars
       ELSE \/ Request(TakeChunk(Target, sent = received, pages, image),
                       Goes("send") /\ sent' = sent + pages, "refused")
            \/ linked /\ RefuseData(Target, sent = received, pages) /\ Fails("refused") /\ AllWell

\* Acknowledged whatever the device makes of it
FinishComponent ==
    /\ hPc = "send" /\ sent = Pages
    /\ Request(Finish(Target), Goes("await") /\ sent' = 0, "refused")

NextComponent ==
    /\ todo' = Tail(todo)
    /\ hPc' = IF Len(todo) > 1 THEN "status"
              ELSE IF Target = "application" THEN "reconfigure" ELSE "reset"
    /\ UNCHANGED <<bundleVars, sent, linked, resetDue, cancel, outcome, boardVars, runs>>

\* RunBringUpWrites restarts nothing and confirms nothing
Installed == IF Len(todo) = 1 /\ flow = "bring-up" THEN Succeeds(FALSE) ELSE NextComponent

\* Mutant: anything but a failure will do
AwaitAnything ==
    /\ hPc = "await"
    /\ UNCHANGED vars
    /\ \/ cancel /\ Fails("stopped") /\ AllWell
       \/ ~cancel /\ ~linked /\ Fails("unanswered") /\ AllWell
       \/ ~cancel /\ linked /\ Loses /\ Fails("unanswered")
       \/ ~cancel /\ linked /\ Asked /\ phase = "failed" /\ Fails("refused") /\ AllWell
       \/ ~cancel /\ linked /\ Asked /\ phase \in {"writing", "complete"} /\ Installed /\ AllWell

\* Mutant: a device that does not answer is asked again
AwaitForever ==
    /\ hPc = "await"
    /\ UNCHANGED vars
    /\ \/ cancel /\ Fails("stopped") /\ AllWell
       \/ ~cancel /\ linked /\ Asked /\ phase = "failed" /\ Fails("refused") /\ AllWell
       \/ ~cancel /\ linked /\ Asked /\ phase = "complete" /\ Installed /\ AllWell

\* The status is read until it says how the component ended, and no longer than
\* the device keeps moving
AwaitCompletion ==
    /\ hPc = "await"
    /\ UNCHANGED vars
    /\ \/ cancel /\ Fails("stopped") /\ AllWell
       \/ ~cancel /\ ~linked /\ Fails("unanswered") /\ AllWell
       \/ ~cancel /\ linked /\ Loses /\ Fails("unanswered")
       \/ ~cancel /\ linked /\ Asked /\ phase = "failed" /\ Fails("refused") /\ AllWell
       \/ ~cancel /\ linked /\ Asked /\ phase = "complete" /\ Installed /\ AllWell
       \/ /\ ~cancel /\ linked /\ Asked /\ phase \notin {"failed", "complete"}
          /\ Loses /\ Fails("stalled")

-----------------------------------------------------------------------------
(* The restart and what comes back *)

Reconfigure ==
    /\ hPc = "reconfigure"
    /\ \/ Request(ReconfigureFpga, Goes("reset") /\ UNCHANGED sent, "reload")
       \/ linked /\ Asked /\ (InProgress \/ ~Bridged) /\ Fails("reload") /\ AllWell /\ UNCHANGED vars

\* Reset closes the channel, and does not ask whether it was heard
ResetDown ==
    /\ hPc = "reset" /\ UNCHANGED vars
    /\ hPc' = "return" /\ linked' = FALSE
    /\ resetDue' = linked /\ (linked => Asked)
    /\ UNCHANGED <<bundleVars, todo, sent, cancel, outcome, boardVars, runs>> /\ AllWell

Restarted == IF jumper THEN "bootloader" ELSE FirmwareBoots(medium)

DeviceResets ==
    /\ resetDue /\ Asked
    /\ RestartsInto(Restarted) /\ UNCHANGED fpga
    /\ resetDue' = FALSE
    /\ UNCHANGED <<hPc, bundleVars, todo, sent, linked, cancel, outcome, boardVars, countVars>>

\* The identity the device reports is the one the bundle promised
Confirmed ==
    /\ "eeprom" \in carries => firmware = image
    /\ "application" \in carries => fpga = image

\* A device that answers at the path is taken to have returned, the one that has
\* not left yet too
WaitForReturn ==
    /\ hPc = "return" /\ UNCHANGED vars
    /\ \/ /\ Asked /\ IF resetDue THEN Loses ELSE AllWell
          /\ IF Confirmed THEN Succeeds(TRUE) ELSE Fails("mismatch")
       \/ /\ ~resetDue /\ firmware = "bootloader" /\ Fails("gone") /\ AllWell
       \/ Loses /\ Fails("gone")

-----------------------------------------------------------------------------
(* Around it *)

\* BringUpOrchestrator::ConfigureFpga, from a page that has seen the boot ROM: the
\* vectors load the bundle's factory image; failing or stopped, they leave nothing
ConfigureFpga ==
    /\ hPc = "idle" /\ firmware = "bootloader"
    /\ \/ fpga' = "factory" /\ configured' = TRUE /\ UNCHANGED <<losses, clean>>
       \/ fpga' = "dark" /\ configured' = FALSE /\ Loses
    /\ UNCHANGED <<stateVars, handedVars, cPc, chunk, verifyVars, mediaVars, dataCollection,
                   firmware, historyVars, hPc, bundleVars, runVars, outcome, jumper, runs>>

Cancel ==
    /\ hPc # "idle" /\ ~cancel /\ cancel' = TRUE /\ clean' = FALSE
    /\ UNCHANGED <<vars, hPc, bundleVars, todo, sent, linked, resetDue, outcome, boardVars,
                   runs, losses>>

\* The whole board, with the jumper as the user leaves it
PowerCycle ==
    /\ jumper' \in BOOLEAN
    /\ RestartsInto(IF jumper' THEN "bootloader" ELSE FirmwareBoots(medium))
    /\ fpga' = FpgaBoots(medium, bootBlock)
    /\ linked' = FALSE /\ resetDue' = FALSE /\ Loses
    /\ UNCHANGED <<hPc, bundleVars, todo, sent, cancel, outcome, configured, runs>>

\* A board that works, one of the legacy design with its jumper fitted, a bare one
BoardIsWorking == Init /\ jumper = FALSE
BoardIsNew(eeprom, factory) ==
    /\ phase = "idle" /\ error = None /\ target = "eeprom"
    /\ length = 0 /\ digest = None /\ received = 0
    /\ streamHash = Blank /\ firstPage = Blank /\ verifyPending = FALSE
    /\ cPc = "idle" /\ chunk = NoChunk
    /\ aPc = "loop" /\ onEpcs = FALSE /\ address = 0 /\ mediumHash = Blank
    /\ dataCollection = FALSE
    /\ medium = [t \in AllTargets |-> [p \in Page |->
                 CASE t = "eeprom" -> eeprom [] t = "factory" -> factory [] OTHER -> Blank]]
    /\ bootBlock = Blank /\ firmware = "bootloader" /\ fpga = FpgaBoots(medium, Blank)
    /\ begins = 0 /\ boots = 0 /\ faults = 0 /\ stray = FALSE
    /\ proved = {<<"eeprom", eeprom>>, <<"factory", factory>>}
    /\ jumper = TRUE

HostInit ==
    /\ BoardIsWorking \/ BoardIsNew(Blank, Blank)
       \/ \E legacy \in OldDesign : BoardIsNew(legacy, legacy)
    /\ hPc = "idle" /\ flow = "update" /\ carries = {} /\ image = Shipped
    /\ todo = <<>> /\ sent = 0 /\ linked = FALSE /\ resetDue = FALSE /\ cancel = FALSE
    /\ outcome = NoOutcome /\ configured = FALSE
    /\ runs = 0 /\ losses = 0 /\ clean = FALSE

Starts ==
    \E f \in {"update", "recover", "bring-up"}, held \in Bundles, release \in Releases : Start(f, held, release)

Host ==
    \/ Wake \/ ReadInitialStatus \/ BeginComponent \/ SendChunk \/ FinishComponent
    \/ AwaitCompletion \/ Reconfigure \/ ResetDown \/ WaitForReturn

Device ==
    /\ Callback \/ Application
    /\ UNCHANGED <<hPc, bundleVars, runVars, outcome, boardVars, runs, losses>>
    /\ clean' = (clean /\ faults' = faults)

HostNext ==
    \/ Starts \/ Host \/ Device \/ DeviceResets
    \/ ConfigureFpga \/ Cancel \/ PowerCycle

allVars == <<vars, hostVars>>
HostSpec ==
    /\ HostInit /\ [][HostNext]_allVars
    /\ WF_allVars(Host) /\ WF_allVars(Device) /\ WF_allVars(DeviceResets)

-----------------------------------------------------------------------------
(* Properties *)

\* A line of the interconnect changed direction between the two designs: a board
\* never runs the legacy firmware over the new gateware, wherever a bring-up is
\* stopped and however the board is powered and jumpered afterwards.
InterconnectIsSafe == firmware \in OldDesign => fpga \in OldDesign \cup {"dark"}

\* An update that says it succeeded has left each image it installed whole, and
\* the board starts them the next time it starts: what the device says of itself
\* may be of another verification, when a user stopped one and tried again, but
\* then the identity read back after the restart is not the promised one. (Unless
\* that was read before the restart, of firmware that runs from memory.)
SuccessIsWhole ==
    outcome.succeeded /\ (stray => losses = 0) =>
    /\ \A i \in DOMAIN Plan(flow, carries) : Whole(medium[Plan(flow, carries)[i]], image)
    /\ "eeprom" \in carries => FirmwareBoots(medium) = image
    /\ "application" \in carries => FpgaBoots(medium, bootBlock) \in {image, "dark"}

\* Nothing but a lost answer, a fault, a stop or a loss of power defeats an update
\* of a device that was at rest: it ends in success.
CleanRunSucceeds == hPc = "idle" /\ clean => outcome.succeeded

\* The outcome the user is shown is the truth about the board, either way.
OutcomeIsTrue == SuccessIsWhole /\ CleanRunSucceeds

\* Whatever the device does, or has stopped doing, the worker thread comes back.
EveryRunReturns == hPc # "idle" ~> hPc = "idle"

\* "It still has the firmware it started with", a stopped update says
\* (update_orchestrator.cpp:280-281, 454-455); here the first update of a board that
\* works, which started with the firmware it shipped with.
StoppedKeepsItsFirmware ==
    outcome.problem = "stopped" /\ flow = "update" /\ runs = 1
    => FirmwareBoots(medium) = Shipped
=============================================================================
