----------------------------- MODULE AutoCapture -----------------------------
(***************************************************************************)
(* The automatic capture of a side: the sequence that decides              *)
(* (ddd-gui/src/player/auto_capture_sequence.cpp), the controller that     *)
(* drives the player and the capture engine with it                        *)
(* (gui/auto_capture_controller.cpp), and the session that exchanges one   *)
(* command for one answer over the serial line (player_session.cpp, on the *)
(* thread of gui/player_worker.cpp).                                       *)
(*                                                                         *)
(* The player is external: a disc that turns through its programme, obeys  *)
(* or refuses, answers late or not at all, and has a person beside it. An  *)
(* answer that comes after its wait ran out is read as the answer to the   *)
(* next command, unless that command's DiscardBuffers finds it there.      *)
(***************************************************************************)
EXTENDS Naturals, Sequences, FiniteSetsExt

CONSTANTS
    Controls,           \* what the model can be asked: of "keyLock", "disc", "mode", "stop"
    kStallReadings, kStoppedReadings,
    LastAddress,        \* of the programme; 0 is its lead-in, LastAddress + 1 its lead-out
    MaxMishaps          \* bound: answers not given in time, and what a person or a fault does

ASSUME AutoCaptureAssumption ==
    /\ Controls \subseteq {"keyLock", "disc", "mode", "stop"}
    /\ {kStallReadings, kStoppedReadings, LastAddress} \subseteq Nat \ {0}
    /\ MaxMishaps \in Nat

VARIABLES
    plan,           \* shape, key_lock, start_address (the end is LastAddress)
    seq,            \* the members of AutoCaptureSequence
    waiting,        \* what the controller waits for: "step" (posted), "reply", "over"
    connected, late,    \* the session; an answer still to come
    disc, at, sticks, panelLocked,   \* the player; sticks: the disc plays and does not advance
    capturing,      \* CaptureController::capturing_
    held,           \* the addresses that passed while the run's file was open
    seenSpinning, stoppedReadings,  \* the watch on a capture outside a run
    mishaps, silent,    \* history: what went wrong; some answer did not come in time
    saidResting, ejected,   \* the player last said its disc rests; a stop opened the tray all the same
    misread,        \* an answer was read as that of another question
    headObeyed      \* the head learned how the disc was, and its stop was obeyed if it needed one

playerVars  == <<disc, at, sticks, panelLocked>>
sessionVars == <<connected, late>>
engineVars  == <<capturing, held, seenSpinning, stoppedReadings>>
history     == <<saidResting, ejected, misread, headObeyed>>
countVars   == <<mishaps, silent>>
autoVars    == <<plan, seq, waiting, sessionVars, playerVars, engineVars, countVars, history>>

-----------------------------------------------------------------------------
(* The sequence: the steps of a run, and which of them apply *)

Programme == 1 .. LastAddress

BeginsWithSpinUp == plan.shape \in {"wholeSide", "fromSpinUp"}
EndsWithSpinDown == plan.shape = "wholeSide"

\* Mutant: the disc is started first, and then the file
StartsTheDiscFirst ==
    IF BeginsWithSpinUp
    THEN <<"lock", "confirm", "checkTransport", "spinDown", "spinUp", "startCapture", "watch">>
    ELSE <<"lock", "confirm", "seek", "startCapture", "spinUp", "watch">>

HeadStages ==
    IF BeginsWithSpinUp
    THEN <<"lock", "confirm", "checkTransport", "spinDown", "startCapture", "spinUp", "watch">>
    ELSE <<"lock", "confirm", "seek", "startCapture", "spinUp", "watch">>

TailStages ==
    IF EndsWithSpinDown THEN <<"checkBefore", "stopPlayer", "stopCapture", "unlock", "finished">>
    ELSE <<"stopCapture", "checkBefore", "stopPlayer", "unlock", "finished">>

HeadApplies(s, stage) ==
    CASE stage = "lock"           -> plan.key_lock /\ "keyLock" \in Controls
      [] stage = "confirm"        -> "disc" \in Controls
      [] stage = "checkTransport" -> "mode" \in Controls
      [] stage = "spinDown"       -> "stop" \in Controls /\ s.turning
      [] OTHER                    -> TRUE

NewSequence ==
    [stage |-> "lock", pending |-> FALSE, finishing |-> FALSE, cancel |-> FALSE,
     pendingOutcome |-> "completed", outcome |-> "inProgress", keyLock |-> FALSE,
     transportStarted |-> FALSE, turning |-> FALSE, captureStarted |-> FALSE,
     captureStopped |-> FALSE, linkFailed |-> FALSE, lastAddress |-> 0, readings |-> 0]

CaptureRunning(s)  == s.captureStarted /\ ~s.captureStopped
WouldStopPlayer(s) == s.transportStarted /\ ~s.linkFailed /\ "stop" \in Controls

\* Mutant: the capture is left running wherever the link has died since
StopsOverALinkOnly(s, stage) ==
    CASE stage = "stopCapture" -> CaptureRunning(s) /\ ~s.linkFailed
      [] stage = "checkBefore" -> WouldStopPlayer(s) /\ "mode" \in Controls
      [] stage = "stopPlayer"  -> WouldStopPlayer(s) /\ s.turning
      [] stage = "unlock"      -> s.keyLock /\ ~s.linkFailed
      [] OTHER                 -> TRUE

TailApplies(s, stage) ==
    CASE stage = "stopCapture" -> CaptureRunning(s) /\ s.pendingOutcome # "linkFailed"
      [] stage = "checkBefore" -> WouldStopPlayer(s) /\ "mode" \in Controls
      [] stage = "stopPlayer"  -> WouldStopPlayer(s) /\ s.turning
      [] stage = "unlock"      -> s.keyLock /\ ~s.linkFailed /\ "keyLock" \in Controls
      [] OTHER                 -> TRUE

\* The first stage of a list, from the given one on, that applies
From(stages, stage, Applies(_)) ==
    LET first == CHOOSE i \in DOMAIN stages : stages[i] = stage
    IN  stages[Min({i \in first .. Len(stages) : Applies(stages[i])})]
After(stages, stage) ==
    stages[1 + CHOOSE i \in DOMAIN stages : stages[i] = stage]

AdvanceTeardown(s, stage) ==
    LET next == From(TailStages, stage, LAMBDA g : TailApplies(s, g))
    IN  [s EXCEPT !.stage = next,
                  !.outcome = IF next = "finished" THEN s.pendingOutcome ELSE @]
CompleteTeardownStep(s) == AdvanceTeardown(s, After(TailStages, s.stage))

\* Mutant: what the head learned of the disc is kept for the tail
FinishKnowing(s, result) ==
    IF s.finishing THEN s
    ELSE AdvanceTeardown([s EXCEPT !.finishing = TRUE, !.pendingOutcome = result,
             !.pending = FALSE, !.linkFailed = @ \/ result = "linkFailed"], Head(TailStages))

\* The tail asks neither for the cancel again nor for what the watch read
Finish(s, result) ==
    IF s.finishing THEN s
    ELSE AdvanceTeardown([s EXCEPT !.finishing = TRUE, !.pendingOutcome = result,
             !.pending = FALSE, !.turning = FALSE, !.linkFailed = @ \/ result = "linkFailed",
             !.cancel = FALSE, !.readings = 0, !.lastAddress = 0], Head(TailStages))

Advance(s) == [s EXCEPT !.stage = After(HeadStages, s.stage)]
Honour(s)  == IF s.cancel THEN Finish(s, "cancelled") ELSE s

\* The step handed out: the same one until it is answered
NextStep(s) ==
    LET t == Honour(s)
        u == IF t.finishing THEN t
             ELSE [t EXCEPT !.stage = IF @ \in {"watch", "checkStall"} THEN @
                                      ELSE From(HeadStages, @, LAMBDA g : HeadApplies(t, g))]
    IN  IF s.pending \/ s.outcome # "inProgress" THEN s
        ELSE [u EXCEPT !.pending = u.outcome = "inProgress",
                       !.transportStarted = @ \/ u.stage \in {"seek", "spinUp"}]

-----------------------------------------------------------------------------
(* Answers: what one is, and how each question reads it *)

Answer(kind)    == [kind |-> kind, state |-> "none", address |-> 0]
Mode(state)     == [kind |-> "mode", state |-> state, address |-> 0]
Address(number) == [kind |-> "address", state |-> "none", address |-> number]

Queries == {"confirm", "checkTransport", "checkBefore", "checkStall", "watch"}
\* A refusal ("E04") is a text like another to a question, and any text that
\* does not hold an 'E' is an acknowledgement to a command
Ok(stage, a) == IF stage \in Queries THEN a.kind # "silence" ELSE a.kind \notin {"silence", "refusal"}

Turning(state)    == state \in {"settingUp", "playing", "paused"}
PlayerState(a)    == IF a.kind = "mode" THEN a.state ELSE "unknown"
DiscDisagrees(a)  == IF a.kind \in {"disc", "address"} THEN BOOLEAN ELSE {FALSE}

Stall(s) ==
    LET n == s.readings + 1
    IN  [s EXCEPT !.readings = n, !.stage = IF n >= kStallReadings THEN "checkStall" ELSE @]

\* Mutant: an address that does not advance is waited for
WatchesForEver(s, a) ==
    IF a.kind # "address" THEN Stall(s)
    ELSE IF a.address >= LastAddress THEN Finish(s, "completed")
    ELSE [s EXCEPT !.readings = 0, !.lastAddress = a.address]

Watch(s, a) ==
    IF a.kind # "address" THEN Stall(s)
    ELSE IF a.address >= LastAddress THEN Finish(s, "completed")    \* or in the lead-out
    ELSE IF a.address = 0 THEN [s EXCEPT !.readings = 0]            \* in the lead-in
    ELSE IF a.address > s.lastAddress THEN [s EXCEPT !.readings = 0, !.lastAddress = a.address]
    ELSE Stall(s)

CheckStall(s, a) ==
    CASE PlayerState(a) = "settingUp" -> [s EXCEPT !.readings = 0, !.stage = "watch"]
      [] PlayerState(a) \in {"paused", "parked", "open"} -> Finish(s, "playerStopped")
      [] OTHER -> Finish(s, "stalled")

Transport(s, a) == IF a.kind = "silence" THEN s ELSE [s EXCEPT !.turning = Turning(PlayerState(a))]

Applied(s, a, disagrees) ==
    LET ok == Ok(s.stage, a) IN
    IF a.kind \in {"linkFailed", "notConnected"}
    THEN IF s.finishing THEN CompleteTeardownStep([s EXCEPT !.linkFailed = TRUE])
         ELSE Finish(s, "linkFailed")
    ELSE CASE s.stage = "checkBefore" -> CompleteTeardownStep(Transport(s, a))
           [] s.stage \in {"stopPlayer", "unlock"} -> CompleteTeardownStep(s)
           [] s.stage = "lock"     -> Advance([s EXCEPT !.keyLock = ok])
           [] s.stage = "confirm"  -> IF disagrees THEN Finish(s, "discChanged") ELSE Advance(s)
           [] s.stage = "checkTransport" -> Advance(Transport(s, a))
           [] s.stage = "spinDown" -> Advance(s)
           [] s.stage \in {"seek", "spinUp"} -> IF ok THEN Advance(s) ELSE Finish(s, "playerRefused")
           [] s.stage = "watch"    -> Watch(s, a)
           [] s.stage = "checkStall" -> CheckStall(s, a)

\* Apply(), and the Step() it posts; a cancel is honoured after the answer
Apply(a) ==
    /\ \E disagrees \in DiscDisagrees(a) :
           seq' = Honour(Applied([seq EXCEPT !.pending = FALSE], a, disagrees))
    /\ waiting' = "step"
    /\ headObeyed' = CASE seq.stage = "checkTransport" ->
                              a.kind = "mode" /\ ("stop" \in Controls \/ ~Turning(a.state))
                       [] seq.stage = "spinDown"       -> headObeyed /\ a.kind = "ack"
                       [] OTHER                        -> headObeyed

-----------------------------------------------------------------------------
(* The controller *)

\* Step() comes round as a posted event: no input is taken before it. (The watch's
\* delay is part of the wait for its answer: a cancel does not cut it short)
Send ==
    /\ waiting = "step" /\ NextStep(seq).outcome = "inProgress"
    /\ NextStep(seq).stage \notin {"startCapture", "stopCapture"}
    /\ seq' = NextStep(seq) /\ waiting' = "reply"
    /\ UNCHANGED <<plan, sessionVars, playerVars, engineVars, countVars, history>>

\* OnCapturingChanged disarms the watch
Disarm == seenSpinning' = FALSE /\ stoppedReadings' = 0

\* StartCapture opens a file, or says why not through Failed()
StartCapture(on) ==
    LET s == [NextStep(seq) EXCEPT !.pending = FALSE] IN
    /\ waiting = "step" /\ s.stage = "startCapture"
    /\ seq' = IF on THEN Advance([s EXCEPT !.captureStarted = TRUE]) ELSE Finish(s, "captureFailed")
    /\ capturing' = on /\ held' = (IF on /\ Turning(disc) THEN {at} \cap Programme ELSE {}) /\ Disarm
    /\ UNCHANGED <<plan, waiting, sessionVars, playerVars, countVars, history>>

\* StopCapture leaves capturing_ FALSE whatever becomes of the file
StopCapture ==
    LET s == [NextStep(seq) EXCEPT !.pending = FALSE] IN
    /\ waiting = "step" /\ s.stage = "stopCapture"
    /\ seq' = CompleteTeardownStep([s EXCEPT !.captureStopped = TRUE])
    /\ capturing' = FALSE /\ Disarm
    /\ UNCHANGED <<plan, waiting, sessionVars, playerVars, held, countVars, history>>

\* The sequence goes with the run, all but what it reported
FinishRun ==
    /\ waiting = "step" /\ NextStep(seq).outcome # "inProgress"
    /\ seq' = [NewSequence EXCEPT !.outcome = NextStep(seq).outcome,
                                  !.linkFailed = NextStep(seq).linkFailed]
    /\ waiting' = "over"
    /\ UNCHANGED <<plan, sessionVars, playerVars, engineVars, countVars, history>>

\* A step or the watch's timer is out whenever the user can press Stop. In the tail
\* it changes nothing
Cancel ==
    /\ waiting = "reply" /\ ~seq.cancel /\ ~seq.finishing
    /\ seq' = [seq EXCEPT !.cancel = TRUE]
    /\ UNCHANGED <<plan, waiting, sessionVars, playerVars, engineVars, countVars, history>>

-----------------------------------------------------------------------------
(* The player obeys, or does not, and answers *)

Command ==
    CASE seq.stage = "lock"   -> "lockOn"
      [] seq.stage = "unlock" -> "lockOff"
      [] seq.stage \in {"spinDown", "stopPlayer"} -> "stop"
      [] seq.stage = "seek"   -> "seek"
      [] seq.stage = "spinUp" -> "play"
      [] OTHER -> "query"

SpunUp == disc' = (IF disc = "parked" THEN "settingUp" ELSE IF disc = "paused" THEN "playing" ELSE disc)
FoundStart == disc' = "paused" /\ at' = plan.start_address

Obeys ==
    /\ \/ /\ Command \in {"lockOn", "lockOff"} /\ panelLocked' = (Command = "lockOn")
          /\ UNCHANGED <<disc, at, ejected>>
       \/ /\ Command = "stop" /\ disc' = (IF Turning(disc) THEN "parked" ELSE "open") /\ at' = 0
          /\ ejected' = (ejected \/ (~Turning(disc) /\ saidResting)) /\ UNCHANGED panelLocked
       \/ Command = "seek" /\ disc # "open" /\ FoundStart /\ UNCHANGED <<panelLocked, ejected>>
       \/ Command = "play" /\ disc # "open" /\ SpunUp /\ UNCHANGED <<at, panelLocked, ejected>>
    /\ UNCHANGED <<sticks, saidResting>>

\* A refused seek or play may still have spun the disc up. What locked its front
\* panel unlocks it
Refuses ==
    /\ Command # "lockOff"
    /\ \/ UNCHANGED disc
       \/ Command \in {"seek", "play"} /\ disc = "parked" /\ SpunUp
    /\ UNCHANGED <<at, sticks, panelLocked, saidResting, ejected>>

Says ==
    CASE seq.stage = "confirm" -> Answer("disc")
      [] seq.stage = "watch"   -> IF Turning(disc) THEN Address(at) ELSE Answer("refusal")
      [] OTHER -> Mode(disc)

\* The command reaches the player, and this is its answer
Player(own) ==
    \/ own = Answer("ack") /\ Obeys
    \/ own = Answer("refusal") /\ Refuses
    \/ /\ own = Says /\ Command = "query" /\ UNCHANGED <<playerVars, ejected>>
       /\ saidResting' = IF own.kind = "mode" THEN ~Turning(disc) ELSE saidResting

Mishap  == mishaps < MaxMishaps /\ mishaps' = mishaps + 1
Silence == Mishap /\ silent' = TRUE /\ Apply(Answer("silence"))

\* PlayerSession::Send and ReadReply
Execute ==
    /\ waiting = "reply" /\ connected
    /\ \E own \in {Answer("ack"), Answer("refusal"), Says} :
        /\ Player(own)
        /\ \/ late' = <<>> /\ Apply(own) /\ UNCHANGED <<countVars, misread>>
           \/ /\ late # <<>> /\ late' = <<own>> /\ Apply(late[1])   \* too late to be discarded
              /\ misread' = TRUE /\ UNCHANGED countVars
           \/ late' = <<own>> /\ Silence /\ UNCHANGED misread
    /\ UNCHANGED <<plan, connected, engineVars>>

CommandIsLost ==
    /\ waiting = "reply" /\ connected /\ late' = <<>> /\ Silence
    /\ UNCHANGED <<plan, connected, playerVars, engineVars, saidResting, ejected, misread>>

\* A write or a read that fails takes the connection with it
LinkFails ==
    /\ waiting = "reply" /\ connected /\ Mishap /\ UNCHANGED silent
    /\ \/ \E own \in {Answer("ack"), Says} : Player(own)
       \/ UNCHANGED <<playerVars, saidResting, ejected>>
    /\ connected' = FALSE /\ late' = <<>> /\ Apply(Answer("linkFailed"))
    /\ UNCHANGED <<plan, engineVars, misread>>

NotConnected ==
    /\ waiting = "reply" /\ ~connected /\ Apply(Answer("notConnected"))
    /\ UNCHANGED <<plan, sessionVars, playerVars, engineVars, countVars, saidResting, ejected, misread>>

\* AttemptDiscovery finds the player again, in a run or after it
Reconnect ==
    /\ ~connected /\ connected' = TRUE /\ (waiting # "over" \/ capturing)
    /\ UNCHANGED <<plan, seq, waiting, late, playerVars, engineVars, countVars, history>>

\* The poll, out of a run: OnStatusUpdated, where the capture is to stop with the
\* player. A mode that was not answered is not a stop
Poll ==
    /\ waiting = "over" /\ connected /\ capturing
    /\ \/ /\ Turning(disc) /\ seenSpinning' = TRUE /\ stoppedReadings' = 0
          /\ UNCHANGED <<capturing, countVars>>
       \/ Mishap /\ stoppedReadings' = 0 /\ UNCHANGED <<capturing, seenSpinning, silent>>
       \/ /\ ~Turning(disc) /\ seenSpinning /\ stoppedReadings + 1 < kStoppedReadings
          /\ stoppedReadings' = stoppedReadings + 1 /\ UNCHANGED <<capturing, seenSpinning, countVars>>
       \/ /\ ~Turning(disc) /\ seenSpinning /\ stoppedReadings + 1 >= kStoppedReadings
          /\ capturing' = FALSE /\ Disarm /\ UNCHANGED countVars
    /\ UNCHANGED <<plan, seq, waiting, connected, late, held, playerVars, history>>

-----------------------------------------------------------------------------
(* The disc, and what else may happen in the room *)

Moves(state, address) ==
    /\ disc' = state /\ at' = address
    /\ held' = IF capturing /\ state = "playing" THEN held \cup ({address} \cap Programme) ELSE held
    /\ UNCHANGED <<plan, seq, waiting, sessionVars, sticks, panelLocked, capturing,
                   seenSpinning, stoppedReadings, history>>

DiscTurns ==
    /\ \/ disc = "settingUp" /\ Moves("playing", 0)
       \/ disc = "playing" /\ at <= LastAddress /\ (sticks => at = 0) /\ Moves("playing", at + 1)
       \/ disc = "playing" /\ at > LastAddress /\ Moves("parked", 0)
    /\ (waiting # "over" \/ capturing) /\ UNCHANGED countVars

\* The remote and the front panel stop the disc or hold it; it sticks in its
\* programme; the file's volume fills, or somebody stops the capture
Hand ==
    /\ Mishap /\ UNCHANGED silent /\ (waiting # "over" \/ capturing)
    /\ \/ Turning(disc) /\ Moves("parked", 0)
       \/ disc = "playing" /\ Moves("paused", at)
       \/ /\ disc = "playing" /\ at \in Programme /\ ~sticks /\ sticks' = TRUE
          /\ UNCHANGED <<plan, seq, waiting, sessionVars, disc, at, panelLocked, engineVars, history>>
       \/ /\ capturing /\ capturing' = FALSE /\ Disarm
          /\ UNCHANGED <<plan, seq, waiting, sessionVars, playerVars, held, history>>

-----------------------------------------------------------------------------
\* A controller that is at a step, or at none
AutoStart(at_step) ==
    /\ plan \in {[shape |-> "wholeSide", key_lock |-> TRUE, start_address |-> 1],
                 [shape |-> "fromSpinUp", key_lock |-> FALSE, start_address |-> 1],
                 [shape |-> "range", key_lock |-> TRUE, start_address |-> 1]}
    /\ seq = NewSequence
    /\ waiting = at_step /\ connected = TRUE
    /\ disc \in {"open", "parked", "playing"} /\ at = (IF disc = "playing" THEN 2 ELSE 0)
    /\ sticks = FALSE /\ panelLocked = FALSE
    \* of the status poll that SetPaused came after: the address is what it asks last
    /\ \/ late = <<>> /\ mishaps = 0 /\ silent = FALSE
       \/ late = <<Address(at)>> /\ mishaps = 1 /\ silent = TRUE
    /\ capturing = FALSE /\ held = {} /\ seenSpinning = FALSE /\ stoppedReadings = 0
    /\ saidResting = ~Turning(disc) /\ ejected = FALSE /\ misread = FALSE /\ headObeyed = FALSE

AutoInit == AutoStart("step")

Controller == Send \/ (\E on \in BOOLEAN : StartCapture(on)) \/ StopCapture \/ FinishRun
Worker     == Execute \/ CommandIsLost \/ LinkFails \/ NotConnected

AutoNext == Controller \/ Worker \/ Cancel \/ Reconnect \/ Poll \/ DiscTurns \/ Hand

AutoSpec ==
    /\ AutoInit /\ [][AutoNext]_autoVars
    /\ WF_autoVars(Controller) /\ WF_autoVars(Worker) /\ WF_autoVars(DiscTurns) /\ WF_autoVars(Poll)

-----------------------------------------------------------------------------
(* Properties *)

\* Whatever ended a run, and in whichever order its tail is walked, what it
\* started is not left behind: no capture that outlives it but the one a dead link
\* was not to cost, and no locked front panel but where the link died or an
\* acknowledgement never came (a lock that was not acknowledged is not released).
RunUndoesItself ==
    waiting = "over" =>
    /\ capturing => seq.outcome = "linkFailed"
    /\ panelLocked => seq.linkFailed \/ silent

\* A stop sent to a disc that does not turn opens the tray. It happens to a player
\* that has just said it turns (and stopped since), or by an answer taken for that
\* of a later question, and in no other way.
TrayStaysShut == ejected => misread

\* A run that is reported as completed holds its programme from the start to the
\* end, when nobody interfered, every question was answered in time, and the
\* player said what its disc was doing and obeyed the stop it needed before the spin-up.
CompletedIsWhole ==
    /\ seq.outcome = "completed" /\ mishaps = 0
    /\ BeginsWithSpinUp => headObeyed
    => plan.start_address .. LastAddress \subseteq held

\* A run ends, whatever the player and its disc do (one that is held in its lead-in
\* aside, which is watched for as long as it is held): the watch neither waits for an
\* address that does not advance nor for an answer that does not come.
RunIsOver == waiting = "over" \/ (disc = "paused" /\ at = 0)
EveryRunFinishes == []<>RunIsOver
=============================================================================
