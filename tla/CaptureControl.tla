---------------------------- MODULE CaptureControl ----------------------------
(***************************************************************************)
(* A capture that is run from a script: the headless runner and its exit   *)
(* code (ddd-gui/src/gui/headless_capture_runner.cpp), the control server  *)
(* of the running application (capture_control_server.cpp), and the        *)
(* clients that ask it over a socket to stop (capture_stop_client.cpp).    *)
(*                                                                         *)
(* All three hang on what the capture controller says. Its swap of sinks   *)
(* is SinkChange's; here a request is applied between two buffers, in one  *)
(* step, and every slot runs inside the call that emits its signal.        *)
(***************************************************************************)
EXTENDS Naturals

CONSTANTS
    Clients,        \* processes started with --stop-capture
    MaxFiles        \* bound: captures of one process

ASSUME CaptureControlAssumption == MaxFiles \in Nat \ {0}

Files == 1 .. MaxFiles
NoFile == 0             \* and no reply yet
Refusal == MaxFiles + 1 \* the reply that is none of a file

VARIABLES
    headless,       \* the process has a runner, and no window
    app,            \* "up", or "gone": the sockets are closed
    \* the controller; a trailing underscore is the source's
    monitoring_, capturing_, capture_path_,
    pending_sink_change_,   \* a detach is waited for
    \* the pipeline: its state, what it was asked for, and what it did
    stream, incoming, detach, attached, changed,
    file,           \* the files: "none", "open", "closed", "empty", "broken" by Finish
    cut,            \* history: the files that a failure of the stream ended
    runner,         \* the members of HeadlessCaptureRunner
    notify,         \* the sockets connected to the next CaptureFinished
    client, reply, told,    \* the clients, what is on its way to them, what they print
    stopped,        \* history: the file that was being written when a client was heard
    hasty, unreported,  \* history: a capture begun before the last was reported; one never was
    premature       \* history: a file was reported while its run was still to fail

controllerVars == <<monitoring_, capturing_, capture_path_, pending_sink_change_>>
pipelineVars   == <<stream, incoming, detach, attached, changed>>
clientVars     == <<notify, client, reply, told, stopped>>
controlVars    == <<headless, app, controllerVars, pipelineVars, file, cut, runner, clientVars,
                    hasty, unreported, premature>>

-----------------------------------------------------------------------------
(* The runner: its slots, as what each makes of the runner's state *)

FinishRunner(r, code) == [r EXCEPT !.state = "done", !.code = code, !.timer = FALSE]

\* Mutant: only an interrupt or a client's stop is waited for
WaitsForNothing(r, capturing) ==
    CASE r.state = "done" -> r
      [] r.state # "done" /\ capturing -> [r EXCEPT !.state = "capturing"]
      [] OTHER -> IF r.state \in {"capturing", "starting"}
                  THEN [r EXCEPT !.state = "finishing"] ELSE r

OnCapturingChanged(r, capturing) ==
    CASE r.state = "done" -> r
      [] r.state # "done" /\ capturing -> [r EXCEPT !.state = "capturing"]
      [] OTHER -> IF r.state \in {"capturing", "starting"}
                  THEN [r EXCEPT !.state = "finishing", !.timer = TRUE] ELSE r

OnCaptureFinished(r, path) ==
    IF r.state = "done" THEN r
    ELSE [r EXCEPT !.state = "finishing", !.timer = FALSE, !.scheduled = TRUE, !.printed = path]

\* Mutant: what comes after the finished file is not listened to
DeafOnceScheduled(r) ==
    IF r.state = "done" \/ r.scheduled THEN r
    ELSE IF r.state = "finishing" THEN [r EXCEPT !.code = "captureFailed"]
    ELSE FinishRunner(r, "captureFailed")

\* In the state "capturing" it stops the capture; FinishRun, which alone reports a
\* failure by then, has already said that the capture is over
OnFailed(r) ==
    IF r.state = "done" THEN r
    ELSE IF r.scheduled \/ r.state = "finishing" THEN [r EXCEPT !.code = "captureFailed"]
    ELSE FinishRunner(r, "captureFailed")

-----------------------------------------------------------------------------
(* The controller's calls *)

\* StartCapture starts the stream where there is none. A sink that is not taken
\* yet is the pipeline's; the device or the file may refuse
StartsCapture ==
    \E f \in Files :
        /\ file[f] = "none" /\ \A g \in Files : g < f => file[g] # "none"
        /\ monitoring_' = TRUE /\ stream' = IF monitoring_ THEN stream ELSE "on"
        /\ incoming' = f /\ detach' = FALSE /\ file' = [file EXCEPT ![f] = "open"]
        /\ capturing_' = TRUE /\ capture_path_' = f
        /\ hasty' = (hasty \/ pending_sink_change_)
        /\ UNCHANGED <<pending_sink_change_, attached, changed, cut, unreported, premature>>

\* It may leave the stream it started running, with no file
StartFails ==
    /\ monitoring_' \in {monitoring_, TRUE}
    /\ stream' = IF monitoring_' /\ ~monitoring_ THEN "on" ELSE stream
    /\ UNCHANGED <<capturing_, capture_path_, pending_sink_change_, incoming, detach, attached,
                   changed, file, cut, hasty, unreported, premature>>

StopsCapture ==
    /\ capturing_' = FALSE /\ pending_sink_change_' = TRUE
    /\ detach' = TRUE /\ incoming' = NoFile /\ changed' = FALSE
    /\ file' = IF incoming = NoFile THEN file ELSE [file EXCEPT ![incoming] = "empty"]
    /\ UNCHANGED <<monitoring_, capture_path_, stream, attached, cut, hasty, unreported, premature>>

\* CaptureFinished goes to the runner and to every socket that waits for one, which
\* is told the path of the controller
Answers(path) ==
    /\ reply' = [c \in Clients |-> IF c \in notify THEN path ELSE reply[c]]
    /\ notify' = {}

\* Tick: CollectFinishedCapture, and FinishRun where the pipeline has stopped. The
\* end of the run clears what was waited for
Tick ==
    LET collects == pending_sink_change_ /\ changed
        ends     == stream \in {"over", "failed"}
        reports  == collects \/ (ends /\ capturing_)
        r1 == IF collects THEN OnCaptureFinished(runner, capture_path_) ELSE runner
        r2 == IF ends /\ capturing_
              THEN OnCaptureFinished(OnCapturingChanged(r1, FALSE), capture_path_) ELSE r1
    IN  /\ app = "up" /\ monitoring_ /\ (collects \/ ends)
        /\ runner' = IF stream = "failed" THEN OnFailed(r2) ELSE r2
        /\ IF reports THEN Answers(capture_path_) ELSE UNCHANGED <<reply, notify>>
        /\ pending_sink_change_' = FALSE
        /\ capturing_' = (capturing_ /\ ~ends) /\ monitoring_' = ~ends
        /\ stream' = IF ends THEN "off" ELSE stream
        /\ unreported' = (unreported \/ (pending_sink_change_ /\ ~collects))
        /\ premature' = (premature \/ (collects /\ stream = "failing"))
        /\ UNCHANGED <<headless, app, capture_path_, incoming, detach, attached, changed,
                       file, cut, client, told, stopped, hasty>>

\* CheckDurationLimit, with which a Tick may begin
DurationLimit ==
    /\ app = "up" /\ capturing_ /\ StopsCapture
    /\ runner' = OnCapturingChanged(runner, FALSE)
    /\ UNCHANGED <<headless, app, clientVars>>

-----------------------------------------------------------------------------
(* The pipeline *)

Retired == IF attached = NoFile THEN file ELSE [file EXCEPT ![attached] = "closed"]

\* The stream is "failing" from a failure that is latched until the control thread has
\* seen it and brought the workers down
Streaming == stream \in {"on", "failing"}

\* A sink that fails to finish is let go of, and counted, like any other
PerformPendingSinkChange ==
    /\ Streaming /\ (detach \/ incoming # NoFile)
    /\ attached' = incoming /\ incoming' = NoFile /\ detach' = FALSE /\ changed' = TRUE
    /\ \/ file' = Retired /\ UNCHANGED stream
       \/ /\ attached # NoFile
          /\ file' = [file EXCEPT ![attached] = "broken"] /\ stream' = "failing"
    /\ UNCHANGED <<headless, app, controllerVars, cut, runner, clientVars, hasty, unreported,
                   premature>>

\* By itself a stream only fails; a window can also stop it. The sink is finished
\* either way, once the workers have been joined
StreamEnds ==
    /\ Streaming
    /\ stream' \in {"failed"} \cup (IF headless \/ stream = "failing" THEN {} ELSE {"over"})
    /\ file' = Retired /\ attached' = NoFile
    /\ cut' = cut \cup (IF stream' = "failed" THEN {attached, incoming} \ {NoFile} ELSE {})
    /\ UNCHANGED <<headless, app, controllerVars, incoming, detach, changed, runner, clientVars,
                   hasty, unreported, premature>>

-----------------------------------------------------------------------------
(* The runner's events *)

DeviceAppears ==
    /\ runner.state = "waiting"
    /\ \/ StartsCapture /\ runner' = OnCapturingChanged([runner EXCEPT !.state = "starting"], TRUE)
       \/ StartFails /\ runner' = OnFailed([runner EXCEPT !.state = "starting"])
    /\ UNCHANGED <<headless, app, clientVars>>

RunnerFrame == UNCHANGED <<headless, app, controllerVars, pipelineVars, file, cut, clientVars,
                           hasty, unreported, premature>>

DeviceTimer == runner.state = "waiting" /\ runner' = FinishRunner(runner, "noDevice") /\ RunnerFrame
FinishTimer == runner.timer /\ runner' = FinishRunner(runner, "captureFailed") /\ RunnerFrame
ScheduledFinish ==
    runner.scheduled /\ runner.state # "done" /\ runner' = FinishRunner(runner, runner.code) /\ RunnerFrame

\* RequestStop: Ctrl+C, or a signal
Interrupt ==
    \/ runner.state = "waiting" /\ runner' = FinishRunner(runner, "noDevice") /\ RunnerFrame
    \/ /\ runner.state = "capturing" /\ StopsCapture
       /\ runner' = OnCapturingChanged(runner, FALSE)
       /\ UNCHANGED <<headless, app, clientVars>>

\* Finished reaches quit(); the controller's destructor waits for the pipeline
Quit ==
    /\ app = "up" /\ headless /\ runner.state = "done"
    /\ app' = "gone" /\ stream' = "off" /\ attached' = NoFile /\ file' = Retired
    /\ notify' = {}
    /\ UNCHANGED <<headless, controllerVars, incoming, detach, changed, cut, runner, client, reply,
                   told, stopped, hasty, unreported, premature>>

-----------------------------------------------------------------------------
(* The window's user, where there is one *)

UserStarts ==
    /\ ~headless /\ ~capturing_ /\ (StartsCapture \/ StartFails)
    /\ UNCHANGED <<headless, app, runner, clientVars>>

UserStops ==
    /\ ~headless /\ capturing_ /\ StopsCapture /\ UNCHANGED <<headless, app, runner, clientVars>>

-----------------------------------------------------------------------------
(* The clients and the server *)

ClientFrame == UNCHANGED <<headless, app, controllerVars, pipelineVars, file, cut, runner,
                           hasty, unreported, premature>>

\* RunStopCapture: connected, and the request is written
Ask(c) ==
    /\ client[c] = "idle"
    /\ client' = [client EXCEPT ![c] = IF app = "up" THEN "written" ELSE "noInstance"]
    /\ UNCHANGED <<notify, reply, told, stopped>> /\ ClientFrame

\* Mutant: the answer is tied to CapturingChanged
AnswersAtOnce(c) ==
    /\ app = "up" /\ client[c] = "written"
    /\ client' = [client EXCEPT ![c] = "asked"] /\ UNCHANGED <<headless, app, told>>
    /\ IF capturing_
       THEN /\ reply' = [reply EXCEPT ![c] = capture_path_]
            /\ stopped' = [stopped EXCEPT ![c] = capture_path_]
            /\ runner' = OnCapturingChanged(runner, FALSE)
            /\ StopsCapture /\ UNCHANGED notify
       ELSE /\ reply' = [reply EXCEPT ![c] = Refusal]
            /\ UNCHANGED <<notify, stopped, controllerVars, pipelineVars, file, cut, runner,
                           hasty, unreported, premature>>

HandleStop(c) ==
    /\ app = "up" /\ client[c] = "written"
    /\ client' = [client EXCEPT ![c] = "asked"] /\ UNCHANGED <<headless, app, told>>
    /\ IF capturing_
       THEN /\ notify' = notify \cup {c} /\ stopped' = [stopped EXCEPT ![c] = capture_path_]
            /\ runner' = OnCapturingChanged(runner, FALSE)
            /\ StopsCapture /\ UNCHANGED reply
       ELSE /\ reply' = [reply EXCEPT ![c] = Refusal]
            /\ UNCHANGED <<notify, stopped, controllerVars, pipelineVars, file, cut, runner,
                           hasty, unreported, premature>>

Waits(c) == client[c] \in {"written", "asked"}

\* It settles once: by its answer, by the end of the connection, or by its deadline.
\* Its socket takes the connection to CaptureFinished with it
ReadsReply(c) ==
    /\ Waits(c) /\ reply[c] # NoFile
    /\ client' = [client EXCEPT ![c] = IF reply[c] = Refusal THEN "captureFailed" ELSE "success"]
    /\ told' = [told EXCEPT ![c] = IF reply[c] = Refusal THEN NoFile ELSE reply[c]]
    /\ UNCHANGED <<notify, reply, stopped>> /\ ClientFrame

GivesUp(c) ==
    /\ Waits(c) /\ client' = [client EXCEPT ![c] = "captureFailed"]
    /\ notify' = notify \ {c}
    /\ UNCHANGED <<reply, told, stopped>> /\ ClientFrame

-----------------------------------------------------------------------------
ControlInit ==
    /\ headless \in BOOLEAN /\ app = "up"
    /\ monitoring_ = FALSE /\ capturing_ = FALSE /\ capture_path_ = NoFile
    /\ pending_sink_change_ = FALSE
    /\ stream = "off" /\ incoming = NoFile /\ detach = FALSE /\ attached = NoFile /\ changed = FALSE
    /\ file = [f \in Files |-> "none"] /\ cut = {}
    /\ runner = [state |-> IF headless THEN "waiting" ELSE "done", code |-> "success",
                 scheduled |-> FALSE, timer |-> FALSE, printed |-> NoFile]
    /\ notify = {} /\ client = [c \in Clients |-> "idle"] /\ reply = [c \in Clients |-> NoFile]
    /\ told = [c \in Clients |-> NoFile] /\ stopped = [c \in Clients |-> NoFile]
    /\ hasty = FALSE /\ unreported = FALSE /\ premature = FALSE

Runner == DeviceAppears \/ DeviceTimer \/ FinishTimer \/ ScheduledFinish \/ Quit
Client == \E c \in Clients : Ask(c) \/ HandleStop(c) \/ ReadsReply(c) \/ GivesUp(c)

ControlNext ==
    \/ Tick \/ DurationLimit \/ PerformPendingSinkChange \/ StreamEnds
    \/ Runner \/ Interrupt \/ UserStarts \/ UserStops \/ Client

ControlSpec ==
    /\ ControlInit /\ [][ControlNext]_controlVars
    /\ WF_controlVars(Tick) /\ WF_controlVars(PerformPendingSinkChange)
    /\ WF_controlVars(Runner)

-----------------------------------------------------------------------------
(* Properties *)

\* What a client prints is the file it stopped, closed, and ended by a stop rather than
\* by a failure of the stream. A reply is that of the next CaptureFinished, whichever it
\* is, so it takes that every stop is reported before the next capture begins. Whether
\* the encoder could finish the file, a CaptureFinished does not tell
\* (capture_control_server.cpp:392, capture_controller.cpp:736).
ReplyNamesWhatItStopped ==
    ~hasty /\ ~unreported => \A c \in Clients : told[c] # NoFile =>
        told[c] = stopped[c] /\ file[told[c]] # "open" /\ told[c] \notin cut

\* The exit code of a headless run is true of its file: 0 is a file that is closed, on
\* standard output, and not ended by a failure of the stream, and "no device" is no file
\* at all. Of a file that could not be finished the exit code is a failure too, provided
\* that the tick that reports the file finds the run brought down by then and reports
\* both in one call (headless_capture_runner.cpp:221, capture_pipeline.cpp:474).
ExitCodeIsTrue ==
    headless /\ runner.state = "done" =>
    /\ runner.code = "success" => /\ runner.printed # NoFile /\ file[runner.printed] # "open"
                                  /\ runner.printed \notin cut
                                  /\ file[runner.printed] = "broken" => premature
    /\ runner.code = "noDevice" => \A f \in Files : file[f] = "none"

\* What the application answers is true, as far as it can be told by then: to a client
\* that stops a capture, and to the script that started a headless one
\* (capture_control_server.cpp:392, headless_capture_runner.cpp:221).
AnswersAreTrue == ReplyNamesWhatItStopped /\ ExitCodeIsTrue

\* A headless process is not left waiting, neither for a device nor for its file: it
\* exits when its capture has ended, though the file be never reported. The end of a
\* run forgets the change that was waited for (capture_controller.cpp:928).
RunnerIsGone == runner.state = "capturing" \/ app = "gone" \/ ~headless
EveryRunExits == []<>RunnerIsGone

-----------------------------------------------------------------------------
(* What the documents say, and the code does not do *)

\* Whoever is answered with success has a finished file: scripting.md:150 says so of the
\* exit code, and :186-188 of the reply to --stop-capture. TLC finds both violated: a tick
\* between the swap whose Finish fails and the end of the run that this brings about
\* reports the file without looking at the result, and a reply has no place for one
\* (capture_controller.cpp:588, capture_control_server.cpp:394)
SuccessIsFinished ==
    /\ headless /\ runner.state = "done" /\ runner.code = "success" =>
          file[runner.printed] # "broken"
    /\ \A c \in Clients : told[c] # NoFile => file[told[c]] # "broken"
=============================================================================
