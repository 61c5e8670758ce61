---------------------------- MODULE ControlProofs ----------------------------
(***************************************************************************)
(* Proofs about who has captures made. A script reaches the application    *)
(* through the socket that one instance holds (ControlSocket), and by the  *)
(* answers it gives, as exit code of a headless run or as reply to a       *)
(* client (CaptureControl).                                                *)
(*                                                                         *)
(* A side of a disc is captured by a sequence of its own (AutoCapture):    *)
(* for a programme of any length, any number of mishaps, and whatever the  *)
(* model of player can be asked, a run undoes what it did, opens no tray,  *)
(* and holds what it reports as completed. A step of a run belongs to the  *)
(* controller (Send, StartCapture, StopCapture, FinishRun), to the player  *)
(* and its link (Execute and the ways of not answering), or to neither.    *)
(* What the sequence makes of each is stated first, for any sequence that  *)
(* satisfies SeqInv; then each action is shown to keep AutoInv.            *)
(***************************************************************************)
EXTENDS CaptureControl, ControlSocket, AutoCapture, FiniteSetTheorems, TLAPS

-----------------------------------------------------------------------------
(* The socket *)

SocketSteps == {"knock", "listen", "knockAgain", "replace", "listenAgain", "up", "gone", "refused"}

\* As long as no instance was killed, the name leads to the one that listens, and
\* nobody takes it for abandoned: whoever came to knock again found it in use
SocketInv ==
    /\ step \in [Instances -> SocketSteps]
    /\ ~killed =>
        /\ listening = IF socket = "free" THEN {} ELSE {socket}
        /\ \A i \in Instances : /\ step[i] \notin {"replace", "listenAgain"}
                                /\ step[i] = "knockAgain" => socket # "free"

LEMMA SocketStarts == SocketInit => SocketInv
BY DEF SocketInit, SocketInv, SocketSteps

LEMMA SocketHolds ==
  ASSUME SocketInv, [SocketNext]_socketVars
  PROVE  SocketInv'
<1>1. ASSUME UNCHANGED socketVars PROVE SocketInv'
  BY <1>1 DEF SocketInv, SocketSteps, socketVars
<1>2. ASSUME NEW i \in Instances, Knock(i) PROVE SocketInv'
  BY <1>2 DEF SocketInv, SocketSteps, Knock, At
<1>3. ASSUME NEW i \in Instances, Listen(i, "listen", "knockAgain") PROVE SocketInv'
  BY <1>3, SocketAssumption DEF SocketInv, SocketSteps, Listen, At
<1>4. ASSUME NEW i \in Instances, KnockAgain(i) PROVE SocketInv'
  BY <1>4 DEF SocketInv, SocketSteps, KnockAgain, At, Answering
<1>5. ASSUME NEW i \in Instances, RemoveServer(i) PROVE SocketInv'
  BY <1>5 DEF SocketInv, SocketSteps, RemoveServer, At
<1>6. ASSUME NEW i \in Instances, Listen(i, "listenAgain", "refused") PROVE SocketInv'
  BY <1>6, SocketAssumption DEF SocketInv, SocketSteps, Listen, At
<1>7. ASSUME NEW i \in Instances, Killed(i) PROVE SocketInv'
  BY <1>7 DEF SocketInv, SocketSteps, Killed, At
<1> QED
  BY <1>1, <1>2, <1>3, <1>4, <1>5, <1>6, <1>7 DEF SocketNext

LEMMA OneHolder ==
  ASSUME SocketInv
  PROVE  OneListens
<1>1. Cardinality({}) = 0 /\ Cardinality({socket}) = 1
  BY FS_EmptySet, FS_Singleton
<1> QED
  BY <1>1 DEF SocketInv, SocketSteps, OneListens

\* One instance listens, whichever start at once: the second knock tells a socket in
\* use from one left behind, and only a killed instance leaves one
\* (capture_control_server.cpp:274).
THEOREM AlwaysOneListens == SocketSpec => []OneListens
<1> QED
  BY SocketStarts, SocketHolds, OneHolder, PTL DEF SocketSpec

-----------------------------------------------------------------------------
(* The answers: what each variable may hold *)

FileStates == {"none", "open", "closed", "empty", "broken"}
Runners ==
    [state : {"waiting", "starting", "capturing", "finishing", "done"},
     code : {"success", "noDevice", "captureFailed"},
     scheduled : BOOLEAN, timer : BOOLEAN, printed : Files \cup {NoFile}]
RunnerType == {r \in Runners : r.timer => r.state = "finishing"}
ClientSteps == {"idle", "noInstance", "written", "asked", "success", "captureFailed"}

CaptureTypes ==
    /\ monitoring_ \in BOOLEAN /\ capturing_ \in BOOLEAN /\ pending_sink_change_ \in BOOLEAN
    /\ detach \in BOOLEAN /\ changed \in BOOLEAN /\ hasty \in BOOLEAN /\ unreported \in BOOLEAN
    /\ premature \in BOOLEAN /\ stream \in {"off", "on", "failing", "over", "failed"}
    /\ capture_path_ \in Files \cup {NoFile}
    /\ incoming \in Files \cup {NoFile} /\ attached \in Files \cup {NoFile}
    /\ file \in [Files -> FileStates] /\ cut \subseteq Files

ClientTypes ==
    /\ notify \subseteq Clients /\ client \in [Clients -> ClientSteps]
    /\ reply \in [Clients -> Files \cup {NoFile, Refusal}]
    /\ told \in [Clients -> Files \cup {NoFile}] /\ stopped \in [Clients -> Files \cup {NoFile}]

\* What the pipeline still writes, or has seen fail, was begun; and there is no capture,
\* and nothing waited for, without a stream
Begun ==
    /\ \A f \in cut \cup {attached, incoming} : f # NoFile => file[f] # "none"
    /\ capturing_ \/ pending_sink_change_ => monitoring_ /\ capture_path_ # NoFile

\* A file that was ended by a stop, whether or not it could be finished, and stays so
Settled(f) ==
    /\ f \in Files \ cut /\ f \notin {attached, incoming}
    /\ file[f] \in {"closed", "empty", "broken"}

\* How a stop reaches its file: the detach forgets the sink that was not taken yet, and
\* the swap that follows closes the one that was; unless the stream fails first. A file
\* that this could not finish is one for which the stream fails
Stopping ==
    /\ pending_sink_change_ => ~capturing_ /\ incoming = NoFile
    /\ pending_sink_change_ /\ changed => attached = NoFile /\ Settled(capture_path_)
    /\ capturing_ => incoming \in {NoFile, capture_path_}
    /\ pending_sink_change_ /\ changed /\ file[capture_path_] = "broken" =>
        stream \in {"failing", "failed"} \/ app = "gone"
    /\ (capturing_ \/ pending_sink_change_) /\ Streaming =>
        /\ capture_path_ \notin cut
        /\ \/ capture_path_ \in {incoming, attached}
           \/ file[capture_path_] \in {"closed", "empty"}
           \/ stream = "failing" /\ file[capture_path_] = "broken"

\* Whoever waits for a CaptureFinished waits for that of the file it stopped
Waiting ==
    /\ notify # {} => pending_sink_change_
    /\ \A c \in notify : stopped[c] = capture_path_

AnsweredWith(c, answer) == answer \in Files => answer = stopped[c] /\ Settled(answer)

\* A client that was not heard was neither answered
Heard ==
    \A c \in Clients :
        /\ client[c] \in {"idle", "written"} => reply[c] = NoFile /\ told[c] = NoFile
        /\ c \in notify => client[c] = "asked" /\ reply[c] = NoFile /\ told[c] = NoFile

\* Before the one capture of a headless run
Untouched ==
    /\ \A f \in Files : file[f] = "none"
    /\ attached = NoFile /\ incoming = NoFile
    /\ ~monitoring_ /\ ~capturing_ /\ ~pending_sink_change_

\* What the exit code goes by: a file that could not be finished was reported too early
ReportedTruly(f) == Settled(f) /\ (file[f] = "broken" => premature)

HeadlessRun ==
    /\ ~hasty /\ stream # "over"
    /\ runner.state = "waiting" => Untouched /\ runner.code = "success" /\ ~runner.scheduled
    /\ runner.state = "capturing" => capturing_
    /\ runner.scheduled => runner.state \in {"finishing", "done"}
    /\ runner.code = "noDevice" => Untouched /\ runner.state = "done"
    /\ runner.code = "success" /\ runner.state = "done" => runner.scheduled
    /\ runner.code = "success" /\ runner.scheduled => ReportedTruly(runner.printed)

CaptureInv == CaptureTypes /\ Begun /\ (~hasty => Stopping)

ClientInv ==
    /\ ClientTypes /\ Heard
    /\ ~hasty /\ ~unreported =>
        /\ Waiting /\ \A c \in Clients : AnsweredWith(c, reply[c]) /\ AnsweredWith(c, told[c])

RunnerInv ==
    /\ headless \in BOOLEAN /\ runner \in RunnerType
    /\ IF headless THEN HeadlessRun ELSE runner.state = "done"

ControlInv == CaptureInv /\ ClientInv /\ RunnerInv

-----------------------------------------------------------------------------
(* The captures *)

\* Nothing that was begun is begun again, or cut once it is finished
SettledStays == \A f \in Files : Settled(f) => Settled(f)' /\ UNCHANGED file[f]
CaptureGoesOn ==
    /\ CaptureInv' /\ SettledStays
    /\ (hasty => hasty') /\ (unreported => unreported') /\ (premature => premature')

captureVars == <<app, controllerVars, pipelineVars, file, cut, hasty, unreported, premature>>

LEMMA NoFileIsNoFile == NoFile \notin Files /\ Refusal \notin Files /\ Refusal # NoFile
BY CaptureControlAssumption DEF NoFile, Files, Refusal

LEMMA Starting ==
  ASSUME CaptureInv, StartsCapture, UNCHANGED app
  PROVE  CaptureGoesOn /\ (~hasty' => ~pending_sink_change_ /\ ~hasty)
<1> USE NoFileIsNoFile
<1>1. PICK f \in Files :
        /\ file[f] = "none"
        /\ monitoring_' = TRUE /\ stream' = IF monitoring_ THEN stream ELSE "on"
        /\ incoming' = f /\ detach' = FALSE /\ file' = [file EXCEPT ![f] = "open"]
        /\ capturing_' = TRUE /\ capture_path_' = f
        /\ hasty' = (hasty \/ pending_sink_change_)
        /\ UNCHANGED <<pending_sink_change_, attached, changed, cut, unreported, premature>>
  BY DEF StartsCapture
<1>2. CaptureTypes'
  BY <1>1 DEF CaptureInv, CaptureTypes, FileStates
<1>3. Begun'
  BY <1>1 DEF CaptureInv, CaptureTypes, Begun
<1>4. SettledStays
  BY <1>1 DEF CaptureInv, CaptureTypes, SettledStays, Settled
<1>5. ASSUME ~hasty' PROVE Stopping'
  BY <1>1, <1>5 DEF CaptureInv, CaptureTypes, Stopping, Begun
<1> QED
  BY <1>1, <1>2, <1>3, <1>4, <1>5 DEF CaptureGoesOn, CaptureInv

LEMMA FailingToStart ==
  ASSUME CaptureInv, StartFails, UNCHANGED app
  PROVE  CaptureGoesOn
<1>1. CaptureTypes'
  <2>1. monitoring_ \in BOOLEAN /\ stream \in {"off", "on", "failing", "over", "failed"}
    BY DEF CaptureInv, CaptureTypes
  <2>2. monitoring_' \in BOOLEAN
    BY <2>1 DEF StartFails
  <2>3. stream' \in {"off", "on", "failing", "over", "failed"}
    BY <2>1 DEF StartFails
  <2> QED
    BY <2>2, <2>3 DEF CaptureInv, CaptureTypes, StartFails
<1>2. Begun' /\ SettledStays
  BY DEF CaptureInv, CaptureTypes, Begun, StartFails, Settled, SettledStays
<1>3. ASSUME ~hasty' PROVE Stopping'
  BY <1>3 DEF CaptureInv, CaptureTypes, Stopping, Settled, Begun, StartFails, Streaming
<1> QED
  BY <1>1, <1>2, <1>3 DEF CaptureGoesOn, CaptureInv, StartFails

LEMMA StoppingACapture ==
  ASSUME CaptureInv, capturing_, StopsCapture, UNCHANGED app
  PROVE  CaptureGoesOn
<1> USE NoFileIsNoFile
<1>1. CaptureTypes'
  BY DEF CaptureInv, CaptureTypes, StopsCapture, FileStates
<1>2. Begun' /\ SettledStays
  BY DEF CaptureInv, CaptureTypes, Begun, StopsCapture, Settled, SettledStays
<1>3. ASSUME ~hasty' PROVE Stopping'
  BY <1>3 DEF CaptureInv, CaptureTypes, Stopping, Settled, Begun, StopsCapture, Streaming
<1> QED
  BY <1>1, <1>2, <1>3 DEF CaptureGoesOn, CaptureInv, StopsCapture

LEMMA Ticking ==
  ASSUME CaptureInv, Tick
  PROVE  CaptureGoesOn
<1>1. CaptureTypes'
  BY DEF CaptureInv, CaptureTypes, Tick
<1>2. Begun' /\ SettledStays
  BY DEF CaptureInv, CaptureTypes, Begun, Tick, Settled, SettledStays
<1>3. ASSUME ~hasty' PROVE Stopping'
  BY <1>3 DEF CaptureInv, CaptureTypes, Stopping, Settled, Begun, Tick
<1> QED
  BY <1>1, <1>2, <1>3 DEF CaptureGoesOn, CaptureInv, CaptureTypes, Tick

LEMMA Swapping ==
  ASSUME CaptureInv, PerformPendingSinkChange
  PROVE  CaptureGoesOn
<1> USE NoFileIsNoFile
<1>1. CaptureTypes'
  BY DEF CaptureInv, CaptureTypes, PerformPendingSinkChange, Retired, Streaming, FileStates, controllerVars
<1>2. Begun' /\ SettledStays
  BY DEF CaptureInv, CaptureTypes, Begun, PerformPendingSinkChange, Retired, Streaming,
     Settled, SettledStays, controllerVars
<1>3. ASSUME ~hasty' PROVE Stopping'
  BY <1>3 DEF CaptureInv, CaptureTypes, Stopping, Settled, Begun, PerformPendingSinkChange,
     Retired, Streaming, controllerVars
<1> QED
  BY <1>1, <1>2, <1>3 DEF CaptureGoesOn, CaptureInv, PerformPendingSinkChange

LEMMA Ending ==
  ASSUME CaptureInv, StreamEnds
  PROVE  CaptureGoesOn
<1> USE NoFileIsNoFile
<1>0. stream' \in {"failed", "over"} /\ cut' \subseteq cut \cup ({attached, incoming} \ {NoFile})
  BY DEF StreamEnds
<1>1. CaptureTypes'
  BY <1>0 DEF CaptureInv, CaptureTypes, StreamEnds, Retired, FileStates, controllerVars
<1>2. Begun' /\ SettledStays
  BY <1>0 DEF CaptureInv, CaptureTypes, Begun, StreamEnds, Retired, Settled, SettledStays,
     controllerVars
<1>3. ASSUME ~hasty' PROVE Stopping'
  BY <1>0, <1>3 DEF CaptureInv, CaptureTypes, Stopping, Settled, Begun, StreamEnds, Retired,
     Streaming, controllerVars
<1> QED
  BY <1>1, <1>2, <1>3 DEF CaptureGoesOn, CaptureInv, StreamEnds

LEMMA Quitting ==
  ASSUME CaptureInv, Quit
  PROVE  CaptureGoesOn
<1> USE NoFileIsNoFile
<1>1. CaptureTypes'
  BY DEF CaptureInv, CaptureTypes, Quit, Retired, FileStates, controllerVars
<1>2. Begun' /\ SettledStays
  BY DEF CaptureInv, CaptureTypes, Begun, Quit, Retired, Settled, SettledStays, controllerVars
<1>3. ASSUME ~hasty' PROVE Stopping'
  BY <1>3 DEF CaptureInv, CaptureTypes, Stopping, Settled, Begun, Quit, Retired, Streaming,
     controllerVars
<1> QED
  BY <1>1, <1>2, <1>3 DEF CaptureGoesOn, CaptureInv, Quit

LEMMA StandingStill ==
  ASSUME CaptureInv, UNCHANGED captureVars
  PROVE  CaptureGoesOn
BY DEF CaptureGoesOn, CaptureInv, CaptureTypes, Begun, Stopping, SettledStays, Settled,
   Streaming, captureVars, controllerVars, pipelineVars

LEMMA CapturesGoOn ==
  ASSUME CaptureInv, RunnerInv, [ControlNext]_controlVars
  PROVE  CaptureGoesOn
<1>0. runner.state = "capturing" => capturing_
  BY DEF RunnerInv, HeadlessRun
<1>1. CASE Tick \/ PerformPendingSinkChange \/ StreamEnds \/ Quit
  BY <1>1, Ticking, Swapping, Ending, Quitting
<1>2. CASE DurationLimit \/ Interrupt \/ UserStops
  BY <1>0, <1>2, StoppingACapture, StandingStill
     DEF DurationLimit, Interrupt, UserStops, RunnerFrame, captureVars
<1>3. CASE DeviceAppears \/ UserStarts
  BY <1>3, Starting, FailingToStart DEF DeviceAppears, UserStarts
<1>4. CASE DeviceTimer \/ FinishTimer \/ ScheduledFinish \/ UNCHANGED controlVars
  BY <1>4, StandingStill
     DEF DeviceTimer, FinishTimer, ScheduledFinish, RunnerFrame, captureVars, controlVars
<1>5. CASE Client
  <2>1. PICK c \in Clients : Ask(c) \/ HandleStop(c) \/ ReadsReply(c) \/ GivesUp(c)
    BY <1>5 DEF Client
  <2>2. CASE HandleStop(c)
    BY <2>2, StoppingACapture, StandingStill DEF HandleStop, captureVars
  <2>3. CASE Ask(c) \/ ReadsReply(c) \/ GivesUp(c)
    BY <2>3, StandingStill DEF Ask, ReadsReply, GivesUp, ClientFrame, captureVars
  <2> QED
    BY <2>1, <2>2, <2>3
<1> QED
  BY <1>1, <1>2, <1>3, <1>4, <1>5 DEF ControlNext, Runner

-----------------------------------------------------------------------------
(* The clients and the answers to them *)

\* What the captures' side of a step has to say to the clients
LEMMA NobodyIsTold ==
  ASSUME CaptureInv, ClientInv, CaptureGoesOn, UNCHANGED clientVars,
         ~hasty' /\ ~unreported' /\ pending_sink_change_ =>
            pending_sink_change_' /\ capture_path_' = capture_path_
  PROVE  ClientInv'
<1>1. ClientTypes' /\ Heard'
  BY DEF ClientInv, ClientTypes, Heard, clientVars
<1>2. ASSUME ~hasty', ~unreported' PROVE Waiting'
  BY <1>2 DEF ClientInv, CaptureGoesOn, Waiting, clientVars
<1>3. ASSUME ~hasty', ~unreported', NEW c \in Clients
      PROVE  AnsweredWith(c, reply[c])' /\ AnsweredWith(c, told[c])'
  BY <1>3 DEF ClientInv, ClientTypes, CaptureGoesOn, SettledStays, AnsweredWith, clientVars
<1> QED
  BY <1>1, <1>2, <1>3 DEF ClientInv

\* While a capture is under way nobody waits for the end of one
LEMMA NobodyWaits ==
  ASSUME CaptureInv, ClientInv, ~hasty, ~unreported, capturing_
  PROVE  notify = {}
BY DEF CaptureInv, ClientInv, Stopping, Waiting

LEMMA TickAnswers ==
  ASSUME CaptureInv, ClientInv, CaptureGoesOn, Tick
  PROVE  ClientInv'
<1> USE NoFileIsNoFile
<1>1. UNCHANGED <<client, told, stopped, capture_path_, hasty>>
  BY DEF Tick
<1>2. \/ UNCHANGED <<reply, notify>>
      \/ /\ notify' = {}
         /\ reply' = [c \in Clients |-> IF c \in notify THEN capture_path_ ELSE reply[c]]
  BY DEF Tick, Answers
<1>3. ClientTypes'
  BY <1>1, <1>2 DEF ClientInv, ClientTypes, CaptureInv, CaptureTypes
<1>4. Heard'
  BY <1>1, <1>2 DEF ClientInv, ClientTypes, Heard
<1>5. ASSUME ~hasty', ~unreported' PROVE ~hasty /\ ~unreported
  BY <1>5 DEF CaptureGoesOn
<1>6. ASSUME ~hasty', ~unreported', notify # {}
      PROVE  notify' = {} /\ Settled(capture_path_)
  <2>1. pending_sink_change_ /\ ~capturing_
    BY <1>5, <1>6 DEF ClientInv, Waiting, CaptureInv, Stopping
  <2>2. changed /\ notify' = {}
    BY <1>5, <1>6, <2>1 DEF Tick, Answers, CaptureInv, CaptureTypes
  <2> QED
    BY <1>5, <1>6, <2>1, <2>2 DEF CaptureInv, Stopping
<1>7. ASSUME ~hasty', ~unreported' PROVE Waiting'
  BY <1>2, <1>6, <1>7 DEF Waiting
<1>8. ASSUME ~hasty', ~unreported', NEW c \in Clients
      PROVE  AnsweredWith(c, reply[c])' /\ AnsweredWith(c, told[c])'
  <2>1. CASE c \in notify
    <3>1. Settled(capture_path_)' /\ stopped[c] = capture_path_ /\ told[c] = NoFile
      BY <1>1, <1>5, <1>6, <1>8, <2>1
         DEF CaptureGoesOn, SettledStays, Settled, ClientInv, Waiting, Heard
    <3>2. reply'[c] \in {reply[c], capture_path_}
      BY <1>2 DEF Answers
    <3>3. reply[c] = NoFile
      BY <2>1 DEF ClientInv, Heard
    <3> QED
      BY <1>1, <3>1, <3>2, <3>3 DEF AnsweredWith
  <2>2. CASE c \notin notify
    <3>1. reply'[c] = reply[c] /\ told'[c] = told[c] /\ stopped'[c] = stopped[c]
      BY <1>1, <1>2, <2>2
    <3>2. AnsweredWith(c, reply[c]) /\ AnsweredWith(c, told[c])
      BY <1>5, <1>8 DEF ClientInv
    <3> QED
      BY <3>1, <3>2 DEF AnsweredWith, CaptureGoesOn, SettledStays
  <2> QED
    BY <2>1, <2>2
<1> QED
  BY <1>3, <1>4, <1>7, <1>8 DEF ClientInv

LEMMA QuitLeavesClients ==
  ASSUME CaptureInv, ClientInv, CaptureGoesOn, Quit
  PROVE  ClientInv'
<1>1. notify' = {} /\ UNCHANGED <<client, reply, told, stopped>>
  BY DEF Quit
<1>2. ClientTypes' /\ Heard' /\ Waiting'
  BY <1>1 DEF ClientInv, ClientTypes, Heard, Waiting
<1>3. ASSUME ~hasty', ~unreported', NEW c \in Clients
      PROVE  AnsweredWith(c, reply[c])' /\ AnsweredWith(c, told[c])'
  BY <1>1, <1>3 DEF ClientInv, CaptureGoesOn, SettledStays, AnsweredWith
<1> QED
  BY <1>2, <1>3 DEF ClientInv

LEMMA ClientActs ==
  ASSUME CaptureInv, ClientInv, CaptureGoesOn, NEW c \in Clients,
         Ask(c) \/ ReadsReply(c) \/ GivesUp(c)
  PROVE  ClientInv'
<1> USE NoFileIsNoFile
<1>1. /\ UNCHANGED <<pending_sink_change_, capture_path_, hasty, unreported, reply, stopped>>
      /\ notify' \subseteq notify
  BY DEF Ask, ReadsReply, GivesUp, ClientFrame, controllerVars
<1>2. ClientTypes'
  BY <1>1 DEF ClientInv, ClientTypes, Ask, ReadsReply, GivesUp, ClientSteps
<1>3. Heard'
  BY <1>1 DEF ClientInv, ClientTypes, Heard, Ask, ReadsReply, GivesUp, Waits
<1>4. ASSUME ~hasty', ~unreported' PROVE Waiting'
  BY <1>1, <1>4 DEF ClientInv, Waiting
<1>5. ASSUME ~hasty', ~unreported', NEW d \in Clients
      PROVE  AnsweredWith(d, reply[d])' /\ AnsweredWith(d, told[d])'
  <2>1. told'[d] \in {told[d], NoFile, reply[d]}
    BY DEF ClientInv, ClientTypes, Ask, ReadsReply, GivesUp
  <2>2. AnsweredWith(d, reply[d]) /\ AnsweredWith(d, told[d])
    BY <1>1, <1>5 DEF ClientInv
  <2> QED
    BY <1>1, <2>1, <2>2 DEF AnsweredWith, CaptureGoesOn, SettledStays
<1> QED
  BY <1>2, <1>3, <1>4, <1>5 DEF ClientInv

LEMMA ServerHears ==
  ASSUME CaptureInv, ClientInv, CaptureGoesOn, NEW c \in Clients, HandleStop(c)
  PROVE  ClientInv'
<1> USE NoFileIsNoFile
<1>1. CASE capturing_
  <2>1. /\ notify' = notify \cup {c} /\ stopped' = [stopped EXCEPT ![c] = capture_path_]
        /\ client[c] = "written" /\ client' = [client EXCEPT ![c] = "asked"]
        /\ UNCHANGED <<reply, told, capture_path_, hasty, unreported>> /\ pending_sink_change_'
    BY <1>1 DEF HandleStop, StopsCapture
  <2>2. ClientTypes' /\ Heard'
    BY <2>1 DEF ClientInv, ClientTypes, Heard, ClientSteps, CaptureInv, CaptureTypes
  <2>3. ASSUME ~hasty', ~unreported' PROVE Waiting'
    BY <1>1, <2>1, <2>3, NobodyWaits DEF Waiting, ClientInv, ClientTypes
  <2>4. ASSUME ~hasty', ~unreported', NEW d \in Clients
        PROVE  AnsweredWith(d, reply[d])' /\ AnsweredWith(d, told[d])'
    <3>1. d = c => reply[d] = NoFile /\ told[d] = NoFile
      BY <2>1 DEF ClientInv, Heard
    <3>2. d # c => stopped'[d] = stopped[d]
      BY <2>1 DEF ClientInv, ClientTypes
    <3>3. AnsweredWith(d, reply[d]) /\ AnsweredWith(d, told[d])
      BY <2>1, <2>4 DEF ClientInv
    <3> QED
      BY <2>1, <3>1, <3>2, <3>3 DEF AnsweredWith, CaptureGoesOn, SettledStays
  <2> QED
    BY <2>2, <2>3, <2>4 DEF ClientInv
<1>2. CASE ~capturing_
  <2>1. /\ reply' = [reply EXCEPT ![c] = Refusal]
        /\ client[c] = "written" /\ client' = [client EXCEPT ![c] = "asked"]
        /\ UNCHANGED <<notify, stopped, told, capture_path_, pending_sink_change_, hasty, unreported>>
    BY <1>2 DEF HandleStop, controllerVars
  <2>2. ClientTypes' /\ Heard'
    BY <2>1 DEF ClientInv, ClientTypes, Heard, ClientSteps
  <2>3. ASSUME ~hasty', ~unreported' PROVE Waiting'
    BY <2>1, <2>3 DEF Waiting, ClientInv
  <2>4. ASSUME ~hasty', ~unreported', NEW d \in Clients
        PROVE  AnsweredWith(d, reply[d])' /\ AnsweredWith(d, told[d])'
    <3>1. reply'[d] \in {reply[d], Refusal}
      BY <2>1 DEF ClientInv, ClientTypes
    <3>2. AnsweredWith(d, reply[d]) /\ AnsweredWith(d, told[d])
      BY <2>1, <2>4 DEF ClientInv
    <3> QED
      BY <2>1, <3>1, <3>2 DEF AnsweredWith, CaptureGoesOn, SettledStays
  <2> QED
    BY <2>2, <2>3, <2>4 DEF ClientInv
<1> QED
  BY <1>1, <1>2 DEF CaptureInv, CaptureTypes

LEMMA ClientsGoOn ==
  ASSUME CaptureInv, ClientInv, RunnerInv, CaptureGoesOn, [ControlNext]_controlVars
  PROVE  ClientInv'
<1>0. runner.state = "capturing" => capturing_
  BY DEF RunnerInv, HeadlessRun
<1>1. CASE Tick \/ Quit
  BY <1>1, TickAnswers, QuitLeavesClients
<1>2. CASE PerformPendingSinkChange \/ StreamEnds
  BY <1>2, NobodyIsTold DEF PerformPendingSinkChange, StreamEnds, controllerVars
<1>3. CASE DurationLimit \/ Interrupt \/ UserStops
  <2>1. UNCHANGED clientVars
    BY <1>3 DEF DurationLimit, Interrupt, UserStops, RunnerFrame
  <2>2. capture_path_' = capture_path_ /\ (pending_sink_change_ => pending_sink_change_')
    <3>1. StopsCapture \/ UNCHANGED controllerVars
      BY <1>3 DEF DurationLimit, Interrupt, UserStops, RunnerFrame
    <3> QED
      BY <3>1 DEF StopsCapture, controllerVars
  <2> QED
    BY <2>1, <2>2, NobodyIsTold
<1>4. CASE DeviceAppears \/ UserStarts
  <2>1. UNCHANGED <<app, clientVars>> /\ (StartsCapture \/ StartFails)
    BY <1>4 DEF DeviceAppears, UserStarts
  <2>2. CASE StartsCapture
    BY <2>1, <2>2, NobodyIsTold, Starting
  <2>3. CASE StartFails
    BY <2>1, <2>3, NobodyIsTold DEF StartFails
  <2> QED
    BY <2>1, <2>2, <2>3
<1>5. CASE DeviceTimer \/ FinishTimer \/ ScheduledFinish \/ UNCHANGED controlVars
  BY <1>5, NobodyIsTold
     DEF DeviceTimer, FinishTimer, ScheduledFinish, RunnerFrame, controlVars, controllerVars
<1>6. CASE Client
  <2>1. PICK c \in Clients : Ask(c) \/ HandleStop(c) \/ ReadsReply(c) \/ GivesUp(c)
    BY <1>6 DEF Client
  <2> QED
    BY <2>1, ClientActs, ServerHears
<1> QED
  BY <1>1, <1>2, <1>3, <1>4, <1>5, <1>6 DEF ControlNext, Runner

-----------------------------------------------------------------------------
(* The runner *)

\* What the slots make of a run that is not over
LEMMA SlotsOfARun ==
  ASSUME NEW r \in RunnerType, NEW path \in Files \cup {NoFile}
  PROVE  /\ OnCapturingChanged(r, FALSE) \in RunnerType
         /\ r.state # "finishing" => OnCapturingChanged(r, TRUE) \in RunnerType
         /\ OnCaptureFinished(r, path) \in RunnerType /\ OnFailed(r) \in RunnerType
         /\ r.state # "done" =>
            /\ OnCapturingChanged(r, FALSE).state =
                  (IF r.state \in {"capturing", "starting"} THEN "finishing" ELSE r.state)
            /\ OnCapturingChanged(r, TRUE).state = "capturing"
            /\ \A b \in BOOLEAN : LET s == OnCapturingChanged(r, b) IN
                  s.code = r.code /\ s.scheduled = r.scheduled /\ s.printed = r.printed
            /\ LET s == OnCaptureFinished(r, path) IN
                  s.state = "finishing" /\ s.scheduled /\ s.printed = path /\ s.code = r.code
            /\ LET s == OnFailed(r) IN
                  /\ s.code = "captureFailed" /\ s.scheduled = r.scheduled
                  /\ s.printed = r.printed
                  /\ s.state = (IF r.scheduled \/ r.state = "finishing" THEN r.state ELSE "done")
         /\ r.state = "done" =>
            /\ \A b \in BOOLEAN : OnCapturingChanged(r, b) = r
            /\ OnCaptureFinished(r, path) = r /\ OnFailed(r) = r
BY DEF RunnerType, Runners, OnCapturingChanged, OnCaptureFinished, OnFailed, FinishRunner

LEMMA ReportedRun ==
  ASSUME NEW r \in RunnerType, r.state # "done", NEW path \in Files \cup {NoFile}
  PROVE  /\ OnCaptureFinished(r, path) \in RunnerType
         /\ OnCaptureFinished(r, path).state = "finishing"
         /\ OnCaptureFinished(r, path).code = r.code
         /\ OnCaptureFinished(r, path).printed = path
BY DEF RunnerType, Runners, OnCaptureFinished

LEMMA FinishedRun ==
  ASSUME NEW r \in RunnerType, NEW code \in {"success", "noDevice", "captureFailed"}
  PROVE  /\ FinishRunner(r, code) \in RunnerType
         /\ LET s == FinishRunner(r, code) IN
               s.state = "done" /\ s.code = code /\ s.scheduled = r.scheduled /\ s.printed = r.printed
BY DEF RunnerType, Runners, FinishRunner

\* A run that is over, or that its file was reported of, whatever becomes of the captures
LEMMA RunStays ==
  ASSUME CaptureInv, RunnerInv, CaptureGoesOn, UNCHANGED <<headless, runner>>,
         headless => /\ ~hasty' /\ stream' # "over"
                     /\ runner.state = "capturing" => capturing_'
                     /\ Untouched => Untouched'
  PROVE  RunnerInv'
<1>1. CASE ~headless
  BY <1>1 DEF RunnerInv
<1>2. CASE headless
  <2>1. runner.code = "success" /\ runner.scheduled => ReportedTruly(runner.printed)'
    BY <1>2 DEF RunnerInv, HeadlessRun, CaptureGoesOn, SettledStays, Settled, ReportedTruly
  <2> QED
    BY <1>2, <2>1 DEF RunnerInv, HeadlessRun
<1> QED
  BY <1>1, <1>2 DEF RunnerInv

LEMMA TickOfARun ==
  ASSUME CaptureInv, RunnerInv, CaptureGoesOn, Tick
  PROVE  RunnerInv'
<1> USE NoFileIsNoFile
<1> DEFINE collects == pending_sink_change_ /\ changed
           ends     == stream \in {"over", "failed"}
           r1 == IF collects THEN OnCaptureFinished(runner, capture_path_) ELSE runner
           r2 == IF ends /\ capturing_
                 THEN OnCaptureFinished(OnCapturingChanged(r1, FALSE), capture_path_) ELSE r1
<1>1. /\ monitoring_ /\ (collects \/ ends)
      /\ runner' = IF stream = "failed" THEN OnFailed(r2) ELSE r2
      /\ capturing_' = (capturing_ /\ ~ends)
      /\ stream' = IF ends THEN "off" ELSE stream
      /\ UNCHANGED <<headless, hasty>>
  BY DEF Tick
<1>2. capture_path_ \in Files \cup {NoFile} /\ runner \in RunnerType
  BY DEF CaptureInv, CaptureTypes, RunnerInv
<1>3. CASE runner.state = "done"
  <2>0. /\ OnCapturingChanged(runner, FALSE) = runner
        /\ OnCaptureFinished(runner, capture_path_) = runner /\ OnFailed(runner) = runner
    BY <1>2, <1>3, SlotsOfARun
  <2>1. r1 = runner
    BY <2>0
  <2>2. r2 = IF ends /\ capturing_
             THEN OnCaptureFinished(OnCapturingChanged(r1, FALSE), capture_path_) ELSE r1
    OBVIOUS
  <2> HIDE DEF collects, ends, r1, r2
  <2>3. runner' = runner
    BY <1>1, <2>0, <2>1, <2>2
  <2>4. ~Untouched
    BY <1>1 DEF Untouched
  <2> QED
    BY <1>1, <1>3, <2>3, <2>4, RunStays DEF RunnerInv, HeadlessRun
<1>4. CASE runner.state # "done"
  <2>1. headless /\ HeadlessRun /\ ~hasty
    BY <1>4 DEF RunnerInv, HeadlessRun
  <2>2. /\ runner.state # "waiting" /\ runner.code # "noDevice" /\ stream # "over"
        /\ runner.state = "capturing" => capturing_
        /\ runner.scheduled => runner.state \in {"finishing", "done"}
    BY <1>1, <1>4, <2>1 DEF HeadlessRun, Untouched
  <2>3. /\ r1 \in RunnerType /\ r1.state # "done" /\ r1.state # "waiting"
        /\ r1.code = runner.code
        /\ r1.state = "capturing" => capturing_
        /\ r1.scheduled => r1.state = "finishing"
        /\ r1.scheduled /\ r1.code = "success" =>
            /\ Settled(r1.printed)
            /\ file[r1.printed] = "broken" => premature' \/ stream = "failed"
    <3>1. CASE collects
      <4>1. /\ Settled(capture_path_)
            /\ file[capture_path_] = "broken" => premature' \/ stream = "failed"
        BY <2>1, <3>1 DEF CaptureInv, Stopping, Tick
      <4>2. /\ OnCaptureFinished(runner, capture_path_) \in RunnerType
            /\ OnCaptureFinished(runner, capture_path_).state = "finishing"
            /\ OnCaptureFinished(runner, capture_path_).code = runner.code
            /\ OnCaptureFinished(runner, capture_path_).printed = capture_path_
        BY <1>2, <1>4, ReportedRun
      <4>3. r1 = OnCaptureFinished(runner, capture_path_)
        BY <3>1
      <4> HIDE DEF r1
      <4> QED
        BY <4>1, <4>2, <4>3
    <3>2. CASE ~collects
      BY <1>2, <1>4, <2>1, <2>2, <3>2 DEF HeadlessRun, ReportedTruly, CaptureGoesOn
    <3> QED
      BY <3>1, <3>2
  <2> HIDE DEF r1
  <2>4. CASE ~ends
    <3>1. runner' = r1 /\ (capturing_ => capturing_') /\ stream' = stream
      BY <1>1, <2>4
    <3>2. runner'.scheduled /\ runner'.code = "success" => ReportedTruly(runner.printed)'
      BY <2>3, <2>4, <3>1 DEF CaptureGoesOn, SettledStays, Settled, ReportedTruly
    <3> QED
      BY <1>1, <2>1, <2>2, <2>3, <3>1, <3>2 DEF RunnerInv, HeadlessRun
  <2>5. CASE ends
    <3>1. /\ r2 \in RunnerType /\ r2.state \notin {"done", "waiting", "capturing"}
          /\ r2.scheduled => r2.state = "finishing"
      <4>1. CASE capturing_
        <5> DEFINE q == OnCapturingChanged(r1, FALSE)
        <5>1. q \in RunnerType /\ q.state # "done"
          BY <1>2, <2>3, SlotsOfARun
        <5>2. r2 = OnCaptureFinished(q, capture_path_)
          BY <2>5, <4>1
        <5> HIDE DEF q, r2
        <5>3. /\ OnCaptureFinished(q, capture_path_) \in RunnerType
              /\ OnCaptureFinished(q, capture_path_).state = "finishing"
          BY <1>2, <5>1, ReportedRun
        <5> QED
          BY <5>2, <5>3
      <4>2. CASE ~capturing_
        BY <2>3, <4>2
      <4> QED
        BY <4>1, <4>2
    <3>2. runner' = OnFailed(r2) /\ stream' = "off"
      BY <1>1, <2>2, <2>5
    <3> HIDE DEF r2
    <3>3. /\ runner' \in RunnerType /\ runner'.state \notin {"waiting", "capturing"}
          /\ runner'.code = "captureFailed"
          /\ runner'.scheduled => runner'.state \in {"finishing", "done"}
      BY <1>2, <3>1, <3>2, SlotsOfARun
    <3> QED
      BY <1>1, <2>1, <3>2, <3>3 DEF RunnerInv, HeadlessRun
  <2> QED
    BY <2>4, <2>5
<1> QED
  BY <1>3, <1>4

LEMMA RunStops ==
  ASSUME CaptureInv, RunnerInv, CaptureGoesOn, capturing_, StopsCapture,
         runner' = OnCapturingChanged(runner, FALSE), UNCHANGED headless
  PROVE  RunnerInv'
<1> USE NoFileIsNoFile
<1>1. runner \in RunnerType
  BY DEF RunnerInv
<1>2. capture_path_ \in Files
  BY DEF CaptureInv, CaptureTypes, Begun
<1>3. UNCHANGED <<stream, hasty>>
  BY DEF StopsCapture
<1>4. CASE runner.state = "done"
  BY <1>1, <1>2, <1>3, <1>4, SlotsOfARun, RunStays DEF RunnerInv, HeadlessRun, Untouched
<1>5. CASE runner.state # "done"
  <2>1. headless /\ HeadlessRun
    BY <1>5 DEF RunnerInv
  <2>2. runner.state # "waiting" /\ runner.code # "noDevice"
    BY <2>1 DEF HeadlessRun, Untouched
  <2>3. /\ runner' \in RunnerType /\ runner'.code = runner.code
        /\ runner'.scheduled = runner.scheduled /\ runner'.printed = runner.printed
        /\ runner'.state = (IF runner.state \in {"capturing", "starting"} THEN "finishing"
                            ELSE runner.state)
    BY <1>1, <1>2, <1>5, SlotsOfARun
  <2>4. runner.scheduled /\ runner.code = "success" => ReportedTruly(runner.printed)'
    BY <2>1, <2>3 DEF HeadlessRun, CaptureGoesOn, SettledStays, Settled, ReportedTruly
  <2> QED
    BY <1>3, <1>5, <2>1, <2>2, <2>3, <2>4 DEF RunnerInv, HeadlessRun
<1> QED
  BY <1>4, <1>5

LEMMA RunBegins ==
  ASSUME CaptureInv, RunnerInv, CaptureGoesOn, DeviceAppears
  PROVE  RunnerInv'
<1> USE NoFileIsNoFile
<1> DEFINE r == [runner EXCEPT !.state = "starting"]
<1>1. /\ r \in RunnerType /\ r.state = "starting" /\ r.code = runner.code
      /\ r.scheduled = runner.scheduled /\ r.printed = runner.printed
  BY DEF DeviceAppears, RunnerInv, RunnerType, Runners
<1>2. /\ headless /\ headless' /\ HeadlessRun /\ Untouched
      /\ runner.code = "success" /\ ~runner.scheduled
  BY DEF DeviceAppears, RunnerInv, HeadlessRun
<1>3. NoFile + 1 \in Files
  BY CaptureControlAssumption DEF NoFile, Files
<1>4. CASE StartsCapture /\ runner' = OnCapturingChanged(r, TRUE)
  <2> HIDE DEF r
  <2>1. /\ runner' \in RunnerType /\ runner'.state = "capturing" /\ runner'.code = "success"
        /\ ~runner'.scheduled
    BY <1>1, <1>2, <1>3, <1>4, SlotsOfARun
  <2>2. capturing_' /\ ~hasty' /\ stream' # "over"
    BY <1>2, <1>4 DEF StartsCapture, HeadlessRun, Untouched
  <2> QED
    BY <1>2, <2>1, <2>2 DEF RunnerInv, HeadlessRun
<1>5. CASE StartFails /\ runner' = OnFailed(r)
  <2> HIDE DEF r
  <2>1. /\ runner' \in RunnerType /\ runner'.state = "done" /\ runner'.code = "captureFailed"
    BY <1>1, <1>2, <1>3, <1>5, SlotsOfARun
  <2>2. ~hasty' /\ stream' # "over"
    BY <1>2, <1>5 DEF StartFails, HeadlessRun
  <2> QED
    BY <1>2, <2>1, <2>2 DEF RunnerInv, HeadlessRun
<1> QED
  BY <1>4, <1>5 DEF DeviceAppears

LEMMA RunIsFinished ==
  ASSUME CaptureInv, RunnerInv, CaptureGoesOn, UNCHANGED <<headless, captureVars>>,
         NEW code \in {"success", "noDevice", "captureFailed"},
         runner' = FinishRunner(runner, code), runner.state # "done",
         code = "noDevice" => runner.state = "waiting",
         code = "success" => runner.scheduled /\ runner.code = "success"
  PROVE  RunnerInv'
<1>1. headless /\ headless' /\ HeadlessRun /\ runner \in RunnerType
  BY DEF RunnerInv
<1>2. /\ runner' \in RunnerType /\ runner'.state = "done" /\ runner'.code = code
      /\ runner'.scheduled = runner.scheduled /\ runner'.printed = runner.printed
  BY <1>1, FinishedRun
<1>3. code = "noDevice" => Untouched'
  BY <1>1 DEF HeadlessRun, Untouched, captureVars, controllerVars, pipelineVars
<1>4. code = "success" => ReportedTruly(runner.printed)'
  BY <1>1, <1>2 DEF HeadlessRun, Settled, ReportedTruly, CaptureGoesOn, SettledStays
<1> QED
  BY <1>1, <1>2, <1>3, <1>4 DEF RunnerInv, HeadlessRun, captureVars, pipelineVars

LEMMA RunGoesOn ==
  ASSUME CaptureInv, RunnerInv, CaptureGoesOn, [ControlNext]_controlVars
  PROVE  RunnerInv'
<1> USE NoFileIsNoFile
<1>0. /\ runner \in RunnerType /\ (runner.state = "capturing" => capturing_)
      /\ (~headless => runner.state = "done")
  BY DEF RunnerInv, HeadlessRun
<1>1. CASE Tick \/ DeviceAppears
  BY <1>1, TickOfARun, RunBegins
<1>2. CASE DurationLimit
  BY <1>2, RunStops DEF DurationLimit
<1>3. CASE PerformPendingSinkChange
  BY <1>3, RunStays 
     DEF PerformPendingSinkChange, Retired, Untouched, controllerVars, RunnerInv, HeadlessRun
<1>4. CASE StreamEnds
  BY <1>4, RunStays
     DEF StreamEnds, Retired, Untouched, controllerVars, RunnerInv, HeadlessRun
<1>5. CASE DeviceTimer \/ FinishTimer \/ ScheduledFinish
  <2>1. UNCHANGED <<headless, captureVars>>
    BY <1>5 DEF DeviceTimer, FinishTimer, ScheduledFinish, RunnerFrame, captureVars
  <2>2. CASE DeviceTimer
    BY <2>1, <2>2, RunIsFinished DEF DeviceTimer
  <2>3. CASE FinishTimer
    BY <1>0, <2>1, <2>3, RunIsFinished DEF FinishTimer, RunnerType
  <2>4. CASE ScheduledFinish
    <3>1. /\ runner.code \in {"success", "captureFailed"} /\ runner.state # "done"
          /\ runner.scheduled /\ runner' = FinishRunner(runner, runner.code)
      BY <1>0, <2>4 DEF ScheduledFinish, RunnerInv, HeadlessRun, RunnerType, Runners
    <3> QED
      BY <2>1, <3>1, RunIsFinished
  <2> QED
    BY <1>5, <2>2, <2>3, <2>4
<1>6. CASE Interrupt
  <2>1. CASE runner.state = "waiting"
    <3>1. runner' = FinishRunner(runner, "noDevice") /\ UNCHANGED <<headless, captureVars>>
      BY <1>6, <2>1 DEF Interrupt, RunnerFrame, captureVars
    <3> QED
      BY <2>1, <3>1, RunIsFinished
  <2>2. CASE runner.state = "capturing"
    BY <1>0, <1>6, <2>2, RunStops DEF Interrupt
  <2> QED
    BY <1>6, <2>1, <2>2 DEF Interrupt
<1>7. CASE Quit
  BY <1>0, <1>7, RunStays
     DEF Quit, Retired, Untouched, controllerVars, RunnerInv, HeadlessRun
<1>8. CASE UserStarts \/ UserStops
  BY <1>8, RunStays DEF UserStarts, UserStops
<1>9. CASE Client
  <2>1. PICK c \in Clients : Ask(c) \/ HandleStop(c) \/ ReadsReply(c) \/ GivesUp(c)
    BY <1>9 DEF Client
  <2>2. CASE HandleStop(c) /\ capturing_
    BY <2>2, RunStops DEF HandleStop
  <2>3. CASE UNCHANGED <<headless, runner, captureVars>>
    BY <2>3, RunStays
       DEF Untouched, captureVars, controllerVars, pipelineVars, RunnerInv, HeadlessRun
  <2> QED
    BY <2>1, <2>2, <2>3 DEF HandleStop, Ask, ReadsReply, GivesUp, ClientFrame, captureVars
<1>10. CASE UNCHANGED controlVars
  BY <1>10, RunStays
     DEF controlVars, Untouched, controllerVars, pipelineVars, RunnerInv, HeadlessRun
<1> QED
  BY <1>1, <1>2, <1>3, <1>4, <1>5, <1>6, <1>7, <1>8, <1>9, <1>10 DEF ControlNext, Runner

-----------------------------------------------------------------------------
LEMMA ControlStarts == ControlInit => ControlInv
<1> USE NoFileIsNoFile
<1>1. ControlInit => CaptureInv
  BY DEF ControlInit, CaptureInv, CaptureTypes, Begun, Stopping, FileStates
<1>2. ControlInit => ClientInv
  BY DEF ControlInit, ClientInv, ClientTypes, Heard, Waiting, AnsweredWith, ClientSteps
<1>3. ControlInit => RunnerInv
  BY DEF ControlInit, RunnerInv, HeadlessRun, Untouched, RunnerType, Runners
<1> QED
  BY <1>1, <1>2, <1>3 DEF ControlInv

LEMMA ControlHolds ==
  ASSUME ControlInv, [ControlNext]_controlVars
  PROVE  ControlInv'
<1>1. CaptureGoesOn
  BY CapturesGoOn DEF ControlInv
<1> QED
  BY <1>1, ClientsGoOn, RunGoesOn DEF ControlInv, CaptureGoesOn

LEMMA AnswersFollow ==
  ASSUME ControlInv
  PROVE  AnswersAreTrue
<1> USE NoFileIsNoFile
<1>1. ReplyNamesWhatItStopped
  BY DEF ControlInv, ClientInv, ClientTypes, AnsweredWith, Settled, ReplyNamesWhatItStopped
<1>2. ExitCodeIsTrue
  BY DEF ControlInv, RunnerInv, HeadlessRun, Settled, ReportedTruly, Untouched, ExitCodeIsTrue
<1> QED
  BY <1>1, <1>2 DEF AnswersAreTrue

\* What the application answers is true: a client is told the file it stopped, and that
\* file is closed and was not cut by a failing stream, unless a capture was begun before
\* the last one was reported or the report of one was forgotten; the exit code of a
\* headless run is that of its file, of one that could not be finished too, unless that
\* was reported before its run was down (capture_control_server.cpp:392,
\* headless_capture_runner.cpp:221, capture_pipeline.cpp:474).
THEOREM AnswersAlwaysTrue == ControlSpec => []AnswersAreTrue
<1> QED
  BY ControlStarts, ControlHolds, AnswersFollow, PTL DEF ControlSpec

-----------------------------------------------------------------------------
(* What there is *)

Plans == {[shape |-> "wholeSide", key_lock |-> TRUE, start_address |-> 1],
          [shape |-> "fromSpinUp", key_lock |-> FALSE, start_address |-> 1],
          [shape |-> "range", key_lock |-> TRUE, start_address |-> 1]}

SpinUpHead == {"lock", "confirm", "checkTransport", "spinDown", "startCapture", "spinUp", "watch"}
SeekHead   == {"lock", "confirm", "seek", "startCapture", "spinUp", "watch"}
TailSet    == {"checkBefore", "stopPlayer", "stopCapture", "unlock", "finished"}
HeadSet    == (IF BeginsWithSpinUp THEN SpinUpHead ELSE SeekHead) \cup {"checkStall"}

Outcomes   == {"completed", "cancelled", "linkFailed", "captureFailed", "discChanged",
               "playerRefused", "playerStopped", "stalled"}
Stages     == SpinUpHead \cup SeekHead \cup {"checkStall"} \cup TailSet
Sequences  ==
    [stage : Stages,
     pending : BOOLEAN, finishing : BOOLEAN, cancel : BOOLEAN, pendingOutcome : Outcomes,
     outcome : Outcomes \cup {"inProgress"}, keyLock : BOOLEAN, transportStarted : BOOLEAN,
     turning : BOOLEAN, captureStarted : BOOLEAN, captureStopped : BOOLEAN, linkFailed : BOOLEAN,
     lastAddress : Nat, readings : Nat]

Discs   == {"open", "parked", "settingUp", "playing", "paused"}
Replies == [kind : {"disc", "address", "mode", "ack", "refusal", "silence", "linkFailed", "notConnected"},
            state : Discs \cup {"none"}, address : Nat]

-----------------------------------------------------------------------------
(* The inductive invariant *)

\* The stages of a tail that come after its stopCapture
AfterCapture == {"unlock", "finished"} \cup (IF EndsWithSpinDown THEN {} ELSE {"checkBefore", "stopPlayer"})

\* A sequence between two of its calls: the stage is one of the head, or of the tail
\* once it is finishing, and applies; the disc is believed to turn from the question
\* about it on and not before; a capture that still runs past its stop is one a dead
\* link was not to cost
SeqInv(s) ==
    /\ s \in Sequences
    /\ s.stage \in (IF s.finishing THEN TailSet ELSE HeadSet)
    /\ s.outcome = IF s.stage = "finished" THEN s.pendingOutcome ELSE "inProgress"
    /\ s.finishing => TailApplies(s, s.stage) /\ ~s.cancel
    /\ s.stage \in {"lock", "confirm", "checkTransport", "checkBefore"} => ~s.turning
    /\ ~EndsWithSpinDown /\ s.stage = "stopCapture" => ~s.turning
    /\ s.stage \in AfterCapture /\ CaptureRunning(s) => s.pendingOutcome = "linkFailed"
    /\ ~s.finishing => /\ s.captureStarted <=> s.stage \in {"spinUp", "watch", "checkStall"}
                       /\ ~s.captureStopped
    /\ s.captureStopped => s.captureStarted
    /\ s.keyLock => "keyLock" \in Controls

TypeOK ==
    /\ plan \in Plans
    /\ waiting \in {"step", "reply", "over"}
    /\ connected \in BOOLEAN
    /\ late # <<>> => late = <<late[1]>> /\ late[1] \in Replies
    /\ disc \in Discs /\ at \in 0 .. LastAddress + 1
    /\ sticks \in BOOLEAN /\ panelLocked \in BOOLEAN /\ capturing \in BOOLEAN
    /\ held \subseteq Programme
    /\ mishaps \in Nat
    /\ {silent, saidResting, ejected, misread, headObeyed} \subseteq BOOLEAN

\* Only a step that is sent to the player is waited for, and the two that depend on
\* what a run knows are sent when they apply
Asked ==
    /\ waiting # "over" => SeqInv(seq)
    /\ waiting = "step" => ~seq.pending /\ ~seq.cancel
    /\ waiting = "reply" =>
         /\ seq.stage \notin {"startCapture", "stopCapture", "finished"}
         /\ seq.stage \in {"lock", "spinDown"} => HeadApplies(seq, seq.stage)

\* An answer is late, and then read as another's, only after one was not given in time
Disturbed ==
    /\ late # <<>> \/ misread => silent
    /\ silent \/ ~connected => mishaps > 0
    /\ ~Turning(disc) \/ disc = "settingUp" => at = 0

\* A run that is about to stop the disc has just been told that it turns
Tray ==
    /\ ejected => misread
    /\ waiting # "over" /\ seq.stage \in {"spinDown", "stopPlayer"} /\ seq.turning /\ ~misread => ~saidResting

\* What is still to be undone, the sequence knows of: the capture by its two members,
\* the lock by keyLock, which holds from the acknowledgement to the unlocking
Undone ==
    /\ capturing => IF waiting = "over" THEN seq.outcome = "linkFailed" ELSE CaptureRunning(seq)
    /\ panelLocked /\ ~silent => \/ seq.linkFailed
                                 \/ waiting # "over" /\ seq.keyLock /\ seq.stage \notin {"lock", "finished"}

Undisturbed == mishaps = 0 /\ (BeginsWithSpinUp => headObeyed)

\* In an undisturbed run the disc rests, or stands at the start, when the file is
\* opened; from then on what has passed under the head is in the file
Whole ==
    /\ waiting # "over" /\ seq.stage \in {"lock", "confirm", "checkTransport"} => ~headObeyed
    /\ waiting # "over" /\ Undisturbed =>
        /\ seq.stage = "spinDown" => IF seq.turning THEN "stop" \in Controls ELSE ~Turning(disc)
        /\ seq.stage = "startCapture" => IF BeginsWithSpinUp THEN ~Turning(disc)
                                         ELSE disc = "paused" /\ at = 1
        /\ seq.stage \in {"spinUp", "watch", "checkStall"} =>
             capturing /\ (Turning(disc) => (1 .. at) \cap Programme \subseteq held)
        /\ seq.finishing /\ seq.pendingOutcome = "completed" => Programme \subseteq held
    /\ waiting = "over" /\ Undisturbed /\ seq.outcome = "completed" => Programme \subseteq held

AutoInv == TypeOK /\ Asked /\ Disturbed /\ Tray /\ Undone /\ Whole

-----------------------------------------------------------------------------
(* Where a list of stages goes on *)

\* A list has at most seven stages; a set of places in it has a first
LEMMA LeastOne ==
  ASSUME NEW S \in SUBSET (1 .. 7), S # {}
  PROVE  Min(S) \in S /\ \A i \in S : Min(S) <= i
<1>1. \E least \in S : \A i \in S : least <= i
  <2>1. CASE 1 \in S
    BY <2>1
  <2>2. CASE 1 \notin S /\ 2 \in S
    BY <2>2
  <2>3. CASE S \cap {1, 2} = {} /\ 3 \in S
    BY <2>3
  <2>4. CASE S \cap {1, 2, 3} = {} /\ 4 \in S
    BY <2>4
  <2>5. CASE S \cap {1, 2, 3, 4} = {} /\ 5 \in S
    BY <2>5
  <2>6. CASE S \cap {1, 2, 3, 4, 5} = {} /\ 6 \in S
    BY <2>6
  <2>7. CASE S \cap {1, 2, 3, 4, 5, 6} = {}
    <3>1. \A i \in S : i = 7
      BY <2>7
    <3>2. PICK k \in S : TRUE
      OBVIOUS
    <3> QED
      BY <3>1, <3>2
  <2> QED
    BY <2>1, <2>2, <2>3, <2>4, <2>5, <2>6, <2>7
<1> QED
  BY <1>1 DEF Min

\* A stage stands once in its list
LEMMA Position ==
  ASSUME NEW stages, NEW i \in DOMAIN stages,
         \A j \in DOMAIN stages : stages[j] = stages[i] => j = i
  PROVE  (CHOOSE j \in DOMAIN stages : stages[j] = stages[i]) = i
OBVIOUS

\* The lists, place by place
LEMMA Lists ==
  /\ DOMAIN HeadStages = IF BeginsWithSpinUp THEN 1 .. 7 ELSE 1 .. 6
  /\ Len(HeadStages) = IF BeginsWithSpinUp THEN 7 ELSE 6
  /\ DOMAIN TailStages = 1 .. 5 /\ Len(TailStages) = 5
  /\ BeginsWithSpinUp =>
       /\ HeadStages[1] = "lock" /\ HeadStages[2] = "confirm" /\ HeadStages[3] = "checkTransport"
       /\ HeadStages[4] = "spinDown" /\ HeadStages[5] = "startCapture"
       /\ HeadStages[6] = "spinUp" /\ HeadStages[7] = "watch"
  /\ ~BeginsWithSpinUp =>
       /\ HeadStages[1] = "lock" /\ HeadStages[2] = "confirm" /\ HeadStages[3] = "seek"
       /\ HeadStages[4] = "startCapture" /\ HeadStages[5] = "spinUp" /\ HeadStages[6] = "watch"
  /\ EndsWithSpinDown =>
       /\ TailStages[1] = "checkBefore" /\ TailStages[2] = "stopPlayer"
       /\ TailStages[3] = "stopCapture" /\ TailStages[4] = "unlock" /\ TailStages[5] = "finished"
  /\ ~EndsWithSpinDown =>
       /\ TailStages[1] = "stopCapture" /\ TailStages[2] = "checkBefore"
       /\ TailStages[3] = "stopPlayer" /\ TailStages[4] = "unlock" /\ TailStages[5] = "finished"
BY DEF HeadStages, TailStages

\* The stages of the head that come one after the other
LEMMA HeadGoesOn ==
  /\ After(HeadStages, "lock") = "confirm"
  /\ After(HeadStages, "confirm") = IF BeginsWithSpinUp THEN "checkTransport" ELSE "seek"
  /\ BeginsWithSpinUp => /\ After(HeadStages, "checkTransport") = "spinDown"
                         /\ After(HeadStages, "spinDown") = "startCapture"
  /\ ~BeginsWithSpinUp => After(HeadStages, "seek") = "startCapture"
  /\ After(HeadStages, "startCapture") = "spinUp"
  /\ After(HeadStages, "spinUp") = "watch"
<1>1. ASSUME NEW i \in DOMAIN HeadStages
      PROVE  After(HeadStages, HeadStages[i]) = HeadStages[1 + i]
  BY <1>1, Position, Lists DEF After
<1> QED
  BY <1>1, Lists

\* The stages of the tail that come one after the other
LEMMA TailGoesOn ==
  /\ EndsWithSpinDown =>
       /\ After(TailStages, "checkBefore") = "stopPlayer" /\ After(TailStages, "stopPlayer") = "stopCapture"
       /\ After(TailStages, "stopCapture") = "unlock"
  /\ ~EndsWithSpinDown =>
       /\ After(TailStages, "stopCapture") = "checkBefore" /\ After(TailStages, "checkBefore") = "stopPlayer"
       /\ After(TailStages, "stopPlayer") = "unlock"
  /\ After(TailStages, "unlock") = "finished"
<1>1. ASSUME NEW i \in DOMAIN TailStages
      PROVE  After(TailStages, TailStages[i]) = TailStages[1 + i]
  BY <1>1, Position, Lists DEF After
<1> QED
  BY <1>1, Lists

\* From, with the test of each half of a run
TailNext(s, stage) == From(TailStages, stage, LAMBDA g : TailApplies(s, g))
HeadNext(s, stage) == From(HeadStages, stage, LAMBDA g : HeadApplies(s, g))

\* The tail goes on to a stage that applies, over such as do not
LEMMA TailFrom ==
  ASSUME NEW s, NEW i \in 1 .. 5
  PROVE  \E j \in i .. 5 :
           /\ TailNext(s, TailStages[i]) = TailStages[j]
           /\ TailApplies(s, TailStages[j])
           /\ \A k \in i .. j - 1 : ~TailApplies(s, TailStages[k])
<1> DEFINE S == {k \in i .. Len(TailStages) : TailApplies(s, TailStages[k])}
           first == CHOOSE k \in DOMAIN TailStages : TailStages[k] = TailStages[i]
<1>1. first = i
  BY Position, Lists
<1>2. S \in SUBSET (1 .. 7) /\ 5 \in S
  BY Lists DEF TailApplies
<1>3. Min(S) \in S /\ \A k \in S : Min(S) <= k
  BY <1>2, LeastOne
<1>4. TailNext(s, TailStages[i]) = TailStages[Min(S)]
  BY <1>1 DEF From, TailNext
<1>5. Min(S) \in i .. 5 /\ TailApplies(s, TailStages[Min(S)])
  BY <1>3, Lists
<1>6. ASSUME NEW k \in i .. Min(S) - 1
      PROVE  ~TailApplies(s, TailStages[k])
  BY <1>3, <1>5, Lists
<1> QED
  BY <1>4, <1>5, <1>6

\* The head goes on in the same way
LEMMA HeadFrom ==
  ASSUME NEW s, NEW i \in DOMAIN HeadStages
  PROVE  \E j \in i .. Len(HeadStages) :
           /\ HeadNext(s, HeadStages[i]) = HeadStages[j]
           /\ HeadApplies(s, HeadStages[j])
           /\ \A k \in i .. j - 1 : ~HeadApplies(s, HeadStages[k])
<1> DEFINE S == {k \in i .. Len(HeadStages) : HeadApplies(s, HeadStages[k])}
           first == CHOOSE k \in DOMAIN HeadStages : HeadStages[k] = HeadStages[i]
<1>1. first = i
  BY Position, Lists
<1>2. S \in SUBSET (1 .. 7) /\ Len(HeadStages) \in S
  BY Lists DEF HeadApplies
<1>3. Min(S) \in S /\ \A k \in S : Min(S) <= k
  BY <1>2, LeastOne
<1>4. HeadNext(s, HeadStages[i]) = HeadStages[Min(S)]
  BY <1>1 DEF From, HeadNext
<1>5. Min(S) \in i .. Len(HeadStages) /\ HeadApplies(s, HeadStages[Min(S)])
  BY <1>3, Lists
<1>6. ASSUME NEW k \in i .. Min(S) - 1
      PROVE  ~HeadApplies(s, HeadStages[k])
  BY <1>3, <1>5, Lists
<1> QED
  BY <1>4, <1>5, <1>6

\* From a stage of the tail on: where it lands, and what it cannot pass over
LEMMA TailLands ==
  ASSUME NEW s, NEW stage \in TailSet
  PROVE  LET next == TailNext(s, stage) IN
         /\ next \in TailSet /\ TailApplies(s, next)
         /\ next = "finished" /\ stage # "finished" /\ s.keyLock /\ "keyLock" \in Controls => s.linkFailed
         /\ next \in AfterCapture /\ stage \notin AfterCapture /\ CaptureRunning(s)
              => s.pendingOutcome = "linkFailed"
         /\ next = "checkBefore" => stage = "checkBefore" \/ (~EndsWithSpinDown /\ stage = "stopCapture")
         /\ ~EndsWithSpinDown /\ next = "stopCapture" => stage = "stopCapture"
         /\ stage \in AfterCapture => next \in AfterCapture
         /\ next = "stopPlayer" =>
              stage \in {"checkBefore", "stopPlayer"} \/ (~EndsWithSpinDown /\ stage = "stopCapture")
<1>1. PICK i \in 1 .. 5 : stage = TailStages[i]
  BY Lists DEF TailSet
<1>2. PICK j \in i .. 5 :
           /\ TailNext(s, stage) = TailStages[j]
           /\ TailApplies(s, TailStages[j])
           /\ \A k \in i .. j - 1 : ~TailApplies(s, TailStages[k])
  BY <1>1, TailFrom
<1>3. /\ TailApplies(s, "stopCapture") <=> CaptureRunning(s) /\ s.pendingOutcome # "linkFailed"
      /\ TailApplies(s, "unlock") <=> s.keyLock /\ ~s.linkFailed /\ "keyLock" \in Controls
  BY DEF TailApplies
<1> DEFINE next == TailNext(s, stage)
<1>4. \A k \in 1 .. 5 : i <= k /\ k < j => ~TailApplies(s, TailStages[k])
  BY <1>2
<1>5. next = TailStages[j] /\ TailApplies(s, next) /\ i <= j
  BY <1>2
<1> HIDE DEF next
<1>6. CASE EndsWithSpinDown
  <2>1. i <= 4 /\ j = 5 => ~TailApplies(s, "unlock")
    BY <1>4, <1>6, Lists
  <2>2. i <= 3 /\ j > 3 => ~TailApplies(s, "stopCapture")
    BY <1>4, <1>6, Lists
  <2>3. /\ stage \in AfterCapture <=> i > 3
        /\ next \in AfterCapture <=> j > 3
        /\ stage = "finished" <=> i = 5
        /\ next = "finished" <=> j = 5
        /\ next = "checkBefore" <=> j = 1
        /\ stage = "checkBefore" <=> i = 1
        /\ next = "stopPlayer" <=> j = 2
        /\ stage = "stopPlayer" <=> i = 2
        /\ next \in TailSet
    BY <1>1, <1>5, <1>6, Lists DEF TailSet, AfterCapture
  <2>4. next = "stopPlayer" => stage \in {"checkBefore", "stopPlayer"}
    BY <1>5, <2>3
  <2> QED
    BY <1>1, <1>3, <1>5, <1>6, <2>1, <2>2, <2>3, <2>4 DEF next
<1>7. CASE ~EndsWithSpinDown
  <2>1. i <= 4 /\ j = 5 => ~TailApplies(s, "unlock")
    BY <1>4, <1>7, Lists
  <2>2. i = 1 /\ j > 1 => ~TailApplies(s, "stopCapture")
    BY <1>4, <1>7, Lists
  <2>3. /\ stage \in AfterCapture <=> i > 1
        /\ next \in AfterCapture <=> j > 1
        /\ stage = "finished" <=> i = 5
        /\ next = "finished" <=> j = 5
        /\ next = "checkBefore" <=> j = 2
        /\ stage = "checkBefore" <=> i = 2
        /\ next = "stopCapture" <=> j = 1
        /\ next = "stopPlayer" <=> j = 3
        /\ stage = "stopPlayer" <=> i = 3
        /\ stage = "stopCapture" <=> i = 1
        /\ next \in TailSet
    BY <1>1, <1>5, <1>7, Lists DEF TailSet, AfterCapture
  <2>4. next = "stopPlayer" => stage \in {"checkBefore", "stopPlayer", "stopCapture"}
    BY <1>5, <2>3
  <2> QED
    BY <1>1, <1>3, <1>5, <1>7, <2>1, <2>2, <2>3, <2>4 DEF next
<1> QED
  BY <1>6, <1>7 DEF next

\* What every step of the tail may rely on
TailInv(s) ==
    /\ s \in Sequences
    /\ s.finishing /\ ~s.cancel /\ ~s.pending /\ s.outcome = "inProgress"
    /\ s.captureStopped => s.captureStarted
    /\ s.keyLock => "keyLock" \in Controls

\* AdvanceTeardown, from a stage of the tail on
LEMMA TeardownAdvances ==
  ASSUME NEW s, TailInv(s), NEW stage \in TailSet,
         stage = "checkBefore" \/ (~EndsWithSpinDown /\ stage = "stopCapture") => ~s.turning,
         stage \in AfterCapture /\ CaptureRunning(s) => s.pendingOutcome = "linkFailed",
         NEW t, t = AdvanceTeardown(s, stage)
  PROVE  /\ SeqInv(t) /\ t.finishing /\ ~t.pending /\ ~t.cancel
         /\ t.pendingOutcome = s.pendingOutcome /\ t.turning = s.turning
         /\ t.captureStarted = s.captureStarted /\ t.captureStopped = s.captureStopped
         /\ t.keyLock = s.keyLock /\ t.linkFailed = s.linkFailed
         /\ t.stage = "finished" => stage = "finished" \/ ~t.keyLock \/ t.linkFailed
         /\ t.stage = "stopPlayer" =>
              stage \in {"checkBefore", "stopPlayer"} \/ (~EndsWithSpinDown /\ stage = "stopCapture")
<1> DEFINE next == TailNext(s, stage)
<1>1. /\ next \in TailSet /\ TailApplies(s, next)
      /\ next = "finished" /\ stage # "finished" /\ s.keyLock /\ "keyLock" \in Controls => s.linkFailed
      /\ next \in AfterCapture /\ stage \notin AfterCapture /\ CaptureRunning(s)
           => s.pendingOutcome = "linkFailed"
      /\ next = "checkBefore" => stage = "checkBefore" \/ (~EndsWithSpinDown /\ stage = "stopCapture")
      /\ ~EndsWithSpinDown /\ next = "stopCapture" => stage = "stopCapture"
      /\ next = "stopPlayer" =>
              stage \in {"checkBefore", "stopPlayer"} \/ (~EndsWithSpinDown /\ stage = "stopCapture")
  BY TailLands
<1>2. t = [s EXCEPT !.stage = next, !.outcome = IF next = "finished" THEN s.pendingOutcome ELSE @]
  BY DEF AdvanceTeardown, TailNext
<1> HIDE DEF next
<1>3. /\ t \in Sequences
      /\ t.stage = next /\ t.outcome = IF next = "finished" THEN s.pendingOutcome ELSE "inProgress"
      /\ t.finishing /\ ~t.pending /\ ~t.cancel
      /\ t.pendingOutcome = s.pendingOutcome /\ t.turning = s.turning
      /\ t.captureStarted = s.captureStarted /\ t.captureStopped = s.captureStopped
      /\ t.keyLock = s.keyLock /\ t.linkFailed = s.linkFailed
      /\ t.transportStarted = s.transportStarted
  <2>1. s \in Sequences /\ s.finishing /\ ~s.cancel /\ ~s.pending /\ s.outcome = "inProgress"
    BY DEF TailInv
  <2>2. next \in Stages
    BY <1>1 DEF Stages
  <2>3. t \in Sequences
    BY <1>2, <2>1, <2>2 DEF Sequences
  <2>4. /\ t.stage = next /\ t.outcome = IF next = "finished" THEN s.pendingOutcome ELSE "inProgress"
        /\ t.finishing /\ ~t.pending /\ ~t.cancel
    BY <1>2, <2>1 DEF Sequences
  <2>5. /\ t.pendingOutcome = s.pendingOutcome /\ t.turning = s.turning
        /\ t.captureStarted = s.captureStarted /\ t.captureStopped = s.captureStopped
        /\ t.keyLock = s.keyLock /\ t.linkFailed = s.linkFailed
        /\ t.transportStarted = s.transportStarted
    BY <1>2, <2>1 DEF Sequences
  <2> QED
    BY <2>3, <2>4, <2>5
<1>4. CaptureRunning(t) <=> CaptureRunning(s)
  BY <1>3 DEF CaptureRunning
<1>5. TailApplies(t, t.stage)
  BY <1>1, <1>3, <1>4 DEF TailApplies, WouldStopPlayer
<1>6. t.stage \in {"lock", "confirm", "checkTransport", "checkBefore"} => ~t.turning
  BY <1>1, <1>3 DEF TailSet
<1> QED
  BY <1>1, <1>3, <1>4, <1>5, <1>6 DEF SeqInv, TailInv

\* What a run keeps of its steps, however it goes on
Kept(s, t) ==
    /\ t.captureStarted = s.captureStarted /\ t.captureStopped = s.captureStopped
    /\ t.keyLock = s.keyLock
    /\ s.finishing => t.finishing

\* Finish turns the run to its tail, and knows of no turning disc
LEMMA FinishGives ==
  ASSUME NEW s, SeqInv(s), ~s.finishing, NEW result \in Outcomes, NEW t, t = Finish(s, result)
  PROVE  /\ SeqInv(t) /\ Kept(s, t)
         /\ t.finishing /\ ~t.pending /\ ~t.cancel /\ ~t.turning
         /\ t.pendingOutcome = result
         /\ t.linkFailed <=> s.linkFailed \/ result = "linkFailed"
         /\ t.stage = "finished" => ~t.keyLock \/ t.linkFailed
<1> DEFINE u == [s EXCEPT !.finishing = TRUE, !.pendingOutcome = result,
             !.pending = FALSE, !.turning = FALSE, !.linkFailed = @ \/ result = "linkFailed",
             !.cancel = FALSE, !.readings = 0, !.lastAddress = 0]
<1>1. t = AdvanceTeardown(u, Head(TailStages))
  BY DEF Finish
<1>2. s \in Sequences /\ s.outcome = "inProgress"
  BY DEF SeqInv, HeadSet, SpinUpHead, SeekHead
<1>3. /\ u \in Sequences /\ u.finishing /\ ~u.pending /\ ~u.cancel /\ ~u.turning
      /\ u.outcome = "inProgress" /\ u.pendingOutcome = result /\ Kept(s, u)
      /\ u.linkFailed <=> s.linkFailed \/ result = "linkFailed"
  BY <1>2 DEF Sequences, Kept
<1>4. Head(TailStages) = IF EndsWithSpinDown THEN "checkBefore" ELSE "stopCapture"
  BY DEF TailStages
<1>5. /\ Head(TailStages) \in TailSet /\ Head(TailStages) # "finished"
      /\ Head(TailStages) \notin AfterCapture
  BY <1>4 DEF TailSet, AfterCapture
<1> HIDE DEF u
<1>6. TailInv(u)
  BY <1>3 DEF TailInv, SeqInv, Kept
<1> QED
  BY <1>1, <1>3, <1>5, <1>6, TeardownAdvances DEF Kept

\* A cancel that came meanwhile finishes a run that is not finishing yet
LEMMA HonourGives ==
  ASSUME NEW s, SeqInv(s), ~s.pending, NEW t, t = Honour(s)
  PROVE  /\ SeqInv(t) /\ Kept(s, t) /\ ~t.pending /\ ~t.cancel
         /\ t # s =>
              /\ t.finishing /\ ~s.finishing /\ ~t.turning
              /\ t.pendingOutcome = "cancelled" /\ t.linkFailed = s.linkFailed
              /\ t.stage = "finished" => ~t.keyLock \/ t.linkFailed
<1>1. CASE ~s.cancel
  BY <1>1 DEF Honour, Kept
<1>2. CASE s.cancel
  <2>1. ~s.finishing
    BY <1>2 DEF SeqInv
  <2>2. t = Finish(s, "cancelled") /\ "cancelled" \in Outcomes
    BY <1>2 DEF Honour, Outcomes
  <2>3. s.linkFailed \in BOOLEAN /\ t.linkFailed \in BOOLEAN
    BY <2>1, <2>2, FinishGives DEF SeqInv, Sequences
  <2> QED
    BY <2>1, <2>2, <2>3, FinishGives
<1> QED
  BY <1>1, <1>2

\* A step of the tail that is done
LEMMA TeardownGoesOn ==
  ASSUME NEW s, TailInv(s), s.stage \in TailSet \ {"finished"},
         ~EndsWithSpinDown /\ s.stage = "stopCapture" => ~s.turning,
         s.stage = "stopCapture" => ~CaptureRunning(s),
         s.stage \in AfterCapture /\ CaptureRunning(s) => s.pendingOutcome = "linkFailed",
         NEW t, t = CompleteTeardownStep(s)
  PROVE  /\ SeqInv(t) /\ Kept(s, t) /\ t.finishing /\ ~t.pending /\ ~t.cancel
         /\ t.pendingOutcome = s.pendingOutcome
         /\ t.turning = s.turning /\ t.linkFailed = s.linkFailed
         /\ t.stage = "finished" => s.stage = "unlock" \/ ~t.keyLock \/ t.linkFailed
         /\ t.stage = "stopPlayer" =>
              s.stage = "checkBefore" \/ (~EndsWithSpinDown /\ s.stage = "stopCapture")
<1> DEFINE stage == After(TailStages, s.stage)
<1>1. t = AdvanceTeardown(s, stage)
  BY DEF CompleteTeardownStep
<1>2. /\ stage \in TailSet /\ (stage = "finished" => s.stage = "unlock")
      /\ stage # "checkBefore" \/ (~EndsWithSpinDown /\ s.stage = "stopCapture")
      /\ stage # "stopCapture" \/ EndsWithSpinDown
      /\ stage \in AfterCapture => s.stage \in AfterCapture \cup {"stopCapture"}
      /\ \/ stage \in {"checkBefore", "stopPlayer"}
         \/ ~EndsWithSpinDown /\ stage = "stopCapture"
         => s.stage = "checkBefore" \/ (~EndsWithSpinDown /\ s.stage = "stopCapture")
  <2>1. CASE EndsWithSpinDown
    BY <2>1, TailGoesOn DEF TailSet, AfterCapture
  <2>2. CASE ~EndsWithSpinDown
    BY <2>2, TailGoesOn DEF TailSet, AfterCapture
  <2> QED
    BY <2>1, <2>2
<1> HIDE DEF stage
<1>3. stage = "checkBefore" \/ (~EndsWithSpinDown /\ stage = "stopCapture") => ~s.turning
  BY <1>2
<1>4. stage \in AfterCapture /\ CaptureRunning(s) => s.pendingOutcome = "linkFailed"
  BY <1>2
<1> QED
  BY <1>1, <1>2, <1>3, <1>4, TeardownAdvances DEF Kept, TailInv

\* From a stage of the head on
LEMMA HeadLands ==
  ASSUME NEW s, NEW stage \in HeadSet \ {"checkStall"}
  PROVE  LET next == HeadNext(s, stage) IN
         /\ next \in HeadSet \ {"checkStall"} /\ HeadApplies(s, next)
         /\ next \in {"lock", "confirm", "checkTransport"}
              => stage \in {"lock", "confirm", "checkTransport"}
         /\ next = "spinDown" => stage \in {"lock", "confirm", "checkTransport", "spinDown"}
         /\ next = "startCapture" => IF BeginsWithSpinUp
                                     THEN \/ stage \in {"lock", "confirm", "checkTransport", "startCapture"}
                                          \/ stage = "spinDown" /\ ~HeadApplies(s, "spinDown")
                                     ELSE stage = "startCapture"
         /\ next \in {"spinUp", "watch"} <=> stage \in {"spinUp", "watch"}
         /\ next = "lock" => stage = "lock"
<1>1. PICK i \in DOMAIN HeadStages : stage = HeadStages[i]
  <2>1. CASE BeginsWithSpinUp
    BY <2>1, Lists DEF HeadSet, SpinUpHead
  <2>2. CASE ~BeginsWithSpinUp
    BY <2>2, Lists DEF HeadSet, SeekHead
  <2> QED
    BY <2>1, <2>2
<1>2. PICK j \in i .. Len(HeadStages) :
           /\ HeadNext(s, stage) = HeadStages[j]
           /\ HeadApplies(s, HeadStages[j])
           /\ \A k \in i .. j - 1 : ~HeadApplies(s, HeadStages[k])
  BY <1>1, HeadFrom
<1>3. HeadApplies(s, "startCapture") /\ HeadApplies(s, "seek")
  BY DEF HeadApplies
<1> DEFINE next == HeadNext(s, stage)
<1>4. \A k \in 1 .. 7 : i <= k /\ k < j => ~HeadApplies(s, HeadStages[k])
  BY <1>2, Lists
<1>5. next = HeadStages[j] /\ HeadApplies(s, next) /\ i <= j
  BY <1>2, Lists
<1> HIDE DEF next
<1>6. CASE BeginsWithSpinUp
  <2>1. i = 4 /\ j = 5 => ~HeadApplies(s, "spinDown")
    BY <1>4, <1>6, Lists
  <2>2. i <= 5 => j <= 5
    BY <1>2, <1>3, <1>4, <1>6, Lists
  <2>3. i \in 1 .. 7 /\ j \in 1 .. 7
    BY <1>1, <1>2, <1>6, Lists
  <2>4. /\ stage = "spinDown" <=> i = 4
        /\ stage = "lock" <=> i = 1
        /\ stage \in {"lock", "confirm", "checkTransport"} <=> i <= 3
        /\ stage = "startCapture" <=> i = 5
        /\ stage \in {"spinUp", "watch"} <=> i > 5
    BY <1>1, <1>6, <2>3, Lists
  <2>5. /\ next = "spinDown" <=> j = 4
        /\ next = "lock" <=> j = 1
        /\ next \in {"lock", "confirm", "checkTransport"} <=> j <= 3
        /\ next = "startCapture" <=> j = 5
        /\ next \in {"spinUp", "watch"} <=> j > 5
        /\ next \in HeadSet \ {"checkStall"}
    BY <1>5, <1>6, <2>3, Lists DEF HeadSet, SpinUpHead
  <2> QED
    BY <1>5, <1>6, <2>1, <2>2, <2>3, <2>4, <2>5 DEF next
<1>7. CASE ~BeginsWithSpinUp
  <2>1. (i <= 4 => j <= 4) /\ (i <= 3 => j <= 3)
    BY <1>2, <1>3, <1>4, <1>7, Lists
  <2>2. i \in 1 .. 6 /\ j \in 1 .. 6
    BY <1>1, <1>2, <1>7, Lists
  <2>3. /\ stage # "spinDown"
        /\ stage = "lock" <=> i = 1
        /\ stage \in {"lock", "confirm", "checkTransport"} <=> i <= 2
        /\ stage = "startCapture" <=> i = 4
        /\ stage \in {"spinUp", "watch"} <=> i > 4
    BY <1>1, <1>7, <2>2, Lists
  <2>4. /\ next # "spinDown"
        /\ next = "lock" <=> j = 1
        /\ next \in {"lock", "confirm", "checkTransport"} <=> j <= 2
        /\ next = "startCapture" <=> j = 4
        /\ next \in {"spinUp", "watch"} <=> j > 4
        /\ next \in HeadSet \ {"checkStall"}
    BY <1>5, <1>7, <2>2, Lists DEF HeadSet, SeekHead
  <2> QED
    BY <1>5, <1>7, <2>1, <2>2, <2>3, <2>4 DEF next
<1> QED
  BY <1>6, <1>7 DEF next

\* The step that is handed out
Handed(s, stage, started) == [s EXCEPT !.stage = stage, !.pending = TRUE, !.transportStarted = started]

LEMMA HandedOut ==
  ASSUME NEW s \in Sequences, NEW stage \in Stages, NEW started \in BOOLEAN,
         NEW u, u = Handed(s, stage, started)
  PROVE  /\ u \in Sequences /\ u.stage = stage /\ u.pending /\ u.transportStarted = started
         /\ u.finishing = s.finishing /\ u.turning = s.turning /\ u.linkFailed = s.linkFailed
         /\ u.pendingOutcome = s.pendingOutcome /\ u.cancel = s.cancel /\ u.outcome = s.outcome
         /\ u.captureStarted = s.captureStarted /\ u.captureStopped = s.captureStopped
         /\ u.keyLock = s.keyLock
<1>1. u \in Sequences
  BY DEF Handed, Sequences
<1>2. u.stage = stage /\ u.pending /\ u.transportStarted = started
  BY DEF Handed, Sequences
<1>3. /\ u.finishing = s.finishing /\ u.turning = s.turning /\ u.linkFailed = s.linkFailed
      /\ u.pendingOutcome = s.pendingOutcome /\ u.cancel = s.cancel /\ u.outcome = s.outcome
  BY DEF Handed, Sequences
<1>4. /\ u.captureStarted = s.captureStarted /\ u.captureStopped = s.captureStopped
      /\ u.keyLock = s.keyLock
  BY DEF Handed, Sequences
<1> QED
  BY <1>1, <1>2, <1>3, <1>4

LEMMA NextGives ==
  ASSUME NEW s, SeqInv(s), ~s.pending, ~s.cancel, s.outcome = "inProgress",
         NEW u, u = NextStep(s)
  PROVE  /\ SeqInv(u) /\ Kept(s, u) /\ u.pending /\ ~u.cancel /\ u.outcome = "inProgress"
         /\ u.finishing = s.finishing /\ u.turning = s.turning /\ u.linkFailed = s.linkFailed
         /\ u.pendingOutcome = s.pendingOutcome
         /\ s.finishing => u.stage = s.stage
         /\ u.stage # "finished"
         /\ u.stage \in {"lock", "spinDown"} => HeadApplies(u, u.stage)
         /\ u.stage \in {"lock", "confirm", "checkTransport"}
              => s.stage \in {"lock", "confirm", "checkTransport"}
         /\ u.stage = "spinDown" => s.stage = "spinDown"
         /\ u.stage = "lock" => s.stage = "lock"
         /\ u.stage = "startCapture" => IF BeginsWithSpinUp
                                        THEN \/ s.stage \in {"lock", "confirm", "checkTransport", "startCapture"}
                                             \/ s.stage = "spinDown" /\ ~HeadApplies(s, "spinDown")
                                        ELSE s.stage = "startCapture"
<1>1. Honour(s) = s
  BY DEF Honour
<1> DEFINE stage == IF s.finishing \/ s.stage \in {"watch", "checkStall"} THEN s.stage
                    ELSE HeadNext(s, s.stage)
           started == s.transportStarted \/ stage \in {"seek", "spinUp"}
<1>2. s \in Sequences
  BY DEF SeqInv
<1>3. u = [s EXCEPT !.stage = stage, !.pending = TRUE, !.transportStarted = started]
  <2>1. NextStep(s) =
          LET t == Honour(s)
              v == IF t.finishing THEN t
                   ELSE [t EXCEPT !.stage = IF @ \in {"watch", "checkStall"} THEN @
                                            ELSE HeadNext(t, @)]
          IN  IF s.pending \/ s.outcome # "inProgress" THEN s
              ELSE [v EXCEPT !.pending = v.outcome = "inProgress",
                             !.transportStarted = @ \/ v.stage \in {"seek", "spinUp"}]
    BY DEF NextStep, HeadNext
  <2>2. CASE s.finishing
    <3>1. NextStep(s) = [s EXCEPT !.pending = TRUE,
                                  !.transportStarted = @ \/ s.stage \in {"seek", "spinUp"}]
      BY <1>1, <1>2, <2>1, <2>2
    <3>2. stage = s.stage
      BY <2>2
    <3> HIDE DEF stage
    <3> QED
      BY <1>2, <3>1, <3>2 DEF Sequences
  <2>3. CASE ~s.finishing
    BY <1>1, <1>2, <2>1, <2>3 DEF Sequences
  <2> QED
    BY <2>2, <2>3
<1>4. s.finishing => s.stage \in TailSet \ {"finished"}
  BY <1>2 DEF SeqInv, Outcomes, Sequences
<1>5. ~s.finishing => stage \in HeadSet
  BY HeadLands DEF SeqInv, HeadSet
<1>6. started \in BOOLEAN /\ (s.finishing => started = s.transportStarted)
  BY <1>2, <1>4 DEF Sequences, TailSet
<1> HIDE DEF started
<1>7. /\ u \in Sequences /\ u.stage = stage /\ u.pending /\ u.transportStarted = started
      /\ u.finishing = s.finishing /\ u.turning = s.turning /\ u.linkFailed = s.linkFailed
      /\ u.pendingOutcome = s.pendingOutcome /\ u.cancel = s.cancel /\ u.outcome = s.outcome
      /\ u.captureStarted = s.captureStarted /\ u.captureStopped = s.captureStopped
      /\ u.keyLock = s.keyLock
  <2>1. stage \in Stages /\ started \in BOOLEAN
    BY <1>4, <1>5, <1>6 DEF HeadSet, Stages
  <2>2. u = Handed(s, stage, started)
    BY <1>3 DEF Handed
  <2> HIDE DEF stage
  <2> QED
    BY <1>2, <2>1, <2>2, HandedOut
<1>8. CASE s.finishing
  <2>1. TailApplies(u, s.stage)
    BY <1>6, <1>7, <1>8 DEF SeqInv, TailApplies, WouldStopPlayer, CaptureRunning
  <2> QED
    BY <1>4, <1>7, <1>8, <2>1 DEF SeqInv, Kept, TailSet, CaptureRunning
<1>9. CASE ~s.finishing /\ s.stage = "checkStall"
  BY <1>7, <1>9 DEF SeqInv, Kept, CaptureRunning
<1>10. CASE ~s.finishing /\ s.stage = "watch"
  BY <1>7, <1>10 DEF SeqInv, Kept, CaptureRunning
<1>11. CASE ~s.finishing /\ s.stage \notin {"checkStall", "watch"}
  <2>1. s.stage \in HeadSet \ {"checkStall"} /\ stage = HeadNext(s, s.stage)
    BY <1>11 DEF SeqInv
  <2> HIDE DEF stage
  <2>2. /\ stage \in HeadSet \ {"checkStall"} /\ HeadApplies(s, stage)
        /\ stage \in {"lock", "confirm", "checkTransport"}
             => s.stage \in {"lock", "confirm", "checkTransport"}
        /\ stage = "spinDown" => s.stage \in {"lock", "confirm", "checkTransport", "spinDown"}
        /\ stage = "startCapture" => IF BeginsWithSpinUp
                                     THEN \/ s.stage \in {"lock", "confirm", "checkTransport", "startCapture"}
                                          \/ s.stage = "spinDown" /\ ~HeadApplies(s, "spinDown")
                                     ELSE s.stage = "startCapture"
        /\ stage \in {"spinUp", "watch"} <=> s.stage \in {"spinUp", "watch"}
        /\ stage = "lock" => s.stage = "lock"
    BY <2>1, HeadLands
  <2>3. HeadApplies(u, stage)
    BY <1>7, <2>2 DEF HeadApplies
  <2>4. stage \notin TailSet
    BY <2>2 DEF HeadSet, SpinUpHead, SeekHead, TailSet
  <2>5. stage = "spinDown" => s.stage = "spinDown"
    BY <2>2 DEF HeadApplies, SeqInv
  <2>6. SeqInv(u)
    BY <1>7, <1>11, <2>2, <2>4 DEF SeqInv, AfterCapture, TailSet
  <2> QED
    BY <1>7, <1>11, <2>2, <2>3, <2>4, <2>5, <2>6 DEF Kept, TailSet
<1> QED
  BY <1>8, <1>9, <1>10, <1>11

-----------------------------------------------------------------------------
(* What an answer makes of the sequence *)

Failed(a) == a.kind \in {"linkFailed", "notConnected"}

\* From the step that was handed out (s) to what its answer leaves (t)
Answered(s, a, t) ==
    /\ SeqInv(t) /\ ~t.pending
    /\ t.captureStarted = s.captureStarted /\ t.captureStopped = s.captureStopped
    /\ s.finishing => t.finishing
    /\ s.stage # "lock" => t.keyLock = s.keyLock
    /\ s.stage = "lock" /\ a.kind = "ack" => t.keyLock
    /\ s.linkFailed \/ Failed(a) => t.linkFailed
    /\ t.stage # "lock"
    /\ t.stage = "finished" => s.stage = "unlock" \/ ~t.keyLock \/ t.linkFailed
    /\ t.stage \in {"spinDown", "stopPlayer"} /\ t.turning =>
         s.stage \in {"checkTransport", "checkBefore"} /\ a.kind = "mode" /\ Turning(a.state)
    /\ t.stage \in {"lock", "confirm", "checkTransport"} => s.stage \in {"lock", "confirm"}
    /\ t.stage = "spinDown" => s.stage = "checkTransport" /\ (a.kind = "mode" => t.turning = Turning(a.state))
    /\ t.stage = "startCapture" => s.stage = "spinDown" \/ (s.stage = "seek" /\ Ok("seek", a))
    /\ t.finishing /\ t.pendingOutcome = "completed" =>
         \/ s.finishing /\ s.pendingOutcome = "completed"
         \/ s.stage = "watch" /\ a.kind = "address" /\ a.address >= LastAddress

\* What can be waited for
Waited(s) ==
    /\ SeqInv(s)
    /\ s.stage \notin {"startCapture", "stopCapture", "finished"}
    /\ s.stage \in {"lock", "spinDown"} => HeadApplies(s, s.stage)

\* The run is to end, with this result
LEMMA AnsweredByFinish ==
  ASSUME NEW s, SeqInv(s), ~s.finishing, NEW p, SeqInv(p), Kept(s, p), ~p.finishing,
         p.linkFailed = s.linkFailed,
         NEW a, NEW result \in Outcomes, NEW t, t = Finish(p, result),
         Failed(a) => result = "linkFailed",
         result = "completed" => s.stage = "watch" /\ a.kind = "address" /\ a.address >= LastAddress,
         s.stage = "lock" => a.kind # "ack"
  PROVE  Answered(s, a, t)
<1>1. /\ SeqInv(t) /\ Kept(p, t)
      /\ t.finishing /\ ~t.pending /\ ~t.cancel /\ ~t.turning
      /\ t.pendingOutcome = result
      /\ t.linkFailed <=> p.linkFailed \/ result = "linkFailed"
      /\ t.stage = "finished" => ~t.keyLock \/ t.linkFailed
  BY FinishGives
<1>2. t.stage \in TailSet
  BY <1>1 DEF SeqInv
<1> QED
  BY <1>1, <1>2 DEF Answered, Kept, TailSet

\* The question of the tail about the disc, its stop and its unlocking
LEMMA AnsweredInTail ==
  ASSUME NEW s, Waited(s), s.finishing, NEW a \in Replies, NEW disagrees,
         NEW t, t = Applied([s EXCEPT !.pending = FALSE], a, disagrees)
  PROVE  Answered(s, a, t) /\ ~t.cancel
<1> DEFINE p == [s EXCEPT !.pending = FALSE]
           q == IF Failed(a) THEN [p EXCEPT !.linkFailed = TRUE]
                ELSE IF s.stage = "checkBefore" THEN Transport(p, a) ELSE p
<1>1. /\ s \in Sequences /\ s.stage \in {"checkBefore", "stopPlayer", "unlock"}
      /\ ~s.cancel /\ s.outcome = "inProgress"
  BY DEF Waited, SeqInv, TailSet
<1>2. t = CompleteTeardownStep(q)
  <2>1. p.finishing /\ p.stage = s.stage /\ t = Applied(p, a, disagrees)
    BY <1>1 DEF Sequences
  <2> HIDE DEF p
  <2>2. CASE Failed(a)
    BY <1>1, <2>1, <2>2 DEF Applied, Failed
  <2>3. CASE ~Failed(a)
    BY <1>1, <2>1, <2>3 DEF Applied, Failed
  <2> QED
    BY <2>2, <2>3
<1>3. /\ q \in Sequences /\ q.stage = s.stage /\ q.finishing /\ ~q.pending /\ ~q.cancel
      /\ q.outcome = "inProgress" /\ q.pendingOutcome = s.pendingOutcome
      /\ q.captureStarted = s.captureStarted /\ q.captureStopped = s.captureStopped
      /\ q.keyLock = s.keyLock
      /\ q.linkFailed = (s.linkFailed \/ Failed(a))
      /\ q.turning \in BOOLEAN
      /\ s.stage = "checkBefore" /\ q.turning => a.kind = "mode" /\ Turning(a.state)
  <2>1. CASE Failed(a)
    BY <1>1, <2>1 DEF Sequences, Waited, SeqInv
  <2>2. CASE ~Failed(a) /\ (s.stage # "checkBefore" \/ a.kind = "silence")
    BY <1>1, <2>2 DEF Sequences, Transport, Waited, SeqInv
  <2>3. CASE ~Failed(a) /\ s.stage = "checkBefore" /\ a.kind # "silence"
    <3>1. q = [p EXCEPT !.turning = Turning(PlayerState(a))]
      BY <2>3 DEF Transport
    <3>2. /\ Turning(PlayerState(a)) \in BOOLEAN
          /\ Turning(PlayerState(a)) => a.kind = "mode" /\ Turning(a.state)
      BY DEF Turning, PlayerState
    <3> HIDE DEF q
    <3> QED
      BY <1>1, <2>3, <3>1, <3>2 DEF Sequences
  <2> QED
    BY <2>1, <2>2, <2>3
<1> HIDE DEF q
<1>4. TailInv(q)
  BY <1>3 DEF TailInv, Waited, SeqInv
<1>5. q.stage \in AfterCapture /\ CaptureRunning(q) => q.pendingOutcome = "linkFailed"
  BY <1>3 DEF Waited, SeqInv, CaptureRunning
<1>6. /\ SeqInv(t) /\ Kept(q, t) /\ t.finishing /\ ~t.pending /\ ~t.cancel
      /\ t.pendingOutcome = q.pendingOutcome
      /\ t.turning = q.turning /\ t.linkFailed = q.linkFailed
      /\ t.stage = "finished" => q.stage = "unlock" \/ ~t.keyLock \/ t.linkFailed
      /\ t.stage = "stopPlayer" => q.stage = "checkBefore"
  BY <1>1, <1>2, <1>3, <1>4, <1>5, TeardownGoesOn DEF TailSet
<1>7. t.stage \in TailSet
  BY <1>6 DEF SeqInv
<1> QED
  BY <1>1, <1>3, <1>6, <1>7 DEF Answered, Kept, TailSet

\* A head that goes on is still one
LEMMA HeadStays ==
  ASSUME NEW p, SeqInv(p), ~p.finishing, NEW t \in Sequences, t.stage \in HeadSet,
         t.stage \in {"spinUp", "watch", "checkStall"} <=> p.stage \in {"spinUp", "watch", "checkStall"},
         ~t.finishing /\ t.outcome = p.outcome,
         t.captureStarted = p.captureStarted /\ t.captureStopped = p.captureStopped,
         t.keyLock => "keyLock" \in Controls,
         t.stage \in {"lock", "confirm", "checkTransport"} => ~t.turning
  PROVE  SeqInv(t)
<1>1. t.stage \notin TailSet /\ p.stage \notin TailSet
  BY DEF SeqInv, HeadSet, SpinUpHead, SeekHead, TailSet
<1> QED
  BY <1>1 DEF SeqInv, TailSet, AfterCapture

\* What a reading leaves of a sequence: all but the watch's own members
Watched(p, t, stage) ==
    /\ t \in Sequences /\ t.stage = stage /\ t.keyLock = p.keyLock
    /\ t.finishing = p.finishing /\ t.pending = p.pending /\ t.outcome = p.outcome
    /\ t.linkFailed = p.linkFailed
    /\ t.captureStarted = p.captureStarted /\ t.captureStopped = p.captureStopped

\* One more reading without progress, one of progress, and one in the lead-in
Count(p, n, stage)      == [p EXCEPT !.readings = n, !.stage = stage]
Progress(p, n, address) == [p EXCEPT !.readings = n, !.lastAddress = address]
Afresh(p)               == [p EXCEPT !.readings = 0]

LEMMA Counted ==
  ASSUME NEW p \in Sequences, NEW n \in Nat, NEW stage \in {"watch", "checkStall"}
  PROVE  Watched(p, Count(p, n, stage), stage)
BY DEF Count, Sequences, Stages, SpinUpHead, Watched

LEMMA LedIn ==
  ASSUME NEW p \in Sequences
  PROVE  Watched(p, Afresh(p), p.stage)
BY DEF Afresh, Sequences, Watched

LEMMA Advanced ==
  ASSUME NEW p \in Sequences, NEW n \in Nat, NEW address \in Nat
  PROVE  Watched(p, Progress(p, n, address), p.stage)
BY DEF Progress, Sequences, Watched

\* A step of the head that asks, or commands
LEMMA AnsweredInHead ==
  ASSUME NEW s, Waited(s), ~s.finishing, NEW a \in Replies, NEW disagrees,
         NEW t, t = Applied([s EXCEPT !.pending = FALSE], a, disagrees)
  PROVE  Answered(s, a, t)
<1> DEFINE p == [s EXCEPT !.pending = FALSE]
<1>1. /\ s \in Sequences /\ SeqInv(s) /\ s.stage \in HeadSet \ {"startCapture"} /\ s.outcome = "inProgress"
      /\ s.stage \notin TailSet
  BY DEF Waited, SeqInv, HeadSet, SpinUpHead, SeekHead, TailSet
<1>2. /\ p \in Sequences /\ ~p.finishing /\ ~p.pending /\ p.stage = s.stage /\ p.linkFailed = s.linkFailed
      /\ p.outcome = s.outcome /\ p.turning = s.turning /\ p.keyLock = s.keyLock
      /\ p.captureStarted = s.captureStarted /\ p.captureStopped = s.captureStopped
  BY <1>1 DEF Sequences
<1>3. t = Applied(p, a, disagrees)
  OBVIOUS
<1> HIDE DEF p
<1>4. SeqInv(p) /\ Kept(s, p)
  <2>1. p.keyLock => "keyLock" \in Controls
    BY <1>1, <1>2 DEF SeqInv
  <2>2. p.stage \in {"lock", "confirm", "checkTransport"} => ~p.turning
    BY <1>1, <1>2 DEF SeqInv
  <2> QED
    BY <1>1, <1>2, <2>1, <2>2, HeadStays DEF Kept
<1>5. ASSUME NEW result \in Outcomes, t = Finish(p, result), Failed(a) => result = "linkFailed",
             result = "completed" => s.stage = "watch" /\ a.kind = "address" /\ a.address >= LastAddress,
             s.stage = "lock" => a.kind # "ack"
      PROVE  Answered(s, a, t)
  BY <1>1, <1>2, <1>4, <1>5, AnsweredByFinish
<1>6. ASSUME t \in Sequences, t.stage \in HeadSet, ~Failed(a),
             t.stage \in {"spinUp", "watch", "checkStall"} <=> s.stage \in {"spinUp", "watch", "checkStall"},
             ~t.finishing /\ ~t.pending /\ t.outcome = s.outcome /\ t.linkFailed = s.linkFailed,
             t.captureStarted = s.captureStarted /\ t.captureStopped = s.captureStopped,
             t.keyLock => "keyLock" \in Controls,
             s.stage # "lock" => t.keyLock = s.keyLock,
             s.stage = "lock" /\ a.kind = "ack" => t.keyLock,
             t.stage \in {"lock", "confirm", "checkTransport"} => ~t.turning,
             t.stage # "lock",
             t.stage = "spinDown" /\ t.turning => a.kind = "mode" /\ Turning(a.state),
             t.stage \in {"lock", "confirm", "checkTransport"} => s.stage \in {"lock", "confirm"},
             t.stage = "spinDown" =>
               s.stage = "checkTransport" /\ (a.kind = "mode" => t.turning = Turning(a.state)),
             t.stage = "startCapture" => s.stage = "spinDown" \/ (s.stage = "seek" /\ Ok("seek", a))
      PROVE  Answered(s, a, t)
  <2>1. SeqInv(t)
    BY <1>1, <1>6, HeadStays
  <2>2. t.stage \notin TailSet
    BY <1>6 DEF HeadSet, SpinUpHead, SeekHead, TailSet
  <2> QED
    BY <1>1, <1>6, <2>1, <2>2 DEF Answered, TailSet
<1>7. CASE Failed(a)
  <2>1. t = Finish(p, "linkFailed") /\ "linkFailed" \in Outcomes /\ a.kind # "ack"
    BY <1>2, <1>3, <1>7 DEF Applied, Failed, Outcomes
  <2> QED
    BY <1>5, <2>1
<1>8. ASSUME NEW q \in Sequences, t = Advance(q), q.stage = s.stage, ~Failed(a),
             s.stage \notin {"watch", "checkStall"},
             q.finishing = p.finishing /\ q.pending = p.pending /\ q.outcome = p.outcome,
             q.linkFailed = p.linkFailed,
             q.captureStarted = p.captureStarted /\ q.captureStopped = p.captureStopped,
             s.stage = "lock" \/ q.keyLock = p.keyLock,
             s.stage = "lock" => (q.keyLock => "keyLock" \in Controls) /\ (a.kind = "ack" => q.keyLock),
             s.stage = "checkTransport" \/ q.turning = p.turning,
             s.stage = "checkTransport" => /\ a.kind = "mode" => q.turning = Turning(a.state)
                                           /\ q.turning => a.kind = "mode",
             s.stage = "seek" => Ok("seek", a)
      PROVE  Answered(s, a, t)
  <2> DEFINE next == After(HeadStages, q.stage)
  <2>1. /\ next \in HeadSet
        /\ next \in {"spinUp", "watch", "checkStall"} <=> s.stage \in {"spinUp", "watch", "checkStall"}
        /\ next \in {"lock", "confirm", "checkTransport"} => s.stage \in {"lock", "confirm"}
        /\ next = "spinDown" => s.stage = "checkTransport"
        /\ next # "lock"
        /\ next = "startCapture" => s.stage = "spinDown" \/ s.stage = "seek"
    <3>1. CASE BeginsWithSpinUp
      BY <1>1, <1>8, <3>1, HeadGoesOn DEF HeadSet, SpinUpHead
    <3>2. CASE ~BeginsWithSpinUp
      BY <1>1, <1>8, <3>2, HeadGoesOn DEF HeadSet, SeekHead
    <3> QED
      BY <3>1, <3>2
  <2>2. t = [q EXCEPT !.stage = next]
    BY <1>8 DEF Advance
  <2> HIDE DEF next
  <2>3. /\ t \in Sequences /\ t.stage = next /\ t.keyLock = q.keyLock /\ t.turning = q.turning
        /\ t.finishing = q.finishing /\ t.pending = q.pending /\ t.outcome = q.outcome
        /\ t.linkFailed = q.linkFailed
        /\ t.captureStarted = q.captureStarted /\ t.captureStopped = q.captureStopped
    BY <1>8, <2>1, <2>2 DEF Sequences, Stages, HeadSet
  <2>4. t.stage \in {"lock", "confirm", "checkTransport"} => ~t.turning
    BY <1>1, <1>2, <1>8, <2>1, <2>3 DEF SeqInv
  <2>5. t.keyLock => "keyLock" \in Controls
    BY <1>1, <1>2, <1>8, <2>3 DEF SeqInv
  <2> QED
    BY <1>1, <1>2, <1>6, <1>8, <2>1, <2>3, <2>4, <2>5
<1>9. CASE ~Failed(a) /\ s.stage = "lock"
  <2> DEFINE ok == Ok(s.stage, a)
             q  == [p EXCEPT !.keyLock = ok]
  <2>1. t = Advance(q)
    BY <1>2, <1>3, <1>9 DEF Applied, Failed
  <2>2. ok \in BOOLEAN /\ (a.kind = "ack" => ok) /\ "keyLock" \in Controls
    BY <1>9 DEF Ok, Queries, Waited, HeadApplies
  <2> HIDE DEF ok
  <2>3. /\ q \in Sequences /\ q.stage = p.stage /\ q.keyLock = ok /\ q.turning = p.turning
        /\ q.finishing = p.finishing /\ q.pending = p.pending /\ q.outcome = p.outcome
        /\ q.linkFailed = p.linkFailed
        /\ q.captureStarted = p.captureStarted /\ q.captureStopped = p.captureStopped
    BY <1>2, <2>2 DEF Sequences
  <2> HIDE DEF q
  <2> QED
    BY <1>2, <1>8, <1>9, <2>1, <2>2, <2>3
<1>10. CASE ~Failed(a) /\ s.stage = "checkTransport"
  <2> DEFINE q == Transport(p, a)
  <2>1. t = Advance(q)
    BY <1>2, <1>3, <1>10 DEF Applied, Failed
  <2>2. /\ q \in Sequences /\ q.stage = p.stage /\ q.keyLock = p.keyLock
        /\ q.finishing = p.finishing /\ q.pending = p.pending /\ q.outcome = p.outcome
        /\ q.linkFailed = p.linkFailed
        /\ q.captureStarted = p.captureStarted /\ q.captureStopped = p.captureStopped
        /\ a.kind = "mode" => q.turning = Turning(a.state)
        /\ q.turning => a.kind = "mode"
    <3>1. CASE a.kind = "silence"
      BY <1>1, <1>2, <1>10, <3>1 DEF Transport, SeqInv
    <3>2. CASE a.kind # "silence"
      <4>1. q = [p EXCEPT !.turning = Turning(PlayerState(a))]
        BY <3>2 DEF Transport
      <4>2. /\ Turning(PlayerState(a)) \in BOOLEAN
            /\ Turning(PlayerState(a)) => a.kind = "mode"
            /\ a.kind = "mode" => Turning(PlayerState(a)) = Turning(a.state)
        BY DEF Turning, PlayerState
      <4> HIDE DEF q
      <4> QED
        BY <1>2, <4>1, <4>2 DEF Sequences
    <3> QED
      BY <3>1, <3>2
  <2> HIDE DEF q
  <2> QED
    BY <1>2, <1>8, <1>10, <2>1, <2>2
<1>11. CASE ~Failed(a) /\ s.stage = "confirm"
  <2>1. CASE disagrees
    <3>1. t = Finish(p, "discChanged") /\ "discChanged" \in Outcomes
      BY <1>2, <1>3, <1>11, <2>1 DEF Applied, Failed, Outcomes
    <3> QED
      BY <1>5, <1>11, <3>1
  <2>2. CASE ~disagrees
    <3>1. t = Advance(p)
      BY <1>2, <1>3, <1>11, <2>2 DEF Applied, Failed
    <3> QED
      BY <1>2, <1>8, <1>11, <3>1
  <2> QED
    BY <2>1, <2>2
<1>12. CASE ~Failed(a) /\ s.stage = "spinDown"
  <2>1. t = Advance(p)
    BY <1>2, <1>3, <1>12 DEF Applied, Failed
  <2> QED
    BY <1>2, <1>8, <1>12, <2>1
<1>13. CASE ~Failed(a) /\ s.stage \in {"seek", "spinUp"}
  <2>1. CASE ~Ok(s.stage, a)
    <3>1. t = Finish(p, "playerRefused") /\ "playerRefused" \in Outcomes
      BY <1>2, <1>3, <1>13, <2>1 DEF Applied, Failed, Outcomes
    <3> QED
      BY <1>5, <1>13, <3>1
  <2>2. CASE Ok(s.stage, a)
    <3>1. t = Advance(p)
      BY <1>2, <1>3, <1>13, <2>2 DEF Applied, Failed
    <3> QED
      BY <1>2, <1>8, <1>13, <2>2, <3>1
  <2> QED
    BY <2>1, <2>2
<1>14. ASSUME ~Failed(a), s.stage \in {"watch", "checkStall"},
              NEW stage \in {"watch", "checkStall"}, Watched(p, t, stage)
       PROVE  Answered(s, a, t)
  <2>1. t.keyLock => "keyLock" \in Controls
    BY <1>4, <1>14 DEF SeqInv, Watched
  <2>2. t.stage \in HeadSet
    BY <1>14 DEF Watched, HeadSet, SpinUpHead, SeekHead
  <2> QED
    BY <1>2, <1>6, <1>14, <2>1, <2>2 DEF Watched
<1>15. CASE ~Failed(a) /\ s.stage = "watch"
  <2>1. t = Watch(p, a)
    BY <1>2, <1>3, <1>15 DEF Applied, Failed
  <2>2. p.readings + 1 \in Nat /\ a.address \in Nat /\ 0 \in Nat
    BY <1>2 DEF Sequences, Replies
  <2>3. ASSUME t = Stall(p) PROVE Answered(s, a, t)
    <3> DEFINE n == p.readings + 1
               stage == IF n >= kStallReadings THEN "checkStall" ELSE p.stage
    <3>1. t = Count(p, n, stage)
      BY <2>3 DEF Stall, Count
    <3>2. n \in Nat /\ stage \in {"watch", "checkStall"}
      BY <1>2, <1>15, <2>2
    <3> HIDE DEF n, stage
    <3>3. Watched(p, t, stage)
      BY <1>2, <3>1, <3>2, Counted
    <3> QED
      BY <1>14, <1>15, <3>2, <3>3
  <2>4. ASSUME a.kind = "address", a.address >= LastAddress, t = Finish(p, "completed")
        PROVE  Answered(s, a, t)
    BY <1>5, <1>15, <2>4 DEF Outcomes, Failed
  <2>5. ASSUME t = Afresh(p) PROVE Answered(s, a, t)
    <3>1. Watched(p, t, "watch")
      BY <1>2, <1>15, <2>5, LedIn
    <3> QED
      BY <1>14, <1>15, <3>1
  <2>6. ASSUME t = Progress(p, 0, a.address) PROVE Answered(s, a, t)
    <3>1. Watched(p, t, "watch")
      BY <1>2, <1>15, <2>2, <2>6, Advanced
    <3> QED
      BY <1>14, <1>15, <3>1
  <2> QED
    BY <2>1, <2>3, <2>4, <2>5, <2>6 DEF Watch, Progress, Afresh
<1>16. CASE ~Failed(a) /\ s.stage = "checkStall"
  <2>1. t = CheckStall(p, a)
    BY <1>2, <1>3, <1>16 DEF Applied, Failed
  <2>2. CASE PlayerState(a) = "settingUp"
    <3>1. t = Count(p, 0, "watch")
      BY <2>1, <2>2 DEF CheckStall, Count
    <3>2. Watched(p, t, "watch")
      BY <1>2, <3>1, Counted
    <3> QED
      BY <1>14, <1>16, <3>2
  <2>3. CASE PlayerState(a) # "settingUp"
    <3>1. PICK result \in {"playerStopped", "stalled"} : t = Finish(p, result)
      BY <2>1, <2>3 DEF CheckStall
    <3> QED
      BY <1>5, <1>16, <3>1 DEF Outcomes
  <2> QED
    BY <2>2, <2>3
<1> QED
  BY <1>1, <1>7, <1>9, <1>10, <1>11, <1>12, <1>13, <1>15, <1>16 DEF HeadSet, SpinUpHead, SeekHead

\* An answer, and then the cancel that came while it was waited for
LEMMA AnswerGives ==
  ASSUME NEW s, Waited(s), NEW a \in Replies, NEW disagrees,
         NEW t, t = Honour(Applied([s EXCEPT !.pending = FALSE], a, disagrees))
  PROVE  Answered(s, a, t) /\ ~t.cancel
<1> DEFINE q == Applied([s EXCEPT !.pending = FALSE], a, disagrees)
<1>1. Answered(s, a, q)
  BY AnsweredInHead, AnsweredInTail
<1>2. t = Honour(q)
  OBVIOUS
<1> HIDE DEF q
<1>3. /\ SeqInv(t) /\ Kept(q, t) /\ ~t.pending /\ ~t.cancel
      /\ t # q =>
           /\ t.finishing /\ ~q.finishing /\ ~t.turning
           /\ t.pendingOutcome = "cancelled" /\ t.linkFailed = q.linkFailed
           /\ t.stage = "finished" => ~t.keyLock \/ t.linkFailed
  BY <1>1, <1>2, HonourGives DEF Answered
<1>4. CASE t = q
  BY <1>1, <1>3, <1>4
<1>5. CASE t # q
  <2>1. t.stage \in TailSet
    BY <1>3, <1>5 DEF SeqInv
  <2> QED
    BY <1>1, <1>3, <1>5, <2>1 DEF Answered, Kept, TailSet
<1> QED
  BY <1>4, <1>5

-----------------------------------------------------------------------------
(* The run *)

\* The plan of a run stands, and with it what is said of a sequence
LEMMA SamePlan ==
  ASSUME plan' = plan
  PROVE  /\ SeqInv(seq)' <=> SeqInv(seq')
         /\ \A stage \in {"lock", "spinDown"} : HeadApplies(seq, stage)' <=> HeadApplies(seq', stage)
         /\ CaptureRunning(seq)' <=> CaptureRunning(seq')
         /\ BeginsWithSpinUp' <=> BeginsWithSpinUp
<1>1. (BeginsWithSpinUp' <=> BeginsWithSpinUp) /\ (EndsWithSpinDown' <=> EndsWithSpinDown)
  BY DEF BeginsWithSpinUp, EndsWithSpinDown
<1>2. TailApplies(seq, seq.stage)' <=> TailApplies(seq', seq'.stage)
  BY DEF TailApplies, CaptureRunning, WouldStopPlayer
<1>3. HeadSet' = HeadSet /\ AfterCapture' = AfterCapture
  BY <1>1 DEF HeadSet, AfterCapture
<1> QED
  BY <1>1, <1>2, <1>3 DEF SeqInv, HeadApplies, CaptureRunning

\* A run begins in AutoInv
LEMMA AutoStarts == AutoInit => AutoInv
<1> SUFFICES ASSUME AutoInit PROVE AutoInv
  OBVIOUS
<1> USE DEF AutoInit, AutoStart
<1>1. TypeOK
  <2>1. Address(at) \in Replies
    BY DEF Address, Replies
  <2>2. late # <<>> => late = <<Address(at)>>
    OBVIOUS
  <2>3. at \in 0 .. LastAddress + 1 /\ disc \in Discs /\ mishaps \in Nat /\ plan \in Plans
    BY AutoCaptureAssumption DEF Discs, Plans
  <2>4. {silent, saidResting, ejected, misread, headObeyed} \subseteq BOOLEAN
    BY DEF Turning
  <2>5. late # <<>> => late = <<late[1]>> /\ late[1] \in Replies
    BY <2>1, <2>2
  <2>6. waiting = "step" /\ connected = TRUE /\ held = {} /\ capturing = FALSE /\ sticks = FALSE
        /\ panelLocked = FALSE
    OBVIOUS
  <2> QED
    BY <2>3, <2>4, <2>5, <2>6 DEF TypeOK
<1>2. SeqInv(NewSequence)
  BY DEF SeqInv, Stages, NewSequence, Sequences, HeadSet, SpinUpHead, SeekHead, TailSet, Outcomes, CaptureRunning,
         AfterCapture
<1>3. Asked /\ Tray /\ Undone
  BY <1>2 DEF Asked, Tray, Undone, NewSequence
<1>4. Disturbed
  BY DEF Disturbed, Turning
<1>5. Whole
  BY <1>2 DEF Whole, NewSequence
<1> QED
  BY <1>1, <1>3, <1>4, <1>5 DEF AutoInv

\* A run that is over hands out no step
LEMMA IdleNext ==
  ASSUME NEW s, s.outcome # "inProgress"
  PROVE  NextStep(s) = s
BY DEF NextStep

\* Each action keeps AutoInv: first those of the controller
LEMMA SendKeeps ==
  ASSUME AutoInv, Send
  PROVE  AutoInv'
<1> DEFINE u == NextStep(seq)
<1>1. /\ waiting = "step" /\ seq' = u /\ waiting' = "reply" /\ u.outcome = "inProgress"
      /\ u.stage \notin {"startCapture", "stopCapture"}
      /\ UNCHANGED <<plan, sessionVars, playerVars, engineVars, countVars, history>>
  BY DEF Send
<1>2. SeqInv(seq) /\ ~seq.pending /\ ~seq.cancel
  BY <1>1 DEF AutoInv, Asked
<1>3. seq.outcome = "inProgress"
  BY <1>1, IdleNext
<1> HIDE DEF u
<1>4. /\ SeqInv(u) /\ Kept(seq, u) /\ u.pending /\ ~u.cancel /\ u.outcome = "inProgress"
      /\ u.finishing = seq.finishing /\ u.turning = seq.turning /\ u.linkFailed = seq.linkFailed
      /\ u.pendingOutcome = seq.pendingOutcome
      /\ seq.finishing => u.stage = seq.stage
      /\ u.stage # "finished"
      /\ u.stage \in {"lock", "spinDown"} => HeadApplies(u, u.stage)
      /\ u.stage \in {"lock", "confirm", "checkTransport"}
           => seq.stage \in {"lock", "confirm", "checkTransport"}
      /\ u.stage = "spinDown" => seq.stage = "spinDown"
      /\ u.stage = "lock" => seq.stage = "lock"
  BY <1>2, <1>3, NextGives DEF u
<1>5. u.stage \in (IF u.finishing THEN TailSet ELSE HeadSet)
  BY <1>4 DEF SeqInv
<1>6. TypeOK'
  BY <1>1 DEF AutoInv, TypeOK, sessionVars, playerVars, engineVars, countVars, history
<1>7. Asked'
  BY <1>1, <1>4, SamePlan DEF Asked
<1>8. Disturbed'
  BY <1>1 DEF AutoInv, Disturbed, sessionVars, playerVars, countVars, history
<1>9. Tray'
  BY <1>1, <1>4, <1>5 DEF AutoInv, Tray, history, HeadSet, SpinUpHead, SeekHead
<1>10. Undone'
  BY <1>1, <1>4, SamePlan
     DEF AutoInv, Undone, Kept, CaptureRunning, playerVars, engineVars, countVars
<1>11. u.stage \in {"spinUp", "watch", "checkStall"} => seq.stage \in {"spinUp", "watch", "checkStall"}
  BY <1>2, <1>4, <1>5 DEF SeqInv, Kept, TailSet
<1>12. Whole'
  BY <1>1, <1>4, <1>5, <1>11, SamePlan
     DEF AutoInv, Whole, Undisturbed, playerVars, engineVars, countVars, history
<1> QED
  BY <1>6, <1>7, <1>8, <1>9, <1>10, <1>12 DEF AutoInv

LEMMA StartCaptureKeeps ==
  ASSUME AutoInv, NEW on \in BOOLEAN, StartCapture(on)
  PROVE  AutoInv'
<1> DEFINE u == NextStep(seq)
           s == [u EXCEPT !.pending = FALSE]
           q == [s EXCEPT !.captureStarted = TRUE]
<1>1. /\ waiting = "step" /\ s.stage = "startCapture" /\ waiting' = waiting
      /\ seq' = IF on THEN Advance(q) ELSE Finish(s, "captureFailed")
      /\ capturing' = on /\ held' = IF on /\ Turning(disc) THEN {at} \cap Programme ELSE {}
      /\ UNCHANGED <<plan, sessionVars, playerVars, countVars, history>>
  BY DEF StartCapture
<1>2. SeqInv(seq) /\ ~seq.pending /\ ~seq.cancel
  BY <1>1 DEF AutoInv, Asked
<1>3. seq.outcome = "inProgress"
  <2>1. SUFFICES ASSUME seq.outcome # "inProgress" PROVE FALSE
    OBVIOUS
  <2>2. seq.stage = "finished" /\ u = seq /\ seq \in Sequences
    BY <1>2, <2>1, IdleNext DEF SeqInv
  <2> QED
    BY <1>1, <2>2 DEF Sequences
<1>4. /\ SeqInv(u) /\ Kept(seq, u) /\ ~u.cancel /\ u.outcome = "inProgress"
      /\ u.finishing = seq.finishing /\ u.turning = seq.turning /\ u.linkFailed = seq.linkFailed
      /\ u.stage = "startCapture" => IF BeginsWithSpinUp
                                     THEN \/ seq.stage \in {"lock", "confirm", "checkTransport", "startCapture"}
                                          \/ seq.stage = "spinDown" /\ ~HeadApplies(seq, "spinDown")
                                     ELSE seq.stage = "startCapture"
  BY <1>2, <1>3, NextGives DEF u
<1>5. s \in Sequences /\ s.stage = u.stage /\ s.finishing = u.finishing /\ s.cancel = u.cancel
      /\ s.outcome = u.outcome /\ s.pending = FALSE /\ s.turning = u.turning
      /\ s.captureStarted = u.captureStarted /\ s.captureStopped = u.captureStopped
      /\ s.keyLock = u.keyLock /\ s.linkFailed = u.linkFailed
  BY <1>4 DEF SeqInv, Sequences
<1>6. u.stage = "startCapture" /\ ~u.finishing /\ "startCapture" \in HeadSet
  BY <1>1, <1>4, <1>5 DEF SeqInv, TailSet, HeadSet, SpinUpHead, SeekHead
<1> HIDE DEF u
<1>7. SeqInv(s)
  <2>1. s.keyLock => "keyLock" \in Controls
    BY <1>4, <1>5 DEF SeqInv
  <2> HIDE DEF s
  <2> QED
    BY <1>4, <1>5, <1>6, <2>1, HeadStays
<1>8. Undisturbed => IF BeginsWithSpinUp THEN ~Turning(disc) ELSE disc = "paused" /\ at = 1
  BY <1>1, <1>4, <1>6 DEF AutoInv, Whole, Undisturbed, HeadApplies
<1>9. TypeOK'
  <2>1. held' \subseteq Programme
    BY <1>1
  <2> QED
    BY <1>1, <2>1 DEF AutoInv, TypeOK, sessionVars, playerVars, countVars, history, Programme
<1>10. Disturbed'
  BY <1>1 DEF AutoInv, Disturbed, sessionVars, playerVars, countVars, history
<1>11. CASE on
  <2>1. q \in Sequences /\ q.stage = "startCapture" /\ ~q.finishing /\ ~q.cancel /\ ~q.pending
        /\ q.outcome = "inProgress" /\ q.captureStarted /\ q.captureStopped = s.captureStopped
        /\ q.keyLock = s.keyLock /\ q.linkFailed = s.linkFailed
    BY <1>4, <1>5, <1>6 DEF Sequences
  <2> HIDE DEF q
  <2>2. seq' = [q EXCEPT !.stage = "spinUp"]
    BY <1>1, <1>11, <2>1, HeadGoesOn DEF Advance
  <2>3. /\ seq' \in Sequences /\ seq'.stage = "spinUp" /\ ~seq'.finishing /\ ~seq'.cancel
        /\ ~seq'.pending /\ seq'.outcome = "inProgress" /\ seq'.captureStarted
        /\ seq'.captureStopped = s.captureStopped
        /\ seq'.keyLock = s.keyLock /\ seq'.linkFailed = s.linkFailed
    BY <2>1, <2>2 DEF Sequences, Stages, SpinUpHead
  <2>4. SeqInv(seq')
    BY <1>6, <1>7, <2>3 DEF SeqInv, HeadSet, SpinUpHead, SeekHead, AfterCapture, TailSet
  <2>5. Asked'
    BY <1>1, <2>3, <2>4, SamePlan DEF Asked
  <2>6. Tray'
    BY <1>1, <2>3 DEF AutoInv, Tray, history
  <2>7. CaptureRunning(seq')
    BY <1>6, <1>7, <2>3 DEF SeqInv, CaptureRunning
  <2>8. Undone'
    BY <1>1, <1>4, <1>5, <1>11, <2>3, <2>7, SamePlan DEF AutoInv, Undone, Kept, playerVars, countVars
  <2>9. Undisturbed' <=> Undisturbed
    BY <1>1, SamePlan DEF Undisturbed, countVars, history
  <2>10. Undisturbed => (Turning(disc) => (1 .. at) \cap Programme \subseteq held')
    BY <1>1, <1>8, <1>11
  <2>11. Whole'
    BY <1>1, <1>11, <2>3, <2>9, <2>10, SamePlan DEF Whole, Turning, playerVars, Programme
  <2> QED
    BY <1>9, <1>10, <2>5, <2>6, <2>8, <2>11 DEF AutoInv
<1>12. CASE ~on
  <2> HIDE DEF s
  <2>1. seq' = Finish(s, "captureFailed") /\ "captureFailed" \in Outcomes
    BY <1>1, <1>12 DEF Outcomes
  <2>2. /\ SeqInv(seq') /\ Kept(s, seq')
        /\ seq'.finishing /\ ~seq'.pending /\ ~seq'.cancel /\ ~seq'.turning
        /\ seq'.pendingOutcome = "captureFailed"
        /\ seq'.linkFailed <=> s.linkFailed
        /\ seq'.stage = "finished" => ~seq'.keyLock \/ seq'.linkFailed
    BY <1>5, <1>6, <1>7, <2>1, FinishGives
  <2>3. seq'.stage \in TailSet
    BY <2>2 DEF SeqInv
  <2>4. Asked'
    BY <1>1, <2>2, SamePlan DEF Asked
  <2>5. Tray'
    BY <1>1, <2>2 DEF AutoInv, Tray, history
  <2>6. Undone'
    BY <1>1, <1>4, <1>5, <1>12, <2>2, <2>3, SamePlan
       DEF AutoInv, Undone, Kept, playerVars, countVars, TailSet
  <2>7. Whole'
    BY <1>1, <2>2, <2>3, SamePlan DEF Whole, TailSet
  <2> QED
    BY <1>9, <1>10, <2>4, <2>5, <2>6, <2>7 DEF AutoInv
<1> QED
  BY <1>11, <1>12

LEMMA StopCaptureKeeps ==
  ASSUME AutoInv, StopCapture
  PROVE  AutoInv'
<1> DEFINE u == NextStep(seq)
           s == [u EXCEPT !.pending = FALSE]
           q == [s EXCEPT !.captureStopped = TRUE]
<1>1. /\ waiting = "step" /\ s.stage = "stopCapture" /\ waiting' = waiting
      /\ seq' = CompleteTeardownStep(q) /\ capturing' = FALSE
      /\ UNCHANGED <<plan, sessionVars, playerVars, held, countVars, history>>
  BY DEF StopCapture
<1>2. SeqInv(seq) /\ ~seq.pending /\ ~seq.cancel
  BY <1>1 DEF AutoInv, Asked
<1>3. seq.outcome = "inProgress"
  <2>1. SUFFICES ASSUME seq.outcome # "inProgress" PROVE FALSE
    OBVIOUS
  <2>2. seq.stage = "finished" /\ u = seq /\ seq \in Sequences
    BY <1>2, <2>1, IdleNext DEF SeqInv
  <2> QED
    BY <1>1, <2>2 DEF Sequences
<1>4. /\ SeqInv(u) /\ Kept(seq, u) /\ ~u.cancel /\ u.outcome = "inProgress"
      /\ u.finishing = seq.finishing /\ u.turning = seq.turning /\ u.linkFailed = seq.linkFailed
      /\ u.pendingOutcome = seq.pendingOutcome
  BY <1>2, <1>3, NextGives DEF u
<1>5. /\ u.stage = "stopCapture" /\ u.finishing
      /\ CaptureRunning(u) /\ (~EndsWithSpinDown => ~u.turning)
  <2>1. u.stage = "stopCapture"
    BY <1>1, <1>4 DEF SeqInv, Sequences
  <2> QED
    BY <1>4, <2>1 DEF SeqInv, HeadSet, SpinUpHead, SeekHead, TailApplies
<1>6. /\ q \in Sequences /\ q.stage = u.stage /\ q.finishing = u.finishing /\ q.cancel = u.cancel
      /\ q.outcome = u.outcome /\ q.pending = FALSE /\ q.turning = u.turning
      /\ q.pendingOutcome = u.pendingOutcome
      /\ q.captureStarted = u.captureStarted /\ q.captureStopped
      /\ q.keyLock = u.keyLock /\ q.linkFailed = u.linkFailed
  BY <1>4 DEF SeqInv, Sequences
<1> HIDE DEF q, u
<1>7. TailInv(q)
  BY <1>4, <1>5, <1>6 DEF SeqInv, TailInv, CaptureRunning
<1>8. ~CaptureRunning(q)
  BY <1>6 DEF CaptureRunning
<1>9. /\ SeqInv(seq') /\ Kept(q, seq') /\ seq'.finishing /\ ~seq'.pending /\ ~seq'.cancel
      /\ seq'.pendingOutcome = q.pendingOutcome
      /\ seq'.turning = q.turning /\ seq'.linkFailed = q.linkFailed
      /\ seq'.stage = "finished" => ~seq'.keyLock \/ seq'.linkFailed
      /\ seq'.stage = "stopPlayer" => ~EndsWithSpinDown
  BY <1>1, <1>5, <1>6, <1>7, <1>8, TeardownGoesOn DEF TailSet
<1>10. seq'.stage \in TailSet
  BY <1>9 DEF SeqInv
<1>11. TypeOK'
  BY <1>1 DEF AutoInv, TypeOK, sessionVars, playerVars, countVars, history
<1>12. Asked'
  BY <1>1, <1>9, SamePlan DEF Asked
<1>13. Disturbed'
  BY <1>1 DEF AutoInv, Disturbed, sessionVars, playerVars, countVars, history
<1>14. Tray'
  BY <1>1, <1>5, <1>6, <1>9, <1>10 DEF AutoInv, Tray, history, TailSet
<1>15. Undone'
  BY <1>1, <1>4, <1>6, <1>9, <1>10 DEF AutoInv, Undone, Kept, playerVars, countVars, TailSet
<1>16. Whole'
  BY <1>1, <1>4, <1>5, <1>6, <1>9, <1>10, SamePlan
     DEF AutoInv, Whole, Undisturbed, countVars, history, TailSet
<1> QED
  BY <1>11, <1>12, <1>13, <1>14, <1>15, <1>16 DEF AutoInv

LEMMA FinishRunKeeps ==
  ASSUME AutoInv, FinishRun
  PROVE  AutoInv'
<1>1. SeqInv(seq) /\ ~seq.pending /\ ~seq.cancel /\ waiting = "step" /\ waiting' = "over"
  BY DEF AutoInv, Asked, FinishRun
<1>2. seq.outcome # "inProgress"
  BY <1>1, NextGives DEF FinishRun
<1>3. /\ NextStep(seq) = seq /\ seq.stage = "finished" /\ seq.outcome = seq.pendingOutcome
      /\ seq.finishing
  BY <1>1, <1>2, IdleNext DEF SeqInv, HeadSet, SpinUpHead, SeekHead
<1>4. seq'.outcome = seq.outcome /\ seq'.linkFailed = seq.linkFailed
  BY <1>3 DEF FinishRun, NewSequence
<1>5. UNCHANGED <<plan, sessionVars, playerVars, engineVars, countVars, history>>
  BY DEF FinishRun
<1>6. TypeOK'
  BY <1>1, <1>5 DEF AutoInv, TypeOK, sessionVars, playerVars, engineVars, countVars, history
<1>7. Disturbed'
  BY <1>5 DEF AutoInv, Disturbed, sessionVars, playerVars, countVars, history
<1>8. Asked' /\ Tray'
  BY <1>1, <1>5 DEF AutoInv, Asked, Tray, history
<1>9. Undone'
  BY <1>1, <1>3, <1>4, <1>5
     DEF AutoInv, Undone, SeqInv, AfterCapture, playerVars, engineVars, countVars
<1>10. Whole'
  BY <1>1, <1>3, <1>4, <1>5, SamePlan
     DEF AutoInv, Whole, Undisturbed, engineVars, countVars, history
<1> QED
  BY <1>6, <1>7, <1>8, <1>9, <1>10 DEF AutoInv

LEMMA CancelKeeps ==
  ASSUME AutoInv, Cancel
  PROVE  AutoInv'
<1>1. /\ SeqInv(seq) /\ waiting = "reply" /\ waiting' = waiting /\ ~seq.finishing
      /\ seq.stage \notin {"startCapture", "stopCapture", "finished"}
      /\ seq.stage \in {"lock", "spinDown"} => HeadApplies(seq, seq.stage)
      /\ seq' = [seq EXCEPT !.cancel = TRUE]
      /\ UNCHANGED <<plan, sessionVars, playerVars, engineVars, countVars, history>>
  BY DEF AutoInv, Asked, Cancel
<1>2. /\ seq' \in Sequences /\ seq'.stage = seq.stage /\ seq'.finishing = seq.finishing
      /\ seq'.outcome = seq.outcome /\ seq'.turning = seq.turning
      /\ seq'.captureStarted = seq.captureStarted /\ seq'.captureStopped = seq.captureStopped
      /\ seq'.keyLock = seq.keyLock /\ seq'.linkFailed = seq.linkFailed
      /\ seq'.pendingOutcome = seq.pendingOutcome
  BY <1>1 DEF SeqInv, Sequences
<1>3. SeqInv(seq')
  BY <1>1, <1>2 DEF SeqInv, CaptureRunning
<1>4. TypeOK'
  BY <1>1 DEF AutoInv, TypeOK, sessionVars, playerVars, engineVars, countVars, history
<1>5. Disturbed'
  BY <1>1 DEF AutoInv, Disturbed, sessionVars, playerVars, countVars, history
<1>6. HeadApplies(seq', seq'.stage) <=> HeadApplies(seq, seq.stage)
  BY <1>2 DEF HeadApplies
<1>7. Asked'
  BY <1>1, <1>2, <1>3, <1>6, SamePlan DEF Asked
<1>8. Tray'
  BY <1>1, <1>2 DEF AutoInv, Tray, history
<1>9. Undone'
  BY <1>1, <1>2, SamePlan DEF AutoInv, Undone, CaptureRunning, playerVars, engineVars, countVars
<1>10. Whole'
  BY <1>1, <1>2, SamePlan
     DEF AutoInv, Whole, Undisturbed, playerVars, engineVars, countVars, history
<1> QED
  BY <1>4, <1>5, <1>7, <1>8, <1>9, <1>10 DEF AutoInv

\* What an answer that is applied leaves, whatever became of the command
LEMMA ApplyGives ==
  ASSUME AutoInv, waiting = "reply", NEW a \in Replies, Apply(a), plan' = plan
  PROVE  /\ waiting' = "step" /\ Waited(seq) /\ Answered(seq, a, seq') /\ Asked'
         /\ CaptureRunning(seq)' <=> CaptureRunning(seq)
         /\ headObeyed' \in BOOLEAN
         /\ seq.stage = "checkTransport" =>
              headObeyed' = (a.kind = "mode" /\ ("stop" \in Controls \/ ~Turning(a.state)))
         /\ seq.stage = "spinDown" => headObeyed' = (headObeyed /\ a.kind = "ack")
         /\ seq.stage \notin {"checkTransport", "spinDown"} => headObeyed' = headObeyed
<1>1. Waited(seq)
  BY DEF AutoInv, Asked, Waited
<1>2. Answered(seq, a, seq') /\ ~seq'.cancel /\ waiting' = "step"
  BY <1>1, AnswerGives DEF Apply
<1>3. Asked'
  BY <1>2, SamePlan DEF Asked, Answered
<1>4. CaptureRunning(seq)' <=> CaptureRunning(seq)
  BY <1>2 DEF Answered, CaptureRunning
<1>5. headObeyed' = CASE seq.stage = "checkTransport" ->
                             a.kind = "mode" /\ ("stop" \in Controls \/ ~Turning(a.state))
                      [] seq.stage = "spinDown"       -> headObeyed /\ a.kind = "ack"
                      [] OTHER                        -> headObeyed
  BY DEF Apply
<1>6. headObeyed \in BOOLEAN
  BY DEF AutoInv, TypeOK
<1> QED
  BY <1>1, <1>2, <1>3, <1>4, <1>5, <1>6 DEF Turning

\* The answer of a player, and where it leaves the disc
LEMMA PlayerGives ==
  ASSUME AutoInv, NEW own \in {Answer("ack"), Answer("refusal"), Says}, Player(own)
  PROVE  /\ own \in Replies /\ ~Failed(own)
         /\ disc' \in Discs /\ at' \in 0 .. LastAddress + 1
         /\ ~Turning(disc)' \/ disc' = "settingUp" => at' = 0
         /\ panelLocked' \in BOOLEAN /\ saidResting' \in BOOLEAN /\ ejected' \in BOOLEAN
         /\ sticks' = sticks
<1> USE DEF Discs
<1>1. /\ disc \in Discs /\ at \in 0 .. LastAddress + 1 /\ at \in Nat /\ plan.start_address = 1
      /\ panelLocked \in BOOLEAN /\ saidResting \in BOOLEAN /\ ejected \in BOOLEAN
      /\ ~Turning(disc) \/ disc = "settingUp" => at = 0
  BY AutoCaptureAssumption DEF AutoInv, TypeOK, Disturbed, Plans
<1>2. /\ Answer("ack") \in Replies /\ Answer("refusal") \in Replies /\ Answer("disc") \in Replies
      /\ Mode(disc) \in Replies /\ Address(at) \in Replies
  BY <1>1 DEF Answer, Mode, Address, Replies
<1>3. own \in Replies /\ ~Failed(own)
  BY <1>2 DEF Says, Answer, Mode, Address, Failed
<1>4. CASE own = Answer("ack") /\ Obeys
  <2>1. sticks' = sticks /\ saidResting' = saidResting
    BY <1>4 DEF Obeys
  <2>2. CASE /\ panelLocked' = (Command = "lockOn") /\ UNCHANGED <<disc, at, ejected>>
    BY <1>1, <1>3, <2>1, <2>2 DEF Turning
  <2>3. CASE /\ disc' = (IF Turning(disc) THEN "parked" ELSE "open") /\ at' = 0
             /\ ejected' = (ejected \/ (~Turning(disc) /\ saidResting)) /\ UNCHANGED panelLocked
    BY <1>1, <1>3, <2>1, <2>3, AutoCaptureAssumption DEF Turning
  <2>4. CASE FoundStart /\ UNCHANGED <<panelLocked, ejected>>
    BY <1>1, <1>3, <2>1, <2>4, AutoCaptureAssumption DEF Turning, FoundStart
  <2>5. CASE SpunUp /\ UNCHANGED <<at, panelLocked, ejected>>
    BY <1>1, <1>3, <2>1, <2>5 DEF Turning, SpunUp
  <2> QED
    BY <1>4, <2>2, <2>3, <2>4, <2>5 DEF Obeys
<1>5. CASE own = Answer("refusal") /\ Refuses
  BY <1>1, <1>3, <1>5 DEF Refuses, Turning, SpunUp
<1>6. CASE /\ own = Says /\ Command = "query" /\ UNCHANGED <<playerVars, ejected>>
           /\ saidResting' = IF own.kind = "mode" THEN ~Turning(disc) ELSE saidResting
  BY <1>1, <1>3, <1>6 DEF playerVars, Turning
<1> QED
  BY <1>4, <1>5, <1>6 DEF Player

\* No stop opens the tray
LEMMA PlayerAtTray ==
  ASSUME AutoInv, waiting = "reply", Waited(seq),
         NEW own \in {Answer("ack"), Answer("refusal"), Says}, Player(own)
  PROVE  /\ ~misread => ejected' = ejected
         /\ own.kind = "mode" /\ Turning(own.state) => ~saidResting'
<1>1. seq.stage \in {"spinDown", "stopPlayer"} => seq.turning
  <2>1. CASE seq.stage = "spinDown"
    BY <2>1 DEF Waited, HeadApplies
  <2>2. CASE seq.stage = "stopPlayer"
    <3>1. seq.finishing
      BY <2>2 DEF Waited, SeqInv, HeadSet, SpinUpHead, SeekHead
    <3> QED
      BY <2>2, <3>1 DEF Waited, SeqInv, TailApplies
  <2> QED
    BY <2>1, <2>2
<1>2. ~misread /\ Command = "stop" => ~saidResting
  BY <1>1 DEF AutoInv, Tray, Command
<1>3. CASE own = Answer("ack") /\ Obeys
  BY <1>2, <1>3 DEF Obeys, Answer, AutoInv, TypeOK
<1>4. CASE own = Answer("refusal") /\ Refuses
  BY <1>4 DEF Refuses, Answer
<1>5. CASE /\ own = Says /\ Command = "query" /\ UNCHANGED <<playerVars, ejected>>
           /\ saidResting' = IF own.kind = "mode" THEN ~Turning(disc) ELSE saidResting
  BY <1>5 DEF Says, Answer, Mode, Address
<1> QED
  BY <1>3, <1>4, <1>5 DEF Player

\* What locks the front panel, and what releases it
LEMMA PlayerAtPanel ==
  ASSUME NEW own \in {Answer("ack"), Answer("refusal"), Says}, Player(own)
  PROVE  /\ seq.stage \notin {"lock", "unlock"} => panelLocked' = panelLocked
         /\ seq.stage = "lock" /\ own # Answer("ack") => panelLocked' = panelLocked
         /\ seq.stage = "unlock" => panelLocked' = FALSE
  BY DEF Player, Obeys, Refuses, playerVars, Command

\* What every answer keeps, whether the command reached the player or not
LEMMA WorkerKeeps ==
  ASSUME AutoInv, waiting = "reply", NEW a \in Replies, Apply(a), plan' = plan, UNCHANGED engineVars,
         disc' \in Discs /\ at' \in 0 .. LastAddress + 1 /\ sticks' = sticks,
         ~Turning(disc)' \/ disc' = "settingUp" => at' = 0,
         {panelLocked', saidResting', ejected', misread', silent', connected'} \subseteq BOOLEAN,
         late' # <<>> => late' = <<late'[1]>> /\ late'[1] \in Replies,
         mishaps' \in Nat, mishaps' >= mishaps,
         late' # <<>> \/ misread' => silent',
         silent' \/ ~connected' => mishaps' > 0,
         misread => misread', ~misread => ejected' = ejected,
         a.kind = "mode" /\ Turning(a.state) /\ ~misread' => ~saidResting',
         silent => silent',
         panelLocked' /\ ~silent' => (panelLocked /\ seq.stage # "unlock")
              \/ (seq.stage = "lock" /\ a.kind = "ack") \/ Failed(a)
  PROVE  TypeOK' /\ Asked' /\ Disturbed' /\ Tray' /\ Undone'
<1>1. /\ waiting' = "step" /\ Waited(seq) /\ Answered(seq, a, seq') /\ Asked'
      /\ CaptureRunning(seq)' <=> CaptureRunning(seq)
      /\ headObeyed' \in BOOLEAN
  BY ApplyGives
<1>2. TypeOK'
  BY <1>1 DEF AutoInv, TypeOK, engineVars, Programme
<1>3. Disturbed'
  BY DEF Disturbed
<1>4. Tray'
  <2>1. ejected' => misread'
    BY DEF AutoInv, Tray
  <2> QED
    BY <1>1, <2>1 DEF Tray, Answered
<1>5. capturing' => CaptureRunning(seq')
  BY <1>1 DEF AutoInv, Undone, engineVars, CaptureRunning
<1>6. panelLocked' /\ ~silent' => seq'.linkFailed \/ (seq'.keyLock /\ seq'.stage \notin {"lock", "finished"})
  <2> SUFFICES ASSUME panelLocked', ~silent'
               PROVE  seq'.linkFailed \/ (seq'.keyLock /\ seq'.stage \notin {"lock", "finished"})
    OBVIOUS
  <2>1. CASE Failed(a)
    BY <1>1, <2>1 DEF Answered
  <2>2. CASE seq.stage = "lock" /\ a.kind = "ack"
    BY <1>1, <2>2 DEF Answered
  <2>3. CASE panelLocked /\ seq.stage # "unlock" /\ ~Failed(a)
    <3>1. seq.linkFailed \/ (seq.keyLock /\ seq.stage \notin {"lock", "finished"})
      BY <2>3 DEF AutoInv, Undone
    <3> QED
      BY <1>1, <2>3, <3>1 DEF Answered
  <2> QED
    BY <2>1, <2>2, <2>3
<1>7. Undone'
  BY <1>1, <1>5, <1>6, SamePlan DEF Undone
<1> QED
  BY <1>1, <1>2, <1>3, <1>4, <1>7

\* The parts of Whole that hold of the head and of a run that is over
LEMMA WholeOrDisturbed ==
  ASSUME AutoInv, waiting = "reply", NEW a \in Replies, Apply(a), plan' = plan, mishaps' > 0, mishaps' \in Nat
  PROVE  Whole'
<1>1. /\ waiting' = "step" /\ Answered(seq, a, seq')
      /\ seq.stage \notin {"checkTransport", "spinDown"} => headObeyed' = headObeyed
  BY ApplyGives
<1>2. ~Undisturbed'
  BY DEF Undisturbed
<1> QED
  BY <1>1, <1>2 DEF AutoInv, Whole, Answered

\* Whole after an answer that is the player's own to the question
LEMMA WholeOfObeyed ==
  ASSUME AutoInv, waiting = "reply", NEW own \in {Answer("ack"), Answer("refusal"), Says},
         Player(own), Apply(own), plan' = plan, UNCHANGED engineVars, mishaps' = mishaps
  PROVE  Whole'
<1>1. own \in Replies /\ ~Failed(own)
  BY PlayerGives
<1>2. /\ waiting' = "step" /\ Waited(seq) /\ Answered(seq, own, seq')
      /\ headObeyed' \in BOOLEAN
      /\ seq.stage = "checkTransport" =>
           headObeyed' = (own.kind = "mode" /\ ("stop" \in Controls \/ ~Turning(own.state)))
      /\ seq.stage = "spinDown" => headObeyed' = (headObeyed /\ own.kind = "ack")
      /\ seq.stage \notin {"checkTransport", "spinDown"} => headObeyed' = headObeyed
  BY <1>1, ApplyGives
<1>3. Undisturbed' <=> mishaps = 0 /\ (BeginsWithSpinUp => headObeyed')
  BY SamePlan DEF Undisturbed
<1>4. seq'.stage \in {"lock", "confirm", "checkTransport"} => ~headObeyed'
  BY <1>2 DEF Answered, AutoInv, Whole
<1>5. seq.stage \in {"checkTransport", "spinDown"} => BeginsWithSpinUp
  BY <1>2 DEF Waited, SeqInv, HeadSet, SpinUpHead, SeekHead, TailSet
<1>6. seq.stage = "seek" => ~BeginsWithSpinUp
  BY <1>2 DEF Waited, SeqInv, HeadSet, SpinUpHead, SeekHead, TailSet
<1>7. own.kind = "mode" => own = Mode(disc) /\ own.state = disc /\ disc' = disc
  BY DEF Player, Says, Answer, Mode, Address, playerVars
<1>8. own.kind = "ack" => own = Answer("ack") /\ Obeys
  BY DEF Player, Says, Answer, Mode, Address, Command
<1>9. own.kind = "address" => own.address = at /\ Turning(disc)
  BY DEF Says, Answer, Mode, Address
<1>10. ASSUME Undisturbed', seq'.stage = "spinDown"
       PROVE  IF seq'.turning THEN "stop" \in Controls ELSE ~Turning(disc')
  BY <1>2, <1>3, <1>5, <1>7, <1>10 DEF Answered
<1>11. ASSUME Undisturbed', seq'.stage = "startCapture"
       PROVE  IF BeginsWithSpinUp THEN ~Turning(disc') ELSE disc' = "paused" /\ at' = 1
  <2>1. CASE seq.stage = "spinDown"
    BY <1>2, <1>3, <1>5, <1>8, <1>11, <2>1 DEF Obeys, Command, Turning
  <2>2. CASE seq.stage = "seek" /\ Ok("seek", own)
    <3>1. own.kind = "ack"
      BY <2>2 DEF Ok, Queries, Player, Answer, Says, Mode, Address, Command
    <3>2. plan.start_address = 1
      BY DEF AutoInv, TypeOK, Plans
    <3> QED
      BY <1>6, <1>8, <2>2, <3>1, <3>2 DEF Obeys, Command, FoundStart
  <2> QED
    BY <1>2, <1>11, <2>1, <2>2 DEF Answered
<1>12. ASSUME Undisturbed', seq'.stage \in {"spinUp", "watch", "checkStall"}
       PROVE  capturing' /\ (Turning(disc') => (1 .. at') \cap Programme \subseteq held')
  <2>1. seq.stage \in {"spinUp", "watch", "checkStall"}
    BY <1>2, <1>12 DEF Answered, Waited, SeqInv, TailSet
  <2>2. Undisturbed
    BY <1>2, <1>3, <1>12, <2>1 DEF Undisturbed
  <2>3. capturing /\ (Turning(disc) => (1 .. at) \cap Programme \subseteq held)
    BY <1>2, <2>1, <2>2 DEF AutoInv, Whole
  <2>4. at' = at /\ (disc' = disc \/ SpunUp)
    BY <2>1 DEF Player, Obeys, Refuses, Command, playerVars
  <2>5. ~Turning(disc) => at = 0
    BY DEF AutoInv, Disturbed
  <2>6. Turning(disc') => (1 .. at) \cap Programme \subseteq held
    BY <2>3, <2>4, <2>5 DEF SpunUp, Turning, Programme
  <2> QED
    BY <2>3, <2>4, <2>6 DEF engineVars
<1>13. ASSUME Undisturbed', seq'.finishing, seq'.pendingOutcome = "completed"
       PROVE  Programme \subseteq held'
  <2>1. CASE seq.finishing /\ seq.pendingOutcome = "completed"
    <3>1. seq.stage \notin {"checkTransport", "spinDown"}
      BY <1>2, <2>1 DEF Waited, SeqInv, TailSet
    <3> QED
      BY <1>2, <1>3, <1>13, <2>1, <3>1 DEF AutoInv, Whole, Undisturbed, engineVars
  <2>2. CASE seq.stage = "watch" /\ own.kind = "address" /\ own.address >= LastAddress
    <3>1. (1 .. at) \cap Programme \subseteq held
      BY <1>2, <1>3, <1>9, <1>13, <2>2 DEF AutoInv, Whole, Undisturbed
    <3>2. at >= LastAddress /\ at \in Nat
      BY <1>9, <2>2, AutoCaptureAssumption DEF AutoInv, TypeOK
    <3> QED
      BY <3>1, <3>2, AutoCaptureAssumption DEF Programme, engineVars
  <2> QED
    BY <1>2, <1>13, <2>1, <2>2 DEF Answered
<1> QED
  BY <1>2, <1>4, <1>10, <1>11, <1>12, <1>13, SamePlan DEF Whole, Turning, Programme

\* What the worker's lemmas need of the types
LEMMA TypedParts ==
  ASSUME AutoInv
  PROVE  /\ disc \in Discs /\ at \in 0 .. LastAddress + 1 /\ mishaps \in Nat
         /\ {panelLocked, saidResting, ejected, misread, silent, connected, headObeyed, capturing}
              \subseteq BOOLEAN
         /\ late # <<>> => late = <<late[1]>> /\ late[1] \in Replies
         /\ late # <<>> \/ misread => silent
         /\ silent \/ ~connected => mishaps > 0
         /\ ~Turning(disc) \/ disc = "settingUp" => at = 0
BY DEF AutoInv, TypeOK, Disturbed

\* The actions of the worker, and of the player behind it
LEMMA ExecuteKeeps ==
  ASSUME AutoInv, Execute
  PROVE  AutoInv'
<1>1. waiting = "reply" /\ connected /\ plan' = plan /\ connected' = connected /\ UNCHANGED engineVars
  BY DEF Execute
<1>2. PICK own \in {Answer("ack"), Answer("refusal"), Says} :
        /\ Player(own)
        /\ \/ late' = <<>> /\ Apply(own) /\ UNCHANGED <<countVars, misread>>
           \/ /\ late # <<>> /\ late' = <<own>> /\ Apply(late[1])
              /\ misread' = TRUE /\ UNCHANGED countVars
           \/ late' = <<own>> /\ Silence /\ UNCHANGED misread
  BY DEF Execute
<1>3. /\ own \in Replies /\ ~Failed(own)
      /\ disc' \in Discs /\ at' \in 0 .. LastAddress + 1
      /\ ~Turning(disc)' \/ disc' = "settingUp" => at' = 0
      /\ panelLocked' \in BOOLEAN /\ saidResting' \in BOOLEAN /\ ejected' \in BOOLEAN
      /\ sticks' = sticks
  BY <1>2, PlayerGives
<1>4. Waited(seq)
  BY <1>1 DEF AutoInv, Asked, Waited
<1>5. /\ ~misread => ejected' = ejected
      /\ own.kind = "mode" /\ Turning(own.state) => ~saidResting'
  BY <1>1, <1>2, <1>4, PlayerAtTray
<1>6. /\ seq.stage \notin {"lock", "unlock"} => panelLocked' = panelLocked
      /\ seq.stage = "lock" /\ own # Answer("ack") => panelLocked' = panelLocked
      /\ seq.stage = "unlock" => panelLocked' = FALSE
  BY <1>2, PlayerAtPanel
<1>7. panelLocked' => (panelLocked /\ seq.stage # "unlock") \/ (seq.stage = "lock" /\ own.kind = "ack")
  <2>1. own = Answer("ack") => own.kind = "ack"
    BY DEF Answer
  <2> QED
    BY <1>6, <2>1
<1>8. CASE late' = <<>> /\ Apply(own) /\ UNCHANGED <<countVars, misread>>
  <2>1. mishaps' = mishaps /\ silent' = silent /\ misread' = misread
    BY <1>8 DEF countVars
  <2>2. TypeOK' /\ Asked' /\ Disturbed' /\ Tray' /\ Undone'
    BY <1>1, <1>3, <1>5, <1>7, <1>8, <2>1, TypedParts, WorkerKeeps
  <2>3. Whole'
    BY <1>1, <1>2, <1>8, <2>1, WholeOfObeyed
  <2> QED
    BY <2>2, <2>3 DEF AutoInv
<1>9. ASSUME late' = <<own>>, mishaps' \in Nat, mishaps' >= mishaps, mishaps' > 0,
             silent', silent' \in BOOLEAN, misread' \in BOOLEAN, misread => misread',
             NEW a \in Replies, Apply(a), a.kind = "silence" \/ misread'
      PROVE  AutoInv'
  <2>1. late'[1] = own
    BY <1>9
  <2>2. TypeOK' /\ Asked' /\ Disturbed' /\ Tray' /\ Undone'
    BY <1>1, <1>3, <1>5, <1>9, <2>1, TypedParts, WorkerKeeps
  <2>3. Whole'
    BY <1>1, <1>9, WholeOrDisturbed
  <2> QED
    BY <2>2, <2>3 DEF AutoInv
<1>10. CASE /\ late # <<>> /\ late' = <<own>> /\ Apply(late[1])
            /\ misread' = TRUE /\ UNCHANGED countVars
  BY <1>9, <1>10, TypedParts DEF countVars
<1>11. CASE late' = <<own>> /\ Silence /\ UNCHANGED misread
  <2>1. Answer("silence") \in Replies /\ Answer("silence").kind = "silence"
    BY DEF Answer, Replies
  <2>2. mishaps' = mishaps + 1 /\ silent' = TRUE /\ Apply(Answer("silence"))
    BY <1>11 DEF Silence, Mishap
  <2> QED
    BY <1>9, <1>11, <2>1, <2>2, TypedParts
<1> QED
  BY <1>2, <1>8, <1>10, <1>11

LEMMA CommandIsLostKeeps ==
  ASSUME AutoInv, CommandIsLost
  PROVE  AutoInv'
<1> DEFINE a == Answer("silence")
<1>1. /\ waiting = "reply" /\ plan' = plan /\ connected' = connected /\ late' = <<>>
      /\ UNCHANGED <<engineVars, playerVars, saidResting, ejected, misread>>
      /\ mishaps' = mishaps + 1 /\ silent' = TRUE /\ Apply(a)
  BY DEF CommandIsLost, Silence, Mishap
<1>2. a \in Replies /\ a.kind = "silence"
  BY DEF Answer, Replies
<1> HIDE DEF a
<1>3. UNCHANGED engineVars /\ disc' = disc /\ at' = at /\ sticks' = sticks /\ panelLocked' = panelLocked
  BY <1>1 DEF playerVars
<1>4. ~Turning(disc)' \/ disc' = "settingUp" => at' = 0
  BY <1>3, TypedParts DEF Turning
<1>5. mishaps' \in Nat /\ mishaps' >= mishaps /\ mishaps' > 0
  BY <1>1, TypedParts
<1>6. TypeOK' /\ Asked' /\ Disturbed' /\ Tray' /\ Undone'
  BY <1>1, <1>2, <1>3, <1>4, <1>5, TypedParts, WorkerKeeps
<1>7. Whole'
  BY <1>1, <1>2, <1>5, WholeOrDisturbed
<1> QED
  BY <1>6, <1>7 DEF AutoInv

LEMMA LinkFailsKeeps ==
  ASSUME AutoInv, LinkFails
  PROVE  AutoInv'
<1> DEFINE a == Answer("linkFailed")
<1>1. /\ waiting = "reply" /\ plan' = plan /\ connected' = FALSE /\ late' = <<>>
      /\ UNCHANGED <<engineVars, misread>> /\ UNCHANGED silent
      /\ mishaps' = mishaps + 1 /\ Apply(a)
  BY DEF LinkFails, Mishap
<1>2. a \in Replies /\ Failed(a) /\ a.kind # "mode"
  BY DEF Answer, Replies, Failed
<1> HIDE DEF a
<1>3. Waited(seq)
  BY <1>1 DEF AutoInv, Asked, Waited
<1>4. /\ disc' \in Discs /\ at' \in 0 .. LastAddress + 1 /\ sticks' = sticks
      /\ ~Turning(disc)' \/ disc' = "settingUp" => at' = 0
      /\ panelLocked' \in BOOLEAN /\ saidResting' \in BOOLEAN /\ ejected' \in BOOLEAN
      /\ ~misread => ejected' = ejected
  <2>1. CASE \E own \in {Answer("ack"), Says} : Player(own)
    BY <1>1, <1>3, <2>1, PlayerGives, PlayerAtTray
  <2>2. CASE UNCHANGED <<playerVars, saidResting, ejected>>
    BY <2>2, TypedParts DEF playerVars, Turning
  <2> QED
    BY <2>1, <2>2 DEF LinkFails
<1>5. mishaps' \in Nat /\ mishaps' >= mishaps /\ mishaps' > 0
  BY <1>1, TypedParts
<1>6. TypeOK' /\ Asked' /\ Disturbed' /\ Tray' /\ Undone'
  BY <1>1, <1>2, <1>4, <1>5, TypedParts, WorkerKeeps
<1>7. Whole'
  BY <1>1, <1>2, <1>5, WholeOrDisturbed
<1> QED
  BY <1>6, <1>7 DEF AutoInv

LEMMA NotConnectedKeeps ==
  ASSUME AutoInv, NotConnected
  PROVE  AutoInv'
<1> DEFINE a == Answer("notConnected")
<1>1. /\ waiting = "reply" /\ ~connected /\ plan' = plan /\ Apply(a)
      /\ UNCHANGED <<sessionVars, playerVars, countVars, saidResting, ejected, misread>>
      /\ UNCHANGED engineVars
  BY DEF NotConnected
<1>2. a \in Replies /\ Failed(a) /\ a.kind # "mode"
  BY DEF Answer, Replies, Failed
<1> HIDE DEF a
<1>3. /\ disc' = disc /\ at' = at /\ sticks' = sticks /\ panelLocked' = panelLocked
      /\ connected' = connected /\ late' = late /\ mishaps' = mishaps /\ silent' = silent
      /\ saidResting' = saidResting /\ ejected' = ejected /\ misread' = misread
  BY <1>1 DEF playerVars, sessionVars, countVars
<1>4. ~Turning(disc)' \/ disc' = "settingUp" => at' = 0
  BY <1>3, TypedParts DEF Turning
<1>5. mishaps' \in Nat /\ mishaps' >= mishaps /\ mishaps' > 0
  BY <1>1, <1>3, TypedParts
<1>6. late' # <<>> => late' = <<late'[1]>> /\ late'[1] \in Replies
  BY <1>3, TypedParts
<1>7. TypeOK' /\ Asked' /\ Disturbed' /\ Tray' /\ Undone'
  BY <1>1, <1>2, <1>3, <1>4, <1>5, <1>6, TypedParts, WorkerKeeps
<1>8. Whole'
  BY <1>1, <1>2, <1>5, WholeOrDisturbed
<1> QED
  BY <1>7, <1>8 DEF AutoInv

\* Whatever a run waits for, its sequence stands still meanwhile
LEMMA SequenceStands ==
  ASSUME AutoInv, UNCHANGED <<plan, seq, waiting>>, UNCHANGED history
  PROVE  Asked' /\ Tray'
<1>1. HeadApplies(seq, seq.stage)' <=> HeadApplies(seq, seq.stage)
  BY DEF HeadApplies
<1> QED
  BY <1>1, SamePlan DEF AutoInv, Asked, Tray, history

LEMMA ReconnectKeeps ==
  ASSUME AutoInv, Reconnect
  PROVE  AutoInv'
<1>1. /\ connected' = TRUE
      /\ UNCHANGED <<plan, seq, waiting, late, playerVars, engineVars, countVars, history>>
  BY DEF Reconnect
<1>2. TypeOK'
  BY <1>1 DEF AutoInv, TypeOK, playerVars, engineVars, countVars, history, Programme
<1>3. Asked' /\ Tray'
  BY <1>1, SequenceStands
<1>4. Disturbed'
  BY <1>1 DEF AutoInv, Disturbed, playerVars, countVars, history, Turning
<1>5. Undone'
  BY <1>1, SamePlan DEF AutoInv, Undone, playerVars, engineVars, countVars
<1>6. Whole'
  BY <1>1, SamePlan DEF AutoInv, Whole, Undisturbed, playerVars, engineVars, countVars, history, Turning,
                        Programme
<1> QED
  BY <1>2, <1>3, <1>4, <1>5, <1>6 DEF AutoInv

\* The poll may stop a capture outside a run, and nothing else
LEMMA PollKeeps ==
  ASSUME AutoInv, Poll
  PROVE  AutoInv'
<1>1. /\ waiting = "over" /\ UNCHANGED <<plan, seq, waiting, connected, late, held, playerVars, history>>
      /\ capturing' \in BOOLEAN /\ (capturing' => capturing)
      /\ mishaps' \in Nat /\ (mishaps > 0 => mishaps' > 0) /\ (mishaps' = 0 => mishaps = 0)
      /\ silent' = silent
  <2>1. mishaps \in Nat /\ capturing \in BOOLEAN
    BY TypedParts
  <2>2. waiting = "over" /\ UNCHANGED <<plan, seq, waiting, connected, late, held, playerVars, history>>
    BY DEF Poll
  <2>3. capturing' = capturing \/ capturing' = FALSE
    BY DEF Poll, Disarm
  <2>4. (mishaps' = mishaps \/ mishaps' = mishaps + 1) /\ silent' = silent
    BY DEF Poll, Mishap, countVars
  <2>5. capturing' \in BOOLEAN /\ (capturing' => capturing)
    <3>1. CASE capturing' = FALSE
      BY <3>1
    <3>2. CASE capturing' = capturing
      BY <2>1, <3>2
    <3> QED
      BY <2>3, <3>1, <3>2
  <2>6. mishaps' \in Nat /\ (mishaps > 0 => mishaps' > 0) /\ (mishaps' = 0 => mishaps = 0)
    BY <2>1, <2>4
  <2> QED
    BY <2>2, <2>4, <2>5, <2>6
<1>2. TypeOK'
  BY <1>1 DEF AutoInv, TypeOK, playerVars, history, Programme
<1>3. Asked' /\ Tray'
  BY <1>1, SequenceStands
<1>4. Disturbed'
  BY <1>1 DEF AutoInv, Disturbed, playerVars, history, Turning
<1>5. Undone'
  BY <1>1 DEF AutoInv, Undone, playerVars
<1>6. Whole'
  BY <1>1, SamePlan DEF AutoInv, Whole, Undisturbed, history, Programme
<1> QED
  BY <1>2, <1>3, <1>4, <1>5, <1>6 DEF AutoInv

\* What passes under the head while a file is open is held
LEMMA DiscTurnsKeeps ==
  ASSUME AutoInv, DiscTurns
  PROVE  AutoInv'
<1>1. PICK state \in Discs, address \in 0 .. LastAddress + 1 :
        /\ Moves(state, address)
        /\ Turning(disc)
        /\ \/ disc = "settingUp" /\ state = "playing" /\ address = 0
           \/ disc = "playing" /\ state = "playing" /\ address = at + 1
           \/ disc = "playing" /\ state = "parked" /\ address = 0
  BY TypedParts, AutoCaptureAssumption DEF DiscTurns, Turning, Discs
<1>2. /\ disc' = state /\ at' = address
      /\ held' = IF capturing /\ state = "playing" THEN held \cup ({address} \cap Programme) ELSE held
      /\ UNCHANGED <<plan, seq, waiting, sessionVars, sticks, panelLocked, capturing, history>>
      /\ UNCHANGED countVars
  BY <1>1 DEF Moves, DiscTurns
<1>3. TypeOK'
  <2>1. held' \subseteq Programme /\ Programme' = Programme
    BY <1>2 DEF AutoInv, TypeOK, Programme
  <2> QED
    BY <1>2, <2>1 DEF AutoInv, TypeOK, sessionVars, countVars, history
<1>4. Asked' /\ Tray'
  BY <1>2, SequenceStands
<1>5. Disturbed'
  BY <1>1, <1>2 DEF AutoInv, Disturbed, sessionVars, countVars, history, Turning
<1>6. Undone'
  BY <1>2, SamePlan DEF AutoInv, Undone, countVars
<1>7. Undisturbed' <=> Undisturbed
  BY <1>2, SamePlan DEF Undisturbed, countVars, history
<1>8. held \subseteq held'
  BY <1>2
<1>9. ASSUME capturing, Turning(disc) => (1 .. at) \cap Programme \subseteq held
      PROVE  Turning(disc)' => (1 .. at') \cap Programme \subseteq held'
  <2>1. at \in Nat
    BY TypedParts, AutoCaptureAssumption
  <2>2. \A n \in 1 .. at + 1 : n \in 1 .. at \/ n = at + 1
    BY <2>1
  <2> QED
    BY <1>1, <1>2, <1>9, <2>1, <2>2 DEF Turning
<1>10. Whole'
  <2>1. seq.stage \in {"lock", "confirm", "checkTransport"} /\ waiting # "over" => ~headObeyed
    BY DEF AutoInv, Whole
  <2>2. waiting = "over" /\ Undisturbed /\ seq.outcome = "completed" => Programme \subseteq held
    BY DEF AutoInv, Whole
  <2>3. waiting # "over" /\ Undisturbed =>
        /\ seq.stage = "spinDown" => seq.turning /\ "stop" \in Controls
        /\ seq.stage # "startCapture" \/ (~BeginsWithSpinUp /\ disc = "paused")
        /\ seq.stage \in {"spinUp", "watch", "checkStall"} =>
             capturing /\ (Turning(disc) => (1 .. at) \cap Programme \subseteq held)
        /\ seq.finishing /\ seq.pendingOutcome = "completed" => Programme \subseteq held
    BY <1>1 DEF AutoInv, Whole
  <2>4. disc # "paused"
    BY <1>1
  <2> QED
    BY <1>2, <1>7, <1>8, <1>9, <2>1, <2>2, <2>3, <2>4, SamePlan DEF Whole, history, Programme
<1> QED
  BY <1>3, <1>4, <1>5, <1>6, <1>10 DEF AutoInv

\* A person at the player, or a fault: a mishap, after which Whole asks for nothing
LEMMA HandKeeps ==
  ASSUME AutoInv, Hand
  PROVE  AutoInv'
<1>1. /\ mishaps' = mishaps + 1 /\ silent' = silent
      /\ UNCHANGED <<plan, seq, waiting, sessionVars, panelLocked, history>>
  BY DEF Hand, Mishap, Moves, playerVars
<1>2. /\ disc' \in Discs /\ at' \in 0 .. LastAddress + 1 /\ sticks' \in BOOLEAN
      /\ held' = held /\ capturing' \in BOOLEAN /\ (capturing' => capturing)
      /\ ~Turning(disc)' \/ disc' = "settingUp" => at' = 0
  <2>1. disc \in Discs /\ at \in 0 .. LastAddress + 1 /\ sticks \in BOOLEAN /\ capturing \in BOOLEAN
        /\ (~Turning(disc) \/ disc = "settingUp" => at = 0) /\ 0 \in 0 .. LastAddress + 1
    BY TypedParts, AutoCaptureAssumption DEF AutoInv, TypeOK
  <2>2. CASE Moves("parked", 0)
    BY <2>1, <2>2 DEF Moves, Discs, Turning
  <2>3. CASE Moves("paused", at)
    BY <2>1, <2>3 DEF Moves, Discs, Turning
  <2>4. CASE /\ sticks' = TRUE
             /\ UNCHANGED <<plan, seq, waiting, sessionVars, disc, at, panelLocked, engineVars, history>>
    BY <2>1, <2>4 DEF engineVars, Turning
  <2>5. CASE capturing' = FALSE /\ UNCHANGED <<plan, seq, waiting, sessionVars, playerVars, held, history>>
    BY <2>1, <2>5 DEF playerVars, Turning
  <2> QED
    BY <2>2, <2>3, <2>4, <2>5 DEF Hand
<1>3. mishaps' \in Nat /\ mishaps' > 0
  BY <1>1, TypedParts
<1>4. TypeOK'
  BY <1>1, <1>2, <1>3 DEF AutoInv, TypeOK, sessionVars, history, Programme
<1>5. Asked' /\ Tray'
  BY <1>1, SequenceStands
<1>6. Disturbed'
  BY <1>1, <1>2, <1>3 DEF AutoInv, Disturbed, sessionVars, history
<1>7. Undone'
  BY <1>1, <1>2, SamePlan DEF AutoInv, Undone
<1>8. Whole'
  BY <1>1, <1>3 DEF AutoInv, Whole, Undisturbed, history
<1> QED
  BY <1>4, <1>5, <1>6, <1>7, <1>8 DEF AutoInv

\* Every step keeps AutoInv
LEMMA RunHolds ==
  ASSUME AutoInv, [AutoNext]_autoVars
  PROVE  AutoInv'
<1>1. ASSUME UNCHANGED autoVars PROVE AutoInv'
  <2>1. /\ UNCHANGED <<plan, seq, waiting>> /\ UNCHANGED history
        /\ UNCHANGED <<sessionVars, playerVars, engineVars, countVars>>
    BY <1>1 DEF autoVars
  <2>2. Asked' /\ Tray'
    BY <2>1, SequenceStands
  <2>3. TypeOK' /\ Disturbed'
    BY <2>1 DEF AutoInv, TypeOK, Disturbed, Turning, Programme,
                sessionVars, playerVars, engineVars, countVars, history
  <2>4. Undone'
    BY <2>1, SamePlan DEF AutoInv, Undone, playerVars, engineVars, countVars
  <2>5. Whole'
    BY <2>1, SamePlan DEF AutoInv, Whole, Undisturbed, Turning, Programme,
                          playerVars, engineVars, countVars, history
  <2> QED
    BY <2>2, <2>3, <2>4, <2>5 DEF AutoInv
<1> QED
  BY <1>1, SendKeeps, StartCaptureKeeps, StopCaptureKeeps, FinishRunKeeps, CancelKeeps, ExecuteKeeps,
     CommandIsLostKeeps, LinkFailsKeeps, NotConnectedKeeps, ReconnectKeeps, PollKeeps, DiscTurnsKeeps,
     HandKeeps DEF AutoNext, Controller, Worker

\* AutoInv gives the three properties
LEMMA WhatARunLeaves ==
  ASSUME AutoInv
  PROVE  RunUndoesItself /\ TrayStaysShut /\ CompletedIsWhole
<1>1. RunUndoesItself
  BY DEF AutoInv, Undone, RunUndoesItself
<1>2. TrayStaysShut
  BY DEF AutoInv, Tray, TrayStaysShut
<1>3. CompletedIsWhole
  <2> SUFFICES ASSUME seq.outcome = "completed", mishaps = 0, BeginsWithSpinUp => headObeyed
               PROVE  plan.start_address .. LastAddress \subseteq held
    BY DEF CompletedIsWhole
  <2>1. plan.start_address = 1
    BY DEF AutoInv, TypeOK, Plans
  <2>2. Undisturbed
    BY DEF Undisturbed
  <2>3. CASE waiting = "over"
    BY <2>1, <2>2, <2>3 DEF AutoInv, Whole, Programme
  <2>4. CASE waiting # "over"
    <3>1. SeqInv(seq)
      BY <2>4 DEF AutoInv, Asked
    <3>2. seq.finishing /\ seq.pendingOutcome = "completed"
      BY <3>1 DEF SeqInv, HeadSet, SpinUpHead, SeekHead
    <3> QED
      BY <2>1, <2>2, <2>4, <3>2 DEF AutoInv, Whole, Programme
  <2> QED
    BY <2>3, <2>4
<1> QED
  BY <1>1, <1>2, <1>3

\* Whatever ends a run, and whatever failed on the way, no capture outlives it but
\* the one a dead link was not to cost, and no locked front panel but where the
\* link died or an answer was not given in time (auto_capture_sequence.cpp:206).
THEOREM RunsAlwaysUndone == AutoSpec => []RunUndoesItself
<1> QED
  BY AutoStarts, RunHolds, WhatARunLeaves, PTL DEF AutoSpec

\* No stop opens the tray of a player that has said that its disc rests, but by an
\* answer that is read as that of a later question (auto_capture_sequence.cpp:232).
THEOREM TrayAlwaysShut == AutoSpec => []TrayStaysShut
<1> QED
  BY AutoStarts, RunHolds, WhatARunLeaves, PTL DEF AutoSpec

\* What an undisturbed run reports as completed, it holds, for a programme of any
\* length and whatever the model of player can be asked
\* (auto_capture_sequence.cpp:296, :547).
THEOREM CompletedAlwaysWhole == AutoSpec => []CompletedIsWhole
<1> QED
  BY AutoStarts, RunHolds, WhatARunLeaves, PTL DEF AutoSpec
=============================================================================
