------------------------------ MODULE SinkChange ------------------------------
(***************************************************************************)
(* Recording while monitoring: the GUI's capture controller                *)
(* (ddd-gui/src/gui/capture_controller.cpp) attaches and detaches sinks on *)
(* a running pipeline, whose processing thread swaps them between buffers  *)
(* (PerformPendingSinkChange), and a 20 Hz tick collects what was closed.  *)
(* The two share four atomics and no lock, and a run may end at any time.  *)
(* CapturePipeline models what ends a run; here it simply may end.         *)
(***************************************************************************)
EXTENDS Integers, FiniteSets

CONSTANTS
    MaxCaptures,    \* bound: files opened over the whole session
    MaxRuns,        \* bound: times monitoring is started
    MaxWritten,     \* bound: the counts of a file's buffers stop here
    DurationLimit   \* settings_.duration_limit_seconds, in buffers; 0 is none

ASSUME BoundsAssumption ==
    /\ MaxCaptures \in Nat \ {0} /\ MaxRuns \in Nat \ {0} /\ MaxWritten \in Nat \ {0}
    /\ DurationLimit \in 0 .. MaxWritten

\* Sinks: the files, by the order they are opened in; a NullSink; a null pointer
Captures == 1 .. MaxCaptures
Null == 0
NoSink == -1
Sinks == Captures \cup {Null, NoSink}

VARIABLES
    running, runs,                              \* the pipeline
    pending_sink, pending_detach, sink_change_requests,     \* requests, shared
    sink_change_count, retired_sink, published,             \* answers, shared
    wPc, sink, incoming, requests_seen, span,   \* the processing thread
    gPc, monitoring, capturing, capture_path,
    pending_sink_change, stats,                 \* the controller
    file, written,                              \* the files themselves
    reports,                                    \* every CaptureFinished
    impatient       \* history: a capture was started before the last was reported

requestVars == <<pending_sink, pending_detach, sink_change_requests>>
answerVars  == <<sink_change_count, retired_sink, published>>
workerVars  == <<wPc, sink, incoming, requests_seen, span>>
guiVars     == <<gPc, monitoring, capturing, capture_path, pending_sink_change, stats>>

vars == <<running, runs, requestVars, answerVars, workerVars, guiVars, file,
          written, reports, impatient>>

\* What a sink has taken, and what the metrics measured in its span
Figures(s, taken, measured) ==
    [sink |-> s, samples |-> IF s \in Captures THEN taken[s] ELSE 0, span |-> measured]

NoStats == [sink |-> NoSink, samples |-> 0, span |-> 0]

Finished(files, s) ==
    IF s \in Captures THEN [files EXCEPT ![s] = "finished"] ELSE files

\* Destroying a sink closes its file, with nothing in it
Deleted(files, s) ==
    IF s \in Captures THEN [files EXCEPT ![s] = "deleted"] ELSE files

Init ==
    /\ running = FALSE /\ runs = 0
    /\ pending_sink = NoSink /\ pending_detach = FALSE /\ sink_change_requests = 0
    /\ sink_change_count = 0 /\ retired_sink = NoSink /\ published = NoStats
    /\ wPc = "stopped" /\ sink = NoSink /\ incoming = NoSink
    /\ requests_seen = 0 /\ span = 0
    /\ gPc = "idle" /\ monitoring = FALSE /\ capturing = FALSE
    /\ capture_path = NoSink /\ pending_sink_change = 0 /\ stats = NoStats
    /\ file = [s \in Captures |-> "none"] /\ written = [s \in Captures |-> 0]
    /\ reports = {} /\ impatient = FALSE

-----------------------------------------------------------------------------
(* The controller, on the GUI thread *)

\* Start clears the last run's requests and counts; what it sets
\* pending_sink_ over is not destroyed, and retired_sink_ stays
StartMonitoring ==
    /\ gPc = "idle" /\ ~monitoring /\ ~running /\ runs < MaxRuns
    /\ runs' = runs + 1
    /\ running' = TRUE /\ monitoring' = TRUE
    /\ pending_sink' = NoSink /\ pending_detach' = FALSE
    /\ sink_change_requests' = 0 /\ sink_change_count' = 0
    /\ sink' = Null /\ wPc' = "top" /\ incoming' = NoSink
    /\ requests_seen' = 0 /\ span' = 0
    /\ UNCHANGED <<retired_sink, published, gPc, capturing, capture_path,
                   pending_sink_change, stats, file, written, reports, impatient>>

GuiFrame == UNCHANGED <<running, runs, sink_change_count, published, workerVars,
                        written, impatient>>

\* StartCapture opens the file, then AttachSink: an exchange, a store, an add
StartCapture ==
    /\ gPc = "idle" /\ monitoring /\ ~capturing
    /\ \E s \in Captures :
         /\ file[s] = "none" /\ \A t \in Captures : t < s => file[t] # "none"
         /\ capture_path' = s
         /\ file' = [Deleted(file, pending_sink) EXCEPT ![s] = "open"]
         /\ pending_sink' = s
    /\ gPc' = "attach"
    /\ UNCHANGED <<pending_detach, sink_change_requests, retired_sink, monitoring,
                   capturing, pending_sink_change, stats, reports>>
    /\ impatient' = (impatient \/ pending_sink_change # 0)
    /\ UNCHANGED <<running, runs, sink_change_count, published, workerVars, written>>

AttachClearsDetach ==
    /\ gPc = "attach"
    /\ pending_detach' = FALSE
    /\ gPc' = "attachCount"
    /\ UNCHANGED <<pending_sink, sink_change_requests, retired_sink, monitoring,
                   capturing, capture_path, pending_sink_change, stats, file, reports>>
    /\ GuiFrame

AttachCounts ==
    /\ gPc = "attachCount"
    /\ sink_change_requests' = sink_change_requests + 1
    /\ capturing' = TRUE
    /\ gPc' = "idle"
    /\ UNCHANGED <<pending_sink, pending_detach, retired_sink, monitoring,
                   capture_path, pending_sink_change, stats, file, reports>>
    /\ GuiFrame

\* Mutant: the superseded sink is dropped, not destroyed
DetachLeaks ==
    /\ (gPc = "idle" /\ capturing) \/ gPc = "limit"
    /\ pending_sink' = NoSink
    /\ gPc' = "detach"
    /\ UNCHANGED <<pending_detach, sink_change_requests, retired_sink, monitoring,
                   capturing, capture_path, pending_sink_change, stats, file, reports>>
    /\ GuiFrame

\* StopCapture, by the user or by the tick: DetachSink, again in three steps
StopCapture ==
    /\ (gPc = "idle" /\ capturing) \/ gPc = "limit"
    /\ file' = Deleted(file, pending_sink)
    /\ pending_sink' = NoSink
    /\ gPc' = "detach"
    /\ UNCHANGED <<pending_detach, sink_change_requests, retired_sink, monitoring,
                   capturing, capture_path, pending_sink_change, stats, reports>>
    /\ GuiFrame

DetachSetsFlag ==
    /\ gPc = "detach"
    /\ pending_detach' = TRUE
    /\ gPc' = "detachCount"
    /\ UNCHANGED <<pending_sink, sink_change_requests, retired_sink, monitoring,
                   capturing, capture_path, pending_sink_change, stats, file, reports>>
    /\ GuiFrame

DetachCounts ==
    /\ gPc = "detachCount"
    /\ sink_change_requests' = sink_change_requests + 1
    /\ pending_sink_change' = sink_change_requests + 1
    /\ capturing' = FALSE
    /\ gPc' = IF stats = NoStats THEN "idle" ELSE "collect"
    /\ UNCHANGED <<pending_sink, pending_detach, retired_sink, monitoring,
                   capture_path, stats, file, reports>>
    /\ GuiFrame

\* Tick reads the statistics once, and CheckDurationLimit goes by them
Tick ==
    /\ gPc = "idle" /\ monitoring
    /\ stats' = published
    /\ gPc' = IF capturing /\ DurationLimit > 0 /\ published.samples >= DurationLimit
              THEN "limit" ELSE "collect"
    /\ UNCHANGED <<requestVars, retired_sink, monitoring, capturing, capture_path,
                   pending_sink_change, file, reports>>
    /\ GuiFrame

CollectFinishedCapture ==
    /\ gPc = "collect"
    /\ IF pending_sink_change = 0 \/ sink_change_count < pending_sink_change
       THEN gPc' = "check" /\ UNCHANGED pending_sink_change
       ELSE gPc' = "take" /\ pending_sink_change' = 0
    /\ UNCHANGED <<requestVars, retired_sink, monitoring, capturing, capture_path,
                   stats, file, reports>>
    /\ GuiFrame

\* What FinishCaptureFile says: the path, and the figures of the sink behind it
Report(how, figures) == [how |-> how, path |-> capture_path, figures |-> figures]

TakeRetiredSink ==
    /\ gPc = "take"
    /\ reports' = reports \cup {Report("collected", Figures(retired_sink, written, stats.span))}
    /\ retired_sink' = NoSink
    /\ gPc' = "check"
    /\ UNCHANGED <<requestVars, monitoring, capturing, capture_path,
                   pending_sink_change, stats, file>>
    /\ GuiFrame

TickEnds ==
    /\ gPc = "check" /\ running
    /\ gPc' = "idle" /\ stats' = NoStats
    /\ UNCHANGED <<requestVars, retired_sink, monitoring, capturing, capture_path,
                   pending_sink_change, file, reports>>
    /\ GuiFrame

\* The pipeline has stopped: nothing of it runs any more
FinishRun ==
    /\ gPc = "check" /\ ~running
    /\ gPc' = "idle" /\ stats' = NoStats
    /\ monitoring' = FALSE /\ capturing' = FALSE /\ pending_sink_change' = 0
    /\ reports' = IF capturing
                  THEN reports \cup {Report("run ended", published)}
                  ELSE reports
    /\ UNCHANGED <<requestVars, retired_sink, capture_path, file>>
    /\ GuiFrame

Call == AttachClearsDetach \/ AttachCounts \/ DetachSetsFlag \/ DetachCounts
        \/ (gPc = "limit" /\ StopCapture)
        \/ CollectFinishedCapture \/ TakeRetiredSink \/ TickEnds \/ FinishRun

Controller == StartMonitoring \/ StartCapture \/ (gPc = "idle" /\ StopCapture) \/ Tick
              \/ Call

-----------------------------------------------------------------------------
(* The processing thread, and the control thread once it has ended *)

WorkerFrame == UNCHANGED <<runs, guiVars, sink_change_requests, reports, impatient>>

\* PerformPendingSinkChange: the requests are counted before they are looked at
LoadRequests ==
    /\ wPc = "top"
    /\ requests_seen' = sink_change_requests
    /\ wPc' = "takeSink"
    /\ UNCHANGED <<running, pending_sink, pending_detach, answerVars, sink, incoming,
                   span, file, written>>
    /\ WorkerFrame

TakePendingSink ==
    /\ wPc = "takeSink"
    /\ incoming' = pending_sink
    /\ pending_sink' = NoSink
    /\ wPc' = "takeDetach"
    /\ UNCHANGED <<running, pending_detach, answerVars, sink, requests_seen, span,
                   file, written>>
    /\ WorkerFrame

\* Mutant: only a detach makes a change of sink
TakeDetachOnly ==
    /\ wPc = "takeDetach"
    /\ pending_detach' = FALSE
    /\ IF ~pending_detach
       THEN wPc' = "wait" /\ UNCHANGED incoming
       ELSE wPc' = "retire" /\ incoming' = IF incoming = NoSink THEN Null ELSE incoming
    /\ UNCHANGED <<running, pending_sink, answerVars, sink, requests_seen, span, file,
                   written>>
    /\ WorkerFrame

TakePendingDetach ==
    /\ wPc = "takeDetach"
    /\ pending_detach' = FALSE
    /\ IF incoming = NoSink /\ ~pending_detach
       THEN wPc' = "wait" /\ UNCHANGED incoming
       ELSE wPc' = "retire" /\ incoming' = IF incoming = NoSink THEN Null ELSE incoming
    /\ UNCHANGED <<running, pending_sink, answerVars, sink, requests_seen, span, file,
                   written>>
    /\ WorkerFrame

\* A Finish that fails latches a result besides, and so ends the run, which may end here
\* at any time; the sink is retired and counted all the same
RetireSink ==
    /\ wPc = "retire"
    /\ file' = Finished(file, sink)
    /\ retired_sink' = sink
    /\ sink' = NoSink
    /\ wPc' = "install"
    /\ UNCHANGED <<running, pending_sink, pending_detach, sink_change_count,
                   published, incoming, requests_seen, span, written>>
    /\ WorkerFrame

\* Mutant: the count claims every request made by now
InstallAndCountLate ==
    /\ wPc = "install"
    /\ sink' = incoming /\ incoming' = NoSink
    /\ span' = IF incoming \in Captures THEN 0 ELSE span
    /\ sink_change_count' = sink_change_requests
    /\ wPc' = "wait"
    /\ UNCHANGED <<running, pending_sink, pending_detach, retired_sink, published,
                   requests_seen, file, written>>
    /\ WorkerFrame

\* A file opens a span of the metrics, which its closing ends
InstallSink ==
    /\ wPc = "install"
    /\ sink' = incoming /\ incoming' = NoSink
    /\ span' = IF incoming \in Captures THEN 0 ELSE span
    /\ sink_change_count' = requests_seen
    /\ wPc' = "wait"
    /\ UNCHANGED <<running, pending_sink, pending_detach, retired_sink, published,
                   requests_seen, file, written>>
    /\ WorkerFrame

Grown(count) == IF count < MaxWritten THEN count + 1 ELSE count

\* A buffer is measured, written and published
ProcessBuffer ==
    /\ wPc = "wait"
    /\ IF sink \in Captures
       THEN /\ span' = Grown(span)
            /\ written' = [written EXCEPT ![sink] = Grown(@)]
       ELSE UNCHANGED <<span, written>>
    /\ published' = Figures(sink, written', span')
    /\ wPc' = "top"
    /\ UNCHANGED <<running, pending_sink, pending_detach, sink_change_count,
                   retired_sink, sink, incoming, requests_seen, file>>
    /\ WorkerFrame

\* The run ends: at the top when aborted, at the wait when nothing more is
\* coming or a buffer is refused, which may be after it was measured
WorkerLeaves ==
    /\ wPc \in {"top", "wait"}
    /\ wPc' = "leaving"
    /\ span' \in IF sink \in Captures /\ wPc = "wait" THEN {span, Grown(span)} ELSE {span}
    /\ UNCHANGED <<running, pending_sink, pending_detach, answerVars, sink, incoming,
                   requests_seen, file, written>>
    /\ WorkerFrame

Publish == published' = Figures(sink, written, span)

\* The last publication of the processing thread
WorkerPublishes ==
    /\ wPc = "leaving"
    /\ Publish
    /\ wPc' = "done"
    /\ UNCHANGED <<running, pending_sink, pending_detach, sink_change_count,
                   retired_sink, sink, incoming, requests_seen, span, file, written>>
    /\ WorkerFrame

\* The control thread has joined both workers: it finishes the sink
CloseSink ==
    /\ wPc = "done"
    /\ file' = Finished(file, sink)
    /\ Publish
    /\ wPc' = "closed"
    /\ UNCHANGED <<running, pending_sink, pending_detach, sink_change_count,
                   retired_sink, sink, incoming, requests_seen, span, written>>
    /\ WorkerFrame

RunStops ==
    /\ wPc = "closed"
    /\ running' = FALSE
    /\ wPc' = "stopped"
    /\ UNCHANGED <<pending_sink, pending_detach, answerVars, sink, incoming,
                   requests_seen, span, file, written>>
    /\ WorkerFrame

Pipeline == LoadRequests \/ TakePendingSink \/ TakePendingDetach \/ RetireSink
            \/ InstallSink \/ ProcessBuffer \/ WorkerLeaves \/ WorkerPublishes
            \/ CloseSink \/ RunStops

SessionOver == ~monitoring /\ ~running /\ runs = MaxRuns /\ UNCHANGED vars

Next == Controller \/ Pipeline \/ SessionOver

(***************************************************************************)
(* The pipeline's threads run, a call the event loop has entered is        *)
(* finished, and the statistics timer keeps ticking. What the user does,   *)
(* and whether the run ends, is not promised.                              *)
(***************************************************************************)
Fairness ==
    /\ WF_vars(Pipeline)
    /\ WF_vars(Call)
    /\ WF_vars(Tick)

Spec == Init /\ [][Next]_vars
FairSpec == Spec /\ Fairness

-----------------------------------------------------------------------------
(* What recording from a running stream promises *)

TypeOK ==
    /\ {running, monitoring, capturing, pending_detach} \subseteq BOOLEAN
    /\ runs \in 0 .. MaxRuns
    /\ {pending_sink, retired_sink, sink, incoming, capture_path} \subseteq Sinks
    /\ {sink_change_requests, sink_change_count, requests_seen, pending_sink_change}
         \subseteq 0 .. 2 * MaxCaptures
    /\ wPc \in {"top", "takeSink", "takeDetach", "retire", "install", "wait",
                "leaving", "done", "closed", "stopped"}
    /\ gPc \in {"idle", "attach", "attachCount", "limit", "detach", "detachCount",
                "collect", "take", "check"}
    /\ file \in [Captures -> {"none", "open", "finished", "deleted"}]
    /\ written \in [Captures -> 0 .. MaxWritten] /\ span \in 0 .. MaxWritten

Holders(s) == {p \in {<<"pending", pending_sink>>, <<"incoming", incoming>>,
                      <<"attached", sink>>, <<"retired", retired_sink>>} : p[2] = s}

(***************************************************************************)
(* A raw pointer crosses the atomic, so ownership is a convention: a sink  *)
(* is in at most one place at a time, and one that was destroyed is in     *)
(* none (capture_pipeline.cpp:230-254, 435-489).                           *)
(***************************************************************************)
OwnedOnce ==
    \A s \in Captures :
        /\ Cardinality(Holders(s)) <= 1
        /\ file[s] \in {"none", "deleted"} => Holders(s) = {}

(***************************************************************************)
(* Finish comes after the last Write: the sink the next buffer will go to  *)
(* is open, one that was retired is finished, and a file that a swap       *)
(* closed never grows again.                                               *)
(***************************************************************************)
NoWriteAfterFinish ==
    /\ wPc = "wait" => sink = Null \/ (sink \in Captures /\ file[sink] = "open")
    /\ retired_sink \in Captures => file[retired_sink] = "finished"

(***************************************************************************)
(* An open file is let go of only by closing it, so whatever order the     *)
(* requests, the swaps and the end of the run fall in no recording is left *)
(* without its header: except that a new run drops an attach which the     *)
(* last one never got to (capture_pipeline.cpp:119).                       *)
(***************************************************************************)
NoOpenFileIsDropped ==
    [][\A s \in Captures :
         file[s] = "open" /\ file'[s] = "open" /\ Holders(s) # {} /\ runs' = runs
         => Holders(s)' # {}]_vars

(***************************************************************************)
(* When the pipeline has stopped, every file the processing thread ever    *)
(* took is closed, however the run ended (capture_controller.cpp:916-918). *)
(***************************************************************************)
TakenFilesAreClosed ==
    ~running => \A s \in Captures : file[s] = "open" =>
                    /\ written[s] = 0
                    /\ Holders(s) \subseteq {<<"pending", s>>}

Collected == {r \in reports : r.how = "collected"}

(***************************************************************************)
(* A file is reported when it is closed, under its own name and with what  *)
(* it holds; one that was stopped before the stream reached it is reported *)
(* empty. The count of changes is what keeps a request that came in the    *)
(* middle of a swap from being taken for done (capture_pipeline.cpp:436).  *)
(* For a user who waits for each report: see ReportNamesItsFile.           *)
(***************************************************************************)
ReportMatchesFile ==
    ~impatient => \A r \in Collected :
        \/ /\ r.figures.sink = r.path /\ file[r.path] = "finished"
           /\ r.figures.samples = written[r.path]
        \/ file[r.path] = "deleted" /\ r.figures.sink = Null

(***************************************************************************)
(* An attach is picked up, unless it is withdrawn or the run ends first,   *)
(* and the end of a run is noticed by the controller.                      *)
(***************************************************************************)
AttachIsApplied ==
    \A s \in Captures : pending_sink = s ~> sink = s \/ file[s] = "deleted" \/ ~running
RunEndIsNoticed == ~running ~> ~monitoring

(***************************************************************************)
(* What every state keeps: one owner for each sink, no write to a closed   *)
(* one, every one that was taken closed at the end, and every one that was *)
(* reported as it is.                                                      *)
(***************************************************************************)
SinksAreSafe ==
    /\ TypeOK /\ OwnedOnce /\ NoWriteAfterFinish /\ TakenFilesAreClosed
    /\ ReportMatchesFile

-----------------------------------------------------------------------------
(* What the sources say and the code does not do: each of these has a      *)
(* counterexample, described in the README under "Divergences".            *)

(***************************************************************************)
(* "Detach the writer and finalise the file" (capture_controller.h:181):   *)
(* a capture that was stopped does not stay attached to the stream.        *)
(***************************************************************************)
StoppedMeansDetached ==
    ~capturing /\ gPc = "idle" /\ sink \in Captures
        ~> capturing \/ sink \notin Captures \/ ~running

(***************************************************************************)
(* A caller "can wait for SinkChangeCount() to reach" the number its       *)
(* request was given (capture_pipeline.h:157): with every request applied  *)
(* and none on its way, the count has reached the last one.                *)
(***************************************************************************)
CountCatchesUp ==
    wPc = "wait" /\ gPc = "idle" /\ pending_sink = NoSink /\ ~pending_detach
    /\ requests_seen = sink_change_requests
        => sink_change_count = sink_change_requests

(***************************************************************************)
(* "A capture finished and its file is closed" (capture_controller.h:208): *)
(* the path reported is the path of the sink that finished.                *)
(***************************************************************************)
ReportNamesItsFile ==
    \A r \in Collected : r.figures.sink \in Captures => r.figures.sink = r.path

(***************************************************************************)
(* Every capture that was finished is reported: once monitoring is over,   *)
(* each finished file has its CaptureFinished, and so its sidecar.         *)
(***************************************************************************)
EveryFileIsReported ==
    ~monitoring => \A s \in Captures :
                       file[s] = "finished" => \E r \in reports : r.path = s

(***************************************************************************)
(* "the file on disk is closed and readable" (capture_controller.cpp:918)  *)
(* by the time a run's end reports it.                                     *)
(***************************************************************************)
ReportedFilesAreClosed == \A r \in reports : file[r.path] # "open"

(***************************************************************************)
(* "the span this opens and closes holds exactly the samples that reached  *)
(* the file" (capture_pipeline.cpp:491): the sidecar's signal figures are  *)
(* of the whole file.                                                      *)
(***************************************************************************)
SidecarMeasuresFile ==
    \A r \in Collected : r.figures.sink \in Captures => r.figures.span = r.figures.samples

(***************************************************************************)
(* samples_written "counts what reached the file"                          *)
(* (capture_controller.cpp:827): a capture that its duration limit stops   *)
(* is as long as the limit.                                                *)
(***************************************************************************)
LimitStopsAtLimit == gPc = "limit" => written[capture_path] >= DurationLimit
=============================================================================
