------------------------------- MODULE SinkProofs -------------------------------
(***************************************************************************)
(* The theorems of SinkChange, for every number of files, runs and buffers *)
(* and every duration limit: who owns a sink, what happens to its file,    *)
(* and what a user who waits for each report is told of it.                *)
(***************************************************************************)
EXTENDS SinkChange, FiniteSetTheorems, TLAPS

(***************************************************************************)
(* Where the sinks are. A swap holds one in its hands from TakePendingSink *)
(* to InstallSink, and none is attached only in the middle of one.         *)
(***************************************************************************)
Swapping == wPc \in {"retire", "install"}

Shape ==
    /\ running <=> wPc # "stopped"
    /\ incoming # NoSink => wPc = "takeDetach" \/ Swapping
    /\ Swapping => incoming # NoSink
    /\ sink = NoSink <=> wPc = "install" \/ runs = 0
    /\ runs = 0 => wPc = "stopped"
    /\ pending_sink # Null

\* Two places never hold the same file
Apart ==
    /\ pending_sink \in Captures => pending_sink \notin {incoming, sink, retired_sink}
    /\ incoming \in Captures => incoming \notin {sink, retired_sink}
    /\ sink \in Captures => sink # retired_sink

Live ==
    /\ pending_sink \in Captures => file[pending_sink] = "open"
    /\ incoming \in Captures => file[incoming] = "open"
    /\ sink \in Captures =>
          file[sink] = IF wPc \in {"closed", "stopped"} THEN "finished" ELSE "open"
    /\ retired_sink \in Captures => file[retired_sink] = "finished"

\* Only the attached file is written to
Untouched ==
    \A s \in Captures : file[s] \in {"none", "open"} /\ s # sink => written[s] = 0

\* The files are opened in order, the last of them is the controller's
FilesInOrder ==
    /\ capture_path \in Captures \cup {NoSink}
    /\ \A s \in Captures : file[s] # "none" <=> s <= capture_path

Attaching == gPc \in {"attach", "attachCount"}

Stages ==
    /\ gPc \in {"limit", "detach", "detachCount"} => capturing
    /\ Attaching => ~ capturing
    /\ Attaching \/ capturing => capture_path \in Captures
    /\ ~ monitoring => gPc = "idle" /\ ~ capturing /\ pending_sink_change = 0

\* Two requests to a file
Requests ==
    /\ {sink_change_requests, sink_change_count, requests_seen, pending_sink_change} \subseteq Nat
    /\ sink_change_count <= sink_change_requests
    /\ requests_seen <= sink_change_requests
    /\ pending_sink_change <= sink_change_requests
    /\ sink_change_requests <= IF Attaching THEN 2 * (capture_path - 1)
                               ELSE IF capturing THEN 2 * capture_path - 1
                               ELSE IF capture_path = NoSink THEN 0 ELSE 2 * capture_path

SafeInv ==
    TypeOK /\ Shape /\ Apart /\ Live /\ Untouched /\ FilesInOrder /\ Stages /\ Requests

(***************************************************************************)
(* What a user who waits for each report can rely on: from the start of a  *)
(* capture to its report only its own file and the NullSink are about.     *)
(***************************************************************************)
AtRest == sink = Null /\ incoming = NoSink /\ ~ Swapping
IsDeleted == capture_path \in Captures /\ file[capture_path] = "deleted"

\* The stream has the file, or is about to
OnItsWay ==
    \/ /\ incoming = capture_path /\ (wPc = "takeDetach" \/ Swapping)
       /\ sink = IF wPc = "install" THEN NoSink ELSE Null
    \/ sink = capture_path /\ incoming = NoSink /\ ~ Swapping

\* The file that is to be reported, or the NullSink for one that never got there
Previous(s) == s = capture_path \/ (s = Null /\ IsDeleted)

Detaching ==
    /\ incoming = Null /\ ~ pending_detach
    /\ \/ wPc = "retire" /\ Previous(sink)
       \/ wPc = "install" /\ sink = NoSink /\ Previous(retired_sink)
Detached == AtRest /\ ~ pending_detach /\ Previous(retired_sink)

Recording == Attaching \/ (capturing /\ gPc \notin {"detach", "detachCount"})
Stopping  == gPc = "detach"
Stopped   == gPc = "detachCount" \/ pending_sink_change > 0

WhileRecording ==
    Recording =>
        /\ ~ pending_detach /\ pending_sink_change = 0
        /\ (pending_sink = capture_path /\ AtRest) \/ (pending_sink = NoSink /\ OnItsWay)

WhileStopping ==
    Stopping =>
        /\ ~ pending_detach /\ pending_sink_change = 0 /\ pending_sink = NoSink
        /\ (AtRest /\ IsDeleted) \/ OnItsWay

WhileStopped ==
    Stopped =>
        /\ pending_sink = NoSink
        /\ gPc = "detachCount" => pending_sink_change = 0
        /\ (AtRest /\ IsDeleted /\ pending_detach) \/ OnItsWay \/ Detaching \/ Detached
        /\ pending_sink_change > 0 /\ sink_change_count >= pending_sink_change => Detached
        /\ pending_sink_change > 0 /\ requests_seen >= pending_sink_change
           => incoming # capture_path

BetweenFiles ==
    ~ Recording /\ ~ Stopping /\ ~ Stopped =>
        /\ pending_sink = NoSink /\ ~ pending_detach /\ AtRest
        /\ gPc = "take" => Previous(retired_sink)

Courtesy ==
    monitoring /\ ~ impatient =>
        /\ gPc = "take" => pending_sink_change = 0 /\ ~ capturing
        /\ gPc = "take" \/ Recording \/ Stopping \/ Stopped => capture_path \in Captures
        /\ WhileRecording /\ WhileStopping /\ WhileStopped /\ BetweenFiles

ReportsAreTrue ==
    ~ impatient => \A r \in Collected :
        /\ r.path \in Captures
        /\ \/ /\ r.figures.sink = r.path /\ file[r.path] = "finished"
              /\ r.figures.samples = written[r.path]
           \/ file[r.path] = "deleted" /\ r.figures.sink = Null

SinkInv == SafeInv /\ impatient \in BOOLEAN /\ Courtesy /\ ReportsAreTrue


-----------------------------------------------------------------------------
LEMMA Names ==
    /\ Null \notin Captures /\ NoSink \notin Captures /\ Null # NoSink
    /\ \A s \in Captures : s \in Nat /\ s >= 1 /\ s <= MaxCaptures
    /\ Captures \subseteq Sinks /\ Null \in Sinks /\ NoSink \in Sinks
    /\ MaxCaptures \in Nat /\ MaxWritten \in Nat /\ NoSink = -1
  BY BoundsAssumption DEF Captures, Null, NoSink, Sinks

LEMMA Typed ==
    ASSUME TypeOK
    PROVE  /\ running \in BOOLEAN /\ monitoring \in BOOLEAN /\ capturing \in BOOLEAN
           /\ pending_detach \in BOOLEAN
           /\ runs \in 0 .. MaxRuns /\ runs \in Nat
           /\ pending_sink \in Captures \cup {Null, NoSink}
           /\ retired_sink \in Captures \cup {Null, NoSink}
           /\ sink \in Captures \cup {Null, NoSink}
           /\ incoming \in Captures \cup {Null, NoSink}
           /\ file \in [Captures -> {"none", "open", "finished", "deleted"}]
           /\ written \in [Captures -> 0 .. MaxWritten] /\ span \in 0 .. MaxWritten
           /\ wPc \in {"top", "takeSink", "takeDetach", "retire", "install", "wait",
                       "leaving", "done", "closed", "stopped"}
           /\ gPc \in {"idle", "attach", "attachCount", "limit", "detach", "detachCount",
                       "collect", "take", "check"}
  BY BoundsAssumption DEF TypeOK, Sinks

LEMMA SinksStart == Init => SinkInv
  <1> SUFFICES ASSUME Init PROVE SinkInv
    OBVIOUS
  <1> USE Names, BoundsAssumption DEF Init
  <1>1. TypeOK
    <2>1. 0 \in 0 .. 2 * MaxCaptures /\ 0 \in 0 .. MaxRuns /\ 0 \in 0 .. MaxWritten
      OBVIOUS
    <2> QED
      BY <2>1 DEF TypeOK
  <1>2. Shape /\ Apart /\ Live /\ Untouched
    BY DEF Shape, Swapping, Apart, Live, Untouched
  <1>3. FilesInOrder /\ Stages /\ Requests
    BY DEF FilesInOrder, Stages, Attaching, Requests
  <1>4. Courtesy /\ ReportsAreTrue
    BY DEF Courtesy, ReportsAreTrue, Collected
  <1> QED
    BY <1>1, <1>2, <1>3, <1>4 DEF SinkInv, SafeInv

LEMMA SinksUnmoved ==
    ASSUME SinkInv, UNCHANGED vars
    PROVE  SinkInv'
  <1> USE DEF vars, requestVars, answerVars, workerVars, guiVars
  <1>1. TypeOK' /\ Shape' /\ Apart' /\ Live' /\ Untouched'
    BY DEF SinkInv, SafeInv, TypeOK, Shape, Apart, Live, Untouched, Swapping
  <1>2. FilesInOrder' /\ Stages' /\ Requests'
    BY DEF SinkInv, SafeInv, FilesInOrder, Stages, Requests, Attaching
  <1>3. impatient' \in BOOLEAN /\ Courtesy' /\ ReportsAreTrue'
    BY DEF SinkInv, Courtesy, ReportsAreTrue, Collected, WhileRecording, WhileStopping, WhileStopped, BetweenFiles,
             Recording, Stopping, Stopped, AtRest, IsDeleted, OnItsWay, Previous,
             Detaching, Detached, Swapping, Attaching
  <1> QED
    BY <1>1, <1>2, <1>3 DEF SinkInv, SafeInv

-----------------------------------------------------------------------------
(* The steps of the controller *)

\* Where the sinks are, and what their files are
LEMMA SinksOfController ==
    ASSUME SafeInv, Controller
    PROVE  Shape' /\ Apart' /\ Live' /\ Untouched'
  <1>0. TypeOK /\ Shape /\ Apart /\ Live /\ Untouched
    BY DEF SafeInv, SinkInv
  <1> USE <1>0, Typed, Names
      DEF GuiFrame, workerVars, guiVars, requestVars, answerVars,
          Shape, Apart, Live, Untouched, Swapping
  <1>1. CASE StartMonitoring
    BY <1>1 DEF StartMonitoring
  <1>2. CASE StartCapture
    BY <1>2 DEF StartCapture, Deleted
  <1>3. CASE AttachClearsDetach
    BY <1>3 DEF AttachClearsDetach
  <1>4. CASE AttachCounts
    BY <1>4 DEF AttachCounts
  <1>5. CASE StopCapture
    BY <1>5 DEF StopCapture, Deleted
  <1>6. CASE DetachSetsFlag
    BY <1>6 DEF DetachSetsFlag
  <1>7. CASE DetachCounts
    BY <1>7 DEF DetachCounts
  <1>8. CASE Tick
    BY <1>8 DEF Tick
  <1>9. CASE CollectFinishedCapture
    BY <1>9 DEF CollectFinishedCapture
  <1>10. CASE TakeRetiredSink
    BY <1>10 DEF TakeRetiredSink, Report
  <1>11. CASE TickEnds
    BY <1>11 DEF TickEnds
  <1>12. CASE FinishRun
    BY <1>12 DEF FinishRun, Report
  <1> QED
    BY <1>1, <1>2, <1>3, <1>4, <1>5, <1>6, <1>7, <1>8, <1>9, <1>10, <1>11, <1>12 DEF Controller, Call

\* The numbers and the stages of the calls
LEMMA CountsOfController ==
    ASSUME SafeInv, Controller
    PROVE  FilesInOrder' /\ Stages' /\ Requests' /\ TypeOK'
  <1>0. TypeOK /\ Shape /\ Live /\ FilesInOrder /\ Stages /\ Requests
    BY DEF SafeInv, SinkInv
  <1> USE <1>0, Typed, Names
      DEF GuiFrame, workerVars, guiVars, requestVars, answerVars,
          Shape, Live, Attaching, FilesInOrder, Stages, Requests, TypeOK, Sinks
  <1>1. CASE StartMonitoring
    <2>1. runs' \in 0 .. MaxRuns /\ 0 \in 0 .. 2 * MaxCaptures /\ 0 \in 0 .. MaxWritten
      BY <1>1, BoundsAssumption DEF StartMonitoring
    <2>2. TypeOK'
      BY <1>1, <2>1 DEF StartMonitoring
    <2> QED
      BY <1>1, <2>2 DEF StartMonitoring
  <1>2. CASE StartCapture
    BY <1>2 DEF StartCapture, Deleted
  <1>3. CASE AttachClearsDetach
    BY <1>3 DEF AttachClearsDetach
  <1>4. CASE AttachCounts
    BY <1>4 DEF AttachCounts
  <1>5. CASE StopCapture
    BY <1>5 DEF StopCapture, Deleted
  <1>6. CASE DetachSetsFlag
    BY <1>6 DEF DetachSetsFlag
  <1>7. CASE DetachCounts
    <2>1. capture_path \in Captures /\ capturing /\ ~ Attaching
      BY <1>7 DEF DetachCounts
    <2>2. /\ sink_change_requests' = sink_change_requests + 1
          /\ sink_change_requests' <= 2 * capture_path
          /\ 2 * capture_path <= 2 * MaxCaptures
      BY <1>7, <2>1 DEF DetachCounts
    <2>3. FilesInOrder' /\ Stages' /\ Requests'
      BY <1>7, <2>1, <2>2 DEF DetachCounts
    <2>4. /\ sink_change_requests + 1 \in 0 .. 2 * MaxCaptures
          /\ sink_change_requests' = sink_change_requests + 1
          /\ pending_sink_change' = sink_change_requests + 1
      BY <1>7, <2>2 DEF DetachCounts
    <2>5. TypeOK'
      BY <1>7, <2>4 DEF DetachCounts
    <2> QED
      BY <2>3, <2>5
  <1>8. CASE Tick
    BY <1>8 DEF Tick
  <1>9. CASE CollectFinishedCapture
    BY <1>9 DEF CollectFinishedCapture
  <1>10. CASE TakeRetiredSink
    BY <1>10 DEF TakeRetiredSink, Report
  <1>11. CASE TickEnds
    BY <1>11 DEF TickEnds
  <1>12. CASE FinishRun
    <2>1. FilesInOrder' /\ Stages' /\ TypeOK'
      <3>1. FilesInOrder'
        BY <1>12 DEF FinishRun
      <3>2. Stages'
        BY <1>12 DEF FinishRun
      <3>3. 0 \in 0 .. 2 * MaxCaptures
        OBVIOUS
      <3>4. TypeOK'
        BY <1>12, <3>3 DEF FinishRun
      <3> QED
        BY <3>1, <3>2, <3>4
    <2>2. /\ gPc = "check" /\ gPc' = "idle" /\ ~ capturing' /\ pending_sink_change' = 0
          /\ capture_path' = capture_path /\ sink_change_requests' = sink_change_requests
          /\ sink_change_count' = sink_change_count /\ requests_seen' = requests_seen
      BY <1>12 DEF FinishRun
    <2> HIDE DEF TypeOK, Sinks, Shape, Live
    <2>3. capturing => capture_path \in Nat
      OBVIOUS
    <2>4. sink_change_requests <= IF capture_path = NoSink THEN 0 ELSE 2 * capture_path
      BY <2>2, <2>3
    <2>5. Requests'
      BY <2>2, <2>4
    <2> QED
      BY <2>1, <2>5
  <1> QED
    BY <1>1, <1>2, <1>3, <1>4, <1>5, <1>6, <1>7, <1>8, <1>9, <1>10, <1>11, <1>12 DEF Controller, Call

\* One file at a time
LEMMA CourtesyOfController ==
    ASSUME SinkInv, Controller
    PROVE  Courtesy'
  <1>0. /\ TypeOK /\ Shape /\ Apart /\ Live /\ Stages /\ Requests
        /\ impatient \in BOOLEAN /\ Courtesy
    BY DEF SafeInv, SinkInv
  <1> USE <1>0, Typed, Names
      DEF GuiFrame, workerVars, guiVars, requestVars, answerVars,
          Shape, Apart, Live, Stages, Requests, Courtesy,
          WhileRecording, WhileStopping, WhileStopped, BetweenFiles,
          Recording, Stopping, Stopped, AtRest, IsDeleted, OnItsWay, Previous,
          Detaching, Detached, Swapping, Attaching
  <1>1. CASE StartMonitoring
    BY <1>1 DEF StartMonitoring
  <1>2. CASE StartCapture
    <2>1. ASSUME monitoring', ~ impatient' PROVE Courtesy'
      <3>1. monitoring /\ ~ capturing /\ ~ impatient /\ pending_sink_change = 0 /\ gPc = "idle"
        BY <1>2, <2>1 DEF StartCapture
      <3>2. ~ pending_detach /\ AtRest
        BY <3>1
      <3>3. /\ capture_path' \in Captures /\ pending_sink' = capture_path' /\ AtRest'
            /\ Recording' /\ ~ Stopping' /\ ~ Stopped' /\ ~ pending_detach'
            /\ pending_sink_change' = 0 /\ gPc' # "take"
        BY <1>2, <3>1, <3>2 DEF StartCapture
      <3> HIDE DEF Recording, Stopping, Stopped, AtRest
      <3> QED
        BY <3>3
    <2> QED
      BY <2>1 DEF Courtesy
  <1>3. CASE AttachClearsDetach
    BY <1>3 DEF AttachClearsDetach
  <1>4. CASE AttachCounts
    BY <1>4 DEF AttachCounts
  <1>5. CASE StopCapture
    BY <1>5 DEF StopCapture, Deleted
  <1>6. CASE DetachSetsFlag
    BY <1>6 DEF DetachSetsFlag
  <1>7. CASE DetachCounts
    BY <1>7 DEF DetachCounts
  <1>8. CASE Tick
    BY <1>8 DEF Tick
  <1>9. CASE CollectFinishedCapture
    BY <1>9 DEF CollectFinishedCapture
  <1>10. CASE TakeRetiredSink
    BY <1>10 DEF TakeRetiredSink, Report
  <1>11. CASE TickEnds
    BY <1>11 DEF TickEnds
  <1>12. CASE FinishRun
    BY <1>12 DEF FinishRun, Report
  <1> QED
    BY <1>1, <1>2, <1>3, <1>4, <1>5, <1>6, <1>7, <1>8, <1>9, <1>10, <1>11, <1>12 DEF Controller, Call

-----------------------------------------------------------------------------
(* The steps of the pipeline's threads *)

\* Where the sinks are, and what their files are
LEMMA SinksOfPipeline ==
    ASSUME SafeInv, Pipeline
    PROVE  Shape' /\ Apart' /\ Live' /\ Untouched'
  <1>0. TypeOK /\ Shape /\ Apart /\ Live /\ Untouched
    BY DEF SafeInv, SinkInv
  <1> USE <1>0, Typed, Names
      DEF WorkerFrame, workerVars, guiVars, requestVars, answerVars,
          Shape, Apart, Live, Untouched, Swapping
  <1>1. CASE LoadRequests
    BY <1>1 DEF LoadRequests
  <1>2. CASE TakePendingSink
    BY <1>2 DEF TakePendingSink
  <1>3. CASE TakePendingDetach
    BY <1>3 DEF TakePendingDetach
  <1>4. CASE RetireSink
    BY <1>4 DEF RetireSink, Finished
  <1>5. CASE InstallSink
    BY <1>5 DEF InstallSink
  <1>6. CASE ProcessBuffer
    BY <1>6 DEF ProcessBuffer, Grown
  <1>7. CASE WorkerLeaves
    BY <1>7 DEF WorkerLeaves, Grown
  <1>8. CASE WorkerPublishes
    BY <1>8 DEF WorkerPublishes
  <1>9. CASE CloseSink
    BY <1>9 DEF CloseSink, Finished
  <1>10. CASE RunStops
    BY <1>10 DEF RunStops
  <1> QED
    BY <1>1, <1>2, <1>3, <1>4, <1>5, <1>6, <1>7, <1>8, <1>9, <1>10 DEF Pipeline

\* The numbers and the stages of the calls
LEMMA CountsOfPipeline ==
    ASSUME SafeInv, Pipeline
    PROVE  FilesInOrder' /\ Stages' /\ Requests' /\ TypeOK'
  <1>0. TypeOK /\ Shape /\ Live /\ FilesInOrder /\ Stages /\ Requests
    BY DEF SafeInv, SinkInv
  <1> USE <1>0, Typed, Names
      DEF WorkerFrame, workerVars, guiVars, requestVars, answerVars,
          Shape, Live, Attaching, FilesInOrder, Stages, Requests, TypeOK, Sinks
  <1>1. CASE LoadRequests
    BY <1>1 DEF LoadRequests
  <1>2. CASE TakePendingSink
    BY <1>2 DEF TakePendingSink
  <1>3. CASE TakePendingDetach
    BY <1>3 DEF TakePendingDetach
  <1>4. CASE RetireSink
    BY <1>4 DEF RetireSink, Finished
  <1>5. CASE InstallSink
    BY <1>5 DEF InstallSink
  <1>6. CASE ProcessBuffer
    BY <1>6 DEF ProcessBuffer, Grown
  <1>7. CASE WorkerLeaves
    BY <1>7 DEF WorkerLeaves, Grown
  <1>8. CASE WorkerPublishes
    BY <1>8 DEF WorkerPublishes
  <1>9. CASE CloseSink
    BY <1>9 DEF CloseSink, Finished
  <1>10. CASE RunStops
    BY <1>10 DEF RunStops
  <1> QED
    BY <1>1, <1>2, <1>3, <1>4, <1>5, <1>6, <1>7, <1>8, <1>9, <1>10 DEF Pipeline

\* One file at a time
LEMMA CourtesyOfPipeline ==
    ASSUME SinkInv, Pipeline
    PROVE  Courtesy'
  <1>0. /\ TypeOK /\ Shape /\ Apart /\ Live /\ Stages /\ Requests
        /\ impatient \in BOOLEAN /\ Courtesy
    BY DEF SafeInv, SinkInv
  <1> USE <1>0, Typed, Names
      DEF WorkerFrame, workerVars, guiVars, requestVars, answerVars,
          Shape, Apart, Live, Stages, Requests, Courtesy,
          WhileRecording, WhileStopping, WhileStopped, BetweenFiles,
          Recording, Stopping, Stopped, AtRest, IsDeleted, OnItsWay, Previous,
          Detaching, Detached, Swapping, Attaching
  <1>1. CASE LoadRequests
    BY <1>1 DEF LoadRequests
  <1>2. CASE TakePendingSink
    BY <1>2 DEF TakePendingSink
  <1>3. CASE TakePendingDetach
    BY <1>3 DEF TakePendingDetach
  <1>4. CASE RetireSink
    BY <1>4 DEF RetireSink, Finished
  <1>5. CASE InstallSink
    BY <1>5 DEF InstallSink
  <1>6. CASE ProcessBuffer
    BY <1>6 DEF ProcessBuffer, Grown
  <1>7. CASE WorkerLeaves
    BY <1>7 DEF WorkerLeaves, Grown
  <1>8. CASE WorkerPublishes
    BY <1>8 DEF WorkerPublishes
  <1>9. CASE CloseSink
    BY <1>9 DEF CloseSink, Finished
  <1>10. CASE RunStops
    BY <1>10 DEF RunStops
  <1> QED
    BY <1>1, <1>2, <1>3, <1>4, <1>5, <1>6, <1>7, <1>8, <1>9, <1>10 DEF Pipeline

-----------------------------------------------------------------------------
(* The reports *)

\* What a report says stays true: neither the file it names nor its length changes
LEMMA ReportsStand ==
    ASSUME SafeInv, Next
    PROVE  \A s \in Captures :
               /\ file[s] = "finished" => file'[s] = "finished" /\ written'[s] = written[s]
               /\ file[s] = "deleted" => file'[s] = "deleted"
  <1>0. TypeOK /\ Shape /\ Live
    BY DEF SafeInv
  <1> USE <1>0, Typed, Names
      DEF GuiFrame, WorkerFrame, workerVars, guiVars, requestVars, answerVars, Live, Shape
  <1>1. CASE Controller
    BY <1>1
       DEF Controller, Call, StartMonitoring, StartCapture, AttachClearsDetach, AttachCounts,
           StopCapture, DetachSetsFlag, DetachCounts, Tick, CollectFinishedCapture,
           TakeRetiredSink, TickEnds, FinishRun, Deleted
  <1>2. CASE Pipeline
    BY <1>2
       DEF Pipeline, LoadRequests, TakePendingSink, TakePendingDetach, RetireSink, InstallSink,
           ProcessBuffer, WorkerLeaves, WorkerPublishes, CloseSink, RunStops, Finished
  <1>3. CASE SessionOver
    BY <1>3 DEF SessionOver, vars
  <1> QED
    BY <1>1, <1>2, <1>3 DEF Next

IsTrue(r, files, lengths) ==
    /\ r.path \in Captures
    /\ \/ /\ r.figures.sink = r.path /\ files[r.path] = "finished"
          /\ r.figures.samples = lengths[r.path]
       \/ files[r.path] = "deleted" /\ r.figures.sink = Null

\* The one report of a capture that was stopped
LEMMA NewReport ==
    ASSUME SinkInv, TakeRetiredSink, ~ impatient
    PROVE  IsTrue(Report("collected", Figures(retired_sink, written, stats.span)), file', written')
  <1>1. TypeOK /\ Live /\ Stages /\ Courtesy
    BY DEF SinkInv, SafeInv
  <1>2. monitoring /\ gPc = "take" /\ file' = file /\ written' = written
    BY <1>1 DEF TakeRetiredSink, GuiFrame, Stages
  <1>3. /\ capture_path \in Captures /\ pending_sink_change = 0 /\ ~ capturing
    BY <1>1, <1>2 DEF Courtesy
  <1>4. Previous(retired_sink)
    BY <1>1, <1>2, <1>3
       DEF Courtesy, BetweenFiles, Recording, Attaching, Stopping, Stopped
  <1>5. CASE retired_sink = capture_path
    BY <1>1, <1>2, <1>3, <1>5 DEF Live, IsTrue, Report, Figures
  <1>6. CASE retired_sink = Null /\ file[capture_path] = "deleted"
    BY <1>2, <1>3, <1>6, Names DEF IsTrue, Report, Figures
  <1> QED
    BY <1>4, <1>5, <1>6 DEF Previous, IsDeleted

LEMMA ReportsKept ==
    ASSUME SinkInv, Next
    PROVE  ReportsAreTrue'
  <1>1. SUFFICES ASSUME ~ impatient', NEW r \in Collected'
                 PROVE  IsTrue(r, file', written')
    BY DEF ReportsAreTrue, IsTrue
  <1>2. ~ impatient
    BY <1>1
       DEF SinkInv, Next, Controller, Call, StartMonitoring, StartCapture, AttachClearsDetach,
           AttachCounts, StopCapture, DetachSetsFlag, DetachCounts, Tick,
           CollectFinishedCapture, TakeRetiredSink, TickEnds, FinishRun, GuiFrame,
           Pipeline, LoadRequests, TakePendingSink, TakePendingDetach, RetireSink, InstallSink,
           ProcessBuffer, WorkerLeaves, WorkerPublishes, CloseSink, RunStops, WorkerFrame,
           SessionOver, vars
  <1>3. CASE r \in Collected
    <2>1. IsTrue(r, file, written)
      BY <1>2, <1>3 DEF SinkInv, ReportsAreTrue, IsTrue
    <2> QED
      BY <2>1, ReportsStand DEF SinkInv, IsTrue
  <1>4. CASE r \notin Collected
    <2>1. r \in reports' /\ r.how = "collected" /\ r \notin reports
      BY <1>1, <1>4 DEF Collected
    <2>2. CASE TakeRetiredSink
      <3>1. r = Report("collected", Figures(retired_sink, written, stats.span))
        BY <2>1, <2>2 DEF TakeRetiredSink
      <3> QED
        BY <1>2, <2>2, <3>1, NewReport
    <2>3. CASE FinishRun
      <3>1. r = Report("run ended", published)
        BY <2>1, <2>3 DEF FinishRun
      <3> QED
        BY <2>1, <3>1 DEF Report
    <2>4. CASE ~ TakeRetiredSink /\ ~ FinishRun
      <3>1. reports' = reports
        BY <2>4
           DEF Next, Controller, Call, StartMonitoring, StartCapture, AttachClearsDetach,
               AttachCounts, StopCapture, DetachSetsFlag, DetachCounts, Tick,
               CollectFinishedCapture, TickEnds,
               Pipeline, LoadRequests, TakePendingSink, TakePendingDetach, RetireSink,
               InstallSink, ProcessBuffer, WorkerLeaves, WorkerPublishes, CloseSink, RunStops,
               WorkerFrame, SessionOver, vars
      <3> QED
        BY <2>1, <3>1
    <2> QED
      BY <2>2, <2>3, <2>4
  <1> QED
    BY <1>3, <1>4

-----------------------------------------------------------------------------
LEMMA SinkInvariant == Spec => []SinkInv
  <1>1. ASSUME SinkInv, [Next]_vars PROVE SinkInv'
    <2>1. CASE Next
      <3>1. SafeInv' /\ Courtesy'
        <4>1. CASE Controller
          BY <1>1, <4>1, SinksOfController, CountsOfController, CourtesyOfController
             DEF SinkInv, SafeInv
        <4>2. CASE Pipeline
          BY <1>1, <4>2, SinksOfPipeline, CountsOfPipeline, CourtesyOfPipeline
             DEF SinkInv, SafeInv
        <4>3. CASE SessionOver
          <5>1. UNCHANGED vars
            BY <4>3 DEF SessionOver
          <5> QED
            BY <1>1, <5>1, SinksUnmoved DEF SinkInv
        <4> QED
          BY <2>1, <4>1, <4>2, <4>3 DEF Next
      <3>2. impatient' \in BOOLEAN
        BY <1>1, <2>1
           DEF SinkInv, Next, Controller, Call, StartMonitoring, StartCapture,
               AttachClearsDetach, AttachCounts, StopCapture, DetachSetsFlag, DetachCounts,
               Tick, CollectFinishedCapture, TakeRetiredSink, TickEnds, FinishRun, GuiFrame,
               Pipeline, LoadRequests, TakePendingSink, TakePendingDetach, RetireSink,
               InstallSink, ProcessBuffer, WorkerLeaves, WorkerPublishes, CloseSink, RunStops,
               WorkerFrame, SessionOver, vars
      <3> QED
        BY <1>1, <2>1, <3>1, <3>2, ReportsKept DEF SinkInv
    <2>2. CASE UNCHANGED vars
      BY <1>1, <2>2, SinksUnmoved
    <2> QED
      BY <1>1, <2>1, <2>2
  <1> QED
    BY <1>1, SinksStart, PTL DEF Spec

-----------------------------------------------------------------------------
(* What it comes to *)

LEMMA OneHolder ==
    ASSUME SafeInv, NEW s \in Captures
    PROVE  Cardinality(Holders(s)) <= 1
  <1>1. Apart
    BY DEF SafeInv
  <1>2. \A p : Cardinality({p}) = 1
    BY FS_Singleton
  <1>3. CASE pending_sink = s
    <2>1. Holders(s) = {<<"pending", s>>}
      BY <1>1, <1>3 DEF Holders, Apart
    <2>2. Cardinality({<<"pending", s>>}) = 1
      BY <1>2
    <2> QED
      BY <2>1, <2>2
  <1>4. CASE incoming = s
    <2>1. Holders(s) = {<<"incoming", s>>}
      BY <1>1, <1>4 DEF Holders, Apart
    <2>2. Cardinality({<<"incoming", s>>}) = 1
      BY <1>2
    <2> QED
      BY <2>1, <2>2
  <1>5. CASE sink = s
    <2>1. Holders(s) = {<<"attached", s>>}
      BY <1>1, <1>5 DEF Holders, Apart
    <2>2. Cardinality({<<"attached", s>>}) = 1
      BY <1>2
    <2> QED
      BY <2>1, <2>2
  <1>6. CASE retired_sink = s
    <2>1. Holders(s) = {<<"retired", s>>}
      BY <1>1, <1>6 DEF Holders, Apart
    <2>2. Cardinality({<<"retired", s>>}) = 1
      BY <1>2
    <2> QED
      BY <2>1, <2>2
  <1>7. CASE s \notin {pending_sink, incoming, sink, retired_sink}
    <2>1. Holders(s) = {}
      BY <1>7 DEF Holders
    <2> QED
      BY <2>1, FS_EmptySet
  <1> QED
    BY <1>3, <1>4, <1>5, <1>6, <1>7

LEMMA Holding ==
    ASSUME NEW s \in Captures
    PROVE  /\ Holders(s) # {} <=> s \in {pending_sink, incoming, sink, retired_sink}
           /\ Holders(s)' # {} <=> s \in {pending_sink', incoming', sink', retired_sink'}
  <1>1. ASSUME NEW a, NEW b, NEW c, NEW d
        PROVE  {p \in {<<"pending", a>>, <<"incoming", b>>, <<"attached", c>>, <<"retired", d>>} :
                   p[2] = s} # {} <=> s \in {a, b, c, d}
    <2> DEFINE held == {p \in {<<"pending", a>>, <<"incoming", b>>, <<"attached", c>>,
                               <<"retired", d>>} : p[2] = s}
    <2>1. /\ s = a => <<"pending", a>> \in held
          /\ s = b => <<"incoming", b>> \in held
          /\ s = c => <<"attached", c>> \in held
          /\ s = d => <<"retired", d>> \in held
      OBVIOUS
    <2>2. \A p \in held : s \in {a, b, c, d}
      OBVIOUS
    <2> QED
      BY <2>1, <2>2
  <1> QED
    BY <1>1 DEF Holders

LEMMA InvariantSuffices == SinkInv => SinksAreSafe
  <1> SUFFICES ASSUME SinkInv PROVE SinksAreSafe
    OBVIOUS
  <1>1. TypeOK /\ Shape /\ Apart /\ Live /\ Untouched /\ SafeInv
    BY DEF SinkInv, SafeInv
  <1>2. OwnedOnce
    <2>1. ASSUME NEW s \in Captures, file[s] \in {"none", "deleted"} PROVE Holders(s) = {}
      BY <1>1, <2>1, Holding DEF Live
    <2> QED
      BY <1>1, <2>1, OneHolder DEF OwnedOnce
  <1>3. NoWriteAfterFinish
    BY <1>1, Typed, Names DEF NoWriteAfterFinish, Live, Shape, Swapping
  <1>4. TakenFilesAreClosed
    <2>1. ASSUME ~ running, NEW s \in Captures, file[s] = "open"
          PROVE  written[s] = 0 /\ s \notin {incoming, sink, retired_sink}
      BY <1>1, <2>1, Names DEF Shape, Swapping, Live, Untouched
    <2> QED
      BY <2>1 DEF TakenFilesAreClosed, Holders
  <1>5. ReportMatchesFile
    BY DEF SinkInv, ReportsAreTrue, ReportMatchesFile
  <1> QED
    BY <1>1, <1>2, <1>3, <1>4, <1>5 DEF SinksAreSafe

(***************************************************************************)
(* Recording from a running stream (capture_pipeline.cpp, AttachSink,      *)
(* DetachSink and PerformPendingSinkChange): a sink has one owner, no      *)
(* finished file is written to, every file the stream took is closed when  *)
(* the run is over, and a user who waits for each report is told of the    *)
(* file that was closed, with its length.                                  *)
(***************************************************************************)
THEOREM SinksAlwaysSafe == Spec => []SinksAreSafe
  BY SinkInvariant, InvariantSuffices, PTL

(***************************************************************************)
(* Whatever order the requests, the swaps and the end of a run fall in, an *)
(* open file is let go of only by closing it (ownership of the raw pointer *)
(* in pending_sink_ and retired_sink_), within a run.                      *)
(***************************************************************************)
THEOREM OpenFilesAreKept == Spec => NoOpenFileIsDropped
  <1>1. ASSUME SinkInv, [Next]_vars
        PROVE  [\A s \in Captures :
                    file[s] = "open" /\ file'[s] = "open" /\ Holders(s) # {} /\ runs' = runs
                    => Holders(s)' # {}]_vars
    <2> SUFFICES ASSUME Next, NEW s \in Captures, file[s] = "open", file'[s] = "open",
                        s \in {pending_sink, incoming, sink, retired_sink}, runs' = runs
                 PROVE  s \in {pending_sink', incoming', sink', retired_sink'}
      BY <1>1, Holding
    <2>0. TypeOK /\ Shape /\ Live
      BY <1>1 DEF SinkInv, SafeInv
    <2> USE <2>0, Typed, Names
        DEF GuiFrame, WorkerFrame, workerVars, guiVars, requestVars, answerVars, Live, Shape,
            Swapping
    <2>1. CASE Controller
      <3>1. CASE StartMonitoring
        BY <3>1 DEF StartMonitoring
      <3>2. CASE StartCapture
        BY <3>2 DEF StartCapture, Deleted
      <3>3. CASE StopCapture
        BY <3>3 DEF StopCapture, Deleted
      <3>4. CASE TakeRetiredSink
        BY <3>4 DEF TakeRetiredSink
      <3>5. CASE \/ AttachClearsDetach \/ AttachCounts \/ DetachSetsFlag \/ DetachCounts
                 \/ Tick \/ CollectFinishedCapture \/ TickEnds \/ FinishRun
        BY <3>5
           DEF AttachClearsDetach, AttachCounts, DetachSetsFlag, DetachCounts, Tick,
               CollectFinishedCapture, TickEnds, FinishRun
      <3> QED
        BY <2>1, <3>1, <3>2, <3>3, <3>4, <3>5 DEF Controller, Call
    <2>2. CASE Pipeline
      BY <2>2
         DEF Pipeline, LoadRequests, TakePendingSink, TakePendingDetach, RetireSink,
             InstallSink, ProcessBuffer, WorkerLeaves, WorkerPublishes, CloseSink, RunStops,
             Finished
    <2>3. CASE SessionOver
      BY <2>3 DEF SessionOver, vars
    <2> QED
      BY <2>1, <2>2, <2>3 DEF Next
  <1> QED
    BY <1>1, SinkInvariant, PTL DEF Spec, NoOpenFileIsDropped
=============================================================================
