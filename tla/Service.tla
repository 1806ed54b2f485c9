------------------------------- MODULE Service -------------------------------
(* main.py: MonitorService starts a thread per component and stops them in    *)
(* turn. The analysis worker is modelled with what it calls: the guidance it  *)
(* reads, the model it asks, the proposal it writes and hands to export. Of   *)
(* the other loops only matters that a pass may take longer than stop() waits.*)
EXTENDS ContextLibrary, ModelClient

CONSTANTS
    worker, health, main,   \* the readers of guidance
    JoinTimeout,    \* component -> ticks that stop() waits for its thread
    Nobody,
    MaxErrors       \* bound: errors detected

Components == {"analyzer", "log_monitor", "registry", "exporter", "health"}
Loops == {"log_monitor", "registry", "exporter"}
StartOrder == <<"analyzer", "log_monitor", "registry", "exporter", "health">>
StopOrder == <<"health", "exporter", "registry", "log_monitor", "analyzer">>

ASSUME ServiceAssumption ==
    /\ Readers = {worker, health, main} /\ Nobody \notin Components
    /\ JoinTimeout \in [Components -> Nat] /\ MaxErrors \in Nat

VARIABLES
    mainPc,         \* run_forever, start and stop
    pending,        \* components still to be started or stopped
    shutdown,       \* _shutdown
    thread,         \* component -> "off", "on" or "over"
    stopFlag,       \* components whose _stop is set
    inPass,         \* loops in the middle of a pass
    joining, joinLeft,  \* whose thread stop() waits for, and how much longer
    workerPc,
    queue,          \* errors waiting for analysis
    current,        \* the error in hand
    failed,         \* errors whose analysis failed
    persisted,      \* error -> its proposal, or NoPayload
    spooled,        \* errors whose proposal was queued for export
    detected        \* history: errors detected so far

lifeVars == <<mainPc, pending, shutdown, thread, stopFlag, inPass, joining, joinLeft>>
workVars == <<workerPc, queue, current, failed, persisted, spooled, detected>>
vars == <<libraryVars, clientVars, lifeVars, workVars>>

Init ==
    /\ LibraryInit /\ ClientInit
    /\ mainPc = "validate" /\ pending = StartOrder /\ shutdown = FALSE
    /\ thread = [c \in Components |-> "off"] /\ stopFlag = {} /\ inPass = {}
    /\ joining = Nobody /\ joinLeft = 0
    /\ workerPc = "loop" /\ queue = <<>> /\ current = 0 /\ failed = {}
    /\ persisted = [e \in 1 .. MaxErrors |-> NoPayload] /\ spooled = {} /\ detected = 0

Running == mainPc # "exited"

-----------------------------------------------------------------------------
(* The main thread                                                            *)

Goes(from, to) == mainPc = from /\ mainPc' = to

(* Whether anax and the model are there is reported, and no more.             *)
Validate ==
    /\ Goes("validate", "start")
    /\ UNCHANGED <<libraryVars, clientVars, pending, shutdown, thread, stopFlag, inPass,
                   joining, joinLeft, workVars>>

(* A health server that cannot bind its port stays off.                       *)
StartNext ==
    /\ mainPc = "start" /\ pending # <<>>
    /\ pending' = Tail(pending)
    /\ LET c == Head(pending)
       IN  \/ thread' = [thread EXCEPT ![c] = "on"]
           \/ c = "health" /\ UNCHANGED thread
    /\ UNCHANGED <<libraryVars, clientVars, mainPc, shutdown, stopFlag, inPass, joining,
                   joinLeft, workVars>>

(* The guidance is described in the log; an exception here is nobody's.       *)
Describe ==
    /\ pending = <<>> /\ Goes("start", "describe")
    /\ StartReading(main, <<>>)
    /\ UNCHANGED <<clientVars, pending, shutdown, thread, stopFlag, inPass, joining, joinLeft,
                   workVars>>

Described ==
    /\ \/ FinishReading(main) /\ Goes("describe", "serve")
       \/ ListingFails(main) /\ Goes("describe", "exited")
    /\ UNCHANGED <<clientVars, pending, shutdown, thread, stopFlag, inPass, joining, joinLeft,
                   workVars>>

(* The handler of SIGTERM and SIGINT, which runs on the main thread.          *)
RequestShutdown ==
    /\ Running /\ ~shutdown
    /\ shutdown' = TRUE
    /\ UNCHANGED <<libraryVars, clientVars, mainPc, pending, thread, stopFlag, inPass, joining,
                   joinLeft, workVars>>

(* The wait is over because the event is set, and stop() takes it for a       *)
(* shutdown that is already done.                                             *)
ServeEnds ==
    /\ shutdown /\ Goes("serve", "exited")
    /\ UNCHANGED <<libraryVars, clientVars, pending, shutdown, thread, stopFlag, inPass,
                   joining, joinLeft, workVars>>

(* KeyboardInterrupt where no handler is installed: only the wait expects it. *)
Interrupt ==
    /\ Running
    /\ IF mainPc = "serve" /\ ~shutdown
         THEN mainPc' = "stop" /\ shutdown' = TRUE /\ pending' = StopOrder
         ELSE mainPc' = "exited" /\ UNCHANGED <<shutdown, pending>>
    /\ UNCHANGED <<libraryVars, clientVars, thread, stopFlag, inPass, joining, joinLeft,
                   workVars>>

(* stop(): each component's flag is set and its thread joined, for a while.   *)
StopNext ==
    /\ mainPc = "stop" /\ joining = Nobody /\ pending # <<>>
    /\ LET c == Head(pending)
       IN  /\ stopFlag' = stopFlag \cup {c}
           /\ joining' = c
           /\ joinLeft' = JoinTimeout[c]
    /\ UNCHANGED <<libraryVars, clientVars, mainPc, pending, shutdown, thread, inPass, workVars>>

(* Mutant of Joined: the wait has no timeout.                                 *)
JoinedAtLast ==
    /\ mainPc = "stop" /\ joining # Nobody
    /\ thread[joining] # "on"
    /\ joining' = Nobody /\ joinLeft' = 0
    /\ pending' = Tail(pending)
    /\ UNCHANGED <<libraryVars, clientVars, mainPc, shutdown, thread, stopFlag, inPass, workVars>>

(* Only the health server is waited for as long as it takes (shutdown()).     *)
Joined ==
    /\ mainPc = "stop" /\ joining # Nobody
    /\ thread[joining] # "on" \/ (joinLeft = 0 /\ joining # "health")
    /\ joining' = Nobody /\ joinLeft' = 0
    /\ pending' = Tail(pending)
    /\ UNCHANGED <<libraryVars, clientVars, mainPc, shutdown, thread, stopFlag, inPass, workVars>>

(* The process is over with the main thread: all others are daemons.          *)
Stopped ==
    /\ pending = <<>> /\ Goes("stop", "exited")
    /\ UNCHANGED <<libraryVars, clientVars, pending, shutdown, thread, stopFlag, inPass,
                   joining, joinLeft, workVars>>

MainStep == \/ Validate \/ StartNext \/ Describe \/ Described
            \/ mainPc = "describe" /\ ReadingStep(main) /\ UNCHANGED <<clientVars, lifeVars, workVars>>
            \/ ServeEnds \/ StopNext \/ Joined \/ Stopped

-----------------------------------------------------------------------------
(* The loops of discovery, tailing and export                                 *)

BeginPass(c) ==
    /\ Running /\ thread[c] = "on" /\ c \notin inPass \cup stopFlag
    /\ inPass' = inPass \cup {c}
    /\ UNCHANGED <<libraryVars, clientVars, mainPc, pending, shutdown, thread, stopFlag,
                   joining, joinLeft, workVars>>

EndPass(c) ==
    /\ Running /\ c \in inPass
    /\ inPass' = inPass \ {c}
    /\ UNCHANGED <<libraryVars, clientVars, mainPc, pending, shutdown, thread, stopFlag,
                   joining, joinLeft, workVars>>

ThreadEnds(c) ==
    /\ Running /\ thread[c] = "on" /\ c \in stopFlag \ inPass
    /\ thread' = [thread EXCEPT ![c] = "over"]
    /\ UNCHANGED <<libraryVars, clientVars, mainPc, pending, shutdown, stopFlag, inPass,
                   joining, joinLeft, workVars>>

(* analyzer.submit, in a pass of the log monitor                              *)
Detect ==
    /\ Running /\ "log_monitor" \in inPass /\ detected < MaxErrors
    /\ detected' = detected + 1
    /\ queue' = Append(queue, detected')
    /\ UNCHANGED <<libraryVars, clientVars, lifeVars, workerPc, current, failed, persisted,
                   spooled>>

(* A request to the health endpoint, on a thread of its own                   *)
HealthRequest ==
    /\ Running
    /\ \/ thread["health"] = "on" /\ StartReading(health, <<>>)
       \/ ReadingStep(health) \/ FinishReading(health) \/ ListingFails(health)
    /\ UNCHANGED <<clientVars, lifeVars, workVars>>

-----------------------------------------------------------------------------
(* The analysis worker: _run and process_next                                 *)

WorkerRuns == Running /\ thread["analyzer"] = "on"

TakeItem ==
    /\ WorkerRuns /\ workerPc = "loop" /\ "analyzer" \notin stopFlag /\ queue # <<>>
    /\ current' = Head(queue) /\ queue' = Tail(queue)
    /\ workerPc' = "guidance"
    /\ \E paths \in {WorkloadPaths, <<>>} : StartReading(worker, paths)
    /\ UNCHANGED <<clientVars, lifeVars, failed, persisted, spooled, detected>>

(* The stop flag is looked at between two items, however many are queued.     *)
WorkerEnds ==
    /\ WorkerRuns /\ workerPc = "loop" /\ "analyzer" \in stopFlag
    /\ thread' = [thread EXCEPT !["analyzer"] = "over"]
    /\ UNCHANGED <<libraryVars, clientVars, mainPc, pending, shutdown, stopFlag, inPass,
                   joining, joinLeft, workVars>>

ReadGuidance ==
    /\ WorkerRuns /\ workerPc = "guidance"
    /\ ReadingStep(worker)
    /\ UNCHANGED <<clientVars, lifeVars, workVars>>

AskModel ==
    /\ WorkerRuns /\ workerPc = "guidance"
    /\ FinishReading(worker) \/ ListingFails(worker)
    /\ Analyze
    /\ workerPc' = "analysis"
    /\ UNCHANGED <<lifeVars, queue, current, failed, persisted, spooled, detected>>

ModelStep(step) ==
    /\ WorkerRuns /\ workerPc = "analysis"
    /\ step
    /\ UNCHANGED <<libraryVars, lifeVars, workVars>>

(* Mutant of AnalysisFailed: this exception is not caught either.             *)
AnalysisFailedFatally ==
    /\ WorkerRuns /\ callPc = "failed"
    /\ CallReturns
    /\ thread' = [thread EXCEPT !["analyzer"] = "over"]
    /\ UNCHANGED <<libraryVars, mainPc, pending, shutdown, stopFlag, inPass, joining, joinLeft,
                   workVars>>

(* LLMError and LLMTimeout are counted, and the next item is taken ...        *)
AnalysisFailed ==
    /\ WorkerRuns /\ callPc = "failed"
    /\ CallReturns
    /\ failed' = failed \cup {current}
    /\ current' = 0 /\ workerPc' = "loop"
    /\ UNCHANGED <<libraryVars, lifeVars, queue, persisted, spooled, detected>>

(* ... any other exception ends the thread.                                   *)
AnalysisRaised ==
    /\ WorkerRuns /\ callPc = "raised"
    /\ CallReturns
    /\ thread' = [thread EXCEPT !["analyzer"] = "over"]
    /\ UNCHANGED <<libraryVars, mainPc, pending, shutdown, stopFlag, inPass, joining, joinLeft,
                   workVars>>

(* Mutant of RequiresReview: a severity that is not routine is not looked at. *)
RequiresReviewUnlessConfident(p) == p.confidence < 8

RequiresReview(p) == ~(p.severity \in {"low", "medium"} /\ p.confidence >= 8)

Persist ==
    /\ WorkerRuns /\ callPc = "usable"
    /\ CallReturns
    /\ persisted' = [persisted EXCEPT ![current] =
                       [review |-> RequiresReview(payload), answer |-> reply]]
    /\ workerPc' = "export"
    /\ UNCHANGED <<libraryVars, lifeVars, queue, current, failed, spooled, detected>>

(* exporter.submit writes to the spool, also after exporter.stop(); the disk  *)
(* may refuse it, and then the proposal is written and not exported.          *)
SubmitForExport ==
    /\ WorkerRuns /\ workerPc = "export"
    /\ spooled' \in {spooled, spooled \cup {current}}
    /\ current' = 0 /\ workerPc' = "loop"
    /\ UNCHANGED <<libraryVars, clientVars, lifeVars, queue, failed, persisted, detected>>

WorkerStep == \/ TakeItem \/ WorkerEnds \/ ReadGuidance \/ AskModel
              \/ ModelStep(Chat) \/ ModelStep(Replied)
              \/ AnalysisFailed \/ AnalysisRaised \/ Persist \/ SubmitForExport

-----------------------------------------------------------------------------
(* Time passes while the worker waits for the model and the main thread for a *)
(* thread; everything else takes none. No part of an answer comes later than  *)
(* the timeout.                                                               *)
WorkerWaits == \/ thread["analyzer"] # "on"
               \/ workerPc = "loop" /\ queue = <<>> /\ "analyzer" \notin stopFlag
               \/ callPc = "waiting"

Tick ==
    /\ Running /\ WorkerWaits
    /\ callPc = "waiting" => elapsed < ModelTimeout
    /\ IF joining = Nobody THEN mainPc # "stop"
                           ELSE thread[joining] = "on" /\ joinLeft > 0
    /\ callPc = "waiting" \/ joining # Nobody
    /\ elapsed' = IF callPc = "waiting" THEN elapsed + 1 ELSE elapsed
    /\ joinLeft' = IF joining = Nobody THEN 0 ELSE joinLeft - 1
    /\ UNCHANGED <<libraryVars, callPc, attempt, parts, payload, reply, mainPc, pending, shutdown,
                   thread, stopFlag, inPass, joining, workVars>>

EditDocument == Running /\ Edits /\ UNCHANGED <<clientVars, lifeVars, workVars>>

Next ==
    \/ MainStep \/ RequestShutdown \/ Interrupt
    \/ \E c \in Loops : BeginPass(c) \/ EndPass(c)
    \/ \E c \in Loops \cup {"health"} : ThreadEnds(c)
    \/ Detect \/ HealthRequest \/ EditDocument
    \/ WorkerStep
    \/ ModelStep(PartArrives)
    \/ Tick

Spec == Init /\ [][Next]_vars

(* The threads are scheduled, time passes, and the health server, whose loop  *)
(* only hands requests on, sees its flag. No pass of a loop need ever end.    *)
FairSpec ==
    /\ Spec
    /\ WF_vars(MainStep) /\ WF_vars(WorkerStep) /\ WF_vars(Tick)
    /\ WF_vars(ThreadEnds("health"))

-----------------------------------------------------------------------------
(* Properties                                                                 *)

TypeOK ==
    /\ LibraryTypeOK /\ ClientTypeOK
    /\ mainPc \in {"validate", "start", "describe", "serve", "stop", "exited"}
    /\ thread \in [Components -> {"off", "on", "over"}]
    /\ stopFlag \subseteq Components /\ inPass \subseteq Loops
    /\ joining \in Components \cup {Nobody} /\ joinLeft \in Nat
    /\ workerPc \in {"loop", "guidance", "analysis", "export"}
    /\ queue \in Seq(1 .. MaxErrors) /\ current \in 0 .. MaxErrors
    /\ failed \cup spooled \subseteq 1 .. MaxErrors

(* Guidance is as recent as the reading: what is used of a document is never  *)
(* older than what was there when it was asked for, whatever is edited while  *)
(* worker and health endpoint read and fill the cache in turns; unless a      *)
(* change left the file, or gave it back, a time and size it had before.      *)
(* (context.py:15-16: an edit takes effect on the next error.)                *)
GuidanceIsCurrent == stale \subseteq ambiguous

(* What goes into a prompt has no more characters than the budget says (the   *)
(* line ends between the documents excepted), and no document of the node     *)
(* takes the place of one the workload asked for.                             *)
GuidanceWithinBudget ==
    LET all == gathered[worker]
        docs == Block(all)
    IN  /\ Total(docs) <= MaxTotalBytes
        /\ \A n \in 1 .. Len(docs), m \in 1 .. Len(all) :
               docs[n].source = "node" /\ all[m].source = "declared" =>
                   m <= Len(docs) /\ docs[m] = all[m]

(* Stated by openspec/specs/error-analysis/spec.md (Context budget) and by    *)
(* the names and messages of context.py: the budget is one of bytes.          *)
GuidanceWithinBytes == TotalBytes(Block(gathered[worker])) <= MaxTotalBytes

(* Nothing ends the analysis but a stop: no timeout, refusal or nonsense from *)
(* the model and no trouble with the guidance, save the two answers whose     *)
(* exceptions nobody catches.                                                 *)
WorkerSurvives ==
    thread["analyzer"] = "over" /\ "analyzer" \notin stopFlag => Unexpected(reply)

(* Stated by openspec/specs/error-analysis/spec.md (Invalid JSON response: it *)
(* is logged and the analysis tried once more): no answer ends the worker.    *)
NoAnswerIsFatal == thread["analyzer"] = "over" => "analyzer" \in stopFlag

(* Stated by error_analyzer.py:310 (stop() allows an in-flight inference to   *)
(* finish): after an orderly stop the worker is not in the middle of one.     *)
StoppedInOrder == mainPc = "exited" /\ pending = <<>> /\ "analyzer" \in stopFlag
InFlightFinished == StoppedInOrder => callPc # "waiting"

(* Stated by main.py:247 (the analyzer is stopped last, so that queued        *)
(* analyses can drain into proposals): an orderly stop leaves none behind.    *)
QueueDrained == StoppedInOrder => queue = <<>>

(* A proposal escapes human review only if the model called the problem       *)
(* routine and was confident of it, or gave NaN or true for a confidence.     *)
ReviewSkippedOnlyIfRoutine ==
    \A e \in 1 .. MaxErrors :
        persisted[e] # NoPayload /\ ~persisted[e].review =>
            LET answer == persisted[e].answer
            IN  /\ answer.severity \in {"low", "medium"}
                /\ answer.confidence \in {NotANumber, Yes} \/ answer.confidence >= 8

(* Once asked to stop, the service does, though any of its threads may hang.  *)
ShutdownCompletes == shutdown ~> mainPc = "exited"
=============================================================================
