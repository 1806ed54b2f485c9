------------------------------ MODULE Pipeline ------------------------------
(* main.py wires ErrorAnalyzer(on_result=generator.handle_result): a result   *)
(* becomes a proposal file on the thread that emits it. That is the worker,   *)
(* which holds no lock then, or, on a cache hit, the log monitor's thread,    *)
(* which holds the analyzer's lock all the while.                             *)
EXTENDS ErrorAnalyzer

CONSTANTS worker, monitor, Nobody, None

VARIABLES file, genLock, genPc, task, draft, storageFailures, ledger, exported, lapsed

G == INSTANCE RemediationGenerator WITH
         Problems <- Sigs, Emitters <- {worker, monitor}, Recorders <- {},
         Sinks <- {}, Statuses <- {}, Results <- {}, MaxTotal <- 0, MaxFailures <- 0

(* The log monitor's thread and the worker are two threads.                   *)
ASSUME PipelineAssumption ==
    /\ worker # monitor
    /\ Nobody \notin {worker, monitor}
    /\ None \notin G!Document

genVars == <<file, genLock, genPc, task, draft, storageFailures, ledger, exported, lapsed>>
allVars == <<vars, genVars>>

PipelineInit == Init /\ G!Init

(* The analyzer on its own.                                                   *)
AnalyzerAlone ==
    /\ \/ \E s \in Sigs : Submit(s)
       \/ Signal
       \/ WorkerOwnStep
       \/ Stop
       \/ Tick
    /\ UNCHANGED genVars

(* _emit calls handle_result ...                                              *)
WorkerCalls ==
    /\ workerPc = "emit"
    /\ \E i \in inHand :
           G!HandleResult(worker, [problem |-> i.sig, at |-> i.at,
                                   occurrences |-> i.occurrences, cached |-> FALSE])
    /\ UNCHANGED vars

MonitorCalls ==
    /\ monitorPc = "emit"
    /\ \E e \in hit :
           G!HandleResult(monitor, [problem |-> e.sig, at |-> e.at,
                                    occurrences |-> 1, cached |-> TRUE])
    /\ UNCHANGED vars

(* ... which goes through its steps (the files are readable, the disk works)  *)
Persisting(t) ==
    /\ G!ReadAndMerge(t, TRUE) \/ G!WriteSucceeds(t) \/ G!HandOn(t)
    /\ UNCHANGED vars

(* ... and returns to the analyzer.                                           *)
WorkerReturns == G!HandleReturns(worker) /\ \E i \in inHand : EmitAnalysis(i)
MonitorReturns == G!HandleReturns(monitor) /\ EmitCached

Emission(t) == \/ t = worker /\ (WorkerCalls \/ WorkerReturns)
               \/ t = monitor /\ (MonitorCalls \/ MonitorReturns)
               \/ Persisting(t)

PipelineNext == AnalyzerAlone \/ \E t \in {worker, monitor} : Emission(t)

PipelineSpec == PipelineInit /\ [][PipelineNext]_allVars

(* Each thread is scheduled; an inference ends; a wait times out.             *)
PipelineFairSpec ==
    /\ PipelineSpec
    /\ WF_allVars(Emission(worker))
    /\ WF_allVars(Emission(monitor))
    /\ WF_allVars(WorkerOwnStep /\ UNCHANGED genVars)
    /\ WF_allVars(Signal /\ UNCHANGED genVars)

-----------------------------------------------------------------------------
(* Properties                                                                 *)

(* When nobody is emitting, a problem has a file exactly if something was     *)
(* reported of it, and its total is the sum of what was emitted, whichever of *)
(* the two threads emitted it and however their rewrites interleaved.         *)
Quiet == \A t \in {worker, monitor} : genPc[t] = "idle"

ProposalsCountEmissions ==
    Quiet => \A s \in Sigs : /\ file[s] = None <=> reported[s] = {}
                             /\ file[s] # None => file[s].total = tally[s]

(* The two locks cannot lock the two threads out: whoever emits gets done,    *)
(* the monitor's thread while it holds the analyzer's lock included.          *)
EmissionsReturn ==
    \A t \in {worker, monitor} : genPc[t] # "idle" ~> genPc[t] = "idle"
=============================================================================
