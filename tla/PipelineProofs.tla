--------------------------- MODULE PipelineProofs ---------------------------
(* Theorems about Pipeline: what the analyzer promises it also promises with  *)
(* the proposal store behind its callback, and the counts of the two agree.   *)
EXTENDS Pipeline, ErrorAnalyzerProofs

-----------------------------------------------------------------------------
(* The analyzer inside the pipeline                                           *)

LEMMA PipelineStep == ASSUME [PipelineNext]_allVars PROVE [Next]_vars
<1>1. CASE AnalyzerAlone
  BY <1>1 DEF AnalyzerAlone, Next, MonitorStep, WorkerStep
<1>2. ASSUME NEW t \in {worker, monitor}, Emission(t)
      PROVE  [Next]_vars
  <2>1. CASE WorkerReturns \/ MonitorReturns
    BY <2>1 DEF WorkerReturns, MonitorReturns, Next, WorkerStep, MonitorStep
  <2>2. CASE WorkerCalls \/ MonitorCalls \/ Persisting(t)
    BY <2>2 DEF WorkerCalls, MonitorCalls, Persisting
  <2> QED
    BY <1>2, <2>1, <2>2 DEF Emission
<1>3. CASE UNCHANGED allVars
  BY <1>3 DEF allVars
<1> QED
  BY <1>1, <1>2, <1>3 DEF PipelineNext

(* The proposal store is no obstacle to what was shown of the queue alone:    *)
(* whatever its lock and its steps do between two steps of a thread, the      *)
(* analyzer takes only steps it could take without it.                        *)
THEOREM AnalyzerUndisturbed == PipelineSpec => Spec
<1>1. PipelineInit => Init
  BY DEF PipelineInit
<1>2. [PipelineNext]_allVars => [Next]_vars
  BY PipelineStep
<1> QED
  BY <1>1, <1>2, PTL DEF PipelineSpec, Spec

-----------------------------------------------------------------------------
(* The inductive invariant                                                    *)

Emitting == {worker, monitor}

(* Every item stands for some occurrence, and a cache hit for one.            *)
ItemsStandForSomething ==
    /\ \A i \in heap \cup inHand : i.ids # {}
    /\ \A e, f \in hit : e = f

GenTypes ==
    /\ file \in [Sigs -> G!Document \cup {None}]
    /\ genPc \in [Emitting -> {"idle", "persist", "create", "update", "callback", "exporting"}]
    /\ task \in [Emitting -> G!Result \cup {None}]
    /\ draft \in [Emitting -> G!Document \cup {None}]

(* A thread inside handle_result works on the result it is emitting.          *)
ResultOf(i) == [problem |-> i.sig, at |-> i.at, occurrences |-> i.occurrences, cached |-> FALSE]
ResultOfHit(e) == [problem |-> e.sig, at |-> e.at, occurrences |-> 1, cached |-> TRUE]

WorkerEmits == genPc[worker] # "idle" =>
                   workerPc = "emit" /\ \E i \in inHand : task[worker] = ResultOf(i)
MonitorEmits == genPc[monitor] # "idle" =>
                    monitorPc = "emit" /\ \E e \in hit : task[monitor] = ResultOfHit(e)

LockedWriter == \A t \in Emitting : genPc[t] \in {"create", "update"} <=> genLock = t

(* What a thread is about to write is made of the file as it still is.        *)
DraftCounts ==
    \A t \in Emitting :
        LET p == task[t].problem
        IN  /\ genPc[t] = "create" =>
                   /\ file[p] = None /\ draft[t] \in G!Document
                   /\ draft[t].total = task[t].occurrences
            /\ genPc[t] = "update" =>
                   /\ file[p] # None /\ draft[t] \in G!Document
                   /\ draft[t].total = file[p].total + task[t].occurrences

(* Written, and not yet told the analyzer: what the file is ahead by.         *)
Ahead(t, s) == IF genPc[t] \in {"callback", "exporting"} /\ task[t].problem = s
                 THEN task[t].occurrences ELSE 0

CountsMatch ==
    \A s \in Sigs :
        /\ file[s] = None <=> reported[s] = {} /\ Ahead(worker, s) = 0 /\ Ahead(monitor, s) = 0
        /\ file[s] # None => file[s].total = tally[s] + Ahead(worker, s) + Ahead(monitor, s)
        /\ reported[s] = {} => tally[s] = 0

AnalyzerInv == TypeInv /\ OneAtATime /\ ItemsStandForSomething

PipeInv == /\ AnalyzerInv /\ GenTypes /\ WorkerEmits /\ MonitorEmits
           /\ LockedWriter /\ DraftCounts /\ CountsMatch

-----------------------------------------------------------------------------
LEMMA NextStandForSomething ==
    ASSUME AnalyzerInv, [Next]_vars
    PROVE  ItemsStandForSomething'
<1>a. /\ heap \in SUBSET Item /\ inHand \in SUBSET Item
      /\ \A i \in heap \cup inHand : i.ids # {}
      /\ \A e, f \in hit : e = f
  BY DEF AnalyzerInv, TypeInv, TypeOK, ItemsStandForSomething
<1>1. CASE \E s \in Sigs : Submit(s)
  <2> PICK s \in Sigs : Submit(s)
    BY <1>1
  <2>1. CASE SubmitAggregated(s)
    <3> DEFINE grown(i) == [i EXCEPT !.occurrences = Cardinality(Recorded(s, arrivals[s] + 1)),
                                     !.ids = @ \cup {arrivals[s] + 1}]
    <3>1. \A i \in Item : grown(i).ids # {}
      BY DEF Item
    <3>2. heap' = {IF i.ticket = pending[s] THEN grown(i) ELSE i : i \in heap}
          /\ inHand' = inHand /\ hit' = hit
      BY <2>1 DEF SubmitAggregated, monitorVars, workerVars
    <3> HIDE DEF grown
    <3> QED
      BY <1>a, <3>1, <3>2 DEF ItemsStandForSomething
  <2>2. CASE ~SubmitAggregated(s)
    <3>1. /\ heap' \subseteq heap \cup {NewItem(s)} /\ inHand' = inHand
          /\ hit' = hit \/ hit' = {[sig |-> s, id |-> arrivals[s] + 1, at |-> clock]}
      BY <2>2 DEF Submit, SubmitCached, SubmitQueued, SubmitShedding, SubmitDropped, SubmitNew,
             workerVars, queueVars
    <3>2. NewItem(s).ids # {}
      BY DEF NewItem
    <3> HIDE DEF NewItem
    <3> QED
      BY <1>a, <3>1, <3>2 DEF ItemsStandForSomething
  <2> QED
    BY <2>1, <2>2
<1>2. CASE \E item \in heap : Take(item)
  BY <1>a, <1>2 DEF Take, ItemsStandForSomething, monitorVars
<1>3. CASE MonitorStep \/ FindNothing \/ InferenceSucceeds \/ InferenceFails \/ InferenceRaises \/ StoreInCache
           \/ WakeUp \/ WaitTimesOut \/ ClearEvent \/ LeaveLoop
           \/ (\E item \in inHand : EmitAnalysis(item)) \/ Stop \/ Tick \/ UNCHANGED vars
  <2>1. heap' = heap /\ inHand' \subseteq inHand /\ hit' \subseteq hit
    BY <1>3 DEF MonitorStep, EmitCached, Signal, FindNothing, InferenceSucceeds, InferenceFails, InferenceRaises, Abandon,
           StoreInCache, WakeUp, WaitTimesOut, ClearEvent, LeaveLoop, EmitAnalysis, Stop, Tick,
           vars, queueVars, monitorVars, workerVars
  <2> QED
    BY <1>a, <2>1 DEF ItemsStandForSomething
<1> QED
  BY <1>1, <1>2, <1>3 DEF Next, WorkerStep, WorkerOwnStep

LEMMA NextAnalyzerInv == ASSUME AnalyzerInv, [PipelineNext]_allVars PROVE AnalyzerInv'
<1>1. [Next]_vars
  BY PipelineStep
<1> QED
  BY <1>1, NextTypeInv, NextOneAtATime, NextStandForSomething DEF AnalyzerInv

LEMMA InitPipeInv == ASSUME PipelineInit PROVE PipeInv
<1>1. TypeInv
  BY InitTypeInv DEF PipelineInit
<1>2. OneAtATime /\ ItemsStandForSomething
  BY DEF PipelineInit, Init, OneAtATime, ItemsStandForSomething
<1>3. /\ file = [p \in Sigs |-> None] /\ genLock = Nobody
      /\ genPc = [t \in Emitting |-> "idle"]
      /\ task = [t \in Emitting |-> None] /\ draft = [t \in Emitting |-> None]
  BY DEF PipelineInit, G!Init, G!Threads, Emitting
<1>4. reported = [s \in Sigs |-> {}] /\ tally = [s \in Sigs |-> 0]
  BY DEF PipelineInit, Init
<1>5. worker \in Emitting /\ monitor \in Emitting
  BY DEF Emitting
<1>6. GenTypes /\ WorkerEmits /\ MonitorEmits
  BY <1>3, <1>5 DEF GenTypes, WorkerEmits, MonitorEmits
<1>7. LockedWriter /\ DraftCounts
  BY <1>3, PipelineAssumption DEF LockedWriter, DraftCounts, Emitting
<1>8. CountsMatch
  BY <1>3, <1>4, <1>5 DEF CountsMatch, Ahead
<1> QED
  BY <1>1, <1>2, <1>6, <1>7, <1>8 DEF PipeInv, AnalyzerInv

-----------------------------------------------------------------------------
(* Steps of the analyzer                                                      *)

LEMMA ThreadsDiffer == worker # monitor /\ worker \in Emitting /\ monitor \in Emitting
BY PipelineAssumption DEF Emitting

(* A thread inside handle_result takes none of them, and nothing else of what *)
(* the counts depend on moves.                                                *)
LEMMA AnalyzerAloneIsAside ==
    ASSUME AnalyzerAlone
    PROVE  /\ workerPc = "emit" => workerPc' = workerPc /\ inHand' = inHand
           /\ monitorPc = "emit" => monitorPc' = monitorPc /\ hit' = hit
           /\ UNCHANGED <<genVars, reported, tally>>
<1>1. CASE \E s \in Sigs : Submit(s)
  BY <1>1 DEF AnalyzerAlone, Submit, SubmitAggregated, SubmitCached, SubmitQueued, SubmitShedding,
         SubmitDropped, SubmitNew, Arrive, workerVars, monitorVars
<1>2. CASE Signal \/ Stop \/ Tick
  BY <1>2 DEF AnalyzerAlone, Signal, Stop, Tick, workerVars, monitorVars, historyVars
<1>3. CASE WorkerOwnStep
  BY <1>3 DEF AnalyzerAlone, WorkerOwnStep, Take, FindNothing, InferenceSucceeds, InferenceFails, InferenceRaises, Abandon,
         StoreInCache, WakeUp, WaitTimesOut, ClearEvent, LeaveLoop, monitorVars, historyVars
<1> QED
  BY <1>1, <1>2, <1>3 DEF AnalyzerAlone

LEMMA AnalyzerAlonePipeInv ==
    ASSUME PipeInv, AnalyzerInv', AnalyzerAlone \/ UNCHANGED allVars
    PROVE  PipeInv'
<1>1. /\ workerPc = "emit" => workerPc' = workerPc /\ inHand' = inHand
      /\ monitorPc = "emit" => monitorPc' = monitorPc /\ hit' = hit
      /\ UNCHANGED <<genVars, reported, tally>>
  <2>1. CASE UNCHANGED allVars
    BY <2>1 DEF allVars, vars, workerVars, monitorVars, historyVars
  <2> QED
    BY <2>1, AnalyzerAloneIsAside
<1>2. /\ file' = file /\ genLock' = genLock /\ genPc' = genPc /\ task' = task /\ draft' = draft
      /\ reported' = reported /\ tally' = tally
  BY <1>1 DEF genVars
<1>3. WorkerEmits' /\ MonitorEmits'
  BY <1>1, <1>2 DEF PipeInv, WorkerEmits, MonitorEmits, ResultOf, ResultOfHit
<1>4. GenTypes' /\ LockedWriter' /\ DraftCounts' /\ CountsMatch'
  BY <1>2 DEF PipeInv, GenTypes, LockedWriter, DraftCounts, CountsMatch, Ahead
<1> QED
  BY <1>3, <1>4 DEF PipeInv

-----------------------------------------------------------------------------
(* Steps of handle_result                                                     *)

(* The result a thread has in hand is one, and counts for something.          *)
LEMMA TaskIsResult ==
    ASSUME PipeInv, NEW t \in Emitting, genPc[t] # "idle"
    PROVE  /\ task[t] \in G!Result
           /\ task[t].problem \in Sigs /\ task[t].occurrences \in Nat \ {0}
           /\ task[t].at \in Nat /\ task[t].cached \in BOOLEAN
<1>1. inHand \in SUBSET Item /\ hit \in SUBSET Event
  BY DEF PipeInv, AnalyzerInv, TypeInv, TypeOK
<1>2. \/ \E i \in inHand : task[t] = ResultOf(i)
      \/ \E e \in hit : task[t] = ResultOfHit(e)
  BY DEF PipeInv, WorkerEmits, MonitorEmits, Emitting
<1>3. /\ task[t] \in G!Result
      /\ task[t].problem \in Sigs /\ task[t].occurrences \in Nat \ {0}
      /\ task[t].at \in Nat /\ task[t].cached \in BOOLEAN
  <2>1. \A i \in inHand : ResultOf(i) \in G!Result
    BY <1>1 DEF ResultOf, G!Result, Item
  <2>2. \A e \in hit : ResultOfHit(e) \in G!Result
    BY <1>1 DEF ResultOfHit, G!Result, Event
  <2>3. task[t] \in G!Result
    BY <1>2, <2>1, <2>2
  <2> QED
    BY <2>3 DEF G!Result
<1> QED
  BY <1>3

LEMMA CallsPipeInv ==
    ASSUME PipeInv, AnalyzerInv', WorkerCalls \/ MonitorCalls
    PROVE  PipeInv'
<1>a. /\ genPc \in [Emitting -> {"idle", "persist", "create", "update", "callback", "exporting"}]
      /\ task \in [Emitting -> G!Result \cup {None}]
      /\ inHand \in SUBSET Item /\ hit \in SUBSET Event
  BY DEF PipeInv, GenTypes, AnalyzerInv, TypeInv, TypeOK
<1>1. PICK t \in Emitting, r \in G!Result :
          /\ genPc[t] = "idle" /\ genPc' = [genPc EXCEPT ![t] = "persist"]
          /\ task' = [task EXCEPT ![t] = r]
          /\ UNCHANGED <<file, genLock, draft>>
          /\ \/ t = worker /\ workerPc = "emit" /\ \E i \in inHand : r = ResultOf(i)
             \/ t = monitor /\ monitorPc = "emit" /\ \E e \in hit : r = ResultOfHit(e)
  <2>1. \A i \in inHand : ResultOf(i) \in G!Result
    BY <1>a DEF ResultOf, G!Result, Item
  <2>2. \A e \in hit : ResultOfHit(e) \in G!Result
    BY <1>a DEF ResultOfHit, G!Result, Event
  <2> QED
    BY <2>1, <2>2, ThreadsDiffer DEF WorkerCalls, MonitorCalls, G!HandleResult, ResultOf, ResultOfHit
<1>2. UNCHANGED <<vars>>
  BY DEF WorkerCalls, MonitorCalls
<1>3. /\ workerPc' = workerPc /\ inHand' = inHand /\ monitorPc' = monitorPc /\ hit' = hit
      /\ reported' = reported /\ tally' = tally
  BY <1>2 DEF vars, workerVars, monitorVars, historyVars
<1>4. /\ \A u \in Emitting : u # t => genPc'[u] = genPc[u] /\ task'[u] = task[u]
      /\ genPc'[t] = "persist" /\ task'[t] = r
  BY <1>a, <1>1
<1>5. GenTypes'
  BY <1>1 DEF PipeInv, GenTypes
<1>6. WorkerEmits' /\ MonitorEmits'
  <2>1. CASE t = worker
    <3>1. WorkerEmits'
      BY <1>1, <1>3, <1>4, <2>1, ThreadsDiffer DEF WorkerEmits, ResultOf
    <3>2. MonitorEmits'
      BY <1>3, <1>4, <2>1, ThreadsDiffer DEF PipeInv, MonitorEmits, ResultOfHit
    <3> QED
      BY <3>1, <3>2
  <2>2. CASE t = monitor
    <3>1. MonitorEmits'
      BY <1>1, <1>3, <1>4, <2>2, ThreadsDiffer DEF MonitorEmits, ResultOfHit
    <3>2. WorkerEmits'
      BY <1>3, <1>4, <2>2, ThreadsDiffer DEF PipeInv, WorkerEmits, ResultOf
    <3> QED
      BY <3>1, <3>2
  <2> QED
    BY <2>1, <2>2 DEF Emitting
<1>7. LockedWriter' /\ DraftCounts'
  BY <1>1, <1>4 DEF PipeInv, LockedWriter, DraftCounts
<1>8. \A u \in Emitting, s \in Sigs : Ahead(u, s)' = Ahead(u, s)
  BY <1>1, <1>4 DEF Ahead
<1>9. CountsMatch'
  <2>1. file' = file
    BY <1>1
  <2> QED
    BY <1>3, <1>8, <2>1, ThreadsDiffer DEF PipeInv, CountsMatch
<1> QED
  BY <1>5, <1>6, <1>7, <1>9 DEF PipeInv

(* The merge starts from the count the file has, or from nothing.             *)
LEMMA MergedCount ==
    ASSUME NEW r \in G!Result, NEW old \in G!Document
    PROVE  /\ G!Built(r) \in G!Document /\ G!Built(r).total = r.occurrences
           /\ G!Merged(r, old) \in G!Document
           /\ G!Merged(r, old).total = old.total + r.occurrences
<1>1. G!NoExports \in G!Exports
  BY DEF G!NoExports, G!Exports
<1>2. G!Built(r) \in G!Document /\ G!Built(r).total = r.occurrences
  BY <1>1 DEF G!Built, G!Document, G!Result
<1> DEFINE new == G!Built(r)
           inferred == IF r.cached THEN 0 ELSE new.analyses
<1>3. /\ new.total \in Nat /\ inferred \in Nat
      /\ old.first \in Nat /\ old.total \in Nat /\ old.analyses \in Nat
      /\ old.exports \in G!Exports
  BY <1>2 DEF G!Document
<1>4. G!Merged(r, old) = [new EXCEPT !.first = old.first, !.total = old.total + @,
                                     !.analyses = old.analyses + inferred,
                                     !.exports = old.exports]
  BY DEF G!Merged
<1>5. new \in G!Document /\ new.total = r.occurrences
  BY <1>2
<1> HIDE DEF new, inferred
<1>6. old.total + new.total \in Nat /\ old.analyses + inferred \in Nat
  BY <1>3
<1>7. G!Merged(r, old) \in G!Document /\ G!Merged(r, old).total = old.total + r.occurrences
  BY <1>3, <1>4, <1>5, <1>6 DEF G!Document
<1> QED
  BY <1>2, <1>7

LEMMA ReadAndMergePipeInv ==
    ASSUME PipeInv, AnalyzerInv', NEW t \in Emitting, G!ReadAndMerge(t, TRUE), UNCHANGED vars
    PROVE  PipeInv'
<1> DEFINE p == task[t].problem
<1>a. /\ genPc \in [Emitting -> {"idle", "persist", "create", "update", "callback", "exporting"}]
      /\ file \in [Sigs -> G!Document \cup {None}]
      /\ draft \in [Emitting -> G!Document \cup {None}]
  BY DEF PipeInv, GenTypes
<1>b. /\ workerPc' = workerPc /\ inHand' = inHand /\ monitorPc' = monitorPc /\ hit' = hit
      /\ reported' = reported /\ tally' = tally
  BY DEF vars, workerVars, monitorVars, historyVars
<1>1. /\ genPc[t] = "persist" /\ genLock = Nobody /\ genLock' = t
      /\ file' = file /\ task' = task
  BY DEF G!ReadAndMerge
<1>2. task[t] \in G!Result /\ p \in Sigs
  BY <1>1, TaskIsResult
<1>3. PICK d \in G!Document, pc \in {"create", "update"} :
          /\ draft' = [draft EXCEPT ![t] = d] /\ genPc' = [genPc EXCEPT ![t] = pc]
          /\ pc = "create" => file[p] = None /\ d.total = task[t].occurrences
          /\ pc = "update" => file[p] # None /\ d.total = file[p].total + task[t].occurrences
  <2>1. CASE file[p] # None
    <3>1. file[p] \in G!Document
      BY <1>a, <1>2, <2>1
    <3>2. /\ draft' = [draft EXCEPT ![t] = G!Merged(task[t], file[p])]
          /\ genPc' = [genPc EXCEPT ![t] = "update"]
      BY <2>1 DEF G!ReadAndMerge
    <3> QED
      BY <1>2, <2>1, <3>1, <3>2, MergedCount
  <2>2. CASE file[p] = None
    <3>1. /\ draft' = [draft EXCEPT ![t] = G!Built(task[t])]
          /\ genPc' = [genPc EXCEPT ![t] = "create"]
      BY <2>2 DEF G!ReadAndMerge
    <3>2. G!Built(task[t]) \in G!Document /\ G!Built(task[t]).total = task[t].occurrences
      BY <1>1, <1>2, <2>2, TaskIsResult DEF G!Built, G!Document, G!NoExports, G!Exports
    <3> QED
      BY <2>2, <3>1, <3>2
  <2> QED
    BY <2>1, <2>2
<1>4. /\ genPc'[t] = pc /\ draft'[t] = d
      /\ \A u \in Emitting : u # t => genPc'[u] = genPc[u] /\ draft'[u] = draft[u]
  BY <1>a, <1>3
<1>5. \A u \in Emitting : genPc[u] \notin {"create", "update"}
  BY <1>1, PipelineAssumption DEF PipeInv, LockedWriter, Emitting
<1>6. GenTypes'
  BY <1>1, <1>3 DEF PipeInv, GenTypes
<1>7. WorkerEmits' /\ MonitorEmits'
  BY <1>b, <1>1, <1>4, ThreadsDiffer DEF PipeInv, WorkerEmits, MonitorEmits, ResultOf, ResultOfHit
<1>8. LockedWriter'
  BY <1>1, <1>4, <1>5 DEF LockedWriter
<1>9. DraftCounts'
  BY <1>1, <1>3, <1>4, <1>5 DEF DraftCounts
<1>10. \A u \in Emitting, s \in Sigs : Ahead(u, s)' = Ahead(u, s)
  BY <1>1, <1>4 DEF Ahead
<1>11. CountsMatch'
  BY <1>b, <1>1, <1>10, ThreadsDiffer DEF PipeInv, CountsMatch
<1> QED
  BY <1>6, <1>7, <1>8, <1>9, <1>11 DEF PipeInv

LEMMA WriteSucceedsPipeInv ==
    ASSUME PipeInv, AnalyzerInv', NEW t \in Emitting, G!WriteSucceeds(t), UNCHANGED vars
    PROVE  PipeInv'
<1> DEFINE p == task[t].problem
<1>a. /\ genPc \in [Emitting -> {"idle", "persist", "create", "update", "callback", "exporting"}]
      /\ file \in [Sigs -> G!Document \cup {None}]
      /\ tally \in [Sigs -> Nat]
  BY DEF PipeInv, GenTypes, AnalyzerInv, TypeInv, TypeOK
<1>b. /\ workerPc' = workerPc /\ inHand' = inHand /\ monitorPc' = monitorPc /\ hit' = hit
      /\ reported' = reported /\ tally' = tally
  BY DEF vars, workerVars, monitorVars, historyVars
<1>1. /\ genPc[t] \in {"create", "update"} /\ genLock' = Nobody
      /\ file' = [file EXCEPT ![p] = draft[t]] /\ genPc' = [genPc EXCEPT ![t] = "callback"]
      /\ task' = task /\ draft' = draft
  BY DEF G!WriteSucceeds
<1>2. p \in Sigs /\ task[t].occurrences \in Nat \ {0}
  BY <1>1, TaskIsResult
<1>3. genLock = t /\ draft[t] \in G!Document
  BY <1>1 DEF PipeInv, LockedWriter, DraftCounts
<1>4. draft[t] # None /\ draft[t].total \in Nat
  BY <1>3, PipelineAssumption DEF G!Document
<1>5. /\ genPc'[t] = "callback"
      /\ \A u \in Emitting : u # t => genPc'[u] = genPc[u] /\ genPc[u] \notin {"create", "update"}
      /\ file'[p] = draft[t] /\ \A s \in Sigs : s # p => file'[s] = file[s]
  BY <1>a, <1>1, <1>2, <1>3 DEF PipeInv, LockedWriter
<1>6. GenTypes'
  BY <1>1, <1>3 DEF PipeInv, GenTypes
<1>7. WorkerEmits' /\ MonitorEmits'
  BY <1>b, <1>1, <1>5, ThreadsDiffer DEF PipeInv, WorkerEmits, MonitorEmits, ResultOf, ResultOfHit
<1>8. LockedWriter' /\ DraftCounts'
  <2>1. \A u \in Emitting : genPc'[u] \notin {"create", "update"} /\ Nobody # u
    BY <1>5, PipelineAssumption DEF Emitting
  <2> QED
    BY <1>1, <2>1 DEF LockedWriter, DraftCounts
<1>9. /\ \A s \in Sigs : Ahead(t, s) = 0
      /\ \A s \in Sigs : Ahead(t, s)' = IF s = p THEN task[t].occurrences ELSE 0
      /\ \A u \in Emitting \ {t}, s \in Sigs : Ahead(u, s)' = Ahead(u, s)
  BY <1>1, <1>5 DEF Ahead
<1>10. \A u \in Emitting, s \in Sigs : Ahead(u, s) \in Nat
  BY <1>2, TaskIsResult DEF Ahead
<1>11. CountsMatch'
  <2> SUFFICES ASSUME NEW s \in Sigs
               PROVE  /\ file'[s] = None <=> /\ reported[s] = {} /\ Ahead(worker, s)' = 0
                                             /\ Ahead(monitor, s)' = 0
                      /\ file'[s] # None => file'[s].total =
                                                tally[s] + Ahead(worker, s)' + Ahead(monitor, s)'
                      /\ reported[s] = {} => tally[s] = 0
    BY <1>b DEF CountsMatch
  <2>a. /\ file[s] = None <=> reported[s] = {} /\ Ahead(worker, s) = 0 /\ Ahead(monitor, s) = 0
        /\ file[s] # None => file[s].total = tally[s] + Ahead(worker, s) + Ahead(monitor, s)
        /\ reported[s] = {} => tally[s] = 0
    BY DEF PipeInv, CountsMatch
  <2>b. PICK u \in Emitting \ {t} :
            /\ Ahead(worker, s) + Ahead(monitor, s) = Ahead(u, s)
            /\ Ahead(worker, s) = 0 /\ Ahead(monitor, s) = 0 <=> Ahead(u, s) = 0
            /\ Ahead(worker, s)' + Ahead(monitor, s)' = Ahead(t, s)' + Ahead(u, s)
            /\ Ahead(worker, s)' = 0 /\ Ahead(monitor, s)' = 0 <=>
                   Ahead(t, s)' = 0 /\ Ahead(u, s) = 0
    <3>1. CASE t = worker
      <4>1. monitor \in Emitting \ {t}
        BY <3>1, ThreadsDiffer
      <4> QED
        BY <1>2, <1>9, <1>10, <3>1, <4>1
    <3>2. CASE t = monitor
      <4>1. worker \in Emitting \ {t}
        BY <3>2, ThreadsDiffer
      <4>2. /\ Ahead(worker, s)' = Ahead(worker, s) /\ Ahead(monitor, s) = 0
            /\ Ahead(monitor, s)' \in Nat /\ Ahead(worker, s) \in Nat
        BY <1>2, <1>9, <1>10, <3>2, <4>1
      <4> QED
        BY <3>2, <4>1, <4>2
    <3> QED
      BY <3>1, <3>2 DEF Emitting
  <2>c. /\ tally[s] \in Nat
        /\ \A v \in Emitting : Ahead(v, s) \in Nat /\ Ahead(v, s)' \in Nat
    BY <1>a, <1>2, <1>9, <1>10
  <2>d. /\ file[s] = None <=> reported[s] = {} /\ Ahead(u, s) = 0
        /\ file[s] # None => file[s].total = tally[s] + Ahead(u, s)
    <3>1. file[s] = None <=> reported[s] = {} /\ Ahead(u, s) = 0
      BY <2>a, <2>b
    <3>2. tally[s] + Ahead(worker, s) + Ahead(monitor, s) = tally[s] + Ahead(u, s)
      BY <2>b, <2>c, ThreadsDiffer
    <3> QED
      BY <2>a, <3>1, <3>2
  <2>e. tally[s] + Ahead(worker, s)' + Ahead(monitor, s)' = tally[s] + Ahead(t, s)' + Ahead(u, s)
    BY <2>b, <2>c, ThreadsDiffer
  <2>1. CASE s # p
    <3>1. file'[s] = file[s] /\ Ahead(t, s)' = 0
      BY <1>5, <1>9, <2>1
    <3> QED
      BY <2>a, <2>b, <2>c, <2>d, <2>e, <3>1
  <2>2. CASE s = p /\ genPc[t] = "create"
    <3>1. file[s] = None /\ draft[t].total = task[t].occurrences
      BY <2>2 DEF PipeInv, DraftCounts
    <3> QED
      BY <1>2, <1>4, <1>5, <1>9, <2>2, <2>a, <2>b, <2>c, <2>d, <2>e, <3>1
  <2>3. CASE s = p /\ genPc[t] = "update"
    <3>1. file[s] # None /\ draft[t].total = file[s].total + task[t].occurrences
      BY <2>3 DEF PipeInv, DraftCounts
    <3> QED
      BY <1>2, <1>4, <1>5, <1>9, <2>3, <2>a, <2>b, <2>c, <2>d, <2>e, <3>1
  <2> QED
    BY <1>1, <2>1, <2>2, <2>3
<1> QED
  BY <1>6, <1>7, <1>8, <1>11 DEF PipeInv

LEMMA HandOnPipeInv ==
    ASSUME PipeInv, AnalyzerInv', NEW t \in Emitting, G!HandOn(t), UNCHANGED vars
    PROVE  PipeInv'
<1>a. genPc \in [Emitting -> {"idle", "persist", "create", "update", "callback", "exporting"}]
      /\ draft \in [Emitting -> G!Document \cup {None}]
  BY DEF PipeInv, GenTypes
<1>b. /\ workerPc' = workerPc /\ inHand' = inHand /\ monitorPc' = monitorPc /\ hit' = hit
      /\ reported' = reported /\ tally' = tally
  BY DEF vars, workerVars, monitorVars, historyVars
<1>1. /\ genPc[t] = "callback" /\ genPc' = [genPc EXCEPT ![t] = "exporting"]
      /\ draft' = [draft EXCEPT ![t] = None]
      /\ file' = file /\ genLock' = genLock /\ task' = task
  BY DEF G!HandOn
<1>2. /\ genPc'[t] = "exporting"
      /\ \A u \in Emitting : u # t => genPc'[u] = genPc[u] /\ draft'[u] = draft[u]
  BY <1>a, <1>1
<1>3. GenTypes'
  BY <1>1 DEF PipeInv, GenTypes
<1>4. WorkerEmits' /\ MonitorEmits'
  BY <1>b, <1>1, <1>2, ThreadsDiffer DEF PipeInv, WorkerEmits, MonitorEmits, ResultOf, ResultOfHit
<1>5. LockedWriter' /\ DraftCounts'
  BY <1>1, <1>2 DEF PipeInv, LockedWriter, DraftCounts
<1>6. \A u \in Emitting, s \in Sigs : Ahead(u, s)' = Ahead(u, s)
  BY <1>1, <1>2 DEF Ahead
<1>7. CountsMatch'
  BY <1>b, <1>1, <1>6, ThreadsDiffer DEF PipeInv, CountsMatch
<1> QED
  BY <1>3, <1>4, <1>5, <1>7 DEF PipeInv

(* What a thread was ahead by is settled when the analyzer's history takes it *)
(* over, in the step that returns.                                            *)
LEMMA ReturnSettles ==
    ASSUME PipeInv, NEW t \in Emitting, G!HandleReturns(t),
           \A s \in Sigs : /\ tally'[s] = tally[s] + Ahead(t, s)
                           /\ reported'[s] = {} <=> reported[s] = {} /\ Ahead(t, s) = 0
    PROVE  GenTypes' /\ LockedWriter' /\ DraftCounts' /\ CountsMatch'
<1>a. /\ genPc \in [Emitting -> {"idle", "persist", "create", "update", "callback", "exporting"}]
      /\ task \in [Emitting -> G!Result \cup {None}]
      /\ draft \in [Emitting -> G!Document \cup {None}]
      /\ tally \in [Sigs -> Nat]
  BY DEF PipeInv, GenTypes, AnalyzerInv, TypeInv, TypeOK
<1>1. /\ genPc[t] = "exporting" /\ genPc' = [genPc EXCEPT ![t] = "idle"]
      /\ task' = [task EXCEPT ![t] = None] /\ draft' = [draft EXCEPT ![t] = None]
      /\ file' = file /\ genLock' = genLock
  BY DEF G!HandleReturns
<1>2. /\ genPc'[t] = "idle"
      /\ \A u \in Emitting : u # t => /\ genPc'[u] = genPc[u] /\ task'[u] = task[u]
                                      /\ draft'[u] = draft[u]
  BY <1>a, <1>1
<1>3. GenTypes'
  BY <1>1 DEF PipeInv, GenTypes
<1>4. LockedWriter' /\ DraftCounts'
  BY <1>1, <1>2 DEF PipeInv, LockedWriter, DraftCounts
<1>5. /\ \A s \in Sigs : Ahead(t, s)' = 0
      /\ \A u \in Emitting, s \in Sigs : u # t => Ahead(u, s)' = Ahead(u, s)
  BY <1>1, <1>2 DEF Ahead
<1>6. \A u \in Emitting, s \in Sigs : Ahead(u, s) \in Nat
  BY TaskIsResult DEF Ahead
<1>7. CountsMatch'
  <2> SUFFICES ASSUME NEW s \in Sigs
               PROVE  /\ file[s] = None <=> /\ reported'[s] = {} /\ Ahead(worker, s)' = 0
                                            /\ Ahead(monitor, s)' = 0
                      /\ file[s] # None => file[s].total =
                                               tally'[s] + Ahead(worker, s)' + Ahead(monitor, s)'
                      /\ reported'[s] = {} => tally'[s] = 0
    BY <1>1 DEF CountsMatch
  <2>1. /\ file[s] = None <=> reported[s] = {} /\ Ahead(worker, s) = 0 /\ Ahead(monitor, s) = 0
        /\ file[s] # None => file[s].total = tally[s] + Ahead(worker, s) + Ahead(monitor, s)
        /\ reported[s] = {} => tally[s] = 0
    BY DEF PipeInv, CountsMatch
  <2>2. tally[s] \in Nat /\ Ahead(worker, s) \in Nat /\ Ahead(monitor, s) \in Nat
    BY <1>a, <1>6, ThreadsDiffer
  <2>3. CASE t = worker
    <3>1. Ahead(worker, s)' = 0 /\ Ahead(monitor, s)' = Ahead(monitor, s)
      BY <1>5, <2>3, ThreadsDiffer
    <3>2. /\ tally'[s] = tally[s] + Ahead(worker, s)
          /\ reported'[s] = {} <=> reported[s] = {} /\ Ahead(worker, s) = 0
      BY <2>3
    <3>3. tally'[s] + Ahead(worker, s)' + Ahead(monitor, s)'
              = tally[s] + Ahead(worker, s) + Ahead(monitor, s)
      BY <2>2, <3>1, <3>2
    <3>4. file[s] = None <=> /\ reported'[s] = {} /\ Ahead(worker, s)' = 0
                             /\ Ahead(monitor, s)' = 0
      BY <2>1, <3>1, <3>2
    <3>5. reported'[s] = {} => tally'[s] = 0
      BY <2>1, <3>2
    <3> QED
      BY <2>1, <3>3, <3>4, <3>5
  <2>4. CASE t = monitor
    <3>1. Ahead(monitor, s)' = 0 /\ Ahead(worker, s)' = Ahead(worker, s)
      BY <1>5, <2>4, ThreadsDiffer
    <3>2. /\ tally'[s] = tally[s] + Ahead(monitor, s)
          /\ reported'[s] = {} <=> reported[s] = {} /\ Ahead(monitor, s) = 0
      BY <2>4
    <3>3. tally'[s] + Ahead(worker, s)' + Ahead(monitor, s)'
              = tally[s] + Ahead(worker, s) + Ahead(monitor, s)
      BY <2>2, <3>1, <3>2
    <3>4. file[s] = None <=> /\ reported'[s] = {} /\ Ahead(worker, s)' = 0
                             /\ Ahead(monitor, s)' = 0
      BY <2>1, <3>1, <3>2
    <3>5. reported'[s] = {} => tally'[s] = 0
      BY <2>1, <3>2
    <3> QED
      BY <2>1, <3>3, <3>4, <3>5
  <2> QED
    BY <2>3, <2>4 DEF Emitting
<1> QED
  BY <1>3, <1>4, <1>7

LEMMA WorkerReturnsPipeInv ==
    ASSUME PipeInv, AnalyzerInv', WorkerReturns
    PROVE  PipeInv'
<1>1. PICK i \in inHand : EmitAnalysis(i)
  BY DEF WorkerReturns
<1>2. /\ inHand \in SUBSET Item /\ tally \in [Sigs -> Nat] /\ reported \in [Sigs -> SUBSET Nat]
      /\ i.ids # {} /\ \A j \in inHand : j = i
  BY DEF PipeInv, AnalyzerInv, TypeInv, TypeOK, OneAtATime, ItemsStandForSomething
<1>3. i.sig \in Sigs /\ i.occurrences \in Nat \ {0} /\ i.ids \in SUBSET Nat
  BY <1>2 DEF Item
<1>4. /\ reported' = [reported EXCEPT ![i.sig] = @ \cup i.ids]
      /\ tally' = [tally EXCEPT ![i.sig] = @ + i.occurrences]
      /\ monitorPc' = monitorPc /\ hit' = hit
  BY <1>1 DEF EmitAnalysis, monitorVars
<1>5. /\ genPc[worker] = "exporting" /\ genPc' = [genPc EXCEPT ![worker] = "idle"]
      /\ task' = [task EXCEPT ![worker] = None]
      /\ genPc \in [Emitting -> {"idle", "persist", "create", "update", "callback", "exporting"}]
      /\ task \in [Emitting -> G!Result \cup {None}]
  BY DEF WorkerReturns, G!HandleReturns, PipeInv, GenTypes
<1>6. task[worker] = ResultOf(i)
  BY <1>2, <1>5 DEF PipeInv, WorkerEmits
<1>7. \A s \in Sigs : Ahead(worker, s) = IF s = i.sig THEN i.occurrences ELSE 0
  BY <1>5, <1>6 DEF Ahead, ResultOf
<1>8. \A s \in Sigs : /\ tally'[s] = tally[s] + Ahead(worker, s)
                      /\ reported'[s] = {} <=> reported[s] = {} /\ Ahead(worker, s) = 0
  <2> TAKE s \in Sigs
  <2>1. CASE s = i.sig
    BY <1>2, <1>3, <1>4, <1>7, <2>1
  <2>2. CASE s # i.sig
    BY <1>2, <1>3, <1>4, <1>7, <2>2
  <2> QED
    BY <2>1, <2>2
<1>9. GenTypes' /\ LockedWriter' /\ DraftCounts' /\ CountsMatch'
  BY <1>8, ReturnSettles, ThreadsDiffer DEF WorkerReturns
<1>10. WorkerEmits' /\ MonitorEmits'
  <2>1. genPc'[worker] = "idle" /\ genPc'[monitor] = genPc[monitor] /\ task'[monitor] = task[monitor]
    BY <1>5, ThreadsDiffer
  <2> QED
    BY <1>4, <2>1 DEF PipeInv, WorkerEmits, MonitorEmits, ResultOfHit
<1> QED
  BY <1>9, <1>10 DEF PipeInv

LEMMA MonitorReturnsPipeInv ==
    ASSUME PipeInv, AnalyzerInv', MonitorReturns
    PROVE  PipeInv'
<1>1. EmitCached
  BY DEF MonitorReturns
<1>2. /\ tally \in [Sigs -> Nat] /\ \A e, f \in hit : e = f
  BY DEF PipeInv, AnalyzerInv, TypeInv, TypeOK, ItemsStandForSomething
<1>3. /\ genPc[monitor] = "exporting" /\ genPc' = [genPc EXCEPT ![monitor] = "idle"]
      /\ task' = [task EXCEPT ![monitor] = None]
      /\ genPc \in [Emitting -> {"idle", "persist", "create", "update", "callback", "exporting"}]
      /\ task \in [Emitting -> G!Result \cup {None}]
  BY DEF MonitorReturns, G!HandleReturns, PipeInv, GenTypes
<1>4. PICK e \in hit : task[monitor] = ResultOfHit(e)
  BY <1>3 DEF PipeInv, MonitorEmits
<1>5. /\ reported' = [s \in Sigs |-> reported[s] \cup {d.id : d \in {h \in hit : h.sig = s}}]
      /\ tally' = [s \in Sigs |-> tally[s] + (IF \E d \in hit : d.sig = s THEN 1 ELSE 0)]
      /\ workerPc' = workerPc /\ inHand' = inHand
  BY <1>1 DEF EmitCached, workerVars
<1>6. \A s \in Sigs : Ahead(monitor, s) = IF s = e.sig THEN 1 ELSE 0
  BY <1>3, <1>4 DEF Ahead, ResultOfHit
<1>7. \A s \in Sigs : /\ tally'[s] = tally[s] + Ahead(monitor, s)
                      /\ reported'[s] = {} <=> reported[s] = {} /\ Ahead(monitor, s) = 0
  <2> TAKE s \in Sigs
  <2>1. CASE s = e.sig
    <3>1. e.id \in {d.id : d \in {h \in hit : h.sig = s}}
      BY <2>1
    <3>2. reported'[s] # {} /\ tally'[s] = tally[s] + 1
      BY <1>5, <2>1, <3>1
    <3> QED
      BY <1>6, <2>1, <3>2
  <2>2. CASE s # e.sig
    <3>1. {h \in hit : h.sig = s} = {}
      BY <1>2, <2>2
    <3>2. {d.id : d \in {h \in hit : h.sig = s}} = {}
      BY <3>1
    <3>3. reported'[s] = reported[s] /\ tally'[s] = tally[s] + 0
      BY <1>2, <1>5, <2>2, <3>2
    <3> QED
      BY <1>6, <2>2, <3>3
  <2> QED
    BY <2>1, <2>2
<1>8. GenTypes' /\ LockedWriter' /\ DraftCounts' /\ CountsMatch'
  BY <1>7, ReturnSettles, ThreadsDiffer DEF MonitorReturns
<1>9. WorkerEmits' /\ MonitorEmits'
  <2>1. genPc'[monitor] = "idle" /\ genPc'[worker] = genPc[worker] /\ task'[worker] = task[worker]
    BY <1>3, ThreadsDiffer
  <2> QED
    BY <1>5, <2>1 DEF PipeInv, WorkerEmits, MonitorEmits, ResultOf
<1> QED
  BY <1>8, <1>9 DEF PipeInv

LEMMA NextPipeInv == ASSUME PipeInv, [PipelineNext]_allVars PROVE PipeInv'
<1>a. AnalyzerInv'
  BY NextAnalyzerInv DEF PipeInv
<1>1. CASE AnalyzerAlone \/ UNCHANGED allVars
  BY <1>a, <1>1, AnalyzerAlonePipeInv
<1>2. ASSUME NEW t \in {worker, monitor}, Emission(t)
      PROVE  PipeInv'
  <2>1. CASE WorkerCalls \/ MonitorCalls
    BY <1>a, <2>1, CallsPipeInv
  <2>2. CASE WorkerReturns
    BY <1>a, <2>2, WorkerReturnsPipeInv
  <2>3. CASE MonitorReturns
    BY <1>a, <2>3, MonitorReturnsPipeInv
  <2>4. CASE Persisting(t)
    BY <1>a, <2>4, ReadAndMergePipeInv, WriteSucceedsPipeInv, HandOnPipeInv
       DEF Persisting, Emitting
  <2> QED
    BY <1>2, <2>1, <2>2, <2>3, <2>4 DEF Emission
<1> QED
  BY <1>1, <1>2 DEF PipelineNext

(* Whichever of the two threads emits, and however their rewrites of the same *)
(* file interleave: between emissions a problem has a file exactly if it was  *)
(* reported, and the file's total is the sum of what was emitted, for any     *)
(* number of signatures and occurrences.                                      *)
THEOREM FilesCountEmissions == PipelineSpec => []ProposalsCountEmissions
<1>1. PipelineInit => PipeInv
  BY InitPipeInv
<1>2. PipeInv /\ [PipelineNext]_allVars => PipeInv'
  BY NextPipeInv
<1>3. PipeInv => ProposalsCountEmissions
  <2> SUFFICES ASSUME PipeInv, Quiet, NEW s \in Sigs
               PROVE  /\ file[s] = None <=> reported[s] = {}
                      /\ file[s] # None => file[s].total = tally[s]
    BY DEF ProposalsCountEmissions
  <2>1. Ahead(worker, s) = 0 /\ Ahead(monitor, s) = 0
    BY DEF Quiet, Ahead
  <2>2. tally[s] \in Nat
    BY DEF PipeInv, AnalyzerInv, TypeInv, TypeOK
  <2> QED
    BY <2>1, <2>2 DEF PipeInv, CountsMatch
<1> QED
  BY <1>1, <1>2, <1>3, PTL DEF PipelineSpec

(* In the pipeline, too, no waiting error is reported with fewer occurrences  *)
(* than are recent.                                                           *)
THEOREM PipelineCountsRecent == PipelineSpec => []RecentOccurrencesCounted
BY AnalyzerUndisturbed, RecentNeverUnderstated
=============================================================================
