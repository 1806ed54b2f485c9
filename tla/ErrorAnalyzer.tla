--------------------------- MODULE ErrorAnalyzer ---------------------------
(* error_analyzer.py: the severity-ordered analysis queue between the log     *)
(* monitor's thread, which calls submit(), and the worker thread, which calls *)
(* process_next() in a loop.                                                  *)
(*                                                                            *)
(* submit() runs under the analyzer's lock and is one action, except where    *)
(* it does something another thread can see in between: a cache hit keeps the *)
(* lock while the result callback runs (monitorPc = "emit"), and the wake-up  *)
(* event is set after the lock is released (monitorPc = "signal").            *)
(* process_next() gives the lock up around the inference and the callback.    *)
EXTENDS Integers, FiniteSets

CONSTANTS
    Sigs,               \* error signatures (ErrorEvent.signature)
    Priority,           \* estimate_priority of a signature's events
    MaxQueueSize,       \* max_queue_size
    RecurrenceWindow,   \* RECURRENCE_WINDOW_SECONDS, in ticks
    CacheTTL,           \* cache_ttl, in ticks
    MaxArrivals,        \* bound: for each signature, events submitted
    MaxClock            \* bound: ticks of the monotonic clock

ASSUME ConstantsAssumption ==
    /\ Priority \in [Sigs -> Nat]
    /\ MaxQueueSize \in Nat \ {0}
    /\ MaxArrivals \in [Sigs -> Nat]
    /\ {RecurrenceWindow, CacheTTL, MaxClock} \subseteq Nat

VARIABLES
    clock,          \* time.monotonic()
    heap,           \* _heap: the queued items
    pending,        \* _pending_signatures: the ticket of the waiting item
    nextTicket,     \* _counter
    seen,           \* _RecurrenceTracker._seen
    cache,          \* _cache: when the entry of a signature expires
    workAvailable,  \* _work_available
    stopRequested,  \* _stop
    monitorPc,      \* where the submitting thread stands
    hit,            \* the event a cache hit is being emitted for (at most one)
    workerPc,       \* where the worker thread stands
    inHand,         \* the item process_next() has popped (at most one)
    dropped, analyzed, failed,   \* the public counters
    arrivals,       \* history: events submitted so far, per signature
    reported,       \* history: events an emitted result stood for
    lost,           \* history: events dropped with their item or failed
    tally           \* history: sum of the occurrences emitted

queueVars   == <<heap, pending, nextTicket>>
monitorVars == <<monitorPc, hit>>
workerVars  == <<workerPc, inHand>>
counterVars == <<dropped, analyzed, failed>>
historyVars == <<arrivals, reported, lost, tally>>
vars == <<clock, queueVars, seen, cache, workAvailable, stopRequested,
          monitorVars, workerVars, counterVars, historyVars>>

NoTicket == -1      \* no entry in _pending_signatures
NoEntry  == -1      \* no entry in _cache

(* An item of the queue. `at` is the timestamp of the event that opened it,   *)
(* `ids` (history) the events it stands for: the first and the aggregated.    *)
Item == [ticket: Nat, sig: Sigs, at: Nat, occurrences: Nat \ {0},
         ids: SUBSET Nat]
Event == [sig: Sigs, id: Nat, at: Nat]

(* _RecurrenceTracker.record: what is left inside the window, and this event. *)
Recorded(s, id) == {r \in seen[s] : clock - r.at <= RecurrenceWindow}
                       \cup {[id |-> id, at |-> clock]}

CacheValid(s) == cache[s] # NoEntry /\ clock <= cache[s]

(* heap order: higher priority first, older first among equals.               *)
Before(i, j) == \/ Priority[i.sig] > Priority[j.sig]
                \/ Priority[i.sig] = Priority[j.sig] /\ i.ticket < j.ticket

(* Mutant of ShedBefore: the oldest is shed, whatever its priority.           *)
ShedBeforeByAge(i, j) == i.ticket < j.ticket

(* the item _shed_lowest picks: lowest priority, oldest among the lowest.     *)
ShedBefore(i, j) == \/ Priority[i.sig] < Priority[j.sig]
                    \/ Priority[i.sig] = Priority[j.sig] /\ i.ticket < j.ticket

Init ==
    /\ clock = 0
    /\ heap = {} /\ pending = [s \in Sigs |-> NoTicket] /\ nextTicket = 0
    /\ seen = [s \in Sigs |-> {}] /\ cache = [s \in Sigs |-> NoEntry]
    /\ workAvailable = FALSE /\ stopRequested = FALSE
    /\ monitorPc = "idle" /\ hit = {}
    /\ workerPc = "top" /\ inHand = {}
    /\ dropped = 0 /\ analyzed = 0 /\ failed = 0
    /\ arrivals = [s \in Sigs |-> 0]
    /\ reported = [s \in Sigs |-> {}]
    /\ lost = [s \in Sigs |-> {}]
    /\ tally = [s \in Sigs |-> 0]

LockFree == monitorPc # "emit"

-----------------------------------------------------------------------------
(* submit()                                                                   *)

(* What every call does first: the arrival is recorded in the window.         *)
Arrive(s) ==
    /\ monitorPc = "idle"
    /\ arrivals[s] < MaxArrivals[s]
    /\ arrivals' = [arrivals EXCEPT ![s] = @ + 1]
    /\ seen' = [seen EXCEPT ![s] = Recorded(s, arrivals[s] + 1)]

(* Mutant of SubmitAggregated: the item keeps the count it was queued with.   *)
SubmitAggregatedUncounted(s) ==
    /\ Arrive(s)
    /\ pending[s] # NoTicket
    /\ heap' = {IF i.ticket = pending[s] THEN [i EXCEPT !.ids = @ \cup {arrivals[s] + 1}]
                                         ELSE i : i \in heap}
    /\ UNCHANGED <<clock, pending, nextTicket, cache, workAvailable, stopRequested,
                   monitorVars, workerVars, counterVars, reported, lost, tally>>

(* The same error already waits: its item takes over the window's count.      *)
SubmitAggregated(s) ==
    /\ Arrive(s)
    /\ pending[s] # NoTicket
    /\ heap' = {IF i.ticket = pending[s]
                  THEN [i EXCEPT !.occurrences = Cardinality(Recorded(s, arrivals[s] + 1)),
                                 !.ids = @ \cup {arrivals[s] + 1}]
                  ELSE i : i \in heap}
    /\ UNCHANGED <<clock, pending, nextTicket, cache, workAvailable, stopRequested,
                   monitorVars, workerVars, counterVars, reported, lost, tally>>

(* A valid cached analysis: it is emitted for this event, under the lock.     *)
SubmitCached(s) ==
    /\ Arrive(s)
    /\ pending[s] = NoTicket
    /\ CacheValid(s)
    /\ monitorPc' = "emit"
    /\ hit' = {[sig |-> s, id |-> arrivals[s] + 1, at |-> clock]}
    /\ UNCHANGED <<clock, queueVars, cache, workAvailable, stopRequested,
                   workerVars, counterVars, reported, lost, tally>>

(* Neither waiting nor cached. An expired entry is purged and a ticket drawn  *)
(* whether or not there turns out to be room.                                 *)
NewItem(s) == [ticket |-> nextTicket, sig |-> s, at |-> clock,
               occurrences |-> Cardinality(Recorded(s, arrivals[s] + 1)),
               ids |-> {arrivals[s] + 1}]

SubmitNew(s) ==
    /\ Arrive(s)
    /\ pending[s] = NoTicket
    /\ ~CacheValid(s)
    /\ cache' = [cache EXCEPT ![s] = NoEntry]
    /\ nextTicket' = nextTicket + 1
    /\ UNCHANGED <<clock, workAvailable, stopRequested, hit, workerVars,
                   analyzed, failed, reported, tally>>

(* Mutant of SubmitQueued: the limit is compared with <=.                     *)
SubmitQueuedOverfull(s) ==
    /\ SubmitNew(s)
    /\ Cardinality(heap) <= MaxQueueSize
    /\ heap' = heap \cup {NewItem(s)}
    /\ pending' = [pending EXCEPT ![s] = nextTicket]
    /\ monitorPc' = "signal"
    /\ UNCHANGED <<dropped, lost>>

SubmitQueued(s) ==
    /\ SubmitNew(s)
    /\ Cardinality(heap) < MaxQueueSize
    /\ heap' = heap \cup {NewItem(s)}
    /\ pending' = [pending EXCEPT ![s] = nextTicket]
    /\ monitorPc' = "signal"
    /\ UNCHANGED <<dropped, lost>>

(* Mutants of SubmitShedding: the victim is not counted, or it need not be    *)
(* less urgent than the newcomer.                                             *)
SubmitSheddingUncounted(s, victim) ==
    /\ SubmitNew(s)
    /\ Cardinality(heap) >= MaxQueueSize
    /\ \A j \in heap \ {victim} : ShedBefore(victim, j)
    /\ Priority[victim.sig] < Priority[s]
    /\ heap' = (heap \ {victim}) \cup {NewItem(s)}
    /\ pending' = [pending EXCEPT ![victim.sig] = NoTicket, ![s] = nextTicket]
    /\ monitorPc' = "signal"
    /\ lost' = [lost EXCEPT ![victim.sig] = @ \cup victim.ids]
    /\ UNCHANGED dropped

SubmitSheddingAnything(s, victim) ==
    /\ SubmitNew(s)
    /\ Cardinality(heap) >= MaxQueueSize
    /\ \A j \in heap \ {victim} : ShedBefore(victim, j)
    /\ heap' = (heap \ {victim}) \cup {NewItem(s)}
    /\ pending' = [pending EXCEPT ![victim.sig] = NoTicket, ![s] = nextTicket]
    /\ monitorPc' = "signal"
    /\ dropped' = dropped + 1
    /\ lost' = [lost EXCEPT ![victim.sig] = @ \cup victim.ids]

(* Full, and something less urgent is queued: that item makes room.           *)
SubmitShedding(s, victim) ==
    /\ SubmitNew(s)
    /\ Cardinality(heap) >= MaxQueueSize
    /\ \A j \in heap \ {victim} : ShedBefore(victim, j)
    /\ Priority[victim.sig] < Priority[s]
    /\ heap' = (heap \ {victim}) \cup {NewItem(s)}
    /\ pending' = [pending EXCEPT ![victim.sig] = NoTicket, ![s] = nextTicket]
    /\ monitorPc' = "signal"
    /\ dropped' = dropped + 1
    /\ lost' = [lost EXCEPT ![victim.sig] = @ \cup victim.ids]

(* Full of errors at least as urgent: the new one is dropped.                 *)
SubmitDropped(s) ==
    /\ SubmitNew(s)
    /\ Cardinality(heap) >= MaxQueueSize
    /\ \A j \in heap : Priority[j.sig] >= Priority[s]
    /\ dropped' = dropped + 1
    /\ lost' = [lost EXCEPT ![s] = @ \cup {arrivals[s] + 1}]
    /\ UNCHANGED <<heap, pending, monitorPc>>

Submit(s) == \/ SubmitAggregated(s)
             \/ SubmitCached(s)
             \/ SubmitQueued(s)
             \/ \E victim \in heap : SubmitShedding(s, victim)
             \/ SubmitDropped(s)

(* _emit of a cache hit returns; submit() gives the lock up.                  *)
EmitCached ==
    /\ monitorPc = "emit"
    /\ monitorPc' = "idle"
    /\ hit' = {}
    /\ reported' = [s \in Sigs |->
                      reported[s] \cup {e.id : e \in {h \in hit : h.sig = s}}]
    /\ tally' = [s \in Sigs |->
                   tally[s] + (IF \E e \in hit : e.sig = s THEN 1 ELSE 0)]
    /\ UNCHANGED <<clock, queueVars, seen, cache, workAvailable, stopRequested,
                   workerVars, counterVars, arrivals, lost>>

(* _work_available.set(), after the lock.                                     *)
Signal ==
    /\ monitorPc = "signal"
    /\ monitorPc' = "idle"
    /\ workAvailable' = TRUE
    /\ UNCHANGED <<clock, queueVars, seen, cache, stopRequested, hit,
                   workerVars, counterVars, historyVars>>

-----------------------------------------------------------------------------
(* The worker: _run() around process_next()                                   *)

(* Mutants of Take: the waiting-table entry stays behind, or the item is only *)
(* looked at.                                                                 *)
TakeKeepingEntry(item) ==
    /\ workerPc = "top" /\ ~stopRequested
    /\ LockFree
    /\ \A j \in heap \ {item} : Before(item, j)
    /\ heap' = heap \ {item}
    /\ inHand' = {item}
    /\ workerPc' = "infer"
    /\ UNCHANGED <<clock, pending, nextTicket, seen, cache, workAvailable, stopRequested,
                   monitorVars, counterVars, historyVars>>

TakePeeking(item) ==
    /\ workerPc = "top" /\ ~stopRequested
    /\ LockFree
    /\ \A j \in heap \ {item} : Before(item, j)
    /\ inHand' = {item}
    /\ workerPc' = "infer"
    /\ UNCHANGED <<clock, heap, pending, nextTicket, seen, cache, workAvailable,
                   stopRequested, monitorVars, counterVars, historyVars>>

Take(item) ==
    /\ workerPc = "top" /\ ~stopRequested
    /\ LockFree
    /\ \A j \in heap \ {item} : Before(item, j)
    /\ heap' = heap \ {item}
    /\ pending' = [pending EXCEPT ![item.sig] = NoTicket]
    /\ inHand' = {item}
    /\ workerPc' = "infer"
    /\ UNCHANGED <<clock, nextTicket, seen, cache, workAvailable, stopRequested,
                   monitorVars, counterVars, historyVars>>

FindNothing ==
    /\ workerPc = "top" /\ ~stopRequested
    /\ LockFree
    /\ heap = {}
    /\ workerPc' = "wait"
    /\ UNCHANGED <<clock, queueVars, seen, cache, workAvailable, stopRequested,
                   monitorVars, inHand, counterVars, historyVars>>

(* llm_client.analyze answers.                                                *)
InferenceSucceeds ==
    /\ workerPc = "infer"
    /\ analyzed' = analyzed + 1
    /\ workerPc' = "store"
    /\ UNCHANGED <<clock, queueVars, seen, cache, workAvailable, stopRequested,
                   monitorVars, inHand, dropped, failed, historyVars>>

(* What happens to the item when llm_client.analyze raises: it is let go of.  *)
Abandon ==
    /\ workerPc = "infer"
    /\ lost' = [s \in Sigs |->
                  lost[s] \cup UNION {i.ids : i \in {h \in inHand : h.sig = s}}]
    /\ inHand' = {}
    /\ UNCHANGED <<clock, queueVars, seen, cache, workAvailable, stopRequested,
                   monitorVars, dropped, analyzed, arrivals, reported, tally>>

(* Mutant of InferenceFails: the item goes back into the queue.               *)
InferenceFailsRequeuing ==
    /\ workerPc = "infer"
    /\ heap' = heap \cup inHand
    /\ pending' = [s \in Sigs |-> IF \E i \in inHand : i.sig = s
                                    THEN CHOOSE t \in {i.ticket : i \in inHand} : TRUE
                                    ELSE pending[s]]
    /\ inHand' = {}
    /\ workerPc' = "wait"
    /\ UNCHANGED <<clock, nextTicket, seen, cache, workAvailable, stopRequested,
                   monitorVars, counterVars, historyVars>>

(* LLMError: timeout, refusal or an unusable answer. process_next() returns   *)
(* None, so the loop goes on to wait as if the queue were empty.              *)
InferenceFails ==
    /\ Abandon
    /\ failed' = failed + 1
    /\ workerPc' = "wait"

(* Anything else it raises (ModelClient has two answers that do) leaves       *)
(* process_next() and _run(), neither of which catches it: the thread is dead,*)
(* no counter is told, and what is queued stays queued.                       *)
InferenceRaises ==
    /\ Abandon
    /\ workerPc' = "dead"
    /\ UNCHANGED failed

StoreInCache ==
    /\ workerPc = "store"
    /\ LockFree
    /\ cache' = [s \in Sigs |-> IF \E i \in inHand : i.sig = s
                                  THEN clock + CacheTTL ELSE cache[s]]
    /\ workerPc' = "emit"
    /\ UNCHANGED <<clock, queueVars, seen, workAvailable, stopRequested,
                   monitorVars, inHand, counterVars, historyVars>>

(* _emit of the worker's own result returns: no lock is held around it.       *)
EmitAnalysis(item) ==
    /\ workerPc = "emit"
    /\ reported' = [reported EXCEPT ![item.sig] = @ \cup item.ids]
    /\ tally' = [tally EXCEPT ![item.sig] = @ + item.occurrences]
    /\ inHand' = {}
    /\ workerPc' = "top"
    /\ UNCHANGED <<clock, queueVars, seen, cache, workAvailable, stopRequested,
                   monitorVars, counterVars, arrivals, lost>>

(* _work_available.wait(1.0): the event is set ...                            *)
WakeUp ==
    /\ workerPc = "wait" /\ workAvailable
    /\ workerPc' = "clear"
    /\ UNCHANGED <<clock, queueVars, seen, cache, workAvailable, stopRequested,
                   monitorVars, inHand, counterVars, historyVars>>

(* ... or its second is over.                                                 *)
WaitTimesOut ==
    /\ workerPc = "wait" /\ ~workAvailable
    /\ workerPc' = "clear"
    /\ UNCHANGED <<clock, queueVars, seen, cache, workAvailable, stopRequested,
                   monitorVars, inHand, counterVars, historyVars>>

ClearEvent ==
    /\ workerPc = "clear"
    /\ workAvailable' = FALSE
    /\ workerPc' = "top"
    /\ UNCHANGED <<clock, queueVars, seen, cache, stopRequested,
                   monitorVars, inHand, counterVars, historyVars>>

(* The loop's test of _stop.                                                  *)
LeaveLoop ==
    /\ workerPc = "top" /\ stopRequested
    /\ workerPc' = "done"
    /\ UNCHANGED <<clock, queueVars, seen, cache, workAvailable, stopRequested,
                   monitorVars, inHand, counterVars, historyVars>>

-----------------------------------------------------------------------------
(* stop() sets both events; joining the thread changes nothing here.          *)
Stop ==
    /\ ~stopRequested
    /\ stopRequested' = TRUE
    /\ workAvailable' = TRUE
    /\ UNCHANGED <<clock, queueVars, seen, cache, monitorVars, workerVars,
                   counterVars, historyVars>>

Tick ==
    /\ clock < MaxClock
    /\ clock' = clock + 1
    /\ UNCHANGED <<queueVars, seen, cache, workAvailable, stopRequested,
                   monitorVars, workerVars, counterVars, historyVars>>

(* Everything but the return of a result callback, which a composition may    *)
(* want to happen at the end of the steps the callback is made of.            *)
WorkerOwnStep == \/ \E item \in heap : Take(item)
                 \/ FindNothing
                 \/ InferenceSucceeds
                 \/ InferenceFails
                 \/ InferenceRaises
                 \/ StoreInCache
                 \/ WakeUp
                 \/ WaitTimesOut
                 \/ ClearEvent
                 \/ LeaveLoop

WorkerStep == WorkerOwnStep \/ \E item \in inHand : EmitAnalysis(item)

MonitorStep == EmitCached \/ Signal

Next == \/ \E s \in Sigs : Submit(s)
        \/ MonitorStep
        \/ WorkerStep
        \/ Stop
        \/ Tick

Spec == Init /\ [][Next]_vars

(* The threads are scheduled, an inference ends in one way or another, and    *)
(* wait(1.0) ends. Nothing obliges it to end well, an error to arrive, time   *)
(* to be observed, or anyone to stop the service.                             *)
Fairness == WF_vars(WorkerStep) /\ WF_vars(MonitorStep)

FairSpec == Spec /\ Fairness

-----------------------------------------------------------------------------
(* Properties                                                                 *)

TypeOK ==
    /\ clock \in Nat
    /\ heap \in SUBSET Item
    /\ pending \in [Sigs -> Nat \cup {NoTicket}]
    /\ nextTicket \in Nat
    /\ seen \in [Sigs -> SUBSET [id: Nat, at: Nat]]
    /\ cache \in [Sigs -> Nat \cup {NoEntry}]
    /\ workAvailable \in BOOLEAN /\ stopRequested \in BOOLEAN
    /\ monitorPc \in {"idle", "emit", "signal"}
    /\ hit \in SUBSET Event
    /\ workerPc \in {"top", "infer", "store", "emit", "wait", "clear", "done", "dead"}
    /\ inHand \in SUBSET Item
    /\ dropped \in Nat /\ analyzed \in Nat /\ failed \in Nat
    /\ arrivals \in [Sigs -> Nat]
    /\ reported \in [Sigs -> SUBSET Nat]
    /\ lost \in [Sigs -> SUBSET Nat]
    /\ tally \in [Sigs -> Nat]

(* The queue and the table of waiting signatures describe the same items: one *)
(* item for each waiting signature, and no entry that outlives its item. An   *)
(* entry left behind would aggregate every later occurrence into nowhere.     *)
QueueMirrorsPending ==
    /\ \A s \in Sigs : pending[s] # NoTicket =>
           \E i \in heap : i.sig = s /\ i.ticket = pending[s]
    /\ \A i \in heap : pending[i.sig] = i.ticket
    /\ \A i, j \in heap : i.ticket = j.ticket => i = j

(* The queue never holds more than max_queue_size items.                      *)
QueueBounded == Cardinality(heap) <= MaxQueueSize

(* Where an occurrence can be: queued, in the worker's hands, being emitted   *)
(* from the cache, reported, or lost with a counted item.                     *)
Held(s) == (UNION {i.ids : i \in {j \in heap \cup inHand : j.sig = s}})
               \cup {e.id : e \in {h \in hit : h.sig = s}}

(* No occurrence handed to submit() disappears: each is held, was reported,   *)
(* or went with an item that dropped_count or failed_count counted, or with   *)
(* the analysis whose exception ended the worker.                             *)
NoErrorSwallowed ==
    \A s \in Sigs : Held(s) \cup reported[s] \cup lost[s] = 1 .. arrivals[s]

(* ... and none is in two places: no occurrence is reported twice, and none   *)
(* is reported after it was given up for lost.                                *)
ReportedOnce ==
    \A s \in Sigs :
        /\ Held(s) \cap (reported[s] \cup lost[s]) = {}
        /\ reported[s] \cap lost[s] = {}
        /\ \A i, j \in heap \cup inHand : i.sig = s /\ j.sig = s /\ i # j =>
               i.ids \cap j.ids = {}

(* The public counters account for every ticket drawn: an item is queued, in  *)
(* inference, or counted once as dropped, analysed or failed. The one whose   *)
(* exception ended the worker is counted nowhere.                             *)
Uncounted == IF workerPc \in {"infer", "dead"} THEN 1 ELSE 0

TicketsAccounted ==
    nextTicket = Cardinality(heap) + Uncounted + dropped + analyzed + failed

Tickets(S) == {i.ticket : i \in S}

LeavesFairly(i) ==
    \/ i \in inHand'
    \/ /\ \E k \in heap' : k.ticket \notin Tickets(heap) /\ Priority[k.sig] > Priority[i.sig]
       /\ \A j \in heap : Priority[j.sig] >= Priority[i.sig]

LeaversFair == \A i \in heap : i.ticket \notin Tickets(heap') => LeavesFairly(i)

(* An item leaves the queue for the worker, or for a strictly more urgent     *)
(* error; in the second case nothing less urgent than the victim stays.       *)
ShedsOnlyLessUrgent == [][LeaversFair]_vars

(* What the prompt and the proposal are told about a waiting error covers at  *)
(* least those of its occurrences that are still recent.                      *)
RecentOccurrencesCounted ==
    \A i \in heap :
        i.occurrences >= Cardinality({r \in seen[i.sig] :
                                        r.id \in i.ids /\ clock - r.at <= RecurrenceWindow})

(* Stated by error_analyzer.py:162-164 and docs/operations.md:118: the sum of *)
(* what the emitted results say happened never exceeds what did happen.       *)
OccurrencesNotOvercounted == \A s \in Sigs : tally[s] <= arrivals[s]

(* Everything held is eventually reported or given up, unless the service is  *)
(* stopped or an exception has ended the worker, though a failed inference    *)
(* sends the loop to sleep over a queue that may not be empty, with the       *)
(* wake-up event already consumed.                                            *)
EveryErrorSettled ==
    \A s \in Sigs : Held(s) # {} ~> (Held(s) = {} \/ stopRequested \/ workerPc = "dead")

(* The queue keeps the promise of ErrorFates; what is open is what is held.   *)
Fates == INSTANCE ErrorFates WITH open <- [s \in Sigs |-> Held(s)]

ImplementsErrorFates == Fates!Spec
=============================================================================
