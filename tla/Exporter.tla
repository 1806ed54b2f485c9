------------------------------ MODULE Exporter ------------------------------
(* export/exporter.py: the threads that emit proposals queue them for every   *)
(* sink (submit), the export thread sends what is due (deliver_once), and     *)
(* both tell the proposal file what became of it (on_delivery, recorded under *)
(* the generator's lock and therefore one step).                              *)
EXTENDS Spool

CONSTANTS
    Problems, Sinks, Submitters,
    Kind,           \* sink -> "http" (webhook, OTLP), "mqtt", "mqtt at qos 0",
                    \* "syslog" or "tracker" (an issue lifecycle)
    None,           \* no submission in progress; no record being delivered
    MaxPuts,        \* bound: records queued
    MaxRestarts     \* bound: crashes and restarts

VARIABLES
    submission,     \* thread -> the proposal it is queuing, or None
    exportPc,       \* where the export thread stands
    batch,          \* the snapshot deliver_once iterates over
    current,        \* the record of the batch being delivered, or None
    answer,         \* what became of the current attempt
    stopping,       \* _stop
    configured,     \* the sinks of the running configuration
    status,         \* proposal's exports: problem -> sink -> status
    restarts,       \* history: restarts so far
    received,       \* history: ids that reached their sink
    acknowledged,   \* history: ids whose success the export thread has seen
    abandoned       \* history: ids discarded because their sink was removed

workerVars == <<exportPc, batch, current, answer, stopping>>
historyVars == <<restarts, received, acknowledged, abandoned>>
vars == <<spoolVars, submission, workerVars, configured, status, historyVars>>

ASSUME ExporterAssumption ==
    /\ {MaxPuts, MaxRestarts} \subseteq Nat
    /\ Kind \in [Sinks -> {"http", "mqtt", "mqtt at qos 0", "syslog", "tracker"}]

Init ==
    /\ SpoolInit
    /\ submission = [t \in Submitters |-> None]
    /\ exportPc = "deliver" /\ batch = {} /\ current = None /\ answer = "none"
    /\ stopping = FALSE
    /\ configured \in (SUBSET Sinks) \ {{}}
    /\ status = [p \in Problems |-> [k \in Sinks |-> "none"]]
    /\ restarts = 0 /\ received = {} /\ acknowledged = {} /\ abandoned = {}

-----------------------------------------------------------------------------
(* submit(proposal), on the thread that emitted it                            *)

Submit(t, p) ==
    /\ submission[t] = None
    /\ lastId < MaxPuts
    /\ configured # {}
    /\ submission' = [submission EXCEPT ![t] =
                        [problem |-> p, todo |-> configured, notify |-> {}]]
    /\ UNCHANGED <<spoolVars, workerVars, configured, status, historyVars>>

(* For each sink in turn: put the record ...                                  *)
PutRecord(t, sink) ==
    /\ submission[t] # None /\ submission[t].notify = {}
    /\ sink \in submission[t].todo
    /\ lastId < MaxPuts
    /\ Put(submission[t].problem, sink)
    /\ submission' = [submission EXCEPT ![t].todo = @ \ {sink},
                                        ![t].notify = {sink}]
    /\ UNCHANGED <<workerVars, configured, status, historyVars>>

(* (the disk refuses: nothing queued, nothing recorded)                       *)
PutRefused(t, sink) ==
    /\ submission[t] # None /\ submission[t].notify = {}
    /\ sink \in submission[t].todo
    /\ submission' = [submission EXCEPT ![t].todo = @ \ {sink}]
    /\ UNCHANGED <<spoolVars, workerVars, configured, status, historyVars>>

(* ... then record it as pending.                                             *)
NotifyPending(t) ==
    /\ submission[t] # None
    /\ \E sink \in submission[t].notify :
           status' = [status EXCEPT ![submission[t].problem][sink] = "pending"]
    /\ submission' = [submission EXCEPT ![t].notify = {}]
    /\ UNCHANGED <<spoolVars, workerVars, configured, historyVars>>

SubmitReturns(t) ==
    /\ submission[t] # None /\ submission[t].notify = {} /\ submission[t].todo = {}
    /\ submission' = [submission EXCEPT ![t] = None]
    /\ UNCHANGED <<spoolVars, workerVars, configured, status, historyVars>>

-----------------------------------------------------------------------------
(* _run / deliver_once / _deliver                                             *)

Done == current' = None /\ answer' = "none" /\ exportPc' = "next"

TakeSnapshot ==
    /\ exportPc = "deliver" /\ ~stopping
    /\ LoadAll
    /\ batch' = Due
    /\ exportPc' = "next"
    /\ UNCHANGED <<submission, current, answer, stopping, configured, status, historyVars>>

(* oldest first; _stop is looked at between records                           *)
NextRecord(record) ==
    /\ exportPc = "next" /\ ~stopping
    /\ \A e \in batch : record.id <= e.id
    /\ batch' = batch \ {record}
    /\ current' = record
    /\ exportPc' = IF record.sink \in configured THEN "send" ELSE "discard"
    /\ UNCHANGED <<spoolVars, submission, answer, stopping, configured, status, historyVars>>

EndOfBatch ==
    /\ exportPc = "next"
    /\ batch = {} \/ stopping
    /\ batch' = {}
    /\ exportPc' = "sweep"
    /\ UNCHANGED <<spoolVars, submission, current, answer, stopping, configured, status, historyVars>>

(* What the sinks of event_sinks.py answer, and whether the record arrived.   *)
(* SinkError means that nobody knows, "broken" is any other exception.        *)
Answered(outcome, arrival) == [outcome: {outcome}, arrived: arrival]

(* POST and raise_for_status: a success is the receiver's own word.           *)
Posted == Answered("ok", {TRUE}) \cup Answered("SinkError", BOOLEAN)
              \cup Answered("broken", {FALSE})

(* publish.single waits for the broker's acknowledgement at QoS 1 and 2, at   *)
(* QoS 0 only until the bytes are written; every exception, that of a missing *)
(* library too, becomes a SinkError.                                          *)
Published == Answered("ok", {TRUE}) \cup Answered("SinkError", BOOLEAN)
Uttered == Answered("ok", BOOLEAN) \cup Answered("SinkError", BOOLEAN)

(* A datagram sent, or bytes left with the local socket, count as delivered.  *)
Logged == Answered("ok", BOOLEAN) \cup Answered("SinkError", BOOLEAN)
              \cup Answered("broken", {FALSE})

(* IssueLifecycle.handle returns after whatever it did about the problem,     *)
(* often nothing: a severity below the threshold, a recent update. It can     *)
(* also raise after the tracker has been told (module IssueLifecycle).        *)
Handled == Answered("ok", BOOLEAN) \cup Answered("SinkError", BOOLEAN)
               \cup Answered("broken", BOOLEAN)

Answers(sink) == CASE Kind[sink] = "http" -> Posted
                   [] Kind[sink] = "mqtt" -> Published
                   [] Kind[sink] = "mqtt at qos 0" -> Uttered
                   [] Kind[sink] = "syslog" -> Logged
                   [] Kind[sink] = "tracker" -> Handled

Send(answered) ==
    /\ exportPc = "send"
    /\ answered \in Answers(current.sink)
    /\ received' = IF answered.arrived THEN received \cup {current.id} ELSE received
    /\ answer' = answered.outcome
    /\ exportPc' = "settle"
    /\ UNCHANGED <<spoolVars, submission, batch, current, stopping, configured, status,
                   restarts, acknowledged, abandoned>>

SettleDelivered ==
    /\ exportPc = "settle" /\ answer = "ok"
    /\ Succeed(current)
    /\ acknowledged' = acknowledged \cup {current.id}
    /\ exportPc' = "notify"
    /\ UNCHANGED <<submission, batch, current, answer, stopping, configured, status,
                   restarts, received, abandoned>>

SettleFailed ==
    /\ exportPc = "settle" /\ answer # "ok"
    /\ FailExpired(current) \/ FailRetry(current) \/ FailUnwritten(current)
    /\ IF answer = "SinkError"
         THEN exportPc' = "notify" /\ UNCHANGED <<current, answer>>
         ELSE Done
    /\ UNCHANGED <<submission, batch, stopping, configured, status, historyVars>>

(* a record for a sink that is no longer configured counts as delivered       *)
DiscardUnknown ==
    /\ exportPc = "discard"
    /\ Succeed(current)
    /\ abandoned' = abandoned \cup {current.id}
    /\ Done
    /\ UNCHANGED <<submission, batch, stopping, configured, status, restarts, received, acknowledged>>

(* Mutants of NotifyOutcome: the record is scheduled again because noting its *)
(* outcome failed; a failure is recorded as delivered, too.                   *)
NotifyRescheduling ==
    /\ exportPc = "notify"
    /\ FailExpired(current) \/ FailRetry(current)
    /\ Done
    /\ UNCHANGED <<submission, batch, stopping, configured, status, historyVars>>

NotifyDelivered ==
    /\ exportPc = "notify"
    /\ status' = [status EXCEPT ![current.problem][current.sink] = "delivered"]
    /\ Done
    /\ UNCHANGED <<spoolVars, submission, batch, stopping, configured, historyVars>>

NotifyOutcome ==
    /\ exportPc = "notify"
    /\ status' = [status EXCEPT ![current.problem][current.sink] =
                    IF answer = "ok" THEN "delivered" ELSE "failed"]
    /\ Done
    /\ UNCHANGED <<spoolVars, submission, batch, stopping, configured, historyVars>>

(* Every 15 minutes the age ceiling is enforced too.                          *)
Sweep(due) ==
    /\ exportPc = "sweep"
    /\ IF due THEN PurgeExpired ELSE UNCHANGED spoolVars
    /\ exportPc' = "wait"
    /\ UNCHANGED <<submission, batch, current, answer, stopping, configured, status, historyVars>>

(* _wake.wait(poll_interval) ends in any case; _wake only makes it shorter.   *)
WaitEnds ==
    /\ exportPc = "wait"
    /\ exportPc' = IF stopping THEN "done" ELSE "deliver"
    /\ UNCHANGED <<spoolVars, submission, batch, current, answer, stopping, configured, status, historyVars>>

Stop ==
    /\ ~stopping /\ stopping' = TRUE
    /\ exportPc' = IF exportPc = "deliver" THEN "done" ELSE exportPc
    /\ UNCHANGED <<spoolVars, submission, batch, current, answer, configured, status, historyVars>>

-----------------------------------------------------------------------------
(* The process dies or is stopped, and starts with the configuration it then  *)
(* finds. Dying inside fail's rewrite may leave the file truncated. Without a *)
(* sink no export thread is started, and nobody looks at the spool.           *)
Restart(sinks, halfWritten) ==
    /\ restarts < MaxRestarts
    /\ restarts' = restarts + 1
    /\ halfWritten \subseteq (IF exportPc = "settle" /\ answer # "ok" THEN {current.id} ELSE {})
    /\ Reopen(halfWritten)
    /\ submission' = [t \in Submitters |-> None]
    /\ exportPc' = IF sinks = {} THEN "off" ELSE "deliver"
    /\ batch' = {} /\ current' = None /\ answer' = "none"
    /\ stopping' = FALSE
    /\ configured' = sinks
    /\ UNCHANGED <<status, received, acknowledged, abandoned>>

Tick ==
    /\ Elapse
    /\ batch' = {Older(e) : e \in batch}
    /\ current' = IF current = None THEN None ELSE Older(current)
    /\ UNCHANGED <<submission, exportPc, answer, stopping, configured, status, historyVars>>

SubmitterStep(t) ==
    \/ \E sink \in Sinks : PutRecord(t, sink) \/ PutRefused(t, sink)
    \/ NotifyPending(t)
    \/ SubmitReturns(t)

ExportStep ==
    \/ TakeSnapshot
    \/ \E record \in batch : NextRecord(record)
    \/ EndOfBatch
    \/ \E answered \in Handled : Send(answered)
    \/ SettleDelivered
    \/ SettleFailed
    \/ DiscardUnknown
    \/ NotifyOutcome
    \/ \E due \in BOOLEAN : Sweep(due)
    \/ WaitEnds

Next ==
    \/ \E t \in Submitters : \/ \E p \in Problems : Submit(t, p)
                             \/ SubmitterStep(t)
    \/ ExportStep
    \/ Stop
    \/ \E sinks \in SUBSET Sinks, half \in SUBSET (1 .. MaxPuts) : Restart(sinks, half)
    \/ Tick

Spec == Init /\ [][Next]_vars

(* The export thread is scheduled and time passes; no sink need ever answer.  *)
FairSpec == /\ Spec
            /\ WF_vars(ExportStep)
            /\ WF_vars(Tick)

-----------------------------------------------------------------------------
(* Properties                                                                 *)

Entry == [id: 1 .. MaxPuts, problem: Problems, sink: Sinks, attempts: Nat,
          age: 0 .. MaxAge + 1, wait: 0 .. MaxBackoff, torn: BOOLEAN]

TypeOK ==
    /\ spool \in SUBSET Entry
    /\ batch \in SUBSET Entry /\ current \in Entry \cup {None}
    /\ lastId \in 0 .. MaxPuts
    /\ {queued, delivered, dropped, expired} \subseteq Nat
    /\ submission \in [Submitters -> {None} \cup
           [problem: Problems, todo: SUBSET Sinks, notify: SUBSET Sinks]]
    /\ exportPc \in {"deliver", "next", "send", "settle", "discard", "notify",
                     "sweep", "wait", "done", "off"}
    /\ faults \in 0 .. MaxFaults /\ undeleted \subseteq 1 .. MaxPuts
    /\ answer \in {"none", "ok", "SinkError", "broken"}
    /\ stopping \in BOOLEAN
    /\ configured \subseteq Sinks
    /\ status \in [Problems -> [Sinks -> {"none", "pending", "delivered", "failed"}]]

(* Store and forward: a record once put is on disk until its sink has it, or  *)
(* until a limit the operator is told of (size, age, a removed sink, a broken *)
(* file) took it; no failure, restart or race with a submitter loses one. Of  *)
(* a sink that does not confirm, only that the record was sent.               *)
Confirms(sink) == Kind[sink] \in {"http", "mqtt"}

SentUnconfirmed == {r.id : r \in {r \in accepted : ~Confirms(r.sink)}} \cap acknowledged

NothingVanishes ==
    Ids(accepted) = Ids(spool) \cup received \cup shed \cup aged
                        \cup unreadable \cup abandoned \cup SentUnconfirmed

(* At least once, but not more often than ambiguity excuses: after the export *)
(* thread has seen a success the record is not sent again, not even when it   *)
(* was shed, restored or read before a restart; unless its file could not be  *)
(* unlinked, and then each further sending has a refusal of its own.          *)
NotSentAfterSuccess ==
    [][exportPc = "send" /\ exportPc' = "settle" =>
           current.id \notin acknowledged \ undeleted]_vars

(* A proposal says "delivered" only of a sink that did receive one of its     *)
(* records, if it is one that confirms.                                       *)
DeliveredIsTrue ==
    \A p \in Problems, k \in Sinks :
        Confirms(k) /\ status[p][k] = "delivered" =>
            \E r \in accepted : r.problem = p /\ r.sink = k /\ r.id \in received

(* Every record that is put gets somewhere, whatever its sink answers: none   *)
(* is retried or held back for good, unless the service is stopped or runs    *)
(* with no sink at all, when not even the age ceiling applies.                *)
EveryRecordSettled ==
    \A id \in 1 .. MaxPuts :
        id \in Ids(accepted) ~>
            \/ id \in received \cup shed \cup aged \cup unreadable \cup abandoned
                        \cup SentUnconfirmed
            \/ stopping
            \/ configured = {}

(* Stated by export/spool.py:8-9 and openspec/specs/northbound-export/spec.md *)
(* (Bounded queue): the spool stays within its size ceiling.                  *)
SpoolWithinCeiling == Cardinality(spool) <= MaxRecords
=============================================================================
