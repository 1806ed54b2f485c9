--------------------------- MODULE IssueLifecycle ---------------------------
(* export/lifecycle.py and export/issue_sinks.py: the export thread keeps one *)
(* tracker issue per problem, by a ledger on disk that maps a problem to its  *)
(* issue. A tracker call succeeds ("ok"), is refused with nothing done        *)
(* ("refused"), or is done and its answer lost ("lost"); both failures are    *)
(* SinkErrors to the caller. A record that fails stays in the spool and is    *)
(* handled again. In dry-run mode what would be done is only announced.       *)
(*                                                                            *)
(* The ledger's file is issues-<name>.json in the spool's directory, and the  *)
(* spool takes every *.json there for a record (exporter.py:276, spool.py:143).*)
(* A delivery pass finds no sink for this one and unlinks it                  *)
(* (exporter.py:143-146). The ledger in memory stays, and the next save       *)
(* writes the file again.                                                     *)
(*                                                                            *)
(* Times are ages in ticks, as far as the two intervals tell them apart.      *)
EXTENDS Integers, FiniteSets

CONSTANTS
    Problems,
    Causes,             \* root causes an analysis may give
    Severities,         \* whether a record's severity meets min_severity
    Trackers,           \* the trackers in use, by what they can do
    DryRuns,            \* the settings of dry_run in use
    UpdateInterval, ResolveAfter,
    MaxRecords,         \* bound: occurrences exported
    MaxIssues,          \* bound: issues the tracker ever has
    MaxFaults,          \* bound: failed calls, failed saves, issues closed by hand
    MaxRestarts         \* bound: restarts, orderly or not

(* reopens: sink.supports_reopen (not ServiceNow); asks: sink.is_open asks    *)
(* the tracker (GitHub only); commentsFirst: resolve is a comment and then a  *)
(* close (not ServiceNow)                                                     *)
Tracker == [reopens: BOOLEAN, asks: BOOLEAN, commentsFirst: BOOLEAN]

ASSUME LifecycleAssumption ==
    /\ Trackers \subseteq Tracker /\ DryRuns \subseteq BOOLEAN
    /\ {UpdateInterval, ResolveAfter, MaxRecords, MaxIssues, MaxFaults, MaxRestarts}
          \subseteq Nat

VARIABLES
    tracker,        \* the tracker configured
    dryRun,         \* sink.dry_run
    ledger,         \* IssueLedger._states
    disk,           \* what was last written to the ledger's file
    fileGone,       \* whether a delivery pass has unlinked the file since
    issues,         \* the tracker's issues
    pending,        \* spooled records of this sink
    job,            \* what the export thread is in the middle of
    heard,          \* history: age of the latest occurrence handled, per problem
    records,        \* history: records exported so far
    faults,         \* history: faults so far
    restarts,       \* history: restarts so far
    strays,         \* history: issues a failure hid from the ledger while open
    forgotten,      \* history: issues the unlinked file had as open at a restart
    behindBack      \* history: issues closed without the ledger learning of it

diskVars == <<disk, fileGone>>
startVars == <<tracker, dryRun, restarts, forgotten>>   \* a restart's alone
vars == <<startVars, ledger, diskVars, issues, pending, job, heard, records, faults,
          strays, behindBack>>

NoIssue == 0
Idle == [step |-> "idle"]
Untracked == [status |-> "none", ref |-> NoIssue, sinceComment |-> 0,
              quiet |-> 0, cause |-> "none"]
EmptyLedger == [p \in Problems |-> Untracked]

(* age: of the record's last_seen; tracked: severity meets min_severity;      *)
(* tried: a delivery failed, the record is held back by the spool's backoff   *)
Record == [problem: Problems, cause: Causes, tracked: Severities,
           age: 0 .. ResolveAfter, tried: BOOLEAN]

Init ==
    /\ tracker \in Trackers /\ dryRun \in DryRuns
    /\ ledger = EmptyLedger /\ disk = EmptyLedger /\ fileGone = FALSE
    /\ issues = {} /\ pending = {} /\ job = Idle
    /\ heard = [p \in Problems |-> ResolveAfter]
    /\ records = 0 /\ faults = 0 /\ restarts = 0
    /\ strays = {} /\ forgotten = {} /\ behindBack = {}

(* A fault is counted; without one nothing is.                                *)
Fault(happens) == /\ happens => faults < MaxFaults
                  /\ faults' = faults + (IF happens THEN 1 ELSE 0)

(* ledger.put: memory first, then all of it to the file, which may fail.      *)
LedgerPut(p, state, saved) ==
    /\ ledger' = [ledger EXCEPT ![p] = state]
    /\ IF saved THEN disk' = ledger' /\ fileGone' = FALSE ELSE UNCHANGED diskVars
    /\ Fault(~saved)

OpenOrShut(ref, open) ==
    issues' = {IF i.ref = ref THEN [i EXCEPT !.open = open] ELSE i : i \in issues}

(* spool.due: oldest first, but for the records that wait for their retry.    *)
Due == {r \in pending : r.tried \/ \A q \in pending : q.tried \/ q.age <= r.age}

(* spool.fail, after a SinkError                                              *)
PutBack(r) == pending' = (pending \ {r}) \cup {[r EXCEPT !.tried = TRUE]}

OpenIssues(p) == {i \in issues : i.problem = p /\ i.open}

-----------------------------------------------------------------------------
(* handle(record)                                                             *)

Changed(state, r) == state.cause # "none" /\ r.cause # state.cause
DueForComment(state) == state.sinceComment >= UpdateInterval

Afresh(r, previous) == [step |-> "create", rec |-> r, ref |-> previous]
Again(r, ref) == IF tracker.reopens THEN [step |-> "reopen", rec |-> r, ref |-> ref]
                                   ELSE Afresh(r, ref)

(* Mutant of HandleSkips: the record is not settled.                          *)
HandleSkipsKeeping(r) ==
    /\ job = Idle /\ ~r.tracked
    /\ heard' = [heard EXCEPT ![r.problem] = IF r.age < @ THEN r.age ELSE @]
    /\ UNCHANGED <<startVars, pending, ledger, diskVars, issues, job, records, faults,
                   strays, behindBack>>

(* below the severity threshold                                               *)
HandleSkips(r) ==
    /\ job = Idle /\ ~r.tracked
    /\ pending' = pending \ {r}
    /\ heard' = [heard EXCEPT ![r.problem] = IF r.age < @ THEN r.age ELSE @]
    /\ UNCHANGED <<startVars, ledger, diskVars, issues, job, records, faults, strays, behindBack>>

HandleActs(r) ==
    LET state == ledger[r.problem]
    IN  /\ job = Idle /\ r.tracked /\ ~dryRun
        /\ job' = CASE state.status = "none"     -> Afresh(r, NoIssue)
                    [] state.status = "resolved" -> Again(r, state.ref)
                    [] OTHER -> [step |-> IF tracker.asks THEN "ask" ELSE "comment",
                                 rec |-> r, ref |-> state.ref]
        /\ state.status = "open" => Changed(state, r) \/ DueForComment(state)
        /\ UNCHANGED <<startVars, ledger, diskVars, issues, pending, heard, records, faults,
                       strays, behindBack>>

(* dry run: whatever would be called is announced, and the record is settled  *)
HandleAnnounces(r) ==
    LET state == ledger[r.problem]
    IN  /\ job = Idle /\ r.tracked /\ dryRun
        /\ state.status = "open" => Changed(state, r) \/ DueForComment(state)
        /\ pending' = pending \ {r}
        /\ heard' = [heard EXCEPT ![r.problem] = IF r.age < @ THEN r.age ELSE @]
        /\ UNCHANGED <<startVars, ledger, diskVars, issues, job, records, faults, strays,
                       behindBack>>

(* too soon for a comment: only last_seen is kept, in a dry run as well       *)
HandleQuietly(r, saved) ==
    LET state == ledger[r.problem]
    IN  /\ job = Idle /\ r.tracked
        /\ state.status = "open" /\ ~Changed(state, r) /\ ~DueForComment(state)
        /\ LedgerPut(r.problem, [state EXCEPT !.quiet = r.age], saved)
        /\ job' = [step |-> "done", rec |-> r, ref |-> state.ref]
        /\ UNCHANGED <<startVars, issues, pending, heard, records, strays, behindBack>>

(* is_open: "refused" is an answer nobody got; that counts as open.           *)
Ask(outcome) ==
    /\ job.step = "ask" /\ outcome # "lost"
    /\ Fault(outcome = "refused")
    /\ job' = IF outcome = "ok" /\ \E i \in issues : i.ref = job.ref /\ ~i.open
                THEN Again(job.rec, job.ref)
                ELSE [job EXCEPT !.step = "comment"]
    /\ UNCHANGED <<startVars, ledger, diskVars, issues, pending, heard, records, strays, behindBack>>

(* sink.create; on a SinkError the record goes back to the spool.             *)
Create(outcome) ==
    /\ job.step = "create"
    /\ Cardinality(issues) < MaxIssues
    /\ Fault(outcome # "ok")
    /\ LET ref == Cardinality(issues) + 1
           p == job.rec.problem
       IN  /\ issues' = IF outcome = "refused" THEN issues
                          ELSE issues \cup {[ref |-> ref, problem |-> p, open |-> TRUE]}
           /\ job' = IF outcome = "ok" THEN [job EXCEPT !.step = "record", !.ref = ref]
                                       ELSE Idle
           /\ strays' = IF outcome = "lost" THEN strays \cup {ref} ELSE strays
    /\ IF outcome = "ok" THEN UNCHANGED pending ELSE PutBack(job.rec)
    /\ UNCHANGED <<startVars, ledger, diskVars, heard, records, behindBack>>

(* Mutant of RecordCreated: nothing is recorded.                              *)
RecordCreatedNowhere(saved) ==
    /\ job.step = "record"
    /\ Fault(~saved)
    /\ job' = [job EXCEPT !.step = "done"]
    /\ UNCHANGED <<startVars, ledger, diskVars, issues, pending, heard, records, strays,
                   behindBack>>

RecordCreated(saved) ==
    /\ job.step = "record"
    /\ LedgerPut(job.rec.problem,
                 [status |-> "open", ref |-> job.ref, sinceComment |-> 0,
                  quiet |-> job.rec.age, cause |-> job.rec.cause], saved)
    /\ job' = [job EXCEPT !.step = "done"]
    /\ UNCHANGED <<startVars, issues, pending, heard, records, strays, behindBack>>

(* sink.comment, by _update                                                   *)
Comment(outcome) ==
    /\ job.step = "comment"
    /\ Fault(outcome # "ok")
    /\ job' = IF outcome = "ok" THEN [job EXCEPT !.step = "commented"] ELSE Idle
    /\ IF outcome = "ok" THEN UNCHANGED pending ELSE PutBack(job.rec)
    /\ UNCHANGED <<startVars, ledger, diskVars, issues, heard, records, strays, behindBack>>

RecordCommented(saved) ==
    /\ job.step = "commented"
    /\ LedgerPut(job.rec.problem,
                 [ledger[job.rec.problem] EXCEPT !.sinceComment = 0,
                                                 !.quiet = job.rec.age,
                                                 !.cause = job.rec.cause], saved)
    /\ job' = [job EXCEPT !.step = "done"]
    /\ UNCHANGED <<startVars, issues, pending, heard, records, strays, behindBack>>

(* sink.reopen: the issue is opened, then commented on; if either fails a     *)
(* linked issue is created, the reopened one staying as it is.                *)
Reopen(outcome) ==
    /\ job.step = "reopen"
    /\ Fault(outcome # "ok")
    /\ IF outcome = "refused" THEN UNCHANGED issues ELSE OpenOrShut(job.ref, TRUE)
    /\ job' = IF outcome = "ok" THEN [job EXCEPT !.step = "reopen comment"]
                                ELSE Afresh(job.rec, job.ref)
    /\ strays' = CASE outcome = "ok"      -> strays \ {job.ref}
                   [] outcome = "refused" -> strays
                   [] outcome = "lost"    -> strays \cup {job.ref}
    /\ behindBack' = IF outcome = "refused" THEN behindBack ELSE behindBack \ {job.ref}
    /\ UNCHANGED <<startVars, ledger, diskVars, pending, heard, records>>

ReopenComment(outcome) ==
    /\ job.step = "reopen comment"
    /\ Fault(outcome # "ok")
    /\ job' = IF outcome = "ok" THEN [job EXCEPT !.step = "reopened"]
                                ELSE Afresh(job.rec, job.ref)
    /\ strays' = IF outcome = "ok" THEN strays ELSE strays \cup {job.ref}
    /\ UNCHANGED <<startVars, ledger, diskVars, issues, pending, heard, records, behindBack>>

RecordReopened(saved) ==
    /\ job.step = "reopened"
    /\ LedgerPut(job.rec.problem,
                 [ledger[job.rec.problem] EXCEPT !.status = "open", !.sinceComment = 0], saved)
    /\ job' = [job EXCEPT !.step = "done"]
    /\ UNCHANGED <<startVars, issues, pending, heard, records, strays, behindBack>>

(* handle returned (after a comment linking a second issue to the first,      *)
(* whose failure is ignored): the spool lets the record go.                   *)
Handled ==
    /\ job.step = "done"
    /\ pending' = pending \ {job.rec}
    /\ heard' = [heard EXCEPT ![job.rec.problem] = IF job.rec.age < @ THEN job.rec.age ELSE @]
    /\ job' = Idle
    /\ UNCHANGED <<startVars, ledger, diskVars, issues, records, faults, strays, behindBack>>

-----------------------------------------------------------------------------
(* resolve_stale()                                                            *)

Stale == {p \in Problems : ledger[p].status = "open" /\ ledger[p].quiet >= ResolveAfter}

StartSweep ==
    /\ job = Idle /\ Stale # {} /\ ~dryRun
    /\ job' = [step |-> "sweep", todo |-> Stale]
    /\ UNCHANGED <<startVars, ledger, diskVars, issues, pending, heard, records, faults, strays,
                   behindBack>>

(* One issue after the other; a refusal leaves it for the next sweep.         *)
Left(p) == IF job.todo = {p} THEN Idle ELSE [step |-> "sweep", todo |-> job.todo \ {p}]

ResolveComment(p, outcome) ==
    /\ job.step = "sweep" /\ tracker.commentsFirst /\ p \in job.todo
    /\ Fault(outcome # "ok")
    /\ job' = IF outcome = "ok" THEN [step |-> "close", todo |-> job.todo, problem |-> p]
                                ELSE Left(p)
    /\ UNCHANGED <<startVars, ledger, diskVars, issues, pending, heard, records, strays, behindBack>>

(* Mutant of Close: the ledger is not told.                                   *)
CloseSilently(p, outcome) ==
    /\ \/ job.step = "close" /\ job.problem = p
       \/ job.step = "sweep" /\ ~tracker.commentsFirst /\ p \in job.todo
    /\ Fault(outcome # "ok")
    /\ IF outcome = "refused" THEN UNCHANGED issues ELSE OpenOrShut(ledger[p].ref, FALSE)
    /\ behindBack' = IF outcome = "lost" THEN behindBack \cup {ledger[p].ref} ELSE behindBack
    /\ job' = Left(p)
    /\ UNCHANGED <<startVars, ledger, diskVars, pending, heard, records, strays>>

(* Mutant of Close: a refusal is taken for a success.                         *)
CloseTrusting(p, outcome) ==
    /\ \/ job.step = "close" /\ job.problem = p
       \/ job.step = "sweep" /\ ~tracker.commentsFirst /\ p \in job.todo
    /\ Fault(outcome # "ok")
    /\ IF outcome = "refused" THEN UNCHANGED issues ELSE OpenOrShut(ledger[p].ref, FALSE)
    /\ UNCHANGED behindBack
    /\ job' = [step |-> "closed", todo |-> job.todo, problem |-> p]
    /\ UNCHANGED <<startVars, ledger, diskVars, pending, heard, records, strays>>

Close(p, outcome) ==
    /\ \/ job.step = "close" /\ job.problem = p
       \/ job.step = "sweep" /\ ~tracker.commentsFirst /\ p \in job.todo
    /\ Fault(outcome # "ok")
    /\ IF outcome = "refused" THEN UNCHANGED issues ELSE OpenOrShut(ledger[p].ref, FALSE)
    /\ behindBack' = IF outcome = "lost" THEN behindBack \cup {ledger[p].ref} ELSE behindBack
    /\ job' = IF outcome = "ok" THEN [step |-> "closed", todo |-> job.todo, problem |-> p]
                                ELSE Left(p)
    /\ UNCHANGED <<startVars, ledger, diskVars, pending, heard, records, strays>>

RecordResolved(p, saved) ==
    /\ job.step = "closed" /\ job.problem = p
    /\ LedgerPut(p, [ledger[p] EXCEPT !.status = "resolved"], saved)
    /\ job' = Left(p)
    /\ UNCHANGED <<startVars, issues, pending, heard, records, strays, behindBack>>

-----------------------------------------------------------------------------
(* The surroundings                                                           *)

(* An occurrence is exported: a record is spooled, its last_seen is now.      *)
Occur(p, cause, tracked) ==
    /\ records < MaxRecords
    /\ records' = records + 1
    /\ pending' = pending \cup {[problem |-> p, cause |-> cause, tracked |-> tracked,
                                age |-> 0, tried |-> FALSE]}
    /\ UNCHANGED <<startVars, ledger, diskVars, issues, job, heard, faults, strays, behindBack>>

(* Somebody closes an open issue in the tracker.                              *)
OperatorCloses(i) ==
    /\ i.open
    /\ Fault(TRUE)
    /\ OpenOrShut(i.ref, FALSE)
    /\ behindBack' = behindBack \cup {i.ref}
    /\ UNCHANGED <<startVars, ledger, diskVars, pending, job, heard, records, strays>>

(* A delivery pass comes to the ledger's file, last of what the spool holds:  *)
(* a record of no sink, which it drops.                                       *)
PassDropsLedger ==
    /\ job = Idle
    /\ disk # EmptyLedger /\ ~fileGone /\ fileGone' = TRUE
    /\ UNCHANGED <<startVars, ledger, disk, issues, pending, job, heard, records, faults,
                   strays, behindBack>>

(* The process dies or is stopped and starts again from the ledger's file, if *)
(* that is there, with the setting of dry_run it then finds. What it did in   *)
(* the tracker and had not written down it does not know of; nor of anything  *)
(* that was written down in a file that is gone.                              *)
Restart ==
    /\ restarts < MaxRestarts /\ restarts' = restarts + 1
    /\ dryRun' \in DryRuns
    /\ job' = Idle
    /\ ledger' = (IF fileGone THEN EmptyLedger ELSE disk) /\ disk' = ledger' /\ fileGone' = FALSE
    /\ LET OnDisk(i) == disk[i.problem].status = "open" /\ disk[i.problem].ref = i.ref
       IN  /\ strays' = strays \cup
                 {i.ref : i \in {j \in issues : j.open /\ ~OnDisk(j) /\ j.ref \notin forgotten}}
           /\ forgotten' = forgotten \cup
                 {i.ref : i \in {j \in issues : j.open /\ OnDisk(j) /\ fileGone}}
    /\ behindBack' = behindBack \cup {i.ref : i \in {j \in issues : ~j.open}}
    /\ UNCHANGED <<tracker, issues, pending, heard, records, faults>>

Later(age, limit) == IF age < limit THEN age + 1 ELSE limit
Aged(state) == [state EXCEPT !.sinceComment = Later(@, UpdateInterval),
                             !.quiet = Later(@, ResolveAfter)]
OlderRecord(r) == [r EXCEPT !.age = Later(@, ResolveAfter)]

Tick ==
    /\ ledger' = [p \in Problems |-> Aged(ledger[p])]
    /\ disk' = [p \in Problems |-> Aged(disk[p])]
    /\ pending' = {OlderRecord(r) : r \in pending}
    /\ job' = IF "rec" \in DOMAIN job THEN [job EXCEPT !.rec = OlderRecord(@)] ELSE job
    /\ heard' = [p \in Problems |-> Later(heard[p], ResolveAfter)]
    /\ UNCHANGED <<startVars, fileGone, issues, records, faults, strays, behindBack>>

-----------------------------------------------------------------------------
Outcomes == {"ok", "refused", "lost"}

HandleStep == \E r \in Due : \/ HandleSkips(r)
                                 \/ HandleActs(r)
                                 \/ HandleAnnounces(r)
                                 \/ \E saved \in BOOLEAN : HandleQuietly(r, saved)

JobStep ==
    \/ \E outcome \in Outcomes :
          \/ Ask(outcome) \/ Create(outcome) \/ Comment(outcome)
          \/ Reopen(outcome) \/ ReopenComment(outcome)
          \/ \E p \in Problems : ResolveComment(p, outcome) \/ Close(p, outcome)
    \/ \E saved \in BOOLEAN :
          \/ RecordCreated(saved) \/ RecordCommented(saved) \/ RecordReopened(saved)
          \/ \E p \in Problems : RecordResolved(p, saved)
    \/ Handled

Next ==
    \/ HandleStep
    \/ JobStep
    \/ StartSweep
    \/ \E p \in Problems, cause \in Causes, tracked \in Severities : Occur(p, cause, tracked)
    \/ \E i \in issues : OperatorCloses(i)
    \/ PassDropsLedger
    \/ Restart
    \/ Tick

Spec == Init /\ [][Next]_vars

(* The export thread runs and time passes. Faults are finitely many (their    *)
(* bound): nothing can be promised about a tracker that never answers.        *)
FairSpec == /\ Spec
            /\ WF_vars(HandleStep)
            /\ WF_vars(JobStep)
            /\ WF_vars(StartSweep)
            /\ WF_vars(Tick)

-----------------------------------------------------------------------------
(* Properties                                                                 *)

Steps == {"idle", "create", "record", "ask", "comment", "commented", "reopen",
          "reopen comment", "reopened", "done", "sweep", "close", "closed"}

TypeOK ==
    /\ \A l \in {ledger, disk} :
          l \in [Problems -> [status: {"none", "open", "resolved"}, ref: 0 .. MaxIssues,
                             sinceComment: 0 .. UpdateInterval,
                             quiet: 0 .. ResolveAfter, cause: Causes \cup {"none"}]]
    /\ \A i \in issues : i.ref \in 1 .. MaxIssues /\ i.problem \in Problems
    /\ pending \subseteq Record
    /\ job.step \in Steps
    /\ "rec" \in DOMAIN job => job.rec \in Record
    /\ heard \in [Problems -> 0 .. ResolveAfter]
    /\ dryRun \in BOOLEAN

(* One issue per problem, as far as the program knows its issues: of those    *)
(* open for a problem all but one were hidden by a failure (a lost answer, a  *)
(* crash, an unwritten ledger) or forgotten with the ledger's file; neither   *)
(* the ledger's own decisions nor a retry opens another.                      *)
DuplicatesExcused ==
    \A p \in Problems : \A i, j \in OpenIssues(p) :
        i.ref \notin strays \cup forgotten /\ j.ref \notin strays \cup forgotten => i = j

(* Stated by openspec/specs/issue-tracking/spec.md (One issue per problem)    *)
(* and lifecycle.py:1-6 (the ledger is the source of truth): no second open   *)
(* issue without a failure. A restart alone is none.                          *)
OneOpenIssue ==
    \A p \in Problems : \A i, j \in OpenIssues(p) :
        i.ref \notin strays /\ j.ref \notin strays => i = j

(* Between two jobs, an issue the ledger calls open is this problem's and is  *)
(* open in the tracker, unless it was closed without the ledger being told.   *)
LedgerAgrees ==
    job = Idle => \A p \in Problems : ledger[p].status = "open" =>
        \E i \in issues : /\ i.ref = ledger[p].ref /\ i.problem = p
                          /\ i.open \/ i.ref \in behindBack

(* An open issue of the ledger's whose problem has gone quiet is closed in    *)
(* the tracker in the end, whatever failed meanwhile: unless in a dry run, or *)
(* when a failure or the loss of the ledger's file has hidden it.             *)
QuietIssueResolved ==
    \A ref \in 1 .. MaxIssues :
        (\E i \in issues : /\ i.ref = ref /\ i.open
                           /\ ledger[i.problem].status = "open" /\ ledger[i.problem].ref = ref)
          ~> \/ \E i \in issues : i.ref = ref /\ ~i.open
             \/ ref \in strays \cup forgotten \/ dryRun

(* No record waits for ever: every failed call is tried again.                *)
EveryRecordHandled == pending # {} ~> pending = {}

(* Stated by openspec/specs/issue-tracking/spec.md (Issue resolution): only a *)
(* problem that has not recurred for the resolve window is resolved. `heard`  *)
(* is what the export thread itself has been told.                            *)
ResolvedOnlyWhenQuiet ==
    [][\A p \in Problems :
          ledger[p].status = "open" /\ ledger'[p].status = "resolved" =>
              heard[p] >= ResolveAfter]_vars

(* Stated by docs/northbound-export.md:222 (closed manually and it recurs:    *)
(* reopen) and openspec/specs/issue-tracking/spec.md:99-101: an occurrence    *)
(* that comes to an issue closed by hand leads to an open one in the end.     *)
ClosedByHandReopened ==
    \A p \in Problems :
        (/\ job = Idle /\ tracker.asks /\ ~dryRun
         /\ ledger[p].status = "open" /\ ledger[p].ref \in behindBack
         /\ \E r \in pending : r.problem = p /\ r.tracked)
          ~> OpenIssues(p) # {} \/ dryRun
=============================================================================
