# A TLA+ model of edge-ai-monitor

This directory holds TLA+ modules that model `src/edge_ai_monitor`, the TLC
configurations that check them on small instances, and TLAPS proofs of all the
safety properties they check, for every value of the constants (one of them,
`LinesReadFaithfully`, with a restriction on how lines are cut, section 5).
`PROJECT.json` lists the runs, the line ranges each definition models, the
hazards, the findings and the theorems.

Run a configuration with `tlc -config <Run>.cfg <Module>.tla` and the proofs with
`tlapm <Module>.tla` for each module whose name ends in `Proofs`; the longest,
`LogTailProofs`, takes about five minutes.

Paths below are relative to the repository; file names without a directory are
in `src/edge_ai_monitor`.

## 1. The system

The service runs on an edge node. It asks the local *anax* agent which workloads
run there and which of them ask to be monitored, tails their log files, hands
each error line with its context to a language model, writes what the model says
into one *proposal* file per problem, and can export proposals to event sinks
(webhook, MQTT, ...) and to issue trackers.

```
 anax agent                log files                        LLM
     |                         |                             |
 discovery thread        log monitor thread            analyzer worker
 WorkloadRegistry  --->  LogMonitor.poll_once --submit--> ErrorAnalyzer
        watch / unwatch        |   cache hit                 |  result   ^ guidance
                               +------ handle_result --------+
                                             |
                                   RemediationGenerator  (proposal files)
                                             | on_proposal
                                          Exporter --put--> Spool (record files)
                                             |                 |
                                    record_delivery  <---- export thread ---> sinks,
                                                               |             trackers
                                                         IssueLifecycle (ledger)
```

Everything is threads in one process with a lock per component; callbacks run on
the thread that calls them, some of them under the caller's lock.

### Components, state and operations

| Component | Source | State it keeps | Operations | Module |
|---|---|---|---|---|
| Analysis queue | `error_analyzer.py` | heap, waiting signatures, recurrence window, cache, counters, two events | `submit`, `process_next`, `_run`, `stop` | `ErrorAnalyzer` |
| Proposal store | `remediation.py` | one file per problem, lock, failure counter | `handle_result`, `persist`, `record_delivery` | `RemediationGenerator` |
| Spool | `export/spool.py` | one file per record, counters | `put`, `due`, `succeed`, `fail`, `purge_expired` | `Spool` |
| Exporter | `export/exporter.py` | threads, wake and stop events, last sweep | `submit`, `deliver_once`, `stop` | `Exporter` |
| Issue lifecycle and sinks | `export/lifecycle.py`, `export/issue_sinks.py` | ledger in memory and on disk | `handle`, `resolve_stale`; the trackers' `create`, `comment`, `reopen`, `resolve`, `is_open` | `IssueLifecycle` |
| Workload registry | `workload_registry.py`, `anax_client.py`, callback in `main.py` | workloads with state and opt-in | `poll_once`, `_upsert`, `_on_workload_change` | `WorkloadRegistry` |
| Log monitor | `log_monitor.py` | tailed files with offset, partial line, context, pending errors; buffer size | `poll_once`, `watch_workload`, `unwatch_workload` | `LogTail` |
| Service | `main.py`, `health.py` | the threads, their stop flags, the shutdown event | `start`, `run_forever`, `stop`, `request_shutdown`, the health server's `start` and `stop` | `Service` | scenario "guidance": one document of 4 bytes and 1 or 2 bytes a character, one of 2 bytes that is edited twice, worker and health endpoint reading, budget 7, file limit 3, notice 5; scenario "lifecycle": 2 attempts with a timeout of 1 tick, an answer in 2 parts, joins of 1 tick (worker 2), any pass may hang; 1 error in either | guidance is current and within budget; the worker survives all but two answers; only routine answers skip review; the service stops |
| LLM client | `ollama_client.py` | none between calls | `analyze` with its attempts, `validate_analysis` | `ModelClient` |
| Context library | `context.py` | cache of documents by time and size | `node_documents`, `workload_documents`, `build_context_block`, `describe` | `ContextLibrary` |
| Event sinks | `export/event_sinks.py` | connections | `send` | `Exporter` (its outcomes) |
| Records and redaction | `export/records.py` | none | shaping of a document, `idempotency_key` | `RemediationGenerator` (the key) |
| Configuration, credentials | `config.py`, `export/credentials.py` | settings | parsing and lookup before the start | limits as `ASSUME`s |

### What is hard, and what makes each component correct

* **Analysis queue.** Two threads and a lock that is given up around the
  inference and around the callback, a bounded queue that sheds by severity, a
  table that must name exactly the items of the heap, a cache hit that runs the
  whole result callback under the lock, a wake-up event that is cleared after it
  was waited for. *Correct when* the table and the heap agree, the bound holds,
  only something less urgent is shed, no occurrence disappears or is reported
  twice, the counters account for everything, and the queue drains.
* **Proposal store.** Three threads read, change and replace the same file; the
  disk may refuse a write, the process may die in between. What is handed on for
  export is a thread's own copy, after the lock was given up. *Correct when* the
  file is always what its writes one after the other add up to, a rewrite never
  forgets, and no two emissions go out under one idempotency key.
* **Spool and exporter.** The export thread works on a snapshot while records
  are shed; answers get lost; restarts find half-written files and another
  configuration. *Correct when* every accepted record is on disk, was received,
  or was given up for a reason that is counted or logged, no record is sent again
  after its success was seen and its file deleted, and every record gets
  somewhere.
* **Issue lifecycle.** A remote side effect, a ledger in memory and one on disk,
  each of which may fail on its own, a delivery pass that takes the ledger's file
  for a record and deletes it, and operators who close issues. *Correct when* no
  second open issue comes from the ledger's own decisions, the ledger
  and the tracker agree, quiet issues are closed, live ones are not.
* **Registry.** Three documents read at three moments, and callbacks tied to
  changes of state only. *Correct when* it catches up with the node, and tails
  logs of running workloads that consented, and no others.
* **Log monitor.** Lines in two halves, decoded each by itself, rotation by rename and by truncation at
  any point of a pass, a buffer limit that cuts across files. *Correct when*
  lines are read as written, in order, each error is passed on once, in order,
  with unbroken context, and none is kept back in a file that has gone quiet.
* **Context library.** The worker and every health request fill one cache, each
  with a look at the file outside the lock and a read inside it, while the files
  change. *Correct when* what goes into a prompt is never older than the look,
  keeps to the budget, which counts characters, and puts the workload's own
  documents first.
* **LLM client.** A model that times out, refuses, answers prose or an object
  whose fields are absent, out of range or no numbers, nests too deeply or sends
  its answer piece by piece. *Correct when* the number
  of attempts is bounded, only a routine and confident answer escapes human
  review, and no answer ends the worker.
* **Service.** Six threads, joined in turn with timeouts, a signal handler that
  shares its event with `stop()`, an inference that may outlast the wait for it.
  *Correct when* a service asked to stop stops, work in flight is finished and
  the queue drained; the last two do not hold (section 6).

## 2. The modules

| Module | Models | Built on |
|---|---|---|
| `ErrorFates` | abstract: what a queue of errors promises | |
| `ErrorAnalyzer` | the analysis queue | `INSTANCE ErrorFates` for the refinement |
| `ErrorAnalyzerProofs` | theorems about it | `EXTENDS ErrorAnalyzer` |
| `RemediationGenerator` | the proposal store | |
| `RemediationGeneratorProofs` | theorems about it | `EXTENDS RemediationGenerator` |
| `Pipeline` | queue and store, wired as in `main.py` | `EXTENDS ErrorAnalyzer`, `INSTANCE RemediationGenerator` |
| `PipelineProofs` | theorems about it | `EXTENDS Pipeline, ErrorAnalyzerProofs` |
| `Spool` | the record files | |
| `Exporter` | submitters and the export thread, the outcomes of the event sinks | `EXTENDS Spool` |
| `ExporterProofs` | theorems about it | `EXTENDS Exporter` |
| `IssueLifecycle` | the ledger, the export thread, the tracker | |
| `IssueLifecycleProofs` | theorems about it | `EXTENDS IssueLifecycle` |
| `WorkloadRegistry` | discovery, merge, opt-in, attaching of logs | |
| `WorkloadRegistryProofs` | theorems about it | `EXTENDS WorkloadRegistry` |
| `LogTail` | tailing and events | |
| `LogTailProofs` | theorems about it | `EXTENDS LogTail` |
| `ContextLibrary` | guidance documents, their cache, the budget | |
| `ModelClient` | one analysis by the model | |
| `Service` | the threads from start to exit, the worker with all it calls | `EXTENDS ContextLibrary, ModelClient` |
| `ServiceProofs` | theorems about it | `EXTENDS Service` |
| `MC...` | values of constants and scenarios for the runs | the module of the same name |

They were written in this order: the queue first because every other part feeds
it or lives on its results, then what its results become, then the two sources
of its input, and last the service that starts and stops them all.

An action is one critical section of the code, or the part of one that another
thread can see. What a thread is in the middle of is its `...Pc` variable (or
`job`, `submission`). Variables marked *history* are not in the program: they
record what happened so that a property can speak of it. Operators whose comment
calls them a *mutant* are plausible bugs of the operator after them; no
specification uses them.

**ErrorAnalyzer.** `submit()` is one action under the lock with five outcomes
(`SubmitAggregated`, `SubmitCached`, `SubmitQueued`, `SubmitShedding`,
`SubmitDropped`), except that a cache hit keeps the lock while the callback runs
(`monitorPc = "emit"`, and `LockFree` is false) and that the event is set after
the lock is released (`"signal"`). `process_next()` is `Take`/`FindNothing`,
`InferenceSucceeds`/`InferenceFails`, `StoreInCache`, `EmitAnalysis`; the loop
adds the wait, the clearing of the event and the test of `_stop`. An exception
other than `LLMError` is `InferenceRaises`, after which the worker is "dead" and
the queue only fills. An item
carries, beside what the code keeps, the set of occurrences it stands for.

**RemediationGenerator.** Each rewrite is two steps, read-and-change and
replace, with the lock as a variable, so that what the lock buys can be checked.
A document is its first and last sighting, total, number of analyses and export
states. An unreadable file is a choice at the read; a refused write is counted
and the callback goes on, as in the code. `HandOn` is the moment at which the copy
in memory leaves with its idempotency key. *History:* `ledger` is what the writes
amount to one by one, `exported` the keys handed on, `lapsed` the problems whose
count was once not written or could not be read.

**Pipeline.** `WorkerCalls`/`MonitorCalls` begin `handle_result` on the thread
that emits, `WorkerReturns`/`MonitorReturns` join the end of it with the
analyzer's `EmitAnalysis`/`EmitCached`. The files are taken to be readable and
the disk to work, which the store's own run does not assume.

**Spool, Exporter.** A record weighs one unit of `max_bytes`. Times are ages and
remaining waits relative to now, so the clock needs no bound. `Send` separates
whether the sink got the record from what the exporter was told, by the kind of
sink: HTTP sinks and MQTT confirm, MQTT at QoS 0 and syslog call it delivered when
the bytes have left, and an issue lifecycle when it has done whatever it does
about the problem. Wherever a file is unlinked the disk may keep it (`Discard`),
and `fail()` may leave the record as it was or cut short (`FailUnwritten`).
`Restart` keeps files only, takes any sub-set of the sinks as the new
configuration, may leave the file being rewritten by `fail()` unparsable, and
starts no export thread when there is no sink (`exportPc = "off"`).

**IssueLifecycle.** Every tracker call ends `ok`, `refused` (nothing was done)
or `lost` (it was done, the answer was not received); every ledger save may fail
after the memory was changed; a restart may come anywhere and may switch dry-run
mode, in which whatever would be called is announced and the record settled.
The ledger's file lies in the spool's directory under a name that the spool takes
for a record's: `PassDropsLedger` is a delivery pass unlinking it, after which
the ledger in memory goes on and only the next save writes the file again. What a
restart then does not know of is in the history `forgotten`, what a lost answer, a
crash or a failed save hid in `strays`. A tracker is three
capabilities: can it reopen, can it be asked, does it comment before it closes.

**WorkloadRegistry.** A deployment string is a set of containers, each with its
`MONITORING_ENABLED`, its paths and whether its lists parse, or a string that is
no JSON. The three reads of a poll are three steps. `Callback` is
`main._on_workload_change` together with `watch_workload` / `unwatch_workload`.

**LogTail.** A file is an inode and a sequence of pieces, a piece being a line
or one half of it, with what stands at the cut: any text, the bytes of one
character, a CR and its LF, or another of the separators that `splitlines()`
knows. What a poll reads is decoded without what follows, so that a CR at its end
is a line end (`Ends`) and a half character is a damaged one (`torn`); a
separator ends a line once the line around it is complete (`Breaks`). Renaming changes the inode, truncation only the content. The
reader's pass over a file is `Look` (rotation by path), `ReadChunk` (open by
path), one `ProcessLine` per line with the buffer accounting, and `EndOfChunk`
or, if there was nothing to read, `FlushQuiet`. What the buffer limit releases is
put in order by `Ascending` and `Picked`, the library's `SetToSortSeq` and
`SelectSeq` in a form the provers can open.

**ContextLibrary.** A document is what `stat` says of it, whether it can be read,
and a version that only the model knows. `Stat` is outside the lock and `Load`
inside it, as two steps of each reader, so that another reader or an edit can
come between; an edit may bring a time and size back that the file had before.
Of a text only its length is kept, in characters and in bytes: `stat` knows the
bytes, while cutting and budget go by characters (`Text`), and `Block` is the
prefix that fits. Stripping of white space is left out.
What a reader still has to look up is a set of places in its `List`, so that a
document named twice is read twice.

**ModelClient.** One call of `analyze()` is a sequence of requests, each of which
ends with an answer from `Replies`: a timeout (not repeated), a refusal, an empty
answer, prose, an answer nested too deeply for the parser, or an object.
Confidence counts in tenths, beside a NaN, `true`, a word and an integer too
large for a float. The timeout is one of each read: `PartArrives` starts it anew.

**Service.** The main thread validates, starts five threads, waits, and either
leaves at once (`RequestShutdown`, then `ServeEnds`) or stops the threads in turn
(`Interrupt`, `StopNext`, `Joined`), with time as ticks during which the model and
the joins wait together. The worker takes an error, reads guidance, asks the
model, writes and hands to export, where the disk may refuse. The other loops only begin and end passes, and
a pass may hang for ever.

## 3. What the runs check

| Run | Instance and bounds | What it shows |
|---|---|---|
| `Pipeline` | scenario "three": signatures of priority 4, 3, 2; queue of 2; 1 + 1 + 2 arrivals; 1 tick, no stop; scenario "one": one signature, 3 arrivals, 2 ticks; window 1 tick, TTL 0 | table and heap agree, the bound, nothing swallowed, nothing reported twice, counters account for every ticket, only less urgent items are shed, the queue implements `ErrorFates`; files add up to what was emitted with two threads emitting; the window's count covers the recent occurrences; every emission returns despite two locks; every error is settled, a failed inference notwithstanding |
| `Generator` | one problem, two emitters, one exporter, total 3, one refused write per life of the process | no update lost, no key given out twice, history kept |
| `Exporter` | one problem and submitter, a webhook or an issue lifecycle as sink; ceiling of 1 record, 2 records, age limit 1, backoff 1 to 2; one trouble in a behaviour: a restart, a file not unlinked or not rewritten, or a stop | nothing vanishes, "delivered" is true, nothing is sent after a success, every record is settled |
| `Issues` | one problem, three kinds of tracker, 2 causes, 2 records, 4 issues, 1 fault, 1 restart, comment interval 1, resolve window 2 | duplicates only where excused, ledger agrees, quiet issues are resolved, records are handled |
| `Registry` | one workload, 2 paths, 5 deployments, 5 changes of the node, 1 failed poll | only running workloads and consented paths are tailed; the registry catches up; stopped workloads are let go of |
| `Tail` | one file, 1 rotation, 3 lines cut in text, or 2 cut at a CR LF or at a separator; or two files, one of them with one line, 3 lines, buffer of 2 lines, context of 2, 1 unwatching | lines are read faithfully; context is unbroken, errors are in order; all lines are read, no error is kept back |
| `Service` | scenario "guidance": two documents of 1 or 2 bytes a character, 2 edits, worker and health endpoint reading, budget 7, file limit 3, notice 5; scenario "lifecycle": 2 attempts of 2 ticks, an answer in 2 parts, joins of 1 tick (worker 3), any pass may hang; 1 error in either | guidance is current and within budget; the worker survives all but two answers; only routine answers skip review |
| `AnalyzerOvercount`, `ExporterCeiling`, `IssuesForgotten`, `IssuesReopenedClosed`, `RegistryConsent` | as small as shows it | the five findings of section 6 |

Of the passing runs `Tail` has the fewest distinct states, 128 thousand, and
`Generator` the most, 627 thousand; the longest take two to three minutes on two
workers.

**Why the bounds are enough to be worth something.** Shedding needs a full queue
and three urgencies (a victim, one that stays, a newcomer); aggregation and a
cache hit need two arrivals of one signature (the least urgent one, so that a
victim can stand for two), and the overlap of a window with an
earlier emission three; an expired entry needs one tick more than the TTL. A lost
update needs two threads and one file; three threads are there. A record shed
during its own delivery needs two records and a ceiling of one; giving up for age
needs an age limit shorter than the backoff. A duplicate issue needs a fault and
a retry; reopening needs a second record after a resolve; one fault and one
restart cover a failing save followed by a crash. A record sent again needs one
file that is not unlinked; a disk that fails and a restart come one at a time in
`Exporter`, and together only in the proofs. A withdrawal of consent, a stop, a
disappearance and a return are four changes of a workload. A rotation between
`Look` and `ReadChunk` needs one rotation, a line around it in two halves another
line on either side, and so does one in two at a line end or a separator. Buffer
pressure across files needs two files and a buffer
smaller than the lines written. Two emissions under one key need two emitting
threads. Out-of-date guidance needs two readers and an edit between a look and a
read; a document that gets its old time and size back needs two edits. A budget
that a truncated document exceeds needs a notice longer than what the file limit
leaves. Each property is violated, under the same bounds,
by the mutant `PROJECT.json` names for it, so none holds for want of room.

The `Pipeline`, `Tail` and `Service` runs join scenarios; what a scenario leaves out is fixed
by a constraint on the steps in the `MC` module, never in the module itself.
In "three", a result on its way into its file is not overtaken by other steps;
the proofs have no such restriction.

The variables' types are stated in each module. `TypeOK` of `ErrorAnalyzer`,
`RemediationGenerator`, `IssueLifecycle`, `WorkloadRegistry` and `Service` is
proved, and that of `Service` is checked too. In `Exporter` and `LogTail` it
describes the variables; their proofs use types of their own (`TypeInv`, `Types`),
the former since no prover here knows that a power of two, the backoff, is no
less than zero.

**Deadlock** is checked in the `Generator`, `Issues...`, `Registry...` and
`Tail` runs. It is not in the `AnalyzerOvercount`, `Pipeline`, `Exporter...` and
`Service` runs: there stopping is an action, and a stopped service rightly does
nothing.

## 4. Fairness

All of it is weak fairness of a thread's own steps: the operating system
schedules it. Beyond that each specification assumes only what the code
arranges for itself:

* an inference ends: the client's calls have a timeout and a bounded number of
  attempts (`ModelClient` has both); whether it succeeds, fails, or raises what
  ends the worker is left open. The timeout limits the wait for each piece of an
  answer, so that a model that trickles takes longer, as long as it likes as far
  as the code goes; that it comes to an end is an assumption (`MaxParts`);
* a wait ends: `_work_available.wait(1.0)`, `_wake.wait(poll_interval)` and
  `_stop.wait(poll_interval)` all carry timeouts, and the event only shortens
  them;
* locks are released: they are variables (`genLock`, `LockFree`) and the steps
  that need them are disabled meanwhile, so that this is checked, not assumed;
* time passes, where a property depends on a backoff or a window (`Tick`);
* in `LogTail`, a line begun is finished;
* in `Service`, the health server's loop sees its flag: it only hands requests to
  other threads. No pass of any other loop need ever end.

Nobody has to submit an error, publish a workload, write or rotate a log, answer
from a sink with success, or stop the service. In `IssueLifecycle` the faults are
finitely many by their bound, and `EveryRecordHandled` and `QuietIssueResolved`
depend on it: nothing can be promised of a tracker that never answers.
`RegistryCatchesUp` depends in the same way on the node changing finitely often.
In `Pipeline`, `EveryErrorSettled` holds unless the service is stopped or an
exception has ended the worker; `EveryRecordSettled` unless the service is
stopped or has no sink; `QuietIssueResolved` unless the service runs in dry-run
mode, and for the issues that no failure and no loss of the ledger's file has
hidden from it.

## 5. Proofs

`ErrorAnalyzerProofs` proves, for any set of signatures, any priorities, any
window, any TTL and bounds, and any queue limit of at least one:

| Theorem | Statement |
|---|---|
| `TypeCorrect` | `Spec => []TypeOK` |
| `QueueAndTableAgree` | `Spec => []QueueMirrorsPending` |
| `QueueNeverOverfull` | `Spec => []QueueBounded` |
| `NothingSwallowed` | `Spec => []NoErrorSwallowed` |
| `NothingReportedTwice` | `Spec => []ReportedOnce` |
| `CountersAddUp` | `Spec => []TicketsAccounted` |
| `OnlyLessUrgentShed` | `Spec => ShedsOnlyLessUrgent` |
| `RecentNeverUnderstated` | `Spec => []RecentOccurrencesCounted` |
| `QueueImplementsErrorFates` | `Spec => ImplementsErrorFates` |

The only assumption is `ConstantsAssumption` of `ErrorAnalyzer`: priorities are
naturals, the limit is positive, the times are naturals. `config.py:238-241`
refuses other settings.

The argument has layers, each inductive relative to the one before:

1. `TypeInv` is `TypeOK` and `SeenFinite`. The window must be known to be finite:
   an item's number of occurrences is the window's cardinality, and only of a
   finite set with at least the new arrival in it does `RecordedCounts` say that
   it is a positive number.
2. `QueueInv` adds the agreement of table and heap, `TicketsDrawn` (every ticket
   in the queue is smaller than the next one), the finiteness of the heap and the
   bound. `TicketsDrawn` is what makes the new ticket different from all in the
   heap, without which the agreement is not inductive. The bound needs the
   agreement in return: aggregation rewrites the items and keeps their tickets, and since
   tickets identify items it keeps their number
   (`AggregationKeepsSize`).
3. `AccountInv` adds `OneAtATime` (at most one item in hand, and an item or a hit
   only at the places of the two threads where it is used up) and
   `NoErrorSwallowed`. `HeldMembers` turns membership in `Held` into a statement
   about one item or one hit, so that `SubmitPlaces` and `OtherStepsMove` can say
   of each action where each occurrence goes.
4. `OnceInv` adds `HeldApart` (the item in hand, the queued items and the cache
   hit share no occurrence) and `SettledOnce`. That the newcomer is in no place
   yet follows from layer 3 (`NewcomerIsNowhere`): all places together are
   `1 .. arrivals`. `ReportedOnce` follows, since the table's agreement leaves
   one queued item per signature.
5. For the refinement, layers 3 and 4 say that what is held is what has arrived
   and is not settled (`HeldIsUnsettled`), so the mapped variable `open` is a
   function of the three histories. `GroupsInv` (no item stands for nothing, one
   hit at a time) makes the group of each step a non-empty one; `SubmitFate` and
   `OtherFates` name the abstract step.

`CountersAddUp` needs only layer 2 (and that the queue's size is exactly kept by
aggregation), and `OnlyLessUrgentShed` is an action property that
follows from layer 2 (`ShedStep`). `RecentNeverUnderstated` rests on layer 2
as well: an item that a new arrival joins or creates is recounted over the whole window, and
the window of any other only shrinks (`WindowsOnlyShrink`).

`RemediationGeneratorProofs` proves, for any set of emitting and recording
threads, any problems, sinks and delivery states, any results and bounds:

| Theorem | Statement |
|---|---|
| `TypeCorrect` | `Spec => []TypeOK` |
| `WritersExclude` | `Spec => []OneWriter` |
| `NothingOverwritten` | `Spec => []NoUpdateLost` |
| `KeysNeverRepeat` | `Spec => []KeysDistinct` |
| `HistoryRemembered` | `Spec => HistoryKept` |

The assumption is `GeneratorAssumption`: nobody is not a thread, "nothing" is not a
document or a state, and results count at least one occurrence. The inductive
invariant `IInv` adds to the theorems' properties:

* `OneWriter`: a thread about to write holds the lock. This is what makes the
  rest inductive: while one thread has a draft, no other writes.
* `DraftsCurrent`: the draft of a thread about to write is the result merged into
  (or the notice noted in) the file *as it still is*. Without it nothing relates
  a write to the file it replaces, and `NoUpdateLost` is not inductive. A draft
  made from nothing while there is a file means that the problem has lapsed.
* `KeysBelowCount`: as long as a problem has not lapsed, no key given out, and
  none waiting to be, counts more than the file does. A successful write then
  counts strictly more than any key (`MergedDocument`: an occurrence count only
  grows), which is why the next key is new.

One lemma per action shows that it keeps `IInv`; `HistoryRemembered` follows from
`DraftsCurrent` and the lemmas on what a merge and a notice keep. That the
statement needs its exception, `lapsed`, is the point of section 6's remark on
keys.

`PipelineProofs` puts the two together, for any signatures and arrivals:

| Theorem | Statement |
|---|---|
| `AnalyzerUndisturbed` | `PipelineSpec => Spec` |
| `FilesCountEmissions` | `PipelineSpec => []ProposalsCountEmissions` |
| `PipelineCountsRecent` | `PipelineSpec => []RecentOccurrencesCounted` |

`PipelineAssumption` says that worker and monitor are two threads and neither is
"nobody", and that "no file" is no document. The first
theorem simulates each step of the composition by a step of the queue or a
stutter, and every theorem about the queue then holds of the composition; the
third is an example. The second needs `PipeInv`: `WorkerEmits` and
`MonitorEmits` tie what a thread has inside `handle_result` to what it is
emitting, `LockedWriter` and `DraftCounts` say that a draft is made of the file as
it still is, and `CountsMatch` that the file is ahead of what the queue has
reported by exactly what is written and not yet returned (`Ahead`). That the
two are equal is not inductive as it stands: it fails between a write and the
return from the callback.

`ExporterProofs` proves, for any sinks and problems, any limits and any number of
restarts (`SpoolAssumption`, `ExporterAssumption`: limits are naturals, every
sink is of one of five kinds):

| Theorem | Statement |
|---|---|
| `NoRecordVanishes` | `Spec => []NothingVanishes` |
| `DeliveredReached` | `Spec => []DeliveredIsTrue` |
| `NoResend` | `Spec => NotSentAfterSuccess` |

`IInv` adds to types: `Known` (whatever is on disk, in the snapshot or at hand was
put once, with the same problem and sink), `AnswerTrue` (an answer still acted on
is true as far as the kind of sink can say) and `Fresh`: ids are unique on disk
and in the snapshot, and what was acknowledged, unless the disk refused to unlink
it, is neither there nor at hand until its success is noted. `NoResend` has that
exception because the code has it: `_discard` swallows the error. `Fresh` is the heart of it, since `fail()` may put a record
back that was shed meanwhile: it has to be known that what it puts back is the
record at hand and no other.

`IssueLifecycleProofs` proves, for any problems, causes, trackers and bounds
(`LifecycleAssumption`: the bounds are naturals, a tracker is a set of
capabilities):

| Theorem | Statement |
|---|---|
| `TypeCorrect` | `Spec => []TypeOK` |
| `LedgerTruthful` | `Spec => []LedgerAgrees` |
| `OneIssuePerProblem` | `Spec => []DuplicatesExcused` |

`LedgerAgrees` speaks of the moments between two jobs; `LedgerKnows` and
`JobKnows` extend it into a job, step by step: what the thread has in mind is what
the ledger says, or goes beyond it in one issue, which is there. `LedgersOwn`
covers the ledger on disk as well, because a restart makes it the one in memory.
For the duplicates, `Counted(p)` is the one issue that counts for a problem at
each step of a job, and `StraysExcused` says that every other open one is among
those a lost answer, a crash or a failed save hid, or the loss of the ledger's
file at a restart. The theorem says what the code can be trusted with and no
more: that one issue per problem does not hold is the run `IssuesForgotten`. `IssuesNumbered` makes a new issue's number
new, for which their set has to be finite.

`WorkloadRegistryProofs` proves, for any workloads, paths and deployments
(`RegistryAssumption`: a deployment is a set of containers or unreadable, and
neither is the mark of an absent one):

| Theorem | Statement |
|---|---|
| `TypeCorrect` | `Spec => []TypeOK` |
| `OnlyRunningTailed` | `Spec => []WatchedOnlyRunning` |
| `OnlyConsentedTailed` | `Spec => []WatchedWasConsented` |

`WatchedOnlyRunning` is inductive once the type says what a poll has read so far.
`WatchedWasConsented` needs `OptInsRecorded`: the opt-ins of every document, on
the node or already read in this poll, are among those ever published;
`ReadMonitoring` then says that the merge makes up none, whichever of the two
documents it takes a deployment from.

`LogTailProofs` proves, for any files, any context length and buffer, and any
number of lines, rotations and workloads let go of (`TailAssumption`: the bounds
are naturals, no file is the "no file" mark):

| Theorem | Statement |
|---|---|
| `LinesAsWritten` | if `PlainCuts`, `Spec => []LinesReadFaithfully` |
| `ContextUnbroken` | `Spec => []ContextContiguous` |
| `ErrorsLeaveInOrder` | `Spec => []ErrorsInOrder` |

`PlainCuts` says that no line is in two at a CR LF or at a separator; how those
are taken for line ends is checked (`Tail`), not proved. A line in two in the
middle of a character is covered: the theorem is about which pieces make a line,
and section 6 says what becomes of the character.

The invariants `IInv` and `LinesInv` have six parts. `Written` describes the content of a file as pieces in
sequence, a head right before its tail. `TakenSoundly` extends
`LinesReadFaithfully` to the lines of the chunk being worked off. `Placed` ties
them to the file: everything taken comes before whatever lies beyond `Reached(f)`,
which is the offset less an unfinished line, or 0 where the path now names another
file or a truncated one; and a partial line is exactly the head read last. That is what
makes the next chunk continue the lines already taken, whether or not a rotation
came between. The files whose path changed between the look and the read
are `muddled` and excepted, in the property as in the invariant. `EventsKnown`
needs no file: after n lines the context is the last of them (`Trailing`), a
pending error has had every line since its own (`Waits`), one passed on is
complete or was flushed (`Passed`), and what waits is later than what went
(`Ahead`). A line completes the oldest events only, and the buffer limit releases
a file's events in their order; those two facts keep `Ordered` and `Ahead`.

`ServiceProofs` proves, for any documents, budgets, replies and timeouts:

| Theorem | Statement |
|---|---|
| `TypeCorrect` | `Spec => []TypeOK` |
| `GuidanceStaysCurrent` | `Spec => []GuidanceIsCurrent` |
| `GuidanceFits` | `Spec => []GuidanceWithinBudget` |
| `AnswersSurvived` | `Spec => []WorkerSurvives` |
| `SkippedReviewsRoutine` | `Spec => []ReviewSkippedOnlyIfRoutine` |

The assumptions are `LibraryAssumption` (a file may not be larger than the whole
budget, as `config.py` has it), `ClientAssumption` (at least one attempt, a
timeout of at least one tick) and `ServiceAssumption`. `GuidanceFits` is about
characters, as the code's budget is; section 6 says what follows
for bytes. `AnswersSurvived` excepts the two kinds of answer that
section 6 names.

The invariant has four parts that hardly touch each other's variables.
`LibraryInv`: `CacheRecent` and `SeenRecent` say of a cache entry, and of a look
taken outside the lock, that it bears a stat the file has had, and that if it
still has that stat the content is no older; the exception, files that took on a
former stat again, is the one of the property. `ClientInv` says what a
conversation's steps know of the answer. `LifeInv` says that what is left to stop
is an end of the one order there is. `WorkInv` ties what is persisted to the
answer it was made of.

`GuidanceFits` adds `DeclaredFirst` to the invariant: what a reader has gathered has
the workload's documents before those of the node. `BlockFits` needs nothing of the sum
(`Texts` bounds what a reading yields) but that no documents add up to nothing (`NothingCosts`, which shows that the
function defining the fold exists there): some prefix then fits, so a longest one
exists (`Greatest`).

**Only model-checked.** Liveness under fairness and `ENABLED` are outside the
prover: `EveryErrorSettled`, `EmissionsReturn`, `EveryRecordSettled`,
`QuietIssueResolved`, `EveryRecordHandled`, `RegistryCatchesUp`,
`StoppedIsUnwatched`, `EveryLineRead`, `EveryErrorEmitted` and `ShutdownCompletes`.
Every invariant and every action property of a passing run is proved
(`LinesReadFaithfully` under `PlainCuts`), and so is the refinement of `ErrorFates`. What depends on the value of a fold or of a power is not
stated as a theorem: it would take an induction over data.

## 6. Where the code and its documentation disagree

Five runs are expected to be violated; the trace of each is the shortest story.

* **Occurrences are counted twice** (`AnalyzerOvercount`). `submit()` gives an
  item the count of the whole recurrence window; an emission before it may have
  reported some of these already, and the proposal adds both up.
  `error_analyzer.py:162-164` says that only new occurrences are counted, and
  `docs/operations.md:118` gives the total as how often the problem has fired.
* **The spool exceeds its ceiling** (`ExporterCeiling`). `fail()` writes the
  record back whether or not it was shed meanwhile and does not enforce the
  ceiling; `export/spool.py:8-9` says the spool has one.
* **A reopened issue is closed at once** (`IssuesReopenedClosed`). `_reopen` does
  not refresh `last_seen`, so the next sweep finds the problem quiet;
  `openspec/specs/issue-tracking/spec.md:77` asks for a quiet resolve window.
* **The ledger is deleted** (`IssuesForgotten`). It is saved as
  `issues-<name>.json` in the spool's directory (`export/exporter.py:276`), the spool
  takes every `*.json` there for a record (`export/spool.py:143`), and `_deliver`
  drops what names no sink (`export/exporter.py:143-146`). After a plain restart the
  ledger is empty and a recurrence opens a second issue; an issue whose problem went
  quiet is never closed. `openspec/specs/issue-tracking/spec.md:20-23` asks for one
  open issue, `docs/northbound-export.md:246-247` says that nothing is lost to a
  restart, and `tests/test_export_issues.py:268` tests the ledger in a directory
  of its own.
* **Consent withdrawn is not noticed** (`RegistryConsent`). A running workload
  whose new definition drops `MONITORING_ENABLED` changes no state, so nothing
  detaches its logs until it stops; `openspec/specs/log-monitoring/spec.md:14`
  says that only workloads that enabled monitoring are monitored.

Six more statements of the documentation are written down as properties that the
models violate. No configuration checks them; in place of the properties of the
one named, TLC refutes each within a minute.

| Property | In | What happens |
|---|---|---|
| `ClosedByHandReopened` | `Issues` | A recurrence within the update interval is settled by the ledger alone (`export/lifecycle.py:198-206`), so an issue closed by hand stays closed; `docs/northbound-export.md:222` says it is reopened. |
| `LinesReadWhole` | `Tail`, with `Cuts = {"character"}` | Each poll decodes from a byte offset by itself, so a poll in the middle of a character leaves two replacement characters (`log_monitor.py:150-153`); holding back a partial line (`:163`) does not help. |
| `GuidanceWithinBytes` | `Service` | `context.py:156` compares characters with a limit that the error-analysis spec (lines 69-75), its own message and `docs/context-and-steering.md:226-230` give in bytes. |
| `NoAnswerIsFatal` | `Service` | JSON nested too deeply (`ollama_client.py:75-78`) and a confidence that no float holds (`:122-125`) raise exceptions that nobody catches (`error_analyzer.py:240`, `:302-304`): the worker's thread ends, errors are still queued and the status page still answers 200. The error-analysis spec (lines 32-34) asks for one more attempt. |
| `InFlightFinished` | `Service` | `stop()` waits 35 seconds for the worker (`error_analyzer.py:309-310`: "allowing an in-flight inference to finish"), and `docs/tuning.md:134` and `:276` recommend timeouts of 120 and 180. With the default of 30 seconds a second attempt, or an answer in parts, outlasts the wait all the same, and so it does in the run. |
| `QueueDrained` | `Service` | The worker looks at its flag between two items (`error_analyzer.py:303`), so a stop leaves the queue behind, against `main.py:247`. |

The models also contain the following, of which no run makes a point:

* an error that recurs during its own first inference is queued and analysed
  again although an answer is cached by then (`docs/architecture.md:106-107`);
* a cache hit that creates a file counts as an analysis (`remediation.py:187-189`,
  `docs/operations.md:120`);
* `last_seen` is that of the last result written and can go backward
  (`remediation.py:185`), behind a cache hit written during a slow inference;
* after a write the disk refused, or a file that could not be read, a later
  emission can carry a key already given out, and a receiver that deduplicates
  drops a genuinely new occurrence (`export/records.py:69-71`);
* `submit()` notes "pending" after the export thread may have noted "delivered",
  and the later note stays (`docs/northbound-export.md:297`);
* a record that is shed or aged out is never noted as failed in its proposal
  (the remediation-proposals spec, lines 104-106);
* `fail()` rewrites in place; a crash in the middle loses the record
  (`docs/northbound-export.md:246-247`);
* a create whose answer is lost is repeated (the issue-tracking spec, lines 20-23);
* on Jira and ServiceNow an issue closed by hand is commented on, not reopened,
  however late the recurrence
  (`docs/northbound-export.md:222`), because the sink cannot be asked;
* a ledger's file counts in the spool's depth and size until a pass deletes it;
* a record whose file cannot be unlinked is sent again at each pass, a success
  notwithstanding (`export/spool.py:166-170`); one that cannot be rewritten is tried
  again without a wait (`:200-203`);
* without a sink no export thread runs (`export/exporter.py:179`): what is in the
  spool stays, and is not purged for its age either;
* a log file that appears after its workload started is not picked up before the
  next change of state (`docs/troubleshooting.md:122-123`);
* a poll between a CR and its LF gives an empty line more, and a VT, FF, NEL or
  U+2028 in a line is a line end (`log_monitor.py:171`); `LinesReadFaithfully`
  allows for both;
* what was appended between the last read and a rotation is not read
  (`openspec/specs/log-monitoring/spec.md:50-52`);
* `_buffer_bytes` grows with every line but shrinks only with emitted events, so
  pressure comes with the volume read, not with what is held
  (`log_monitor.py:305-335`);
* in a dry run a record is noted as delivered although nothing was sent
  (`exporter.py:139`), and what recurs in a dry run does not refresh `last_seen`
  once a comment would be due, so an issue may be closed right after leaving it;
* a put during each pass of a sink that keeps failing lets the spool grow by a
  record each time, not by one in all (`ExporterCeiling` shows the first);
* after a signal no thread is joined, since `request_shutdown` sets the event that
  `stop()` takes for "already stopped" (`main.py:236`); `main()` installs that
  handler (`main.py:309-312`), so that the orderly path, on which the last two
  rows of the table above happen, is reached only where the service is used without
  it;
* a proposal in the worker's hands when the process ends is written and not
  exported, and neither is one whose record the disk refuses
  (`export/spool.py:114-116`);
* the health server's `shutdown()` has no timeout (`health.py:83`): it relies on
  a loop that only hands requests on;
* a document that could not be read is cached as having no content until its
  time or size changes; making it readable changes neither (`context.py:105`);
* a document replaced with one of the same time and size is not noticed;
  `GuidanceIsCurrent` excepts it;
* the budget does not count the line ends between documents, and a truncated
  document may exceed the whole budget with the notice about it, so that no
  guidance is left (`config.py:260` compares the limits without it);
* a confidence of NaN or `true` becomes 1.0 and can skip human review
  (`ollama_client.py:127`); `ReviewSkippedOnlyIfRoutine` excepts both;
* steps that are all blank pass validation and leave an empty list
  (`ollama_client.py:115-134`);
* a context directory that cannot be listed ends `start()` with an exception, and
  makes the status page answer 503 afterwards.

What the properties of the passing runs do not see, although the models have it:
`DeliveredIsTrue` accepts a late "pending" over a "delivered"; `NothingVanishes`
counts a record lost to a crash during its own rewrite as unreadable;
`WatchedWasConsented` accepts consent taken from documents of different moments;
`ContextContiguous` speaks of the lines read, so that lines lost at a rotation
leave no gap; `ShutdownCompletes` accepts an end without joins.

## 7. What is not modelled

* **The trackers' workflow details**; `reopen` and `resolve` on Jira assume that
  the workflow offers the transition.
* **Texts**: prompts, answers, steps of a proposal, wording of records, comments
  and logs, the extraction of JSON from prose. The redaction level is chosen when
  a record is spooled; consent withdrawn afterwards does not reach what is in the
  spool (`exporter.py:82`), and no document says that it should.
* **Before the start**: the model pull, which may take half an hour before the
  health server answers, the `--check` probes, parsing of the configuration,
  lookup of credentials.
* **White space** around guidance, which is stripped before it is measured.
* **A wall clock that runs backwards**; the model's records are ordered by
  arrival, while the spool sorts by the clock (`export/spool.py:96`).
* **Anax client retries**, the size cut of log files above 1 GB, the watchdog that
  shortens a wait.
* **Message formats of the sinks**, signing, TLS, and the requests behind the
  trackers' calls: they keep no state that another part depends on.

## 8. Plan

1. An abstract store-and-forward specification for the exporter to implement,
   with the refinement proved from `IInv` of `ExporterProofs`.
2. Two problems sharing the ledger's file, and the redaction level over a change
   of consent.
