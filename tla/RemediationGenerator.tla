------------------------ MODULE RemediationGenerator ------------------------
(* remediation.py: one proposal file per problem, rewritten in place by the   *)
(* threads that emit analysis results and by the thread that delivers them.   *)
(*                                                                            *)
(* Every rewrite reads the file, changes the document in memory and replaces  *)
(* the file through a temporary one, all under the generator's lock. The two  *)
(* halves are separate steps here, with the lock as state, so that what the   *)
(* lock protects is visible; the replacement itself is atomic (os.replace).   *)
EXTENDS Integers

CONSTANTS
    Problems,       \* problem keys
    Emitters,       \* threads that call handle_result
    Recorders,      \* threads that only call record_delivery
    Sinks,          \* export sinks
    Statuses,       \* delivery states the exporter reports
    Nobody, None,   \* the free lock; an absent file, result, document or status
    Results,        \* what the analyzer may hand over
    MaxTotal,       \* bound: no new result once a file counts this many
    MaxFailures     \* bound: writes refused by the disk

Threads == Emitters \cup Recorders

VARIABLES
    file,           \* problem -> the document on disk, or None
    genLock,        \* _lock: its holder
    genPc,          \* thread -> where it stands
    task,           \* thread -> the result or delivery notice it handles, or None
    draft,          \* thread -> the document it has in memory, or None
    storageFailures,
    ledger,         \* history: what the writes so far amount to, done one by one
    exported,       \* history: the idempotency keys handed on for export
    lapsed          \* history: problems whose count was not written or not read

memoryVars == <<genLock, genPc, task, draft>>
historyVars == <<ledger, exported, lapsed>>
genVars == <<file, memoryVars, storageFailures, historyVars>>

Result == [problem: Problems, at: Nat, occurrences: Nat \ {0}, cached: BOOLEAN]
Notice == [problem: Problems, sink: Sinks, status: Statuses]

Exports == [Sinks -> Statuses \cup {None}]
Document == [first: Nat, last: Nat, total: Nat, analyses: Nat, exports: Exports]
Account == [first: Nat, total: Nat, exports: Exports]

ASSUME GeneratorAssumption ==
    /\ Nobody \notin Threads
    /\ None \notin Statuses \cup Document \cup Account
    /\ Results \subseteq Result

NoExports == [k \in Sinks |-> None]

(* _build_metadata: a first sighting, whatever produced the result.           *)
Built(r) == [first |-> r.at, last |-> r.at, total |-> r.occurrences,
             analyses |-> 1, exports |-> NoExports]

(* Mutants of Merged: an emission counts for one occurrence, or the delivery  *)
(* states of the old document are not carried over.                           *)
MergedByOne(r, old) == [Built(r) EXCEPT !.first = old.first,
                                        !.total = old.total + 1,
                                        !.analyses = old.analyses + (IF r.cached THEN 0 ELSE @),
                                        !.exports = old.exports]

MergedForgettingExports(r, old) ==
    [Built(r) EXCEPT !.first = old.first,
                     !.total = old.total + @,
                     !.analyses = old.analyses + (IF r.cached THEN 0 ELSE @)]

(* _merge_with_existing                                                       *)
Merged(r, old) == [Built(r) EXCEPT !.first = old.first,
                                   !.total = old.total + @,
                                   !.analyses = old.analyses + (IF r.cached THEN 0 ELSE @),
                                   !.exports = old.exports]

Init ==
    /\ file = [p \in Problems |-> None]
    /\ genLock = Nobody
    /\ genPc = [t \in Threads |-> "idle"]
    /\ task = [t \in Threads |-> None]
    /\ draft = [t \in Threads |-> None]
    /\ storageFailures = 0
    /\ ledger = [p \in Problems |-> None]
    /\ exported = {} /\ lapsed = {}

-----------------------------------------------------------------------------
(* handle_result(result): generate() needs nothing that is shared ...         *)
HandleResult(t, r) ==
    /\ genPc[t] = "idle"
    /\ genPc' = [genPc EXCEPT ![t] = "persist"]
    /\ task' = [task EXCEPT ![t] = r]
    /\ UNCHANGED <<file, genLock, draft, storageFailures, historyVars>>

(* Mutant of ReadAndMerge: the lock is not waited for.                        *)
ReadAndMergeUnlocked(t, readable) ==
    /\ genPc[t] = "persist"
    /\ genLock' = t
    /\ LET old == file[task[t].problem]
       IN  IF old # None /\ readable
             THEN /\ draft' = [draft EXCEPT ![t] = Merged(task[t], old)]
                  /\ genPc' = [genPc EXCEPT ![t] = "update"]
             ELSE /\ draft' = [draft EXCEPT ![t] = Built(task[t])]
                  /\ genPc' = [genPc EXCEPT ![t] = "create"]
    /\ lapsed' = IF file[task[t].problem] # None /\ ~readable
                   THEN lapsed \cup {task[t].problem} ELSE lapsed
    /\ UNCHANGED <<file, task, storageFailures, ledger, exported>>

(* ... persist() takes the lock and folds the result into the file there is.  *)
(* A file that cannot be read or parsed is replaced: its history is forgotten.*)
ReadAndMerge(t, readable) ==
    /\ genPc[t] = "persist"
    /\ genLock = Nobody
    /\ genLock' = t
    /\ LET old == file[task[t].problem]
       IN  IF old # None /\ readable
             THEN /\ draft' = [draft EXCEPT ![t] = Merged(task[t], old)]
                  /\ genPc' = [genPc EXCEPT ![t] = "update"]
             ELSE /\ draft' = [draft EXCEPT ![t] = Built(task[t])]
                  /\ genPc' = [genPc EXCEPT ![t] = "create"]
    /\ lapsed' = IF file[task[t].problem] # None /\ ~readable
                   THEN lapsed \cup {task[t].problem} ELSE lapsed
    /\ UNCHANGED <<file, task, storageFailures, ledger, exported>>

Accrued(t) ==
    LET r == task[t]
    IN  IF genPc[t] = "create"
          THEN [first |-> r.at, total |-> r.occurrences, exports |-> NoExports]
          ELSE [ledger[r.problem] EXCEPT !.total = @ + r.occurrences]

(* Mutant of WriteSucceeds: the lock is kept.                                 *)
WriteSucceedsKeepingLock(t) ==
    /\ genPc[t] \in {"create", "update"}
    /\ file' = [file EXCEPT ![task[t].problem] = draft[t]]
    /\ ledger' = [ledger EXCEPT ![task[t].problem] = Accrued(t)]
    /\ genPc' = [genPc EXCEPT ![t] = "callback"]
    /\ UNCHANGED <<task, draft, genLock, storageFailures, exported, lapsed>>

WriteSucceeds(t) ==
    /\ genPc[t] \in {"create", "update"}
    /\ file' = [file EXCEPT ![task[t].problem] = draft[t]]
    /\ ledger' = [ledger EXCEPT ![task[t].problem] = Accrued(t)]
    /\ genLock' = Nobody
    /\ genPc' = [genPc EXCEPT ![t] = "callback"]
    /\ UNCHANGED <<task, draft, storageFailures, exported, lapsed>>

(* The disk refuses: the proposal goes to stdout and on to the callback.      *)
WriteFails(t) ==
    /\ genPc[t] \in {"create", "update"}
    /\ storageFailures < MaxFailures
    /\ storageFailures' = storageFailures + 1
    /\ genLock' = Nobody
    /\ genPc' = [genPc EXCEPT ![t] = "callback"]
    /\ lapsed' = lapsed \cup {task[t].problem}
    /\ UNCHANGED <<file, task, draft, ledger, exported>>

(* on_proposal(proposal): the document in memory goes on to the exporter, which *)
(* gives its records the problem and the count it finds there as their key    *)
(* (records.py).                                                              *)
IdempotencyKey(t) == [problem |-> task[t].problem, total |-> draft[t].total]

HandOn(t) ==
    /\ genPc[t] = "callback"
    /\ exported' = exported \cup {IdempotencyKey(t)}
    /\ genPc' = [genPc EXCEPT ![t] = "exporting"]
    /\ draft' = [draft EXCEPT ![t] = None]
    /\ UNCHANGED <<file, genLock, task, storageFailures, ledger, lapsed>>

(* The callback has returned or raised: either way this is the end.           *)
HandleReturns(t) ==
    /\ genPc[t] = "exporting"
    /\ genPc' = [genPc EXCEPT ![t] = "idle"]
    /\ task' = [task EXCEPT ![t] = None]
    /\ draft' = [draft EXCEPT ![t] = None]
    /\ UNCHANGED <<file, genLock, storageFailures, historyVars>>

-----------------------------------------------------------------------------
(* record_delivery: from the export thread, or from an emitter inside its     *)
(* callback (`from`). No file, or one that cannot be read: nothing to do.     *)
ReadForDelivery(t, n, from) ==
    /\ genPc[t] = from
    /\ genLock = Nobody
    /\ file[n.problem] # None
    /\ genLock' = t
    /\ draft' = [draft EXCEPT ![t] = [file[n.problem] EXCEPT !.exports[n.sink] = n.status]]
    /\ task' = [task EXCEPT ![t] = n]
    /\ genPc' = [genPc EXCEPT ![t] = "rewrite"]
    /\ UNCHANGED <<file, storageFailures, historyVars>>

DeliveryWritten(t, stored) ==
    /\ genPc[t] = "rewrite"
    /\ LET n == task[t]
       IN  IF stored
             THEN /\ file' = [file EXCEPT ![n.problem] = draft[t]]
                  /\ ledger' = [ledger EXCEPT ![n.problem].exports[n.sink] = n.status]
             ELSE UNCHANGED <<file, ledger>>
    /\ genLock' = Nobody
    /\ genPc' = [genPc EXCEPT ![t] = IF t \in Emitters THEN "exporting" ELSE "idle"]
    /\ task' = [task EXCEPT ![t] = None]
    /\ draft' = [draft EXCEPT ![t] = None]
    /\ UNCHANGED <<storageFailures, exported, lapsed>>

(* The process dies at any point and starts again: only the files are left.   *)
Crash ==
    /\ \E t \in Threads : genPc[t] # "idle"
    /\ genLock' = Nobody
    /\ genPc' = [t \in Threads |-> "idle"]
    /\ task' = [t \in Threads |-> None]
    /\ draft' = [t \in Threads |-> None]
    /\ storageFailures' = 0
    /\ UNCHANGED <<file, historyVars>>

EmitterStep(t) ==
    \/ \E readable \in BOOLEAN : ReadAndMerge(t, readable)
    \/ WriteSucceeds(t)
    \/ WriteFails(t)
    \/ HandOn(t)

NoticeStep(t) ==
    \/ \E n \in Notice : ReadForDelivery(t, n, IF t \in Emitters THEN "exporting" ELSE "idle")
    \/ \E stored \in BOOLEAN : DeliveryWritten(t, stored)

Next ==
    \/ \E t \in Emitters : \/ /\ \A p \in Problems : file[p] # None => file[p].total < MaxTotal
                             /\ \E r \in Results : HandleResult(t, r)
                          \/ EmitterStep(t)
                          \/ HandleReturns(t)
    \/ \E t \in Threads : NoticeStep(t)
    \/ Crash

Spec == Init /\ [][Next]_genVars

-----------------------------------------------------------------------------
(* Properties                                                                 *)

TypeOK ==
    /\ file \in [Problems -> Document \cup {None}]
    /\ genLock \in Threads \cup {Nobody}
    /\ genPc \in [Threads -> {"idle", "persist", "create", "update", "callback",
                          "exporting", "rewrite"}]
    /\ task \in [Threads -> Result \cup Notice \cup {None}]
    /\ draft \in [Threads -> Document \cup {None}]
    /\ storageFailures \in Nat
    /\ ledger \in [Problems -> Account \cup {None}]
    /\ exported \subseteq [problem: Problems, total: Nat]
    /\ lapsed \subseteq Problems

(* Whatever the interleaving of emissions and deliveries, and wherever the    *)
(* process died, the file holds what its writes done one after the other add  *)
(* up to: no occurrence and no delivery state is overwritten by a thread that *)
(* read the file before the other wrote it.                                   *)
NoUpdateLost ==
    \A p \in Problems :
        /\ file[p] = None <=> ledger[p] = None
        /\ file[p] # None =>
               /\ file[p].first = ledger[p].first
               /\ file[p].total = ledger[p].total
               /\ file[p].exports = ledger[p].exports

(* A thread about to write holds the lock, so there is at most one.           *)
OneWriter ==
    \A t \in Threads : genPc[t] \in {"create", "update", "rewrite"} <=> genLock = t

(* Stated by export/records.py:69-71: a genuinely new occurrence produces a   *)
(* new key. However the emitting threads interleave, with each other, with    *)
(* deliveries and with crashes, what a thread is about to hand on has a key   *)
(* that no other emission has or had; unless the count of the problem was     *)
(* once not written or not read, from where on keys may come again.           *)
KeysDistinct ==
    \A t \in Emitters :
        genPc[t] = "callback" /\ task[t].problem \notin lapsed =>
            /\ IdempotencyKey(t) \notin exported
            /\ \A u \in Emitters \ {t} :
                  genPc[u] = "callback" => IdempotencyKey(u) # IdempotencyKey(t)

(* A rewrite never forgets: unless the file could not be read, its count only *)
(* grows, its first sighting stays and no delivery state is withdrawn.        *)
Remembers(old, new) ==
    /\ new.first = old.first
    /\ new.total >= old.total
    /\ new.analyses >= old.analyses
    /\ \A k \in Sinks : old.exports[k] # None => new.exports[k] # None

KeepsHistory ==
    \A p \in Problems :
        \/ file[p] = None
        \/ Remembers(file[p], file'[p])
        \/ \E t \in Threads : genPc[t] = "create" /\ task[t].problem = p

HistoryKept == [][KeepsHistory]_genVars
=============================================================================
