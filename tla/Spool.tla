-------------------------------- MODULE Spool --------------------------------
(* export/spool.py: the records waiting for delivery, one file each. Every    *)
(* operation runs under the spool's lock and is one action; the exporter's    *)
(* threads call them. A record weighs one unit of max_bytes. Names sort in    *)
(* the order of arrival, so a record's id is its place in that order.         *)
EXTENDS Integers, FiniteSets

CONSTANTS
    MaxRecords,     \* max_bytes, in records
    MaxAge,         \* max_age_seconds, in ticks
    BaseBackoff,    \* base_backoff, in ticks
    MaxBackoff,     \* DEFAULT_MAX_BACKOFF, in ticks
    MaxFaults       \* bound: files the disk refuses to unlink or to rewrite

ASSUME SpoolAssumption ==
    {MaxRecords, MaxAge, BaseBackoff, MaxBackoff, MaxFaults} \subseteq Nat

VARIABLES
    spool,          \* the entries on disk
    lastId,         \* _sequence (kept apart by the millisecond prefix)
    delivered, dropped, expired, queued,    \* the public counters
    accepted,       \* history: every record put: its id, problem and sink
    shed,           \* history: ids dropped at the ceiling
    aged,           \* history: ids discarded for their age
    unreadable,     \* history: ids discarded because their file was broken
    faults,         \* history: files the disk refused to unlink or to rewrite
    undeleted       \* history: ids whose file succeed last failed to unlink

countVars == <<queued, delivered, dropped, expired>>
lossVars == <<shed, aged, unreadable>>
faultVars == <<faults, undeleted>>
spoolVars == <<spool, lastId, countVars, accepted, lossVars, faultVars>>

Ids(S) == {e.id : e \in S}

SpoolInit ==
    /\ spool = {} /\ lastId = 0
    /\ queued = 0 /\ delivered = 0 /\ dropped = 0 /\ expired = 0
    /\ accepted = {} /\ shed = {} /\ aged = {} /\ unreadable = {}
    /\ faults = 0 /\ undeleted = {}

(* _discard swallows an OSError: of the files to go, the disk may keep some   *)
(* as they are. What else there is on disk afterwards is the rest.            *)
Discard(gone, rest) ==
    \E refused \in SUBSET gone :
        /\ faults + Cardinality(refused) <= MaxFaults
        /\ faults' = faults + Cardinality(refused)
        /\ spool' = rest \cup refused

Others(record) == {e \in spool : e.id # record.id}
FileOf(record) == {e \in spool : e.id = record.id}

(* _enforce_limits: what stays when the oldest go first.                      *)
WithinCeiling(S) ==
    {e \in S : Cardinality({f \in S : f.id >= e.id}) <= MaxRecords}

(* put: the file appears by renaming a temporary one, then the ceiling is     *)
(* enforced. The new record itself goes if it alone exceeds the ceiling. What *)
(* is to go counts as dropped whether or not the disk lets it go.             *)
Put(problem, sink) ==
    LET entry == [id |-> lastId + 1, problem |-> problem, sink |-> sink,
                  attempts |-> 0, age |-> 0, wait |-> 0, torn |-> FALSE]
        kept == WithinCeiling(spool \cup {entry})
        gone == (spool \cup {entry}) \ kept
    IN  /\ Discard(gone, kept)
        /\ lastId' = lastId + 1
        /\ queued' = queued + 1
        /\ dropped' = dropped + Cardinality(gone)
        /\ accepted' = accepted \cup {[id |-> entry.id, problem |-> problem, sink |-> sink]}
        /\ shed' = shed \cup Ids(gone)
        /\ UNCHANGED <<delivered, expired, aged, unreadable, undeleted>>

(* _load discards what it cannot parse; due keeps what has waited enough.     *)
Readable == {e \in spool : ~e.torn}
(* Mutant of Due: what has failed once is not due again.                      *)
DueUntried == {e \in Readable : e.attempts = 0}

Due == {e \in Readable : e.wait = 0}

LoadAll ==
    /\ Discard(spool \ Readable, Readable)
    /\ unreadable' = unreadable \cup Ids(spool \ Readable)
    /\ UNCHANGED <<lastId, countVars, accepted, shed, aged, undeleted>>

(* succeed: counts a delivery whether or not the file was still there, and    *)
(* whether or not it is gone now. A file that stays is due at once.           *)
Succeed(record) ==
    /\ Discard(FileOf(record), Others(record))
    /\ delivered' = delivered + 1
    /\ undeleted' = (undeleted \ {record.id}) \cup (Ids(spool') \cap {record.id})
    /\ UNCHANGED <<lastId, queued, dropped, expired, accepted, lossVars>>

IsExpired(record) == record.age > MaxAge

(* backoff_delay: exponential up to the maximum, jittered down to a half.     *)
Delays(attempts) ==
    LET full == BaseBackoff * 2 ^ (attempts - 1)
        delay == IF full > MaxBackoff THEN MaxBackoff ELSE full
    IN  (delay + 1) \div 2 .. delay

(* fail, on a record older than the age ceiling ...                           *)
FailExpired(record) ==
    /\ IsExpired(record)
    /\ Discard(FileOf(record), Others(record))
    /\ expired' = expired + 1
    /\ aged' = aged \cup {record.id}
    /\ UNCHANGED <<lastId, queued, delivered, dropped, accepted, shed, unreadable, undeleted>>

(* Mutant of FailRetry: the file is removed and not written again.            *)
FailRetryDropping(record) ==
    /\ ~IsExpired(record)
    /\ spool' = Others(record)
    /\ UNCHANGED <<lastId, countVars, accepted, lossVars, faultVars>>

(* ... or to be retried: its file is rewritten in place, whether or not it is *)
(* still there and without looking at the ceiling.                            *)
FailRetry(record) ==
    /\ ~IsExpired(record)
    /\ \E delay \in Delays(record.attempts + 1) :
           spool' = Others(record) \cup {[record EXCEPT !.attempts = @ + 1,
                                                       !.wait = delay]}
    /\ UNCHANGED <<lastId, countVars, accepted, lossVars, faultVars>>

(* (the disk refuses: the file is as it was and due at once, if it cannot be  *)
(* opened, or cut short, if it cannot be filled)                              *)
FailUnwritten(record) ==
    /\ ~IsExpired(record)
    /\ faults < MaxFaults /\ faults' = faults + 1
    /\ \/ UNCHANGED spool
       \/ spool' = Others(record) \cup {[record EXCEPT !.torn = TRUE]}
    /\ UNCHANGED <<lastId, countVars, accepted, lossVars, undeleted>>

PurgeExpired ==
    LET old == {e \in Readable : IsExpired(e)}
    IN  /\ Discard(old \cup (spool \ Readable), Readable \ old)
        /\ expired' = expired + Cardinality(old)
        /\ aged' = aged \cup Ids(old)
        /\ unreadable' = unreadable \cup Ids(spool \ Readable)
        /\ UNCHANGED <<lastId, queued, delivered, dropped, accepted, shed, undeleted>>

(* The process starts again: counters are new, the files are what they were,  *)
(* except that a rewrite in place may have left its file broken.              *)
Reopen(halfWritten) ==
    /\ spool' = {[e EXCEPT !.torn = @ \/ e.id \in halfWritten] : e \in spool}
    /\ queued' = 0 /\ delivered' = 0 /\ dropped' = 0 /\ expired' = 0
    /\ UNCHANGED <<lastId, accepted, lossVars, faultVars>>

(* A tick of time.time(). Times are kept relative to it: how long a record    *)
(* has been queued (as far as the age ceiling tells ages apart) and how long  *)
(* its retry has to wait.                                                     *)
Older(e) == [e EXCEPT !.age = IF @ > MaxAge THEN @ ELSE @ + 1,
                      !.wait = IF @ = 0 THEN 0 ELSE @ - 1]

Elapse ==
    /\ spool' = {Older(e) : e \in spool}
    /\ UNCHANGED <<lastId, countVars, accepted, lossVars, faultVars>>
=============================================================================
