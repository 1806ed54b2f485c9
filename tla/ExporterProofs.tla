--------------------------- MODULE ExporterProofs ---------------------------
(* Theorems about Exporter and the spool under it, for every set of problems, *)
(* sinks and submitting threads, every limit, and any number of restarts.     *)
EXTENDS Exporter, TLAPS

Rec == [id: Nat, problem: Problems, sink: Sinks, attempts: Int, age: Int, wait: Int,
        torn: BOOLEAN]
Facts(e) == [id |-> e.id, problem |-> e.problem, sink |-> e.sink]

Busy == exportPc \in {"send", "discard", "settle", "notify"}

TypeInv ==
    /\ spool \subseteq Rec /\ batch \subseteq Rec
    /\ current \in Rec \cup {None} /\ (Busy => current \in Rec)
    /\ lastId \in Nat
    /\ accepted \subseteq [id: Nat, problem: Problems, sink: Sinks]
    /\ submission \in [Submitters -> {None} \cup
           [problem: Problems, todo: SUBSET Sinks, notify: SUBSET Sinks]]
    /\ configured \subseteq Sinks
    /\ status \in [Problems -> [Sinks -> {"none", "pending", "delivered", "failed"}]]

(* Whatever is on disk or in the export thread's hands was put once, and so   *)
(* was all that the histories speak of; new records get new ids.              *)
Known ==
    /\ \A e \in spool \cup batch : Facts(e) \in accepted
    /\ Busy => Facts(current) \in accepted
    /\ \A r \in accepted : r.id <= lastId
    /\ received \cup acknowledged \cup shed \cup aged \cup unreadable \cup abandoned
           \subseteq Ids(accepted)

(* An answer the export thread still acts on is true, as far as the sink says.*)
AnswerTrue ==
    exportPc \in {"settle", "notify"} /\ answer = "ok" =>
        current.id \in received \/ ~Confirms(current.sink)

(* What was acknowledged is not on disk, not in the snapshot and not the      *)
(* record at hand, until its own success is noted; save a file that could not *)
(* be unlinked. This needs that no two files, no two records of a snapshot,   *)
(* and no record at hand and one still to come, are of one id.                *)
UniqueIds(S) == \A e, f \in S : e.id = f.id => e = f

Over == acknowledged \ undeleted

Fresh ==
    /\ UniqueIds(spool) /\ UniqueIds(batch)
    /\ \A e \in spool \cup batch : e.id \notin Over
    /\ exportPc \in {"send", "settle"} => current.id \notin Over
    /\ exportPc \in {"send", "settle", "discard"} => \A e \in batch : e.id # current.id

Excuses == received \cup shed \cup aged \cup unreadable \cup abandoned \cup SentUnconfirmed

IInv == TypeInv /\ Known /\ AnswerTrue /\ Fresh /\ NothingVanishes /\ DeliveredIsTrue

-----------------------------------------------------------------------------
(* The operators of Spool                                                     *)

LEMMA IdsMember ==
    ASSUME NEW S, NEW x
    PROVE  x \in Ids(S) <=> \E e \in S : e.id = x
BY DEF Ids

(* A record that was put makes its id one of those put.                       *)
LEMMA FactsMember ==
    ASSUME NEW e, NEW A, Facts(e) \in A
    PROVE  e.id \in Ids(A)
<1>1. Facts(e).id = e.id
  BY DEF Facts
<1> QED
  BY <1>1, IdsMember

(* Time passes over a record, a failure is noted in it, or its file breaks:   *)
(* what it is a record of does not change.                                    *)
LEMMA OlderRecord ==
    ASSUME NEW e \in Rec
    PROVE  Older(e) \in Rec /\ Facts(Older(e)) = Facts(e) /\ Older(e).id = e.id
<1> DEFINE age == IF e.age > MaxAge THEN e.age ELSE e.age + 1
           wait == IF e.wait = 0 THEN 0 ELSE e.wait - 1
<1>1. e.age \in Int /\ e.wait \in Int /\ MaxAge \in Int
  BY SpoolAssumption DEF Rec
<1>2. age \in Int /\ wait \in Int
  BY <1>1
<1>3. Older(e) = [e EXCEPT !.age = age, !.wait = wait]
  BY DEF Older, Rec
<1> HIDE DEF age, wait
<1> QED
  BY <1>2, <1>3 DEF Rec, Facts

LEMMA RetriedRecord ==
    ASSUME NEW e \in Rec, NEW delay \in Int
    PROVE  LET new == [e EXCEPT !.attempts = @ + 1, !.wait = delay]
           IN  new \in Rec /\ Facts(new) = Facts(e) /\ new.id = e.id
<1> DEFINE attempts == e.attempts + 1
           new == [e EXCEPT !.attempts = attempts, !.wait = delay]
<1>1. attempts \in Int
  BY DEF Rec
<1>2. new = [e EXCEPT !.attempts = @ + 1, !.wait = delay]
  BY DEF Rec
<1>3. new \in Rec /\ Facts(new) = Facts(e) /\ new.id = e.id
  <2> HIDE DEF attempts
  <2> QED
    BY <1>1 DEF Rec, Facts
<1> QED
  BY <1>2, <1>3

LEMMA TornRecord ==
    ASSUME NEW e \in Rec, NEW ids
    PROVE  LET new == [e EXCEPT !.torn = @ \/ e.id \in ids]
           IN  new \in Rec /\ Facts(new) = Facts(e) /\ new.id = e.id
BY DEF Rec, Facts

LEMMA CutShortRecord ==
    ASSUME NEW e \in Rec
    PROVE  LET new == [e EXCEPT !.torn = TRUE]
           IN  new \in Rec /\ Facts(new) = Facts(e) /\ new.id = e.id
BY DEF Rec, Facts

LEMMA DelayIsNumber ==
    ASSUME NEW e \in Rec, NEW delay \in Delays(e.attempts + 1)
    PROVE  delay \in Int
BY SpoolAssumption DEF Delays, Rec

(* A sink that confirms answers "ok" only of what it received.                *)
LEMMA ConfirmedAnswer ==
    ASSUME NEW k \in Sinks, Confirms(k),
           NEW answered \in Answers(k), answered.outcome = "ok"
    PROVE  answered.arrived
<1>1. Kind[k] \in {"http", "mqtt"}
  BY DEF Confirms
<1>2. answered \in Posted \cup Published
  BY <1>1 DEF Answers
<1> QED
  BY <1>2 DEF Posted, Published, Answered

(* _discard leaves the rest alone and brings nothing back.                    *)
LEMMA Discarding ==
    ASSUME NEW gone, NEW rest, Discard(gone, rest)
    PROVE  rest \subseteq spool' /\ spool' \subseteq rest \cup gone
BY DEF Discard

LEMMA FilesOfRecord ==
    ASSUME NEW record, Discard(FileOf(record), Others(record))
    PROVE  /\ spool' \subseteq spool
           /\ \A e \in spool : e.id # record.id => e \in spool'
<1>1. Others(record) \subseteq spool' /\ spool' \subseteq Others(record) \cup FileOf(record)
  BY Discarding
<1> QED
  BY <1>1 DEF Others, FileOf

(* The history in terms of records.                                           *)
LEMMA UnconfirmedMember ==
    ASSUME NEW x
    PROVE  x \in SentUnconfirmed
             <=> x \in acknowledged /\ \E r \in accepted : r.id = x /\ ~Confirms(r.sink)
BY DEF SentUnconfirmed

LEMMA KnownIds ==
    ASSUME TypeInv, Known
    PROVE  /\ \A e \in spool \cup batch : e.id \in Ids(accepted)
           /\ Busy => current.id \in Ids(accepted)
           /\ \A x \in Ids(accepted) : x <= lastId
<1>1. \A e : Facts(e) \in accepted => e.id \in Ids(accepted)
  BY FactsMember
<1> QED
  BY <1>1, IdsMember DEF Known

-----------------------------------------------------------------------------
(* Steps that leave the files alone                                           *)

LEMMA InitIInv == ASSUME Init PROVE IInv
<1> USE DEF Init, SpoolInit
<1>1. TypeInv
  BY DEF TypeInv, Busy
<1>2. Known /\ AnswerTrue /\ Fresh
  BY DEF Known, AnswerTrue, Fresh, Busy, UniqueIds, Ids
<1>3. NothingVanishes /\ DeliveredIsTrue
  BY DEF NothingVanishes, DeliveredIsTrue, Ids, SentUnconfirmed
<1> QED
  BY <1>1, <1>2, <1>3 DEF IInv

(* A step that changes no record and no history, and nothing the export       *)
(* thread is busy with, keeps all but the types of what it does change.       *)
LEMMA QuietStep ==
    ASSUME IInv, TypeInv',
           UNCHANGED <<spoolVars, received, acknowledged, abandoned, current, answer>>,
           batch' \subseteq batch,
           exportPc' = exportPc \/ ~Busy',
           \A p \in Problems, k \in Sinks :
               status'[p][k] = "delivered" => status[p][k] = "delivered"
    PROVE  IInv'
<1> USE DEF spoolVars, countVars, lossVars, faultVars
<1>1. Known'
  BY DEF IInv, Known, Busy, Ids
<1>2. AnswerTrue'
  BY DEF IInv, AnswerTrue, Busy
<1>3. Fresh'
  BY DEF IInv, Fresh, Over, UniqueIds, Busy
<1>4. NothingVanishes'
  BY DEF IInv, NothingVanishes, SentUnconfirmed, Ids
<1>5. DeliveredIsTrue'
  BY DEF IInv, DeliveredIsTrue
<1> QED
  BY <1>1, <1>2, <1>3, <1>4, <1>5 DEF IInv

LEMMA SubmitIInv ==
    ASSUME IInv, NEW t \in Submitters, NEW p \in Problems, Submit(t, p)
    PROVE  IInv'
<1> USE DEF Submit, spoolVars, countVars, lossVars, faultVars, workerVars, historyVars
<1>1. TypeInv'
  BY DEF IInv, TypeInv, Busy
<1> QED
  BY <1>1, QuietStep

LEMMA PutRefusedIInv ==
    ASSUME IInv, NEW t \in Submitters, NEW sink \in Sinks, PutRefused(t, sink)
    PROVE  IInv'
<1> USE DEF PutRefused, spoolVars, countVars, lossVars, faultVars, workerVars, historyVars
<1>1. TypeInv'
  BY DEF IInv, TypeInv, Busy
<1> QED
  BY <1>1, QuietStep

LEMMA NotifyPendingIInv ==
    ASSUME IInv, NEW t \in Submitters, NotifyPending(t)
    PROVE  IInv'
<1> USE DEF NotifyPending, spoolVars, countVars, lossVars, faultVars, workerVars, historyVars
<1>1. submission[t] \in [problem: Problems, todo: SUBSET Sinks, notify: SUBSET Sinks]
  BY DEF IInv, TypeInv
<1>2. PICK sink \in submission[t].notify :
          status' = [status EXCEPT ![submission[t].problem][sink] = "pending"]
  OBVIOUS
<1>3. sink \in Sinks /\ submission[t].problem \in Problems
  BY <1>1
<1>4. status' \in [Problems -> [Sinks -> {"none", "pending", "delivered", "failed"}]]
  BY <1>2, <1>3 DEF IInv, TypeInv
<1>5. TypeInv'
  BY <1>1, <1>4 DEF IInv, TypeInv, Busy
<1>6. \A q \in Problems, k \in Sinks :
          status'[q][k] = "delivered" => status[q][k] = "delivered"
  BY <1>2, <1>3 DEF IInv, TypeInv
<1> QED
  BY <1>5, <1>6, QuietStep

LEMMA SubmitReturnsIInv ==
    ASSUME IInv, NEW t \in Submitters, SubmitReturns(t)
    PROVE  IInv'
<1> USE DEF SubmitReturns, spoolVars, countVars, lossVars, faultVars, workerVars, historyVars
<1>1. TypeInv'
  BY DEF IInv, TypeInv, Busy
<1> QED
  BY <1>1, QuietStep

LEMMA IdleStepsIInv ==
    ASSUME IInv, EndOfBatch \/ WaitEnds \/ Stop \/ UNCHANGED vars
    PROVE  IInv'
<1> USE DEF spoolVars, countVars, lossVars, faultVars, workerVars, historyVars, vars
<1>1. CASE EndOfBatch
  BY <1>1, QuietStep DEF EndOfBatch, IInv, TypeInv, Busy
<1>2. CASE WaitEnds
  BY <1>2, QuietStep DEF WaitEnds, IInv, TypeInv, Busy
<1>3. CASE Stop
  BY <1>3, QuietStep DEF Stop, IInv, TypeInv, Busy
<1>4. CASE UNCHANGED vars
  BY <1>4, QuietStep DEF IInv, TypeInv, Busy
<1> QED
  BY <1>1, <1>2, <1>3, <1>4

-----------------------------------------------------------------------------
(* Steps that change the files: the histories only grow, and whatever leaves  *)
(* the disk is written down in one of them.                                   *)

HistoriesGrow ==
    /\ accepted \subseteq accepted' /\ received \subseteq received'
    /\ acknowledged \subseteq acknowledged' /\ abandoned \subseteq abandoned'
    /\ shed \subseteq shed' /\ aged \subseteq aged' /\ unreadable \subseteq unreadable'

LEMMA StaysAccounted ==
    ASSUME IInv, TypeInv', Known', HistoriesGrow,
           \A e \in spool : e.id \in Ids(spool') \cup Excuses',
           \A r \in accepted' \ accepted : r.id \in Ids(spool') \cup Excuses'
    PROVE  NothingVanishes'
<1>1. SentUnconfirmed \subseteq SentUnconfirmed'
  BY DEF HistoriesGrow, SentUnconfirmed
<1>2. Excuses \subseteq Excuses'
  BY <1>1 DEF HistoriesGrow, Excuses
<1>3. SentUnconfirmed' \subseteq acknowledged'
  BY DEF SentUnconfirmed
<1>4. Ids(spool') \subseteq Ids(accepted')
  <2>1. \A e \in spool' : Facts(e) \in accepted'
    BY DEF Known
  <2> QED
    BY <2>1, IdsMember, FactsMember
<1>5. Ids(spool') \cup Excuses' \subseteq Ids(accepted')
  BY <1>3, <1>4 DEF Known, Excuses
<1>6. ASSUME NEW r \in accepted'
      PROVE  r.id \in Ids(spool') \cup Excuses'
  <2>1. CASE r \in accepted
    <3>1. r.id \in Ids(spool) \cup Excuses
      BY <2>1, IdsMember DEF IInv, NothingVanishes, Excuses
    <3> QED
      BY <3>1, <1>2, IdsMember
  <2> QED
    BY <2>1
<1>7. Ids(accepted') \subseteq Ids(spool') \cup Excuses'
  BY <1>6, IdsMember
<1> QED
  BY <1>5, <1>7 DEF NothingVanishes, Excuses

LEMMA StaysDelivered ==
    ASSUME IInv, HistoriesGrow,
           \A p \in Problems, k \in Sinks :
               status'[p][k] = "delivered" => status[p][k] = "delivered"
    PROVE  DeliveredIsTrue'
BY DEF IInv, DeliveredIsTrue, HistoriesGrow

LEMMA PutRecordIInv ==
    ASSUME IInv, NEW t \in Submitters, NEW sink \in Sinks, PutRecord(t, sink)
    PROVE  IInv'
<1> USE DEF spoolVars, countVars, lossVars, faultVars, workerVars, historyVars
<1> DEFINE problem == submission[t].problem
           entry == [id |-> lastId + 1, problem |-> problem, sink |-> sink,
                     attempts |-> 0, age |-> 0, wait |-> 0, torn |-> FALSE]
           kept == WithinCeiling(spool \cup {entry})
           gone == (spool \cup {entry}) \ kept
<1>1. submission[t] \in [problem: Problems, todo: SUBSET Sinks, notify: SUBSET Sinks]
  BY DEF IInv, TypeInv, PutRecord
<1>2. problem \in Problems /\ lastId \in Nat
  BY <1>1 DEF IInv, TypeInv
<1>3. entry \in Rec /\ entry.id = lastId + 1 /\ lastId' = lastId + 1
  BY <1>2 DEF Rec, PutRecord, Put
<1>4. /\ kept \subseteq spool' /\ spool' \subseteq spool \cup {entry}
      /\ gone \subseteq spool \cup {entry}
      /\ accepted' = accepted \cup {Facts(entry)}
      /\ shed' = shed \cup Ids(gone)
  <2>1. kept \subseteq spool \cup {entry}
    BY DEF WithinCeiling
  <2>2. Discard(gone, kept)
    BY DEF PutRecord, Put
  <2>4. accepted' = accepted \cup {Facts(entry)} /\ shed' = shed \cup Ids(gone)
    BY DEF PutRecord, Put, Facts
  <2> HIDE DEF kept, entry
  <2>3. kept \subseteq spool' /\ spool' \subseteq spool \cup {entry}
    BY <2>1, <2>2, Discarding
  <2> QED
    BY <2>1, <2>3, <2>4
<1>5. UNCHANGED <<workerVars, configured, status, historyVars, aged, unreadable, undeleted>>
  BY DEF PutRecord, Put
<1>6. submission' \in [Submitters -> {None} \cup
           [problem: Problems, todo: SUBSET Sinks, notify: SUBSET Sinks]]
  BY <1>1 DEF IInv, TypeInv, PutRecord
<1>7. Facts(entry) \in [id: Nat, problem: Problems, sink: Sinks]
  BY <1>2, <1>3 DEF Facts, Rec
<1> HIDE DEF entry, problem, kept
<1>8. TypeInv'
  BY <1>2, <1>3, <1>4, <1>5, <1>6, <1>7 DEF IInv, TypeInv, Busy
<1>9. HistoriesGrow
  BY <1>4, <1>5 DEF HistoriesGrow
<1>10. \A e \in spool \cup {entry} : Facts(e) \in accepted' /\ e.id \in Ids(accepted')
  BY <1>4, FactsMember DEF IInv, Known
<1>11. Ids(accepted) \subseteq Ids(accepted')
  BY <1>4, IdsMember
<1>12. Known'
  <2>1. \A e \in spool' \cup batch' : Facts(e) \in accepted'
    BY <1>4, <1>5, <1>10 DEF IInv, Known
  <2>2. Busy' => Facts(current') \in accepted'
    BY <1>4, <1>5 DEF IInv, Known, Busy
  <2>3. \A r \in accepted' : r.id <= lastId'
    BY <1>2, <1>3, <1>4 DEF IInv, Known, TypeInv, Facts
  <2>4. Ids(gone) \subseteq Ids(accepted')
    BY <1>10, IdsMember
  <2> QED
    BY <2>1, <2>2, <2>3, <2>4, <1>4, <1>5, <1>11 DEF IInv, Known
<1>13. AnswerTrue'
  BY <1>5 DEF IInv, AnswerTrue
<1>14. \A x \in Ids(accepted) : x # entry.id
  <2>1. \A r \in accepted : r.id \in Nat /\ r.id <= lastId
    BY DEF IInv, Known, TypeInv
  <2> QED
    BY <2>1, <1>2, <1>3, IdsMember
<1>15. Fresh'
  <2>1. \A e \in spool : e.id # entry.id
    BY <1>14, KnownIds DEF IInv
  <2>2. UniqueIds(spool')
    BY <2>1, <1>4 DEF IInv, Fresh, Over, UniqueIds
  <2>3. entry.id \notin acknowledged
    BY <1>14 DEF IInv, Known
  <2> QED
    BY <2>2, <2>3, <1>4, <1>5 DEF IInv, Fresh, Over
<1>16. \A e \in spool \cup {entry} : e.id \in Ids(spool') \cup Excuses'
  <2> TAKE e \in spool \cup {entry}
  <2>1. e \in spool' \/ e \in gone
    BY <1>4
  <2> QED
    BY <2>1, <1>4, IdsMember DEF Excuses
<1>17. NothingVanishes'
  BY <1>4, <1>8, <1>9, <1>12, <1>16, StaysAccounted DEF Facts
<1>18. DeliveredIsTrue'
  BY <1>5, <1>9, StaysDelivered
<1> QED
  BY <1>8, <1>12, <1>13, <1>15, <1>17, <1>18 DEF IInv

-----------------------------------------------------------------------------
(* The export thread's steps                                                  *)

(* What the lock-protected operations of the spool leave on disk was on disk  *)
(* before, and what they take away is in one of the histories.                *)
LEMMA ShrinkingStep ==
    ASSUME IInv, TypeInv', UNCHANGED <<accepted, lastId>>, HistoriesGrow,
           spool' \subseteq spool, batch' \subseteq spool \cup batch,
           Busy' => Facts(current') \in accepted,
           received' \cup acknowledged' \cup shed' \cup aged' \cup unreadable' \cup abandoned'
               \subseteq Ids(accepted),
           \A e \in spool \ spool' : e.id \in Excuses'
    PROVE  Known' /\ NothingVanishes'
<1>1. Known'
  BY DEF IInv, Known
<1>2. \A e \in spool : e.id \in Ids(spool') \cup Excuses'
  BY IdsMember
<1> QED
  BY <1>1, <1>2, StaysAccounted

LEMMA TakeSnapshotIInv ==
    ASSUME IInv, TakeSnapshot
    PROVE  IInv'
<1> USE DEF TakeSnapshot, LoadAll, countVars, historyVars
<1>1. /\ spool' \subseteq spool /\ batch' \subseteq spool
      /\ spool \ spool' \subseteq spool \ Readable
      /\ unreadable' = unreadable \cup Ids(spool \ Readable)
      /\ exportPc' = "next" /\ ~Busy'
  <2>1. Readable \subseteq spool /\ Due \subseteq spool
    BY DEF Readable, Due
  <2>2. Readable \subseteq spool' /\ spool' \subseteq Readable \cup (spool \ Readable)
    BY Discarding
  <2> QED
    BY <2>1, <2>2 DEF Busy
<1>2. TypeInv'
  BY <1>1 DEF IInv, TypeInv
<1>3. HistoriesGrow
  BY <1>1 DEF HistoriesGrow
<1>4. Ids(spool \ Readable) \subseteq Ids(accepted)
  BY IdsMember, KnownIds DEF IInv
<1>5. \A e \in spool \ spool' : e.id \in Excuses'
  BY <1>1, IdsMember DEF Excuses
<1>6. Known' /\ NothingVanishes'
  BY <1>1, <1>2, <1>3, <1>4, <1>5, ShrinkingStep DEF IInv, Known
<1>7. AnswerTrue' /\ Fresh'
  BY <1>1 DEF IInv, AnswerTrue, Fresh, Over, UniqueIds
<1>8. DeliveredIsTrue'
  BY <1>3, StaysDelivered
<1> QED
  BY <1>2, <1>6, <1>7, <1>8 DEF IInv

LEMMA NextRecordIInv ==
    ASSUME IInv, NEW record \in batch, NextRecord(record)
    PROVE  IInv'
<1> USE DEF NextRecord, spoolVars, countVars, lossVars, faultVars, historyVars
<1>1. exportPc' \in {"send", "discard"}
  OBVIOUS
<1>2. TypeInv'
  BY <1>1 DEF IInv, TypeInv
<1>3. HistoriesGrow
  BY DEF HistoriesGrow
<1>4. Known' /\ NothingVanishes'
  BY <1>2, <1>3, ShrinkingStep DEF IInv, Known
<1>5. AnswerTrue'
  BY <1>1 DEF AnswerTrue
<1>6. Fresh'
  BY DEF IInv, Fresh, Over, UniqueIds
<1>7. DeliveredIsTrue'
  BY <1>3, StaysDelivered
<1> QED
  BY <1>2, <1>4, <1>5, <1>6, <1>7 DEF IInv

LEMMA SendIInv ==
    ASSUME IInv, NEW answered \in Handled, Send(answered)
    PROVE  IInv'
<1> USE DEF Send, spoolVars, countVars, lossVars, faultVars
<1>1. Busy /\ Busy' /\ exportPc' = "settle"
  BY DEF Busy
<1>2. current \in Rec /\ Facts(current) \in accepted
  BY <1>1 DEF IInv, TypeInv, Known
<1>3. received' \subseteq received \cup {current.id} /\ received \subseteq received'
  OBVIOUS
<1>4. TypeInv'
  BY <1>1, <1>2 DEF IInv, TypeInv
<1>5. HistoriesGrow
  BY <1>3 DEF HistoriesGrow
<1>6. current.id \in Ids(accepted)
  BY <1>2, FactsMember
<1>7. Known' /\ NothingVanishes'
  BY <1>2, <1>3, <1>4, <1>5, <1>6, ShrinkingStep DEF IInv, Known
<1>8. AnswerTrue'
  <2>1. current.sink \in Sinks
    BY <1>2 DEF Rec
  <2>2. answered \in Answers(current.sink)
    BY DEF Answers
  <2>3. Confirms(current.sink) /\ answered.outcome = "ok" => answered.arrived
    BY <2>1, <2>2, ConfirmedAnswer
  <2> QED
    BY <2>3 DEF AnswerTrue
<1>9. Fresh'
  BY <1>1 DEF IInv, Fresh, Over
<1>10. DeliveredIsTrue'
  BY <1>5, StaysDelivered
<1> QED
  BY <1>4, <1>7, <1>8, <1>9, <1>10 DEF IInv

LEMMA SettleDeliveredIInv ==
    ASSUME IInv, SettleDelivered
    PROVE  IInv'
<1> USE DEF SettleDelivered, Succeed, lossVars
<1>1. Busy /\ Busy' /\ exportPc' = "notify"
  BY DEF Busy
<1>1a. spool' \subseteq spool /\ \A e \in spool : e.id # current.id => e \in spool'
  BY FilesOfRecord
<1>2. current \in Rec /\ Facts(current) \in accepted /\ current.id \in Ids(accepted)
  BY <1>1, FactsMember DEF IInv, TypeInv, Known
<1>3. TypeInv'
  BY <1>1, <1>1a, <1>2 DEF IInv, TypeInv
<1>4. HistoriesGrow
  BY DEF HistoriesGrow
<1>5. AnswerTrue'
  BY DEF IInv, AnswerTrue
<1>6. current.id \in Excuses'
  <2>1. CASE current.id \in received
    BY <2>1 DEF Excuses
  <2>2. CASE ~Confirms(current.sink)
    <3>1. current.id \in SentUnconfirmed'
      BY <2>2, <1>2 DEF SentUnconfirmed, Facts
    <3> QED
      BY <3>1 DEF Excuses
  <2> QED
    BY <2>1, <2>2 DEF IInv, AnswerTrue
<1>7. Known' /\ NothingVanishes'
  BY <1>1a, <1>2, <1>3, <1>4, <1>6, ShrinkingStep DEF IInv, Known
<1>8. Fresh'
  <2>1. ASSUME NEW e \in spool' \cup batch PROVE e.id \notin Over'
    <3>1. CASE e.id = current.id
      <4>1. e \in spool'
        BY <3>1 DEF IInv, Fresh
      <4>2. e.id \in Ids(spool') \cap {current.id}
        BY <3>1, <4>1, IdsMember
      <4> QED
        BY <4>2 DEF Over
    <3>2. CASE e.id # current.id
      BY <1>1a, <3>2 DEF IInv, Fresh, Over
    <3> QED
      BY <3>1, <3>2
  <2>2. UniqueIds(spool') /\ UniqueIds(batch')
    BY <1>1a DEF IInv, Fresh, UniqueIds
  <2> QED
    BY <2>1, <2>2, <1>1 DEF Fresh, AnswerTrue
<1>9. DeliveredIsTrue'
  BY <1>4, StaysDelivered
<1> QED
  BY <1>3, <1>5, <1>7, <1>8, <1>9 DEF IInv

LEMMA DiscardUnknownIInv ==
    ASSUME IInv, DiscardUnknown
    PROVE  IInv'
<1> USE DEF DiscardUnknown, Succeed, Done, lossVars
<1>1. Busy /\ ~Busy' /\ exportPc' = "next"
  BY DEF Busy
<1>1a. spool' \subseteq spool /\ \A e \in spool : e.id # current.id => e \in spool'
  BY FilesOfRecord
<1>2. current \in Rec /\ Facts(current) \in accepted /\ current.id \in Ids(accepted)
  BY <1>1, FactsMember DEF IInv, TypeInv, Known
<1>3. TypeInv'
  BY <1>1, <1>1a DEF IInv, TypeInv
<1>4. HistoriesGrow
  BY DEF HistoriesGrow
<1>5. AnswerTrue' /\ Fresh'
  <2>1. ASSUME NEW e \in spool' \cup batch PROVE e.id \notin Over'
    <3>1. CASE e.id = current.id
      <4>1. e \in spool'
        BY <3>1 DEF IInv, Fresh
      <4>2. e.id \in Ids(spool') \cap {current.id}
        BY <3>1, <4>1, IdsMember
      <4> QED
        BY <4>2 DEF Over
    <3>2. CASE e.id # current.id
      BY <1>1a, <3>2 DEF IInv, Fresh, Over
    <3> QED
      BY <3>1, <3>2
  <2>2. UniqueIds(spool') /\ UniqueIds(batch')
    BY <1>1a DEF IInv, Fresh, UniqueIds
  <2> QED
    BY <2>1, <2>2, <1>1 DEF Fresh, AnswerTrue
<1>6. \A e \in spool \ spool' : e.id \in Excuses'
  BY <1>1a DEF Excuses
<1>7. Known' /\ NothingVanishes'
  BY <1>1, <1>1a, <1>2, <1>3, <1>4, <1>6, ShrinkingStep DEF IInv, Known
<1>8. DeliveredIsTrue'
  BY <1>4, StaysDelivered
<1> QED
  BY <1>3, <1>5, <1>7, <1>8 DEF IInv

LEMMA SettleFailedIInv ==
    ASSUME IInv, SettleFailed
    PROVE  IInv'
<1> USE DEF SettleFailed, Done, historyVars, lossVars, countVars
<1>1. Busy
  BY DEF Busy
<1>2. current \in Rec /\ Facts(current) \in accepted /\ current.id \in Ids(accepted)
  BY <1>1, FactsMember DEF IInv, TypeInv, Known
<1>3. /\ exportPc' \in {"notify", "next"}
      /\ exportPc' = "notify" => current' = current /\ answer' = answer
      /\ current' \in {current, None}
      /\ Busy' => exportPc' = "notify"
  BY DEF Busy
<1>4. AnswerTrue'
  BY <1>3 DEF AnswerTrue
<1>5. CASE FailExpired(current)
  <2> USE <1>5 DEF FailExpired
  <2>0. spool' \subseteq spool /\ \A e \in spool : e.id # current.id => e \in spool'
    BY FilesOfRecord
  <2>1. TypeInv'
    BY <1>2, <1>3, <2>0 DEF IInv, TypeInv
  <2>2. HistoriesGrow
    BY DEF HistoriesGrow
  <2>3. Fresh'
    BY <1>3, <2>0 DEF IInv, Fresh, Over, UniqueIds
  <2>4. \A e \in spool \ spool' : e.id \in Excuses'
    BY <2>0 DEF Excuses
  <2>5. Known' /\ NothingVanishes'
    BY <1>2, <1>3, <2>0, <2>1, <2>2, <2>4, ShrinkingStep DEF IInv, Known
  <2>6. DeliveredIsTrue'
    BY <2>2, StaysDelivered
  <2> QED
    BY <1>4, <2>1, <2>3, <2>5, <2>6 DEF IInv
<1>6. ASSUME NEW new \in Rec, Facts(new) = Facts(current), new.id = current.id,
             spool' = Others(current) \cup {new},
             UNCHANGED <<lastId, accepted, shed, aged, unreadable, undeleted, received,
                         acknowledged, abandoned, batch, submission, configured, status>>
      PROVE  IInv'
  <2>9. current.id \notin Over
    BY DEF IInv, Fresh, SettleFailed
  <2> HIDE DEF SettleFailed
  <2>6. TypeInv'
    BY <1>2, <1>3, <1>6 DEF IInv, TypeInv, Others
  <2>7. HistoriesGrow
    BY <1>6 DEF HistoriesGrow
  <2>8. Known'
    BY <1>2, <1>3, <1>6 DEF IInv, Known, Others
  <2>10. Fresh'
    <3>1. UniqueIds(spool') /\ UniqueIds(batch')
      BY <1>6 DEF IInv, Fresh, UniqueIds, Others
    <3>2. \A e \in spool' \cup batch' : e.id \notin Over'
      BY <1>6, <2>9 DEF IInv, Fresh, Over, Others
    <3> QED
      BY <1>3, <3>1, <3>2 DEF Fresh
  <2>11. \A e \in spool : e.id \in Ids(spool')
    <3> SUFFICES ASSUME NEW e \in spool PROVE \E f \in spool' : f.id = e.id
      BY IdsMember
    <3> QED
      BY <1>6 DEF Others
  <2>12. NothingVanishes'
    BY <1>6, <2>6, <2>7, <2>8, <2>11, StaysAccounted
  <2>13. DeliveredIsTrue'
    BY <1>6, <2>7, StaysDelivered
  <2> QED
    BY <1>4, <2>6, <2>8, <2>10, <2>12, <2>13 DEF IInv
<1>7. CASE FailRetry(current)
  <2> USE <1>7 DEF FailRetry, faultVars
  <2>1. PICK delay \in Delays(current.attempts + 1) :
            spool' = Others(current)
                       \cup {[current EXCEPT !.attempts = @ + 1, !.wait = delay]}
    OBVIOUS
  <2> DEFINE new == [current EXCEPT !.attempts = @ + 1, !.wait = delay]
  <2>2. delay \in Int
    BY <1>2, DelayIsNumber
  <2>3. new \in Rec /\ Facts(new) = Facts(current) /\ new.id = current.id
    BY <1>2, <2>2, RetriedRecord
  <2>4. spool' = Others(current) \cup {new}
    BY <2>1
  <2>5. UNCHANGED <<lastId, accepted, shed, aged, unreadable, undeleted, received,
                    acknowledged, abandoned, batch, submission, configured, status>>
    OBVIOUS
  <2> HIDE DEF new, FailRetry, SettleFailed
  <2> QED
    BY <2>3, <2>4, <2>5, <1>6
<1>8. CASE FailUnwritten(current)
  <2> USE <1>8 DEF FailUnwritten
  <2> DEFINE new == [current EXCEPT !.torn = TRUE]
  <2>1. UNCHANGED <<lastId, accepted, shed, aged, unreadable, undeleted, received,
                    acknowledged, abandoned, batch, submission, configured, status>>
    OBVIOUS
  <2>2. new \in Rec /\ Facts(new) = Facts(current) /\ new.id = current.id
    BY <1>2, CutShortRecord
  <2>3. CASE spool' = Others(current) \cup {new}
    <3> HIDE DEF new, FailUnwritten, SettleFailed
    <3> QED
      BY <2>1, <2>2, <2>3, <1>6
  <2>4. CASE UNCHANGED spool
    <3>1. TypeInv'
      BY <1>2, <1>3, <2>1, <2>4 DEF IInv, TypeInv
    <3>2. HistoriesGrow
      BY <2>1 DEF HistoriesGrow
    <3>3. Fresh'
      BY <1>3, <2>1, <2>4 DEF IInv, Fresh, Over, UniqueIds
    <3>4. Known' /\ NothingVanishes'
      BY <1>2, <1>3, <2>1, <2>4, <3>1, <3>2, ShrinkingStep DEF IInv, Known
    <3>5. DeliveredIsTrue'
      BY <3>2, <2>1, StaysDelivered
    <3> QED
      BY <1>4, <3>1, <3>3, <3>4, <3>5 DEF IInv
  <2> QED
    BY <2>3, <2>4
<1> QED
  BY <1>5, <1>7, <1>8

LEMMA NotifyOutcomeIInv ==
    ASSUME IInv, NotifyOutcome
    PROVE  IInv'
<1> USE DEF NotifyOutcome, Done, historyVars, spoolVars, lossVars, countVars, faultVars
<1>1. Busy /\ ~Busy' /\ exportPc' = "next"
  BY DEF Busy
<1>2. current \in Rec /\ Facts(current) \in accepted
  BY <1>1 DEF IInv, TypeInv, Known
<1>3. current.problem \in Problems /\ current.sink \in Sinks
  BY <1>2 DEF Rec
<1>4. status' \in [Problems -> [Sinks -> {"none", "pending", "delivered", "failed"}]]
  BY <1>3 DEF IInv, TypeInv
<1>5. TypeInv'
  BY <1>1, <1>4 DEF IInv, TypeInv
<1>6. HistoriesGrow
  BY DEF HistoriesGrow
<1>7. Known' /\ NothingVanishes'
  BY <1>1, <1>5, <1>6, ShrinkingStep DEF IInv, Known
<1>8. AnswerTrue' /\ Fresh'
  BY DEF IInv, AnswerTrue, Fresh, Over, UniqueIds
<1>9. DeliveredIsTrue'
  <2> SUFFICES ASSUME NEW p \in Problems, NEW k \in Sinks,
                      Confirms(k), status'[p][k] = "delivered"
               PROVE  \E r \in accepted : r.problem = p /\ r.sink = k /\ r.id \in received
    BY DEF DeliveredIsTrue
  <2>1. CASE p = current.problem /\ k = current.sink
    <3>1. answer = "ok"
      BY <1>3, <2>1 DEF IInv, TypeInv
    <3>2. current.id \in received
      BY <2>1, <3>1 DEF IInv, AnswerTrue
    <3> QED
      BY <1>2, <2>1, <3>2 DEF Facts
  <2>2. CASE ~(p = current.problem /\ k = current.sink)
    <3>1. status'[p][k] = status[p][k]
      BY <1>3, <2>2 DEF IInv, TypeInv
    <3> QED
      BY <3>1 DEF IInv, DeliveredIsTrue
  <2> QED
    BY <2>1, <2>2
<1> QED
  BY <1>5, <1>7, <1>8, <1>9 DEF IInv

LEMMA SweepIInv ==
    ASSUME IInv, NEW due \in BOOLEAN, Sweep(due)
    PROVE  IInv'
<1> USE DEF Sweep, historyVars
<1>1. exportPc' = "wait" /\ ~Busy'
  BY DEF Busy
<1>2. CASE due
  <2> USE <1>2 DEF PurgeExpired
  <2> DEFINE old == {e \in Readable : IsExpired(e)}
  <2>1. /\ Readable \subseteq spool /\ old \subseteq spool
        /\ Readable \ old \subseteq spool' /\ spool' \subseteq spool
        /\ aged' = aged \cup Ids(old)
        /\ unreadable' = unreadable \cup Ids(spool \ Readable)
        /\ undeleted' = undeleted
    <3>1. Readable \subseteq spool /\ old \subseteq spool
      BY DEF Readable
    <3>2. Discard(old \cup (spool \ Readable), Readable \ old)
      OBVIOUS
    <3>3. /\ Readable \ old \subseteq spool'
          /\ spool' \subseteq (Readable \ old) \cup (old \cup (spool \ Readable))
      BY <3>2, Discarding
    <3> QED
      BY <3>1, <3>3
  <2> HIDE DEF old
  <2>2. TypeInv'
    BY <1>1, <2>1 DEF IInv, TypeInv
  <2>3. HistoriesGrow
    BY <2>1 DEF HistoriesGrow
  <2>4. Ids(old) \cup Ids(spool \ Readable) \subseteq Ids(accepted)
    BY <2>1, IdsMember, KnownIds DEF IInv
  <2>5. \A e \in spool \ spool' : e.id \in Excuses'
    BY <2>1, IdsMember DEF Excuses
  <2>6. Known' /\ NothingVanishes'
    BY <1>1, <2>1, <2>2, <2>3, <2>4, <2>5, ShrinkingStep DEF IInv, Known
  <2>7. AnswerTrue' /\ Fresh'
    BY <1>1, <2>1 DEF IInv, AnswerTrue, Fresh, Over, UniqueIds
  <2>8. DeliveredIsTrue'
    BY <2>3, StaysDelivered
  <2> QED
    BY <2>2, <2>6, <2>7, <2>8 DEF IInv
<1>3. CASE ~due
  <2>1. TypeInv'
    BY <1>1, <1>3 DEF IInv, TypeInv, spoolVars
  <2> QED
    BY <1>1, <1>3, <2>1, QuietStep
<1> QED
  BY <1>2, <1>3

-----------------------------------------------------------------------------
(* A restart and the passing of time: every record on disk stays the record   *)
(* of what it was.                                                            *)

LEMMA RestartIInv ==
    ASSUME IInv, NEW sinks \in SUBSET Sinks, NEW half \in SUBSET (1 .. MaxPuts),
           Restart(sinks, half)
    PROVE  IInv'
<1> USE DEF Restart, Reopen, lossVars, faultVars
<1> DEFINE Reread(e) == [e EXCEPT !.torn = @ \/ e.id \in half]
<1>1. \A e \in spool : /\ Reread(e) \in Rec /\ Facts(Reread(e)) = Facts(e)
                       /\ Reread(e).id = e.id
  BY TornRecord DEF IInv, TypeInv
<1>2. spool' = {Reread(e) : e \in spool}
  OBVIOUS
<1> HIDE DEF Reread
<1>3. exportPc' \in {"deliver", "off"} /\ ~Busy' /\ batch' = {}
  BY DEF Busy
<1>4. UNCHANGED <<lastId, accepted, lossVars, undeleted, received, acknowledged, abandoned,
                  status>>
  OBVIOUS
<1>5. TypeInv'
  BY <1>1, <1>2, <1>3 DEF IInv, TypeInv
<1>6. HistoriesGrow
  BY DEF HistoriesGrow
<1>7. Known'
  BY <1>1, <1>2, <1>3, <1>4 DEF IInv, Known
<1>8. Fresh'
  BY <1>1, <1>2, <1>3, <1>4 DEF IInv, Fresh, Over, UniqueIds
<1>9. AnswerTrue'
  BY <1>3 DEF AnswerTrue
<1>10. \A e \in spool : e.id \in Ids(spool')
  BY <1>1, <1>2, IdsMember
<1>11. NothingVanishes'
  BY <1>4, <1>5, <1>6, <1>7, <1>10, StaysAccounted
<1>12. DeliveredIsTrue'
  BY <1>4, <1>6, StaysDelivered
<1> QED
  BY <1>5, <1>7, <1>8, <1>9, <1>11, <1>12 DEF IInv

LEMMA TickIInv ==
    ASSUME IInv, Tick
    PROVE  IInv'
<1> USE DEF Tick, Elapse, lossVars, faultVars, historyVars
<1>1. \A e \in Rec : /\ Older(e) \in Rec /\ Facts(Older(e)) = Facts(e)
                     /\ Older(e).id = e.id
  BY OlderRecord
<1>2. spool' = {Older(e) : e \in spool} /\ batch' = {Older(e) : e \in batch}
  OBVIOUS
<1>3. spool \subseteq Rec /\ batch \subseteq Rec
  BY DEF IInv, TypeInv
<1>4. Busy' = Busy
  BY DEF Busy
<1>5. /\ current' \in Rec \cup {None}
      /\ Busy => /\ current' \in Rec /\ Facts(current') = Facts(current)
                 /\ current'.id = current.id /\ current'.sink = current.sink
  <2>1. CASE current = None
    BY <2>1 DEF IInv, TypeInv
  <2>2. CASE current # None
    <3>1. current \in Rec /\ current' = Older(current)
      BY <2>2 DEF IInv, TypeInv
    <3> QED
      BY <3>1, <1>1 DEF Facts
  <2> QED
    BY <2>1, <2>2
<1>6. UNCHANGED <<lastId, accepted, shed, aged, unreadable, undeleted, received,
                  acknowledged, abandoned, exportPc, answer, submission, configured, status>>
  OBVIOUS
<1> HIDE DEF Tick, Elapse
<1>7. TypeInv'
  BY <1>1, <1>2, <1>3, <1>4, <1>5, <1>6 DEF IInv, TypeInv
<1>8. HistoriesGrow
  BY <1>6 DEF HistoriesGrow
<1>9. Known'
  BY <1>1, <1>2, <1>3, <1>4, <1>5, <1>6 DEF IInv, Known
<1>10. AnswerTrue'
  BY <1>5, <1>6 DEF IInv, AnswerTrue, Busy
<1>11. Fresh'
  <2>1. UniqueIds(spool')
    BY <1>1, <1>2, <1>3 DEF IInv, Fresh, Over, UniqueIds
  <2>2. UniqueIds(batch')
    BY <1>1, <1>2, <1>3 DEF IInv, Fresh, Over, UniqueIds
  <2>3. \A e \in spool' \cup batch' : e.id \notin Over'
    BY <1>1, <1>2, <1>3, <1>6 DEF IInv, Fresh, Over
  <2>4. exportPc' \in {"send", "settle"} => current'.id \notin Over'
    BY <1>5, <1>6 DEF IInv, Fresh, Over, Busy
  <2>5. exportPc' \in {"send", "settle", "discard"} => \A e \in batch' : e.id # current'.id
    BY <1>1, <1>2, <1>3, <1>5, <1>6 DEF IInv, Fresh, Busy
  <2> QED
    BY <2>1, <2>2, <2>3, <2>4, <2>5 DEF Fresh
<1>12. \A e \in spool : e.id \in Ids(spool')
  BY <1>1, <1>2, <1>3, IdsMember
<1>13. NothingVanishes'
  BY <1>6, <1>7, <1>8, <1>9, <1>12, StaysAccounted
<1>14. DeliveredIsTrue'
  BY <1>6, <1>8, StaysDelivered
<1> QED
  BY <1>7, <1>9, <1>10, <1>11, <1>13, <1>14 DEF IInv

-----------------------------------------------------------------------------
(* The theorems                                                               *)

LEMMA NextIInv == ASSUME IInv, [Next]_vars PROVE IInv'
<1>1. CASE UNCHANGED vars
  BY <1>1, IdleStepsIInv
<1>2. ASSUME NEW t \in Submitters, NEW p \in Problems, Submit(t, p) PROVE IInv'
  BY <1>2, SubmitIInv
<1>3. ASSUME NEW t \in Submitters, SubmitterStep(t) PROVE IInv'
  BY <1>3, PutRecordIInv, PutRefusedIInv, NotifyPendingIInv, SubmitReturnsIInv
     DEF SubmitterStep
<1>4. CASE ExportStep
  BY <1>4, TakeSnapshotIInv, NextRecordIInv, IdleStepsIInv, SendIInv, SettleDeliveredIInv,
     SettleFailedIInv, DiscardUnknownIInv, NotifyOutcomeIInv, SweepIInv
     DEF ExportStep
<1>5. CASE Stop
  BY <1>5, IdleStepsIInv
<1>6. ASSUME NEW sinks \in SUBSET Sinks, NEW half \in SUBSET (1 .. MaxPuts),
             Restart(sinks, half)
      PROVE  IInv'
  BY <1>6, RestartIInv
<1>7. CASE Tick
  BY <1>7, TickIInv
<1> QED
  BY <1>1, <1>2, <1>3, <1>4, <1>5, <1>6, <1>7 DEF Next

LEMMA Invariance == Spec => []IInv
<1>1. Init => IInv
  BY InitIInv
<1>2. IInv /\ [Next]_vars => IInv'
  BY NextIInv
<1> QED
  BY <1>1, <1>2, PTL DEF Spec

(* Store and forward, whatever the limits, the number of threads, sinks and   *)
(* restarts, and the interleaving of submit, deliver_once and a crash: every  *)
(* record put is on disk, has reached its sink (or, for a sink that does not  *)
(* confirm, was sent), or was taken by a limit or a removed sink on record.   *)
THEOREM NoRecordVanishes == Spec => []NothingVanishes
<1>1. IInv => NothingVanishes
  BY DEF IInv
<1> QED
  BY <1>1, Invariance, PTL

(* on_delivery tells the truth: the "delivered" a proposal shows for a sink   *)
(* that confirms is that of a record of its own which the sink received.      *)
THEOREM DeliveredReached == Spec => []DeliveredIsTrue
<1>1. IInv => DeliveredIsTrue
  BY DEF IInv
<1> QED
  BY <1>1, Invariance, PTL

(* What the export thread has seen succeed is not sent again: not by a        *)
(* snapshot taken before, nor by a failure that rewrites a file that was shed *)
(* meanwhile; only by a file that succeed could not unlink, once for each     *)
(* refusal.                                                                   *)
THEOREM NoResend == Spec => NotSentAfterSuccess
<1>1. IInv /\ [Next]_vars
        => [exportPc = "send" /\ exportPc' = "settle" =>
                current.id \notin acknowledged \ undeleted]_vars
  BY DEF IInv, Fresh, Over
<1> QED
  BY <1>1, Invariance, PTL DEF Spec, NotSentAfterSuccess
=============================================================================
