--------------------- MODULE RemediationGeneratorProofs ---------------------
(* Theorems about RemediationGenerator, for every set of threads, problems    *)
(* and sinks, every result the analyzer may hand over and every bound.        *)
EXTENDS RemediationGenerator, TLAPS

Writing == {"create", "update", "rewrite"}

(* What each thread has in hand. The draft of a thread about to write is made *)
(* of the file as it still is, because the thread holds the lock; only a file *)
(* that could not be read is drafted anew.                                    *)
DraftsCurrent ==
    \A t \in Threads :
        /\ genPc[t] = "persist" => t \in Emitters /\ task[t] \in Result
        /\ genPc[t] = "create" =>
               /\ t \in Emitters /\ task[t] \in Result /\ draft[t] = Built(task[t])
               /\ file[task[t].problem] # None => task[t].problem \in lapsed
        /\ genPc[t] = "update" =>
               /\ t \in Emitters /\ task[t] \in Result
               /\ file[task[t].problem] # None
               /\ draft[t] = Merged(task[t], file[task[t].problem])
        /\ genPc[t] = "callback" =>
               t \in Emitters /\ task[t] \in Result /\ draft[t] \in Document
        /\ genPc[t] = "rewrite" =>
               /\ task[t] \in Notice
               /\ file[task[t].problem] # None
               /\ draft[t] = [file[task[t].problem] EXCEPT !.exports[task[t].sink] = task[t].status]

(* As long as the count of a problem never lapsed, no key given out counts    *)
(* more than the file does, and what still waits to be handed on has a key of *)
(* its own.                                                                   *)
KeysBelowCount ==
    \A p \in Problems \ lapsed :
        /\ \A k \in exported : k.problem = p => file[p] # None /\ k.total <= file[p].total
        /\ \A t \in Emitters :
              genPc[t] = "callback" /\ task[t].problem = p =>
                  file[p] # None /\ draft[t].total <= file[p].total

IInv == TypeOK /\ OneWriter /\ DraftsCurrent /\ NoUpdateLost /\ KeysBelowCount /\ KeysDistinct

-----------------------------------------------------------------------------
(* What _build_metadata and _merge_with_existing make of a result.            *)
LEMMA BuiltDocument ==
    ASSUME NEW r \in Result
    PROVE  /\ Built(r) \in Document
           /\ Built(r).first = r.at /\ Built(r).total = r.occurrences
           /\ Built(r).exports = NoExports
BY DEF Built, Result, Document, Exports, NoExports

LEMMA MergedDocument ==
    ASSUME NEW r \in Result, NEW old \in Document
    PROVE  /\ Merged(r, old) \in Document
           /\ Merged(r, old).first = old.first
           /\ Merged(r, old).total = old.total + r.occurrences
           /\ Merged(r, old).total > old.total
           /\ Merged(r, old).analyses >= old.analyses
           /\ Merged(r, old).exports = old.exports
<1> DEFINE new == Built(r)
           inferred == IF r.cached THEN 0 ELSE new.analyses
<1>1. /\ new \in Document /\ new.first \in Nat /\ new.total = r.occurrences
      /\ new.analyses \in Nat /\ r.occurrences \in Nat \ {0}
  BY BuiltDocument DEF Document, Result
<1>2. /\ old.first \in Nat /\ old.total \in Nat /\ old.analyses \in Nat
      /\ old.exports \in Exports
  BY DEF Document
<1>3. inferred \in Nat
  BY <1>1
<1>4. Merged(r, old) = [new EXCEPT !.first = old.first, !.total = old.total + @,
                                   !.analyses = old.analyses + inferred,
                                   !.exports = old.exports]
  BY DEF Merged
<1> HIDE DEF new, inferred
<1>5. old.total + new.total \in Nat /\ old.analyses + inferred \in Nat
  BY <1>1, <1>2, <1>3
<1>6. Merged(r, old) \in Document
  BY <1>1, <1>2, <1>4, <1>5 DEF Document
<1>7. /\ Merged(r, old).first = old.first
      /\ Merged(r, old).total = old.total + r.occurrences
      /\ Merged(r, old).analyses = old.analyses + inferred
      /\ Merged(r, old).exports = old.exports
  BY <1>1, <1>4 DEF Document
<1> QED
  BY <1>1, <1>2, <1>3, <1>6, <1>7

(* What record_delivery makes of the document.                                *)
LEMMA NotedDocument ==
    ASSUME NEW n \in Notice, NEW old \in Document
    PROVE  LET new == [old EXCEPT !.exports[n.sink] = n.status]
           IN  /\ new \in Document
               /\ new.first = old.first /\ new.total = old.total
               /\ new.analyses = old.analyses
               /\ new.exports = [old.exports EXCEPT ![n.sink] = n.status]
BY DEF Notice, Document, Exports

-----------------------------------------------------------------------------
(* Every step keeps the invariant.                                            *)

LEMMA InitIInv == ASSUME Init PROVE IInv
<1>1. TypeOK
  BY DEF Init, TypeOK
<1>2. OneWriter
  BY GeneratorAssumption DEF Init, OneWriter
<1>3. \A t \in Threads : genPc[t] = "idle"
  BY DEF Init
<1>4. DraftsCurrent
  BY <1>3 DEF DraftsCurrent
<1>5. NoUpdateLost
  BY DEF Init, NoUpdateLost
<1>6. KeysBelowCount /\ KeysDistinct
  BY <1>3 DEF Init, KeysBelowCount, KeysDistinct, Threads
<1> QED
  BY <1>1, <1>2, <1>4, <1>5, <1>6 DEF IInv

LEMMA HandleResultIInv ==
    ASSUME IInv, NEW t \in Emitters, NEW r \in Results, HandleResult(t, r)
    PROVE  IInv'
<1>1. t \in Threads /\ r \in Result
  BY GeneratorAssumption DEF Threads
<1> USE <1>1 DEF IInv, HandleResult, historyVars
<1>2. TypeOK'
  BY DEF TypeOK
<1>3. \A u \in Threads \ {t} : genPc'[u] = genPc[u] /\ task'[u] = task[u]
  BY DEF TypeOK
<1>4. genPc'[t] = "persist" /\ task'[t] = r
  BY DEF TypeOK
<1>5. OneWriter'
  BY <1>3, <1>4 DEF OneWriter
<1>6. DraftsCurrent'
  BY <1>3, <1>4 DEF DraftsCurrent
<1>7. NoUpdateLost'
  BY DEF NoUpdateLost
<1>8. KeysBelowCount'
  BY <1>3, <1>4 DEF KeysBelowCount, Threads
<1>9. KeysDistinct'
  BY <1>3, <1>4 DEF KeysDistinct, Threads, IdempotencyKey
<1> QED
  BY <1>2, <1>5, <1>6, <1>7, <1>8, <1>9

(* The lock is taken: what is drafted is made of the file as it is.           *)
LEMMA ReadAndMergeIInv ==
    ASSUME IInv, NEW t \in Emitters, NEW readable \in BOOLEAN, ReadAndMerge(t, readable)
    PROVE  IInv'
<1>1. t \in Threads /\ genPc[t] = "persist" /\ genLock = Nobody
  BY DEF Threads, ReadAndMerge
<1>2. task[t] \in Result /\ task[t].problem \in Problems
  BY <1>1 DEF IInv, DraftsCurrent, Result
<1> DEFINE p == task[t].problem
           old == file[p]
<1>3. old # None => old \in Document
  BY <1>2 DEF IInv, TypeOK
<1>4. /\ lapsed' = IF old # None /\ ~readable THEN lapsed \cup {p} ELSE lapsed
      /\ genLock' = t
      /\ UNCHANGED <<file, task, storageFailures, ledger, exported>>
  BY DEF ReadAndMerge
<1>5. /\ draft' = [draft EXCEPT ![t] = draft'[t]] /\ genPc' = [genPc EXCEPT ![t] = genPc'[t]]
      /\ \/ /\ old # None /\ readable
            /\ draft'[t] = Merged(task[t], old) /\ genPc'[t] = "update"
         \/ /\ ~(old # None /\ readable)
            /\ draft'[t] = Built(task[t]) /\ genPc'[t] = "create"
  BY <1>1 DEF ReadAndMerge, IInv, TypeOK
<1>6. \A u \in Threads \ {t} : genPc'[u] = genPc[u] /\ draft'[u] = draft[u]
  BY <1>1, <1>5 DEF IInv, TypeOK
<1>7. draft'[t] \in Document /\ genPc'[t] \in {"create", "update"}
  BY <1>2, <1>3, <1>5, BuiltDocument, MergedDocument
<1>8. \A u \in Threads : genPc[u] \notin Writing
  BY <1>1, GeneratorAssumption DEF IInv, OneWriter, Writing
<1>9. TypeOK'
  BY <1>1, <1>2, <1>4, <1>5, <1>7 DEF IInv, TypeOK
<1>10. OneWriter'
  BY <1>1, <1>4, <1>6, <1>7, <1>8 DEF OneWriter, Writing
<1>11. DraftsCurrent'
  <2> SUFFICES ASSUME NEW u \in Threads
               PROVE  DraftsCurrent!(u)'
    BY DEF DraftsCurrent
  <2>1. CASE u = t
    BY <2>1, <1>1, <1>2, <1>4, <1>5, <1>7
  <2>2. CASE u # t
    BY <2>2, <1>4, <1>6, <1>8 DEF IInv, DraftsCurrent, Writing
  <2> QED
    BY <2>1, <2>2
<1>12. NoUpdateLost'
  BY <1>4 DEF IInv, NoUpdateLost
<1>13. KeysBelowCount'
  BY <1>1, <1>4, <1>6, <1>7 DEF IInv, KeysBelowCount, Threads
<1>14. KeysDistinct'
  BY <1>1, <1>4, <1>6, <1>7 DEF IInv, KeysDistinct, Threads, IdempotencyKey
<1> QED
  BY <1>9, <1>10, <1>11, <1>12, <1>13, <1>14 DEF IInv

(* What a thread is about to write is what the writes so far and its result   *)
(* add up to, and counts more than anything given out so far.                 *)
LEMMA ResultDraft ==
    ASSUME IInv, NEW t \in Emitters, genPc[t] \in {"create", "update"}
    PROVE  LET p == task[t].problem
           IN  /\ draft[t] \in Document /\ Accrued(t) \in Account
               /\ draft[t].first = Accrued(t).first
               /\ draft[t].total = Accrued(t).total
               /\ draft[t].exports = Accrued(t).exports
               /\ p \notin lapsed =>
                     /\ \A k \in exported : k.problem = p => k.total < draft[t].total
                     /\ \A u \in Emitters : genPc[u] = "callback" /\ task[u].problem = p =>
                                              draft[u].total < draft[t].total
<1> DEFINE r == task[t]
           p == r.problem
<1>1. t \in Threads /\ r \in Result /\ p \in Problems
  BY DEF Threads, IInv, DraftsCurrent, Result
<1>2. r.at \in Nat /\ r.occurrences \in Nat \ {0}
  BY <1>1 DEF Result
<1>3. CASE genPc[t] = "create"
  <2>1. draft[t] = Built(r) /\ (file[p] # None => p \in lapsed)
    BY <1>1, <1>3 DEF IInv, DraftsCurrent
  <2>2. Accrued(t) = [first |-> r.at, total |-> r.occurrences, exports |-> NoExports]
    BY <1>3 DEF Accrued
  <2>3. Accrued(t) \in Account
    BY <1>2, <2>2 DEF Account, NoExports, Exports
  <2>4. p \notin lapsed =>
           /\ \A k \in exported : k.problem # p
           /\ \A u \in Emitters : genPc[u] = "callback" => task[u].problem # p
    BY <1>1, <2>1 DEF IInv, KeysBelowCount
  <2> QED
    BY <1>1, <2>1, <2>2, <2>3, <2>4, BuiltDocument
<1>4. CASE genPc[t] = "update"
  <2>1. draft[t] = Merged(r, file[p]) /\ file[p] # None
    BY <1>1, <1>4 DEF IInv, DraftsCurrent
  <2>2. /\ file[p] \in Document /\ ledger[p] \in Account
        /\ file[p].first = ledger[p].first /\ file[p].total = ledger[p].total
        /\ file[p].exports = ledger[p].exports
    BY <1>1, <2>1 DEF IInv, TypeOK, NoUpdateLost
  <2>3. /\ draft[t] \in Document /\ draft[t].first = file[p].first
        /\ draft[t].total = file[p].total + r.occurrences
        /\ draft[t].total > file[p].total
        /\ draft[t].exports = file[p].exports
    BY <1>1, <2>1, <2>2, MergedDocument
  <2>4. Accrued(t) = [ledger[p] EXCEPT !.total = @ + r.occurrences]
    BY <1>4 DEF Accrued
  <2>5. /\ Accrued(t) \in Account
        /\ Accrued(t).first = ledger[p].first
        /\ Accrued(t).total = ledger[p].total + r.occurrences
        /\ Accrued(t).exports = ledger[p].exports
    BY <1>2, <2>2, <2>4 DEF Account
  <2>6. ASSUME p \notin lapsed
        PROVE  /\ \A k \in exported : k.problem = p => k.total < draft[t].total
               /\ \A u \in Emitters : genPc[u] = "callback" /\ task[u].problem = p =>
                                        draft[u].total < draft[t].total
    <3>1. file[p].total \in Nat /\ draft[t].total \in Nat
      BY <2>2, <2>3 DEF Document
    <3>2. \A k \in exported : k.total \in Nat
      BY DEF IInv, TypeOK
    <3>3. \A u \in Emitters : genPc[u] = "callback" => draft[u].total \in Nat
      BY DEF Threads, IInv, DraftsCurrent, Document
    <3> QED
      BY <1>1, <2>3, <2>6, <3>1, <3>2, <3>3 DEF IInv, KeysBelowCount
  <2> QED
    BY <2>2, <2>3, <2>5, <2>6
<1> QED
  BY <1>3, <1>4

(* The file takes the draft, and the lock is free again.                      *)
LEMMA WriteSucceedsIInv ==
    ASSUME IInv, NEW t \in Emitters, WriteSucceeds(t)
    PROVE  IInv'
<1> DEFINE p == task[t].problem
<1>1. t \in Threads /\ genPc[t] \in {"create", "update"} /\ genLock = t
  BY DEF Threads, WriteSucceeds, IInv, OneWriter
<1>2. task[t] \in Result /\ p \in Problems
  BY <1>1 DEF IInv, DraftsCurrent, Result
<1>3. /\ draft[t] \in Document /\ Accrued(t) \in Account
      /\ draft[t].first = Accrued(t).first /\ draft[t].total = Accrued(t).total
      /\ draft[t].exports = Accrued(t).exports
      /\ p \notin lapsed =>
            /\ \A k \in exported : k.problem = p => k.total < draft[t].total
            /\ \A u \in Emitters : genPc[u] = "callback" /\ task[u].problem = p =>
                                     draft[u].total < draft[t].total
  BY <1>1, ResultDraft
<1>4. draft[t] # None /\ Accrued(t) # None
  BY <1>3, GeneratorAssumption
<1>5. /\ genPc' = [genPc EXCEPT ![t] = "callback"] /\ genLock' = Nobody
      /\ file' = [file EXCEPT ![p] = draft[t]]
      /\ ledger' = [ledger EXCEPT ![p] = Accrued(t)]
      /\ UNCHANGED <<task, draft, storageFailures, exported, lapsed>>
  BY DEF WriteSucceeds
<1>6. /\ genPc'[t] = "callback" /\ \A u \in Threads \ {t} : genPc'[u] = genPc[u]
      /\ file'[p] = draft[t] /\ \A q \in Problems \ {p} : file'[q] = file[q]
      /\ ledger'[p] = Accrued(t) /\ \A q \in Problems \ {p} : ledger'[q] = ledger[q]
  BY <1>1, <1>2, <1>5 DEF IInv, TypeOK
<1>7. \A u \in Threads \ {t} : genPc[u] \notin Writing
  BY <1>1 DEF IInv, OneWriter, Writing
<1> HIDE DEF p
<1>8. TypeOK'
  BY <1>1, <1>2, <1>3, <1>5 DEF IInv, TypeOK
<1>9. OneWriter'
  BY <1>1, <1>5, <1>6, <1>7, GeneratorAssumption DEF OneWriter, Writing
<1>10. DraftsCurrent'
  <2> SUFFICES ASSUME NEW u \in Threads
               PROVE  DraftsCurrent!(u)'
    BY DEF DraftsCurrent
  <2>1. CASE u = t
    BY <2>1, <1>1, <1>2, <1>3, <1>5, <1>6 DEF IInv, DraftsCurrent
  <2>2. genPc[u] = "persist" => u \in Emitters /\ task[u] \in Result
    BY DEF IInv, DraftsCurrent
  <2>3. genPc[u] = "callback" => u \in Emitters /\ task[u] \in Result /\ draft[u] \in Document
    BY DEF IInv, DraftsCurrent
  <2>4. CASE u # t
    BY <2>2, <2>3, <2>4, <1>5, <1>6, <1>7 DEF Writing
  <2> QED
    BY <2>1, <2>4
<1>11. NoUpdateLost'
  BY <1>2, <1>3, <1>4, <1>6 DEF IInv, NoUpdateLost
<1>12. KeysBelowCount'
  <2> SUFFICES ASSUME NEW q \in Problems, q \notin lapsed
               PROVE  /\ \A k \in exported : k.problem = q =>
                             file'[q] # None /\ k.total <= file'[q].total
                      /\ \A u \in Emitters :
                            genPc'[u] = "callback" /\ task[u].problem = q =>
                                file'[q] # None /\ draft[u].total <= file'[q].total
    BY <1>5 DEF KeysBelowCount
  <2>1. /\ draft[t].total \in Nat /\ \A k \in exported : k.total \in Nat
        /\ \A u \in Emitters : genPc[u] = "callback" => draft[u].total \in Nat
    BY <1>3 DEF Threads, IInv, TypeOK, DraftsCurrent, Document
  <2>2. CASE q = p
    BY <2>1, <2>2, <1>2, <1>3, <1>4, <1>6 DEF Threads, p
  <2>3. CASE q # p
    BY <2>3, <1>2, <1>6 DEF IInv, KeysBelowCount, Threads, p
  <2> QED
    BY <2>2, <2>3
<1>13. KeysDistinct'
  <2>1. ASSUME p \notin lapsed
        PROVE  /\ IdempotencyKey(t) \notin exported
               /\ \A u \in Emitters \ {t} :
                     genPc[u] = "callback" => IdempotencyKey(u) # IdempotencyKey(t)
    <3>1. /\ draft[t].total \in Nat /\ \A k \in exported : k.total \in Nat
          /\ \A u \in Emitters : genPc[u] = "callback" => draft[u].total \in Nat
      BY <1>3 DEF Threads, IInv, TypeOK, DraftsCurrent, Document
    <3>2. IdempotencyKey(t).problem = p /\ IdempotencyKey(t).total = draft[t].total
      BY DEF IdempotencyKey, p
    <3>3. \A u \in Emitters : /\ IdempotencyKey(u).problem = task[u].problem
                              /\ IdempotencyKey(u).total = draft[u].total
      BY DEF IdempotencyKey
    <3> QED
      BY <1>3, <2>1, <3>1, <3>2, <3>3
  <2>2. \A u \in Emitters : IdempotencyKey(u)' = IdempotencyKey(u)
    BY <1>5 DEF IdempotencyKey
  <2> SUFFICES ASSUME NEW u \in Emitters, genPc'[u] = "callback", task[u].problem \notin lapsed
               PROVE  /\ IdempotencyKey(u) \notin exported
                      /\ \A v \in Emitters \ {u} :
                            genPc'[v] = "callback" => IdempotencyKey(v) # IdempotencyKey(u)
    BY <1>5, <2>2 DEF KeysDistinct
  <2>3. CASE u = t
    BY <2>1, <2>3, <1>6 DEF Threads, p
  <2>4. CASE u # t
    <3>1. /\ IdempotencyKey(u) \notin exported
          /\ \A v \in Emitters \ {u, t} :
                genPc'[v] = "callback" => IdempotencyKey(v) # IdempotencyKey(u)
      BY <2>4, <1>6 DEF IInv, KeysDistinct, Threads
    <3>2. IdempotencyKey(t) # IdempotencyKey(u)
      BY <2>1, <2>4, <1>6 DEF Threads, IdempotencyKey, p
    <3> QED
      BY <3>1, <3>2
  <2> QED
    BY <2>3, <2>4
<1> QED
  BY <1>8, <1>9, <1>10, <1>11, <1>12, <1>13 DEF IInv

(* A write refused by the disk leaves the file, and the count lapses.         *)
LEMMA WriteFailsIInv ==
    ASSUME IInv, NEW t \in Emitters, WriteFails(t)
    PROVE  IInv'
<1> DEFINE p == task[t].problem
<1>1. t \in Threads /\ genPc[t] \in {"create", "update"} /\ genLock = t
  BY DEF Threads, WriteFails, IInv, OneWriter
<1>2. task[t] \in Result /\ p \in Problems /\ draft[t] \in Document
  BY <1>1, ResultDraft DEF IInv, DraftsCurrent, Result
<1>3. /\ genPc' = [genPc EXCEPT ![t] = "callback"] /\ genLock' = Nobody
      /\ storageFailures' = storageFailures + 1 /\ lapsed' = lapsed \cup {p}
      /\ UNCHANGED <<file, task, draft, ledger, exported>>
  BY DEF WriteFails
<1>4. genPc'[t] = "callback" /\ \A u \in Threads \ {t} : genPc'[u] = genPc[u]
  BY <1>1, <1>3 DEF IInv, TypeOK
<1>5. \A u \in Threads \ {t} : genPc[u] \notin Writing
  BY <1>1 DEF IInv, OneWriter, Writing
<1>6. TypeOK'
  BY <1>1, <1>2, <1>3 DEF IInv, TypeOK
<1>7. OneWriter'
  BY <1>1, <1>3, <1>4, <1>5, GeneratorAssumption DEF OneWriter, Writing
<1>8. DraftsCurrent'
  <2> SUFFICES ASSUME NEW u \in Threads
               PROVE  DraftsCurrent!(u)'
    BY DEF DraftsCurrent
  <2>1. CASE u = t
    BY <2>1, <1>1, <1>2, <1>3, <1>4
  <2>2. CASE u # t
    BY <2>2, <1>3, <1>4, <1>5 DEF IInv, DraftsCurrent, Writing
  <2> QED
    BY <2>1, <2>2
<1>9. NoUpdateLost'
  BY <1>3 DEF IInv, NoUpdateLost
<1>10. KeysBelowCount'
  BY <1>3, <1>4 DEF IInv, KeysBelowCount, Threads
<1>11. KeysDistinct'
  BY <1>3, <1>4 DEF IInv, KeysDistinct, Threads, IdempotencyKey
<1> QED
  BY <1>6, <1>7, <1>8, <1>9, <1>10, <1>11 DEF IInv

(* A key is given out: the file counts as much, and nobody else has it.       *)
LEMMA HandOnIInv ==
    ASSUME IInv, NEW t \in Emitters, HandOn(t)
    PROVE  IInv'
<1>1. t \in Threads /\ genPc[t] = "callback"
  BY DEF Threads, HandOn
<1>2. task[t] \in Result /\ task[t].problem \in Problems /\ draft[t].total \in Nat
  BY <1>1 DEF IInv, DraftsCurrent, Result, Document
<1>3. /\ genPc' = [genPc EXCEPT ![t] = "exporting"] /\ draft' = [draft EXCEPT ![t] = None]
      /\ exported' = exported \cup {IdempotencyKey(t)}
      /\ UNCHANGED <<file, genLock, task, storageFailures, ledger, lapsed>>
  BY DEF HandOn
<1>4. /\ genPc'[t] = "exporting"
      /\ \A u \in Threads \ {t} : genPc'[u] = genPc[u] /\ draft'[u] = draft[u]
  BY <1>1, <1>3 DEF IInv, TypeOK
<1>5. IdempotencyKey(t).problem = task[t].problem /\ IdempotencyKey(t).total = draft[t].total
  BY DEF IdempotencyKey
<1>6. TypeOK'
  BY <1>1, <1>2, <1>3 DEF IInv, TypeOK, IdempotencyKey
<1>7. OneWriter'
  BY <1>1, <1>3, <1>4 DEF IInv, OneWriter
<1>8. DraftsCurrent'
  BY <1>3, <1>4 DEF IInv, DraftsCurrent
<1>9. NoUpdateLost'
  BY <1>3 DEF IInv, NoUpdateLost
<1>10. KeysBelowCount'
  <2> SUFFICES ASSUME NEW q \in Problems, q \notin lapsed
               PROVE  KeysBelowCount!(q)'
    BY <1>3 DEF KeysBelowCount
  <2>1. \A k \in exported' : k.problem = q => file'[q] # None /\ k.total <= file'[q].total
    BY <1>1, <1>3, <1>5 DEF IInv, KeysBelowCount
  <2>2. \A u \in Emitters : genPc'[u] = "callback" /\ task'[u].problem = q =>
                               file'[q] # None /\ draft'[u].total <= file'[q].total
    BY <1>3, <1>4 DEF IInv, KeysBelowCount, Threads
  <2> QED
    BY <2>1, <2>2
<1>11. KeysDistinct'
  <2> SUFFICES ASSUME NEW u \in Emitters, genPc'[u] = "callback", task[u].problem \notin lapsed
               PROVE  /\ IdempotencyKey(u)' \notin exported'
                      /\ \A v \in Emitters \ {u} :
                            genPc'[v] = "callback" => IdempotencyKey(v)' # IdempotencyKey(u)'
    BY <1>3 DEF KeysDistinct
  <2>1. u # t /\ genPc[u] = "callback"
    BY <1>4 DEF Threads
  <2>2. \A v \in Emitters : genPc'[v] = "callback" =>
                               genPc[v] = "callback" /\ IdempotencyKey(v)' = IdempotencyKey(v)
    BY <1>3, <1>4 DEF Threads, IdempotencyKey
  <2>3. /\ IdempotencyKey(u) \notin exported
        /\ \A v \in Emitters \ {u} :
              genPc[v] = "callback" => IdempotencyKey(v) # IdempotencyKey(u)
    BY <2>1 DEF IInv, KeysDistinct
  <2>4. IdempotencyKey(u) # IdempotencyKey(t)
    BY <1>1, <2>1, <2>3
  <2> QED
    BY <1>3, <2>2, <2>3, <2>4
<1> QED
  BY <1>6, <1>7, <1>8, <1>9, <1>10, <1>11 DEF IInv

LEMMA HandleReturnsIInv ==
    ASSUME IInv, NEW t \in Emitters, HandleReturns(t)
    PROVE  IInv'
<1>1. t \in Threads /\ genPc[t] = "exporting"
  BY DEF Threads, HandleReturns
<1>2. /\ genPc' = [genPc EXCEPT ![t] = "idle"] /\ draft' = [draft EXCEPT ![t] = None]
      /\ task' = [task EXCEPT ![t] = None]
      /\ UNCHANGED <<file, genLock, storageFailures, ledger, exported, lapsed>>
  BY DEF HandleReturns, historyVars
<1>3. /\ genPc'[t] = "idle"
      /\ \A u \in Threads \ {t} : genPc'[u] = genPc[u] /\ draft'[u] = draft[u] /\ task'[u] = task[u]
  BY <1>1, <1>2 DEF IInv, TypeOK
<1>4. TypeOK'
  BY <1>1, <1>2 DEF IInv, TypeOK
<1>5. OneWriter'
  BY <1>1, <1>2, <1>3 DEF IInv, OneWriter
<1>6. DraftsCurrent'
  BY <1>2, <1>3 DEF IInv, DraftsCurrent
<1>7. NoUpdateLost'
  BY <1>2 DEF IInv, NoUpdateLost
<1>8. KeysBelowCount'
  BY <1>2, <1>3 DEF IInv, KeysBelowCount, Threads
<1>9. KeysDistinct'
  BY <1>2, <1>3 DEF IInv, KeysDistinct, Threads, IdempotencyKey
<1> QED
  BY <1>4, <1>5, <1>6, <1>7, <1>8, <1>9 DEF IInv

(* record_delivery, by an emitter in its callback or by another thread.       *)
LEMMA ReadForDeliveryIInv ==
    ASSUME IInv, NEW t \in Threads, NEW n \in Notice,
           NEW from \in {"exporting", "idle"}, ReadForDelivery(t, n, from)
    PROVE  IInv'
<1>1. genPc[t] \in {"exporting", "idle"} /\ genLock = Nobody /\ file[n.problem] # None
  BY DEF ReadForDelivery
<1> DEFINE noted == [file[n.problem] EXCEPT !.exports[n.sink] = n.status]
<1>2. noted \in Document
  BY <1>1, NotedDocument DEF Notice, IInv, TypeOK
<1>3. /\ genPc' = [genPc EXCEPT ![t] = "rewrite"] /\ genLock' = t
      /\ draft' = [draft EXCEPT ![t] = noted] /\ task' = [task EXCEPT ![t] = n]
      /\ UNCHANGED <<file, storageFailures, ledger, exported, lapsed>>
  BY DEF ReadForDelivery, historyVars
<1> HIDE DEF noted
<1>4. /\ genPc'[t] = "rewrite" /\ draft'[t] = noted /\ task'[t] = n
      /\ \A u \in Threads \ {t} : genPc'[u] = genPc[u] /\ draft'[u] = draft[u] /\ task'[u] = task[u]
  BY <1>3 DEF IInv, TypeOK
<1>5. \A u \in Threads : genPc[u] \notin Writing
  BY <1>1, GeneratorAssumption DEF IInv, OneWriter, Writing
<1>6. TypeOK'
  BY <1>2, <1>3 DEF IInv, TypeOK
<1>7. OneWriter'
  BY <1>3, <1>4, <1>5 DEF OneWriter, Writing
<1>8. DraftsCurrent'
  <2> SUFFICES ASSUME NEW u \in Threads
               PROVE  DraftsCurrent!(u)'
    BY DEF DraftsCurrent
  <2>1. CASE u = t
    BY <2>1, <1>1, <1>3, <1>4 DEF noted
  <2>2. CASE u # t
    BY <2>2, <1>3, <1>4, <1>5 DEF IInv, DraftsCurrent, Writing
  <2> QED
    BY <2>1, <2>2
<1>9. NoUpdateLost'
  BY <1>3 DEF IInv, NoUpdateLost
<1>10. KeysBelowCount'
  BY <1>3, <1>4 DEF IInv, KeysBelowCount, Threads
<1>11. KeysDistinct'
  BY <1>3, <1>4 DEF IInv, KeysDistinct, Threads, IdempotencyKey
<1> QED
  BY <1>6, <1>7, <1>8, <1>9, <1>10, <1>11 DEF IInv

(* The delivery state is all that changes in the file, if it is written.      *)
LEMMA DeliveryWrittenIInv ==
    ASSUME IInv, NEW t \in Threads, NEW stored \in BOOLEAN, DeliveryWritten(t, stored)
    PROVE  IInv'
<1> DEFINE n == task[t]
           p == n.problem
<1>1. genPc[t] = "rewrite" /\ genLock = t
  BY DEF DeliveryWritten, IInv, OneWriter
<1>2. /\ n \in Notice /\ p \in Problems /\ file[p] # None
      /\ draft[t] = [file[p] EXCEPT !.exports[n.sink] = n.status]
  BY <1>1 DEF IInv, DraftsCurrent, Notice
<1>3. /\ file[p] \in Document /\ ledger[p] \in Account
      /\ file[p].first = ledger[p].first /\ file[p].total = ledger[p].total
      /\ file[p].exports = ledger[p].exports
  BY <1>2 DEF IInv, TypeOK, NoUpdateLost
<1>4. /\ draft[t] \in Document /\ draft[t].first = file[p].first
      /\ draft[t].total = file[p].total
      /\ draft[t].exports = [file[p].exports EXCEPT ![n.sink] = n.status]
  BY <1>2, <1>3, NotedDocument
<1> DEFINE account == [ledger[p] EXCEPT !.exports[n.sink] = n.status]
<1>5. /\ account \in Account /\ account.first = ledger[p].first
      /\ account.total = ledger[p].total
      /\ account.exports = [ledger[p].exports EXCEPT ![n.sink] = n.status]
  BY <1>2, <1>3 DEF Account, Exports, Notice
<1>6. draft[t] # None /\ account # None
  BY <1>4, <1>5, GeneratorAssumption
<1> DEFINE after == IF t \in Emitters THEN "exporting" ELSE "idle"
<1>7. /\ genPc' = [genPc EXCEPT ![t] = after] /\ genLock' = Nobody
      /\ task' = [task EXCEPT ![t] = None] /\ draft' = [draft EXCEPT ![t] = None]
      /\ UNCHANGED <<storageFailures, exported, lapsed>>
      /\ \/ file' = [file EXCEPT ![p] = draft[t]] /\ ledger' = [ledger EXCEPT ![p] = account]
         \/ UNCHANGED <<file, ledger>>
  BY DEF DeliveryWritten
<1>8. after \in {"exporting", "idle"}
  OBVIOUS
<1> HIDE DEF n, p, account, after
<1>9. /\ genPc'[t] = after
      /\ \A u \in Threads \ {t} : genPc'[u] = genPc[u] /\ draft'[u] = draft[u] /\ task'[u] = task[u]
  BY <1>7 DEF IInv, TypeOK
<1>10. \A u \in Threads \ {t} : genPc[u] \notin Writing
  BY <1>1 DEF IInv, OneWriter, Writing
<1>11. \A q \in Problems : (file'[q] = None <=> file[q] = None)
                           /\ (file[q] # None => file'[q].total = file[q].total)
  BY <1>2, <1>4, <1>6, <1>7 DEF IInv, TypeOK
<1>12. TypeOK'
  BY <1>2, <1>4, <1>5, <1>7, <1>8 DEF IInv, TypeOK
<1>13. OneWriter'
  BY <1>7, <1>8, <1>9, <1>10, GeneratorAssumption DEF OneWriter, Writing
<1>14. DraftsCurrent'
  <2> SUFFICES ASSUME NEW u \in Threads
               PROVE  DraftsCurrent!(u)'
    BY DEF DraftsCurrent
  <2>1. CASE u = t
    BY <2>1, <1>8, <1>9
  <2>2. genPc[u] = "persist" => u \in Emitters /\ task[u] \in Result
    BY DEF IInv, DraftsCurrent
  <2>3. genPc[u] = "callback" => u \in Emitters /\ task[u] \in Result /\ draft[u] \in Document
    BY DEF IInv, DraftsCurrent
  <2>4. CASE u # t
    BY <2>2, <2>3, <2>4, <1>9, <1>10 DEF Writing
  <2> QED
    BY <2>1, <2>4
<1>15. NoUpdateLost'
  <2>1. CASE UNCHANGED <<file, ledger>>
    BY <2>1 DEF IInv, NoUpdateLost
  <2>2. CASE file' = [file EXCEPT ![p] = draft[t]] /\ ledger' = [ledger EXCEPT ![p] = account]
    BY <2>2, <1>2, <1>3, <1>4, <1>5, <1>6 DEF IInv, TypeOK, NoUpdateLost
  <2> QED
    BY <1>7, <2>1, <2>2
<1>16. KeysBelowCount'
  BY <1>7, <1>8, <1>9, <1>11 DEF IInv, KeysBelowCount, Threads
<1>17. KeysDistinct'
  BY <1>7, <1>8, <1>9 DEF IInv, KeysDistinct, Threads, IdempotencyKey
<1> QED
  BY <1>12, <1>13, <1>14, <1>15, <1>16, <1>17 DEF IInv

(* The files are left, and nobody is about to write or to hand on.            *)
LEMMA CrashIInv == ASSUME IInv, Crash PROVE IInv'
<1>1. \A t \in Threads : genPc'[t] = "idle"
  BY DEF Crash
<1>2. TypeOK'
  BY DEF IInv, TypeOK, Crash, historyVars
<1>3. OneWriter'
  BY <1>1, GeneratorAssumption DEF Crash, OneWriter
<1>4. DraftsCurrent'
  BY <1>1 DEF DraftsCurrent
<1>5. NoUpdateLost'
  BY DEF IInv, NoUpdateLost, Crash, historyVars
<1>6. KeysBelowCount' /\ KeysDistinct'
  BY <1>1 DEF IInv, KeysBelowCount, KeysDistinct, Crash, historyVars, Threads
<1> QED
  BY <1>2, <1>3, <1>4, <1>5, <1>6 DEF IInv

LEMMA StutterIInv == ASSUME IInv, UNCHANGED genVars PROVE IInv'
BY DEF IInv, genVars, memoryVars, historyVars, TypeOK, OneWriter, DraftsCurrent, NoUpdateLost,
       KeysBelowCount, KeysDistinct, IdempotencyKey

LEMMA NextIInv == ASSUME IInv, [Next]_genVars PROVE IInv'
<1>1. CASE \E t \in Emitters, r \in Results : HandleResult(t, r)
  BY <1>1, HandleResultIInv
<1>2. CASE \E t \in Emitters, readable \in BOOLEAN : ReadAndMerge(t, readable)
  BY <1>2, ReadAndMergeIInv
<1>3. CASE \E t \in Emitters : WriteSucceeds(t)
  BY <1>3, WriteSucceedsIInv
<1>4. CASE \E t \in Emitters : WriteFails(t)
  BY <1>4, WriteFailsIInv
<1>5. CASE \E t \in Emitters : HandOn(t)
  BY <1>5, HandOnIInv
<1>6. CASE \E t \in Emitters : HandleReturns(t)
  BY <1>6, HandleReturnsIInv
<1>7. CASE \E t \in Threads, n \in Notice, from \in {"exporting", "idle"} :
             ReadForDelivery(t, n, from)
  BY <1>7, ReadForDeliveryIInv
<1>8. CASE \E t \in Threads, stored \in BOOLEAN : DeliveryWritten(t, stored)
  BY <1>8, DeliveryWrittenIInv
<1>9. CASE Crash
  BY <1>9, CrashIInv
<1>10. CASE UNCHANGED genVars
  BY <1>10, StutterIInv
<1>11. ASSUME NEW t \in Threads, NoticeStep(t)
       PROVE  IInv'
  BY <1>11, <1>7, <1>8 DEF NoticeStep
<1> QED
  BY <1>1, <1>2, <1>3, <1>4, <1>5, <1>6, <1>9, <1>10, <1>11 DEF Next, EmitterStep

LEMMA Invariance == Spec => []IInv
<1>1. Init => IInv
  BY InitIInv
<1>2. IInv /\ [Next]_genVars => IInv'
  BY NextIInv
<1> QED
  BY <1>1, <1>2, PTL DEF Spec

-----------------------------------------------------------------------------
(* Every variable keeps its type, the files on disk included: whatever the    *)
(* interleaving, a proposal file is a whole document.                         *)
THEOREM TypeCorrect == Spec => []TypeOK
<1>1. IInv => TypeOK
  BY DEF IInv
<1> QED
  BY <1>1, Invariance, PTL

(* A thread about to replace a file holds the lock, so there is one at most.  *)
THEOREM WritersExclude == Spec => []OneWriter
<1>1. IInv => OneWriter
  BY DEF IInv
<1> QED
  BY <1>1, Invariance, PTL

(* No emission and no delivery notice is overwritten by another's rewrite.    *)
THEOREM NothingOverwritten == Spec => []NoUpdateLost
<1>1. IInv => NoUpdateLost
  BY DEF IInv
<1> QED
  BY <1>1, Invariance, PTL

(* A new emission of a problem has a new idempotency key, unless the count of *)
(* the problem was once not written or not read.                              *)
THEOREM KeysNeverRepeat == Spec => []KeysDistinct
<1>1. IInv => KeysDistinct
  BY DEF IInv
<1> QED
  BY <1>1, Invariance, PTL

-----------------------------------------------------------------------------
(* What a file remembers                                                      *)

LEMMA SameRemembers ==
    ASSUME NEW doc \in Document PROVE Remembers(doc, doc)
BY DEF Remembers, Document

LEMMA MergedRemembers ==
    ASSUME NEW r \in Result, NEW old \in Document PROVE Remembers(old, Merged(r, old))
<1>1. old.total \in Nat /\ Merged(r, old).total \in Nat
  BY MergedDocument DEF Document
<1> QED
  BY <1>1, MergedDocument DEF Remembers

LEMMA NotedRemembers ==
    ASSUME NEW n \in Notice, NEW old \in Document
    PROVE  Remembers(old, [old EXCEPT !.exports[n.sink] = n.status])
<1> DEFINE new == [old EXCEPT !.exports[n.sink] = n.status]
<1>1. /\ new.first = old.first /\ new.total = old.total /\ new.analyses = old.analyses
      /\ new.exports = [old.exports EXCEPT ![n.sink] = n.status]
  BY NotedDocument
<1>2. old.total \in Nat /\ old.analyses \in Nat /\ old.exports \in Exports
  BY DEF Document
<1>3. n.sink \in Sinks /\ n.status # None
  BY GeneratorAssumption DEF Notice
<1> HIDE DEF new
<1>4. \A k \in Sinks : old.exports[k] # None => new.exports[k] # None
  BY <1>1, <1>2, <1>3 DEF Exports
<1> QED
  BY <1>1, <1>2, <1>4 DEF Remembers, new

LEMMA NextKeepsHistory == ASSUME IInv, [Next]_genVars PROVE KeepsHistory
<1> SUFFICES ASSUME NEW p \in Problems, file[p] # None,
                    \A t \in Threads : ~(genPc[t] = "create" /\ task[t].problem = p)
             PROVE  Remembers(file[p], file'[p])
  BY DEF KeepsHistory
<1>1. file[p] \in Document
  BY DEF IInv, TypeOK
<1>2. CASE UNCHANGED file
  BY <1>1, <1>2, SameRemembers
<1>3. ASSUME NEW t \in Emitters, WriteSucceeds(t)
      PROVE  Remembers(file[p], file'[p])
  <2>1. t \in Threads /\ file' = [file EXCEPT ![task[t].problem] = draft[t]]
    BY <1>3 DEF WriteSucceeds, Threads
  <2>2. CASE task[t].problem = p
    <3>1. genPc[t] = "update"
      BY <1>3, <2>1, <2>2 DEF WriteSucceeds
    <3>2. task[t] \in Result /\ draft[t] = Merged(task[t], file[p])
      BY <2>1, <2>2, <3>1 DEF IInv, DraftsCurrent
    <3>3. file'[p] = draft[t]
      BY <2>1, <2>2 DEF IInv, TypeOK
    <3> QED
      BY <1>1, <3>2, <3>3, MergedRemembers
  <2>3. CASE task[t].problem # p
    <3>1. file'[p] = file[p]
      BY <2>1, <2>3 DEF IInv, TypeOK
    <3> QED
      BY <1>1, <3>1, SameRemembers
  <2> QED
    BY <2>2, <2>3
<1>4. ASSUME NEW t \in Threads, NEW stored \in BOOLEAN, DeliveryWritten(t, stored)
      PROVE  Remembers(file[p], file'[p])
  <2>1. genPc[t] = "rewrite"
    BY <1>4 DEF DeliveryWritten
  <2>2. \/ file' = [file EXCEPT ![task[t].problem] = draft[t]]
        \/ UNCHANGED file
    BY <1>4 DEF DeliveryWritten
  <2>3. CASE task[t].problem = p /\ file' = [file EXCEPT ![task[t].problem] = draft[t]]
    <3>1. /\ task[t] \in Notice
          /\ draft[t] = [file[p] EXCEPT !.exports[task[t].sink] = task[t].status]
      BY <2>1, <2>3 DEF IInv, DraftsCurrent
    <3>2. file'[p] = draft[t]
      BY <2>3 DEF IInv, TypeOK
    <3> QED
      BY <1>1, <3>1, <3>2, NotedRemembers
  <2>4. CASE task[t].problem # p /\ file' = [file EXCEPT ![task[t].problem] = draft[t]]
    <3>1. file'[p] = file[p]
      BY <2>4 DEF IInv, TypeOK
    <3> QED
      BY <1>1, <3>1, SameRemembers
  <2> QED
    BY <1>2, <2>2, <2>3, <2>4
<1>5. \/ UNCHANGED file
      \/ \E t \in Emitters : WriteSucceeds(t)
      \/ \E t \in Threads, stored \in BOOLEAN : DeliveryWritten(t, stored)
  BY DEF Next, EmitterStep, NoticeStep, genVars, HandleResult, ReadAndMerge, WriteFails, HandOn,
         HandleReturns, ReadForDelivery, Crash
<1> QED
  BY <1>2, <1>3, <1>4, <1>5

(* A rewrite never forgets what the file knew, unless it was not readable.    *)
THEOREM HistoryRemembered == Spec => HistoryKept
<1>1. IInv /\ [Next]_genVars => [KeepsHistory]_genVars
  BY NextKeepsHistory
<1> QED
  BY <1>1, Invariance, PTL DEF Spec, HistoryKept
=============================================================================
