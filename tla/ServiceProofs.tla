---------------------------- MODULE ServiceProofs ----------------------------
(* Theorems about Service, the context library and the model client under it, *)
(* for any documents, budgets, timeouts and number of errors.                 *)
EXTENDS Service, WellFoundedInduction, TLAPS

-----------------------------------------------------------------------------
(* The context library: what its readers, its cache and the file system say   *)
(* about each other                                                           *)

DocState == [there: BOOLEAN, readable: BOOLEAN, size: Nat, width: Nat \ {0}, mtime: Nat,
             version: Nat]
Contents == [chars: Nat, bytes: Nat] \cup {None}
Entries == [mtime: Nat, size: Nat, content: Contents, version: Nat]
Stamp(x) == [mtime |-> x.mtime, size |-> x.size]

LibraryTypes ==
    /\ disk \in [Documents -> DocState]
    /\ cache \in [Documents -> Entries \cup {None}]
    /\ readPc \in [Readers -> {"idle", "declared", "node"}]
    /\ todo \in [Readers -> SUBSET Nat]
    /\ \A r \in Readers : todo[r] \subseteq DOMAIN List(r)
    /\ seen \in [Readers -> DocState \cup {None}]
    /\ edits \in 0 .. MaxEdits
    /\ stats \in [Documents -> SUBSET [mtime: Nat, size: Nat]]
    /\ stale \cup ambiguous \subseteq Documents

(* Versions are numbered by the edits; what is there has had its stat.        *)
DiskKnown ==
    \A d \in Documents : /\ disk[d].version <= edits
                         /\ disk[d].there => Stamp(disk[d]) \in stats[d]

(* A cache entry bears a stat the document has had, and content that is no    *)
(* older than the last change into that stat.                                 *)
CacheRecent ==
    \A d \in Documents : cache[d] # None =>
        /\ Stamp(cache[d]) \in stats[d]
        /\ cache[d].version <= disk[d].version
        /\ d \notin ambiguous /\ disk[d].there /\ Stamp(cache[d]) = Stamp(disk[d])
               => cache[d].version >= disk[d].version

(* The same of a stat that a reader took before it looks into the cache. Its  *)
(* document is the first on the reader's list.                                *)
IsFirst(r, n) == n \in todo[r] /\ \A m \in todo[r] : n <= m

StatRecent(d, stat) ==
    /\ Stamp(stat) \in stats[d]
    /\ stat.version <= disk[d].version
    /\ d \notin ambiguous /\ cache[d] # None /\ Stamp(cache[d]) = Stamp(stat)
           => cache[d].version >= stat.version

SeenRecent ==
    \A r \in Readers : seen[r] # None =>
        /\ readPc[r] # "idle" /\ todo[r] # {}
        /\ \A n \in todo[r] : IsFirst(r, n) => StatRecent(List(r)[n], seen[r])

LibraryInv == LibraryTypes /\ DiskKnown /\ CacheRecent /\ SeenRecent /\ GuidanceIsCurrent

LEMMA Lists ==
    ASSUME NEW r \in Readers
    PROVE  List(r) \in Seq(Documents) /\ DOMAIN List(r) \subseteq Nat
BY LibraryAssumption DEF List

LEMMA StampsEqual ==
    ASSUME NEW x, NEW y
    PROVE  Stamp(x) = Stamp(y) <=> x.mtime = y.mtime /\ x.size = y.size
BY DEF Stamp

LEMMA LibraryInitially == ASSUME LibraryInit PROVE LibraryInv
<1> USE DEF LibraryInit
<1> DEFINE First == [there: BOOLEAN, readable: {TRUE}, size: Sizes \ {0}, width: Widths,
                     mtime: {0}, version: {0}]
<1>1. disk \in [Documents -> DocState] /\ \A d \in Documents : disk[d].version = 0
  <2>1. ASSUME NEW x \in First PROVE x \in DocState /\ x.version = 0
    <3>1. Sizes \ {0} \subseteq Nat /\ Widths \subseteq Nat \ {0} /\ {TRUE} \subseteq BOOLEAN /\ {0} \subseteq Nat
      BY LibraryAssumption
    <3>2. First \subseteq DocState
      BY <3>1, Zenon DEF DocState
    <3> QED
      BY <3>2
  <2>2. disk \in [Documents -> First]
    OBVIOUS
  <2> QED
    BY <2>1, <2>2
<1>2. \A d \in Documents : Stamp(disk[d]) \in [mtime: Nat, size: Nat] /\ StatOf(d) = Stamp(disk[d])
  BY <1>1 DEF Stamp, StatOf, DocState
<1>3. stats \in [Documents -> SUBSET [mtime: Nat, size: Nat]]
  BY <1>2
<1>4. LibraryTypes
  BY <1>1, <1>3, LibraryAssumption DEF LibraryTypes
<1>5. DiskKnown
  BY <1>1, <1>2 DEF DiskKnown
<1> QED
  BY <1>4, <1>5 DEF LibraryInv, CacheRecent, SeenRecent, GuidanceIsCurrent

(* A reader that has no stat in hand moves on in its lists.                   *)
LEMMA ReaderMoves ==
    ASSUME LibraryInv, NEW r \in Readers, seen[r] = None,
           UNCHANGED <<disk, cache, seen, edits, stats, ambiguous, stale>>,
           LibraryTypes',
           \A q \in Readers \ {r} : readPc'[q] = readPc[q] /\ todo'[q] = todo[q]
    PROVE  LibraryInv'
<1>1. DiskKnown' /\ CacheRecent' /\ GuidanceIsCurrent'
  BY DEF LibraryInv, DiskKnown, CacheRecent, GuidanceIsCurrent
<1>2. SeenRecent'
  <2> SUFFICES ASSUME NEW q \in Readers, seen[q] # None
               PROVE  /\ readPc'[q] # "idle" /\ todo'[q] # {}
                      /\ \A n \in todo'[q] :
                            IsFirst(q, n)' => StatRecent(List(q)[n], seen[q])'
    BY DEF SeenRecent
  <2>1. readPc'[q] = readPc[q] /\ todo'[q] = todo[q] /\ List(q)' = List(q)
    BY DEF List
  <2> QED
    BY <2>1 DEF LibraryInv, SeenRecent, IsFirst, StatRecent
<1> QED
  BY <1>1, <1>2 DEF LibraryInv

LEMMA ListStepsLibrary ==
    ASSUME LibraryInv, NEW r \in Readers,
           \/ \E paths \in {WorkloadPaths, <<>>} : StartReading(r, paths)
           \/ ListDirectory(r) \/ ListingFails(r) \/ FinishReading(r)
    PROVE  LibraryInv'
<1> USE DEF StartReading, ListDirectory, ListingFails, FinishReading
<1>1. seen[r] = None
  BY DEF LibraryInv, SeenRecent
<1>2. /\ UNCHANGED <<disk, cache, seen, edits, stats, ambiguous, stale>>
      /\ readPc' \in [Readers -> {"idle", "declared", "node"}]
      /\ \A q \in Readers \ {r} : readPc'[q] = readPc[q] /\ todo'[q] = todo[q]
  BY DEF LibraryInv, LibraryTypes
<1>3. todo' \in [Readers -> SUBSET Nat] /\ todo'[r] \subseteq DOMAIN (List(r)')
  <2>1. DOMAIN WorkloadPaths \subseteq Nat /\ DOMAIN NodeFiles \subseteq Nat
        /\ DOMAIN <<>> = {}
    BY LibraryAssumption
  <2>2. CASE \E paths \in {WorkloadPaths, <<>>} : StartReading(r, paths)
    BY <2>1, <2>2 DEF LibraryInv, LibraryTypes, List
  <2>3. CASE ListDirectory(r)
    BY <2>1, <2>3 DEF LibraryInv, LibraryTypes, List
  <2>4. CASE ListingFails(r) \/ FinishReading(r)
    BY <2>1, <2>4 DEF LibraryInv, LibraryTypes, List
  <2> QED
    BY <2>2, <2>3, <2>4
<1>4. \A q \in Readers : todo'[q] \subseteq DOMAIN (List(q)')
  <2> TAKE q \in Readers
  <2>1. CASE q = r
    BY <2>1, <1>3
  <2>2. CASE q # r
    BY <2>2, <1>2 DEF LibraryInv, LibraryTypes, List
  <2> QED
    BY <2>1, <2>2
<1>5. LibraryTypes'
  BY <1>2, <1>3, <1>4 DEF LibraryInv, LibraryTypes
<1> QED
  BY <1>1, <1>2, <1>5, ReaderMoves

LEMMA StatLibrary ==
    ASSUME LibraryInv, NEW r \in Readers, NEW n \in todo[r], Stat(r, n)
    PROVE  LibraryInv'
<1> USE DEF Stat
<1> DEFINE d == List(r)[n]
<1>1. d \in Documents /\ disk[d] \in DocState
  BY Lists DEF LibraryInv, LibraryTypes
<1>2. CASE disk[d].there
  <2>1. UNCHANGED <<disk, cache, readPc, todo, gathered, edits, stats, ambiguous, stale>>
        /\ seen' = [seen EXCEPT ![r] = disk[d]]
    BY <1>2
  <2> HIDE DEF Stat
  <2>2. LibraryTypes'
    BY <1>1, <2>1 DEF LibraryInv, LibraryTypes, List
  <2>3. DiskKnown' /\ CacheRecent' /\ GuidanceIsCurrent'
    BY <2>1 DEF LibraryInv, DiskKnown, CacheRecent, GuidanceIsCurrent
  <2>4. StatRecent(d, disk[d])
    BY <1>1, <1>2 DEF LibraryInv, DiskKnown, CacheRecent, StatRecent, LibraryTypes, DocState
  <2>5. SeenRecent'
    <3> SUFFICES ASSUME NEW q \in Readers, seen'[q] # None
                 PROVE  /\ readPc[q] # "idle" /\ todo[q] # {}
                        /\ \A m \in todo[q] :
                              IsFirst(q, m) => StatRecent(List(q)[m], seen'[q])
      BY <2>1 DEF SeenRecent, IsFirst, StatRecent, List
    <3>1. CASE q = r
      <4>1. ASSUME NEW m \in todo[q], IsFirst(q, m) PROVE m = n
        <5>1. n <= m /\ m <= n
          BY <3>1, <4>1 DEF IsFirst, Stat
        <5>2. n \in Nat /\ m \in Nat
          BY <3>1 DEF LibraryInv, LibraryTypes
        <5> QED
          BY <5>1, <5>2
      <4>2. seen'[q] = disk[d]
        BY <2>1, <3>1 DEF LibraryInv, LibraryTypes
      <4> QED
        BY <2>4, <3>1, <4>1, <4>2 DEF Stat
    <3>2. CASE q # r
      BY <2>1, <3>2 DEF LibraryInv, LibraryTypes, SeenRecent
    <3> QED
      BY <3>1, <3>2
  <2> QED
    BY <2>2, <2>3, <2>5 DEF LibraryInv
<1>3. CASE ~disk[d].there
  <2>1. UNCHANGED <<disk, cache, readPc, seen, gathered, edits, stats, ambiguous, stale>>
        /\ todo' = [todo EXCEPT ![r] = @ \ {n}]
    BY <1>3
  <2>2. LibraryTypes'
    BY <2>1 DEF LibraryInv, LibraryTypes, List
  <2> QED
    BY <2>1, <2>2, ReaderMoves DEF LibraryInv, LibraryTypes
<1> QED
  BY <1>2, <1>3

(* A text is a number of characters and of bytes.                             *)
LEMMA Texts ==
    ASSUME NEW d \in Documents, disk[d] \in DocState
    PROVE  Text(d) \in Contents
<1> DEFINE chars == disk[d].size \div disk[d].width
           cut == chars > MaxFileBytes
           kept == IF cut THEN MaxFileBytes ELSE chars
           notice == IF cut THEN NoticeBytes ELSE 0
<1>1. /\ disk[d].size \in Nat /\ disk[d].width \in Nat \ {0}
      /\ MaxFileBytes \in Nat /\ NoticeBytes \in Nat
  BY LibraryAssumption DEF DocState
<1>2. chars \in Nat
  BY <1>1
<1> HIDE DEF chars
<1>3. kept \in Nat /\ notice \in Nat
  BY <1>1, <1>2
<1>4. kept + notice \in Nat
  BY <1>3
<1>5. kept * disk[d].width \in Nat
  BY <1>1, <1>3
<1>6. kept * disk[d].width + notice \in Nat
  BY <1>3, <1>5
<1>7. Text(d) = IF disk[d].there /\ disk[d].readable /\ chars > 0
                  THEN [chars |-> kept + notice, bytes |-> kept * disk[d].width + notice]
                  ELSE None
  BY DEF Text, chars
<1> QED
  BY <1>4, <1>6, <1>7 DEF Contents

LEMMA LoadLibrary ==
    ASSUME LibraryInv, NEW r \in Readers, NEW n \in todo[r], Load(r, n)
    PROVE  LibraryInv'
<1> DEFINE d == List(r)[n]
           hit == Unchanged(cache[d], seen[r])
           entry == IF hit THEN cache[d]
                    ELSE [mtime |-> seen[r].mtime, size |-> seen[r].size,
                          content |-> Text(d), version |-> disk[d].version]
<1>1. /\ cache' = [cache EXCEPT ![d] = entry]
      /\ stale' = IF entry.version < seen[r].version THEN stale \cup {d} ELSE stale
      /\ seen' = [seen EXCEPT ![r] = None]
      /\ todo' = [todo EXCEPT ![r] = @ \ {n}]
      /\ UNCHANGED <<disk, readPc, edits, stats, ambiguous>>
      /\ seen[r] # None /\ \A m \in todo[r] : n <= m
  BY DEF Load
<1>2. /\ d \in Documents /\ disk[d] \in DocState
      /\ cache[d] \in Entries \cup {None} /\ seen[r] \in DocState
  BY <1>1, Lists DEF LibraryInv, LibraryTypes
<1>3. StatRecent(d, seen[r])
  BY <1>1 DEF LibraryInv, SeenRecent, IsFirst
<1>4. Text(d) \in Contents
  BY <1>2, Texts
<1>5. entry \in Entries \cup {None} /\ entry.version \in Nat
  BY <1>2, <1>4 DEF Entries, DocState, Unchanged
<1>6. hit => cache[d] # None /\ Stamp(cache[d]) = Stamp(seen[r])
  BY DEF Unchanged, Stamp
<1>7. ~hit => Stamp(entry) = Stamp(seen[r]) /\ entry.version = disk[d].version
  BY DEF Stamp
<1>8. hit => entry = cache[d]
  OBVIOUS
<1> HIDE DEF entry, hit
<1>9. /\ Stamp(entry) = Stamp(seen[r]) /\ Stamp(entry) \in stats[d]
      /\ entry.version <= disk[d].version
      /\ d \notin ambiguous => entry.version >= seen[r].version
      /\ d \notin ambiguous /\ disk[d].there /\ Stamp(entry) = Stamp(disk[d])
            => entry.version >= disk[d].version
  BY <1>2, <1>3, <1>6, <1>7, <1>8
     DEF StatRecent, LibraryInv, CacheRecent, DocState
<1>10. LibraryTypes'
  BY <1>1, <1>2, <1>5 DEF LibraryInv, LibraryTypes, List
<1>11. DiskKnown'
  BY <1>1 DEF LibraryInv, DiskKnown
<1>12. CacheRecent'
  BY <1>1, <1>2, <1>9 DEF LibraryInv, LibraryTypes, CacheRecent
<1>13. GuidanceIsCurrent'
  BY <1>1, <1>2, <1>5, <1>9 DEF LibraryInv, GuidanceIsCurrent, DocState
<1>14. SeenRecent'
  <2> SUFFICES ASSUME NEW q \in Readers, seen'[q] # None
               PROVE  /\ readPc'[q] # "idle" /\ todo'[q] # {}
                      /\ \A m \in todo'[q] :
                            IsFirst(q, m)' => StatRecent(List(q)[m], seen[q])'
    BY DEF SeenRecent
  <2>1. q # r /\ seen'[q] = seen[q] /\ todo'[q] = todo[q] /\ readPc'[q] = readPc[q]
        /\ List(q)' = List(q)
    BY <1>1 DEF LibraryInv, LibraryTypes, List
  <2> SUFFICES ASSUME NEW m \in todo[q], IsFirst(q, m)
               PROVE  StatRecent(List(q)[m], seen[q])'
    BY <2>1 DEF LibraryInv, SeenRecent, IsFirst
  <2> DEFINE c == List(q)[m]
  <2>2. StatRecent(c, seen[q])
    BY <2>1 DEF LibraryInv, SeenRecent
  <2>3. c \in Documents
    BY Lists DEF LibraryInv, LibraryTypes
  <2> HIDE DEF c
  <2>4. CASE hit \/ c # d
    <3>1. cache'[c] = cache[c]
      BY <2>3, <2>4, <1>1, <1>8 DEF LibraryInv, LibraryTypes
    <3> QED
      BY <3>1, <2>1, <2>2, <1>1 DEF StatRecent, c
  <2>5. CASE ~hit /\ c = d
    <3>1. cache'[c] = entry
      BY <2>3, <2>5, <1>1 DEF LibraryInv, LibraryTypes
    <3>2. entry.version >= seen[q].version
      BY <2>2, <2>5, <1>7 DEF StatRecent
    <3> QED
      BY <3>1, <3>2, <2>1, <2>2, <1>1 DEF StatRecent, c
  <2> QED
    BY <2>4, <2>5
<1> QED
  BY <1>10, <1>11, <1>12, <1>13, <1>14 DEF LibraryInv

LEMMA EditsLibrary ==
    ASSUME LibraryInv, Edits
    PROVE  LibraryInv'
<1>1. PICK d \in Documents, there \in BOOLEAN, readable \in BOOLEAN, size \in Sizes,
           width \in Widths, mtime \in 0 .. MaxEdits :
               Edit(d, there, readable, size, width, mtime)
  BY DEF Edits
<1> DEFINE new == [there |-> there, readable |-> readable, size |-> size, width |-> width,
                   mtime |-> mtime, version |-> edits + 1]
           stamp == [mtime |-> mtime, size |-> size]
<1>2. /\ edits < MaxEdits /\ edits' = edits + 1
      /\ disk' = [disk EXCEPT ![d] = new]
      /\ stats' = IF there THEN [stats EXCEPT ![d] = @ \cup {stamp}] ELSE stats
      /\ ambiguous' = IF there /\ stamp \in stats[d] THEN ambiguous \cup {d} ELSE ambiguous
      /\ UNCHANGED <<cache, readPc, todo, seen, gathered, stale>>
  BY <1>1 DEF Edit
<1>3. size \in Nat /\ width \in Nat \ {0} /\ mtime \in Nat /\ edits \in Nat /\ MaxEdits \in Nat
  BY LibraryAssumption DEF LibraryInv, LibraryTypes
<1>4. /\ new \in DocState /\ stamp \in [mtime: Nat, size: Nat]
      /\ Stamp(new) = stamp /\ new.version = edits + 1 /\ new.there = there
  BY <1>3 DEF DocState, Stamp
<1>5. stats' \in [Documents -> SUBSET [mtime: Nat, size: Nat]]
  BY <1>2, <1>4 DEF LibraryInv, LibraryTypes
<1> HIDE DEF new, stamp
<1>6. LibraryTypes'
  BY <1>2, <1>3, <1>4, <1>5 DEF LibraryInv, LibraryTypes, List
<1>7. /\ \A c \in Documents : disk[c].version \in Nat /\ disk[c].version <= edits
      /\ disk'[d] = new /\ \A c \in Documents \ {d} : disk'[c] = disk[c]
      /\ \A c \in Documents : stats[c] \subseteq stats'[c]
      /\ there => stamp \in stats'[d]
      /\ ambiguous \subseteq ambiguous'
      /\ there /\ stamp \in stats[d] => d \in ambiguous'
  BY <1>2 DEF LibraryInv, LibraryTypes, DiskKnown, DocState
<1>8. DiskKnown'
  BY <1>2, <1>3, <1>4, <1>7 DEF LibraryInv, DiskKnown
<1>9. GuidanceIsCurrent'
  BY <1>2, <1>7 DEF LibraryInv, GuidanceIsCurrent
<1>10. CacheRecent'
  <2> SUFFICES ASSUME NEW c \in Documents, cache[c] # None
               PROVE  /\ Stamp(cache[c]) \in stats'[c]
                      /\ cache[c].version <= disk'[c].version
                      /\ c \notin ambiguous' /\ disk'[c].there
                          /\ Stamp(cache[c]) = Stamp(disk'[c])
                             => cache[c].version >= disk'[c].version
    BY <1>2 DEF CacheRecent
  <2>1. /\ Stamp(cache[c]) \in stats[c] /\ cache[c].version <= disk[c].version
        /\ cache[c].version \in Nat
    BY DEF LibraryInv, LibraryTypes, CacheRecent, Entries
  <2>2. CASE c = d
    BY <2>1, <2>2, <1>3, <1>4, <1>7
  <2>3. CASE c # d
    BY <2>1, <2>3, <1>7 DEF LibraryInv, CacheRecent
  <2> QED
    BY <2>2, <2>3
<1>11. SeenRecent'
  <2> SUFFICES ASSUME NEW q \in Readers, seen[q] # None,
                      NEW m \in todo[q], IsFirst(q, m)
               PROVE  StatRecent(List(q)[m], seen[q])'
    BY <1>2 DEF LibraryInv, SeenRecent, IsFirst
  <2> DEFINE c == List(q)[m]
  <2>1. c \in Documents /\ List(q)' = List(q) /\ seen[q].version \in Nat
    BY <1>2, Lists, SMTT(30) DEF LibraryInv, LibraryTypes, List, DocState
  <2>2. StatRecent(c, seen[q])
    BY DEF LibraryInv, SeenRecent
  <2> HIDE DEF c
  <2>3. disk[c].version <= disk'[c].version
    BY <2>1, <1>3, <1>4, <1>7
  <2>4. disk'[c].version \in Nat
    BY <2>1, <1>3, <1>4, <1>7
  <2>5. /\ Stamp(seen[q]) \in stats'[c]
        /\ seen[q].version <= disk'[c].version
        /\ c \notin ambiguous' /\ cache[c] # None /\ Stamp(cache[c]) = Stamp(seen[q])
             => cache[c].version >= seen[q].version
    BY <2>1, <2>2, <2>3, <2>4, <1>7 DEF StatRecent, LibraryInv, LibraryTypes, DocState
  <2> QED
    BY <2>1, <2>5, <1>2 DEF c, StatRecent
<1> QED
  BY <1>6, <1>8, <1>9, <1>10, <1>11 DEF LibraryInv

(* The health endpoint, the worker and the main thread are the readers.       *)
LEMMA LibraryNext ==
    ASSUME LibraryInv, [Next]_vars
    PROVE  LibraryInv'
<1>1. CASE UNCHANGED libraryVars
  BY <1>1 DEF libraryVars, LibraryInv, LibraryTypes, DiskKnown, CacheRecent, SeenRecent,
     IsFirst, StatRecent, GuidanceIsCurrent, List
<1>2. ASSUME NEW r \in Readers,
             \/ \E paths \in {WorkloadPaths, <<>>} : StartReading(r, paths)
             \/ ListingFails(r) \/ FinishReading(r) \/ ReadingStep(r)
      PROVE  LibraryInv'
  BY <1>2, ListStepsLibrary, StatLibrary, LoadLibrary DEF ReadingStep
<1>3. {worker, health, main} = Readers
  BY ServiceAssumption
<1>4. CASE MainStep
  BY <1>1, <1>2, <1>3, <1>4
     DEF MainStep, Validate, StartNext, Describe, Described, ServeEnds, StopNext, Joined, Stopped
<1>5. CASE RequestShutdown \/ Interrupt \/ Detect \/ Tick \/ ModelStep(PartArrives)
  BY <1>1, <1>5 DEF RequestShutdown, Interrupt, Detect, Tick, ModelStep
<1>6. ASSUME NEW c \in Loops \cup {"health"},
             BeginPass(c) \/ EndPass(c) \/ ThreadEnds(c)
      PROVE  LibraryInv'
  BY <1>1, <1>6 DEF BeginPass, EndPass, ThreadEnds
<1>7. CASE HealthRequest
  BY <1>2, <1>3, <1>7 DEF HealthRequest
<1>8. CASE EditDocument
  BY <1>8, EditsLibrary DEF EditDocument
<1>9. CASE WorkerStep
  <2>1. CASE TakeItem
    BY <2>1, <1>2, <1>3 DEF TakeItem
  <2>2. CASE ReadGuidance \/ AskModel
    BY <2>2, <1>2, <1>3 DEF ReadGuidance, AskModel
  <2>3. CASE \/ WorkerEnds \/ ModelStep(Chat) \/ ModelStep(Replied)
             \/ AnalysisFailed \/ AnalysisRaised \/ Persist \/ SubmitForExport
    BY <2>3, <1>1
       DEF WorkerEnds, ModelStep, AnalysisFailed, AnalysisRaised, Persist, SubmitForExport
  <2> QED
    BY <1>9, <2>1, <2>2, <2>3 DEF WorkerStep
<1> QED
  BY <1>1, <1>4, <1>5, <1>6, <1>7, <1>8, <1>9 DEF Next, vars

-----------------------------------------------------------------------------
(* The model client                                                           *)

ClientInv ==
    /\ ClientTypeOK
    /\ callPc = "request" => attempt < MaxRetries
    /\ callPc = "waiting" => attempt > 0
    /\ callPc = "usable" => /\ reply \in Answer /\ reply \in Replies
                           /\ ~Unusable(reply) /\ ~Unexpected(reply)
                           /\ payload = Valid(reply)
    /\ callPc = "raised" => Unexpected(reply)

(* Whatever number the model gives, a confidence is between 0 and 10 tenths,  *)
(* and it is not raised above what was given, save for NaN and true.          *)
LEMMA ValidAnswer ==
    ASSUME NEW r \in Answer, ~Unusable(r), ~Unexpected(r)
    PROVE  /\ Valid(r) \in [severity: Severities, confidence: 0 .. 10]
           /\ Valid(r).severity = r.severity
           /\ Valid(r).confidence >= 8 => r.confidence \in {NotANumber, Yes} \/ r.confidence >= 8
<1>1. r.kind = "object" /\ r.severity \in Severities \cup {"other"}
      /\ r.confidence \in Int \cup {NotANumber, Yes, Words, Beyond}
  BY DEF Answer
<1>2. r.severity \in Severities /\ r.confidence \in Int \cup {NotANumber, Yes}
  BY <1>1 DEF Unusable, Unexpected
<1>3. /\ Clamp(r.confidence) \in 0 .. 10
      /\ Clamp(r.confidence) >= 8 => r.confidence \in {NotANumber, Yes} \/ r.confidence >= 8
  <2>1. CASE r.confidence \in {NotANumber, Yes}
    BY <2>1 DEF Clamp
  <2>2. CASE r.confidence \notin {NotANumber, Yes}
    <3>1. r.confidence \in Int
      BY <1>2, <2>2
    <3> QED
      BY <2>2, <3>1 DEF Clamp
  <2> QED
    BY <2>1, <2>2
<1> QED
  BY <1>2, <1>3 DEF Valid

LEMMA RepliedClient ==
    ASSUME ClientInv, Replied
    PROVE  ClientInv'
<1>1. PICK r \in Replies : Answered(r) \/ TimedOut(r) \/ TriedAgain(r) \/ GivenUp(r) \/ Raises(r)
  BY DEF Replied
<1> USE DEF Concludes, ClientInv, ClientTypeOK
<1>2. CASE Answered(r)
  <2>1. r \in Answer
    BY <1>2, ClientAssumption DEF Answered, Failure, Unusable, Unexpected
  <2> QED
    BY <1>2, <2>1, ValidAnswer DEF Answered
<1>3. CASE TimedOut(r) \/ GivenUp(r)
  BY <1>3 DEF TimedOut, GivenUp
<1>4. CASE TriedAgain(r)
  BY <1>4 DEF TriedAgain
<1>5. CASE Raises(r)
  BY <1>5 DEF Raises
<1> QED
  BY <1>1, <1>2, <1>3, <1>4, <1>5

LEMMA ClientNext ==
    ASSUME ClientInv, [Next]_vars
    PROVE  ClientInv'
<1>1. CASE UNCHANGED clientVars
  BY <1>1 DEF clientVars, ClientInv, ClientTypeOK
<1>2. CASE Analyze \/ Chat \/ PartArrives \/ CallReturns
  BY <1>2, ClientAssumption DEF Analyze, Chat, PartArrives, CallReturns, ClientInv, ClientTypeOK
<1>3. CASE Tick
  <2>1. elapsed' \in 0 .. ModelTimeout
    BY <1>3, ClientAssumption DEF Tick, ClientInv, ClientTypeOK
  <2> QED
    BY <1>3, <2>1 DEF Tick, ClientInv, ClientTypeOK
<1>4. CASE MainStep
  BY <1>1, <1>4
     DEF MainStep, Validate, StartNext, Describe, Described, ServeEnds, StopNext, Joined, Stopped
<1>5. CASE RequestShutdown \/ Interrupt \/ Detect \/ HealthRequest \/ EditDocument
  BY <1>1, <1>5 DEF RequestShutdown, Interrupt, Detect, HealthRequest, EditDocument
<1>6. ASSUME NEW c \in Loops \cup {"health"},
             BeginPass(c) \/ EndPass(c) \/ ThreadEnds(c)
      PROVE  ClientInv'
  BY <1>1, <1>6 DEF BeginPass, EndPass, ThreadEnds
<1>7. CASE WorkerStep
  <2>1. CASE TakeItem \/ WorkerEnds \/ ReadGuidance \/ SubmitForExport
    BY <2>1, <1>1 DEF TakeItem, WorkerEnds, ReadGuidance, SubmitForExport
  <2>2. CASE \/ AskModel \/ ModelStep(Chat)
             \/ AnalysisFailed \/ AnalysisRaised \/ Persist
    BY <2>2, <1>2 DEF AskModel, ModelStep, AnalysisFailed, AnalysisRaised, Persist
  <2>3. CASE ModelStep(Replied)
    BY <2>3, RepliedClient DEF ModelStep
  <2> QED
    BY <1>7, <2>1, <2>2, <2>3 DEF WorkerStep
<1>8. CASE ModelStep(PartArrives)
  BY <1>8, <1>2 DEF ModelStep
<1> QED
  BY <1>1, <1>3, <1>4, <1>5, <1>6, <1>7, <1>8 DEF Next, vars

-----------------------------------------------------------------------------
(* Starting and stopping                                                      *)

LifeTypes ==
    /\ mainPc \in {"validate", "start", "describe", "serve", "stop", "exited"}
    /\ thread \in [Components -> {"off", "on", "over"}]
    /\ stopFlag \subseteq Components /\ inPass \subseteq Loops
    /\ joining \in Components \cup {Nobody} /\ joinLeft \in Nat

(* What is left of StopOrder while stop() runs.                               *)
StopTails == {StopOrder, <<"exporter", "registry", "log_monitor", "analyzer">>,
              <<"registry", "log_monitor", "analyzer">>, <<"log_monitor", "analyzer">>,
              <<"analyzer">>, <<>>}

(* stop() takes up the components of StopOrder one at a time, and waits only  *)
(* for one that is left.                                                      *)
OrderlyStop ==
    mainPc = "stop" => pending \in StopTails /\ (joining # Nobody => pending # <<>>)

LifeInv == LifeTypes /\ OrderlyStop

LEMMA StopTailsFacts ==
    ASSUME NEW s \in StopTails, s # <<>>
    PROVE  Head(s) \in Components /\ Tail(s) \in StopTails
<1> USE DEF StopTails, StopOrder, Components
<1>1. CASE s = StopOrder
  BY <1>1
<1>2. CASE s = <<"exporter", "registry", "log_monitor", "analyzer">>
  BY <1>2
<1>3. CASE s = <<"registry", "log_monitor", "analyzer">>
  BY <1>3
<1>4. CASE s = <<"log_monitor", "analyzer">>
  BY <1>4
<1>5. CASE s = <<"analyzer">>
  BY <1>5
<1> QED
  BY <1>1, <1>2, <1>3, <1>4, <1>5

(* Steps that leave the stopping alone.                                       *)
LEMMA OtherStepsLife ==
    ASSUME LifeInv, LifeTypes', UNCHANGED <<mainPc, pending, joining>>
    PROVE  LifeInv'
BY DEF LifeInv, OrderlyStop

LEMMA StopNextLife ==
    ASSUME LifeInv, StopNext
    PROVE  LifeInv'
<1> USE DEF StopNext
<1> DEFINE c == Head(pending)
<1>1. c \in Components /\ pending \in StopTails
  BY StopTailsFacts DEF LifeInv, OrderlyStop
<1>2. JoinTimeout[c] \in Nat
  BY <1>1, ServiceAssumption
<1>3. LifeTypes'
  BY <1>1, <1>2 DEF LifeInv, LifeTypes
<1>4. OrderlyStop'
  BY <1>1 DEF OrderlyStop
<1> QED
  BY <1>3, <1>4 DEF LifeInv

LEMMA JoinedLife ==
    ASSUME LifeInv, Joined
    PROVE  LifeInv'
<1> USE DEF Joined
<1>1. pending \in StopTails /\ pending # <<>>
  BY DEF LifeInv, OrderlyStop
<1>2. Tail(pending) \in StopTails
  BY <1>1, StopTailsFacts
<1>3. LifeTypes'
  BY DEF LifeInv, LifeTypes
<1>4. OrderlyStop'
  BY <1>2 DEF OrderlyStop
<1> QED
  BY <1>3, <1>4 DEF LifeInv

LEMMA InterruptLife ==
    ASSUME LifeInv, Interrupt
    PROVE  LifeInv'
<1> USE DEF Interrupt
<1>1. LifeTypes'
  BY DEF LifeInv, LifeTypes
<1>2. OrderlyStop'
  BY DEF LifeInv, OrderlyStop, StopTails, StopOrder
<1> QED
  BY <1>1, <1>2 DEF LifeInv

LEMMA MainLife ==
    ASSUME LifeInv, MainStep
    PROVE  LifeInv'
<1> USE DEF Goes, LifeInv
<1>1. CASE Validate \/ Describe \/ Described \/ ServeEnds \/ Stopped
  <2> USE <1>1 DEF Validate, Describe, Described, ServeEnds, Stopped
  <2>1. LifeTypes'
    BY DEF LifeTypes
  <2>2. OrderlyStop'
    BY DEF OrderlyStop
  <2> QED
    BY <2>1, <2>2
<1>2. CASE StartNext
  <2> USE <1>2 DEF StartNext
  <2>1. LifeTypes'
    BY DEF LifeTypes
  <2>2. OrderlyStop'
    BY DEF OrderlyStop
  <2> QED
    BY <2>1, <2>2
<1>3. CASE mainPc = "describe" /\ ReadingStep(main) /\ UNCHANGED <<clientVars, lifeVars, workVars>>
  BY <1>3, OtherStepsLife DEF LifeTypes, lifeVars
<1> QED
  BY <1>1, <1>2, <1>3, StopNextLife, JoinedLife DEF MainStep

LEMMA LifeNext ==
    ASSUME LifeInv, [Next]_vars
    PROVE  LifeInv'
<1> USE DEF lifeVars
<1>1. CASE UNCHANGED lifeVars
  BY <1>1, OtherStepsLife DEF LifeInv, LifeTypes
<1>2. CASE RequestShutdown
  BY <1>2, OtherStepsLife DEF RequestShutdown, LifeInv, LifeTypes
<1>3. ASSUME NEW c \in Loops, BeginPass(c) \/ EndPass(c)
      PROVE  LifeInv'
  <2>1. LifeTypes'
    BY <1>3 DEF BeginPass, EndPass, LifeInv, LifeTypes
  <2> QED
    BY <1>3, <2>1, OtherStepsLife DEF BeginPass, EndPass
<1>4. ASSUME NEW c \in Loops \cup {"health"}, ThreadEnds(c)
      PROVE  LifeInv'
  <2>1. LifeTypes'
    BY <1>4 DEF ThreadEnds, LifeInv, LifeTypes
  <2> QED
    BY <1>4, <2>1, OtherStepsLife DEF ThreadEnds
<1>5. CASE Detect \/ HealthRequest \/ EditDocument
  BY <1>1, <1>5 DEF Detect, HealthRequest, EditDocument
<1>6. CASE Tick
  <2>1. LifeTypes'
    BY <1>6 DEF Tick, LifeInv, LifeTypes
  <2> QED
    BY <1>6, <2>1, OtherStepsLife DEF Tick
<1>7. CASE WorkerEnds \/ AnalysisRaised
  <2>1. LifeTypes'
    BY <1>7 DEF WorkerEnds, AnalysisRaised, LifeInv, LifeTypes
  <2> QED
    BY <1>7, <2>1, OtherStepsLife DEF WorkerEnds, AnalysisRaised
<1>8. CASE \/ TakeItem \/ ReadGuidance \/ AskModel \/ ModelStep(Chat) \/ ModelStep(Replied)
           \/ ModelStep(PartArrives) \/ AnalysisFailed \/ Persist \/ SubmitForExport
  BY <1>1, <1>8 DEF TakeItem, ReadGuidance, AskModel, ModelStep, AnalysisFailed, Persist,
     SubmitForExport
<1> QED
  BY <1>1, <1>2, <1>3, <1>4, <1>5, <1>6, <1>7, <1>8, InterruptLife, MainLife
     DEF Next, WorkerStep, vars

-----------------------------------------------------------------------------
(* The analysis worker                                                        *)

WorkTypes ==
    /\ workerPc \in {"loop", "guidance", "analysis", "export"}
    /\ queue \in Seq(1 .. MaxErrors) /\ detected \in 0 .. MaxErrors
    /\ current \in 0 .. MaxErrors /\ (workerPc # "loop" => current \in 1 .. MaxErrors)
    /\ failed \cup spooled \subseteq 1 .. MaxErrors
    /\ persisted \in [1 .. MaxErrors -> {NoPayload} \cup [review: BOOLEAN, answer: Replies]]
    /\ callPc # "idle" => workerPc = "analysis"

WorkInv == WorkTypes /\ ReviewSkippedOnlyIfRoutine /\ WorkerSurvives

LEMMA OtherStepsWork ==
    ASSUME WorkInv, UNCHANGED <<workVars, callPc, reply>>, stopFlag \subseteq stopFlag',
           thread'["analyzer"] = "over" => \/ thread["analyzer"] = "over"
                                          \/ "analyzer" \in stopFlag
    PROVE  WorkInv'
<1> USE DEF workVars, WorkInv
<1>1. WorkTypes' /\ ReviewSkippedOnlyIfRoutine'
  BY DEF WorkTypes, ReviewSkippedOnlyIfRoutine
<1>2. WorkerSurvives'
  BY DEF WorkerSurvives
<1> QED
  BY <1>1, <1>2

LEMMA FirstAndRest ==
    ASSUME NEW S, NEW s \in Seq(S), s # <<>>
    PROVE  Head(s) \in S /\ Tail(s) \in Seq(S)
OBVIOUS

LEMMA PersistWork ==
    ASSUME WorkInv, ClientInv, Persist
    PROVE  WorkInv'
<1> USE DEF Persist, CallReturns, lifeVars
<1>1. /\ workerPc = "analysis" /\ current \in 1 .. MaxErrors
      /\ callPc' = "idle" /\ workerPc' = "export" /\ thread["analyzer"] = "on"
  BY DEF WorkInv, WorkTypes, WorkerRuns
<1>2. reply \in Answer /\ ~Unusable(reply) /\ ~Unexpected(reply) /\ payload = Valid(reply)
      /\ reply \in Replies
  BY DEF ClientInv
<1> DEFINE new == [review |-> RequiresReview(payload), answer |-> reply]
<1>3. new \in [review: BOOLEAN, answer: Replies]
      /\ new.review = RequiresReview(payload) /\ new.answer = reply
  BY <1>2 DEF RequiresReview
<1>4. /\ persisted' = [persisted EXCEPT ![current] = new]
      /\ UNCHANGED <<thread, stopFlag, queue, current, failed, spooled, detected, reply>>
  OBVIOUS
<1>5. ~RequiresReview(payload) =>
          /\ reply.severity \in {"low", "medium"}
          /\ reply.confidence \in {NotANumber, Yes} \/ reply.confidence >= 8
  BY <1>2, ValidAnswer DEF RequiresReview
<1> HIDE DEF new
<1>6. WorkTypes'
  BY <1>1, <1>3, <1>4 DEF WorkInv, WorkTypes
<1>7. ReviewSkippedOnlyIfRoutine'
  BY <1>1, <1>3, <1>4, <1>5 DEF WorkInv, WorkTypes, ReviewSkippedOnlyIfRoutine
<1>8. WorkerSurvives'
  BY <1>1, <1>4 DEF WorkerSurvives
<1> QED
  BY <1>6, <1>7, <1>8 DEF WorkInv

LEMMA WorkerWork ==
    ASSUME WorkInv, ClientInv, WorkerStep
    PROVE  WorkInv'
<1> USE DEF WorkInv, lifeVars, workVars
<1>1. CASE TakeItem
  <2> USE <1>1 DEF TakeItem
  <2>1. queue \in Seq(1 .. MaxErrors) /\ queue # <<>>
    BY DEF WorkTypes
  <2>2. Head(queue) \in 1 .. MaxErrors /\ Tail(queue) \in Seq(1 .. MaxErrors)
    BY <2>1, FirstAndRest
  <2>3. WorkTypes' /\ ReviewSkippedOnlyIfRoutine'
    BY <2>2 DEF WorkTypes, ReviewSkippedOnlyIfRoutine, clientVars
  <2>4. WorkerSurvives'
    BY DEF WorkerSurvives, clientVars
  <2> QED
    BY <2>3, <2>4
<1>2. CASE WorkerEnds
  BY <1>2, OtherStepsWork DEF WorkerEnds, clientVars
<1>3. CASE ReadGuidance
  BY <1>3, OtherStepsWork DEF ReadGuidance, clientVars
<1>4. CASE AskModel
  <2> USE <1>4 DEF AskModel, Analyze
  <2>1. WorkTypes' /\ ReviewSkippedOnlyIfRoutine'
    BY DEF WorkTypes, ReviewSkippedOnlyIfRoutine
  <2>2. WorkerSurvives'
    BY DEF WorkerSurvives
  <2> QED
    BY <2>1, <2>2
<1>5. CASE ModelStep(Chat) \/ ModelStep(Replied)
  <2>1. workerPc = "analysis" /\ thread["analyzer"] = "on" /\ UNCHANGED <<lifeVars, workVars>>
    BY <1>5 DEF ModelStep, WorkerRuns
  <2>2. WorkTypes' /\ ReviewSkippedOnlyIfRoutine'
    BY <2>1 DEF WorkTypes, ReviewSkippedOnlyIfRoutine
  <2>3. WorkerSurvives'
    BY <2>1 DEF WorkerSurvives
  <2> QED
    BY <2>2, <2>3
<1>6. CASE AnalysisFailed
  <2> USE <1>6 DEF AnalysisFailed, CallReturns
  <2>1. workerPc = "analysis"
    BY DEF WorkTypes
  <2>2. WorkTypes' /\ ReviewSkippedOnlyIfRoutine'
    BY <2>1, ServiceAssumption DEF WorkTypes, ReviewSkippedOnlyIfRoutine
  <2>3. WorkerSurvives'
    BY DEF WorkerSurvives
  <2> QED
    BY <2>2, <2>3
<1>7. CASE AnalysisRaised
  <2> USE <1>7 DEF AnalysisRaised, CallReturns
  <2>1. WorkTypes' /\ ReviewSkippedOnlyIfRoutine'
    BY DEF WorkTypes, ReviewSkippedOnlyIfRoutine
  <2>2. WorkerSurvives'
    BY DEF WorkerSurvives, ClientInv
  <2> QED
    BY <2>1, <2>2
<1>8. CASE Persist
  BY <1>8, PersistWork
<1>9. CASE SubmitForExport
  <2> USE <1>9 DEF SubmitForExport, clientVars
  <2>1. WorkTypes' /\ ReviewSkippedOnlyIfRoutine'
    BY ServiceAssumption DEF WorkTypes, ReviewSkippedOnlyIfRoutine
  <2>2. WorkerSurvives'
    BY DEF WorkerSurvives
  <2> QED
    BY <2>1, <2>2
<1> QED
  BY <1>1, <1>2, <1>3, <1>4, <1>5, <1>6, <1>7, <1>8, <1>9 DEF WorkerStep

LEMMA WorkNext ==
    ASSUME WorkInv, ClientInv, LifeInv, [Next]_vars
    PROVE  WorkInv'
<1> USE DEF clientVars, workVars, lifeVars
<1>1. CASE WorkerStep
  BY <1>1, WorkerWork
<1>2. CASE Detect
  <2> USE <1>2 DEF Detect
  <2>1. WorkTypes'
    BY ServiceAssumption DEF WorkInv, WorkTypes
  <2>2. ReviewSkippedOnlyIfRoutine' /\ WorkerSurvives'
    BY DEF WorkInv, ReviewSkippedOnlyIfRoutine, WorkerSurvives
  <2> QED
    BY <2>1, <2>2 DEF WorkInv
<1>3. CASE MainStep
  <2>1. CASE StartNext
    <3>1. thread'["analyzer"] = "over" => thread["analyzer"] = "over"
      BY <2>1 DEF StartNext, LifeInv, LifeTypes, Components
    <3> QED
      BY <2>1, <3>1, OtherStepsWork DEF StartNext
  <2>2. CASE ~StartNext
    BY <1>3, <2>2, OtherStepsWork
       DEF MainStep, Validate, Describe, Described, ServeEnds, StopNext, Joined, Stopped
  <2> QED
    BY <2>1, <2>2
<1>4. CASE RequestShutdown \/ Interrupt \/ HealthRequest \/ EditDocument \/ Tick
             \/ ModelStep(PartArrives)
  BY <1>4, OtherStepsWork
     DEF RequestShutdown, Interrupt, HealthRequest, EditDocument, Tick, ModelStep, PartArrives
<1>5. ASSUME NEW c \in Loops \cup {"health"},
             BeginPass(c) \/ EndPass(c) \/ ThreadEnds(c)
      PROVE  WorkInv'
  <2>1. thread'["analyzer"] = thread["analyzer"]
    BY <1>5 DEF BeginPass, EndPass, ThreadEnds, LifeInv, LifeTypes, Components, Loops
  <2> QED
    BY <1>5, <2>1, OtherStepsWork DEF BeginPass, EndPass, ThreadEnds
<1>6. CASE UNCHANGED vars
  BY <1>6, OtherStepsWork DEF vars
<1> QED
  BY <1>1, <1>2, <1>3, <1>4, <1>5, <1>6 DEF Next

-----------------------------------------------------------------------------
(* All of it together                                                         *)

IInv == LibraryInv /\ ClientInv /\ LifeInv /\ WorkInv

LEMMA InitIInv == ASSUME Init PROVE IInv
<1>1. LibraryInv
  BY LibraryInitially DEF Init
<1>2. ClientInv
  BY ClientAssumption DEF Init, ClientInit, ClientInv, ClientTypeOK
<1>3. LifeInv
  BY ServiceAssumption DEF Init, LifeInv, LifeTypes, OrderlyStop, Components
<1>4. WorkInv
  <2>1. WorkTypes
    BY ServiceAssumption DEF Init, ClientInit, WorkTypes
  <2>2. ReviewSkippedOnlyIfRoutine /\ WorkerSurvives
    BY DEF Init, ReviewSkippedOnlyIfRoutine, WorkerSurvives, Components
  <2> QED
    BY <2>1, <2>2 DEF WorkInv
<1> QED
  BY <1>1, <1>2, <1>3, <1>4 DEF IInv

LEMMA NextIInv == ASSUME IInv, [Next]_vars PROVE IInv'
BY LibraryNext, ClientNext, LifeNext, WorkNext DEF IInv

LEMMA Invariance == Spec => []IInv
<1>1. Init => IInv
  BY InitIInv
<1>2. IInv /\ [Next]_vars => IInv'
  BY NextIInv
<1> QED
  BY <1>1, <1>2, PTL DEF Spec

(* The state of the service is what the code takes it for: attempts within    *)
(* the limit, no request beyond its timeout, confidences between 0 and 1.     *)
THEOREM TypeCorrect == Spec => []TypeOK
<1>1. IInv => TypeOK
  <2> SUFFICES ASSUME IInv PROVE TypeOK
    OBVIOUS
  <2>1. LibraryTypeOK
    BY DEF IInv, LibraryInv, LibraryTypes, LibraryTypeOK, DocState
  <2> QED
    BY <2>1 DEF IInv, ClientInv, LifeInv, LifeTypes, WorkInv, WorkTypes, TypeOK
<1> QED
  BY <1>1, Invariance, PTL

(* Readers may fill and use the cache in turns as they like: no guidance is   *)
(* older than the reading, unless a file took on a former stat again.         *)
THEOREM GuidanceStaysCurrent == Spec => []GuidanceIsCurrent
<1>1. IInv => GuidanceIsCurrent
  BY DEF IInv, LibraryInv
<1> QED
  BY <1>1, Invariance, PTL

(* The worker ends only when asked to stop, or with one of the two answers    *)
(* whose exception nobody catches: the integer that no float holds, and what  *)
(* is nested too deeply.                                                      *)
THEOREM AnswersSurvived == Spec => []WorkerSurvives
<1>1. IInv => WorkerSurvives
  BY DEF IInv, WorkInv
<1> QED
  BY <1>1, Invariance, PTL

(* Review is skipped for no proposal whose answer, as the model gave it, was  *)
(* not routine and confident, NaN and true taken for confident.               *)
THEOREM SkippedReviewsRoutine == Spec => []ReviewSkippedOnlyIfRoutine
<1>1. IInv => ReviewSkippedOnlyIfRoutine
  BY DEF IInv, WorkInv
<1> QED
  BY <1>1, Invariance, PTL

-----------------------------------------------------------------------------
(* What goes into a prompt                                                    *)

(* A set of numbers up to n that is not empty has a greatest one.             *)
LEMMA Greatest ==
    ASSUME NEW n \in Nat, NEW S \in SUBSET (0 .. n), S # {}
    PROVE  \E m \in S : \A k \in S : k <= m
<1> DEFINE T == {n - k : k \in S}
<1>1. T \subseteq Nat /\ T # {}
  <2>1. PICK k \in S : TRUE
    OBVIOUS
  <2>2. n - k \in T
    OBVIOUS
  <2>3. ASSUME NEW j \in S PROVE n - j \in Nat
    <3>1. j \in 0 .. n
      OBVIOUS
    <3> QED
      BY <3>1
  <2> QED
    BY <2>2, <2>3
<1>2. PICK x \in T : \A y \in T : ~ (<<y, x>> \in OpToRel(<, Nat))
  <2> HIDE DEF T
  <2> QED
    BY <1>1, NatLessThanWellFounded, WFMin, Zenon
<1>3. \A y \in T : ~ (y < x)
  BY <1>1, <1>2 DEF OpToRel
<1>4. PICK m \in S : x = n - m
  OBVIOUS
<1>5. ASSUME NEW k \in S PROVE k <= m
  <2>1. ~ (n - k < n - m)
    BY <1>3, <1>4
  <2>2. k \in Int /\ m \in Int
    OBVIOUS
  <2> QED
    BY <2>1, <2>2
<1> QED
  BY <1>5

(* Nothing adds up to nothing: the fold's function exists on no documents.    *)
LEMMA NothingCosts == Total(<<>>) = 0
<1> DEFINE body(it) == [s \in SUBSET (DOMAIN <<>>) |->
                          IF s = {} THEN 0
                          ELSE LET x == CHOOSE x \in s : TRUE IN it[s \ {x}] + <<>>[x].chars]
           nothing == [s \in SUBSET (DOMAIN <<>>) |-> 0]
           iter == CHOOSE it : it = body(it)
<1>1. Total(<<>>) = iter[DOMAIN <<>>]
  BY DEF Total, FoldSeq, FoldFunction, FoldFunctionOnSet, MapThenFoldSet
<1>2. DOMAIN <<>> = {}
  OBVIOUS
<1>3. nothing = body(nothing)
  BY <1>2
<1> HIDE DEF body, nothing
<1>4. iter = body(iter)
  BY <1>3, Zenon
<1> HIDE DEF iter
<1>5. iter[{}] = 0
  BY <1>2, <1>4 DEF body
<1> QED
  BY <1>1, <1>2, <1>5

(* Block is a prefix within the budget.                                       *)
LEMMA BlockFits ==
    ASSUME NEW S, NEW docs \in Seq(S)
    PROVE  \E n \in 0 .. Len(docs) : /\ Block(docs) = SubSeq(docs, 1, n)
                                     /\ Total(Block(docs)) <= MaxTotalBytes
<1> DEFINE fits == {n \in 0 .. Len(docs) : Total(SubSeq(docs, 1, n)) <= MaxTotalBytes}
           best == CHOOSE n \in fits : \A m \in fits : m <= n
<1>1. Len(docs) \in Nat
  OBVIOUS
<1>2. SubSeq(docs, 1, 0) = <<>>
  OBVIOUS
<1>3. Total(SubSeq(docs, 1, 0)) <= MaxTotalBytes
  <2>1. MaxTotalBytes \in Nat
    BY LibraryAssumption
  <2>2. Total(SubSeq(docs, 1, 0)) = 0
    BY <1>2, NothingCosts, Zenon
  <2> QED
    BY <2>1, <2>2
<1>4. \E n \in fits : \A m \in fits : m <= n
  <2>1. 0 \in fits /\ fits \in SUBSET (0 .. Len(docs))
    BY <1>1, <1>3
  <2> HIDE DEF fits
  <2> QED
    BY <2>1, <1>1, Greatest, Zenon
<1>5. best \in fits
  BY <1>4
<1>6. Block(docs) = SubSeq(docs, 1, best)
  BY DEF Block
<1> QED
  BY <1>5, <1>6

Doc == [source: {"declared", "node"}, chars: Nat, bytes: Nat]

(* What a reader has gathered: the workload's documents, and after them those *)
(* of the node, none of which is there while the former are being read.       *)
DeclaredFirst ==
    /\ gathered \in [Readers -> Seq(Doc)]
    /\ \A r \in Readers :
           /\ readPc[r] = "declared" =>
                  \A n \in 1 .. Len(gathered[r]) : gathered[r][n].source = "declared"
           /\ \A m, n \in 1 .. Len(gathered[r]) :
                  m < n /\ gathered[r][n].source = "declared" =>
                      gathered[r][m].source = "declared"

LEMMA DeclaredFirstInitially == ASSUME LibraryInit PROVE DeclaredFirst
<1>1. <<>> \in Seq(Doc) /\ Len(<<>>) = 0
  OBVIOUS
<1> QED
  BY <1>1 DEF LibraryInit, DeclaredFirst

(* A reader that begins has nothing, and one that goes on keeps what it has.  *)
LEMMA ListStepsOrder ==
    ASSUME LibraryInv, DeclaredFirst, NEW r \in Readers,
           \/ \E paths \in {WorkloadPaths, <<>>} : StartReading(r, paths)
           \/ ListDirectory(r) \/ ListingFails(r) \/ FinishReading(r)
           \/ \E n \in todo[r] : Stat(r, n)
    PROVE  DeclaredFirst'
<1>1. /\ \A q \in Readers : gathered'[q] \in {gathered[q], <<>>}
      /\ gathered' \in [Readers -> Seq(Doc)]
  <2>1. gathered' = gathered \/ gathered' = [gathered EXCEPT ![r] = <<>>]
    BY DEF StartReading, ListDirectory, ListingFails, FinishReading, Stat
  <2>2. <<>> \in Seq(Doc)
    OBVIOUS
  <2> QED
    BY <2>1, <2>2 DEF DeclaredFirst
<1>2. \A q \in Readers : readPc'[q] = "declared" => readPc[q] = "declared" \/ gathered'[q] = <<>>
  BY DEF StartReading, ListDirectory, ListingFails, FinishReading, Stat, LibraryInv,
     LibraryTypes, DeclaredFirst
<1>3. ASSUME NEW q \in Readers
      PROVE  /\ readPc'[q] = "declared" =>
                    \A n \in 1 .. Len(gathered'[q]) : gathered'[q][n].source = "declared"
             /\ \A m, n \in 1 .. Len(gathered'[q]) :
                    m < n /\ gathered'[q][n].source = "declared" =>
                        gathered'[q][m].source = "declared"
  <2>1. CASE gathered'[q] = <<>>
    <3>1. 1 .. Len(gathered'[q]) = {}
      BY <2>1
    <3> QED
      BY <3>1
  <2>2. CASE gathered'[q] # <<>>
    <3>1. gathered'[q] = gathered[q] /\ (readPc'[q] = "declared" => readPc[q] = "declared")
      BY <2>2, <1>1, <1>2
    <3> QED
      BY <3>1 DEF DeclaredFirst
  <2> QED
    BY <2>1, <2>2
<1> QED
  BY <1>1, <1>3 DEF DeclaredFirst

LEMMA LoadOrder ==
    ASSUME LibraryInv, DeclaredFirst, NEW r \in Readers, NEW n \in todo[r], Load(r, n)
    PROVE  DeclaredFirst'
<1> DEFINE d == List(r)[n]
           entry == IF Unchanged(cache[d], seen[r]) THEN cache[d]
                    ELSE [mtime |-> seen[r].mtime, size |-> seen[r].size,
                          content |-> Text(d), version |-> disk[d].version]
           doc == [source |-> readPc[r],
                   chars |-> HeadingBytes + entry.content.chars,
                   bytes |-> HeadingBytes + entry.content.bytes]
<1>1. /\ gathered' = IF entry.content = None THEN gathered
                     ELSE [gathered EXCEPT ![r] = Append(@, doc)]
      /\ readPc' = readPc /\ readPc[r] \in {"declared", "node"}
      /\ cache' = [cache EXCEPT ![d] = entry]
  BY DEF Load
<1>2. d \in Documents
  BY Lists DEF LibraryInv, LibraryTypes
<1>3. entry.content \in Contents
  <2>1. LibraryTypes' /\ entry = cache'[d]
    BY <1>1, <1>2, LoadLibrary DEF LibraryInv, LibraryTypes
  <2>2. Unchanged(cache[d], seen[r]) => cache[d] # None
    BY DEF Unchanged
  <2>3. CASE Unchanged(cache[d], seen[r])
    BY <1>2, <2>2, <2>3 DEF LibraryInv, LibraryTypes, Entries
  <2>4. CASE ~Unchanged(cache[d], seen[r])
    <3>1. disk[d] \in DocState
      BY <1>2 DEF LibraryInv, LibraryTypes
    <3> QED
      BY <2>4, <3>1, <1>2, Texts
  <2> QED
    BY <2>3, <2>4
<1>4. entry.content # None => doc \in Doc
  <2>1. HeadingBytes \in Nat
    BY LibraryAssumption
  <2> HIDE DEF entry
  <2> QED
    BY <1>1, <1>3, <2>1 DEF Doc, Contents
<1> HIDE DEF entry, doc
<1>5. CASE entry.content = None
  BY <1>1, <1>5 DEF DeclaredFirst
<1>6. CASE entry.content # None
  <2> DEFINE old == gathered[r]
             new == gathered'[r]
  <2>1. old \in Seq(Doc) /\ new = Append(old, doc) /\ new \in Seq(Doc)
    BY <1>1, <1>4, <1>6 DEF DeclaredFirst
  <2>2. /\ Len(old) \in Nat /\ Len(new) = Len(old) + 1
        /\ \A k \in 1 .. Len(old) : new[k] = old[k]
        /\ new[Len(old) + 1] = doc
    BY <2>1
  <2>3. doc.source = readPc[r]
    BY DEF doc
  <2> HIDE DEF new
  <2>4. readPc[r] = "declared" => \A k \in 1 .. Len(new) : new[k].source = "declared"
    BY <2>2, <2>3 DEF DeclaredFirst
  <2>5. \A m, k \in 1 .. Len(new) :
            m < k /\ new[k].source = "declared" => new[m].source = "declared"
    <3> SUFFICES ASSUME NEW m \in 1 .. Len(new), NEW k \in 1 .. Len(new),
                        m < k, new[k].source = "declared"
                 PROVE  new[m].source = "declared"
      OBVIOUS
    <3>1. CASE k = Len(old) + 1
      BY <2>2, <2>3, <2>4, <3>1
    <3>2. CASE k # Len(old) + 1
      <4>1. m \in 1 .. Len(old) /\ k \in 1 .. Len(old)
        BY <2>2, <3>2
      <4> QED
        BY <2>2, <4>1 DEF DeclaredFirst
    <3> QED
      BY <3>1, <3>2
  <2>6. \A q \in Readers \ {r} : gathered'[q] = gathered[q]
    BY <1>1, <1>6 DEF DeclaredFirst
  <2>7. gathered' \in [Readers -> Seq(Doc)]
    BY <1>1, <2>1, <1>6 DEF DeclaredFirst, new
  <2> QED
    BY <1>1, <2>4, <2>5, <2>6, <2>7 DEF DeclaredFirst, new
<1> QED
  BY <1>5, <1>6

LEMMA NextOrder ==
    ASSUME LibraryInv, DeclaredFirst, [Next]_vars
    PROVE  DeclaredFirst'
<1>1. CASE UNCHANGED libraryVars
  BY <1>1 DEF libraryVars, DeclaredFirst
<1>2. ASSUME NEW r \in Readers,
             \/ \E paths \in {WorkloadPaths, <<>>} : StartReading(r, paths)
             \/ ListingFails(r) \/ FinishReading(r) \/ ReadingStep(r)
      PROVE  DeclaredFirst'
  BY <1>2, ListStepsOrder, LoadOrder DEF ReadingStep
<1>3. {worker, health, main} = Readers
  BY ServiceAssumption
<1>4. CASE MainStep
  BY <1>1, <1>2, <1>3, <1>4
     DEF MainStep, Validate, StartNext, Describe, Described, ServeEnds, StopNext, Joined, Stopped
<1>5. CASE RequestShutdown \/ Interrupt \/ Detect \/ Tick \/ ModelStep(PartArrives)
  BY <1>1, <1>5 DEF RequestShutdown, Interrupt, Detect, Tick, ModelStep
<1>6. ASSUME NEW c \in Loops \cup {"health"},
             BeginPass(c) \/ EndPass(c) \/ ThreadEnds(c)
      PROVE  DeclaredFirst'
  BY <1>1, <1>6 DEF BeginPass, EndPass, ThreadEnds
<1>7. CASE HealthRequest
  BY <1>2, <1>3, <1>7 DEF HealthRequest
<1>8. CASE EditDocument
  BY <1>8 DEF EditDocument, Edits, Edit, DeclaredFirst
<1>9. CASE WorkerStep
  <2>1. CASE TakeItem
    BY <2>1, <1>2, <1>3 DEF TakeItem
  <2>2. CASE ReadGuidance \/ AskModel
    BY <2>2, <1>2, <1>3 DEF ReadGuidance, AskModel
  <2>3. CASE \/ WorkerEnds \/ ModelStep(Chat) \/ ModelStep(Replied)
             \/ AnalysisFailed \/ AnalysisRaised \/ Persist \/ SubmitForExport
    BY <2>3, <1>1
       DEF WorkerEnds, ModelStep, AnalysisFailed, AnalysisRaised, Persist, SubmitForExport
  <2> QED
    BY <1>9, <2>1, <2>2, <2>3 DEF WorkerStep
<1> QED
  BY <1>1, <1>4, <1>5, <1>6, <1>7, <1>8, <1>9 DEF Next, vars

(* The prompt keeps to the budget in characters, however the documents and    *)
(* the limits are, and has nothing of the node's in place of something of the *)
(* workload's. (Its bytes may be more: GuidanceWithinBytes.)                  *)
THEOREM GuidanceFits == Spec => []GuidanceWithinBudget
<1>1. Init => DeclaredFirst
  BY DeclaredFirstInitially DEF Init
<1>2. IInv /\ DeclaredFirst /\ [Next]_vars => DeclaredFirst'
  BY NextOrder DEF IInv
<1>3. DeclaredFirst => GuidanceWithinBudget
  <2> SUFFICES ASSUME DeclaredFirst PROVE GuidanceWithinBudget
    OBVIOUS
  <2> DEFINE all == gathered[worker]
             docs == Block(all)
  <2>1. worker \in Readers
    BY ServiceAssumption
  <2>2. all \in Seq(Doc) /\ Len(all) \in Nat
    BY <2>1 DEF DeclaredFirst
  <2>3. PICK k \in 0 .. Len(all) : docs = SubSeq(all, 1, k) /\ Total(docs) <= MaxTotalBytes
    BY <2>2, BlockFits
  <2>4. Len(docs) = k /\ \A n \in 1 .. k : docs[n] = all[n]
    BY <2>2, <2>3
  <2>5. \A n, m \in 1 .. Len(all) :
            all[n].source = "node" /\ all[m].source = "declared" => m <= n
    BY <2>1, <2>2 DEF DeclaredFirst
  <2> HIDE DEF docs
  <2>6. ASSUME NEW n \in 1 .. Len(docs), NEW m \in 1 .. Len(all),
               docs[n].source = "node", all[m].source = "declared"
        PROVE  m <= Len(docs) /\ docs[m] = all[m]
    <3>1. n \in 1 .. Len(all) /\ n <= k /\ all[n].source = "node"
      BY <2>2, <2>4, <2>6
    <3>2. m <= n
      BY <2>5, <2>6, <3>1
    <3> QED
      BY <2>2, <2>4, <3>1, <3>2
  <2> QED
    BY <2>3, <2>6 DEF GuidanceWithinBudget, docs
<1> QED
  BY <1>1, <1>2, <1>3, Invariance, PTL DEF Spec

=============================================================================
