--------------------------- MODULE ContextLibrary ---------------------------
(* context.py: the guidance that goes into a prompt. Documents are read from  *)
(* disk when an analysis needs them, and kept with the modification time and  *)
(* the size that stat reported just before. The analysis worker and every     *)
(* request to the health endpoint read at the same time; only the look into   *)
(* the cache and the reading of a file that missed it hold the lock. A        *)
(* document is as long as it has characters, which may be wider than a byte;  *)
(* stat knows of the bytes only. (White space around a text, which is         *)
(* stripped, is left out.)                                                    *)
EXTENDS Integers, Sequences, FiniteSets, SequencesExt

CONSTANTS
    Documents,      \* paths
    WorkloadPaths,  \* context_paths of the workload, in its order
    NodeFiles,      \* what the context directory may hold, in the order of names
    Readers,
    MaxTotalBytes,  \* max_total_bytes, which counts characters
    MaxFileBytes,   \* max_file_bytes, which counts characters
    NoticeBytes,    \* the length of TRUNCATION_NOTICE
    HeadingBytes,   \* the length of "### name" and its line end
    Sizes,          \* bound: sizes of documents in bytes; 0 stands for a blank one
    Widths,         \* bound: bytes to a character of a document
    MaxEdits,       \* bound: times a document is changed
    None            \* no cache entry, no content

ASSUME LibraryAssumption ==
    /\ {MaxTotalBytes, MaxFileBytes, NoticeBytes, HeadingBytes, MaxEdits} \subseteq Nat
    /\ MaxFileBytes <= MaxTotalBytes    \* config.py rejects anything else
    /\ Sizes \subseteq Nat /\ Widths \subseteq Nat \ {0}
    /\ WorkloadPaths \in Seq(Documents) /\ NodeFiles \in Seq(Documents)

VARIABLES
    disk,           \* path -> what is there
    cache,          \* _cache
    readPc, todo, seen,     \* reader -> where it stands, what is left of its list
                            \* of paths (as places in it), the last stat
    gathered,       \* reader -> documents read so far
    edits,          \* history: changes so far, which number the versions
    stats,          \* history: path -> every stat it has had
    ambiguous,      \* history: paths that changed into a stat they had before
    stale           \* history: paths of which an older version than stat's was used

libraryVars == <<disk, cache, readPc, todo, seen, gathered, edits, stats, ambiguous, stale>>

StatOf(d) == [mtime |-> disk[d].mtime, size |-> disk[d].size]

LibraryInit ==
    /\ disk \in [Documents -> [there: BOOLEAN, readable: {TRUE}, size: Sizes \ {0},
                               width: Widths, mtime: {0}, version: {0}]]
    /\ cache = [d \in Documents |-> None]
    /\ readPc = [r \in Readers |-> "idle"] /\ todo = [r \in Readers |-> {}]
    /\ seen = [r \in Readers |-> None] /\ gathered = [r \in Readers |-> <<>>]
    /\ edits = 0
    /\ stats = [d \in Documents |-> IF disk[d].there THEN {StatOf(d)} ELSE {}]
    /\ ambiguous = {} /\ stale = {}

List(r) == IF readPc[r] = "declared" THEN WorkloadPaths ELSE NodeFiles

(* workload_documents, then node_documents; describe() wants the latter only. *)
StartReading(r, paths) ==
    /\ readPc[r] = "idle"
    /\ readPc' = [readPc EXCEPT ![r] = "declared"]
    /\ todo' = [todo EXCEPT ![r] = DOMAIN paths]
    /\ gathered' = [gathered EXCEPT ![r] = <<>>]
    /\ UNCHANGED <<disk, cache, seen, edits, stats, ambiguous, stale>>

ListDirectory(r) ==
    /\ readPc[r] = "declared" /\ todo[r] = {}
    /\ readPc' = [readPc EXCEPT ![r] = "node"]
    /\ todo' = [todo EXCEPT ![r] = {n \in DOMAIN NodeFiles : disk[NodeFiles[n]].there}]
    /\ UNCHANGED <<disk, cache, seen, gathered, edits, stats, ambiguous, stale>>

(* (the directory can be there and not be listed: the caller gets an           *)
(* exception, and nothing of what was read so far)                            *)
ListingFails(r) ==
    /\ readPc[r] = "declared" /\ todo[r] = {}
    /\ readPc' = [readPc EXCEPT ![r] = "idle"]
    /\ gathered' = [gathered EXCEPT ![r] = <<>>]
    /\ UNCHANGED <<disk, cache, todo, seen, edits, stats, ambiguous, stale>>

(* _load_file: first the stat, outside the lock ...                           *)
Stat(r, n) ==
    /\ readPc[r] \in {"declared", "node"} /\ seen[r] = None
    /\ \A m \in todo[r] : n <= m
    /\ LET d == List(r)[n]
       IN  IF disk[d].there
             THEN seen' = [seen EXCEPT ![r] = disk[d]] /\ UNCHANGED todo
             ELSE todo' = [todo EXCEPT ![r] = @ \ {n}] /\ UNCHANGED seen
    /\ UNCHANGED <<disk, cache, readPc, gathered, edits, stats, ambiguous, stale>>

(* Mutant of Unchanged: the size alone is compared.                           *)
UnchangedInSize(entry, stat) == entry # None /\ entry.size = stat.size

Unchanged(entry, stat) ==
    entry # None /\ entry.mtime = stat.mtime /\ entry.size = stat.size

(* _read_text: a file that is gone by now, cannot be opened or is blank has   *)
(* no content, and that is cached as well. What is read, cut off and compared *)
(* with the limits is characters.                                             *)
Text(d) ==
    LET chars == disk[d].size \div disk[d].width
        cut == chars > MaxFileBytes
        kept == IF cut THEN MaxFileBytes ELSE chars
        notice == IF cut THEN NoticeBytes ELSE 0
    IN  IF disk[d].there /\ disk[d].readable /\ chars > 0
          THEN [chars |-> kept + notice, bytes |-> kept * disk[d].width + notice]
          ELSE None

(* ... then the cache or the file, under the lock. What was read is kept with *)
(* the earlier stat.                                                          *)
Load(r, n) ==
    LET d == List(r)[n]
        entry == IF Unchanged(cache[d], seen[r]) THEN cache[d]
                 ELSE [mtime |-> seen[r].mtime, size |-> seen[r].size,
                       content |-> Text(d), version |-> disk[d].version]
    IN  /\ readPc[r] \in {"declared", "node"} /\ seen[r] # None
        /\ \A m \in todo[r] : n <= m
        /\ cache' = [cache EXCEPT ![d] = entry]
        /\ gathered' = IF entry.content = None THEN gathered
                       ELSE [gathered EXCEPT ![r] = Append(@,
                               [source |-> readPc[r],
                                chars |-> HeadingBytes + entry.content.chars,
                                bytes |-> HeadingBytes + entry.content.bytes])]
        /\ stale' = IF entry.version < seen[r].version THEN stale \cup {d} ELSE stale
        /\ seen' = [seen EXCEPT ![r] = None]
        /\ todo' = [todo EXCEPT ![r] = @ \ {n}]
        /\ UNCHANGED <<disk, readPc, edits, stats, ambiguous>>

FinishReading(r) ==
    /\ readPc[r] = "node" /\ todo[r] = {}
    /\ readPc' = [readPc EXCEPT ![r] = "idle"]
    /\ UNCHANGED <<disk, cache, todo, seen, gathered, edits, stats, ambiguous, stale>>

ReadingStep(r) == ListDirectory(r) \/ \E n \in todo[r] : Stat(r, n) \/ Load(r, n)

(* build_context_block: documents are taken in order up to the first that     *)
(* exceeds the budget. The line ends between them are not counted.            *)
Total(docs) == FoldSeq(LAMBDA doc, sum : sum + doc.chars, 0, docs)
TotalBytes(docs) == FoldSeq(LAMBDA doc, sum : sum + doc.bytes, 0, docs)

(* Mutant of Block: what is too long is left out, and the rest still tried.   *)
BlockSkipping(docs) ==
    FoldLeft(LAMBDA used, doc : IF Total(used) + doc.chars > MaxTotalBytes THEN used
                                ELSE Append(used, doc), <<>>, docs)

Block(docs) ==
    LET fits == {n \in 0 .. Len(docs) : Total(SubSeq(docs, 1, n)) <= MaxTotalBytes}
    IN  SubSeq(docs, 1, CHOOSE n \in fits : \A m \in fits : m <= n)

-----------------------------------------------------------------------------
(* The operator and the developer change, replace, protect and delete files.  *)
(* A replaced file may bring the modification time of a former one with it.   *)
Edit(d, there, readable, size, width, mtime) ==
    LET new == [there |-> there, readable |-> readable, size |-> size, width |-> width,
                mtime |-> mtime, version |-> edits + 1]
    IN  /\ edits < MaxEdits
        /\ mtime \in {edits + 1} \cup {s.mtime : s \in stats[d]}
        /\ [new EXCEPT !.version = disk[d].version] # disk[d]
        /\ disk' = [disk EXCEPT ![d] = new]
        /\ edits' = edits + 1
        /\ stats' = IF there THEN [stats EXCEPT ![d] = @ \cup {[mtime |-> mtime, size |-> size]}]
                    ELSE stats
        /\ ambiguous' = IF there /\ [mtime |-> mtime, size |-> size] \in stats[d]
                          THEN ambiguous \cup {d} ELSE ambiguous
        /\ UNCHANGED <<cache, readPc, todo, seen, gathered, stale>>

Edits == \E d \in Documents, there, readable \in BOOLEAN, size \in Sizes, width \in Widths :
             \E mtime \in 0 .. MaxEdits : Edit(d, there, readable, size, width, mtime)

LibraryTypeOK ==
    /\ disk \in [Documents -> [there: BOOLEAN, readable: BOOLEAN, size: Nat,
                               width: Nat \ {0}, mtime: Nat, version: Nat]]
    /\ \A r \in Readers : /\ readPc[r] \in {"idle", "declared", "node"}
                          /\ todo[r] \subseteq DOMAIN List(r)
    /\ stale \cup ambiguous \subseteq Documents /\ edits \in 0 .. MaxEdits
=============================================================================
