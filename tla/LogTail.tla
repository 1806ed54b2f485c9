------------------------------- MODULE LogTail -------------------------------
(* log_monitor.py: one thread reads what was appended to each watched log     *)
(* file, cuts it into lines, and hands every line that matches on to the      *)
(* analyzer with the lines around it. Meanwhile the workload writes, somebody *)
(* rotates its files, and the discovery thread watches and unwatches them.    *)
(*                                                                            *)
(* A file is a sequence of pieces: a whole line, or the head or the tail of   *)
(* one that is written in two. A piece and a line both count as one byte.     *)
(* What stands where such a line is in two matters to a reader that decodes   *)
(* what it reads: any text, the bytes of one character, the two characters of *)
(* a line end (CR LF), or one of the other characters that splitlines() takes *)
(* for a line end (VT, FF, FS, GS, RS, NEL, U+2028, U+2029).                  *)
EXTENDS Integers, Sequences, FiniteSets, SequencesExt

CONSTANTS
    Files,
    NoFile,         \* the reader is between two files
    Cuts,           \* what may stand where a line is in two
    ContextLines,   \* CONTEXT_LINES
    MaxBuffer,      \* max_buffer_bytes, in lines
    MaxLines,       \* bound: lines written in all
    MaxRotations,   \* bound: renames and truncations
    MaxUnwatches    \* bound: times a workload is let go of

ASSUME TailAssumption ==
    /\ NoFile \notin Files
    /\ {ContextLines, MaxBuffer, MaxLines, MaxRotations, MaxUnwatches} \subseteq Nat

ASSUME CutsAssumption == Cuts \subseteq {"text", "character", "line end", "separator"}

VARIABLES
    file,           \* what the path names now: its inode and its content
    table,          \* LogMonitor._files: the files being watched
    tail,           \* the _TailedFile of each
    todo,           \* files left in this poll
    current, pc,    \* the file being processed, and how far
    chunk,          \* lines read of it and not processed yet
    emittedNow,     \* whether this pass over the file has had lines at all
    bufferBytes,    \* LogMonitor._buffer_bytes
    lines, halfway, \* history: lines begun so far; the file whose last is half written
    rotations, unwatches,
    log,            \* history: the lines read, per file, in order
    emitted,        \* history: the events passed on, per file, in order
    pressed,        \* history: indices in log of events dropped for the buffer
    gone,           \* history: lines that left the path unread
    torn,           \* history: lines decoded in two, each with half a character
    shrunk,         \* history: files truncated since the reader last noticed
    muddled         \* history: files of which the reader mistook the content

readerVars == <<todo, current, pc, chunk, emittedNow>>
worldVars == <<file, lines, halfway, rotations>>
lossVars == <<gone, torn, shrunk, muddled>>
vars == <<worldVars, readerVars, table, tail, bufferBytes, unwatches, log, emitted,
          pressed, lossVars>>

(* cut: what stands at the end of a head (of another piece nothing special)   *)
Piece == [line: 1 .. MaxLines, part: {"whole", "head", "tail"}, error: BOOLEAN,
          cut: Cuts \cup {"text"}]

FreshTail(f) == [inode |-> file[f].inode, offset |-> Len(file[f].content),
                 partial |-> <<>>, before |-> <<>>, pending |-> <<>>]

Init ==
    /\ file = [f \in Files |-> [inode |-> 0, content |-> <<>>]]
    /\ table = Files
    /\ tail = [f \in Files |-> FreshTail(f)]
    /\ todo = {} /\ current = NoFile /\ pc = "poll" /\ chunk = <<>> /\ emittedNow = FALSE
    /\ bufferBytes = 0
    /\ lines = 0 /\ halfway = NoFile /\ rotations = 0 /\ unwatches = 0
    /\ log = [f \in Files |-> <<>>] /\ emitted = [f \in Files |-> <<>>]
    /\ pressed = [f \in Files |-> {}]
    /\ gone = {} /\ torn = {} /\ shrunk = {} /\ muddled = {}

-----------------------------------------------------------------------------
(* The reader: poll_once() and _process_file()                                *)

StartPoll ==
    /\ pc = "poll"
    /\ todo' = table
    /\ pc' = "next"
    /\ UNCHANGED <<worldVars, current, chunk, emittedNow, table, tail, bufferBytes,
                   unwatches, log, emitted, pressed, lossVars>>

NextFile(f) ==
    /\ pc = "next" /\ f \in todo
    /\ todo' = todo \ {f}
    /\ current' = f
    /\ pc' = "look"
    /\ UNCHANGED <<worldVars, chunk, emittedNow, table, tail, bufferBytes, unwatches,
                   log, emitted, pressed, lossVars>>

EndPoll ==
    /\ pc = "next" /\ todo = {}
    /\ pc' = "poll"
    /\ UNCHANGED <<worldVars, todo, current, chunk, emittedNow, table, tail, bufferBytes,
                   unwatches, log, emitted, pressed, lossVars>>

(* Mutant of Look: what was read of the old file is skipped in the new one.   *)
LookKeepingOffset ==
    LET f == current
        rotated == file[f].inode # tail[f].inode \/ Len(file[f].content) < tail[f].offset
    IN  /\ pc = "look"
        /\ tail' = IF rotated THEN [tail EXCEPT ![f].inode = file[f].inode,
                                                ![f].partial = <<>>]
                              ELSE tail
        /\ shrunk' = IF rotated THEN shrunk \ {f} ELSE shrunk
        /\ pc' = "read"
        /\ UNCHANGED <<worldVars, todo, current, chunk, emittedNow, table, bufferBytes,
                       unwatches, log, emitted, pressed, gone, torn, muddled>>

(* _detect_rotation: another inode, or fewer bytes than were read already.    *)
Look ==
    LET f == current
        rotated == file[f].inode # tail[f].inode \/ Len(file[f].content) < tail[f].offset
    IN  /\ pc = "look"
        /\ tail' = IF rotated THEN [tail EXCEPT ![f].inode = file[f].inode,
                                                ![f].offset = 0,
                                                ![f].partial = <<>>]
                              ELSE tail
        /\ shrunk' = IF rotated THEN shrunk \ {f} ELSE shrunk
        /\ pc' = "read"
        /\ UNCHANGED <<worldVars, todo, current, chunk, emittedNow, table, bufferBytes,
                       unwatches, log, emitted, pressed, gone, torn, muddled>>

(* A set of places in increasing order, and what a sequence has there: where  *)
(* the code loops over the places. (SetToSortSeq and SelectSeq compute the    *)
(* same, by operators the proof system knows nothing of.)                     *)
Ascending(S) == CHOOSE s \in [1 .. Cardinality(S) -> S] :
                    \A i, j \in 1 .. Cardinality(S) : i < j => s[i] < s[j]
Picked(s, S) == [n \in 1 .. Cardinality(S) |-> s[Ascending(S)[n]]]

(* Pieces that end a line: read to the very end of a CR the reader has read a *)
(* line end (universal newlines), and the LF is another. splitlines() breaks  *)
(* at a separator as well, once the line that holds it has ended.             *)
Ends(s) == {i \in 1 .. Len(s) : s[i].part = "head" => s[i].cut = "line end" /\ i = Len(s)}
Breaks(s) == Ends(s) \cup {i \in 1 .. Len(s) : /\ s[i].cut = "separator"
                                              /\ \E j \in Ends(s) : i < j}

CutLines(s) ==
    LET breaks == Ascending(Breaks(s))
    IN  [n \in 1 .. Len(breaks) |->
            SubSeq(s, IF n = 1 THEN 1 ELSE breaks[n - 1] + 1, breaks[n])]

(* What follows the last line end is the partial line.                        *)
(* Mutant of LeftOver: a partial line is forgotten.                           *)
LeftOverForgotten(s) == <<>>

LeftOver(s) == SubSeq(s, IF Ends(s) = {} THEN 1
                         ELSE 1 + CHOOSE i \in Ends(s) : \A j \in Ends(s) : j <= i, Len(s))

LinesIn(s) == {s[i].line : i \in 1 .. Len(s)}
ReadLines(f) == UNION {LinesIn(log[f][i]) : i \in 1 .. Len(log[f])}

(* read_new_lines: the path is opened afresh, which may be another file than  *)
(* the one just looked at; seeking past its end reads nothing. What is read   *)
(* is decoded by itself, with no memory of the read before.                   *)
ReadChunk ==
    LET f == current
        content == file[f].content
        new == SubSeq(content, tail[f].offset + 1, Len(content))
        all == tail[f].partial \o new
    IN  /\ pc = "read"
        /\ IF new = <<>>
             THEN chunk' = <<>> /\ UNCHANGED <<tail, muddled>>
             ELSE /\ chunk' = CutLines(all)
                  /\ tail' = [tail EXCEPT ![f].offset = Len(content),
                                          ![f].partial = LeftOver(all)]
                  /\ muddled' = IF f \in shrunk \/ file[f].inode # tail[f].inode
                                  THEN muddled \cup {f} ELSE muddled
        /\ torn' = torn \cup {new[i].line : i \in {j \in 1 .. Len(new) :
                                 j = Len(new) /\ new[j].cut = "character"}}
        /\ emittedNow' = (chunk' # <<>>)
        /\ gone' = IF f \in shrunk /\ tail[f].offset <= Len(content)
                     THEN gone \cup (LinesIn(SubSeq(content, 1, tail[f].offset)) \ ReadLines(f))
                     ELSE gone
        /\ pc' = "lines"
        /\ UNCHANGED <<worldVars, todo, current, table, bufferBytes, unwatches, log,
                       emitted, pressed, shrunk>>

(* What an event holds is given by indices in log.                            *)
Size(e) == Len(e.before) + 1 + Len(e.after)
ReleasedBy(events, bytes) == FoldSeq(LAMBDA e, b : IF b > Size(e) THEN b - Size(e) ELSE 0,
                                     bytes, events)

(* _account_buffer: over the limit, every watched file forgets its context    *)
(* and all but the last of its pending errors.                                *)
Overflows == bufferBytes + 1 > MaxBuffer
Newest(s) == IF s = <<>> THEN <<>> ELSE <<Last(s)>>

(* Mutant of Accounted: the context loses its newest line only.               *)
AccountedTrimmed == [f \in Files |->
    IF Overflows /\ f \in table
      THEN [tail[f] EXCEPT !.before = IF @ = <<>> THEN @ ELSE Front(@), !.pending = Newest(@)]
      ELSE tail[f]]

Accounted == [f \in Files |->
    IF Overflows /\ f \in table
      THEN [tail[f] EXCEPT !.before = <<>>, !.pending = Newest(@)] ELSE tail[f]]

PressedOut(f) == {tail[f].pending[i].at : i \in 1 .. Len(tail[f].pending)}
                     \ {Accounted[f].pending[i].at : i \in 1 .. Len(Accounted[f].pending)}

(* context_before holds the last lines there were.                            *)
Window(before, at) == LET all == Append(before, at)
                      IN  IF Len(all) > ContextLines THEN Tail(all) ELSE all

(* One line: it is accounted, completes the context of earlier errors, which  *)
(* are passed on when they have enough, and may be an error itself.           *)
ProcessLine ==
    LET f == current
        line == Head(chunk)
        at == Len(log[f]) + 1
        acc == Accounted[f]
        followed == [i \in 1 .. Len(acc.pending) |->
                       IF Len(acc.pending[i].after) < ContextLines
                         THEN [acc.pending[i] EXCEPT !.after = Append(@, at)]
                         ELSE acc.pending[i]]
        complete == {i \in 1 .. Len(followed) : Len(followed[i].after) >= ContextLines}
        ready == Picked(followed, complete)
        waiting == Picked(followed, (1 .. Len(followed)) \ complete)
        new == IF \E i \in 1 .. Len(line) : line[i].error
                 THEN <<[at |-> at, before |-> acc.before, after |-> <<>>]>> ELSE <<>>
    IN  /\ pc = "lines" /\ chunk # <<>>
        /\ chunk' = Tail(chunk)
        /\ log' = [log EXCEPT ![f] = Append(@, line)]
        /\ tail' = [Accounted EXCEPT
                      ![f].pending = waiting \o new,
                      ![f].before = Window(acc.before, at)]
        /\ emitted' = [emitted EXCEPT ![f] = @ \o ready]
        /\ bufferBytes' = ReleasedBy(ready, IF Overflows THEN 0 ELSE bufferBytes + 1)
        /\ pressed' = [g \in Files |-> pressed[g] \cup PressedOut(g)]
        /\ UNCHANGED <<worldVars, todo, current, pc, emittedNow, table, unwatches, lossVars>>

(* No more lines in this chunk ...                                            *)
EndOfChunk ==
    /\ pc = "lines" /\ chunk = <<>> /\ emittedNow
    /\ current' = NoFile /\ pc' = "next"
    /\ emittedNow' = FALSE
    /\ UNCHANGED <<worldVars, todo, chunk, table, tail, bufferBytes, unwatches, log,
                   emitted, pressed, lossVars>>

(* Mutants of FlushQuiet: what is passed on stays pending, or what is still   *)
(* incomplete waits for lines that may never come.                            *)
FlushQuietAgain ==
    LET f == current
    IN  /\ pc = "lines" /\ chunk = <<>> /\ ~emittedNow
        /\ emitted' = [emitted EXCEPT ![f] = @ \o tail[f].pending]
        /\ bufferBytes' = ReleasedBy(tail[f].pending, bufferBytes)
        /\ current' = NoFile /\ pc' = "next"
        /\ UNCHANGED <<worldVars, todo, chunk, emittedNow, table, tail, unwatches, log,
                       pressed, lossVars>>

FlushQuietUnforced ==
    /\ pc = "lines" /\ chunk = <<>> /\ ~emittedNow
    /\ current' = NoFile /\ pc' = "next"
    /\ UNCHANGED <<worldVars, todo, chunk, emittedNow, table, tail, bufferBytes, unwatches,
                   log, emitted, pressed, lossVars>>

(* ... or none to begin with: the file is quiet, whatever waits is passed on. *)
FlushQuiet ==
    LET f == current
    IN  /\ pc = "lines" /\ chunk = <<>> /\ ~emittedNow
        /\ emitted' = [emitted EXCEPT ![f] = @ \o tail[f].pending]
        /\ bufferBytes' = ReleasedBy(tail[f].pending, bufferBytes)
        /\ tail' = [tail EXCEPT ![f].pending = <<>>]
        /\ current' = NoFile /\ pc' = "next"
        /\ UNCHANGED <<worldVars, todo, chunk, emittedNow, table, unwatches, log, pressed,
                       lossVars>>

ReaderStep == \/ StartPoll \/ EndPoll
              \/ \E f \in todo : NextFile(f)
              \/ Look \/ ReadChunk \/ ProcessLine \/ EndOfChunk \/ FlushQuiet

-----------------------------------------------------------------------------
(* watch_workload and unwatch_workload, from the discovery thread. The poll   *)
(* in progress keeps the object it has; a minute later, when the file can be  *)
(* watched again, that poll is over.                                          *)
Unwatch(f) ==
    /\ f \in table /\ unwatches < MaxUnwatches
    /\ table' = table \ {f}
    /\ unwatches' = unwatches + 1
    /\ UNCHANGED <<worldVars, readerVars, tail, bufferBytes, log, emitted, pressed, lossVars>>

Watch(f) ==
    /\ f \notin table /\ f \notin todo /\ f # current
    /\ table' = table \cup {f}
    /\ tail' = [tail EXCEPT ![f] = FreshTail(f)]
    /\ shrunk' = shrunk \ {f}
    /\ UNCHANGED <<worldVars, readerVars, bufferBytes, unwatches, log, emitted, pressed,
                   gone, torn, muddled>>

-----------------------------------------------------------------------------
(* The workload and its log rotation                                          *)

AppendTo(f, piece) == file' = [file EXCEPT ![f].content = Append(@, piece)]

WriteLine(f, error) ==
    /\ lines < MaxLines /\ halfway # f
    /\ AppendTo(f, [line |-> lines + 1, part |-> "whole", error |-> error, cut |-> "text"])
    /\ lines' = lines + 1
    /\ UNCHANGED <<halfway, rotations, readerVars, table, tail, bufferBytes, unwatches, log,
                   emitted, pressed, lossVars>>

BeginLine(f, error, cut) ==
    /\ lines < MaxLines /\ halfway = NoFile
    /\ AppendTo(f, [line |-> lines + 1, part |-> "head", error |-> error, cut |-> cut])
    /\ lines' = lines + 1
    /\ halfway' = f
    /\ UNCHANGED <<rotations, readerVars, table, tail, bufferBytes, unwatches, log, emitted,
                   pressed, lossVars>>

FinishLine(f, error) ==
    /\ halfway = f
    /\ AppendTo(f, [line |-> Last(file[f].content).line, part |-> "tail", error |-> error,
                    cut |-> "text"])
    /\ halfway' = NoFile
    /\ UNCHANGED <<lines, rotations, readerVars, table, tail, bufferBytes, unwatches, log,
                   emitted, pressed, lossVars>>

(* Between two lines the file is renamed away or cut to nothing.              *)
Rotate(f, renamed) ==
    /\ rotations < MaxRotations /\ halfway # f
    /\ rotations' = rotations + 1
    /\ file' = [file EXCEPT ![f] = [inode |-> IF renamed THEN @.inode + 1 ELSE @.inode,
                                    content |-> <<>>]]
    /\ gone' = gone \cup (LinesIn(file[f].content) \ ReadLines(f))
    /\ shrunk' = IF renamed THEN shrunk ELSE shrunk \cup {f}
    /\ UNCHANGED <<lines, halfway, readerVars, table, tail, bufferBytes, unwatches, log,
                   emitted, pressed, torn, muddled>>

Next ==
    \/ ReaderStep
    \/ \E f \in Files :
          \/ Unwatch(f) \/ Watch(f)
          \/ \E error \in BOOLEAN :
                \/ WriteLine(f, error) \/ FinishLine(f, error)
                \/ \E cut \in Cuts : BeginLine(f, error, cut)
          \/ \E renamed \in BOOLEAN : Rotate(f, renamed)

Spec == Init /\ [][Next]_vars

(* The reader thread runs: _stop.wait(poll_interval) ends. Nobody has to      *)
(* write, rotate or watch anything, but a line begun is finished.             *)
FairSpec == /\ Spec
            /\ WF_vars(ReaderStep)
            /\ \A f \in Files : WF_vars(\E error \in BOOLEAN : FinishLine(f, error))

-----------------------------------------------------------------------------
(* Properties                                                                 *)

(* As long as the reader is not deceived about which file it reads, what it   *)
(* takes for lines are lines as they were written, each once and in order,    *)
(* wherever its polls fell between the two halves of a line, also across a    *)
(* rotation; a file watched from the middle of a line starts with its tail.   *)
(* Only a line that is in two at a line end or a separator may be taken for   *)
(* two lines, one right after the other.                                      *)
WholeLine(s) == \/ Len(s) = 1 /\ s[1].part = "whole"
                \/ Len(s) = 2 /\ s[1].part = "head" /\ s[2].part = "tail"
                              /\ s[1].line = s[2].line

FirstHalf(s) == Len(s) = 1 /\ s[1].part = "head" /\ s[1].cut \in {"line end", "separator"}
Halves(s, t) == /\ FirstHalf(s)
                /\ Len(t) = 1 /\ t[1].part = "tail" /\ t[1].line = s[1].line

LinesReadFaithfully ==
    \A f \in Files \ muddled :
        /\ \A i \in 1 .. Len(log[f]) :
              \/ WholeLine(log[f][i]) \/ FirstHalf(log[f][i])
              \/ i > 1 /\ Halves(log[f][i - 1], log[f][i])
              \/ Len(log[f][i]) = 1 /\ unwatches > 0
        /\ \A i, j \in 1 .. Len(log[f]) : i < j =>
              \/ log[f][i][1].line < log[f][j][1].line
              \/ j = i + 1 /\ Halves(log[f][i], log[f][j])

(* Stated by openspec/specs/log-monitoring/spec.md (New log entry: the system *)
(* reads the new line) and log_monitor.py:163 (a trailing partial line is     *)
(* held back until its newline arrives): each line comes out whole and        *)
(* undamaged, however a poll cuts it.                                         *)
LinesReadWhole ==
    \A f \in Files : \A i \in 1 .. Len(log[f]) :
        WholeLine(log[f][i]) /\ log[f][i][1].line \notin torn

(* The context an error is passed on with is what stood around it: the lines  *)
(* right before and right after, none missing in between, also when it was    *)
(* read in several polls or context was dropped meanwhile.                    *)
ContextContiguous ==
    \A f \in Files : \A i \in 1 .. Len(emitted[f]) :
        LET e == emitted[f][i]
        IN  /\ \A k \in 1 .. Len(e.before) : e.before[k] = e.at - Len(e.before) - 1 + k
            /\ \A k \in 1 .. Len(e.after) : e.after[k] = e.at + k

(* Errors of a file are passed on in the order of their lines, none twice.    *)
ErrorsInOrder ==
    \A f \in Files : \A i, j \in 1 .. Len(emitted[f]) :
        i < j => emitted[f][i].at < emitted[f][j].at

(* Every line of a watched file is read, unless it left the path unread or    *)
(* the file is let go of.                                                     *)
Begun(f, n) == n \in LinesIn(file[f].content)

EveryLineRead ==
    \A f \in Files, n \in 1 .. MaxLines :
        Begun(f, n) ~> (n \in ReadLines(f) \cup gone \/ unwatches > 0)

(* Every error that was read is passed on, however quiet its file becomes,    *)
(* unless the buffer pressed it out or the file is let go of.                 *)
IsError(f, k) == k <= Len(log[f]) /\ \E i \in 1 .. Len(log[f][k]) : log[f][k][i].error

EveryErrorEmitted ==
    \A f \in Files, k \in 1 .. MaxLines :
        IsError(f, k) ~> \/ k \in {emitted[f][i].at : i \in 1 .. Len(emitted[f])}
                         \/ k \in pressed[f]
                         \/ unwatches > 0
=============================================================================
