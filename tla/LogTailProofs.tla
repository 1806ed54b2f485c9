---------------------------- MODULE LogTailProofs ----------------------------
(* Theorems about LogTail, for every set of files, every context length and   *)
(* buffer, and every bound on lines, rotations and unwatched workloads.       *)
EXTENDS LogTail, FiniteSetTheorems, SequenceTheorems, TLAPS

-----------------------------------------------------------------------------
(* The inductive invariant                                                    *)

Event == [at: Nat, before: Seq(Nat), after: Seq(Nat)]
Line == Seq(Piece)
Tailed == [inode: Nat, offset: Nat, partial: Line, before: Seq(Nat), pending: Seq(Event)]

Types ==
    /\ file \in [Files -> [inode: Nat, content: Line]]
    /\ lines \in 0 .. MaxLines /\ halfway \in Files \cup {NoFile} /\ unwatches \in Nat
    /\ tail \in [Files -> Tailed]
    /\ todo \subseteq Files /\ table \subseteq Files
    /\ current \in Files \cup {NoFile} /\ chunk \in Seq(Line)
    /\ log \in [Files -> Seq(Line)] /\ emitted \in [Files -> Seq(Event)]

(* The reader is where its step says; a file not watched was let go of.       *)
ReaderPlaced ==
    /\ pc \in {"look", "read", "lines"} => current \in Files
    /\ chunk # <<>> => pc = "lines"
    /\ Files \subseteq table \/ unwatches > 0

(* Pieces as they were written, from any place on: line after line, a head    *)
(* right before its tail.                                                     *)
Running(s) ==
    /\ \A i \in 1 .. Len(s) : i + 1 <= Len(s) /\ s[i].part = "head" =>
                                s[i + 1].part = "tail" /\ s[i + 1].line = s[i].line
    /\ \A i \in 1 .. Len(s) : i + 1 <= Len(s) /\ s[i + 1].part = "tail" =>
                                s[i].part = "head"
    /\ \A i, j \in 1 .. Len(s) : i < j /\ s[i].part # "head" => s[i].line < s[j].line

InSequence(c) == Running(c) /\ (Len(c) > 0 => c[1].part # "tail")

Written ==
    \A f \in Files :
        LET c == file[f].content
        IN  /\ InSequence(c)
            /\ \A i \in 1 .. Len(c) : c[i].line <= lines
            /\ halfway = f <=> Len(c) > 0 /\ c[Len(c)].part = "head"

(* The lines the reader has cut out of a file, those of the chunk it is at    *)
(* included: sound after u workloads were let go of and n lines were begun.   *)
Taken(f) == IF current = f THEN log[f] \o chunk ELSE log[f]

SoundLines(s, u, n) ==
    /\ \A i \in 1 .. Len(s) : WholeLine(s[i]) \/ (Len(s[i]) = 1 /\ u > 0)
    /\ \A i \in 1 .. Len(s) : s[i][1].line <= n
    /\ \A i, j \in 1 .. Len(s) : i < j => s[i][1].line < s[j][1].line

TakenSoundly == \A f \in Files \ muddled : SoundLines(Taken(f), unwatches, lines)

(* The reader's place in a file. Everything taken comes before what is left   *)
(* beyond d, and before a line that is not finished; a head read is kept, but *)
(* for the one a file may have ended with when it was watched again.          *)
Deceived(f) == f \in shrunk \/ file[f].inode # tail[f].inode
Reached(f) == IF Deceived(f) THEN 0 ELSE tail[f].offset - Len(tail[f].partial)

Unread(s, c, d) ==
    \A i \in 1 .. Len(s), j \in 1 .. Len(c) :
        j > d \/ (j = Len(c) /\ c[j].part = "head") => s[i][1].line < c[j].line

At(t, c, u) ==
    /\ t.offset <= Len(c)
    /\ \/ t.partial = <<>>
       \/ t.offset > 0 /\ t.partial = <<c[t.offset]>> /\ c[t.offset].part = "head"
    /\ t.offset > 0 /\ c[t.offset].part = "head" /\ t.partial = <<>> => u > 0

Placed ==
    \A f \in Files :
        /\ tail[f].inode <= file[f].inode
        /\ f \notin muddled => Unread(Taken(f), file[f].content, Reached(f))
        /\ ~Deceived(f) => At(tail[f], file[f].content, unwatches)

(* What an event holds is what stood around it.                               *)
Surrounded(e) ==
    /\ \A k \in 1 .. Len(e.before) : e.before[k] = e.at - Len(e.before) - 1 + k
    /\ \A k \in 1 .. Len(e.after) : e.after[k] = e.at + k

(* After n lines: the context is the last of them, an event that waits has    *)
(* had every line since its own, and one passed on is no later than they.     *)
Trailing(b, n) == \A k \in 1 .. Len(b) : b[k] = n - Len(b) + k
Waits(w, n) == \A i \in 1 .. Len(w) : Surrounded(w[i]) /\ w[i].at + Len(w[i].after) = n
Passed(s, n) == \A i \in 1 .. Len(s) : Surrounded(s[i]) /\ s[i].at <= n
Ordered(s) == \A i, j \in 1 .. Len(s) : i < j => s[i].at < s[j].at
Ahead(s, w) == \A i \in 1 .. Len(s), j \in 1 .. Len(w) : s[i].at < w[j].at

Known(n, b, w, s) ==
    /\ Trailing(b, n) /\ Waits(w, n) /\ Passed(s, n)
    /\ Ordered(w) /\ Ordered(s) /\ Ahead(s, w)

EventsKnown ==
    \A f \in Files : Known(Len(log[f]), tail[f].before, tail[f].pending, emitted[f])

IInv == Types /\ ReaderPlaced /\ Written /\ EventsKnown

(* No poll cuts a line at a line end, nor does one hold another separator:    *)
(* what the lines taken owe to how the workload writes.                       *)
PlainCuts == Cuts \subseteq {"text", "character"}
LinesInv == IInv /\ TakenSoundly /\ Placed

-----------------------------------------------------------------------------
(* Lemmas on operators                                                        *)

(* Counting the numbers up to each one puts a finite set in order.            *)
LEMMA RankBijection ==
    ASSUME NEW S \in SUBSET Int, IsFiniteSet(S)
    PROVE  \E r \in Bijection(S, 1 .. Cardinality(S)) :
              \A x, y \in S : x < y <=> r[x] < r[y]
<1> DEFINE below(x) == {y \in S : y <= x}
           n == Cardinality(S)
           r == [x \in S |-> Cardinality(below(x))]
<1>1. n \in Nat
  BY FS_CardinalityType
<1>2. \A x \in S : /\ IsFiniteSet(below(x)) /\ Cardinality(below(x)) \in 1 .. n
  <2> TAKE x \in S
  <2>1. IsFiniteSet(below(x)) /\ Cardinality(below(x)) \in Nat /\ Cardinality(below(x)) <= n
    BY FS_Subset, FS_CardinalityType
  <2>2. Cardinality(below(x)) # 0
    <3>1. x \in below(x)
      OBVIOUS
    <3> QED
      BY <2>1, <3>1, FS_EmptySet
  <2> QED
    BY <1>1, <2>1, <2>2
<1>3. ASSUME NEW x \in S, NEW y \in S, x < y
      PROVE  Cardinality(below(x)) < Cardinality(below(y))
  <2>a. \A z \in S : z \in Int
    OBVIOUS
  <2>b. \A z \in S : z <= x => z <= y
    BY <1>3, <2>a
  <2>c. y <= y /\ ~(y <= x)
    BY <1>3, <2>a
  <2>1. below(x) \subseteq below(y) /\ y \in below(y) /\ y \notin below(x)
    BY <2>b, <2>c
  <2>2. Cardinality(below(x)) <= Cardinality(below(y)) /\ Cardinality(below(x)) # Cardinality(below(y))
    BY <1>2, <2>1, FS_Subset
  <2> QED
    BY <1>2, <2>2
<1> HIDE DEF below, n
<1>4. r \in [S -> 1 .. n]
  BY <1>2
<1>5. \A x, y \in S : x < y => r[x] < r[y]
  BY <1>3
<1>6. \A x, y \in S : x < y <=> r[x] < r[y]
  <2> TAKE x, y \in S
  <2>1. x \in Int /\ y \in Int /\ r[x] \in Int /\ r[y] \in Int
    BY <1>4
  <2>2. (x < y => r[x] < r[y]) /\ (y < x => r[y] < r[x])
    BY <1>5
  <2> QED
    BY <2>1, <2>2
<1>7. \A x, y \in S : r[x] = r[y] => x = y
  <2> TAKE x, y \in S
  <2>1. x \in Int /\ y \in Int /\ r[x] \in Int /\ r[y] \in Int
    BY <1>4
  <2>2. (x < y => r[x] < r[y]) /\ (y < x => r[y] < r[x])
    BY <1>5
  <2> QED
    BY <2>1, <2>2
<1> HIDE DEF r
<1>8. r \in Injection(S, 1 .. n)
  BY <1>4, <1>7 DEF Injection, IsInjective
<1>9. IsFiniteSet(1 .. n) /\ Cardinality(1 .. n) = Cardinality(S)
  BY <1>1, FS_Interval DEF n
<1>10. r \in Surjection(S, 1 .. n)
  BY <1>8, <1>9, FS_Injection
<1> QED
  BY <1>6, <1>8, <1>10 DEF Bijection, n

LEMMA AscendingSpec ==
    ASSUME NEW S \in SUBSET Int, IsFiniteSet(S)
    PROVE  /\ Cardinality(S) \in Nat
           /\ Ascending(S) \in [1 .. Cardinality(S) -> S]
           /\ \A i, j \in 1 .. Cardinality(S) : i < j => Ascending(S)[i] < Ascending(S)[j]
           /\ \A x \in S : \E i \in 1 .. Cardinality(S) : Ascending(S)[i] = x
<1> DEFINE n == Cardinality(S)
           inOrder(s) == \A i, j \in 1 .. n : i < j => s[i] < s[j]
<1>1. n \in Nat
  BY FS_CardinalityType
<1>2. PICK r \in Bijection(S, 1 .. n) : \A x, y \in S : x < y <=> r[x] < r[y]
  BY RankBijection
<1>3. \A i \in 1 .. n : \E x \in S : r[x] = i
  BY <1>2 DEF Bijection, Surjection
<1> DEFINE s == [i \in 1 .. n |-> CHOOSE x \in S : r[x] = i]
<1>4. s \in [1 .. n -> S] /\ \A i \in 1 .. n : r[s[i]] = i
  BY <1>3
<1> HIDE DEF s
<1>5. inOrder(s)
  BY <1>2, <1>4
<1>6. Ascending(S) \in [1 .. n -> S] /\ inOrder(Ascending(S))
  BY <1>4, <1>5 DEF Ascending
<1>7. Ascending(S) \in Surjection(1 .. n, S)
  <2>1. \A i, j \in 1 .. n : Ascending(S)[i] = Ascending(S)[j] => i = j
    <3> SUFFICES ASSUME NEW i \in 1 .. n, NEW j \in 1 .. n, i < j
                 PROVE  Ascending(S)[i] # Ascending(S)[j]
      BY <1>1
    <3>1. Ascending(S)[i] < Ascending(S)[j] /\ Ascending(S)[i] \in Int
      BY <1>6
    <3> QED
      BY <3>1
  <2>2. Ascending(S) \in Injection(1 .. n, S)
    BY <1>6, <2>1 DEF Injection, IsInjective
  <2>3. Cardinality(1 .. n) = Cardinality(S)
    BY <1>1, FS_Interval
  <2> QED
    BY <2>2, <2>3, FS_Injection
<1> QED
  BY <1>1, <1>6, <1>7 DEF Surjection

(* The places between two neighbours of the order are not in the set.         *)
LEMMA AscendingNext ==
    ASSUME NEW S \in SUBSET Int, IsFiniteSet(S),
           NEW k \in 1 .. Cardinality(S), NEW x \in S, x < Ascending(S)[k]
    PROVE  k > 1 /\ x <= Ascending(S)[k - 1]
<1>1. PICK i \in 1 .. Cardinality(S) : Ascending(S)[i] = x
  BY AscendingSpec
<1>2. Cardinality(S) \in Nat /\ Ascending(S)[k] \in Int /\ x \in Int
  BY AscendingSpec
<1>3. i < k
  <2>1. i = k \/ i > k => x >= Ascending(S)[k]
    BY <1>1, <1>2, AscendingSpec
  <2> QED
    BY <1>2, <2>1
<1>4. CASE i = k - 1
  BY <1>1, <1>2, <1>3, <1>4
<1>5. CASE i < k - 1
  <2>1. k - 1 \in 1 .. Cardinality(S)
    BY <1>2, <1>3
  <2>2. Ascending(S)[i] < Ascending(S)[k - 1] /\ Ascending(S)[k - 1] \in Int
    BY <1>5, <2>1, AscendingSpec
  <2> QED
    BY <1>1, <1>2, <1>3, <2>2
<1> QED
  BY <1>2, <1>3, <1>4, <1>5

LEMMA PickedSpec ==
    ASSUME NEW T, NEW s \in Seq(T), NEW S \in SUBSET (1 .. Len(s))
    PROVE  /\ Picked(s, S) \in Seq(T)
           /\ \A i \in 1 .. Len(Picked(s, S)) : \E k \in S : Picked(s, S)[i] = s[k]
           /\ \A i, j \in 1 .. Len(Picked(s, S)) : i < j =>
                 \E k, l \in S : k < l /\ Picked(s, S)[i] = s[k] /\ Picked(s, S)[j] = s[l]
<1>a. Len(s) \in Nat /\ \A i \in 1 .. Len(s) : i \in Int /\ s[i] \in T
  OBVIOUS
<1>b. IsFiniteSet(1 .. Len(s))
  BY <1>a, FS_Interval
<1>1. IsFiniteSet(S) /\ S \in SUBSET Int
  BY <1>a, <1>b, FS_Subset
<1> DEFINE n == Cardinality(S)
<1>2. /\ n \in Nat /\ Ascending(S) \in [1 .. n -> S]
      /\ \A i, j \in 1 .. n : i < j => Ascending(S)[i] < Ascending(S)[j]
  BY <1>1, AscendingSpec
<1> HIDE DEF n
<1>3. Picked(s, S) = [i \in 1 .. n |-> s[Ascending(S)[i]]]
  BY DEF Picked, n
<1>4. \A i \in 1 .. n : s[Ascending(S)[i]] \in T
  BY <1>a, <1>2
<1>5. Picked(s, S) \in Seq(T) /\ Len(Picked(s, S)) = n
  BY <1>2, <1>3, <1>4
<1>6. \A i \in 1 .. n : Picked(s, S)[i] = s[Ascending(S)[i]] /\ Ascending(S)[i] \in S
  BY <1>2, <1>3
<1> QED
  BY <1>2, <1>5, <1>6

(* A sequence is known by its items.                                          *)
LEMMA SingleOf == ASSUME NEW T, NEW s \in Seq(T), Len(s) = 1 PROVE s = <<s[1]>>
OBVIOUS

LEMMA PairOf == ASSUME NEW T, NEW s \in Seq(T), Len(s) = 2 PROVE s = <<s[1], s[2]>>
OBVIOUS

(* One piece of a sequence, or two.                                           *)
LEMMA ShortCuts ==
    ASSUME NEW T, NEW s \in Seq(T), NEW a \in 1 .. Len(s)
    PROVE  /\ SubSeq(s, a, a) = <<s[a]>>
           /\ a + 1 <= Len(s) => SubSeq(s, a, a + 1) = <<s[a], s[a + 1]>>
<1>1. Len(s) \in Nat /\ a \in Int
  OBVIOUS
<1>2. SubSeq(s, a, a) = <<s[a]>>
  <2>1. \A i \in a .. a : s[i] \in T
    BY <1>1
  <2>2. SubSeq(s, a, a) \in Seq(T) /\ Len(SubSeq(s, a, a)) = 1 /\ SubSeq(s, a, a)[1] = s[a]
    BY <1>1, <2>1, SubSeqProperties
  <2> QED
    BY <2>2, SingleOf
<1>3. ASSUME a + 1 <= Len(s)
      PROVE  SubSeq(s, a, a + 1) = <<s[a], s[a + 1]>>
  <2>1. \A i \in a .. a + 1 : s[i] \in T
    BY <1>1, <1>3
  <2>2. /\ SubSeq(s, a, a + 1) \in Seq(T) /\ Len(SubSeq(s, a, a + 1)) = 2
        /\ SubSeq(s, a, a + 1)[1] = s[a] /\ SubSeq(s, a, a + 1)[2] = s[a + 1]
    BY <1>1, <2>1, SubSeqProperties
  <2> QED
    BY <2>2, PairOf
<1> QED
  BY <1>2, <1>3

(* Plain pieces: what ends a line is what is not a head.                      *)
LEMMA PlainEnds ==
    ASSUME PlainCuts, NEW s \in Line
    PROVE  Ends(s) = {i \in 1 .. Len(s) : s[i].part # "head"} /\ Breaks(s) = Ends(s)
<1>1. \A i \in 1 .. Len(s) : s[i] \in Piece
  BY DEF Line
<1>2. \A i \in 1 .. Len(s) : s[i].cut \in {"text", "character"}
  BY <1>1 DEF Piece, PlainCuts
<1>3. \A i \in 1 .. Len(s) : s[i].cut # "line end" /\ s[i].cut # "separator"
  BY <1>2
<1> QED
  BY <1>3 DEF Ends, Breaks

(* Cut lines are whole, but for a tail the pieces may begin with, and in      *)
(* their order.                                                               *)
LEMMA CutLinesSpec ==
    ASSUME PlainCuts, NEW s \in Line, Running(s)
    PROVE  /\ CutLines(s) \in Seq(Line)
           /\ \A n \in 1 .. Len(CutLines(s)) : \E a \in 1 .. Len(s) :
                 LET line == CutLines(s)[n]
                 IN  /\ line[1].line = s[a].line /\ Len(line) > 0
                     /\ \/ WholeLine(line)
                        \/ Len(line) = 1 /\ a = 1 /\ s[1].part = "tail"
                     /\ s[Len(s)].part = "head" => s[a].line < s[Len(s)].line
           /\ \A m, n \in 1 .. Len(CutLines(s)) :
                 m < n => CutLines(s)[m][1].line < CutLines(s)[n][1].line
<1> DEFINE E == Ends(s)
           N == Cardinality(E)
           ends == Ascending(E)
           start(n) == IF n = 1 THEN 1 ELSE ends[n - 1] + 1
<1>a. Len(s) \in Nat /\ \A i \in 1 .. Len(s) : s[i] \in Piece /\ i \in Int
  BY DEF Line
<1>b. \A i \in 1 .. Len(s) : s[i].line \in Int /\ s[i].part \in {"whole", "head", "tail"}
  BY <1>a DEF Piece
<1>c. E \in SUBSET (1 .. Len(s)) /\ \A i \in 1 .. Len(s) : i \in E <=> s[i].part # "head"
  BY PlainEnds
<1>f. Breaks(s) = E
  BY PlainEnds
<1>d. IsFiniteSet(E) /\ E \in SUBSET Int
  <2>1. IsFiniteSet(1 .. Len(s))
    BY <1>a, FS_Interval
  <2> QED
    BY <1>a, <1>c, <2>1, FS_Subset
<1> HIDE DEF E
<1>1. /\ N \in Nat /\ ends \in [1 .. N -> E]
      /\ \A i, j \in 1 .. N : i < j => ends[i] < ends[j]
  BY <1>d, AscendingSpec
<1>2. \A k \in 1 .. N, x \in E : x < ends[k] => k > 1 /\ x <= ends[k - 1]
  BY <1>d, AscendingNext
<1> HIDE DEF N, ends
<1>3. Len(ends) = N
  BY <1>1
<1>4. CutLines(s) = [n \in 1 .. N |-> SubSeq(s, start(n), ends[n])]
  BY <1>3, <1>f DEF CutLines, ends
<1>e. ASSUME NEW n \in 1 .. N
      PROVE  n \in Int /\ ends[n] \in Int /\ ends[n] \in 1 .. Len(s)
  <2>1. ends[n] \in E
    BY <1>1
  <2>2. ends[n] \in 1 .. Len(s)
    BY <1>c, <2>1
  <2> QED
    BY <1>1, <1>a, <2>2
<1>5. ASSUME NEW n \in 1 .. N
      PROVE  /\ n \in Int /\ ends[n] \in Int /\ start(n) \in Int
             /\ 1 <= ends[n] /\ ends[n] <= Len(s) /\ s[ends[n]].part # "head"
             /\ 1 <= start(n) /\ start(n) <= ends[n]
             /\ n = 1 => start(n) = 1
             /\ n # 1 => n - 1 \in 1 .. N /\ start(n) = ends[n - 1] + 1
  <2>0. n \in Int /\ ends[n] \in Int
    BY <1>e
  <2>1. 1 <= ends[n] /\ ends[n] <= Len(s) /\ s[ends[n]].part # "head"
    BY <1>1, <1>a, <1>c, <1>e
  <2>2. CASE n = 1
    BY <2>0, <2>1, <2>2
  <2>3. CASE n # 1
    <3>1. n - 1 \in 1 .. N /\ n - 1 < n
      BY <1>1, <2>3
    <3>2. ends[n - 1] < ends[n]
      <4> DEFINE i == n - 1
      <4>1. i \in 1 .. N /\ i < n
        BY <3>1
      <4> HIDE DEF i
      <4>2. ends[i] < ends[n]
        BY <1>1, <4>1
      <4> QED
        BY <4>2 DEF i
    <3>3. ends[n - 1] \in Int /\ 1 <= ends[n - 1]
      BY <1>a, <1>e, <3>1
    <3> QED
      BY <2>0, <2>1, <2>3, <3>1, <3>2, <3>3
  <2> QED
    BY <2>2, <2>3
<1> HIDE DEF start
<1>6. \A n \in 1 .. N : \A i \in start(n) .. ends[n] : i # ends[n] => s[i].part = "head"
  <2> SUFFICES ASSUME NEW n \in 1 .. N, NEW i \in start(n) .. ends[n], i # ends[n],
                      s[i].part # "head"
               PROVE  FALSE
    OBVIOUS
  <2>0. i \in Int /\ start(n) <= i /\ i <= ends[n]
    BY <1>5
  <2>1. i \in 1 .. Len(s) /\ i < ends[n]
    BY <1>a, <1>5, <2>0
  <2>2. n > 1 /\ i <= ends[n - 1]
    BY <1>2, <1>c, <2>1
  <2>3. n # 1 /\ start(n) = ends[n - 1] + 1 /\ ends[n - 1] \in Int
    BY <1>5, <2>2
  <2> QED
    BY <2>0, <2>2, <2>3
<1>7. \A n \in 1 .. N : ends[n] = start(n) \/ ends[n] = start(n) + 1
  <2> SUFFICES ASSUME NEW n \in 1 .. N, ends[n] > start(n) + 1
               PROVE  FALSE
    BY <1>5
  <2> DEFINE i == start(n)
  <2>1. i \in 1 .. Len(s) /\ i + 1 \in 1 .. Len(s) /\ i \in Int /\ ends[n] \in Int
    BY <1>5, <1>a
  <2> HIDE DEF i
  <2>3. i \in start(n) .. ends[n] /\ i + 1 \in start(n) .. ends[n] /\ i # ends[n] /\ i + 1 # ends[n]
    BY <1>5, <2>1 DEF i
  <2>2. s[i].part = "head" /\ s[i + 1].part = "head"
    BY <1>6, <2>3
  <2> QED
    BY <1>a, <2>1, <2>2 DEF Running
<1>8. ASSUME NEW n \in 1 .. N
      PROVE  /\ start(n) \in 1 .. Len(s) /\ ends[n] \in 1 .. Len(s)
             /\ CutLines(s)[n][1] = s[start(n)] /\ Len(CutLines(s)[n]) > 0
             /\ CutLines(s)[n] \in Line
             /\ s[ends[n]].line = s[start(n)].line
             /\ \/ WholeLine(CutLines(s)[n])
                \/ Len(CutLines(s)[n]) = 1 /\ start(n) = 1 /\ s[1].part = "tail"
  <2>1. start(n) \in 1 .. Len(s) /\ ends[n] \in 1 .. Len(s)
    BY <1>5, <1>a
  <2>2. CutLines(s)[n] = SubSeq(s, start(n), ends[n])
    BY <1>4
  <2>3. CASE ends[n] = start(n)
    <3>1. CutLines(s)[n] = <<s[start(n)]>>
      BY <2>1, <2>2, <2>3, ShortCuts DEF Line
    <3>2. CASE s[start(n)].part = "tail" /\ start(n) > 1
      <4>1. s[start(n) - 1].part = "head"
        <5> DEFINE i == start(n) - 1
        <5>1. i \in 1 .. Len(s) /\ i + 1 = start(n) /\ i + 1 <= Len(s)
          BY <1>a, <1>5, <2>1, <3>2
        <5> HIDE DEF i
        <5>2. s[i].part = "head"
          BY <3>2, <5>1 DEF Running
        <5> QED
          BY <5>2 DEF i
      <4>2. n > 1
        BY <1>5, <3>2
      <4>3. n - 1 \in 1 .. N /\ start(n) - 1 = ends[n - 1]
        BY <1>5, <1>e, <4>2
      <4> QED
        BY <1>5, <4>1, <4>3
    <3>3. s[start(n)].part # "head"
      BY <1>5, <2>3
    <3> QED
      BY <1>a, <1>b, <2>1, <2>3, <3>1, <3>2, <3>3 DEF WholeLine, Line
  <2>4. CASE ends[n] = start(n) + 1
    <3>0. start(n) + 1 <= Len(s)
      BY <1>e, <2>1, <2>4
    <3>1. CutLines(s)[n] = <<s[start(n)], s[ends[n]]>>
      BY <2>1, <2>2, <2>4, <3>0, ShortCuts DEF Line
    <3>2. s[start(n)].part = "head"
      BY <1>6, <1>e, <2>1, <2>4
    <3>3. s[ends[n]].part = "tail" /\ s[ends[n]].line = s[start(n)].line
      BY <2>1, <2>4, <3>0, <3>2 DEF Running
    <3> QED
      BY <1>a, <2>1, <3>1, <3>2, <3>3 DEF WholeLine, Line
  <2> QED
    BY <1>7, <2>3, <2>4
<1>9. CutLines(s) \in Seq(Line) /\ Len(CutLines(s)) = N
  BY <1>1, <1>4, <1>8
<1>10. ASSUME NEW n \in 1 .. N, s[Len(s)].part = "head"
       PROVE  s[start(n)].line < s[Len(s)].line
  <2>1. ends[n] < Len(s) /\ Len(s) \in 1 .. Len(s)
    BY <1>5, <1>8, <1>a, <1>e, <1>10
  <2>2. s[ends[n]].line < s[Len(s)].line
    BY <1>5, <1>8, <2>1 DEF Running
  <2> QED
    BY <1>8, <2>2
<1>11. ASSUME NEW m \in 1 .. N, NEW n \in 1 .. N, m < n
       PROVE  CutLines(s)[m][1].line < CutLines(s)[n][1].line
  <2>1. ends[m] < start(n)
    <3>1. n > 1 /\ n - 1 \in 1 .. N /\ start(n) = ends[n - 1] + 1 /\ n \in Int /\ m \in Int
      BY <1>1, <1>5, <1>e, <1>11
    <3>2. ends[m] <= ends[n - 1]
      <4>1. m = n - 1 \/ m < n - 1
        BY <1>11, <3>1
      <4> QED
        BY <1>1, <1>e, <3>1, <4>1
    <3> QED
      BY <1>e, <3>1, <3>2
  <2>2. s[ends[m]].line < s[start(n)].line
    BY <1>5, <1>8, <2>1 DEF Running
  <2> QED
    BY <1>8, <2>2
<1> QED
  BY <1>8, <1>9, <1>10, <1>11

(* The last end there is.                                                     *)
LEMMA LastEnd ==
    ASSUME NEW s \in Line, Ends(s) # {}
    PROVE  \E last \in Ends(s) : /\ \A j \in Ends(s) : j <= last
                                 /\ last = CHOOSE i \in Ends(s) : \A j \in Ends(s) : j <= i
<1>a. Len(s) \in Nat /\ \A i \in 1 .. Len(s) : i \in Int
  BY DEF Line
<1>1. IsFiniteSet(Ends(s)) /\ Ends(s) \in SUBSET Int
  <2>1. IsFiniteSet(1 .. Len(s))
    BY <1>a, FS_Interval
  <2> QED
    BY <1>a, <2>1, FS_Subset DEF Ends
<1> DEFINE n == Cardinality(Ends(s))
           m == Ascending(Ends(s))[n]
<1>2. n \in Nat /\ n # 0
  BY <1>1, FS_CardinalityType, FS_EmptySet
<1>3. m \in Ends(s) /\ m \in Int
  BY <1>1, <1>2, AscendingSpec
<1>4. \A j \in Ends(s) : j <= m
  <2> TAKE j \in Ends(s)
  <2>1. PICK i \in 1 .. n : Ascending(Ends(s))[i] = j
    BY <1>1, AscendingSpec
  <2>2. CASE i = n
    BY <1>3, <2>1, <2>2
  <2>3. CASE i < n
    <3>1. n \in 1 .. n
      BY <1>2
    <3>2. j < m
      BY <1>1, <2>1, <2>3, <3>1, AscendingSpec
    <3> QED
      BY <1>1, <1>3, <3>2
  <2> QED
    BY <1>2, <2>2, <2>3
<1> HIDE DEF m
<1> QED
  BY <1>3, <1>4

(* What is left over is the head at the end, if there is one.                 *)
LEMMA LeftOverSpec ==
    ASSUME PlainCuts, NEW s \in Line, Running(s)
    PROVE  LeftOver(s) = IF Len(s) > 0 /\ s[Len(s)].part = "head" THEN <<s[Len(s)]>> ELSE <<>>
<1>a. Len(s) \in Nat /\ \A i \in 1 .. Len(s) : i \in Int
  BY DEF Line
<1>1. CASE Ends(s) = {}
  <2>1. \A i \in 1 .. Len(s) : s[i].part = "head"
    BY <1>1, PlainEnds
  <2>2. Len(s) <= 1
    <3>1. CASE Len(s) > 1
      <4>1. 1 \in 1 .. Len(s) /\ 2 \in 1 .. Len(s)
        BY <1>a, <3>1
      <4> QED
        BY <2>1, <4>1 DEF Running
    <3> QED
      BY <1>a, <3>1
  <2>3. LeftOver(s) = SubSeq(s, 1, Len(s))
    BY <1>1 DEF LeftOver
  <2>5. CASE Len(s) = 0
    BY <2>3, <2>5 DEF Line
  <2>6. CASE Len(s) = 1
    <3>1. 1 \in 1 .. Len(s) /\ LeftOver(s) = <<s[1]>>
      BY <2>3, <2>6, ShortCuts DEF Line
    <3> QED
      BY <2>1, <2>6, <3>1
  <2>7. Len(s) = 0 \/ Len(s) = 1
    <3> DEFINE n == Len(s)
    <3>1. n \in Nat /\ n <= 1
      BY <1>a, <2>2
    <3> HIDE DEF n
    <3>2. n = 0 \/ n = 1
      BY <3>1
    <3> QED
      BY <3>2 DEF n
  <2> QED
    BY <2>5, <2>6, <2>7
<1>2. CASE Ends(s) # {}
  <2> DEFINE last == CHOOSE i \in Ends(s) : \A j \in Ends(s) : j <= i
  <2>a. Ends(s) \in SUBSET (1 .. Len(s)) /\ \A i \in 1 .. Len(s) : i \in Ends(s) <=> s[i].part # "head"
    BY PlainEnds
  <2>1. last \in Ends(s) /\ \A j \in Ends(s) : j <= last
    BY <1>2, LastEnd
  <2> HIDE DEF last
  <2>2. LeftOver(s) = SubSeq(s, 1 + last, Len(s))
    BY <1>2 DEF LeftOver, last
  <2>3. last \in 1 .. Len(s) /\ s[last].part # "head"
    BY <2>1, <2>a
  <2>4. \A i \in 1 .. Len(s) : i > last => s[i].part = "head"
    BY <1>a, <2>1, <2>3, <2>a
  <2>5. last = Len(s) \/ last = Len(s) - 1
    <3> SUFFICES ASSUME last < Len(s) - 1
                 PROVE  FALSE
      BY <1>a, <2>3
    <3>1. last + 1 \in 1 .. Len(s) /\ last + 2 \in 1 .. Len(s) /\ last \in Int
      BY <1>a, <2>3
    <3>2. s[last + 1].part = "head" /\ s[last + 2].part = "head"
      BY <2>4, <3>1
    <3> QED
      BY <3>1, <3>2 DEF Running
  <2>6. CASE last = Len(s)
    BY <1>a, <2>2, <2>3, <2>6 DEF Line
  <2>7. CASE last = Len(s) - 1
    <3>1. Len(s) \in 1 .. Len(s) /\ 1 + last = Len(s) /\ Len(s) > last
      BY <1>a, <2>3, <2>7
    <3>2. LeftOver(s) = <<s[Len(s)]>>
      BY <2>2, <3>1, ShortCuts DEF Line
    <3> QED
      BY <2>4, <3>1, <3>2
  <2> QED
    BY <2>5, <2>6, <2>7
<1> QED
  BY <1>1, <1>2

-----------------------------------------------------------------------------
(* Every variable keeps its type                                              *)

LEMMA NewestSpec ==
    ASSUME NEW s \in Seq(Event)
    PROVE  /\ Newest(s) \in Seq(Event) /\ Len(Newest(s)) \in {0, 1}
           /\ Len(Newest(s)) = 1 => Len(s) > 0 /\ Newest(s)[1] = s[Len(s)]
<1>1. CASE s = <<>>
  BY <1>1 DEF Newest
<1>2. CASE s # <<>>
  <2>1. Len(s) > 0 /\ s[Len(s)] \in Event
    BY <1>2
  <2>2. Newest(s) = <<s[Len(s)]>>
    BY <1>2 DEF Newest, Last
  <2> QED
    BY <2>1, <2>2
<1> QED
  BY <1>1, <1>2

(* Buffer pressure takes context and older events, and nothing else.          *)
LEMMA AccountedSpec ==
    ASSUME Types
    PROVE  /\ Accounted \in [Files -> Tailed]
           /\ \A f \in Files :
                 /\ Accounted[f].inode = tail[f].inode
                 /\ Accounted[f].offset = tail[f].offset
                 /\ Accounted[f].partial = tail[f].partial
                 /\ \/ /\ Accounted[f].before = tail[f].before
                       /\ Accounted[f].pending = tail[f].pending
                    \/ /\ Accounted[f].before = <<>>
                       /\ Accounted[f].pending = Newest(tail[f].pending)
<1>1. ASSUME NEW f \in Files
      PROVE  /\ Accounted[f] \in Tailed
             /\ Accounted[f].inode = tail[f].inode
             /\ Accounted[f].offset = tail[f].offset
             /\ Accounted[f].partial = tail[f].partial
             /\ \/ /\ Accounted[f].before = tail[f].before
                   /\ Accounted[f].pending = tail[f].pending
                \/ /\ Accounted[f].before = <<>>
                   /\ Accounted[f].pending = Newest(tail[f].pending)
  <2>1. tail[f] \in Tailed /\ Newest(tail[f].pending) \in Seq(Event) /\ <<>> \in Seq(Nat)
    BY NewestSpec DEF Types, Tailed
  <2>2. CASE Overflows /\ f \in table
    <3>1. Accounted[f] = [tail[f] EXCEPT !.before = <<>>, !.pending = Newest(@)]
      BY <2>2 DEF Accounted
    <3> QED
      BY <2>1, <3>1 DEF Tailed
  <2>3. CASE ~(Overflows /\ f \in table)
    <3>1. Accounted[f] = tail[f]
      BY <2>3 DEF Accounted
    <3> QED
      BY <2>1, <3>1
  <2> QED
    BY <2>2, <2>3
<1>2. Accounted \in [Files -> Tailed]
  <2>1. Accounted = [f \in Files |-> Accounted[f]]
    BY DEF Accounted
  <2> QED
    BY <1>1, <2>1
<1> QED
  BY <1>1, <1>2

LEMMA WindowType ==
    ASSUME NEW before \in Seq(Nat), NEW at \in Nat
    PROVE  Window(before, at) \in Seq(Nat)
<1>1. Append(before, at) \in Seq(Nat) /\ Len(Append(before, at)) > 0
  OBVIOUS
<1>2. Tail(Append(before, at)) \in Seq(Nat)
  BY <1>1, HeadTailProperties
<1> QED
  BY <1>1, <1>2 DEF Window

(* What ProcessLine does with the events that wait, by name.                  *)
Followed(f) ==
    [i \in 1 .. Len(Accounted[f].pending) |->
        IF Len(Accounted[f].pending[i].after) < ContextLines
          THEN [Accounted[f].pending[i] EXCEPT !.after = Append(@, Len(log[f]) + 1)]
          ELSE Accounted[f].pending[i]]
Complete(f) == {i \in 1 .. Len(Followed(f)) : Len(Followed(f)[i].after) >= ContextLines}
Ready(f) == Picked(Followed(f), Complete(f))
Waiting(f) == Picked(Followed(f), (1 .. Len(Followed(f))) \ Complete(f))
Found(f) == IF \E i \in 1 .. Len(Head(chunk)) : Head(chunk)[i].error
              THEN <<[at |-> Len(log[f]) + 1, before |-> Accounted[f].before, after |-> <<>>]>>
              ELSE <<>>

LEMMA ProcessLineNames ==
    ASSUME ProcessLine
    PROVE  /\ pc = "lines" /\ chunk # <<>> /\ chunk' = Tail(chunk)
           /\ log' = [log EXCEPT ![current] = Append(@, Head(chunk))]
           /\ tail' = [Accounted EXCEPT
                         ![current].pending = Waiting(current) \o Found(current),
                         ![current].before = Window(Accounted[current].before,
                                                    Len(log[current]) + 1)]
           /\ emitted' = [emitted EXCEPT ![current] = @ \o Ready(current)]
           /\ UNCHANGED <<worldVars, todo, current, pc, table, unwatches, lossVars>>
<1>1. /\ pc = "lines" /\ chunk # <<>> /\ chunk' = Tail(chunk)
      /\ log' = [log EXCEPT ![current] = Append(@, Head(chunk))]
      /\ UNCHANGED <<worldVars, todo, current, pc, table, unwatches, lossVars>>
  BY DEF ProcessLine
<1>2. emitted' = [emitted EXCEPT ![current] = @ \o Ready(current)]
  BY DEF ProcessLine, Followed, Complete, Ready
<1>3. tail' = [Accounted EXCEPT
                 ![current].pending = Waiting(current) \o Found(current),
                 ![current].before = Window(Accounted[current].before,
                                            Len(log[current]) + 1)]
  BY DEF ProcessLine, Followed, Complete, Waiting, Found
<1> QED
  BY <1>1, <1>2, <1>3

LEMMA FollowedType ==
    ASSUME Types, NEW f \in Files
    PROVE  /\ Followed(f) \in Seq(Event)
           /\ Len(Followed(f)) = Len(Accounted[f].pending)
           /\ Ready(f) \in Seq(Event) /\ Waiting(f) \in Seq(Event)
<1>1. Accounted[f].pending \in Seq(Event)
  BY AccountedSpec DEF Tailed
<1>2. Len(log[f]) + 1 \in Nat
  BY DEF Types
<1>3. ASSUME NEW e \in Event, NEW at \in Nat
      PROVE  [e EXCEPT !.after = Append(@, at)] \in Event
  <2>1. Append(e.after, at) \in Seq(Nat)
    BY DEF Event
  <2> QED
    BY <2>1 DEF Event
<1>4. \A i \in 1 .. Len(Accounted[f].pending) : Accounted[f].pending[i] \in Event
  BY <1>1
<1>5. \A i \in 1 .. Len(Accounted[f].pending) :
         (IF Len(Accounted[f].pending[i].after) < ContextLines
            THEN [Accounted[f].pending[i] EXCEPT !.after = Append(@, Len(log[f]) + 1)]
            ELSE Accounted[f].pending[i]) \in Event
  <2> TAKE i \in 1 .. Len(Accounted[f].pending)
  <2> DEFINE e == Accounted[f].pending[i]
             more == [e EXCEPT !.after = Append(@, Len(log[f]) + 1)]
  <2>1. e \in Event /\ more \in Event
    BY <1>2, <1>3, <1>4
  <2> HIDE DEF more
  <2>2. (IF Len(e.after) < ContextLines THEN more ELSE e) \in Event
    BY <2>1
  <2> QED
    BY <2>2 DEF more
<1>6. Followed(f) \in Seq(Event) /\ Len(Followed(f)) = Len(Accounted[f].pending)
  <2> DEFINE n == Len(Accounted[f].pending)
  <2>1. n \in Nat
    BY <1>1
  <2>2. Followed(f) \in [1 .. n -> Event]
    BY <1>5 DEF Followed
  <2> HIDE DEF n
  <2>3. Followed(f) \in Seq(Event) /\ Len(Followed(f)) = n
    BY <2>1, <2>2
  <2> QED
    BY <2>3 DEF n
<1>7. Complete(f) \in SUBSET (1 .. Len(Followed(f)))
  BY DEF Complete
<1> QED
  BY <1>6, <1>7, PickedSpec DEF Ready, Waiting

LEMMA ProcessLineTypes == ASSUME Types, ReaderPlaced, ProcessLine PROVE Types'
<1> DEFINE f == current
<1>1. f \in Files /\ chunk # <<>> /\ chunk \in Seq(Line)
  BY ProcessLineNames DEF ReaderPlaced, Types
<1>2. Head(chunk) \in Line /\ Tail(chunk) \in Seq(Line)
  BY <1>1, HeadTailProperties
<1>3. log' \in [Files -> Seq(Line)] /\ chunk' \in Seq(Line)
  <2>1. Append(log[f], Head(chunk)) \in Seq(Line)
    BY <1>1, <1>2 DEF Types
  <2> QED
    BY <1>1, <1>2, <2>1, ProcessLineNames DEF Types
<1>4. /\ Ready(f) \in Seq(Event) /\ Waiting(f) \in Seq(Event)
      /\ Accounted \in [Files -> Tailed] /\ Len(log[f]) + 1 \in Nat
  BY <1>1, FollowedType, AccountedSpec DEF Types
<1>5. Found(f) \in Seq(Event)
  <2>1. Accounted[f].before \in Seq(Nat) /\ <<>> \in Seq(Nat)
    BY <1>1, <1>4 DEF Tailed
  <2>2. [at |-> Len(log[f]) + 1, before |-> Accounted[f].before, after |-> <<>>] \in Event
    BY <1>4, <2>1 DEF Event
  <2> QED
    BY <2>2 DEF Found
<1>6. emitted' \in [Files -> Seq(Event)]
  <2>1. emitted[f] \o Ready(f) \in Seq(Event)
    BY <1>1, <1>4 DEF Types
  <2> QED
    BY <1>1, <2>1, ProcessLineNames DEF Types
<1>7. tail' \in [Files -> Tailed]
  <2>1. Waiting(f) \o Found(f) \in Seq(Event)
    BY <1>4, <1>5
  <2>2. Window(Accounted[f].before, Len(log[f]) + 1) \in Seq(Nat)
    BY <1>1, <1>4, WindowType DEF Tailed
  <2>3. [Accounted[f] EXCEPT !.pending = Waiting(f) \o Found(f),
                             !.before = Window(Accounted[f].before, Len(log[f]) + 1)] \in Tailed
    BY <1>1, <1>4, <2>1, <2>2 DEF Tailed
  <2> QED
    BY <1>1, <1>4, <2>3, ProcessLineNames
<1> QED
  BY <1>3, <1>6, <1>7, ProcessLineNames DEF Types, worldVars

LEMMA CuttingTypes ==
    ASSUME NEW s \in Line
    PROVE  CutLines(s) \in Seq(Line) /\ LeftOver(s) \in Line
<1>a. /\ Len(s) \in Nat /\ \A i \in 1 .. Len(s) : s[i] \in Piece
      /\ Ends(s) \in SUBSET (1 .. Len(s)) /\ Breaks(s) \in SUBSET (1 .. Len(s))
  <2>1. Ends(s) \in SUBSET (1 .. Len(s))
    BY DEF Ends
  <2>2. Breaks(s) \in SUBSET (1 .. Len(s))
    BY <2>1 DEF Breaks
  <2> QED
    BY <2>1, <2>2 DEF Line
<1>b. ASSUME NEW a \in Int, NEW b \in Int, 1 <= a, b <= Len(s)
      PROVE  SubSeq(s, a, b) \in Line
  <2>1. \A i \in a .. b : s[i] \in Piece
    BY <1>a, <1>b
  <2> QED
    BY <2>1, SubSeqProperties DEF Line
<1>1. LeftOver(s) \in Line
  <2>1. CASE Ends(s) = {}
    BY <1>a, <1>b, <2>1 DEF LeftOver
  <2>2. CASE Ends(s) # {}
    <3>1. PICK last \in Ends(s) :
             last = CHOOSE i \in Ends(s) : \A j \in Ends(s) : j <= i
      BY <2>2, LastEnd
    <3>2. LeftOver(s) = SubSeq(s, 1 + last, Len(s))
      BY <2>2, <3>1 DEF LeftOver
    <3>3. 1 + last \in Int /\ 1 <= 1 + last
      BY <1>a
    <3> QED
      BY <1>a, <1>b, <3>2, <3>3
  <2> QED
    BY <2>1, <2>2
<1>2. CutLines(s) \in Seq(Line)
  <2> DEFINE breaks == Ascending(Breaks(s))
             N == Cardinality(Breaks(s))
             start(n) == IF n = 1 THEN 1 ELSE breaks[n - 1] + 1
  <2>1. IsFiniteSet(Breaks(s)) /\ Breaks(s) \in SUBSET Int
    <3>1. IsFiniteSet(1 .. Len(s))
      BY <1>a, FS_Interval
    <3> QED
      BY <1>a, <3>1, FS_Subset
  <2>2. N \in Nat /\ breaks \in [1 .. N -> Breaks(s)]
    BY <2>1, AscendingSpec
  <2>3. Len(breaks) = N
    BY <2>2
  <2>4. CutLines(s) = [n \in 1 .. N |-> SubSeq(s, start(n), breaks[n])]
    BY <2>3 DEF CutLines
  <2> HIDE DEF breaks, N
  <2>5. ASSUME NEW n \in 1 .. N
        PROVE  breaks[n] \in Int /\ 1 <= breaks[n] /\ breaks[n] <= Len(s)
    <3>1. breaks[n] \in Breaks(s)
      BY <2>2
    <3> QED
      BY <1>a, <3>1
  <2>6. ASSUME NEW n \in 1 .. N
        PROVE  start(n) \in Int /\ 1 <= start(n)
    <3>1. CASE n = 1
      BY <3>1
    <3>2. CASE n # 1
      <4>1. n - 1 \in 1 .. N
        BY <2>2, <3>2
      <4> QED
        BY <2>5, <3>2, <4>1
    <3> QED
      BY <3>1, <3>2
  <2> HIDE DEF start
  <2>7. \A n \in 1 .. N : SubSeq(s, start(n), breaks[n]) \in Line
    BY <1>b, <2>5, <2>6
  <2> QED
    BY <2>2, <2>4, <2>7
<1> QED
  BY <1>1, <1>2

(* What ReadChunk finds in the file beyond its offset, and makes lines of.    *)
New(f) == SubSeq(file[f].content, tail[f].offset + 1, Len(file[f].content))

LEMMA ReadChunkNames ==
    ASSUME ReadChunk
    PROVE  /\ pc = "read" /\ pc' = "lines"
           /\ \/ /\ New(current) = <<>> /\ chunk' = <<>> /\ UNCHANGED <<tail, muddled>>
              \/ /\ New(current) # <<>>
                 /\ chunk' = CutLines(tail[current].partial \o New(current))
                 /\ tail' = [tail EXCEPT
                               ![current].offset = Len(file[current].content),
                               ![current].partial = LeftOver(tail[current].partial \o New(current))]
                 /\ muddled' = IF Deceived(current) THEN muddled \cup {current} ELSE muddled
           /\ UNCHANGED <<worldVars, todo, current, table, bufferBytes, unwatches, log,
                          emitted, pressed, shrunk>>
BY DEF ReadChunk, New, Deceived

LEMMA NewType ==
    ASSUME Types, NEW f \in Files
    PROVE  New(f) \in Line /\ tail[f].partial \in Line /\ tail[f].partial \o New(f) \in Line
<1>1. /\ file[f].content \in Line /\ tail[f].partial \in Line /\ tail[f].offset \in Nat
  BY DEF Types, Tailed
<1>2. Len(file[f].content) \in Nat
  BY <1>1 DEF Line
<1>3. \A i \in tail[f].offset + 1 .. Len(file[f].content) : file[f].content[i] \in Piece
  BY <1>1, <1>2 DEF Line
<1>4. New(f) \in Line
  BY <1>1, <1>2, <1>3, SubSeqProperties DEF New, Line
<1> QED
  BY <1>1, <1>4 DEF Line

LEMMA ReadChunkTypes == ASSUME Types, ReaderPlaced, ReadChunk PROVE Types'
<1> DEFINE f == current
           all == tail[f].partial \o New(f)
<1>1. f \in Files
  BY ReadChunkNames DEF ReaderPlaced
<1>2. CutLines(all) \in Seq(Line) /\ LeftOver(all) \in Line /\ <<>> \in Seq(Line)
  BY <1>1, NewType, CuttingTypes
<1> HIDE DEF all
<1>3. chunk' \in Seq(Line)
  BY <1>2, ReadChunkNames DEF all
<1>4. tail' \in [Files -> Tailed]
  <2>1. Len(file[f].content) \in Nat /\ tail \in [Files -> Tailed]
    BY <1>1 DEF Types, Line
  <2>2. [tail[f] EXCEPT !.offset = Len(file[f].content), !.partial = LeftOver(all)] \in Tailed
    BY <1>1, <1>2, <2>1 DEF Tailed
  <2>3. CASE tail' = tail
    BY <2>1, <2>3
  <2>4. CASE tail' = [tail EXCEPT ![f].offset = Len(file[f].content),
                                  ![f].partial = LeftOver(all)]
    BY <1>1, <2>1, <2>2, <2>4
  <2> QED
    BY <2>3, <2>4, ReadChunkNames DEF all
<1> QED
  BY <1>3, <1>4, ReadChunkNames DEF Types, worldVars

LEMMA LookTypes == ASSUME Types, ReaderPlaced, Look PROVE Types'
<1> DEFINE f == current
<1>1. f \in Files
  BY DEF Look, ReaderPlaced
<1>2. tail' \in [Files -> Tailed]
  <2>1. file[f].inode \in Nat /\ tail \in [Files -> Tailed] /\ <<>> \in Line
    BY <1>1 DEF Types, Line
  <2>2. [tail[f] EXCEPT !.inode = file[f].inode, !.offset = 0, !.partial = <<>>] \in Tailed
    BY <1>1, <2>1 DEF Tailed
  <2>3. CASE tail' = tail
    BY <2>1, <2>3
  <2>4. CASE tail' = [tail EXCEPT ![f].inode = file[f].inode, ![f].offset = 0,
                                  ![f].partial = <<>>]
    BY <1>1, <2>1, <2>2, <2>4
  <2> QED
    BY <2>3, <2>4 DEF Look
<1> QED
  BY <1>2 DEF Look, Types, worldVars

LEMMA FlushQuietTypes == ASSUME Types, ReaderPlaced, FlushQuiet PROVE Types'
<1> DEFINE f == current
<1>1. f \in Files /\ tail \in [Files -> Tailed] /\ <<>> \in Seq(Event)
  BY DEF FlushQuiet, ReaderPlaced, Types
<1>2. tail[f] \in Tailed
  BY <1>1
<1>3. tail' \in [Files -> Tailed]
  <2>1. [tail[f] EXCEPT !.pending = <<>>] \in Tailed
    BY <1>1, <1>2 DEF Tailed
  <2> QED
    BY <1>1, <2>1 DEF FlushQuiet
<1>4. emitted' \in [Files -> Seq(Event)]
  <2>1. emitted[f] \o tail[f].pending \in Seq(Event)
    BY <1>1, <1>2 DEF Types, Tailed
  <2> QED
    BY <1>1, <2>1 DEF FlushQuiet, Types
<1> QED
  BY <1>3, <1>4 DEF FlushQuiet, Types, worldVars

(* The reader's steps that move no line.                                      *)
Turning == StartPoll \/ EndPoll \/ (\E f \in todo : NextFile(f)) \/ EndOfChunk

LEMMA TurningTypes == ASSUME Types, Turning PROVE Types'
BY DEF Turning, StartPoll, EndPoll, NextFile, EndOfChunk, Types, worldVars

LEMMA FreshTailType == ASSUME Types, NEW f \in Files PROVE FreshTail(f) \in Tailed
<1>1. file[f].inode \in Nat /\ Len(file[f].content) \in Nat
  BY SMTT(30) DEF Types, Line
<1>2. <<>> \in Line /\ <<>> \in Seq(Nat) /\ <<>> \in Seq(Event)
  BY DEF Line
<1> QED
  BY <1>1, <1>2 DEF FreshTail, Tailed

LEMMA WatchingTypes ==
    ASSUME Types, NEW f \in Files, Unwatch(f) \/ Watch(f)
    PROVE  Types'
<1>1. CASE Unwatch(f)
  BY <1>1, SMTT(30) DEF Unwatch, Types, worldVars, readerVars
<1>2. CASE Watch(f)
  BY <1>2, FreshTailType DEF Watch, Types, worldVars, readerVars
<1> QED
  BY <1>1, <1>2

LEMMA LinesAreNumbers ==
    ASSUME NEW c \in Line
    PROVE  \A i \in 1 .. Len(c) : c[i].line \in 1 .. MaxLines /\ c[i].line \in Int
<1> SUFFICES ASSUME NEW i \in 1 .. Len(c)
             PROVE  c[i].line \in 1 .. MaxLines /\ c[i].line \in Int
  OBVIOUS
<1>1. c[i] \in Piece
  BY DEF Line
<1> QED
  BY <1>1 DEF Piece

(* A piece at the end of what was written.                                    *)
LEMMA AppendRuns ==
    ASSUME NEW c \in Line, NEW piece \in Piece, InSequence(c),
           IF piece.part = "tail"
             THEN Len(c) > 0 /\ c[Len(c)].part = "head" /\ piece.line = c[Len(c)].line
             ELSE /\ Len(c) > 0 => c[Len(c)].part # "head"
                  /\ \A i \in 1 .. Len(c) : c[i].line < piece.line
    PROVE  /\ Append(c, piece) \in Line /\ Len(Append(c, piece)) = Len(c) + 1
           /\ Append(c, piece)[Len(c) + 1] = piece
           /\ \A i \in 1 .. Len(c) : Append(c, piece)[i] = c[i]
           /\ InSequence(Append(c, piece))
<1> DEFINE d == Append(c, piece)
           n == Len(c)
<1>1. /\ d \in Line /\ Len(d) = n + 1 /\ d[n + 1] = piece /\ n \in Nat
      /\ \A i \in 1 .. n : d[i] = c[i]
  BY DEF Line
<1>2. /\ n > 0 => c[1].part # "tail"
      /\ piece.part = "tail" => n > 0 /\ c[n].part = "head" /\ piece.line = c[n].line
      /\ piece.part # "tail" => (n > 0 => c[n].part # "head") /\ \A i \in 1 .. n : c[i].line < piece.line
  BY DEF InSequence
<1>r. /\ \A i \in 1 .. n : i + 1 <= n /\ c[i].part = "head" =>
                             c[i + 1].part = "tail" /\ c[i + 1].line = c[i].line
      /\ \A i \in 1 .. n : i + 1 <= n /\ c[i + 1].part = "tail" => c[i].part = "head"
      /\ \A i, j \in 1 .. n : i < j /\ c[i].part # "head" => c[i].line < c[j].line
  BY DEF InSequence, Running
<1> HIDE DEF d, n
<1>3. \A i \in 1 .. n + 1 : i = n + 1 \/ i \in 1 .. n
  BY <1>1
<1>4. ASSUME NEW i \in 1 .. n + 1, i + 1 <= n + 1
      PROVE  /\ d[i].part = "head" => d[i + 1].part = "tail" /\ d[i + 1].line = d[i].line
             /\ d[i + 1].part = "tail" => d[i].part = "head"
  <2>1. i \in 1 .. n
    BY <1>1, <1>4
  <2>2. CASE i = n
    BY <1>1, <1>2, <2>1, <2>2
  <2>3. CASE i + 1 <= n
    <3>1. i + 1 \in 1 .. n
      BY <1>1, <2>1, <2>3
    <3> QED
      BY <1>1, <1>r, <2>1, <2>3, <3>1
  <2> QED
    BY <1>1, <2>1, <2>2, <2>3
<1>5. ASSUME NEW i \in 1 .. n + 1, NEW j \in 1 .. n + 1, i < j, d[i].part # "head"
      PROVE  d[i].line < d[j].line
  <2>1. i \in 1 .. n
    BY <1>1, <1>5
  <2>2. CASE j \in 1 .. n
    BY <1>1, <1>r, <1>5, <2>1, <2>2
  <2>3. CASE j = n + 1
    <3>1. d[j] = piece /\ d[i] = c[i]
      BY <1>1, <2>1, <2>3
    <3>2. CASE piece.part = "tail"
      <4>1. i # n /\ i < n /\ n \in 1 .. n
        BY <1>1, <1>2, <1>5, <2>1, <3>1, <3>2
      <4>2. c[i].line < c[n].line
        BY <1>r, <1>5, <2>1, <3>1, <4>1
      <4> QED
        BY <1>2, <3>1, <3>2, <4>2
    <3> QED
      BY <1>2, <2>1, <3>1, <3>2
  <2> QED
    BY <1>3, <2>2, <2>3
<1>6. Running(d)
  BY <1>1, <1>4, <1>5 DEF Running
<1>7. d[1].part # "tail"
  <2>1. CASE n = 0
    BY <1>1, <1>2, <2>1
  <2>2. CASE n > 0
    <3>1. 1 \in 1 .. n
      BY <1>1, <2>2
    <3> QED
      BY <1>1, <1>2, <2>2, <3>1
  <2> QED
    BY <1>1, <2>1, <2>2
<1> QED
  BY <1>1, <1>6, <1>7 DEF InSequence, d, n

(* What a step of the workload does to the file.                              *)
LEMMA LineBegins ==
    ASSUME NEW f \in Files, NEW error \in BOOLEAN,
           WriteLine(f, error) \/ \E cut \in Cuts : BeginLine(f, error, cut)
    PROVE  \E whole \in BOOLEAN, cut \in Cuts \cup {"text"} :
              /\ file' = [file EXCEPT ![f].content =
                     Append(@, [line |-> lines + 1, part |-> IF whole THEN "whole" ELSE "head",
                                error |-> error, cut |-> cut])]
              /\ lines < MaxLines /\ lines' = lines + 1
              /\ halfway # f /\ (whole \/ halfway = NoFile)
              /\ halfway' = IF whole THEN halfway ELSE f
              /\ UNCHANGED <<todo, current, pc, chunk, table, tail, unwatches, log, emitted,
                             shrunk, muddled>>
<1>1. CASE WriteLine(f, error)
  <2> WITNESS TRUE \in BOOLEAN, "text" \in Cuts \cup {"text"}
  <2> QED
    BY <1>1 DEF WriteLine, AppendTo, readerVars, lossVars
<1>2. ASSUME NEW cut \in Cuts, BeginLine(f, error, cut)
      PROVE  \E whole \in BOOLEAN, mark \in Cuts \cup {"text"} :
              /\ file' = [file EXCEPT ![f].content =
                     Append(@, [line |-> lines + 1, part |-> IF whole THEN "whole" ELSE "head",
                                error |-> error, cut |-> mark])]
              /\ lines < MaxLines /\ lines' = lines + 1
              /\ halfway # f /\ (whole \/ halfway = NoFile)
              /\ halfway' = IF whole THEN halfway ELSE f
              /\ UNCHANGED <<todo, current, pc, chunk, table, tail, unwatches, log, emitted,
                             shrunk, muddled>>
  <2> WITNESS FALSE \in BOOLEAN, cut \in Cuts \cup {"text"}
  <2> QED
    BY <1>2, TailAssumption DEF BeginLine, AppendTo, readerVars, lossVars
<1> QED
  BY <1>1, <1>2

LEMMA WriteLineKeeps ==
    ASSUME Types, Written, NEW f \in Files, NEW error \in BOOLEAN,
           WriteLine(f, error) \/ \E cut \in Cuts : BeginLine(f, error, cut)
    PROVE  Types' /\ Written'
<1>0. PICK whole \in BOOLEAN, cut \in Cuts \cup {"text"} :
        /\ file' = [file EXCEPT ![f].content =
               Append(@, [line |-> lines + 1, part |-> IF whole THEN "whole" ELSE "head",
                          error |-> error, cut |-> cut])]
        /\ lines < MaxLines /\ lines' = lines + 1
        /\ halfway # f /\ (whole \/ halfway = NoFile)
        /\ halfway' = IF whole THEN halfway ELSE f
        /\ UNCHANGED <<todo, current, pc, chunk, table, tail, unwatches, log, emitted,
                       shrunk, muddled>>
  BY LineBegins
<1> DEFINE piece == [line |-> lines + 1, part |-> IF whole THEN "whole" ELSE "head",
                     error |-> error, cut |-> cut]
           c == file[f].content
<1>1. /\ c \in Line /\ file[f] \in [inode: Nat, content: Line] /\ lines \in Nat /\ lines < MaxLines
      /\ lines' = lines + 1 /\ MaxLines \in Nat
  BY <1>0, TailAssumption DEF Types
<1>2. piece \in Piece /\ piece.line = lines + 1 /\ piece.part = (IF whole THEN "whole" ELSE "head")
  BY <1>1 DEF Piece
<1>3. /\ file' = [file EXCEPT ![f].content = Append(c, piece)]
      /\ halfway # f
      /\ whole \/ halfway = NoFile
      /\ halfway' = IF whole THEN halfway ELSE f
  BY <1>0
<1> HIDE DEF piece
<1>4. /\ InSequence(c) /\ \A i \in 1 .. Len(c) : c[i].line <= lines
      /\ Len(c) > 0 => c[Len(c)].part # "head"
  <2>1. /\ InSequence(c) /\ \A i \in 1 .. Len(c) : c[i].line <= lines
        /\ halfway = f <=> Len(c) > 0 /\ c[Len(c)].part = "head"
    BY DEF Written
  <2> QED
    BY <1>3, <2>1
<1>5. \A i \in 1 .. Len(c) : c[i].line \in Int /\ c[i].line < piece.line
  <2>1. \A i \in 1 .. Len(c) : c[i].line \in Int
    BY <1>1, LinesAreNumbers
  <2> QED
    BY <1>1, <1>2, <1>4, <2>1
<1>6. /\ Append(c, piece) \in Line /\ Len(Append(c, piece)) = Len(c) + 1
      /\ Append(c, piece)[Len(c) + 1] = piece
      /\ \A i \in 1 .. Len(c) : Append(c, piece)[i] = c[i]
      /\ InSequence(Append(c, piece))
  BY <1>1, <1>2, <1>4, <1>5, AppendRuns
<1>7. /\ file' \in [Files -> [inode: Nat, content: Line]]
      /\ file'[f].content = Append(c, piece)
      /\ \A g \in Files : g # f => file'[g] = file[g]
  BY <1>1, <1>3, <1>6 DEF Types
<1>8. Types'
  <2>1. lines' \in 0 .. MaxLines /\ halfway' \in Files \cup {NoFile}
    BY <1>1, <1>3 DEF Types
  <2> QED
    BY <1>0, <1>7, <2>1 DEF Types
<1>9. Written'
  <2> SUFFICES ASSUME NEW g \in Files
               PROVE  /\ InSequence(file'[g].content)
                      /\ \A i \in 1 .. Len(file'[g].content) : file'[g].content[i].line <= lines'
                      /\ halfway' = g <=> Len(file'[g].content) > 0
                              /\ file'[g].content[Len(file'[g].content)].part = "head"
    BY DEF Written
  <2>1. CASE g = f
    <3>1. Len(c) \in Nat
      BY <1>1 DEF Line
    <3>2. ASSUME NEW i \in 1 .. Len(c) + 1
          PROVE  Append(c, piece)[i].line <= lines'
      <4>1. i \in 1 .. Len(c) \/ i = Len(c) + 1
        BY <3>1
      <4>2. CASE i \in 1 .. Len(c)
        <5>1. Append(c, piece)[i] = c[i] /\ c[i].line \in Int /\ c[i].line < piece.line
          BY <1>5, <1>6, <4>2
        <5>2. piece.line = lines'
          BY <1>1, <1>2
        <5>3. lines' \in Int
          BY <1>1
        <5> QED
          BY <5>1, <5>2, <5>3
      <4>3. CASE i = Len(c) + 1
        BY <1>1, <1>2, <1>6, <4>3
      <4> QED
        BY <4>1, <4>2, <4>3
    <3>3. halfway' = f <=> piece.part = "head"
      <4>1. CASE whole
        BY <1>2, <1>3, <4>1
      <4>2. CASE ~whole
        BY <1>2, <1>3, <4>2
      <4> QED
        BY <4>1, <4>2
    <3>4. Len(Append(c, piece)) > 0 /\ Append(c, piece)[Len(Append(c, piece))] = piece
      BY <1>6, <3>1
    <3> QED
      BY <1>6, <1>7, <2>1, <3>2, <3>3, <3>4
  <2>2. CASE g # f
    <3>1. file'[g] = file[g] /\ (halfway' = g <=> halfway = g)
      BY <1>3, <1>7, <2>2, TailAssumption
    <3>2. \A i \in 1 .. Len(file[g].content) : file[g].content[i].line \in Int
      BY LinesAreNumbers DEF Types
    <3> QED
      BY <1>1, <3>1, <3>2 DEF Written
  <2> QED
    BY <2>1, <2>2
<1> QED
  BY <1>8, <1>9

LEMMA FinishLineKeeps ==
    ASSUME Types, Written, NEW f \in Files, NEW error \in BOOLEAN, FinishLine(f, error)
    PROVE  Types' /\ Written'
<1> DEFINE c == file[f].content
           piece == [line |-> c[Len(c)].line, part |-> "tail", error |-> error,
                     cut |-> "text"]
<1>1. c \in Line /\ file[f] \in [inode: Nat, content: Line]
  BY DEF Types
<1>2. /\ halfway = f /\ halfway' = NoFile /\ lines' = lines
      /\ file' = [file EXCEPT ![f].content = Append(c, piece)]
  BY DEF FinishLine, AppendTo, Last
<1>3. /\ InSequence(c) /\ \A i \in 1 .. Len(c) : c[i].line <= lines
      /\ Len(c) > 0 /\ c[Len(c)].part = "head"
  BY <1>2 DEF Written
<1>4. Len(c) \in Nat /\ Len(c) \in 1 .. Len(c)
  BY <1>1, <1>3 DEF Line
<1>5. c[Len(c)].line \in 1 .. MaxLines /\ c[Len(c)].line <= lines
  BY <1>1, <1>3, <1>4, LinesAreNumbers
<1>6. piece \in Piece /\ piece.part = "tail" /\ piece.line = c[Len(c)].line
  BY <1>5 DEF Piece
<1> HIDE DEF piece
<1>7. /\ Append(c, piece) \in Line /\ Len(Append(c, piece)) = Len(c) + 1
      /\ Append(c, piece)[Len(c) + 1] = piece
      /\ \A i \in 1 .. Len(c) : Append(c, piece)[i] = c[i]
      /\ InSequence(Append(c, piece))
  BY <1>1, <1>3, <1>6, AppendRuns
<1>8. /\ file' \in [Files -> [inode: Nat, content: Line]]
      /\ file'[f].content = Append(c, piece)
      /\ \A g \in Files : g # f => file'[g] = file[g]
  BY <1>1, <1>2, <1>7 DEF Types
<1>9. Types'
  BY <1>2, <1>8 DEF FinishLine, Types, readerVars
<1>10. Written'
  <2> SUFFICES ASSUME NEW g \in Files
               PROVE  /\ InSequence(file'[g].content)
                      /\ \A i \in 1 .. Len(file'[g].content) : file'[g].content[i].line <= lines'
                      /\ halfway' = g <=> Len(file'[g].content) > 0
                              /\ file'[g].content[Len(file'[g].content)].part = "head"
    BY DEF Written
  <2>a. halfway' # g
    BY <1>2, TailAssumption
  <2>1. CASE g = f
    <3>2. ASSUME NEW i \in 1 .. Len(c) + 1
          PROVE  Append(c, piece)[i].line <= lines'
      <4>1. i \in 1 .. Len(c) \/ i = Len(c) + 1
        BY <1>4
      <4>2. CASE i \in 1 .. Len(c)
        BY <1>2, <1>3, <1>7, <4>2
      <4>3. CASE i = Len(c) + 1
        BY <1>2, <1>5, <1>6, <1>7, <4>3
      <4> QED
        BY <4>1, <4>2, <4>3
    <3>4. Append(c, piece)[Len(Append(c, piece))].part # "head"
      BY <1>6, <1>7
    <3> QED
      BY <1>7, <1>8, <2>a, <2>1, <3>2, <3>4
  <2>2. CASE g # f
    BY <1>2, <1>8, <2>a, <2>2 DEF Written
  <2> QED
    BY <2>1, <2>2
<1> QED
  BY <1>9, <1>10

LEMMA RotateKeeps ==
    ASSUME Types, Written, NEW f \in Files, NEW renamed \in BOOLEAN, Rotate(f, renamed)
    PROVE  Types' /\ Written'
<1>1. /\ file' = [file EXCEPT ![f] = [inode |-> IF renamed THEN @.inode + 1 ELSE @.inode,
                                      content |-> <<>>]]
      /\ halfway # f /\ halfway' = halfway /\ lines' = lines
  BY DEF Rotate
<1>2. file[f].inode \in Nat /\ <<>> \in Line /\ Len(<<>>) = 0
  BY DEF Types, Line
<1>3. /\ file' \in [Files -> [inode: Nat, content: Line]]
      /\ file'[f].content = <<>> /\ \A g \in Files : g # f => file'[g] = file[g]
  BY <1>1, <1>2 DEF Types
<1>4. Types'
  BY <1>1, <1>3 DEF Rotate, Types, readerVars
<1>5. InSequence(<<>>)
  BY <1>2 DEF InSequence, Running
<1>6. Written'
  BY <1>1, <1>2, <1>3, <1>5 DEF Written
<1> QED
  BY <1>4, <1>6

LEMMA NextTypes ==
    ASSUME Types, ReaderPlaced, Written, [Next]_vars
    PROVE  Types' /\ ReaderPlaced' /\ Written'
<1>1. CASE ReaderStep
  <2>1. Types'
    BY <1>1, TurningTypes, LookTypes, ReadChunkTypes, ProcessLineTypes, FlushQuietTypes
       DEF ReaderStep, Turning
  <2>2. Written'
    BY <1>1 DEF ReaderStep, StartPoll, EndPoll, NextFile, Look, ReadChunk, ProcessLine,
                EndOfChunk, FlushQuiet, worldVars, Written
  <2>3. ReaderPlaced'
    BY <1>1 DEF ReaderStep, StartPoll, EndPoll, NextFile, Look, ReadChunk, ProcessLine,
                EndOfChunk, FlushQuiet, ReaderPlaced, Types
  <2> QED
    BY <2>1, <2>2, <2>3
<1>2. ASSUME NEW f \in Files, Unwatch(f) \/ Watch(f)
      PROVE  Types' /\ ReaderPlaced' /\ Written'
  <2>1. ReaderPlaced'
    BY <1>2 DEF Unwatch, Watch, ReaderPlaced, readerVars, Types
  <2>2. Written'
    BY <1>2 DEF Unwatch, Watch, worldVars, Written
  <2> QED
    BY <1>2, <2>1, <2>2, WatchingTypes
<1>3. ASSUME NEW f \in Files,
             \/ \E error \in BOOLEAN :
                   WriteLine(f, error) \/ \E cut \in Cuts : BeginLine(f, error, cut)
             \/ \E error \in BOOLEAN : FinishLine(f, error)
             \/ \E renamed \in BOOLEAN : Rotate(f, renamed)
      PROVE  Types' /\ ReaderPlaced' /\ Written'
  <2>1. ReaderPlaced'
    BY <1>3 DEF WriteLine, BeginLine, FinishLine, Rotate, ReaderPlaced, readerVars
  <2> QED
    BY <1>3, <2>1, WriteLineKeeps, FinishLineKeeps, RotateKeeps
<1>4. CASE UNCHANGED vars
  BY <1>4 DEF vars, worldVars, readerVars, Types, ReaderPlaced, Written
<1> QED
  BY <1>1, <1>2, <1>3, <1>4 DEF Next

-----------------------------------------------------------------------------
(* The events                                                                 *)

(* Of a concatenation, each item is one part's.                               *)
LEMMA ConcatItems ==
    ASSUME NEW T, NEW s \in Seq(T), NEW t \in Seq(T), NEW i \in 1 .. Len(s \o t)
    PROVE  /\ Len(s \o t) = Len(s) + Len(t) /\ Len(s) \in Nat /\ Len(t) \in Nat /\ i \in Int
           /\ \/ i \in 1 .. Len(s) /\ (s \o t)[i] = s[i]
              \/ /\ i > Len(s) /\ i - Len(s) \in 1 .. Len(t)
                 /\ (s \o t)[i] = t[i - Len(s)]
<1>1. /\ Len(s \o t) = Len(s) + Len(t) /\ Len(s) \in Nat /\ Len(t) \in Nat
  OBVIOUS
<1>2. i \in Int /\ 1 <= i /\ i <= Len(s) + Len(t)
  BY <1>1
<1>3. CASE i <= Len(s)
  <2>1. (s \o t)[i] = s[i]
    BY <1>1, <1>2, <1>3
  <2> QED
    BY <1>1, <1>2, <1>3, <2>1
<1>4. CASE i > Len(s)
  <2>1. (s \o t)[i] = t[i - Len(s)]
    BY <1>1, <1>2, <1>4
  <2> QED
    BY <1>1, <1>2, <1>4, <2>1
<1> QED
  BY <1>1, <1>2, <1>3, <1>4

LEMMA OrderedConcat ==
    ASSUME NEW s \in Seq(Event), NEW t \in Seq(Event), Ordered(s), Ordered(t), Ahead(s, t)
    PROVE  Ordered(s \o t)
<1> SUFFICES ASSUME NEW i \in 1 .. Len(s \o t), NEW j \in 1 .. Len(s \o t), i < j
             PROVE  (s \o t)[i].at < (s \o t)[j].at
  BY DEF Ordered
<1>1. CASE i \in 1 .. Len(s) /\ (s \o t)[i] = s[i]
  <2>1. CASE j \in 1 .. Len(s) /\ (s \o t)[j] = s[j]
    BY <1>1, <2>1 DEF Ordered
  <2>2. CASE j - Len(s) \in 1 .. Len(t) /\ (s \o t)[j] = t[j - Len(s)]
    BY <1>1, <2>2 DEF Ahead
  <2> QED
    BY <2>1, <2>2, ConcatItems
<1>2. CASE /\ i > Len(s) /\ i - Len(s) \in 1 .. Len(t)
           /\ (s \o t)[i] = t[i - Len(s)]
  <2>1. /\ j > Len(s) /\ j - Len(s) \in 1 .. Len(t) /\ (s \o t)[j] = t[j - Len(s)]
        /\ i - Len(s) < j - Len(s)
    <3>1. i \in Int /\ j \in Int /\ Len(s) \in Int
      BY ConcatItems
    <3>2. ~(j \in 1 .. Len(s))
      BY <1>2, <3>1
    <3> QED
      BY <3>1, <3>2, ConcatItems
  <2> QED
    BY <1>2, <2>1 DEF Ordered
<1> QED
  BY <1>1, <1>2, ConcatItems

LEMMA PassedConcat ==
    ASSUME NEW s \in Seq(Event), NEW t \in Seq(Event), NEW n, Passed(s, n), Passed(t, n)
    PROVE  Passed(s \o t, n)
<1> SUFFICES ASSUME NEW i \in 1 .. Len(s \o t)
             PROVE  Surrounded((s \o t)[i]) /\ (s \o t)[i].at <= n
  BY DEF Passed
<1> QED
  BY ConcatItems DEF Passed

LEMMA WaitsConcat ==
    ASSUME NEW s \in Seq(Event), NEW t \in Seq(Event), NEW n, Waits(s, n), Waits(t, n)
    PROVE  Waits(s \o t, n)
<1> SUFFICES ASSUME NEW i \in 1 .. Len(s \o t)
             PROVE  Surrounded((s \o t)[i]) /\ (s \o t)[i].at + Len((s \o t)[i].after) = n
  BY DEF Waits
<1> QED
  BY ConcatItems DEF Waits

LEMMA AheadConcat ==
    ASSUME NEW s \in Seq(Event), NEW t \in Seq(Event), NEW v \in Seq(Event), NEW w \in Seq(Event),
           Ahead(s, v), Ahead(s, w), Ahead(t, v), Ahead(t, w)
    PROVE  Ahead(s \o t, v \o w)
<1> SUFFICES ASSUME NEW i \in 1 .. Len(s \o t), NEW j \in 1 .. Len(v \o w)
             PROVE  (s \o t)[i].at < (v \o w)[j].at
  BY DEF Ahead
<1> DEFINE from(x, a, b) == (\E k \in 1 .. Len(a) : x = a[k]) \/ (\E k \in 1 .. Len(b) : x = b[k])
<1>a. ASSUME NEW a \in Seq(Event), NEW b \in Seq(Event), NEW k \in 1 .. Len(a \o b)
      PROVE  from((a \o b)[k], a, b)
  <2>1. \/ k \in 1 .. Len(a) /\ (a \o b)[k] = a[k]
        \/ k - Len(a) \in 1 .. Len(b) /\ (a \o b)[k] = b[k - Len(a)]
    BY ConcatItems
  <2> QED
    BY <2>1
<1>1. from((s \o t)[i], s, t) /\ from((v \o w)[j], v, w)
  BY <1>a
<1>2. ASSUME NEW x, NEW y, from(x, s, t), from(y, v, w)
      PROVE  x.at < y.at
  BY <1>2 DEF Ahead
<1> HIDE DEF from
<1> QED
  BY <1>1, <1>2 DEF Ahead

LEMMA NothingWaits ==
    ASSUME NEW n, NEW s
    PROVE  Waits(<<>>, n) /\ Ordered(<<>>) /\ Ahead(s, <<>>)
BY DEF Waits, Ordered, Ahead

(* Steps that read no line and pass nothing on.                               *)
LEMMA EventsStay ==
    ASSUME EventsKnown, log' = log, emitted' = emitted,
           \A f \in Files : \/ /\ tail'[f].before = tail[f].before
                               /\ tail'[f].pending = tail[f].pending
                            \/ tail'[f].before = <<>> /\ tail'[f].pending = <<>>
    PROVE  EventsKnown'
<1> SUFFICES ASSUME NEW f \in Files
             PROVE  Known(Len(log[f]), tail'[f].before, tail'[f].pending, emitted[f])
  BY DEF EventsKnown
<1>1. Known(Len(log[f]), tail[f].before, tail[f].pending, emitted[f])
  BY DEF EventsKnown
<1>2. CASE tail'[f].before = tail[f].before /\ tail'[f].pending = tail[f].pending
  BY <1>1, <1>2
<1>3. CASE tail'[f].before = <<>> /\ tail'[f].pending = <<>>
  <2>1. Trailing(<<>>, Len(log[f]))
    BY DEF Trailing
  <2> QED
    BY <1>1, <1>3, <2>1, NothingWaits DEF Known
<1> QED
  BY <1>2, <1>3

LEMMA FlushQuietKnown == ASSUME Types, ReaderPlaced, EventsKnown, FlushQuiet PROVE EventsKnown'
<1> DEFINE f == current
           n == Len(log[f])
           w == tail[f].pending
           s == emitted[f]
<1>1. f \in Files /\ w \in Seq(Event) /\ s \in Seq(Event) /\ n \in Nat
  BY DEF FlushQuiet, ReaderPlaced, Types, Tailed
<1>2. /\ log' = log /\ emitted' = [emitted EXCEPT ![f] = @ \o w]
      /\ tail' = [tail EXCEPT ![f].pending = <<>>]
  BY DEF FlushQuiet
<1>3. Known(n, tail[f].before, w, s)
  BY <1>1 DEF EventsKnown
<1>4. Passed(w, n)
  <2> SUFFICES ASSUME NEW i \in 1 .. Len(w)
               PROVE  Surrounded(w[i]) /\ w[i].at <= n
    BY DEF Passed
  <2>1. w[i] \in Event /\ Surrounded(w[i]) /\ w[i].at + Len(w[i].after) = n
    BY <1>1, <1>3 DEF Known, Waits
  <2>2. w[i].at \in Nat /\ Len(w[i].after) \in Nat
    BY <2>1 DEF Event
  <2> QED
    BY <1>1, <2>1, <2>2
<1>5. Known(n, tail[f].before, <<>>, s \o w)
  <2>1. Passed(s \o w, n) /\ Ordered(s \o w)
    BY <1>1, <1>3, <1>4, PassedConcat, OrderedConcat DEF Known
  <2> QED
    BY <1>3, <2>1, NothingWaits DEF Known
<1>6. /\ tail'[f].before = tail[f].before /\ tail'[f].pending = <<>> /\ emitted'[f] = s \o w
      /\ \A g \in Files : g # f => tail'[g] = tail[g] /\ emitted'[g] = emitted[g]
  BY <1>1, <1>2 DEF Types, Tailed
<1> HIDE DEF w, s, n
<1> QED
  BY <1>2, <1>5, <1>6 DEF EventsKnown, n

(* Under buffer pressure or not.                                              *)
LEMMA AccountedKnown ==
    ASSUME Types, EventsKnown, NEW f \in Files
    PROVE  Known(Len(log[f]), Accounted[f].before, Accounted[f].pending, emitted[f])
<1> DEFINE n == Len(log[f])
           w == tail[f].pending
<1>1. Known(n, tail[f].before, w, emitted[f]) /\ w \in Seq(Event)
  BY DEF EventsKnown, Types, Tailed
<1>2. CASE Accounted[f].before = tail[f].before /\ Accounted[f].pending = w
  BY <1>1, <1>2
<1>3. CASE Accounted[f].before = <<>> /\ Accounted[f].pending = Newest(w)
  <2>1. \A i \in 1 .. Len(Newest(w)) : i = 1 /\ Newest(w)[i] = w[Len(w)] /\ Len(w) \in 1 .. Len(w)
    BY <1>1, NewestSpec
  <2>2. Waits(Newest(w), n) /\ Ordered(Newest(w)) /\ Ahead(emitted[f], Newest(w))
    BY <1>1, <2>1, SMTT(30) DEF Known, Waits, Ordered, Ahead
  <2>3. Trailing(<<>>, n)
    BY DEF Trailing
  <2> QED
    BY <1>1, <1>3, <2>2, <2>3 DEF Known
<1> QED
  BY <1>2, <1>3, AccountedSpec

LEMMA WindowKnown ==
    ASSUME NEW b \in Seq(Nat), NEW n \in Nat, Trailing(b, n)
    PROVE  Trailing(Window(b, n + 1), n + 1)
<1> DEFINE all == Append(b, n + 1)
<1>1. all \in Seq(Nat) /\ Len(all) = Len(b) + 1 /\ Len(b) \in Nat /\ all # <<>>
  OBVIOUS
<1>2. ASSUME NEW k \in 1 .. Len(b) + 1
      PROVE  all[k] = n - Len(b) + k
  <2>1. CASE k = Len(b) + 1
    BY <1>1, <2>1
  <2>2. CASE k \in 1 .. Len(b)
    <3>1. all[k] = b[k]
      BY <2>2
    <3> QED
      BY <2>2, <3>1 DEF Trailing
  <2> QED
    BY <1>1, <2>1, <2>2
<1>3. Trailing(all, n + 1)
  <2> SUFFICES ASSUME NEW k \in 1 .. Len(all)
               PROVE  all[k] = n + 1 - Len(all) + k
    BY DEF Trailing
  <2>1. k \in 1 .. Len(b) + 1 /\ k \in Int
    BY <1>1
  <2>2. n + 1 - Len(all) + k = n - Len(b) + k
    BY <1>1, <2>1
  <2> QED
    BY <1>2, <2>1, <2>2
<1> HIDE DEF all
<1>4. Trailing(Tail(all), n + 1)
  <2> DEFINE t == Tail(all)
             m == Len(b)
  <2>1. Len(t) = m /\ m \in Nat /\ \A k \in 1 .. m : t[k] = all[k + 1]
    BY <1>1, HeadTailProperties
  <2> HIDE DEF t
  <2>2. ASSUME NEW k \in 1 .. m
        PROVE  t[k] = n + 1 - m + k
    <3> HIDE DEF m
    <3>1. k \in Int /\ k + 1 \in 1 .. m + 1
      BY <2>1
    <3>2. all[k + 1] = n - m + (k + 1)
      BY <1>2, <3>1 DEF m
    <3> QED
      BY <2>1, <3>1, <3>2
  <2>3. Trailing(t, n + 1)
    BY <2>1, <2>2 DEF Trailing
  <2> QED
    BY <2>3 DEF t
<1> QED
  BY <1>3, <1>4 DEF Window, all

LEMMA AccountedTypes ==
    ASSUME Types, NEW f \in Files
    PROVE  /\ Accounted[f].before \in Seq(Nat) /\ Accounted[f].pending \in Seq(Event)
           /\ Followed(f) \in Seq(Event) /\ emitted[f] \in Seq(Event)
           /\ Len(Followed(f)) = Len(Accounted[f].pending) /\ Len(Followed(f)) \in Nat
           /\ Len(log[f]) \in Nat /\ ContextLines \in Nat
<1>1. Accounted[f].before \in Seq(Nat) /\ Accounted[f].pending \in Seq(Event)
  BY AccountedSpec DEF Tailed
<1>2. /\ Followed(f) \in Seq(Event) /\ Len(Followed(f)) = Len(Accounted[f].pending)
      /\ Len(Followed(f)) \in Nat
  BY FollowedType
<1>3. Len(log[f]) \in Nat /\ emitted[f] \in Seq(Event)
  BY DEF Types
<1>4. ContextLines \in Nat
  BY TailAssumption
<1> QED
  BY <1>1, <1>2, <1>3, <1>4

(* One more line for an event that waits.                                     *)
LEMMA FollowedItem ==
    ASSUME Types, EventsKnown, NEW f \in Files, NEW i \in 1 .. Len(Followed(f))
    PROVE  LET n == Len(log[f])
               e == Accounted[f].pending[i]
           IN  /\ i \in 1 .. Len(Accounted[f].pending) /\ e \in Event
               /\ e.at + Len(e.after) = n
               /\ Followed(f)[i].at = e.at /\ Surrounded(Followed(f)[i])
               /\ IF Len(e.after) < ContextLines
                    THEN Len(Followed(f)[i].after) = Len(e.after) + 1
                    ELSE Len(Followed(f)[i].after) = Len(e.after)
<1> DEFINE n == Len(log[f])
           e == Accounted[f].pending[i]
           u == Followed(f)[i]
<1>1. i \in 1 .. Len(Accounted[f].pending) /\ Accounted[f].pending \in Seq(Event) /\ n \in Nat
  <2>1. Len(Followed(f)) = Len(Accounted[f].pending) /\ n \in Nat
    BY AccountedTypes
  <2>2. Accounted[f].pending \in Seq(Event)
    BY AccountedTypes
  <2> QED
    BY <2>1, <2>2
<1>2. e \in Event /\ Surrounded(e) /\ e.at + Len(e.after) = n
  <2>1. Waits(Accounted[f].pending, n)
    BY AccountedKnown DEF Known
  <2>2. e \in Event
    BY <1>1
  <2> QED
    BY <1>1, <2>1, <2>2 DEF Waits
<1>3. u = IF Len(e.after) < ContextLines THEN [e EXCEPT !.after = Append(@, n + 1)] ELSE e
  BY <1>1 DEF Followed
<1> HIDE DEF e, u, n
<1>4. CASE Len(e.after) < ContextLines
  <2>1. /\ u.at = e.at /\ u.before = e.before /\ u.after = Append(e.after, n + 1)
        /\ e.at \in Nat /\ e.after \in Seq(Nat) /\ Len(e.after) \in Nat
    BY <1>2, <1>3, <1>4 DEF Event
  <2>2. Len(u.after) = Len(e.after) + 1
    BY <2>1
  <2>3. ASSUME NEW k \in 1 .. Len(e.after) + 1
        PROVE  u.after[k] = u.at + k
    <3>1. CASE k = Len(e.after) + 1
      <4>1. Append(e.after, n + 1)[Len(e.after) + 1] = n + 1
        BY <2>1
      <4>2. n + 1 = e.at + (Len(e.after) + 1)
        BY <1>2, <2>1
      <4> QED
        BY <2>1, <3>1, <4>1, <4>2
    <3>2. CASE k \in 1 .. Len(e.after)
      <4>1. u.after[k] = e.after[k]
        BY <2>1, <3>2
      <4> QED
        BY <1>2, <2>1, <3>2, <4>1 DEF Surrounded
    <3> QED
      BY <2>1, <3>1, <3>2
  <2>4. Surrounded(u)
    BY <1>2, <2>1, <2>2, <2>3 DEF Surrounded
  <2> QED
    BY <1>1, <1>2, <1>4, <2>1, <2>2, <2>4 DEF e, u, n
<1>5. CASE ~(Len(e.after) < ContextLines)
  BY <1>1, <1>2, <1>3, <1>5 DEF e, u, n
<1> QED
  BY <1>4, <1>5

(* Those with enough of them are the oldest.                                  *)
LEMMA FollowedKnown ==
    ASSUME Types, EventsKnown, NEW f \in Files
    PROVE  LET n == Len(log[f])
               u == Followed(f)
           IN  /\ Ordered(u)
               /\ \A i \in 1 .. Len(u) : Surrounded(u[i]) /\ u[i].at <= n
               /\ \A i \in (1 .. Len(u)) \ Complete(f) : u[i].at + Len(u[i].after) = n + 1
               /\ Ahead(emitted[f], u)
               /\ \A i \in Complete(f), j \in (1 .. Len(u)) \ Complete(f) : u[i].at < u[j].at
<1> DEFINE n == Len(log[f])
           w == Accounted[f].pending
           u == Followed(f)
<1>1. /\ n \in Nat /\ ContextLines \in Nat
      /\ u \in Seq(Event) /\ w \in Seq(Event) /\ Len(u) = Len(w) /\ Len(u) \in Nat
  BY AccountedTypes
<1>2. Known(n, Accounted[f].before, w, emitted[f])
  BY AccountedKnown
<1>3. ASSUME NEW i \in 1 .. Len(u)
      PROVE  /\ i \in 1 .. Len(w) /\ w[i].at \in Nat /\ Len(w[i].after) \in Nat
             /\ w[i].at + Len(w[i].after) = n
             /\ u[i].at = w[i].at /\ Surrounded(u[i])
             /\ Len(w[i].after) < ContextLines => Len(u[i].after) = Len(w[i].after) + 1
             /\ ~(Len(w[i].after) < ContextLines) => Len(u[i].after) = Len(w[i].after)
             /\ i \in Complete(f) <=> Len(u[i].after) >= ContextLines
  <2>1. w[i] \in Event => w[i].at \in Nat /\ Len(w[i].after) \in Nat
    BY DEF Event
  <2>2. i \in Complete(f) <=> Len(u[i].after) >= ContextLines
    BY DEF Complete
  <2> QED
    BY <2>1, <2>2, FollowedItem
<1> HIDE DEF u, w, n
<1>4. Ordered(u) /\ Ahead(emitted[f], u)
  BY <1>1, <1>2, <1>3 DEF Known, Ordered, Ahead
<1>5. ASSUME NEW i \in 1 .. Len(u)
      PROVE  u[i].at <= n /\ (i \notin Complete(f) => u[i].at + Len(u[i].after) = n + 1)
  <2>1. n \in Nat /\ w[i].at \in Nat /\ Len(w[i].after) \in Nat
    BY <1>1, <1>3
  <2>2. u[i].at = w[i].at /\ w[i].at + Len(w[i].after) = n
    BY <1>3
  <2>3. i \notin Complete(f) => Len(u[i].after) = Len(w[i].after) + 1
    <3>1. CASE Len(w[i].after) < ContextLines
      BY <1>3, <3>1
    <3>2. CASE ~(Len(w[i].after) < ContextLines)
      <4>1. Len(w[i].after) >= ContextLines
        BY <2>1, <3>2, TailAssumption
      <4> QED
        BY <1>3, <3>2, <4>1
    <3> QED
      BY <3>1, <3>2
  <2> QED
    BY <2>1, <2>2, <2>3, SMTT(30)
<1>6. ASSUME NEW i \in Complete(f), NEW j \in (1 .. Len(u)) \ Complete(f)
      PROVE  u[i].at < u[j].at
  <2>1. i \in 1 .. Len(u) /\ j \in 1 .. Len(u) /\ i \in Int /\ j \in Int
    BY <1>1 DEF Complete, u
  <2>2. CASE i < j
    BY <1>4, <2>1, <2>2 DEF Ordered
  <2>3. CASE i = j
    BY <2>3
  <2>4. CASE j < i
    <3>1. u[j].at < u[i].at
      BY <1>4, <2>1, <2>4 DEF Ordered
    <3>2. /\ u[i].at = w[i].at /\ w[i].at \in Nat /\ Len(w[i].after) \in Nat
          /\ w[i].at + Len(w[i].after) = n
          /\ Len(w[i].after) < ContextLines => Len(u[i].after) = Len(w[i].after) + 1
          /\ ~(Len(w[i].after) < ContextLines) => Len(u[i].after) = Len(w[i].after)
          /\ Len(u[i].after) >= ContextLines
      BY <1>3, <2>1
    <3>3. /\ u[j].at = w[j].at /\ w[j].at \in Nat /\ Len(w[j].after) \in Nat
          /\ w[j].at + Len(w[j].after) = n
          /\ Len(w[j].after) < ContextLines => Len(u[j].after) = Len(w[j].after) + 1
          /\ ~(Len(w[j].after) < ContextLines) => Len(u[j].after) = Len(w[j].after)
          /\ ~(Len(u[j].after) >= ContextLines)
      BY <1>3, <2>1
    <3>4. n \in Nat /\ ContextLines \in Nat
      BY <1>1
    <3> DEFINE ai == w[i].at  li == Len(w[i].after)  mi == Len(u[i].after)
               aj == w[j].at  lj == Len(w[j].after)  mj == Len(u[j].after)
    <3>5. /\ ai \in Nat /\ li \in Nat /\ aj \in Nat /\ lj \in Nat
          /\ ai + li = n /\ aj + lj = n /\ aj < ai
          /\ (li < ContextLines => mi = li + 1) /\ (lj < ContextLines => mj = lj + 1)
          /\ (~(lj < ContextLines) => mj = lj) /\ mi >= ContextLines /\ ~(mj >= ContextLines)
      BY <3>1, <3>2, <3>3
    <3> HIDE DEF ai, li, mi, aj, lj, mj
    <3> QED
      BY <3>4, <3>5
  <2> QED
    BY <2>1, <2>2, <2>3, <2>4
<1> QED
  BY <1>3, <1>4, <1>5, <1>6 DEF u, n

LEMMA FoundKnown ==
    ASSUME Types, EventsKnown, NEW f \in Files
    PROVE  LET n == Len(log[f])
           IN  /\ Found(f) \in Seq(Event) /\ Waits(Found(f), n + 1) /\ Ordered(Found(f))
               /\ \A i \in 1 .. Len(Found(f)) : Found(f)[i].at = n + 1
<1> DEFINE n == Len(log[f])
           b == Accounted[f].before
           e == [at |-> n + 1, before |-> b, after |-> <<>>]
<1>1. n \in Nat /\ b \in Seq(Nat) /\ <<>> \in Seq(Nat) /\ Trailing(b, n)
  <2>1. Trailing(b, n)
    BY AccountedKnown DEF Known
  <2> QED
    BY <2>1, AccountedTypes
<1>2. e \in Event /\ e.at = n + 1 /\ Len(e.after) = 0 /\ e.before = b
  BY <1>1 DEF Event
<1>3. Surrounded(e)
  <2>1. ASSUME NEW k \in 1 .. Len(b)
        PROVE  b[k] = n + 1 - Len(b) - 1 + k
    <3>1. b[k] = n - Len(b) + k
      BY <1>1 DEF Trailing
    <3>2. k \in Int /\ Len(b) \in Int /\ n \in Int
      BY <1>1
    <3> HIDE DEF n, b
    <3> QED
      BY <3>1, <3>2
  <2>2. \A k \in 1 .. Len(e.before) : e.before[k] = e.at - Len(e.before) - 1 + k
    <3> HIDE DEF e, n, b
    <3>1. e.at = n + 1 /\ e.before = b /\ n \in Int /\ Len(b) \in Int
      BY <1>1, <1>2
    <3> TAKE k \in 1 .. Len(e.before)
    <3>2. k \in 1 .. Len(b) /\ e.before[k] = b[k]
      BY <3>1
    <3>3. b[k] = n + 1 - Len(b) - 1 + k
      BY <2>1, <3>2
    <3>4. e.at - Len(e.before) - 1 + k = n + 1 - Len(b) - 1 + k
      BY <3>1, <3>2
    <3> QED
      BY <3>2, <3>3, <3>4
  <2>3. \A k \in 1 .. Len(e.after) : e.after[k] = e.at + k
    BY <1>2
  <2> HIDE DEF e
  <2> QED
    BY <2>2, <2>3 DEF Surrounded
<1> HIDE DEF e
<1>4. Found(f) = <<e>> \/ Found(f) = <<>>
  BY DEF Found, e
<1>5. \A i \in 1 .. Len(Found(f)) : i = 1 /\ Found(f)[i] = e
  <2>1. CASE Found(f) = <<e>>
    BY <2>1
  <2>2. CASE Found(f) = <<>>
    BY <2>2
  <2> QED
    BY <1>4, <2>1, <2>2
<1> HIDE DEF n
<1>6. Found(f) \in Seq(Event)
  <2>1. e \in Event
    BY <1>2
  <2>2. <<e>> \in Seq(Event) /\ <<>> \in Seq(Event)
    BY <2>1
  <2> QED
    BY <1>4, <2>2
<1>7. Waits(Found(f), n + 1)
  <2>1. e.at + Len(e.after) = n + 1
    BY <1>1, <1>2
  <2> QED
    BY <1>3, <1>5, <2>1 DEF Waits
<1>8. Ordered(Found(f))
  BY <1>5 DEF Ordered
<1> QED
  BY <1>2, <1>5, <1>6, <1>7, <1>8 DEF n

LEMMA ReadyAndWaiting ==
    ASSUME Types, EventsKnown, NEW f \in Files
    PROVE  LET n == Len(log[f])
           IN  /\ Ready(f) \in Seq(Event) /\ Passed(Ready(f), n + 1) /\ Ordered(Ready(f))
               /\ Waiting(f) \in Seq(Event) /\ Waits(Waiting(f), n + 1) /\ Ordered(Waiting(f))
               /\ Ahead(emitted[f], Ready(f)) /\ Ahead(emitted[f], Waiting(f))
               /\ Ahead(Ready(f), Waiting(f))
               /\ \A i \in 1 .. Len(Ready(f)) : Ready(f)[i].at <= n
               /\ \A i \in 1 .. Len(Waiting(f)) : Waiting(f)[i].at <= n
<1> DEFINE n == Len(log[f])
           u == Followed(f)
           C == Complete(f)
           D == (1 .. Len(u)) \ Complete(f)
           r == Ready(f)
           v == Waiting(f)
<1>1. /\ Ordered(u)
      /\ \A i \in 1 .. Len(u) : Surrounded(u[i]) /\ u[i].at <= n
      /\ \A i \in D : u[i].at + Len(u[i].after) = n + 1
      /\ Ahead(emitted[f], u)
      /\ \A i \in C, j \in D : u[i].at < u[j].at
  BY FollowedKnown
<1>2. n \in Nat /\ u \in Seq(Event) /\ \A i \in 1 .. Len(u) : u[i].at \in Nat
  <2>1. n \in Nat /\ u \in Seq(Event)
    BY AccountedTypes
  <2>2. \A i \in 1 .. Len(u) : u[i] \in Event
    BY <2>1
  <2> QED
    BY <2>1, <2>2 DEF Event
<1>3. C \in SUBSET (1 .. Len(u)) /\ D \in SUBSET (1 .. Len(u))
  BY DEF Complete
<1> DEFINE picks(S, t) ==
             /\ t \in Seq(Event)
             /\ \A i \in 1 .. Len(t) : \E k \in S : t[i] = u[k]
             /\ \A i, j \in 1 .. Len(t) : i < j => \E k, l \in S : k < l /\ t[i] = u[k] /\ t[j] = u[l]
<1>a. ASSUME NEW S \in SUBSET (1 .. Len(u))
      PROVE  picks(S, Picked(u, S))
  <2>1. u \in Seq(Event)
    BY <1>2
  <2> HIDE DEF u
  <2> QED
    BY <2>1, PickedSpec
<1>b. r = Picked(u, C) /\ v = Picked(u, D)
  BY DEF Ready, Waiting
<1> HIDE DEF u, n, C, D, r, v, picks
<1>4. picks(C, r)
  BY <1>3, <1>a, <1>b
<1>5. picks(D, v)
  BY <1>3, <1>a, <1>b
<1>6. ASSUME NEW S \in SUBSET (1 .. Len(u)), NEW t, picks(S, t)
      PROVE  Ordered(t)
  <2> SUFFICES ASSUME NEW i \in 1 .. Len(t), NEW j \in 1 .. Len(t), i < j
               PROVE  t[i].at < t[j].at
    BY DEF Ordered
  <2>1. PICK k \in S, l \in S : k < l /\ t[i] = u[k] /\ t[j] = u[l]
    BY <1>6 DEF picks
  <2>2. u[k].at < u[l].at
    BY <1>1, <2>1 DEF Ordered
  <2> QED
    BY <2>1, <2>2
<1>c. Ordered(r) /\ Ordered(v)
  BY <1>3, <1>4, <1>5, <1>6
<1> USE DEF picks
<1>7. Ahead(emitted[f], r) /\ Ahead(emitted[f], v)
  <2>1. ASSUME NEW S \in SUBSET (1 .. Len(u)), NEW t, picks(S, t)
        PROVE  Ahead(emitted[f], t)
    <3> SUFFICES ASSUME NEW i \in 1 .. Len(emitted[f]), NEW j \in 1 .. Len(t)
                 PROVE  emitted[f][i].at < t[j].at
      BY DEF Ahead
    <3>1. PICK k \in S : t[j] = u[k]
      BY <2>1
    <3> QED
      BY <1>1, <3>1 DEF Ahead
  <2> HIDE DEF picks
  <2> QED
    BY <1>3, <1>4, <1>5, <2>1
<1>8. Ahead(r, v)
  BY <1>1, <1>4, <1>5 DEF Ahead
<1>9. Waits(v, n + 1)
  BY <1>1, <1>3, <1>5 DEF Waits
<1>10. \A i \in 1 .. Len(r) : r[i].at <= n /\ r[i].at \in Nat /\ Surrounded(r[i])
  BY <1>1, <1>2, <1>3, <1>4
<1>11. \A i \in 1 .. Len(v) : v[i].at <= n
  BY <1>1, <1>3, <1>5
<1>12. Passed(r, n + 1)
  <2> SUFFICES ASSUME NEW i \in 1 .. Len(r)
               PROVE  Surrounded(r[i]) /\ r[i].at <= n + 1
    BY DEF Passed
  <2>1. Surrounded(r[i]) /\ r[i].at <= n /\ r[i].at \in Nat /\ n \in Nat
    BY <1>2, <1>10
  <2> QED
    BY <2>1
<1> QED
  BY <1>4, <1>5, <1>c, <1>7, <1>8, <1>9, <1>10, <1>11, <1>12 DEF r, v, n

(* One more line read.                                                        *)
LEMMA OneMoreLine ==
    ASSUME Types, EventsKnown, NEW f \in Files
    PROVE  LET n == Len(log[f])
           IN  Known(n + 1, Window(Accounted[f].before, n + 1), Waiting(f) \o Found(f),
                     emitted[f] \o Ready(f))
<1> DEFINE n == Len(log[f])
           s == emitted[f]
           r == Ready(f)
           v == Waiting(f)
           w == Found(f)
<1>1. /\ r \in Seq(Event) /\ Passed(r, n + 1) /\ Ordered(r)
      /\ v \in Seq(Event) /\ Waits(v, n + 1) /\ Ordered(v)
      /\ Ahead(s, r) /\ Ahead(s, v) /\ Ahead(r, v)
      /\ \A i \in 1 .. Len(r) : r[i].at <= n
      /\ \A i \in 1 .. Len(v) : v[i].at <= n
  BY ReadyAndWaiting
<1>2. /\ w \in Seq(Event) /\ Waits(w, n + 1) /\ Ordered(w)
      /\ \A i \in 1 .. Len(w) : w[i].at = n + 1
  BY FoundKnown
<1>3. n \in Nat /\ s \in Seq(Event) /\ Accounted[f].before \in Seq(Nat)
  BY AccountedTypes
<1>4. Trailing(Accounted[f].before, n) /\ Passed(s, n) /\ Ordered(s)
  BY AccountedKnown DEF Known
<1>5. ASSUME NEW t \in Seq(Event), \A i \in 1 .. Len(t) : t[i].at <= n
      PROVE  Ahead(t, w)
  <2> SUFFICES ASSUME NEW i \in 1 .. Len(t), NEW j \in 1 .. Len(w)
               PROVE  t[i].at < w[j].at
    BY DEF Ahead
  <2>1. t[i] \in Event
    BY <1>5
  <2>2. t[i].at <= n /\ w[j].at = n + 1 /\ t[i].at \in Nat
    BY <1>2, <1>5, <2>1 DEF Event
  <2> HIDE DEF n, w
  <2> QED
    BY <1>3, <2>2
<1> HIDE DEF n, r, v, w, s
<1>6. Ahead(v, w) /\ Ahead(r, w) /\ Ahead(s, w)
  BY <1>1, <1>3, <1>4, <1>5 DEF Passed
<1>7. Passed(s, n + 1)
  <2> SUFFICES ASSUME NEW i \in 1 .. Len(s)
               PROVE  Surrounded(s[i]) /\ s[i].at <= n + 1
    BY DEF Passed
  <2>1. s[i] \in Event
    BY <1>3
  <2>2. Surrounded(s[i]) /\ s[i].at <= n /\ s[i].at \in Nat
    BY <1>4, <2>1 DEF Passed, Event
  <2> QED
    BY <1>3, <2>2
<1>8. Trailing(Window(Accounted[f].before, n + 1), n + 1)
  BY <1>3, <1>4, WindowKnown
<1>9. Waits(v \o w, n + 1) /\ Ordered(v \o w)
  BY <1>1, <1>2, <1>6, WaitsConcat, OrderedConcat
<1>10. Passed(s \o r, n + 1) /\ Ordered(s \o r)
  BY <1>1, <1>3, <1>4, <1>7, PassedConcat, OrderedConcat
<1>11. Ahead(s \o r, v \o w)
  BY <1>1, <1>2, <1>3, <1>6, AheadConcat
<1> QED
  BY <1>8, <1>9, <1>10, <1>11 DEF Known, n, r, v, w, s

LEMMA ProcessLineKnown ==
    ASSUME Types, ReaderPlaced, EventsKnown, ProcessLine
    PROVE  EventsKnown'
<1> DEFINE f == current
           n == Len(log[f])
<1>1. f \in Files /\ chunk # <<>> /\ chunk \in Seq(Line)
  BY ProcessLineNames DEF ReaderPlaced, Types
<1>2. /\ log'[f] = Append(log[f], Head(chunk))
      /\ \A g \in Files : g # f => log'[g] = log[g]
  BY <1>1, ProcessLineNames DEF Types
<1>3. Len(log'[f]) = n + 1
  <2>1. Head(chunk) \in Line /\ log[f] \in Seq(Line)
    BY <1>1, HeadTailProperties DEF Types
  <2> QED
    BY <1>2, <2>1
<1>4. /\ emitted'[f] = emitted[f] \o Ready(f)
      /\ \A g \in Files : g # f => emitted'[g] = emitted[g]
  BY <1>1, ProcessLineNames DEF Types
<1>5. Accounted \in [Files -> Tailed]
  BY AccountedSpec
<1>6. /\ tail'[f].pending = Waiting(f) \o Found(f)
      /\ tail'[f].before = Window(Accounted[f].before, n + 1)
      /\ \A g \in Files : g # f => tail'[g] = Accounted[g]
  BY <1>1, <1>5, ProcessLineNames DEF Tailed
<1> SUFFICES ASSUME NEW g \in Files
             PROVE  Known(Len(log'[g]), tail'[g].before, tail'[g].pending, emitted'[g])
  BY DEF EventsKnown
<1>7. CASE g = f
  <2>1. Known(n + 1, Window(Accounted[f].before, n + 1), Waiting(f) \o Found(f),
              emitted[f] \o Ready(f))
    BY <1>1, OneMoreLine
  <2> QED
    BY <1>3, <1>4, <1>6, <1>7, <2>1
<1>8. CASE g # f
  BY <1>2, <1>4, <1>6, <1>8, AccountedKnown
<1> QED
  BY <1>7, <1>8

LEMMA NextEvents ==
    ASSUME Types, ReaderPlaced, EventsKnown, [Next]_vars
    PROVE  EventsKnown'
<1>1. ASSUME log' = log, emitted' = emitted, tail' = tail
      PROVE  EventsKnown'
  BY <1>1, EventsStay
<1>2. CASE Turning
  BY <1>1, <1>2 DEF Turning, StartPoll, EndPoll, NextFile, EndOfChunk
<1>3. CASE Look
  <2>1. \A f \in Files : tail'[f].before = tail[f].before /\ tail'[f].pending = tail[f].pending
    BY <1>3 DEF Look, ReaderPlaced, Types, Tailed
  <2> QED
    BY <1>3, <2>1, EventsStay DEF Look
<1>4. CASE ReadChunk
  <2>1. \A f \in Files : tail'[f].before = tail[f].before /\ tail'[f].pending = tail[f].pending
    <3>1. tail \in [Files -> Tailed] /\ current \in Files
      BY <1>4, ReadChunkNames DEF ReaderPlaced, Types
    <3>2. CASE tail' = [tail EXCEPT
                 ![current].offset = Len(file[current].content),
                 ![current].partial = LeftOver(tail[current].partial \o New(current))]
      BY <3>1, <3>2 DEF Tailed
    <3> QED
      BY <1>4, <3>2, ReadChunkNames
  <2> QED
    BY <1>4, <2>1, ReadChunkNames, EventsStay
<1>5. CASE ProcessLine
  BY <1>5, ProcessLineKnown
<1>6. CASE FlushQuiet
  BY <1>6, FlushQuietKnown
<1>7. ASSUME NEW f \in Files, Watch(f)
      PROVE  EventsKnown'
  <2>1. \A g \in Files : IF g = f THEN tail'[g].before = <<>> /\ tail'[g].pending = <<>>
                                  ELSE tail'[g] = tail[g]
    BY <1>7 DEF Watch, FreshTail, Types
  <2> QED
    BY <1>7, <2>1, EventsStay DEF Watch
<1>8. ASSUME NEW f \in Files,
             \/ Unwatch(f)
             \/ \E error \in BOOLEAN :
                   WriteLine(f, error) \/ \E cut \in Cuts : BeginLine(f, error, cut)
             \/ \E error \in BOOLEAN : FinishLine(f, error)
             \/ \E renamed \in BOOLEAN : Rotate(f, renamed)
      PROVE  EventsKnown'
  BY <1>1, <1>8 DEF Unwatch, WriteLine, BeginLine, FinishLine, Rotate
<1>9. CASE UNCHANGED vars
  BY <1>1, <1>9 DEF vars
<1> QED
  BY <1>2, <1>3, <1>4, <1>5, <1>6, <1>7, <1>8, <1>9 DEF Next, ReaderStep, Turning

-----------------------------------------------------------------------------
(* The lines                                                                  *)

(* A workload let go of and a line begun excuse more.                         *)
LEMMA SoundStays ==
    ASSUME NEW s \in Seq(Line), NEW u \in Nat, NEW v \in Nat, NEW n \in Nat, NEW m \in Nat,
           SoundLines(s, u, n), u <= v, n <= m,
           \A i \in 1 .. Len(s) : s[i][1].line \in Int
    PROVE  SoundLines(s, v, m)
<1>1. u > 0 => v > 0
  OBVIOUS
<1>2. \A i \in 1 .. Len(s) : s[i][1].line <= m
  BY DEF SoundLines
<1> QED
  BY <1>1, <1>2 DEF SoundLines

(* A sound line has a number.                                                 *)
LEMMA SoundNumbers ==
    ASSUME NEW s \in Seq(Line), NEW u, NEW n, SoundLines(s, u, n)
    PROVE  \A i \in 1 .. Len(s) : s[i][1].line \in Int
<1> SUFFICES ASSUME NEW i \in 1 .. Len(s)
             PROVE  s[i][1].line \in Int
  OBVIOUS
<1>1. s[i] \in Line /\ (Len(s[i]) = 1 \/ Len(s[i]) = 2)
  BY DEF SoundLines, WholeLine
<1>2. 1 \in 1 .. Len(s[i])
  <2>1. CASE Len(s[i]) = 1
    BY <2>1
  <2>2. CASE Len(s[i]) = 2
    BY <2>2
  <2> QED
    BY <1>1, <2>1, <2>2
<1> QED
  BY <1>1, <1>2, LinesAreNumbers

LEMMA AtStays ==
    ASSUME NEW t, NEW c, NEW u \in Nat, NEW v \in Nat, At(t, c, u), u <= v
    PROVE  At(t, c, v)
BY DEF At

LEMMA TakenType ==
    ASSUME Types, NEW f \in Files
    PROVE  Taken(f) \in Seq(Line)
BY DEF Types, Taken

(* Steps that take nothing more from the files, which are as they were.       *)
LEMMA ReadingStays ==
    ASSUME Types, Types', TakenSoundly, Placed, UNCHANGED <<file, lines, shrunk, muddled>>,
           unwatches <= unwatches',
           \A f \in Files : /\ Taken(f)' = Taken(f)
                            /\ tail'[f].inode = tail[f].inode
                            /\ tail'[f].offset = tail[f].offset
                            /\ tail'[f].partial = tail[f].partial
    PROVE  TakenSoundly' /\ Placed'
<1>1. unwatches \in Nat /\ unwatches' \in Nat /\ lines \in Nat
  BY DEF Types
<1>2. TakenSoundly'
  <2> SUFFICES ASSUME NEW f \in Files \ muddled
               PROVE  SoundLines(Taken(f), unwatches', lines)
    BY DEF TakenSoundly
  <2>1. SoundLines(Taken(f), unwatches, lines) /\ Taken(f) \in Seq(Line)
    BY TakenType DEF TakenSoundly
  <2> QED
    BY <1>1, <2>1, SoundStays, SoundNumbers
<1>3. ASSUME NEW f \in Files
      PROVE  /\ Deceived(f)' = Deceived(f) /\ Reached(f)' = Reached(f)
             /\ At(tail[f], file[f].content, unwatches) =>
                   At(tail'[f], file[f].content, unwatches')
  <2>1. Deceived(f)' = Deceived(f) /\ Reached(f)' = Reached(f)
    BY DEF Deceived, Reached
  <2>2. At(tail[f], file[f].content, unwatches) => At(tail[f], file[f].content, unwatches')
    BY <1>1, AtStays
  <2>3. At(tail[f], file[f].content, unwatches') => At(tail'[f], file[f].content, unwatches')
    BY DEF At
  <2> QED
    BY <2>1, <2>2, <2>3
<1>4. Placed'
  BY <1>3 DEF Placed
<1> QED
  BY <1>2, <1>4

LEMMA TurningReads ==
    ASSUME Types, Types', ReaderPlaced, TakenSoundly, Placed,
           Turning \/ FlushQuiet \/ (\E f \in Files : Unwatch(f)) \/ UNCHANGED vars
    PROVE  TakenSoundly' /\ Placed'
<1>1. UNCHANGED <<file, lines, shrunk, muddled, log>>
  BY DEF Turning, StartPoll, EndPoll, NextFile, EndOfChunk, FlushQuiet, Unwatch, vars,
         worldVars, lossVars
<1>2. \A f \in Files : Taken(f)' = Taken(f)
  <2>1. \/ UNCHANGED <<current, chunk>>
        \/ chunk = <<>> /\ chunk' = <<>>
    BY DEF Turning, StartPoll, EndPoll, NextFile, EndOfChunk, FlushQuiet, Unwatch, vars,
           worldVars, readerVars, ReaderPlaced
  <2>2. \A f \in Files : log[f] \o <<>> = log[f]
    BY DEF Types
  <2> QED
    BY <1>1, <2>1, <2>2 DEF Taken
<1>3. unwatches <= unwatches'
  BY DEF Turning, StartPoll, EndPoll, NextFile, EndOfChunk, FlushQuiet, Unwatch, vars, Types
<1>4. \A f \in Files : /\ tail'[f].inode = tail[f].inode
                       /\ tail'[f].offset = tail[f].offset
                       /\ tail'[f].partial = tail[f].partial
  <2>1. CASE FlushQuiet
    <3>1. tail' = [tail EXCEPT ![current].pending = <<>>] /\ tail \in [Files -> Tailed]
      BY <2>1 DEF FlushQuiet, Types
    <3> TAKE f \in Files
    <3>2. tail[f] \in Tailed /\ tail'[f] = IF f = current THEN [tail[f] EXCEPT !.pending = <<>>]
                                                          ELSE tail[f]
      BY <3>1
    <3> QED
      BY <3>2 DEF Tailed
  <2>2. CASE tail' = tail
    BY <2>2
  <2> QED
    BY <2>1, <2>2 DEF Turning, StartPoll, EndPoll, NextFile, EndOfChunk, Unwatch, vars
<1> QED
  BY <1>1, <1>2, <1>3, <1>4, ReadingStays

LEMMA ProcessLineReads ==
    ASSUME Types, Types', ReaderPlaced, TakenSoundly, Placed, ProcessLine
    PROVE  TakenSoundly' /\ Placed'
<1> DEFINE f == current
<1>1. f \in Files /\ chunk # <<>> /\ chunk \in Seq(Line) /\ log[f] \in Seq(Line)
  BY ProcessLineNames DEF ReaderPlaced, Types
<1>2. Append(log[f], Head(chunk)) \o Tail(chunk) = log[f] \o chunk
  BY <1>1
<1>3. \A g \in Files : Taken(g)' = Taken(g)
  BY <1>1, <1>2, ProcessLineNames DEF Taken, Types
<1>4. \A g \in Files : /\ tail'[g].inode = tail[g].inode
                       /\ tail'[g].offset = tail[g].offset
                       /\ tail'[g].partial = tail[g].partial
  <2>1. Accounted \in [Files -> Tailed]
    BY AccountedSpec
  <2>2. \A g \in Files : /\ tail'[g].inode = Accounted[g].inode
                         /\ tail'[g].offset = Accounted[g].offset
                         /\ tail'[g].partial = Accounted[g].partial
    <3>1. /\ tail'[f] = [Accounted[f] EXCEPT
                            !.pending = Waiting(f) \o Found(f),
                            !.before = Window(Accounted[f].before, Len(log[f]) + 1)]
          /\ \A g \in Files : g # f => tail'[g] = Accounted[g]
      BY <1>1, <2>1, ProcessLineNames
    <3>2. /\ tail'[f].inode = Accounted[f].inode
          /\ tail'[f].offset = Accounted[f].offset
          /\ tail'[f].partial = Accounted[f].partial
      <4>1. Accounted[f] \in Tailed
        BY <1>1, <2>1
      <4> QED
        BY <3>1, <4>1 DEF Tailed
    <3> QED
      BY <3>1, <3>2
  <2> QED
    BY <2>2, AccountedSpec
<1>5. UNCHANGED <<file, lines, shrunk, muddled, unwatches>> /\ unwatches <= unwatches'
  BY ProcessLineNames DEF worldVars, lossVars, Types
<1> QED
  BY <1>3, <1>4, <1>5, ReadingStays

LEMMA LookReads ==
    ASSUME Types, Types', ReaderPlaced, TakenSoundly, Placed, Look
    PROVE  TakenSoundly' /\ Placed'
<1> DEFINE f == current
           rotated == file[f].inode # tail[f].inode \/ Len(file[f].content) < tail[f].offset
<1>1. /\ f \in Files /\ chunk = <<>>
      /\ UNCHANGED <<file, lines, muddled, unwatches, log, current, chunk>>
  BY DEF Look, ReaderPlaced, worldVars
<1>2. \A g \in Files : Taken(g)' = Taken(g)
  BY <1>1 DEF Taken
<1>3. unwatches <= unwatches'
  BY <1>1 DEF Types
<1>4. CASE ~rotated
  <2>1. tail' = tail /\ shrunk' = shrunk
    BY <1>4 DEF Look
  <2> QED
    BY <1>1, <1>2, <1>3, <2>1, ReadingStays
<1>5. CASE rotated
  <2>1. /\ tail' = [tail EXCEPT ![f].inode = file[f].inode, ![f].offset = 0,
                                ![f].partial = <<>>]
        /\ shrunk' = shrunk \ {f}
    BY <1>5 DEF Look
  <2>2. /\ tail'[f].inode = file[f].inode /\ tail'[f].offset = 0 /\ tail'[f].partial = <<>>
        /\ \A g \in Files : g # f => tail'[g] = tail[g]
    BY <1>1, <2>1 DEF Types, Tailed
  <2>3. Len(file[f].content) \in Nat /\ file[f].inode \in Nat
    BY <1>1, SMTT(30) DEF Types, Line
  <2>4. Deceived(f)
    <3>1. CASE Len(file[f].content) < tail[f].offset
      <4>1. tail[f].offset \in Nat /\ ~(tail[f].offset <= Len(file[f].content))
        BY <1>1, <2>3, <3>1 DEF Types, Tailed
      <4> QED
        BY <1>1, <4>1 DEF Placed, At
    <3> QED
      BY <1>5, <3>1 DEF Deceived
  <2>5. ~Deceived(f)' /\ Reached(f)' = Reached(f)
    BY <1>1, <2>1, <2>2, <2>4 DEF Deceived, Reached
  <2>6. At(tail'[f], file[f].content, unwatches')
    BY <2>2, <2>3 DEF At
  <2>7. TakenSoundly'
    BY <1>1, <1>2 DEF TakenSoundly
  <2>8. \A g \in Files : g # f => (Deceived(g)' <=> Deceived(g)) /\ Reached(g)' = Reached(g)
    <3> TAKE g \in Files
    <3> HAVE g # f
    <3>1. tail'[g] = tail[g] /\ file' = file /\ (g \in shrunk' <=> g \in shrunk)
      BY <1>1, <2>1, <2>2
    <3>2. Deceived(g)' <=> Deceived(g)
      BY <3>1 DEF Deceived
    <3> QED
      BY <3>1, <3>2 DEF Reached
  <2>9. Placed'
    <3> SUFFICES ASSUME NEW g \in Files
                 PROVE  /\ tail'[g].inode <= file'[g].inode
                        /\ g \notin muddled' => Unread(Taken(g)', file'[g].content, Reached(g)')
                        /\ ~Deceived(g)' => At(tail'[g], file'[g].content, unwatches')
      BY DEF Placed
    <3>1. CASE g = f
      BY <1>1, <1>2, <2>2, <2>3, <2>5, <2>6, <3>1 DEF Placed
    <3>2. CASE g # f
      BY <1>1, <1>2, <2>2, <2>8, <3>2 DEF Placed
    <3> QED
      BY <3>1, <3>2
  <2> QED
    BY <2>7, <2>9
<1> QED
  BY <1>4, <1>5

LEMMA WatchReads ==
    ASSUME Types, Types', ReaderPlaced, TakenSoundly, Placed, NEW f \in Files, Watch(f)
    PROVE  TakenSoundly' /\ Placed'
<1>1. /\ UNCHANGED <<file, lines, muddled, unwatches, log, current, chunk>>
      /\ tail' = [tail EXCEPT ![f] = FreshTail(f)] /\ shrunk' = shrunk \ {f}
      /\ f \notin table
  BY DEF Watch, worldVars, readerVars
<1>2. \A g \in Files : Taken(g)' = Taken(g)
  BY <1>1 DEF Taken
<1>3. unwatches > 0
  BY <1>1 DEF ReaderPlaced
<1>4. /\ tail'[f].inode = file[f].inode /\ tail'[f].offset = Len(file[f].content)
      /\ tail'[f].partial = <<>>
      /\ \A g \in Files : g # f => tail'[g] = tail[g]
  BY <1>1 DEF Types, FreshTail
<1>5. Len(file[f].content) \in Nat /\ file[f].inode \in Nat
  <2>1. file[f].content \in Line /\ file[f].inode \in Nat
    BY DEF Types
  <2> QED
    BY <2>1 DEF Line
<1>6. ~Deceived(f)' /\ Reached(f)' = Len(file[f].content)
  <2>1. Len(<<>>) = 0
    OBVIOUS
  <2> QED
    BY <1>1, <1>4, <1>5, <2>1 DEF Deceived, Reached
<1>7. At(tail'[f], file[f].content, unwatches')
  BY <1>1, <1>3, <1>4, <1>5 DEF At
<1>8. TakenSoundly'
  BY <1>1, <1>2 DEF TakenSoundly
<1>9. \A g \in Files : g # f => (Deceived(g)' <=> Deceived(g)) /\ Reached(g)' = Reached(g)
  BY <1>1, <1>4 DEF Deceived, Reached
<1>10. f \notin muddled => Unread(Taken(f), file[f].content, Len(file[f].content))
  <2> SUFFICES ASSUME f \notin muddled,
                      NEW i \in 1 .. Len(Taken(f)), NEW j \in 1 .. Len(file[f].content),
                      \/ j > Len(file[f].content)
                      \/ j = Len(file[f].content) /\ file[f].content[j].part = "head"
               PROVE  Taken(f)[i][1].line < file[f].content[j].line
    BY DEF Unread
  <2>1. j = Len(file[f].content) /\ file[f].content[j].part = "head"
    BY <1>5
  <2> QED
    BY <2>1 DEF Placed, Unread
<1>11. Placed'
  <2> SUFFICES ASSUME NEW g \in Files
               PROVE  /\ tail'[g].inode <= file'[g].inode
                      /\ g \notin muddled' => Unread(Taken(g)', file'[g].content, Reached(g)')
                      /\ ~Deceived(g)' => At(tail'[g], file'[g].content, unwatches')
    BY DEF Placed
  <2>1. CASE g = f
    BY <1>1, <1>2, <1>4, <1>5, <1>6, <1>7, <1>10, <2>1
  <2>2. CASE g # f
    BY <1>1, <1>2, <1>4, <1>9, <2>2 DEF Placed
  <2> QED
    BY <2>1, <2>2
<1> QED
  BY <1>8, <1>11

LEMMA RotateReads ==
    ASSUME Types, Types', TakenSoundly, Placed, NEW f \in Files, NEW renamed \in BOOLEAN,
           Rotate(f, renamed)
    PROVE  TakenSoundly' /\ Placed'
<1>1. /\ UNCHANGED <<lines, muddled, unwatches, log, current, chunk, tail>>
      /\ file' = [file EXCEPT ![f] = [inode |-> IF renamed THEN @.inode + 1 ELSE @.inode,
                                      content |-> <<>>]]
      /\ shrunk' = IF renamed THEN shrunk ELSE shrunk \cup {f}
  BY DEF Rotate, readerVars
<1>2. \A g \in Files : Taken(g)' = Taken(g)
  BY <1>1 DEF Taken
<1>3. file[f].inode \in Nat /\ tail[f].inode \in Nat /\ tail[f].inode <= file[f].inode
  BY DEF Types, Tailed, Placed
<1>4. /\ file'[f].inode = (IF renamed THEN file[f].inode + 1 ELSE file[f].inode)
      /\ file'[f].content = <<>>
      /\ \A g \in Files : g # f => file'[g] = file[g]
  BY <1>1 DEF Types
<1>5. Deceived(f)' /\ tail[f].inode <= file'[f].inode
  BY <1>1, <1>3, <1>4 DEF Deceived
<1>6. \A g \in Files : g # f => (Deceived(g)' <=> Deceived(g)) /\ Reached(g)' = Reached(g)
  BY <1>1, <1>4 DEF Deceived, Reached
<1>7. TakenSoundly'
  BY <1>1, <1>2 DEF TakenSoundly
<1>8. \A s, d : Unread(s, <<>>, d)
  BY DEF Unread
<1>9. Placed'
  <2> SUFFICES ASSUME NEW g \in Files
               PROVE  /\ tail'[g].inode <= file'[g].inode
                      /\ g \notin muddled' => Unread(Taken(g)', file'[g].content, Reached(g)')
                      /\ ~Deceived(g)' => At(tail'[g], file'[g].content, unwatches')
    BY DEF Placed
  <2>1. CASE g = f
    BY <1>1, <1>4, <1>5, <1>8, <2>1
  <2>2. CASE g # f
    BY <1>1, <1>2, <1>4, <1>6, <2>2 DEF Placed
  <2> QED
    BY <2>1, <2>2
<1> QED
  BY <1>7, <1>9

(* A piece is appended, beyond everything taken.                              *)
LEMMA AppendReads ==
    ASSUME Types, Types', TakenSoundly, Placed, NEW f \in Files, NEW piece \in Piece,
           file' = [file EXCEPT ![f].content = Append(@, piece)], lines <= lines',
           UNCHANGED <<tail, shrunk, muddled, unwatches, log, current, chunk>>,
           f \notin muddled => \A i \in 1 .. Len(Taken(f)) : Taken(f)[i][1].line < piece.line
    PROVE  TakenSoundly' /\ Placed'
<1> DEFINE c == file[f].content
           d == Append(c, piece)
<1>1. \A g \in Files : Taken(g)' = Taken(g)
  BY DEF Taken
<1>2. c \in Line /\ Len(c) \in Nat
  <2>1. c \in Line
    BY DEF Types
  <2> QED
    BY <2>1 DEF Line
<1>3. /\ Len(d) = Len(c) + 1 /\ d[Len(c) + 1] = piece
      /\ \A i \in 1 .. Len(c) : d[i] = c[i]
  BY <1>2 DEF Line
<1>4. /\ file'[f].content = d /\ file'[f].inode = file[f].inode
      /\ \A g \in Files : g # f => file'[g] = file[g]
  BY DEF Types
<1> HIDE DEF d
<1>5. TakenSoundly'
  <2> SUFFICES ASSUME NEW g \in Files \ muddled
               PROVE  SoundLines(Taken(g), unwatches, lines')
    BY <1>1 DEF TakenSoundly
  <2>1. SoundLines(Taken(g), unwatches, lines) /\ Taken(g) \in Seq(Line)
    BY TakenType DEF TakenSoundly
  <2>2. unwatches \in Nat /\ lines \in Nat /\ lines' \in Nat
    BY DEF Types
  <2> QED
    BY <2>1, <2>2, SoundStays, SoundNumbers
<1>6. \A g \in Files : (Deceived(g)' <=> Deceived(g)) /\ Reached(g)' = Reached(g)
  <2> TAKE g \in Files
  <2>1. file'[g].inode = file[g].inode /\ tail' = tail /\ shrunk' = shrunk
    BY <1>4
  <2>2. Deceived(g)' <=> Deceived(g)
    BY <2>1 DEF Deceived
  <2> QED
    BY <2>1, <2>2 DEF Reached
<1>7. f \notin muddled => Unread(Taken(f), d, Reached(f))
  <2> SUFFICES ASSUME f \notin muddled, NEW i \in 1 .. Len(Taken(f)), NEW j \in 1 .. Len(d),
                      j > Reached(f) \/ (j = Len(d) /\ d[j].part = "head")
               PROVE  Taken(f)[i][1].line < d[j].line
    BY DEF Unread
  <2>1. CASE j = Len(c) + 1
    BY <1>3, <2>1
  <2>2. CASE j \in 1 .. Len(c)
    <3>1. j > Reached(f) /\ d[j] = c[j]
      BY <1>2, <1>3, <2>2
    <3> QED
      BY <2>2, <3>1 DEF Placed, Unread
  <2> QED
    BY <1>2, <1>3, <2>1, <2>2, SMTT(30)
<1>8. ~Deceived(f) => At(tail[f], d, unwatches)
  <2> SUFFICES ASSUME ~Deceived(f)
               PROVE  At(tail[f], d, unwatches)
    OBVIOUS
  <2> DEFINE o == tail[f].offset
  <2>1. At(tail[f], c, unwatches) /\ o \in Nat
    BY DEF Placed, Types, Tailed
  <2>2. o <= Len(d) /\ (o > 0 => o \in 1 .. Len(c))
    BY <1>2, <1>3, <2>1 DEF At
  <2>3. o > 0 => d[o] = c[o]
    BY <1>3, <2>2
  <2> QED
    BY <2>1, <2>2, <2>3 DEF At
<1>9. Placed'
  <2> SUFFICES ASSUME NEW g \in Files
               PROVE  /\ tail'[g].inode <= file'[g].inode
                      /\ g \notin muddled' => Unread(Taken(g)', file'[g].content, Reached(g)')
                      /\ ~Deceived(g)' => At(tail'[g], file'[g].content, unwatches')
    BY DEF Placed
  <2>1. CASE g = f
    BY <1>1, <1>4, <1>6, <1>7, <1>8, <2>1 DEF Placed
  <2>2. CASE g # f
    BY <1>1, <1>4, <1>6, <2>2 DEF Placed
  <2> QED
    BY <2>1, <2>2
<1> QED
  BY <1>5, <1>9

LEMMA WriteLineReads ==
    ASSUME Types, Types', TakenSoundly, Placed, NEW f \in Files, NEW error \in BOOLEAN,
           WriteLine(f, error) \/ \E cut \in Cuts : BeginLine(f, error, cut)
    PROVE  TakenSoundly' /\ Placed'
<1>0. PICK whole \in BOOLEAN, cut \in Cuts \cup {"text"} :
        /\ file' = [file EXCEPT ![f].content =
               Append(@, [line |-> lines + 1, part |-> IF whole THEN "whole" ELSE "head",
                          error |-> error, cut |-> cut])]
        /\ lines < MaxLines /\ lines' = lines + 1
        /\ halfway # f /\ (whole \/ halfway = NoFile)
        /\ halfway' = IF whole THEN halfway ELSE f
        /\ UNCHANGED <<todo, current, pc, chunk, table, tail, unwatches, log, emitted,
                       shrunk, muddled>>
  BY LineBegins
<1> DEFINE piece == [line |-> lines + 1, part |-> IF whole THEN "whole" ELSE "head",
                     error |-> error, cut |-> cut]
<1>1. /\ file' = [file EXCEPT ![f].content = Append(@, piece)] /\ lines' = lines + 1
      /\ UNCHANGED <<tail, shrunk, muddled, unwatches, log, current, chunk>>
      /\ lines < MaxLines
  BY <1>0
<1>2. lines \in Nat /\ MaxLines \in Nat /\ lines <= lines'
  BY <1>1, TailAssumption DEF Types
<1>3. piece \in Piece /\ piece.line = lines + 1
  BY <1>1, <1>2 DEF Piece
<1> HIDE DEF piece
<1>4. ASSUME f \notin muddled, NEW i \in 1 .. Len(Taken(f))
      PROVE  Taken(f)[i][1].line < piece.line
  <2>1. SoundLines(Taken(f), unwatches, lines) /\ Taken(f) \in Seq(Line)
    BY <1>4, TakenType DEF TakenSoundly
  <2>2. Taken(f)[i][1].line <= lines /\ Taken(f)[i][1].line \in Int
    BY <2>1, SoundNumbers DEF SoundLines
  <2> QED
    BY <1>2, <1>3, <2>2
<1> QED
  BY <1>1, <1>2, <1>3, <1>4, AppendReads

LEMMA FinishLineReads ==
    ASSUME Types, Types', Written, TakenSoundly, Placed, NEW f \in Files, NEW error \in BOOLEAN,
           FinishLine(f, error)
    PROVE  TakenSoundly' /\ Placed'
<1> DEFINE c == file[f].content
           piece == [line |-> c[Len(c)].line, part |-> "tail", error |-> error,
                     cut |-> "text"]
<1>1. /\ file' = [file EXCEPT ![f].content = Append(@, piece)] /\ lines' = lines
      /\ UNCHANGED <<tail, shrunk, muddled, unwatches, log, current, chunk>>
      /\ halfway = f
  BY DEF FinishLine, AppendTo, readerVars, lossVars, Last
<1>2. c \in Line /\ Len(c) \in Nat
  <2>1. c \in Line
    BY DEF Types
  <2> QED
    BY <2>1 DEF Line
<1>3. Len(c) \in 1 .. Len(c) /\ c[Len(c)].part = "head"
  BY <1>1, <1>2 DEF Written
<1>4. piece \in Piece /\ piece.line = c[Len(c)].line
  <2>1. c[Len(c)].line \in 1 .. MaxLines
    BY <1>2, <1>3, LinesAreNumbers
  <2> QED
    BY <2>1 DEF Piece
<1> HIDE DEF piece
<1>5. ASSUME f \notin muddled, NEW i \in 1 .. Len(Taken(f))
      PROVE  Taken(f)[i][1].line < piece.line
  BY <1>3, <1>4, <1>5 DEF Placed, Unread
<1>6. lines <= lines'
  BY <1>1 DEF Types
<1> QED
  BY <1>1, <1>4, <1>5, <1>6, AppendReads

(* What is cut up is a stretch of the file that goes to its end.              *)
LEMMA Stretch ==
    ASSUME NEW c \in Line, NEW o \in Nat, o < Len(c), NEW p \in Line,
           p = <<>> \/ (o > 0 /\ p = <<c[o]>>)
    PROVE  LET all == p \o SubSeq(c, o + 1, Len(c))
               a == o - Len(p)
           IN  /\ a \in Nat /\ a <= o /\ Len(c) \in Nat /\ Len(all) = Len(c) - a
               /\ \A i \in 1 .. Len(all) : a + i \in 1 .. Len(c) /\ all[i] = c[a + i]
<1> DEFINE n == Len(c)
           t == SubSeq(c, o + 1, n)
           all == p \o t
           a == o - Len(p)
<1>1. n \in Nat
  BY DEF Line
<1>2. t \in Line /\ Len(t) = n - o /\ \A i \in 1 .. Len(t) : t[i] = c[o + i]
  <2>1. \A i \in o + 1 .. n : c[i] \in Piece
    BY <1>1 DEF Line
  <2> HIDE DEF n
  <2>2. t \in Seq(Piece) /\ Len(t) = n - o /\ \A i \in 1 .. Len(t) : t[i] = c[o + 1 + i - 1]
    BY <1>1, <2>1, SubSeqProperties, SMTT(30) DEF n
  <2> HIDE DEF t
  <2>3. \A i \in 1 .. Len(t) : o + 1 + i - 1 = o + i
    BY <1>1, <2>2
  <2> QED
    BY <2>2, <2>3 DEF Line
<1>3. Len(p) \in {0, 1} /\ (Len(p) = 1 => o > 0 /\ p[1] = c[o])
  <2>1. CASE p = <<>>
    BY <2>1
  <2>2. CASE o > 0 /\ p = <<c[o]>>
    BY <2>2
  <2> QED
    BY <2>1, <2>2
<1>b. p \in Seq(Piece) /\ t \in Seq(Piece)
  BY <1>2 DEF Line
<1>c. Len(all) = Len(p) + Len(t)
  BY <1>b
<1> DEFINE l == Len(p)
<1>4. l \in {0, 1} /\ (l = 1 => o > 0 /\ p[1] = c[o]) /\ Len(all) = l + (n - o)
  BY <1>2, <1>3, <1>c
<1> HIDE DEF n, l, t, all
<1>5. a = o - l
  BY DEF l
<1> HIDE DEF a
<1>d. l <= o
  BY <1>4
<1>6. a \in Nat /\ a <= o /\ Len(all) = n - a
  BY <1>1, <1>4, <1>5, <1>d
<1>7. ASSUME NEW i \in 1 .. Len(all)
      PROVE  a + i \in 1 .. n /\ all[i] = c[a + i]
  <2>1. i \in Int /\ 1 <= i /\ i <= n - a
    BY <1>1, <1>6
  <2>2. a + i \in 1 .. n
    BY <1>1, <1>6, <2>1
  <2>3. \/ i \in 1 .. l /\ all[i] = p[i]
        \/ i > l /\ i - l \in 1 .. Len(t) /\ all[i] = t[i - l]
    BY <1>b, ConcatItems DEF l, all
  <2>4. CASE i \in 1 .. l /\ all[i] = p[i]
    <3>1. l = 1
      BY <1>4, <2>1, <2>4
    <3>2. i = 1 /\ a + i = o
      BY <1>5, <2>1, <2>4, <3>1
    <3> QED
      BY <1>4, <2>2, <2>4, <3>1, <3>2
  <2>5. CASE i > l /\ i - l \in 1 .. Len(t) /\ all[i] = t[i - l]
    <3>1. all[i] = c[o + (i - l)]
      BY <1>2, <2>5
    <3>2. o + (i - l) = a + i
      BY <1>4, <1>5, <2>1
    <3> QED
      BY <2>2, <3>1, <3>2
  <2> QED
    BY <2>3, <2>4, <2>5
<1> QED
  BY <1>1, <1>6, <1>7 DEF t, n, all, a, l

LEMMA StretchRuns ==
    ASSUME NEW c \in Line, Running(c), NEW a \in Nat, NEW s \in Line, Len(s) = Len(c) - a,
           \A i \in 1 .. Len(s) : a + i \in 1 .. Len(c) /\ s[i] = c[a + i]
    PROVE  Running(s)
<1> DEFINE n == Len(c)
           m == Len(s)
<1>1. n \in Nat /\ m \in Nat /\ m = n - a
  BY DEF Line
<1>r. /\ \A i \in 1 .. n : i + 1 <= n /\ c[i].part = "head" =>
                             c[i + 1].part = "tail" /\ c[i + 1].line = c[i].line
      /\ \A i \in 1 .. n : i + 1 <= n /\ c[i + 1].part = "tail" => c[i].part = "head"
      /\ \A i, j \in 1 .. n : i < j /\ c[i].part # "head" => c[i].line < c[j].line
  BY DEF Running
<1>s. \A i \in 1 .. m : a + i \in 1 .. n /\ s[i] = c[a + i]
  OBVIOUS
<1> HIDE DEF n, m
<1>2. ASSUME NEW i \in 1 .. m, i + 1 <= m
      PROVE  /\ s[i].part = "head" => s[i + 1].part = "tail" /\ s[i + 1].line = s[i].line
             /\ s[i + 1].part = "tail" => s[i].part = "head"
  <2>1. i + 1 \in 1 .. m /\ a + (i + 1) = (a + i) + 1 /\ (a + i) + 1 <= n
    BY <1>1, <1>2
  <2>2. a + i \in 1 .. n /\ s[i] = c[a + i] /\ s[i + 1] = c[(a + i) + 1]
    BY <1>s, <2>1
  <2> QED
    BY <1>r, <2>1, <2>2
<1>3. ASSUME NEW i \in 1 .. m, NEW j \in 1 .. m, i < j, s[i].part # "head"
      PROVE  s[i].line < s[j].line
  <2>1. a + i < a + j
    BY <1>1, <1>3
  <2>2. a + i \in 1 .. n /\ s[i] = c[a + i] /\ a + j \in 1 .. n /\ s[j] = c[a + j]
    BY <1>s
  <2>3. c[a + i].part # "head" => c[a + i].line < c[a + j].line
    BY <1>r, <2>1, <2>2
  <2> QED
    BY <1>3, <2>2, <2>3
<1> QED
  BY <1>2, <1>3 DEF Running, m

(* Reading on from a place in a file that is the one the reader knows.        *)
LEMMA ReadOn ==
    ASSUME PlainCuts, NEW c \in Line, InSequence(c), NEW t \in Tailed, NEW u \in Nat, NEW n \in Nat,
           t.offset < Len(c), At(t, c, u), \A i \in 1 .. Len(c) : c[i].line <= n
    PROVE  LET all == t.partial \o SubSeq(c, t.offset + 1, Len(c))
               s == CutLines(all)
               p == LeftOver(all)
               a == t.offset - Len(t.partial)
           IN  /\ s \in Seq(Line) /\ SoundLines(s, u, n)
               /\ \A i \in 1 .. Len(s) : \E j \in 1 .. Len(c) : j > a /\ s[i][1].line = c[j].line
               /\ p = IF c[Len(c)].part = "head" THEN <<c[Len(c)]>> ELSE <<>>
               /\ c[Len(c)].part = "head" =>
                     \A i \in 1 .. Len(s) : s[i][1].line < c[Len(c)].line
<1> DEFINE o == t.offset
           all == t.partial \o SubSeq(c, o + 1, Len(c))
           a == o - Len(t.partial)
           m == Len(c)
           s == CutLines(all)
<1>1. o \in Nat /\ t.partial \in Line /\ m \in Nat
  <2>1. o \in Nat /\ t.partial \in Line
    BY DEF Tailed
  <2> QED
    BY <2>1 DEF Line
<1>2. t.partial = <<>> \/ (o > 0 /\ t.partial = <<c[o]>>)
  BY DEF At
<1>3. /\ a \in Nat /\ a <= o /\ Len(all) = m - a
      /\ \A i \in 1 .. Len(all) : a + i \in 1 .. m /\ all[i] = c[a + i]
  BY <1>1, <1>2, Stretch
<1>4. all \in Line
  <2>1. \A i \in o + 1 .. m : c[i] \in Piece
    BY <1>1 DEF Line
  <2>2. SubSeq(c, o + 1, m) \in Line
    BY <1>1, <2>1, SubSeqProperties DEF Line
  <2> QED
    BY <1>1, <2>2 DEF Line
<1>5. o < m
  OBVIOUS
<1>6. Running(c) /\ c[1].part # "tail"
  BY <1>1, <1>5 DEF InSequence
<1> HIDE DEF all
<1>7. Running(all)
  BY <1>3, <1>4, <1>6, StretchRuns
<1>8. /\ Len(all) > 0 /\ Len(all) \in 1 .. Len(all) /\ 1 \in 1 .. Len(all)
      /\ all[Len(all)] = c[m] /\ all[1] = c[a + 1]
  <2> HIDE DEF a, m, o
  <2>1. Len(all) > 0 /\ Len(all) \in Nat
    BY <1>1, <1>3, <1>5
  <2>2. Len(all) \in 1 .. Len(all) /\ 1 \in 1 .. Len(all) /\ a + Len(all) = m
    BY <1>1, <1>3, <2>1
  <2> QED
    BY <1>3, <2>1, <2>2
<1>9. LeftOver(all) = IF c[m].part = "head" THEN <<c[m]>> ELSE <<>>
  BY <1>4, <1>7, <1>8, LeftOverSpec
<1>10. all[1].part = "tail" => u > 0
  <2> SUFFICES ASSUME c[a + 1].part = "tail"
               PROVE  u > 0
    BY <1>8
  <2>1. a # 0
    BY <1>6
  <2>2. a \in 1 .. m /\ a + 1 <= m
    BY <1>1, <1>3, <1>5, <2>1
  <2>3. c[a].part = "head"
    BY <1>6, <2>2 DEF Running
  <2>4. t.partial = <<>>
    <3>1. CASE o > 0 /\ t.partial = <<c[o]>> /\ c[o].part = "head"
      <4>1. Len(t.partial) = 1
        BY <3>1
      <4>2. a + 1 = o
        BY <1>1, <4>1
      <4> QED
        BY <3>1, <4>2
    <3> QED
      BY <3>1 DEF At
  <2>5. a = o
    BY <1>1, <2>4
  <2> QED
    BY <1>3, <2>1, <2>3, <2>4, <2>5 DEF At
<1>11. /\ s \in Seq(Line)
       /\ \A i \in 1 .. Len(s) : \E b \in 1 .. Len(all) :
             /\ s[i][1].line = all[b].line
             /\ WholeLine(s[i]) \/ (Len(s[i]) = 1 /\ b = 1 /\ all[1].part = "tail")
             /\ all[Len(all)].part = "head" => all[b].line < all[Len(all)].line
       /\ \A i, j \in 1 .. Len(s) : i < j => s[i][1].line < s[j][1].line
  BY <1>4, <1>7, CutLinesSpec
<1> HIDE DEF s, a, m, o
<1>12. ASSUME NEW i \in 1 .. Len(s)
       PROVE  /\ \E j \in 1 .. m : j > a /\ s[i][1].line = c[j].line
              /\ WholeLine(s[i]) \/ (Len(s[i]) = 1 /\ u > 0)
              /\ s[i][1].line <= n
              /\ c[m].part = "head" => s[i][1].line < c[m].line
  <2>1. PICK b \in 1 .. Len(all) :
               /\ s[i][1].line = all[b].line
               /\ WholeLine(s[i]) \/ (Len(s[i]) = 1 /\ b = 1 /\ all[1].part = "tail")
               /\ all[Len(all)].part = "head" => all[b].line < all[Len(all)].line
    BY <1>11
  <2>2. a + b \in 1 .. m /\ all[b] = c[a + b]
    BY <1>3
  <2>3. a + b > a
    BY <1>1, <1>3
  <2>4. c[a + b].line <= n
    BY <2>2 DEF m
  <2> QED
    BY <1>8, <1>10, <2>1, <2>2, <2>3, <2>4
<1>13. SoundLines(s, u, n)
  BY <1>11, <1>12 DEF SoundLines
<1> QED
  BY <1>9, <1>11, <1>12, <1>13 DEF s, a, m, o, all

LEMMA SoundConcat ==
    ASSUME NEW s \in Seq(Line), NEW t \in Seq(Line), NEW u, NEW n,
           SoundLines(s, u, n), SoundLines(t, u, n),
           \A i \in 1 .. Len(s), j \in 1 .. Len(t) : s[i][1].line < t[j][1].line
    PROVE  SoundLines(s \o t, u, n)
<1>1. ASSUME NEW i \in 1 .. Len(s \o t)
      PROVE  /\ WholeLine((s \o t)[i]) \/ (Len((s \o t)[i]) = 1 /\ u > 0)
             /\ (s \o t)[i][1].line <= n
  <2>1. CASE i \in 1 .. Len(s) /\ (s \o t)[i] = s[i]
    BY <2>1 DEF SoundLines
  <2>2. CASE i - Len(s) \in 1 .. Len(t) /\ (s \o t)[i] = t[i - Len(s)]
    BY <2>2 DEF SoundLines
  <2> QED
    BY <2>1, <2>2, ConcatItems
<1>2. ASSUME NEW i \in 1 .. Len(s \o t), NEW j \in 1 .. Len(s \o t), i < j
      PROVE  (s \o t)[i][1].line < (s \o t)[j][1].line
  <2>1. CASE i \in 1 .. Len(s) /\ (s \o t)[i] = s[i]
    <3>1. CASE j \in 1 .. Len(s) /\ (s \o t)[j] = s[j]
      BY <1>2, <2>1, <3>1 DEF SoundLines
    <3>2. CASE j - Len(s) \in 1 .. Len(t) /\ (s \o t)[j] = t[j - Len(s)]
      BY <2>1, <3>2
    <3> QED
      BY <3>1, <3>2, ConcatItems
  <2>2. CASE i > Len(s) /\ i - Len(s) \in 1 .. Len(t) /\ (s \o t)[i] = t[i - Len(s)]
    <3>1. i \in Int /\ j \in Int /\ Len(s) \in Int
      BY ConcatItems
    <3>2. ~(j \in 1 .. Len(s)) /\ i - Len(s) < j - Len(s)
      BY <1>2, <2>2, <3>1
    <3>3. j - Len(s) \in 1 .. Len(t) /\ (s \o t)[j] = t[j - Len(s)]
      BY <3>2, ConcatItems
    <3> QED
      BY <2>2, <3>2, <3>3 DEF SoundLines
  <2> QED
    BY <2>1, <2>2, ConcatItems
<1> QED
  BY <1>1, <1>2 DEF SoundLines

LEMMA ReadChunkReads ==
    ASSUME PlainCuts, Types, Types', ReaderPlaced, Written, TakenSoundly, Placed, ReadChunk
    PROVE  TakenSoundly' /\ Placed'
<1> DEFINE f == current
           c == file[f].content
           t == tail[f]
           all == t.partial \o New(f)
<1>1. /\ f \in Files /\ chunk = <<>>
      /\ UNCHANGED <<file, lines, shrunk, unwatches, log, current>>
  BY ReadChunkNames DEF ReaderPlaced, worldVars
<1>2. unwatches <= unwatches' /\ unwatches \in Nat /\ lines \in Nat
  BY <1>1 DEF Types
<1>3. \A g \in Files : g # f => Taken(g)' = Taken(g)
  BY <1>1 DEF Taken
<1>4. Taken(f) = log[f] /\ Taken(f)' = log[f] \o chunk' /\ log[f] \in Seq(Line)
  BY <1>1 DEF Taken, Types
<1>5. CASE New(f) = <<>> /\ chunk' = <<>> /\ UNCHANGED <<tail, muddled>>
  <2>1. Taken(f)' = Taken(f)
    BY <1>4, <1>5
  <2> QED
    BY <1>1, <1>2, <1>3, <1>5, <2>1, ReadingStays
<1>6. CASE /\ New(f) # <<>> /\ chunk' = CutLines(all)
           /\ tail' = [tail EXCEPT ![f].offset = Len(c), ![f].partial = LeftOver(all)]
           /\ muddled' = IF Deceived(f) THEN muddled \cup {f} ELSE muddled
  <2>1. /\ t \in Tailed /\ c \in Line /\ Len(c) \in Nat /\ t.offset \in Nat
        /\ c = file[f].content
    <3>1. t \in Tailed /\ c \in Line
      BY <1>1 DEF Types
    <3> QED
      BY <3>1 DEF Line, Tailed
  <2>2. /\ tail'[f].inode = t.inode /\ tail'[f].offset = Len(c) /\ tail'[f].partial = LeftOver(all)
        /\ \A g \in Files : g # f => tail'[g] = tail[g]
    BY <1>1, <1>6 DEF Types, Tailed
  <2>3. \A g \in Files : Deceived(g)' <=> Deceived(g)
    <3> TAKE g \in Files
    <3>1. tail'[g].inode = tail[g].inode
      BY <2>2
    <3> QED
      BY <1>1, <3>1 DEF Deceived
  <2>4. \A g \in Files : g # f => Reached(g)' = Reached(g) /\ (g \in muddled' <=> g \in muddled)
    <3> TAKE g \in Files
    <3> HAVE g # f
    <3>1. tail'[g] = tail[g] /\ (g \in muddled' <=> g \in muddled)
      BY <1>6, <2>2
    <3> QED
      BY <2>3, <3>1 DEF Reached
  <2>5. ASSUME NEW g \in Files, g # f
        PROVE  /\ g \notin muddled' => SoundLines(Taken(g)', unwatches', lines')
               /\ tail'[g].inode <= file'[g].inode
               /\ g \notin muddled' => Unread(Taken(g)', file'[g].content, Reached(g)')
               /\ ~Deceived(g)' => At(tail'[g], file'[g].content, unwatches')
    <3>1. /\ Taken(g)' = Taken(g) /\ Reached(g)' = Reached(g) /\ tail'[g] = tail[g]
          /\ (g \in muddled' <=> g \in muddled) /\ (Deceived(g)' <=> Deceived(g))
          /\ unwatches' = unwatches /\ lines' = lines /\ file' = file
      BY <1>1, <1>3, <2>2, <2>3, <2>4, <2>5
    <3> QED
      BY <3>1 DEF TakenSoundly, Placed
  <2>6. tail'[f].inode <= file'[f].inode
    BY <1>1, <2>2 DEF Placed
  <2>7. /\ f \notin muddled' => SoundLines(Taken(f)', unwatches', lines')
        /\ f \notin muddled' => Unread(Taken(f)', file'[f].content, Reached(f)')
        /\ ~Deceived(f)' => At(tail'[f], file'[f].content, unwatches')
    <3>1. CASE Deceived(f)
      BY <1>1, <1>6, <2>3, <3>1
    <3>2. CASE ~Deceived(f)
      <4> DEFINE d == Len(c)
                 a == t.offset - Len(t.partial)
                 s == CutLines(all)
      <4>1. /\ muddled' = muddled /\ chunk' = s /\ Reached(f) = a
            /\ Reached(f)' = d - Len(LeftOver(all))
        BY <1>1, <1>6, <2>2, <2>3, <3>2 DEF Reached
      <4>2. At(t, c, unwatches) /\ t.offset <= d
        BY <1>1, <3>2 DEF Placed, At
      <4>3. t.offset < d
        <5>1. CASE t.offset = d
          <6>1. New(f) = <<>>
            BY <2>1, <5>1, SubSeqProperties DEF New, Line
          <6> QED
            BY <1>6, <6>1
        <5> QED
          BY <2>1, <4>2, <5>1
      <4>4. InSequence(c) /\ \A i \in 1 .. Len(c) : c[i].line <= lines
        BY <1>1 DEF Written
      <4>5. /\ s \in Seq(Line) /\ SoundLines(s, unwatches, lines)
            /\ \A i \in 1 .. Len(s) : \E j \in 1 .. d : j > a /\ s[i][1].line = c[j].line
            /\ LeftOver(all) = IF c[d].part = "head" THEN <<c[d]>> ELSE <<>>
            /\ c[d].part = "head" => \A i \in 1 .. Len(s) : s[i][1].line < c[d].line
        BY <1>2, <2>1, <4>2, <4>3, <4>4, ReadOn DEF New
      <4>6. d \in Nat /\ d > 0 /\ d \in 1 .. d /\ d > a /\ a \in Int
        <5>1. Len(t.partial) \in Nat /\ t.offset \in Nat
          BY <2>1 DEF Tailed, Line
        <5> HIDE DEF d
        <5>2. d \in Nat
          BY <2>1 DEF d
        <5> QED
          BY <4>3, <5>1, <5>2
      <4> HIDE DEF all, s, d, a
      <4>7. At(tail'[f], c, unwatches')
        <5>1. tail'[f].offset = d /\ tail'[f].partial = LeftOver(all)
          BY <2>2 DEF d
        <5>2. d <= Len(c)
          BY <4>6 DEF d
        <5>3. CASE c[d].part = "head"
          <6>1. LeftOver(all) = <<c[d]>> /\ <<c[d]>> # <<>>
            BY <4>5, <5>3
          <6> QED
            BY <4>6, <5>1, <5>2, <5>3, <6>1 DEF At
        <5>4. CASE c[d].part # "head"
          BY <4>5, <5>1, <5>2, <5>4 DEF At
        <5> QED
          BY <5>3, <5>4
      <4>8. ASSUME f \notin muddled
            PROVE  /\ SoundLines(log[f] \o s, unwatches, lines)
                   /\ Unread(log[f] \o s, c, Reached(f)')
        <5>1. SoundLines(log[f], unwatches, lines) /\ Unread(log[f], c, a)
          BY <1>1, <1>4, <4>1, <4>8 DEF TakenSoundly, Placed
        <5>2. \A i \in 1 .. Len(log[f]), j \in 1 .. Len(s) : log[f][i][1].line < s[j][1].line
          BY <4>5, <5>1 DEF Unread, d
        <5>3. SoundLines(log[f] \o s, unwatches, lines)
          BY <1>4, <4>5, <5>1, <5>2, SoundConcat
        <5>4. ASSUME c[d].part = "head", NEW i \in 1 .. Len(log[f] \o s)
              PROVE  (log[f] \o s)[i][1].line < c[d].line
          <6>1. \A k \in 1 .. Len(log[f]) : log[f][k][1].line < c[d].line
            BY <4>6, <5>1 DEF Unread, d
          <6> QED
            <7>1. CASE i \in 1 .. Len(log[f]) /\ (log[f] \o s)[i] = log[f][i]
              BY <6>1, <7>1
            <7>2. CASE /\ i - Len(log[f]) \in 1 .. Len(s)
                       /\ (log[f] \o s)[i] = s[i - Len(log[f])]
              BY <4>5, <5>4, <7>2
            <7> QED
              BY <1>4, <4>5, <7>1, <7>2, ConcatItems
        <5>5. Unread(log[f] \o s, c, Reached(f)')
          <6> SUFFICES ASSUME NEW i \in 1 .. Len(log[f] \o s), NEW j \in 1 .. Len(c),
                              j > Reached(f)' \/ (j = Len(c) /\ c[j].part = "head")
                       PROVE  (log[f] \o s)[i][1].line < c[j].line
            BY DEF Unread
          <6>1. j \in 1 .. d /\ j \in Int
            BY <4>6 DEF d
          <6>2. CASE c[d].part = "head"
            <7>1. Reached(f)' = d - 1
              <8>1. Len(<<c[d]>>) = 1
                OBVIOUS
              <8> QED
                BY <4>1, <4>5, <6>2, <8>1
            <7>2. j = d
              BY <4>6, <6>1, <7>1 DEF d
            <7> QED
              BY <5>4, <6>2, <7>2
          <6>3. CASE c[d].part # "head"
            <7>1. Reached(f)' = d
              <8>1. Len(<<>>) = 0
                OBVIOUS
              <8> QED
                BY <4>1, <4>5, <4>6, <6>3, <8>1
            <7>2. FALSE
              BY <4>6, <6>1, <6>3, <7>1 DEF d
            <7> QED
              BY <7>2
          <6> QED
            BY <6>2, <6>3
        <5> QED
          BY <5>3, <5>5
      <4>9. Taken(f)' = log[f] \o s
        BY <1>4, <4>1
      <4> QED
        BY <1>1, <4>1, <4>7, <4>8, <4>9
    <3> QED
      BY <3>1, <3>2
  <2>8. TakenSoundly'
    <3> SUFFICES ASSUME NEW g \in Files, g \notin muddled'
                 PROVE  SoundLines(Taken(g)', unwatches', lines')
      BY DEF TakenSoundly
    <3> QED
      BY <1>1, <2>5, <2>7
  <2>9. Placed'
    <3> SUFFICES ASSUME NEW g \in Files
                 PROVE  /\ tail'[g].inode <= file'[g].inode
                        /\ g \notin muddled' => Unread(Taken(g)', file'[g].content, Reached(g)')
                        /\ ~Deceived(g)' => At(tail'[g], file'[g].content, unwatches')
      BY DEF Placed
    <3> QED
      BY <1>1, <2>5, <2>6, <2>7
  <2> QED
    BY <2>8, <2>9
<1> QED
  BY <1>5, <1>6, ReadChunkNames

-----------------------------------------------------------------------------
(* The invariant and what follows from it                                     *)

LEMMA InitInv == ASSUME Init PROVE LinesInv
<1>1. <<>> \in Line /\ <<>> \in Seq(Line) /\ <<>> \in Seq(Nat) /\ <<>> \in Seq(Event) /\ Len(<<>>) = 0
  BY DEF Line
<1>2. /\ \A f \in Files : file[f] = [inode |-> 0, content |-> <<>>]
      /\ \A f \in Files : FreshTail(f) = [inode |-> 0, offset |-> 0, partial |-> <<>>,
                                          before |-> <<>>, pending |-> <<>>]
  BY <1>1 DEF Init, FreshTail
<1>3. /\ \A f \in Files : log[f] = <<>> /\ emitted[f] = <<>> /\ tail[f] = FreshTail(f)
      /\ current = NoFile /\ halfway = NoFile /\ chunk = <<>> /\ pc = "poll" /\ lines = 0
      /\ shrunk = {} /\ table = Files /\ todo = {} /\ unwatches = 0
  BY DEF Init
<1>4. Types
  <2>1. file \in [Files -> [inode: Nat, content: Line]]
    BY <1>1 DEF Init
  <2>2. tail \in [Files -> Tailed]
    <3>1. \A f \in Files : FreshTail(f) \in Tailed
      <4>1. [inode |-> 0, offset |-> 0, partial |-> <<>>, before |-> <<>>,
             pending |-> <<>>] \in Tailed
        BY <1>1 DEF Tailed
      <4> QED
        BY <1>2, <4>1
    <3> QED
      BY <3>1 DEF Init
  <2>3. log \in [Files -> Seq(Line)] /\ emitted \in [Files -> Seq(Event)]
    BY <1>1 DEF Init
  <2>4. lines \in 0 .. MaxLines
    BY <1>3, TailAssumption
  <2> QED
    BY <1>1, <1>3, <2>1, <2>2, <2>3, <2>4 DEF Types
<1>5. ReaderPlaced
  BY <1>3 DEF ReaderPlaced
<1>6. InSequence(<<>>)
  BY <1>1 DEF InSequence, Running
<1>7. Written
  BY <1>1, <1>2, <1>3, <1>6, TailAssumption DEF Written
<1>8. \A f \in Files : Taken(f) = <<>> /\ file[f].content = <<>> /\ ~Deceived(f)
                       /\ tail[f].offset = 0 /\ tail[f].partial = <<>>
                       /\ tail[f].before = <<>> /\ tail[f].pending = <<>>
                       /\ tail[f].inode = 0 /\ file[f].inode = 0
  BY <1>2, <1>3, TailAssumption DEF Taken, Deceived
<1>9. TakenSoundly
  BY <1>1, <1>8 DEF TakenSoundly, SoundLines
<1>10. Placed
  <2>1. \A d : Unread(<<>>, <<>>, d)
    BY <1>1 DEF Unread
  <2>2. \A f \in Files : At(tail[f], <<>>, unwatches)
    BY <1>1, <1>8 DEF At
  <2> QED
    BY <1>8, <2>1, <2>2 DEF Placed
<1>11. EventsKnown
  <2>1. Known(0, <<>>, <<>>, <<>>)
    BY <1>1 DEF Known, Trailing, Waits, Passed, Ordered, Ahead
  <2> QED
    BY <1>1, <1>3, <1>8, <2>1 DEF EventsKnown
<1> QED
  BY <1>4, <1>5, <1>7, <1>9, <1>10, <1>11 DEF IInv, LinesInv

LEMMA NextInv == ASSUME IInv, [Next]_vars PROVE IInv'
BY NextTypes, NextEvents DEF IInv

LEMMA NextLines == ASSUME PlainCuts, LinesInv, [Next]_vars PROVE LinesInv'
<1>1. Types /\ ReaderPlaced /\ Written /\ TakenSoundly /\ Placed /\ IInv
  BY DEF IInv, LinesInv
<1>2. Types' /\ ReaderPlaced' /\ Written'
  BY <1>1, NextTypes
<1>3. IInv'
  BY <1>1, NextInv
<1>4. ASSUME ReaderStep
      PROVE  TakenSoundly' /\ Placed'
  <2>1. CASE Turning \/ FlushQuiet
    BY <1>1, <1>2, <2>1, TurningReads
  <2>2. CASE Look
    BY <1>1, <1>2, <2>2, LookReads
  <2>3. CASE ReadChunk
    BY <1>1, <1>2, <2>3, ReadChunkReads
  <2>4. CASE ProcessLine
    BY <1>1, <1>2, <2>4, ProcessLineReads
  <2> QED
    BY <1>4, <2>1, <2>2, <2>3, <2>4 DEF ReaderStep, Turning
<1>5. ASSUME NEW f \in Files, Unwatch(f) \/ Watch(f)
      PROVE  TakenSoundly' /\ Placed'
  BY <1>1, <1>2, <1>5, TurningReads, WatchReads
<1>6. ASSUME NEW f \in Files,
             \/ \E error \in BOOLEAN :
                   WriteLine(f, error) \/ \E cut \in Cuts : BeginLine(f, error, cut)
             \/ \E error \in BOOLEAN : FinishLine(f, error)
             \/ \E renamed \in BOOLEAN : Rotate(f, renamed)
      PROVE  TakenSoundly' /\ Placed'
  BY <1>1, <1>2, <1>6, WriteLineReads, FinishLineReads, RotateReads
<1>7. ASSUME UNCHANGED vars
      PROVE  TakenSoundly' /\ Placed'
  BY <1>1, <1>2, <1>7, TurningReads
<1>8. TakenSoundly' /\ Placed'
  BY <1>4, <1>5, <1>6, <1>7 DEF Next
<1> QED
  BY <1>3, <1>8 DEF LinesInv

LEMMA Invariant == Spec => []IInv
<1>1. Init => IInv
  BY InitInv DEF LinesInv
<1> QED
  BY <1>1, NextInv, PTL DEF Spec

LEMMA LinesInvariant == ASSUME PlainCuts PROVE Spec => []LinesInv
<1>1. LinesInv /\ [Next]_vars => LinesInv'
  BY NextLines
<1> QED
  BY <1>1, InitInv, PTL DEF Spec

(* read_new_lines and _detect_rotation: unless the path became another file   *)
(* between the look and the read, the lines taken are the lines written, each *)
(* once and in order, however the workload's writes, its rotations and the    *)
(* discovery thread's coming and going fall between the reader's steps. This  *)
(* for workloads whose lines are not in two at a line end, nor hold any other *)
(* line separator; a character may be in two, and is then not read as it is.  *)
THEOREM LinesAsWritten == ASSUME PlainCuts PROVE Spec => []LinesReadFaithfully
<1>1. ASSUME LinesInv
      PROVE  LinesReadFaithfully
  <2> SUFFICES ASSUME NEW f \in Files \ muddled
               PROVE  /\ \A i \in 1 .. Len(log[f]) :
                            WholeLine(log[f][i]) \/ (Len(log[f][i]) = 1 /\ unwatches > 0)
                      /\ \A i, j \in 1 .. Len(log[f]) :
                            i < j => log[f][i][1].line < log[f][j][1].line
    BY DEF LinesReadFaithfully
  <2>1. SoundLines(Taken(f), unwatches, lines) /\ log[f] \in Seq(Line) /\ chunk \in Seq(Line)
    BY <1>1 DEF LinesInv, IInv, TakenSoundly, Types
  <2>2. \A i \in 1 .. Len(log[f]) : i \in 1 .. Len(Taken(f)) /\ Taken(f)[i] = log[f][i]
    <3>1. CASE current = f
      <4>1. Taken(f) = log[f] \o chunk
        BY <3>1 DEF Taken
      <4> QED
        BY <2>1, <4>1
    <3>2. CASE current # f
      BY <3>2 DEF Taken
    <3> QED
      BY <3>1, <3>2
  <2> QED
    BY <2>1, <2>2 DEF SoundLines
<1> QED
  BY <1>1, LinesInvariant, PTL

(* _process_file, _flush_pending, _account_buffer: an error goes out with the *)
(* lines right before and right after it and with no others, also when the    *)
(* buffer was trimmed between them or they were read in several polls.        *)
THEOREM ContextUnbroken == Spec => []ContextContiguous
<1>1. ASSUME IInv
      PROVE  ContextContiguous
  BY <1>1 DEF IInv, EventsKnown, Known, Passed, Surrounded, ContextContiguous
<1> QED
  BY <1>1, Invariant, PTL

(* _flush_pending passes on the errors with enough context and keeps the      *)
(* others: those it keeps are the later ones, so that errors leave in the     *)
(* order of their lines and none leaves twice.                                *)
THEOREM ErrorsLeaveInOrder == Spec => []ErrorsInOrder
<1>1. ASSUME IInv
      PROVE  ErrorsInOrder
  BY <1>1 DEF IInv, EventsKnown, Known, Ordered, ErrorsInOrder
<1> QED
  BY <1>1, Invariant, PTL
=============================================================================
