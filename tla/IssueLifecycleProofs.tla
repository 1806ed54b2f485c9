------------------------ MODULE IssueLifecycleProofs ------------------------
(* Theorems about IssueLifecycle, for every set of problems, every tracker    *)
(* and every bound on occurrences, issues, faults and restarts.               *)
EXTENDS IssueLifecycle, FiniteSetTheorems, TLAPS

-----------------------------------------------------------------------------
(* The inductive invariant                                                    *)

Issue == [ref: 1 .. MaxIssues, problem: Problems, open: BOOLEAN]
Entry == [status: {"none", "open", "resolved"}, ref: 0 .. MaxIssues,
          sinceComment: 0 .. UpdateInterval, quiet: 0 .. ResolveAfter,
          cause: Causes \cup {"none"}]

RecordSteps == {"create", "record", "ask", "comment", "commented", "reopen",
                "reopen comment", "reopened", "done"}
RecordJob == [step: RecordSteps, rec: Record, ref: 0 .. MaxIssues]
SweepJob == [step: {"sweep"}, todo: SUBSET Problems]
CloseJob == [step: {"close", "closed"}, todo: SUBSET Problems, problem: Problems]
Job == {Idle} \cup RecordJob \cup SweepJob \cup CloseJob

Types ==
    /\ ledger \in [Problems -> Entry] /\ disk \in [Problems -> Entry]
    /\ issues \subseteq Issue /\ pending \subseteq Record /\ job \in Job
    /\ heard \in [Problems -> 0 .. ResolveAfter]
    /\ dryRun \in BOOLEAN /\ tracker \in Tracker
    /\ faults \in Nat

(* The tracker numbers its issues.                                            *)
IssuesNumbered ==
    /\ IsFiniteSet(issues)
    /\ \A i \in issues : i.ref <= Cardinality(issues)
    /\ \A i, j \in issues : i.ref = j.ref => i = j

(* Issue `ref` is p's; and is open, or was closed behind the ledger's back.   *)
Belongs(ref, p) == \E i \in issues : i.ref = ref /\ i.problem = p
Stands(ref, p) == \E i \in issues : i.ref = ref /\ i.problem = p /\ (i.open \/ ref \in behindBack)

Owns(l) == \A p \in Problems : l[p].status # "none" => Belongs(l[p].ref, p)

LedgersOwn == Owns(ledger) /\ Owns(disk)

(* What the export thread has in mind is what the ledger says, or goes beyond *)
(* it in one issue, which is there.                                           *)
JobKnows ==
    /\ job.step \in {"ask", "comment", "commented", "reopen", "reopen comment", "reopened"} =>
           /\ ledger[job.rec.problem].status # "none"
           /\ job.ref = ledger[job.rec.problem].ref
    /\ job.step \in {"record", "reopen comment", "reopened"} => Stands(job.ref, job.rec.problem)
    /\ job.step \in {"sweep", "close", "closed"} =>
           \A p \in job.todo : ledger[p].status = "open"
    /\ job.step \in {"close", "closed"} => ledger[job.problem].status = "open"
    /\ job.step = "closed" => \A i \in issues : i.ref = ledger[job.problem].ref => ~i.open

(* The ledger errs only about the issue that is closed and not yet recorded.  *)
LedgerKnows ==
    \A p \in Problems : ledger[p].status = "open" /\ ~(job.step = "closed" /\ job.problem = p) =>
                            Stands(ledger[p].ref, p)

(* The issue that counts for p: the ledger's, or the one the export thread is *)
(* about to enter there; none while it has decided to open one.               *)
Counted(p) ==
    IF job.step \in {"create", "reopen"} /\ job.rec.problem = p THEN NoIssue
    ELSE IF job.step \in {"record", "reopen comment", "reopened"} /\ job.rec.problem = p
      THEN job.ref
    ELSE IF ledger[p].status = "open" THEN ledger[p].ref ELSE NoIssue

Strays(p) == {i \in OpenIssues(p) : i.ref # Counted(p)}

Hidden == strays \cup forgotten

Excused(p) == \A i \in Strays(p) : i.ref \in Hidden

StraysExcused == \A p \in Problems : Excused(p)

IInv == Types /\ IssuesNumbered /\ LedgersOwn /\ JobKnows /\ LedgerKnows /\ StraysExcused

-----------------------------------------------------------------------------
(* Lemmas on operators                                                        *)

LEMMA JobFields ==
    ASSUME Types
    PROVE  /\ job.step \in RecordSteps =>
                  /\ job \in RecordJob /\ job.rec \in Record /\ job.ref \in 0 .. MaxIssues
                  /\ job.rec.problem \in Problems /\ job.rec.cause \in Causes
                  /\ job.rec.age \in 0 .. ResolveAfter
           /\ job.step = "sweep" => job \in SweepJob /\ job.todo \in SUBSET Problems
           /\ job.step \in {"close", "closed"} =>
                  job \in CloseJob /\ job.todo \in SUBSET Problems /\ job.problem \in Problems
           /\ job.step = "idle" => job = Idle
           /\ job.step \in RecordSteps \cup {"idle", "sweep", "close", "closed"}
<1>1. job = Idle \/ job \in RecordJob \/ job \in SweepJob \/ job \in CloseJob
  BY DEF Types, Job
<1>2. CASE job = Idle
  BY <1>2 DEF Idle, RecordSteps
<1>3. CASE job \in RecordJob
  BY <1>3 DEF RecordJob, RecordSteps, Record
<1>4. CASE job \in SweepJob
  BY <1>4 DEF SweepJob, RecordSteps
<1>5. CASE job \in CloseJob
  BY <1>5 DEF CloseJob, RecordSteps
<1> QED
  BY <1>1, <1>2, <1>3, <1>4, <1>5

LEMMA LaterBound ==
    ASSUME NEW limit \in Nat, NEW age \in 0 .. limit
    PROVE  Later(age, limit) \in 0 .. limit
BY DEF Later

(* Growing older changes nothing but ages.                                    *)
LEMMA OlderRecordKeeps ==
    ASSUME NEW r \in Record
    PROVE  OlderRecord(r) \in Record /\ OlderRecord(r).problem = r.problem
<1>1. Later(r.age, ResolveAfter) \in 0 .. ResolveAfter
  BY LaterBound, LifecycleAssumption DEF Record
<1> QED
  BY <1>1 DEF OlderRecord, Record

LEMMA AgedKeeps ==
    ASSUME NEW state \in Entry
    PROVE  /\ Aged(state) \in Entry
           /\ Aged(state).status = state.status /\ Aged(state).ref = state.ref
<1>1. /\ Later(state.sinceComment, UpdateInterval) \in 0 .. UpdateInterval
      /\ Later(state.quiet, ResolveAfter) \in 0 .. ResolveAfter
  BY LaterBound, LifecycleAssumption DEF Entry
<1> QED
  BY <1>1 DEF Aged, Entry

(* ledger.put, whether the file could be written or not.                      *)
LEMMA LedgerPutKeeps ==
    ASSUME Types, NEW p \in Problems, NEW state \in Entry, NEW saved \in BOOLEAN,
           LedgerPut(p, state, saved)
    PROVE  /\ ledger' \in [Problems -> Entry] /\ disk' \in [Problems -> Entry]
           /\ faults' \in Nat
           /\ ledger'[p] = state /\ \A q \in Problems : q # p => ledger'[q] = ledger[q]
           /\ disk' = disk \/ disk' = ledger'
<1>1. ledger \in [Problems -> Entry] /\ disk \in [Problems -> Entry] /\ faults \in Nat
  BY DEF Types
<1>2. ledger' = [ledger EXCEPT ![p] = state] /\ disk' \in {disk, ledger'}
  BY DEF LedgerPut, diskVars
<1>3. faults' \in Nat
  BY <1>1 DEF LedgerPut, Fault
<1> QED
  BY <1>1, <1>2, <1>3

(* A tracker call that failed, or did not, leaves a number of faults.         *)
LEMMA FaultType ==
    ASSUME Types, NEW happens \in BOOLEAN, Fault(happens)
    PROVE  faults' \in Nat
BY DEF Types, Fault

(* Opening or closing an issue leaves the others, and its number: the issues  *)
(* before and after correspond.                                               *)
Turned(ref, open) ==
    /\ \A i \in issues : \E j \in issues' :
          /\ j.ref = i.ref /\ j.problem = i.problem
          /\ i.ref = ref => j.open = open
          /\ i.ref # ref => j = i
    /\ \A j \in issues' : \E i \in issues :
          /\ j.ref = i.ref /\ j.problem = i.problem
          /\ i.ref = ref => j.open = open
          /\ i.ref # ref => j = i

LEMMA OpenOrShutKeeps ==
    ASSUME Types, IssuesNumbered, NEW ref, NEW open \in BOOLEAN, OpenOrShut(ref, open)
    PROVE  /\ issues' \subseteq Issue /\ IssuesNumbered' /\ Turned(ref, open)
           /\ \A r, p : Belongs(r, p) => Belongs(r, p)'
<1> DEFINE turned(i) == IF i.ref = ref THEN [i EXCEPT !.open = open] ELSE i
           f == [i \in issues |-> turned(i)]
<1>1. issues' = {turned(i) : i \in issues}
  BY DEF OpenOrShut
<1>2. \A i \in Issue : /\ turned(i) \in Issue
                       /\ turned(i).ref = i.ref /\ turned(i).problem = i.problem
                       /\ i.ref = ref => turned(i).open = open
                       /\ i.ref # ref => turned(i) = i
  BY DEF Issue
<1>3. issues \subseteq Issue /\ IsFiniteSet(issues)
  BY DEF Types, IssuesNumbered
<1> HIDE DEF turned
<1>4. f \in Surjection(issues, issues')
  BY <1>1 DEF Surjection
<1>5. f \in Injection(issues, issues')
  <2>1. \A i, j \in issues : f[i] = f[j] => i = j
    BY <1>2, <1>3 DEF IssuesNumbered
  <2> QED
    BY <1>4, <2>1 DEF Surjection, Injection, IsInjective
<1>6. IsFiniteSet(issues') /\ Cardinality(issues') = Cardinality(issues)
  <2>1. IsFiniteSet(issues') /\ Cardinality(issues') <= Cardinality(issues)
    BY <1>3, <1>4, FS_Surjection
  <2>2. Cardinality(issues) <= Cardinality(issues')
    BY <2>1, <1>5, FS_Injection
  <2>3. Cardinality(issues) \in Nat /\ Cardinality(issues') \in Nat
    BY <1>3, <2>1, FS_CardinalityType
  <2> QED
    BY <2>1, <2>2, <2>3
<1>7. issues' \subseteq Issue
  BY <1>1, <1>2, <1>3
<1>8. IssuesNumbered'
  <2>1. \A j \in issues' : \E i \in issues : i \in Issue /\ j = turned(i)
    BY <1>1, <1>3
  <2>2. \A j \in issues' : j.ref <= Cardinality(issues')
    BY <1>2, <1>6, <2>1 DEF IssuesNumbered
  <2>3. \A j, k \in issues' : j.ref = k.ref => j = k
    BY <1>2, <2>1 DEF IssuesNumbered
  <2> QED
    BY <1>6, <2>2, <2>3 DEF IssuesNumbered
<1>9. \A i \in issues : turned(i) \in issues' /\ i \in Issue
  BY <1>1, <1>3
<1>10. \A i \in issues : \E j \in issues' :
          /\ j.ref = i.ref /\ j.problem = i.problem
          /\ i.ref = ref => j.open = open
          /\ i.ref # ref => j = i
  BY <1>2, <1>9
<1>11. ASSUME NEW r, NEW p, Belongs(r, p)
       PROVE  Belongs(r, p)'
  BY <1>10, <1>11 DEF Belongs
<1>12. \A j \in issues' : \E i \in issues :
          /\ j.ref = i.ref /\ j.problem = i.problem
          /\ i.ref = ref => j.open = open
          /\ i.ref # ref => j = i
  BY <1>1, <1>2, <1>3
<1> QED
  BY <1>7, <1>8, <1>10, <1>11, <1>12 DEF Turned

-----------------------------------------------------------------------------
(* Every variable keeps its type                                              *)

LEMMA EmptyIsLedger == Untracked \in Entry
BY LifecycleAssumption DEF Untracked, NoIssue, Entry

LEMMA InitTypes == ASSUME Init PROVE Types
<1>1. EmptyLedger \in [Problems -> Entry]
  BY EmptyIsLedger DEF EmptyLedger
<1>2. 0 \in Nat /\ ResolveAfter \in 0 .. ResolveAfter
  BY LifecycleAssumption
<1> QED
  BY <1>1, <1>2, LifecycleAssumption DEF Init, Types, Job

LEMMA HandleTypes == ASSUME Types, HandleStep PROVE Types'
<1> PICK r \in Due : \/ HandleSkips(r) \/ HandleActs(r) \/ HandleAnnounces(r)
                     \/ \E saved \in BOOLEAN : HandleQuietly(r, saved)
  BY DEF HandleStep
<1>a. /\ r \in Record /\ r.problem \in Problems /\ r.age \in 0 .. ResolveAfter
      /\ r.cause \in Causes
  BY DEF Due, Types, Record
<1>b. ledger[r.problem] \in Entry
  BY <1>a DEF Types
<1>1. CASE HandleSkips(r) \/ HandleAnnounces(r)
  <2>1. heard' \in [Problems -> 0 .. ResolveAfter]
    BY <1>a, <1>1 DEF HandleSkips, HandleAnnounces, Types
  <2> QED
    BY <1>1, <2>1 DEF HandleSkips, HandleAnnounces, Types, startVars, diskVars
<1>2. CASE HandleActs(r)
  <2>1. \A ref \in 0 .. MaxIssues :
            /\ Afresh(r, ref) \in RecordJob /\ Again(r, ref) \in RecordJob
            /\ [step |-> IF tracker.asks THEN "ask" ELSE "comment", rec |-> r, ref |-> ref]
                  \in RecordJob
    BY <1>a DEF Afresh, Again, RecordJob, RecordSteps
  <2>2. NoIssue \in 0 .. MaxIssues /\ ledger[r.problem].ref \in 0 .. MaxIssues
    BY <1>b, LifecycleAssumption DEF NoIssue, Entry
  <2>3. job' \in RecordJob
    BY <1>2, <2>1, <2>2 DEF HandleActs
  <2> QED
    BY <1>2, <2>3 DEF HandleActs, Types, Job, startVars, diskVars
<1>3. CASE \E saved \in BOOLEAN : HandleQuietly(r, saved)
  <2> PICK saved \in BOOLEAN : HandleQuietly(r, saved)
    BY <1>3
  <2>1. [ledger[r.problem] EXCEPT !.quiet = r.age] \in Entry
    BY <1>a, <1>b DEF Entry
  <2>2. /\ ledger' \in [Problems -> Entry] /\ disk' \in [Problems -> Entry] /\ faults' \in Nat
    BY <1>a, <2>1, LedgerPutKeeps DEF HandleQuietly
  <2>3. job' \in RecordJob
    BY <1>a, <1>b DEF HandleQuietly, RecordJob, RecordSteps, Entry
  <2> QED
    BY <2>2, <2>3 DEF HandleQuietly, Types, Job, startVars, diskVars
<1> QED
  BY <1>1, <1>2, <1>3

(* The steps of a job at hand that are one call to the tracker.               *)
CallStep(outcome) == \/ Ask(outcome) \/ Create(outcome) \/ Comment(outcome)
                     \/ Reopen(outcome) \/ ReopenComment(outcome)

LEMMA CallTypes ==
    ASSUME Types, IssuesNumbered, NEW outcome \in Outcomes, CallStep(outcome)
    PROVE  Types'
<1>a. job.step \in RecordSteps
  BY DEF CallStep, Ask, Create, Comment, Reopen, ReopenComment, RecordSteps
<1>b. job \in RecordJob /\ job.rec \in Record /\ job.ref \in 0 .. MaxIssues
      /\ job.rec.problem \in Problems
  BY <1>a, JobFields
<1>c. /\ \A step \in RecordSteps : [job EXCEPT !.step = step] \in RecordJob
      /\ Afresh(job.rec, job.ref) \in RecordJob /\ Again(job.rec, job.ref) \in RecordJob
  BY <1>b DEF RecordJob, Afresh, Again, RecordSteps
<1>d. faults' \in Nat
  BY FaultType DEF CallStep, Ask, Create, Comment, Reopen, ReopenComment
<1>e. PutBack(job.rec) => pending' \subseteq Record
  <2>1. [job.rec EXCEPT !.tried = TRUE] \in Record
    BY <1>b DEF Record
  <2> QED
    BY <2>1 DEF PutBack, Types
<1>1. CASE Ask(outcome)
  <2>1. job' \in Job
    BY <1>1, <1>c DEF Ask, Job, RecordSteps
  <2> QED
    BY <1>1, <1>d, <2>1 DEF Ask, Types, startVars, diskVars
<1>2. CASE Create(outcome)
  <2> DEFINE ref == Cardinality(issues) + 1
  <2>1. ref \in 1 .. MaxIssues
    BY <1>2, FS_CardinalityType, LifecycleAssumption DEF Create, IssuesNumbered
  <2>2. [ref |-> ref, problem |-> job.rec.problem, open |-> TRUE] \in Issue
    BY <1>b, <2>1 DEF Issue
  <2>3. issues' \subseteq Issue
    BY <1>2, <2>2 DEF Create, Types
  <2>4. [job EXCEPT !.step = "record", !.ref = ref] \in RecordJob
    <3>1. ref \in 0 .. MaxIssues
      BY <2>1, LifecycleAssumption
    <3> HIDE DEF ref
    <3> QED
      BY <1>b, <3>1 DEF RecordJob, RecordSteps
  <2>5. job' \in Job
    BY <1>2, <2>4 DEF Create, Job
  <2>6. pending' \subseteq Record
    BY <1>2, <1>e DEF Create, Types
  <2> QED
    BY <1>2, <1>d, <2>3, <2>5, <2>6 DEF Create, Types, startVars, diskVars
<1>3. CASE Comment(outcome)
  <2>1. job' \in Job
    BY <1>3, <1>c DEF Comment, Job, RecordSteps
  <2>2. pending' \subseteq Record
    BY <1>3, <1>e DEF Comment, Types
  <2> QED
    BY <1>3, <1>d, <2>1, <2>2 DEF Comment, Types, startVars, diskVars
<1>4. CASE Reopen(outcome)
  <2>1. job' \in Job
    BY <1>4, <1>c DEF Reopen, Job, RecordSteps
  <2>2. issues' \subseteq Issue
    BY <1>4, OpenOrShutKeeps DEF Reopen, Types
  <2> QED
    BY <1>4, <1>d, <2>1, <2>2 DEF Reopen, Types, startVars, diskVars
<1>5. CASE ReopenComment(outcome)
  <2>1. job' \in Job
    BY <1>5, <1>c DEF ReopenComment, Job, RecordSteps
  <2> QED
    BY <1>5, <1>d, <2>1 DEF ReopenComment, Types, startVars, diskVars
<1> QED
  BY <1>1, <1>2, <1>3, <1>4, <1>5 DEF CallStep

(* The steps of a job at hand that enter something in the ledger.             *)
EntryStep(saved) == RecordCreated(saved) \/ RecordCommented(saved) \/ RecordReopened(saved)

LEMMA EntryTypes ==
    ASSUME Types, NEW saved \in BOOLEAN, EntryStep(saved)
    PROVE  Types'
<1>a. job.step \in RecordSteps
  BY DEF EntryStep, RecordCreated, RecordCommented, RecordReopened, RecordSteps
<1>b. /\ job \in RecordJob /\ job.rec \in Record /\ job.ref \in 0 .. MaxIssues
      /\ job.rec.problem \in Problems /\ job.rec.cause \in Causes
      /\ job.rec.age \in 0 .. ResolveAfter
  BY <1>a, JobFields
<1>c. ledger[job.rec.problem] \in Entry /\ 0 \in 0 .. UpdateInterval
  BY <1>b, LifecycleAssumption DEF Types
<1>d. job' \in Job
  BY <1>b DEF EntryStep, RecordCreated, RecordCommented, RecordReopened, RecordJob, RecordSteps, Job
<1>1. PICK state \in Entry : LedgerPut(job.rec.problem, state, saved)
  <2>1. CASE RecordCreated(saved)
    <3>1. [status |-> "open", ref |-> job.ref, sinceComment |-> 0,
           quiet |-> job.rec.age, cause |-> job.rec.cause] \in Entry
      BY <1>b, <1>c DEF Entry
    <3> QED
      BY <2>1, <3>1 DEF RecordCreated
  <2>2. CASE RecordCommented(saved)
    <3>1. [ledger[job.rec.problem] EXCEPT !.sinceComment = 0, !.quiet = job.rec.age,
                                          !.cause = job.rec.cause] \in Entry
      BY <1>b, <1>c DEF Entry
    <3> QED
      BY <2>2, <3>1 DEF RecordCommented
  <2>3. CASE RecordReopened(saved)
    <3>1. [ledger[job.rec.problem] EXCEPT !.status = "open", !.sinceComment = 0] \in Entry
      BY <1>c DEF Entry
    <3> QED
      BY <2>3, <3>1 DEF RecordReopened
  <2> QED
    BY <2>1, <2>2, <2>3 DEF EntryStep
<1>2. /\ ledger' \in [Problems -> Entry] /\ disk' \in [Problems -> Entry] /\ faults' \in Nat
  BY <1>1, <1>b, LedgerPutKeeps
<1> QED
  BY <1>2, <1>d DEF EntryStep, RecordCreated, RecordCommented, RecordReopened, Types, startVars, diskVars

(* The steps of a sweep, and the end of a record's job.                       *)
SweepStep(p) ==
    \/ \E outcome \in Outcomes : ResolveComment(p, outcome) \/ Close(p, outcome)
    \/ \E saved \in BOOLEAN : RecordResolved(p, saved)

LEMMA SweepTypes ==
    ASSUME Types, IssuesNumbered, NEW p \in Problems, SweepStep(p)
    PROVE  Types'
<1>a. job.step \in {"sweep", "close", "closed"}
  BY DEF SweepStep, ResolveComment, Close, RecordResolved
<1>b. job.todo \in SUBSET Problems
  BY <1>a, JobFields
<1>c. Left(p) \in Job
  BY <1>b DEF Left, Job, SweepJob
<1>d. \A step \in {"close", "closed"} :
          [step |-> step, todo |-> job.todo, problem |-> p] \in Job
  BY <1>b DEF Job, CloseJob
<1>1. CASE \E outcome \in Outcomes : ResolveComment(p, outcome)
  BY <1>1, <1>c, <1>d, FaultType DEF ResolveComment, Types, startVars, diskVars
<1>2. CASE \E outcome \in Outcomes : Close(p, outcome)
  <2> PICK outcome \in Outcomes : Close(p, outcome)
    BY <1>2
  <2>1. issues' \subseteq Issue
    BY OpenOrShutKeeps DEF Close, Types
  <2>2. job' \in Job /\ faults' \in Nat
    BY <1>c, <1>d, FaultType DEF Close
  <2> QED
    BY <2>1, <2>2 DEF Close, Types, startVars, diskVars
<1>3. CASE \E saved \in BOOLEAN : RecordResolved(p, saved)
  <2> PICK saved \in BOOLEAN : RecordResolved(p, saved)
    BY <1>3
  <2>1. [ledger[p] EXCEPT !.status = "resolved"] \in Entry
    BY DEF Types, Entry
  <2>2. /\ ledger' \in [Problems -> Entry] /\ disk' \in [Problems -> Entry] /\ faults' \in Nat
    BY <2>1, LedgerPutKeeps DEF RecordResolved
  <2> QED
    BY <1>c, <2>2 DEF RecordResolved, Types, startVars, diskVars
<1> QED
  BY <1>1, <1>2, <1>3 DEF SweepStep

LEMMA HandledTypes == ASSUME Types, Handled PROVE Types'
<1>1. job.rec.problem \in Problems /\ job.rec.age \in 0 .. ResolveAfter
  BY JobFields DEF Handled, RecordSteps
<1>2. heard' \in [Problems -> 0 .. ResolveAfter]
  BY <1>1 DEF Handled, Types
<1> QED
  BY <1>2 DEF Handled, Types, Job, startVars, diskVars

Surroundings ==
    \/ \E p \in Problems, cause \in Causes, tracked \in Severities : Occur(p, cause, tracked)
    \/ \E i \in issues : OperatorCloses(i)
    \/ PassDropsLedger
    \/ Restart
    \/ Tick

LEMMA SurroundingsTypes == ASSUME Types, IssuesNumbered, Surroundings PROVE Types'
<1>1. CASE \E p \in Problems, cause \in Causes, tracked \in Severities : Occur(p, cause, tracked)
  <2> PICK p \in Problems, cause \in Causes, tracked \in Severities : Occur(p, cause, tracked)
    BY <1>1
  <2>1. [problem |-> p, cause |-> cause, tracked |-> tracked, age |-> 0, tried |-> FALSE]
            \in Record
    BY LifecycleAssumption DEF Record
  <2> QED
    BY <2>1 DEF Occur, Types, startVars, diskVars
<1>2. CASE \E i \in issues : OperatorCloses(i)
  <2>1. issues' \subseteq Issue
    BY <1>2, OpenOrShutKeeps DEF OperatorCloses
  <2>2. faults' \in Nat
    BY <1>2, FaultType DEF OperatorCloses
  <2> QED
    BY <1>2, <2>1, <2>2 DEF OperatorCloses, Types, startVars, diskVars
<1>3. CASE Restart
  <2>1. DryRuns \subseteq BOOLEAN
    BY LifecycleAssumption
  <2>2. EmptyLedger \in [Problems -> Entry]
    BY EmptyIsLedger DEF EmptyLedger
  <2>3. ledger' \in [Problems -> Entry] /\ disk' = ledger'
    BY <1>3, <2>2 DEF Restart, Types
  <2> QED
    BY <1>3, <2>1, <2>3 DEF Restart, Types, Job
<1>4. CASE Tick
  <2>1. ledger' \in [Problems -> Entry] /\ disk' \in [Problems -> Entry]
    BY <1>4, AgedKeeps DEF Tick, Types
  <2>2. pending' \subseteq Record
    BY <1>4, OlderRecordKeeps DEF Tick, Types
  <2>3. heard' \in [Problems -> 0 .. ResolveAfter]
    BY <1>4, LaterBound, LifecycleAssumption DEF Tick, Types
  <2>4. job' \in Job
    <3>1. CASE job \in RecordJob
      <4>1. job.rec \in Record
        BY <3>1 DEF RecordJob
      <4>2. OlderRecord(job.rec) \in Record
        BY <4>1, OlderRecordKeeps
      <4>3. job' = job \/ job' = [job EXCEPT !.rec = OlderRecord(job.rec)]
        BY <1>4 DEF Tick
      <4> QED
        BY <3>1, <4>2, <4>3 DEF RecordJob, Job
    <3>2. CASE job \notin RecordJob
      <4>1. "rec" \notin DOMAIN job
        BY <3>2 DEF Types, Job, Idle, SweepJob, CloseJob
      <4>2. job' = job
        BY <1>4, <4>1 DEF Tick
      <4> QED
        BY <4>2 DEF Types
    <3> QED
      BY <3>1, <3>2
  <2> QED
    BY <1>4, <2>1, <2>2, <2>3, <2>4 DEF Tick, Types, startVars, diskVars
<1>5. CASE PassDropsLedger
  BY <1>5 DEF PassDropsLedger, Types, startVars, diskVars
<1> QED
  BY <1>1, <1>2, <1>3, <1>4, <1>5 DEF Surroundings

LEMMA StartSweepTypes == ASSUME Types, StartSweep PROVE Types'
<1>1. job' \in Job
  BY DEF StartSweep, Stale, Job, SweepJob
<1> QED
  BY <1>1 DEF StartSweep, Types, startVars, diskVars

(* The steps, by what they do.                                                *)
LEMMA StepCases ==
    ASSUME [Next]_vars
    PROVE  \/ HandleStep
           \/ \E outcome \in Outcomes : CallStep(outcome)
           \/ \E saved \in BOOLEAN : EntryStep(saved)
           \/ \E p \in Problems : SweepStep(p)
           \/ Handled \/ StartSweep \/ Surroundings \/ UNCHANGED vars
<1>1. CASE JobStep
  <2>1. CASE \E outcome \in Outcomes : CallStep(outcome)
    BY <2>1
  <2>2. CASE \E saved \in BOOLEAN : EntryStep(saved)
    BY <2>2
  <2>3. CASE \E p \in Problems : SweepStep(p)
    BY <2>3
  <2> QED
    BY <1>1, <2>1, <2>2, <2>3 DEF JobStep, CallStep, EntryStep, SweepStep
<1> QED
  BY <1>1 DEF Next, Surroundings

LEMMA NextTypes == ASSUME Types, IssuesNumbered, [Next]_vars PROVE Types'
<1>1. CASE UNCHANGED vars
  BY <1>1 DEF vars, startVars, diskVars, Types
<1> QED
  BY <1>1, StepCases, HandleTypes, CallTypes, EntryTypes, SweepTypes, HandledTypes,
     StartSweepTypes, SurroundingsTypes

-----------------------------------------------------------------------------
(* Steps that leave the tracker alone                                         *)

SameEntry(a, b) == a.status = b.status /\ a.ref = b.ref

LedgerStays == \A p \in Problems : SameEntry(ledger'[p], ledger[p])

DiskStays == \/ disk' = ledger'
             \/ \A p \in Problems : SameEntry(disk'[p], disk[p])

TrackerStays == /\ issues' = issues /\ behindBack' = behindBack
                /\ strays' = strays /\ forgotten' = forgotten

(* No issue becomes a stray: what counted before still does, or was closed.   *)
CountedStays ==
    \A p \in Problems : \/ Counted(p)' = Counted(p)
                        \/ Counted(p) = NoIssue
                        \/ \A i \in issues : i.ref = Counted(p) => ~i.open

LEMMA Aside ==
    ASSUME IInv, Types', TrackerStays, LedgerStays, DiskStays, JobKnows', CountedStays,
           job.step = "closed" => job' = job
    PROVE  IInv'
<1>1. IssuesNumbered'
  BY DEF IInv, IssuesNumbered, TrackerStays
<1>2. /\ \A ref, p : Belongs(ref, p)' <=> Belongs(ref, p)
      /\ \A ref, p : Stands(ref, p)' <=> Stands(ref, p)
  BY DEF TrackerStays, Belongs, Stands
<1>3. LedgersOwn'
  <2>1. Owns(ledger)'
    BY <1>2 DEF IInv, LedgersOwn, Owns, LedgerStays, SameEntry
  <2>2. Owns(disk)'
    <3>1. CASE disk' = ledger'
      BY <2>1, <3>1 DEF Owns
    <3>2. CASE \A p \in Problems : SameEntry(disk'[p], disk[p])
      BY <1>2, <3>2 DEF IInv, LedgersOwn, Owns, SameEntry
    <3> QED
      BY <3>1, <3>2 DEF DiskStays
  <2> QED
    BY <2>1, <2>2 DEF LedgersOwn
<1>4. LedgerKnows'
  BY <1>2 DEF IInv, LedgerKnows, LedgerStays, SameEntry
<1>5. StraysExcused'
  <2> SUFFICES ASSUME NEW p \in Problems
               PROVE  Strays(p)' \subseteq Strays(p)
    BY DEF IInv, StraysExcused, Excused, Hidden, TrackerStays
  <2>1. \A i \in issues : i.ref \in 1 .. MaxIssues
    BY DEF IInv, Types, Issue
  <2>2. /\ OpenIssues(p)' = OpenIssues(p) /\ OpenIssues(p) \subseteq issues
        /\ \A i \in OpenIssues(p) : i.open
    BY DEF OpenIssues, TrackerStays
  <2>3. \A i \in OpenIssues(p) : i.ref # Counted(p)' => i.ref # Counted(p)
    BY <2>1, <2>2 DEF CountedStays, NoIssue
  <2> QED
    BY <2>2, <2>3 DEF Strays
<1> QED
  BY <1>1, <1>3, <1>4, <1>5 DEF IInv

LEMMA HandleIInv == ASSUME IInv, HandleStep PROVE IInv'
<1> PICK r \in Due : \/ HandleSkips(r) \/ HandleActs(r) \/ HandleAnnounces(r)
                     \/ \E saved \in BOOLEAN : HandleQuietly(r, saved)
  BY DEF HandleStep
<1>a. Types /\ Types' /\ r \in Record /\ r.problem \in Problems /\ r.age \in 0 .. ResolveAfter
  BY HandleTypes DEF IInv, Due, Types, Record
<1>b. job = Idle /\ job.step = "idle"
  BY DEF HandleSkips, HandleActs, HandleAnnounces, HandleQuietly, Idle
<1>c. TrackerStays
  BY DEF HandleSkips, HandleActs, HandleAnnounces, HandleQuietly, TrackerStays, startVars, diskVars
<1>1. CASE HandleSkips(r) \/ HandleAnnounces(r)
  <2>1. job' = job /\ ledger' = ledger /\ disk' = disk
    BY <1>1 DEF HandleSkips, HandleAnnounces, diskVars
  <2>2. LedgerStays /\ DiskStays /\ JobKnows'
    BY <1>b, <2>1 DEF LedgerStays, DiskStays, SameEntry, JobKnows
  <2>3. CountedStays
    BY <2>1 DEF CountedStays, Counted
  <2> QED
    BY <1>a, <1>b, <1>c, <2>1, <2>2, <2>3, Aside
<1>2. CASE HandleActs(r)
  <2> DEFINE state == ledger[r.problem]
  <2>1. /\ ledger' = ledger /\ disk' = disk
        /\ \/ state.status = "none" /\ job' = Afresh(r, NoIssue)
           \/ state.status = "resolved" /\ job' = Again(r, state.ref)
           \/ state.status = "open"
              /\ job' = [step |-> IF tracker.asks THEN "ask" ELSE "comment",
                         rec |-> r, ref |-> state.ref]
    <3>1. state.status \in {"none", "open", "resolved"}
      BY <1>a DEF Types, Entry
    <3> QED
      BY <1>2, <3>1 DEF HandleActs, diskVars
  <2>2. /\ job'.rec = r
        /\ \/ state.status # "open" /\ job'.step = "create"
           \/ state.status = "resolved" /\ job'.step = "reopen" /\ job'.ref = state.ref
           \/ state.status = "open" /\ job'.step \in {"ask", "comment"} /\ job'.ref = state.ref
    BY <2>1 DEF Afresh, Again
  <2>3. LedgerStays /\ DiskStays
    BY <2>1 DEF LedgerStays, DiskStays, SameEntry
  <2>4. JobKnows'
    BY <2>1, <2>2 DEF JobKnows
  <2>5. CountedStays
    <3>1. \A p \in Problems : Counted(p) = IF ledger[p].status = "open" THEN ledger[p].ref ELSE NoIssue
      BY <1>b DEF Counted
    <3>2. \A p \in Problems : Counted(p)' = IF ledger[p].status = "open" THEN ledger[p].ref ELSE NoIssue
      BY <2>1, <2>2 DEF Counted
    <3> QED
      BY <3>1, <3>2 DEF CountedStays
  <2> QED
    BY <1>a, <1>b, <1>c, <2>3, <2>4, <2>5, Aside
<1>3. CASE \E saved \in BOOLEAN : HandleQuietly(r, saved)
  <2> PICK saved \in BOOLEAN : HandleQuietly(r, saved)
    BY <1>3
  <2> DEFINE new == [ledger[r.problem] EXCEPT !.quiet = r.age]
  <2>1. new \in Entry /\ SameEntry(new, ledger[r.problem])
    <3>1. ledger[r.problem] \in Entry
      BY <1>a DEF Types
    <3> QED
      BY <1>a, <3>1 DEF Entry, SameEntry
  <2>2. /\ ledger'[r.problem] = new
        /\ \A q \in Problems : q # r.problem => ledger'[q] = ledger[q]
        /\ disk' = disk \/ disk' = ledger'
    BY <1>a, <2>1, LedgerPutKeeps DEF HandleQuietly, diskVars
  <2>3. LedgerStays /\ DiskStays
    BY <2>1, <2>2 DEF LedgerStays, DiskStays, SameEntry
  <2>4. job'.step = "done"
    BY DEF HandleQuietly
  <2>5. JobKnows'
    BY <2>4 DEF JobKnows
  <2>6. CountedStays
    BY <1>b, <2>3, <2>4 DEF CountedStays, Counted, LedgerStays, SameEntry
  <2> QED
    BY <1>a, <1>b, <1>c, <2>3, <2>5, <2>6, Aside
<1> QED
  BY <1>1, <1>2, <1>3

(* A tracker call that changes nothing in the tracker.                        *)
LEMMA HarmlessCallIInv ==
    ASSUME IInv, NEW outcome \in Outcomes,
           \/ Ask(outcome) \/ Comment(outcome)
           \/ outcome = "refused" /\ (Create(outcome) \/ Reopen(outcome))
           \/ outcome = "ok" /\ ReopenComment(outcome)
    PROVE  IInv'
<1>a. Types /\ Types'
  BY CallTypes DEF IInv, CallStep
<1>b. job.step \in {"ask", "comment", "create", "reopen", "reopen comment"}
  BY DEF Ask, Comment, Create, Reopen, ReopenComment
<1>c. job \in RecordJob /\ job.rec.problem \in Problems
  BY <1>a, <1>b, JobFields DEF RecordSteps
<1>d. ledger' = ledger /\ disk' = disk
  BY DEF Ask, Comment, Create, Reopen, ReopenComment, diskVars
<1>e. LedgerStays /\ DiskStays
  BY <1>d DEF LedgerStays, DiskStays, SameEntry
<1>f. TrackerStays
  <2>1. /\ issues' = issues /\ behindBack' = behindBack
        /\ strays' = strays /\ forgotten' = forgotten
    BY DEF Ask, Comment, Create, Reopen, ReopenComment, startVars, diskVars
  <2> QED
    BY <2>1 DEF TrackerStays
<1>1. \/ job.step = "ask" /\ job'.step = "comment" /\ job'.rec = job.rec /\ job'.ref = job.ref
      \/ /\ job.step = "ask" /\ job'.step \in {"create", "reopen"} /\ job'.rec = job.rec
         /\ job'.ref = job.ref /\ \E i \in issues : i.ref = job.ref /\ ~i.open
      \/ job.step = "comment" /\ job'.step = "commented" /\ job'.rec = job.rec /\ job'.ref = job.ref
      \/ job.step \in {"comment", "create"} /\ job'.step = "idle"
      \/ job.step = "reopen" /\ job'.step = "create" /\ job'.rec = job.rec
      \/ /\ job.step = "reopen comment" /\ job'.step = "reopened"
         /\ job'.rec = job.rec /\ job'.ref = job.ref
  <2>1. \A step \in RecordSteps :
            LET new == [job EXCEPT !.step = step]
            IN  new.step = step /\ new.rec = job.rec /\ new.ref = job.ref
    BY <1>c DEF RecordJob
  <2>2. CASE Ask(outcome)
    BY <2>1, <2>2 DEF Ask, Again, Afresh, RecordSteps
  <2>3. CASE Comment(outcome)
    BY <2>1, <2>3 DEF Comment, Idle, RecordSteps
  <2>4. CASE outcome = "refused" /\ (Create(outcome) \/ Reopen(outcome))
    <3>1. CASE Create(outcome)
      <4>1. job.step = "create" /\ job' = Idle
        BY <2>4, <3>1 DEF Create
      <4> QED
        BY <4>1 DEF Idle
    <3>2. CASE Reopen(outcome)
      BY <2>4, <3>2 DEF Reopen, Afresh
    <3> QED
      BY <2>4, <3>1, <3>2
  <2>5. CASE outcome = "ok" /\ ReopenComment(outcome)
    BY <2>1, <2>5 DEF ReopenComment, RecordSteps
  <2> QED
    BY <2>2, <2>3, <2>4, <2>5
<1>2. \A ref, p : Stands(ref, p)' <=> Stands(ref, p)
  BY <1>f DEF TrackerStays, Stands
<1>3. JobKnows'
  BY <1>1, <1>2, <1>d DEF IInv, JobKnows
<1>4. CountedStays
  <2> SUFFICES ASSUME NEW p \in Problems
               PROVE  \/ Counted(p)' = Counted(p)
                      \/ Counted(p) = NoIssue
                      \/ \A i \in issues : i.ref = Counted(p) => ~i.open
    BY DEF CountedStays
  <2>1. CASE job.rec.problem # p
    BY <1>1, <1>d, <2>1 DEF Counted
  <2>2. CASE job.rec.problem = p /\ job.step = "ask" /\ job'.step # "comment"
    <3>1. job.ref = ledger[p].ref /\ Counted(p) \in {ledger[p].ref, NoIssue}
      BY <2>2 DEF IInv, JobKnows, Counted
    <3>2. \E i \in issues : i.ref = job.ref /\ ~i.open
      BY <1>1, <2>2
    <3> QED
      BY <3>1, <3>2 DEF IInv, IssuesNumbered
  <2>3. CASE job.rec.problem = p /\ ~(job.step = "ask" /\ job'.step # "comment")
    BY <1>1, <1>d, <2>3 DEF Counted
  <2> QED
    BY <2>1, <2>2, <2>3
<1> QED
  BY <1>a, <1>b, <1>e, <1>f, <1>3, <1>4, Aside

(* The ends of jobs, a sweep and the passage of time.                         *)
LEMMA CommentedIInv ==
    ASSUME IInv, NEW saved \in BOOLEAN, RecordCommented(saved)
    PROVE  IInv'
<1>a. Types /\ Types'
  BY EntryTypes DEF IInv, EntryStep
<1>b. /\ job.step = "commented" /\ job \in RecordJob /\ job.rec.problem \in Problems
      /\ job.rec.cause \in Causes /\ job.rec.age \in 0 .. ResolveAfter
  BY <1>a, JobFields DEF RecordCommented, RecordSteps
<1> DEFINE p == job.rec.problem
           new == [ledger[p] EXCEPT !.sinceComment = 0, !.quiet = job.rec.age,
                                    !.cause = job.rec.cause]
<1>1. new \in Entry /\ SameEntry(new, ledger[p])
  <2>1. ledger[p] \in Entry /\ 0 \in 0 .. UpdateInterval
    BY <1>a, <1>b, LifecycleAssumption DEF Types
  <2> QED
    BY <1>b, <2>1 DEF Entry, SameEntry
<1>2. /\ ledger'[p] = new /\ \A q \in Problems : q # p => ledger'[q] = ledger[q]
      /\ disk' = disk \/ disk' = ledger'
  BY <1>a, <1>b, <1>1, LedgerPutKeeps DEF RecordCommented
<1>3. LedgerStays /\ DiskStays
  BY <1>1, <1>2 DEF LedgerStays, DiskStays, SameEntry
<1>4. job'.step = "done"
  BY <1>b DEF RecordCommented, RecordJob
<1>5. JobKnows'
  BY <1>4 DEF JobKnows
<1>6. CountedStays
  BY <1>b, <1>3, <1>4 DEF CountedStays, Counted, LedgerStays, SameEntry
<1>7. TrackerStays
  BY DEF RecordCommented, TrackerStays, startVars, diskVars
<1> QED
  BY <1>a, <1>b, <1>3, <1>5, <1>6, <1>7, Aside

LEMMA HandledIInv == ASSUME IInv, Handled PROVE IInv'
<1>a. Types'
  BY HandledTypes DEF IInv
<1>1. /\ job.step = "done" /\ job' = Idle /\ job'.step = "idle"
      /\ ledger' = ledger /\ disk' = disk
  BY DEF Handled, Idle, diskVars
<1>2. LedgerStays /\ DiskStays /\ TrackerStays
  BY <1>1 DEF Handled, LedgerStays, DiskStays, TrackerStays, startVars, diskVars, SameEntry
<1>3. JobKnows' /\ CountedStays
  BY <1>1 DEF JobKnows, CountedStays, Counted
<1> QED
  BY <1>a, <1>1, <1>2, <1>3, Aside

LEMMA StartSweepIInv == ASSUME IInv, StartSweep PROVE IInv'
<1>a. Types'
  BY StartSweepTypes DEF IInv
<1>1. /\ job = Idle /\ job.step = "idle" /\ job'.step = "sweep" /\ job'.todo = Stale
      /\ ledger' = ledger /\ disk' = disk
  BY DEF StartSweep, Idle, diskVars
<1>2. LedgerStays /\ DiskStays /\ TrackerStays
  BY <1>1 DEF StartSweep, LedgerStays, DiskStays, TrackerStays, startVars, diskVars, SameEntry
<1>3. JobKnows' /\ CountedStays
  BY <1>1 DEF JobKnows, CountedStays, Counted, Stale
<1> QED
  BY <1>a, <1>1, <1>2, <1>3, Aside

(* What is left of a sweep still is to be closed.                             *)
LEMMA LeftOver ==
    ASSUME NEW p
    PROVE  Left(p) = Idle \/ (Left(p).step = "sweep" /\ Left(p).todo = job.todo \ {p})
BY DEF Left

LEMMA HarmlessSweepIInv ==
    ASSUME IInv, NEW p \in Problems, NEW outcome \in Outcomes,
           ResolveComment(p, outcome) \/ (outcome = "refused" /\ Close(p, outcome))
    PROVE  IInv'
<1>a. Types'
  BY SweepTypes DEF IInv, SweepStep
<1>1. /\ job.step \in {"sweep", "close"} /\ ledger' = ledger /\ disk' = disk
      /\ \/ job' = Left(p)
         \/ /\ job' = [step |-> "close", todo |-> job.todo, problem |-> p]
            /\ job.step = "sweep" /\ p \in job.todo
  BY DEF ResolveComment, Close, diskVars
<1>2. LedgerStays /\ DiskStays /\ TrackerStays
  BY <1>1 DEF ResolveComment, Close, LedgerStays, DiskStays, TrackerStays, startVars, diskVars, SameEntry
<1>3. /\ job'.step \in {"idle", "sweep", "close"}
      /\ job'.step \in {"sweep", "close"} => job'.todo \subseteq job.todo
      /\ job'.step = "close" => job'.problem \in job.todo
  BY <1>1, LeftOver DEF Idle
<1>4. JobKnows'
  BY <1>1, <1>3 DEF JobKnows, IInv
<1>5. CountedStays
  BY <1>1, <1>3 DEF CountedStays, Counted
<1> QED
  BY <1>a, <1>1, <1>2, <1>4, <1>5, Aside

LEMMA OccurIInv ==
    ASSUME IInv, NEW p \in Problems, NEW cause \in Causes, NEW tracked \in Severities,
           Occur(p, cause, tracked)
    PROVE  IInv'
<1>a. Types'
  BY SurroundingsTypes DEF IInv, Surroundings
<1>1. job' = job /\ ledger' = ledger /\ disk' = disk /\ TrackerStays
  BY DEF Occur, TrackerStays, startVars, diskVars
<1>2. LedgerStays /\ DiskStays
  BY <1>1 DEF LedgerStays, DiskStays, SameEntry
<1>3. JobKnows' /\ CountedStays
  BY <1>1 DEF IInv, JobKnows, Stands, CountedStays, Counted, TrackerStays
<1> QED
  BY <1>a, <1>1, <1>2, <1>3, Aside

LEMMA TickIInv == ASSUME IInv, Tick PROVE IInv'
<1>a. Types /\ Types'
  BY SurroundingsTypes DEF IInv, Surroundings
<1>1. TrackerStays
  BY DEF Tick, TrackerStays, startVars, diskVars
<1>2. LedgerStays /\ DiskStays
  <2>1. \A p \in Problems : ledger[p] \in Entry /\ disk[p] \in Entry
    BY <1>a DEF Types
  <2>2. \A p \in Problems : ledger'[p] = Aged(ledger[p]) /\ disk'[p] = Aged(disk[p])
    BY DEF Tick
  <2> QED
    BY <2>1, <2>2, AgedKeeps DEF LedgerStays, DiskStays, SameEntry
<1>3. \/ job \in RecordJob /\ job'.step = job.step /\ job'.ref = job.ref
         /\ job'.rec.problem = job.rec.problem
      \/ job' = job
  <2>1. CASE job \in RecordJob
    <3>1. job.rec \in Record
      BY <2>1 DEF RecordJob
    <3>2. OlderRecord(job.rec).problem = job.rec.problem
      BY <3>1, OlderRecordKeeps
    <3>3. job' = job \/ job' = [job EXCEPT !.rec = OlderRecord(job.rec)]
      BY DEF Tick
    <3> QED
      BY <2>1, <3>2, <3>3 DEF RecordJob
  <2>2. CASE job \notin RecordJob
    <3>1. "rec" \notin DOMAIN job
      BY <1>a, <2>2 DEF Types, Job, Idle, SweepJob, CloseJob
    <3> QED
      BY <3>1 DEF Tick
  <2> QED
    BY <2>1, <2>2
<1>4. job \in RecordJob => job.step \in RecordSteps /\ job.rec.problem \in Problems
  BY DEF RecordJob, Record
<1>5. JobKnows' /\ CountedStays
  <2>1. \A ref, p : Stands(ref, p)' <=> Stands(ref, p)
    BY <1>1 DEF TrackerStays, Stands
  <2>2. CASE job' = job
    <3>1. job.step \in {"close", "closed"} => job.problem \in Problems
      BY <1>a, JobFields
    <3>2. job.step \in {"ask", "comment", "commented", "reopen", "reopen comment", "reopened"} =>
              job.rec.problem \in Problems
      BY <1>a, JobFields DEF RecordSteps
    <3>3. job.step \in {"sweep", "close", "closed"} => job.todo \in SUBSET Problems
      BY <1>a, JobFields
    <3>4. JobKnows'
      BY <1>1, <1>2, <2>1, <2>2, <3>1, <3>2, <3>3
         DEF IInv, JobKnows, LedgerStays, SameEntry, TrackerStays
    <3>5. CountedStays
      BY <1>2, <2>2 DEF CountedStays, Counted, LedgerStays, SameEntry
    <3> QED
      BY <3>4, <3>5
  <2>3. CASE job \in RecordJob /\ job' # job
    <3>1. JobKnows'
      BY <1>2, <1>3, <1>4, <2>1, <2>3
         DEF IInv, JobKnows, LedgerStays, SameEntry, RecordSteps
    <3>2. CountedStays
      BY <1>2, <1>3, <1>4, <2>3 DEF CountedStays, Counted, LedgerStays, SameEntry
    <3> QED
      BY <3>1, <3>2
  <2> QED
    BY <1>3, <2>2, <2>3
<1>6. job.step = "closed" => job' = job
  BY <1>3, <1>4 DEF RecordSteps
<1> QED
  BY <1>a, <1>1, <1>2, <1>5, <1>6, Aside

-----------------------------------------------------------------------------
(* Steps that change the tracker or what the ledger says of it                *)

(* An open issue is excused when it was a stray before or has been hidden.    *)
LEMMA NoMoreStrays ==
    ASSUME IInv, NEW p \in Problems, Strays(p)' \subseteq Strays(p), Hidden \subseteq Hidden'
    PROVE  Excused(p)'
BY DEF IInv, StraysExcused, Excused

LEMMA OneMoreStray ==
    ASSUME IInv, NEW p \in Problems, NEW x, Strays(p)' \subseteq Strays(p) \cup {x},
           Hidden \subseteq Hidden', x.ref \in Hidden'
    PROVE  Excused(p)'
BY DEF IInv, StraysExcused, Excused

LEMMA CreateIInv ==
    ASSUME IInv, NEW outcome \in {"ok", "lost"}, Create(outcome)
    PROVE  IInv'
<1>a. Types /\ Types' /\ IssuesNumbered
  BY CallTypes DEF IInv, CallStep, Outcomes
<1>b. /\ job.step = "create" /\ job \in RecordJob /\ job.rec.problem \in Problems
  BY <1>a, JobFields DEF Create, RecordSteps
<1> DEFINE p == job.rec.problem
           N == Cardinality(issues)
           new == [ref |-> N + 1, problem |-> p, open |-> TRUE]
<1>c. N \in Nat /\ IsFiniteSet(issues) /\ \A i \in issues : i.ref \in 1 .. MaxIssues /\ i.ref <= N
  BY <1>a, FS_CardinalityType DEF Types, IssuesNumbered, Issue
<1>1. /\ issues' = issues \cup {new} /\ behindBack' = behindBack
      /\ ledger' = ledger /\ disk' = disk
      /\ strays' = (IF outcome = "lost" THEN strays \cup {N + 1} ELSE strays)
      /\ forgotten' = forgotten
  BY DEF Create, startVars, diskVars
<1>2. \/ /\ outcome = "ok" /\ job'.step = "record" /\ job'.ref = N + 1 /\ job'.rec = job.rec
      \/ outcome = "lost" /\ job' = Idle /\ job'.step = "idle"
  <2>1. CASE outcome = "ok"
    <3>1. job' = [job EXCEPT !.step = "record", !.ref = N + 1]
      BY <2>1 DEF Create
    <3> HIDE DEF N
    <3> QED
      BY <1>b, <2>1, <3>1 DEF RecordJob
  <2>2. CASE outcome = "lost"
    BY <2>2 DEF Create, Idle
  <2> QED
    BY <2>1, <2>2
<1>3. /\ new.ref = N + 1 /\ new.problem = p /\ new.open /\ new \notin issues
  BY <1>c
<1> HIDE DEF new
<1>4. IssuesNumbered'
  <2>1. IsFiniteSet(issues') /\ Cardinality(issues') = N + 1
    BY <1>c, <1>1, <1>3, FS_AddElement
  <2>2. \A i \in issues' : i.ref <= N + 1
    BY <1>c, <1>1, <1>3
  <2>3. \A i, j \in issues' : i.ref = j.ref => i = j
    BY <1>a, <1>c, <1>1, <1>3 DEF IssuesNumbered
  <2> QED
    BY <2>1, <2>2, <2>3 DEF IssuesNumbered
<1>5. /\ \A ref, q : Belongs(ref, q) => Belongs(ref, q)'
      /\ \A ref, q : Stands(ref, q) => Stands(ref, q)'
  <2>1. ASSUME NEW ref, NEW q, Belongs(ref, q) PROVE Belongs(ref, q)'
    BY <1>1, <2>1 DEF Belongs
  <2>2. ASSUME NEW ref, NEW q, Stands(ref, q) PROVE Stands(ref, q)'
    BY <1>1, <2>2 DEF Stands
  <2> QED
    BY <2>1, <2>2
<1>6. LedgersOwn' /\ LedgerKnows'
  BY <1>b, <1>1, <1>2, <1>5 DEF IInv, LedgersOwn, Owns, LedgerKnows
<1>7. JobKnows'
  <2>1. CASE job'.step = "record"
    <3>1. \E i \in issues' : i.ref = job'.ref /\ i.problem = job'.rec.problem /\ i.open
      BY <1>1, <1>2, <1>3, <2>1
    <3> QED
      BY <2>1, <3>1 DEF JobKnows, Stands
  <2>2. CASE job'.step = "idle"
    BY <2>2 DEF JobKnows
  <2> QED
    BY <1>2, <2>1, <2>2
<1>8. StraysExcused'
  <2> SUFFICES ASSUME NEW q \in Problems
               PROVE  Excused(q)'
    BY DEF StraysExcused
  <2>e. Hidden \subseteq Hidden' /\ (outcome = "lost" => N + 1 \in Hidden')
    BY <1>1 DEF Hidden
  <2>1. CASE q # p
    <3>1. Counted(q)' = Counted(q)
      BY <1>b, <1>1, <1>2, <2>1 DEF Counted
    <3>2. OpenIssues(q)' = OpenIssues(q)
      BY <1>1, <1>3, <2>1 DEF OpenIssues
    <3> QED
      BY <2>e, <3>1, <3>2, NoMoreStrays DEF Strays
  <2>2. CASE q = p
    <3>1. Counted(q) = NoIssue
      BY <1>b, <2>2 DEF Counted
    <3>2. Strays(q) = OpenIssues(q) /\ OpenIssues(q)' \subseteq OpenIssues(q) \cup {new}
      BY <1>c, <1>1, <3>1 DEF Strays, OpenIssues, NoIssue
    <3>3. CASE outcome = "ok"
      <4>1. Counted(q)' = N + 1
        BY <1>2, <2>2, <3>3 DEF Counted
      <4>2. Strays(q)' \subseteq Strays(q)
        BY <1>3, <3>2, <4>1 DEF Strays
      <4> QED
        BY <2>e, <4>2, NoMoreStrays
    <3>4. CASE outcome = "lost"
      <4>1. Strays(q)' \subseteq Strays(q) \cup {new}
        BY <3>2 DEF Strays
      <4> QED
        BY <1>3, <2>e, <3>4, <4>1, OneMoreStray
    <3> QED
      BY <3>3, <3>4
  <2> QED
    BY <2>1, <2>2
<1> QED
  BY <1>a, <1>4, <1>6, <1>7, <1>8 DEF IInv

(* Whoever an issue belongs to, it is the only one of that number.            *)
LEMMA OneOwner ==
    ASSUME IssuesNumbered, NEW ref, NEW p, Belongs(ref, p), NEW i \in issues, i.ref = ref
    PROVE  i.problem = p
BY DEF IssuesNumbered, Belongs

LEMMA ReopenIInv ==
    ASSUME IInv, NEW outcome \in {"ok", "lost"}, Reopen(outcome)
    PROVE  IInv'
<1>a. Types /\ Types' /\ IssuesNumbered
  BY CallTypes DEF IInv, CallStep, Outcomes
<1>b. /\ job.step = "reopen" /\ job \in RecordJob /\ job.rec.problem \in Problems
  BY <1>a, JobFields DEF Reopen, RecordSteps
<1> DEFINE p == job.rec.problem
<1>c. \A i \in issues : i.ref \in 1 .. MaxIssues
  BY <1>a DEF Types, Issue
<1>d. Belongs(job.ref, p) /\ ledger[p].status # "none" /\ job.ref = ledger[p].ref
  BY <1>b DEF IInv, JobKnows, LedgersOwn, Owns
<1>1. /\ OpenOrShut(job.ref, TRUE) /\ behindBack' = behindBack \ {job.ref}
      /\ ledger' = ledger /\ disk' = disk
      /\ strays' = (IF outcome = "lost" THEN strays \cup {job.ref} ELSE strays \ {job.ref})
      /\ forgotten' = forgotten
  BY DEF Reopen, startVars, diskVars
<1>2. \/ /\ outcome = "ok" /\ job'.step = "reopen comment" /\ job'.ref = job.ref
         /\ job'.rec = job.rec
      \/ outcome = "lost" /\ job'.step = "create" /\ job'.rec = job.rec
  <2>1. CASE outcome = "ok"
    BY <1>b, <2>1 DEF Reopen, RecordJob
  <2>2. CASE outcome = "lost"
    BY <2>2 DEF Reopen, Afresh
  <2> QED
    BY <2>1, <2>2
<1>3. /\ IssuesNumbered' /\ Turned(job.ref, TRUE)
      /\ \A ref, q : Belongs(ref, q) => Belongs(ref, q)'
  BY <1>a, <1>1, OpenOrShutKeeps
<1>4. /\ \A ref, q : Belongs(ref, q) => Belongs(ref, q)'
      /\ \A ref, q : Stands(ref, q) => Stands(ref, q)'
      /\ \E j \in issues' : j.ref = job.ref /\ j.problem = p /\ j.open
  <2>1. ASSUME NEW ref, NEW q, Stands(ref, q) PROVE Stands(ref, q)'
    <3>1. PICK i \in issues : i.ref = ref /\ i.problem = q /\ (i.open \/ ref \in behindBack)
      BY <2>1 DEF Stands
    <3>2. PICK j \in issues' : /\ j.ref = i.ref /\ j.problem = i.problem
                               /\ i.ref = job.ref => j.open = TRUE
                               /\ i.ref # job.ref => j = i
      BY <1>3 DEF Turned
    <3>3. j.open \/ ref \in behindBack'
      BY <1>1, <3>1, <3>2
    <3>4. j.ref = ref /\ j.problem = q
      BY <3>1, <3>2
    <3> QED
      BY <3>3, <3>4 DEF Stands
  <2>2. \E j \in issues' : j.ref = job.ref /\ j.problem = p /\ j.open
    <3>1. PICK i \in issues : i.ref = job.ref /\ i.problem = p
      BY <1>d DEF Belongs
    <3> QED
      BY <1>3, <3>1 DEF Turned
  <2> QED
    BY <1>3, <2>1, <2>2
<1>5. LedgersOwn' /\ LedgerKnows'
  BY <1>b, <1>1, <1>2, <1>4 DEF IInv, LedgersOwn, Owns, LedgerKnows
<1>6. JobKnows'
  <2>1. job'.step = "reopen comment" =>
            \E i \in issues' : i.ref = job'.ref /\ i.problem = job'.rec.problem /\ i.open
    BY <1>2, <1>4
  <2> QED
    BY <1>1, <1>2, <1>d, <2>1 DEF JobKnows, Stands
<1>7. StraysExcused'
  <2> SUFFICES ASSUME NEW q \in Problems
               PROVE  Excused(q)'
    BY DEF StraysExcused
  <2>e. /\ \A r \in Hidden : r # job.ref => r \in Hidden'
        /\ outcome = "lost" => job.ref \in Hidden' /\ Hidden \subseteq Hidden'
    BY <1>1 DEF Hidden
  <2>f. \A j \in OpenIssues(q)' : j \in OpenIssues(q) \/ (j.ref = job.ref /\ q = p)
    <3> SUFFICES ASSUME NEW j \in OpenIssues(q)'
                 PROVE  j \in OpenIssues(q) \/ (j.ref = job.ref /\ q = p)
      OBVIOUS
    <3>1. j \in issues' /\ j.problem = q /\ j.open
      BY DEF OpenIssues
    <3>2. PICK i \in issues : /\ j.ref = i.ref /\ j.problem = i.problem
                              /\ i.ref # job.ref => j = i
      BY <1>3, <3>1 DEF Turned
    <3>3. i.ref = job.ref => i.problem = p
      BY <1>a, <1>d, OneOwner
    <3>4. CASE i.ref = job.ref
      BY <3>1, <3>2, <3>3, <3>4
    <3>5. CASE i.ref # job.ref
      <4>1. j = i
        BY <3>2, <3>5
      <4>2. j \in issues
        BY <4>1
      <4> QED
        BY <3>1, <4>2 DEF OpenIssues
    <3> QED
      BY <3>4, <3>5
  <2>1. CASE q # p
    <3>1. Counted(q)' = Counted(q)
      BY <1>b, <1>1, <1>2, <2>1 DEF Counted
    <3>2. Strays(q)' \subseteq Strays(q)
      BY <2>1, <2>f, <3>1 DEF Strays
    <3>3. \A i \in Strays(q) : i.ref # job.ref
      BY <1>a, <1>d, <2>1, OneOwner DEF Strays, OpenIssues
    <3> QED
      BY <2>e, <3>2, <3>3 DEF Excused, IInv, StraysExcused
  <2>2. CASE q = p
    <3>1. Counted(q) = NoIssue
      BY <1>b, <2>2 DEF Counted
    <3>2. Strays(q) = OpenIssues(q)
      BY <1>c, <3>1 DEF Strays, OpenIssues, NoIssue
    <3>3. CASE outcome = "ok"
      <4>1. Counted(q)' = job.ref
        BY <1>2, <2>2, <3>3 DEF Counted
      <4>2. Strays(q)' \subseteq Strays(q)
        BY <2>f, <3>2, <4>1 DEF Strays
      <4>3. \A i \in Strays(q)' : i.ref # job.ref
        BY <4>1 DEF Strays
      <4> QED
        BY <2>e, <4>2, <4>3 DEF Excused, IInv, StraysExcused
    <3>4. CASE outcome = "lost"
      <4>1. PICK x \in issues' : x.ref = job.ref
        BY <1>3, <1>d DEF Belongs
      <4>2. Strays(q)' \subseteq Strays(q) \cup {x}
        BY <1>3, <2>f, <3>2, <4>1 DEF Strays, OpenIssues, IssuesNumbered
      <4> QED
        BY <2>e, <3>4, <4>1, <4>2, OneMoreStray
    <3> QED
      BY <3>3, <3>4
  <2> QED
    BY <2>1, <2>2
<1> QED
  BY <1>a, <1>3, <1>5, <1>6, <1>7 DEF IInv

LEMMA ReopenCommentFailsIInv ==
    ASSUME IInv, NEW outcome \in {"refused", "lost"}, ReopenComment(outcome)
    PROVE  IInv'
<1>a. Types /\ Types' /\ IssuesNumbered
  BY CallTypes DEF IInv, CallStep, Outcomes
<1>b. /\ job.step = "reopen comment" /\ job \in RecordJob /\ job.rec.problem \in Problems
  BY <1>a, JobFields DEF ReopenComment, RecordSteps
<1> DEFINE p == job.rec.problem
<1>1. /\ issues' = issues /\ behindBack' = behindBack /\ ledger' = ledger /\ disk' = disk
      /\ strays' = strays \cup {job.ref} /\ forgotten' = forgotten
      /\ job'.step = "create" /\ job'.rec = job.rec
  BY DEF ReopenComment, Afresh, startVars, diskVars
<1>2. IssuesNumbered' /\ LedgersOwn' /\ LedgerKnows'
  BY <1>b, <1>1, ZenonT(30) DEF IInv, IssuesNumbered, LedgersOwn, Owns, Belongs, LedgerKnows, Stands
<1>3. JobKnows'
  BY <1>1 DEF JobKnows
<1>4. StraysExcused'
  <2> SUFFICES ASSUME NEW q \in Problems
               PROVE  Excused(q)'
    BY DEF StraysExcused
  <2>e. /\ Hidden \subseteq Hidden' /\ job.ref \in Hidden'
        /\ OpenIssues(q)' = OpenIssues(q)
    BY <1>1 DEF Hidden, OpenIssues
  <2>1. CASE q # p
    <3>1. Counted(q)' = Counted(q)
      BY <1>b, <1>1, <2>1 DEF Counted
    <3> QED
      BY <2>e, <3>1, NoMoreStrays DEF Strays
  <2>2. CASE q = p
    <3>1. Counted(q) = job.ref
      BY <1>b, <2>2 DEF Counted
    <3>2. PICK x \in issues : x.ref = job.ref
      BY <1>b DEF IInv, JobKnows, Stands
    <3>3. Strays(q)' \subseteq Strays(q) \cup {x}
      BY <1>a, <2>e, <3>1, <3>2 DEF Strays, OpenIssues, IssuesNumbered
    <3> QED
      BY <2>e, <3>2, <3>3, OneMoreStray
  <2> QED
    BY <2>1, <2>2
<1> QED
  BY <1>a, <1>2, <1>3, <1>4 DEF IInv

(* An issue that was created or reopened becomes the ledger's.                *)
LEMMA EnteredIInv ==
    ASSUME IInv, NEW saved \in BOOLEAN, RecordCreated(saved) \/ RecordReopened(saved)
    PROVE  IInv'
<1>a. Types /\ Types'
  BY EntryTypes DEF IInv, EntryStep
<1>b. /\ job.step \in {"record", "reopened"} /\ job \in RecordJob /\ job.rec.problem \in Problems
      /\ job.ref \in 0 .. MaxIssues /\ job.rec.cause \in Causes
      /\ job.rec.age \in 0 .. ResolveAfter
  BY <1>a, JobFields DEF RecordCreated, RecordReopened, RecordSteps
<1> DEFINE p == job.rec.problem
<1>1. PICK new \in Entry : /\ new.status = "open" /\ new.ref = job.ref
                           /\ LedgerPut(p, new, saved)
  <2>1. ledger[p] \in Entry /\ 0 \in 0 .. UpdateInterval
    BY <1>a, <1>b, LifecycleAssumption DEF Types
  <2>2. CASE RecordCreated(saved)
    <3> DEFINE new == [status |-> "open", ref |-> job.ref, sinceComment |-> 0,
                       quiet |-> job.rec.age, cause |-> job.rec.cause]
    <3>1. new \in Entry /\ new.status = "open" /\ new.ref = job.ref
      BY <1>b, <2>1 DEF Entry
    <3> QED
      BY <2>2, <3>1 DEF RecordCreated
  <2>3. CASE RecordReopened(saved)
    <3> DEFINE new == [ledger[p] EXCEPT !.status = "open", !.sinceComment = 0]
    <3>1. job.ref = ledger[p].ref
      BY <2>3 DEF RecordReopened, IInv, JobKnows
    <3>2. new \in Entry /\ new.status = "open" /\ new.ref = job.ref
      BY <2>1, <3>1 DEF Entry
    <3> QED
      BY <2>3, <3>2 DEF RecordReopened
  <2> QED
    BY <2>2, <2>3
<1>2. /\ ledger'[p] = new /\ \A q \in Problems : q # p => ledger'[q] = ledger[q]
      /\ disk' = disk \/ disk' = ledger'
  BY <1>a, <1>b, <1>1, LedgerPutKeeps
<1>3. TrackerStays /\ job'.step = "done"
  BY <1>b DEF RecordCreated, RecordReopened, TrackerStays, startVars, diskVars, RecordJob
<1>4. /\ \A ref, q : Belongs(ref, q)' <=> Belongs(ref, q)
      /\ \A ref, q : Stands(ref, q)' <=> Stands(ref, q)
      /\ IssuesNumbered'
  BY <1>3 DEF TrackerStays, Belongs, Stands, IInv, IssuesNumbered
<1>5. Stands(job.ref, p) /\ Belongs(job.ref, p)
  BY <1>b DEF IInv, JobKnows, Stands, Belongs
<1>6. LedgersOwn'
  <2>1. Owns(ledger)'
    BY <1>1, <1>2, <1>4, <1>5 DEF IInv, LedgersOwn, Owns
  <2>2. Owns(disk)'
    BY <1>2, <1>4, <2>1 DEF IInv, LedgersOwn, Owns
  <2> QED
    BY <2>1, <2>2 DEF LedgersOwn
<1>7. LedgerKnows'
  BY <1>1, <1>2, <1>4, <1>5, <1>b DEF IInv, LedgerKnows
<1>8. JobKnows'
  BY <1>3 DEF JobKnows
<1>9. \A q \in Problems : Counted(q)' = Counted(q)
  <2> SUFFICES ASSUME NEW q \in Problems
               PROVE  Counted(q)' = Counted(q)
    OBVIOUS
  <2>1. Counted(q)' = IF ledger'[q].status = "open" THEN ledger'[q].ref ELSE NoIssue
    BY <1>3 DEF Counted
  <2>2. CASE q = p
    BY <1>b, <1>1, <1>2, <2>1, <2>2 DEF Counted
  <2>3. CASE q # p
    BY <1>b, <1>2, <2>1, <2>3 DEF Counted
  <2> QED
    BY <2>2, <2>3
<1>10. StraysExcused'
  <2> SUFFICES ASSUME NEW q \in Problems
               PROVE  Excused(q)'
    BY DEF StraysExcused
  <2>1. Strays(q)' \subseteq Strays(q) /\ Hidden \subseteq Hidden'
    BY <1>3, <1>9 DEF Strays, OpenIssues, TrackerStays, Hidden
  <2> QED
    BY <2>1, NoMoreStrays
<1> QED
  BY <1>a, <1>4, <1>6, <1>7, <1>8, <1>10 DEF IInv

(* Closing leaves no issue open that was not.                                 *)
LEMMA ClosingOpensNone ==
    ASSUME NEW ref, Turned(ref, FALSE), NEW p
    PROVE  OpenIssues(p)' \subseteq OpenIssues(p)
<1> SUFFICES ASSUME NEW j \in OpenIssues(p)'
             PROVE  j \in OpenIssues(p)
  OBVIOUS
<1>1. j \in issues' /\ j.problem = p /\ j.open
  BY DEF OpenIssues
<1>2. PICK i \in issues : /\ i.ref = ref => j.open = FALSE
                          /\ i.ref # ref => j = i
  BY <1>1 DEF Turned
<1>3. j = i
  BY <1>1, <1>2
<1> QED
  BY <1>1, <1>3 DEF OpenIssues

LEMMA CloseIInv ==
    ASSUME IInv, NEW p \in Problems, NEW outcome \in {"ok", "lost"}, Close(p, outcome)
    PROVE  IInv'
<1>a. Types /\ Types' /\ IssuesNumbered
  BY SweepTypes DEF IInv, SweepStep, Outcomes
<1> DEFINE ref == ledger[p].ref
<1>b. ledger[p].status = "open" /\ Belongs(ref, p) /\ job.step \in {"sweep", "close"}
  BY DEF Close, IInv, JobKnows, LedgersOwn, Owns
<1>1. /\ OpenOrShut(ref, FALSE) /\ ledger' = ledger /\ disk' = disk
      /\ strays' = strays /\ forgotten' = forgotten
      /\ behindBack' = IF outcome = "lost" THEN behindBack \cup {ref} ELSE behindBack
  BY DEF Close, startVars, diskVars
<1>2. \/ /\ outcome = "ok" /\ job'.step = "closed" /\ job'.todo = job.todo /\ job'.problem = p
      \/ /\ outcome = "lost" /\ job'.step \in {"idle", "sweep"}
         /\ job'.step = "sweep" => job'.todo \subseteq job.todo
  <2>1. CASE outcome = "ok"
    BY <2>1 DEF Close
  <2>2. CASE outcome = "lost"
    BY <2>2, LeftOver DEF Close, Idle
  <2> QED
    BY <2>1, <2>2
<1>3. /\ IssuesNumbered' /\ Turned(ref, FALSE)
      /\ \A r, q : Belongs(r, q) => Belongs(r, q)'
  BY <1>a, <1>1, OpenOrShutKeeps
<1>4. LedgersOwn'
  BY <1>1, <1>3 DEF IInv, LedgersOwn, Owns
<1>5. JobKnows'
  <2>1. outcome = "ok" => \A j \in issues' : j.ref = ledger'[job'.problem].ref => ~j.open
    <3> SUFFICES ASSUME outcome = "ok", NEW j \in issues', j.ref = ref
                 PROVE  ~j.open
      BY <1>1, <1>2
    <3>1. PICK i \in issues : /\ j.ref = i.ref
                              /\ i.ref = ref => j.open = FALSE
      BY <1>3 DEF Turned
    <3> QED
      BY <3>1
  <2>2. \A q \in job.todo : ledger[q].status = "open"
    BY <1>b DEF IInv, JobKnows
  <2> QED
    BY <1>b, <1>1, <1>2, <2>1, <2>2 DEF JobKnows
<1>6. LedgerKnows'
  <2> SUFFICES ASSUME NEW q \in Problems, ledger[q].status = "open",
                      ~(job'.step = "closed" /\ job'.problem = q)
               PROVE  \E j \in issues' : /\ j.ref = ledger[q].ref /\ j.problem = q
                                         /\ j.open \/ ledger[q].ref \in behindBack'
    BY <1>1 DEF LedgerKnows, Stands
  <2>1. PICK i \in issues : /\ i.ref = ledger[q].ref /\ i.problem = q
                            /\ i.open \/ ledger[q].ref \in behindBack
    BY <1>b DEF IInv, LedgerKnows, Stands
  <2>2. PICK j \in issues' : /\ j.ref = i.ref /\ j.problem = i.problem
                             /\ i.ref # ref => j = i
    BY <1>3 DEF Turned
  <2>3. CASE q = p
    BY <1>1, <1>2, <2>1, <2>2, <2>3
  <2>4. CASE q # p
    <3>1. i.ref # ref
      BY <1>a, <1>b, <2>1, <2>4, OneOwner
    <3> QED
      BY <1>1, <2>1, <2>2, <3>1
  <2> QED
    BY <2>3, <2>4
<1>7. StraysExcused'
  <2> SUFFICES ASSUME NEW q \in Problems
               PROVE  Excused(q)'
    BY DEF StraysExcused
  <2>1. Counted(q)' = Counted(q)
    BY <1>b, <1>1, <1>2 DEF Counted
  <2>2. Strays(q)' \subseteq Strays(q)
    BY <1>3, <2>1, ClosingOpensNone DEF Strays
  <2> QED
    BY <1>1, <2>2, NoMoreStrays DEF Hidden
<1> QED
  BY <1>a, <1>3, <1>4, <1>5, <1>6, <1>7 DEF IInv

LEMMA ResolvedIInv ==
    ASSUME IInv, NEW p \in Problems, NEW saved \in BOOLEAN, RecordResolved(p, saved)
    PROVE  IInv'
<1>a. Types /\ Types'
  BY SweepTypes DEF IInv, SweepStep
<1>b. /\ job.step = "closed" /\ job.problem = p /\ ledger[p].status = "open"
      /\ \A q \in job.todo : ledger[q].status = "open"
      /\ \A i \in issues : i.ref = ledger[p].ref => ~i.open
      /\ job.todo \in SUBSET Problems
  BY <1>a, JobFields DEF RecordResolved, IInv, JobKnows
<1> DEFINE new == [ledger[p] EXCEPT !.status = "resolved"]
<1>1. new \in Entry /\ new.status = "resolved" /\ new.ref = ledger[p].ref
  <2>1. ledger[p] \in Entry
    BY <1>a DEF Types
  <2> QED
    BY <2>1 DEF Entry
<1>2. /\ ledger'[p] = new /\ \A q \in Problems : q # p => ledger'[q] = ledger[q]
      /\ disk' = disk \/ disk' = ledger'
  BY <1>a, <1>1, LedgerPutKeeps DEF RecordResolved
<1> HIDE DEF new
<1>3. /\ TrackerStays
      /\ job'.step = "idle" \/ (job'.step = "sweep" /\ job'.todo = job.todo \ {p})
  BY LeftOver DEF RecordResolved, TrackerStays, startVars, diskVars, Idle
<1>4. /\ \A ref, q : Belongs(ref, q)' <=> Belongs(ref, q)
      /\ \A ref, q : Stands(ref, q)' <=> Stands(ref, q)
      /\ IssuesNumbered'
  BY <1>3 DEF TrackerStays, Belongs, Stands, IInv, IssuesNumbered
<1>5. LedgersOwn'
  <2>0. \A q \in Problems : ledger[q].status # "none" => Belongs(ledger[q].ref, q)
    BY DEF IInv, LedgersOwn, Owns
  <2>1. Owns(ledger)'
    BY <1>b, <1>1, <1>2, <1>4, <2>0 DEF Owns
  <2>2. Owns(disk)'
    BY <1>2, <1>4, <2>1 DEF IInv, LedgersOwn, Owns
  <2> QED
    BY <2>1, <2>2 DEF LedgersOwn
<1>6. LedgerKnows'
  BY <1>b, <1>1, <1>2, <1>4 DEF IInv, LedgerKnows
<1>7. JobKnows'
  BY <1>b, <1>2, <1>3 DEF JobKnows
<1>8. StraysExcused'
  <2> SUFFICES ASSUME NEW q \in Problems
               PROVE  Excused(q)'
    BY DEF StraysExcused
  <2>1. Counted(q)' = IF ledger'[q].status = "open" THEN ledger'[q].ref ELSE NoIssue
    BY <1>3 DEF Counted
  <2>2. Counted(q) = IF ledger[q].status = "open" THEN ledger[q].ref ELSE NoIssue
    BY <1>b DEF Counted
  <2>3. OpenIssues(q)' = OpenIssues(q) /\ Hidden \subseteq Hidden'
    BY <1>3 DEF TrackerStays, OpenIssues, Hidden
  <2>4. CASE q = p
    <3>1. \A i \in OpenIssues(q) : i.ref # Counted(q)
      BY <1>b, <2>2, <2>4 DEF OpenIssues
    <3> QED
      BY <2>3, <3>1, NoMoreStrays DEF Strays
  <2>5. CASE q # p
    <3>1. Counted(q)' = Counted(q)
      BY <1>2, <2>1, <2>2, <2>5
    <3> QED
      BY <2>3, <3>1, NoMoreStrays DEF Strays
  <2> QED
    BY <2>4, <2>5
<1> QED
  BY <1>a, <1>4, <1>5, <1>6, <1>7, <1>8 DEF IInv

LEMMA OperatorClosesIInv ==
    ASSUME IInv, NEW closed \in issues, OperatorCloses(closed)
    PROVE  IInv'
<1>a. Types /\ Types' /\ IssuesNumbered
  BY SurroundingsTypes DEF IInv, Surroundings
<1>1. /\ OpenOrShut(closed.ref, FALSE) /\ ledger' = ledger /\ disk' = disk /\ job' = job
      /\ behindBack' = behindBack \cup {closed.ref}
      /\ strays' = strays /\ forgotten' = forgotten
  BY DEF OperatorCloses, startVars, diskVars
<1>2. /\ IssuesNumbered' /\ Turned(closed.ref, FALSE)
      /\ \A r, q : Belongs(r, q) => Belongs(r, q)'
  BY <1>a, <1>1, OpenOrShutKeeps
<1>3. ASSUME NEW ref, NEW q, Stands(ref, q)
      PROVE  Stands(ref, q)'
  <2>1. PICK i \in issues : i.ref = ref /\ i.problem = q /\ (i.open \/ ref \in behindBack)
    BY <1>3 DEF Stands
  <2>2. PICK j \in issues' : /\ j.ref = i.ref /\ j.problem = i.problem
                             /\ i.ref # closed.ref => j = i
    BY <1>2 DEF Turned
  <2>3. j.open \/ ref \in behindBack'
    BY <1>1, <2>1, <2>2
  <2> QED
    BY <2>1, <2>2, <2>3 DEF Stands
<1>4. LedgersOwn' /\ LedgerKnows'
  BY <1>1, <1>2, <1>3 DEF IInv, LedgersOwn, Owns, LedgerKnows
<1>5. JobKnows'
  <2>1. job.step = "closed" => \A j \in issues' : j.ref = ledger[job.problem].ref => ~j.open
    <3> SUFFICES ASSUME job.step = "closed", NEW j \in issues', j.ref = ledger[job.problem].ref
                 PROVE  ~j.open
      OBVIOUS
    <3>1. PICK i \in issues : /\ j.ref = i.ref
                              /\ i.ref = closed.ref => j.open = FALSE
                              /\ i.ref # closed.ref => j = i
      BY <1>2 DEF Turned
    <3>2. ~i.open
      BY <3>1 DEF IInv, JobKnows
    <3> QED
      BY <3>1, <3>2
  <2>2. JobKnows
    BY DEF IInv
  <2> QED
    BY <1>1, <1>3, <2>1, <2>2 DEF JobKnows
<1>6. StraysExcused'
  <2> SUFFICES ASSUME NEW q \in Problems
               PROVE  Excused(q)'
    BY DEF StraysExcused
  <2>1. Counted(q)' = Counted(q)
    BY <1>1 DEF Counted
  <2>2. Strays(q)' \subseteq Strays(q)
    BY <1>2, <2>1, ClosingOpensNone DEF Strays
  <2> QED
    BY <1>1, <2>2, NoMoreStrays DEF Hidden
<1> QED
  BY <1>a, <1>2, <1>4, <1>5, <1>6 DEF IInv

(* The ledger's file may go at any time: what the process knows stays.        *)
LEMMA PassDropsLedgerIInv == ASSUME IInv, PassDropsLedger PROVE IInv'
<1>a. Types'
  BY SurroundingsTypes DEF IInv, Surroundings
<1>1. job' = job /\ ledger' = ledger /\ disk' = disk /\ TrackerStays
  BY DEF PassDropsLedger, TrackerStays, startVars, diskVars
<1>2. LedgerStays /\ DiskStays
  BY <1>1 DEF LedgerStays, DiskStays, SameEntry
<1>3. JobKnows' /\ CountedStays
  BY <1>1 DEF IInv, JobKnows, Stands, CountedStays, Counted, TrackerStays
<1> QED
  BY <1>a, <1>1, <1>2, <1>3, Aside

(* A restart forgets what was not written down or was in a file now gone, and *)
(* excuses it.                                                                *)
LEMMA RestartIInv == ASSUME IInv, Restart PROVE IInv'
<1>a. Types /\ Types' /\ IssuesNumbered
  BY SurroundingsTypes DEF IInv, Surroundings
<1>1. /\ ledger' = (IF fileGone THEN EmptyLedger ELSE disk) /\ disk' = ledger'
      /\ issues' = issues /\ job' = Idle /\ job'.step = "idle"
      /\ behindBack' = behindBack \cup {i.ref : i \in {j \in issues : ~j.open}}
  BY DEF Restart, Idle
<1>2. IssuesNumbered' /\ JobKnows'
  BY <1>1 DEF IInv, IssuesNumbered, JobKnows
<1>3. \A ref, q : Belongs(ref, q)' <=> Belongs(ref, q)
  BY <1>1 DEF Belongs
<1>4. \A q \in Problems : ledger'[q].status # "none" => ~fileGone /\ ledger'[q] = disk[q]
  BY <1>1 DEF EmptyLedger, Untracked
<1>5. LedgersOwn'
  BY <1>1, <1>3, <1>4 DEF IInv, LedgersOwn, Owns
<1>6. LedgerKnows'
  <2> SUFFICES ASSUME NEW q \in Problems, ledger'[q].status = "open"
               PROVE  Stands(ledger[q].ref, q)'
    BY DEF LedgerKnows
  <2>1. PICK i \in issues : i.ref = ledger'[q].ref /\ i.problem = q
    BY <1>4 DEF IInv, LedgersOwn, Owns, Belongs
  <2>2. i.open \/ i.ref \in behindBack'
    BY <1>1
  <2> QED
    BY <1>1, <2>1, <2>2 DEF Stands
<1>7. StraysExcused'
  <2> SUFFICES ASSUME NEW q \in Problems, NEW i \in Strays(q)'
               PROVE  i.ref \in Hidden'
    BY DEF StraysExcused, Excused
  <2>1. i \in issues /\ i.problem = q /\ i.open /\ i.ref # Counted(q)'
    BY <1>1 DEF Strays, OpenIssues
  <2>2. Counted(q)' = IF ledger'[q].status = "open" THEN ledger'[q].ref ELSE NoIssue
    BY <1>1 DEF Counted
  <2> DEFINE onDisk == disk[q].status = "open" /\ disk[q].ref = i.ref
  <2>3. forgotten \subseteq forgotten' /\ strays \subseteq strays'
    BY DEF Restart
  <2>4. CASE ~onDisk
    <3>1. i.ref \in forgotten \/ i.ref \in strays'
      BY <2>1, <2>4 DEF Restart
    <3> QED
      BY <2>3, <3>1 DEF Hidden
  <2>5. CASE onDisk /\ fileGone
    <3>1. i.ref \in forgotten'
      BY <2>1, <2>5 DEF Restart
    <3> QED
      BY <3>1 DEF Hidden
  <2>6. CASE onDisk /\ ~fileGone
    BY <1>1, <2>1, <2>2, <2>6
  <2> QED
    BY <2>4, <2>5, <2>6
<1> QED
  BY <1>a, <1>2, <1>5, <1>6, <1>7 DEF IInv

LEMMA InitIInv == ASSUME Init PROVE IInv
<1>1. Types
  BY InitTypes
<1>2. IsFiniteSet(issues) /\ issues = {} /\ job.step = "idle"
  BY FS_EmptySet DEF Init, Idle
<1>3. \A p \in Problems : ledger[p].status = "none" /\ disk[p].status = "none"
  BY DEF Init, EmptyLedger, Untracked
<1>4. IssuesNumbered /\ LedgersOwn /\ JobKnows /\ LedgerKnows
  BY <1>2, <1>3 DEF IssuesNumbered, LedgersOwn, Owns, JobKnows, LedgerKnows
<1>5. StraysExcused
  BY <1>2 DEF StraysExcused, Excused, Strays, OpenIssues
<1> QED
  BY <1>1, <1>4, <1>5 DEF IInv

LEMMA NextIInv == ASSUME IInv, [Next]_vars PROVE IInv'
<1>1. CASE \E outcome \in Outcomes : CallStep(outcome)
  <2> PICK outcome \in Outcomes : CallStep(outcome)
    BY <1>1
  <2>1. outcome = "ok" \/ outcome = "refused" \/ outcome = "lost"
    BY DEF Outcomes
  <2>2. CASE Ask(outcome) \/ Comment(outcome)
    BY <2>2, HarmlessCallIInv
  <2>3. CASE Create(outcome)
    BY <2>1, <2>3, HarmlessCallIInv, CreateIInv
  <2>4. CASE Reopen(outcome)
    BY <2>1, <2>4, HarmlessCallIInv, ReopenIInv
  <2>5. CASE ReopenComment(outcome)
    BY <2>1, <2>5, HarmlessCallIInv, ReopenCommentFailsIInv
  <2> QED
    BY <2>2, <2>3, <2>4, <2>5 DEF CallStep
<1>2. CASE \E saved \in BOOLEAN : EntryStep(saved)
  BY <1>2, CommentedIInv, EnteredIInv DEF EntryStep
<1>3. CASE \E p \in Problems : SweepStep(p)
  <2> PICK p \in Problems : SweepStep(p)
    BY <1>3
  <2>1. CASE \E outcome \in Outcomes : ResolveComment(p, outcome)
    BY <2>1, HarmlessSweepIInv
  <2>2. CASE \E outcome \in Outcomes : Close(p, outcome)
    <3> PICK outcome \in Outcomes : Close(p, outcome)
      BY <2>2
    <3>1. outcome = "ok" \/ outcome = "refused" \/ outcome = "lost"
      BY DEF Outcomes
    <3> QED
      BY <3>1, HarmlessSweepIInv, CloseIInv
  <2>3. CASE \E saved \in BOOLEAN : RecordResolved(p, saved)
    BY <2>3, ResolvedIInv
  <2> QED
    BY <2>1, <2>2, <2>3 DEF SweepStep
<1>4. CASE Surroundings
  BY <1>4, OccurIInv, OperatorClosesIInv, PassDropsLedgerIInv, RestartIInv, TickIInv DEF Surroundings
<1>5. CASE UNCHANGED vars
  <2>1. /\ job' = job /\ ledger' = ledger /\ disk' = disk /\ TrackerStays
    BY <1>5 DEF vars, startVars, diskVars, TrackerStays
  <2>2. LedgerStays /\ DiskStays
    BY <2>1 DEF LedgerStays, DiskStays, SameEntry
  <2>3. JobKnows' /\ CountedStays
    BY <2>1 DEF IInv, JobKnows, Stands, CountedStays, Counted, TrackerStays
  <2>4. Types'
    BY NextTypes DEF IInv
  <2> QED
    BY <2>1, <2>2, <2>3, <2>4, Aside
<1> QED
  BY <1>1, <1>2, <1>3, <1>4, <1>5, StepCases, HandleIInv, HandledIInv, StartSweepIInv

LEMMA Invariance == Spec => []IInv
BY InitIInv, NextIInv, PTL DEF Spec

-----------------------------------------------------------------------------
(* The theorems                                                               *)

(* Every variable of the issue lifecycle keeps its type: in particular no     *)
(* issue gets a number beyond those the tracker has given out.                *)
THEOREM TypeCorrect == Spec => []TypeOK
<1>1. ASSUME IInv
      PROVE  TypeOK
  <2>a. Types
    BY <1>1 DEF IInv
  <2>1. \A l \in {ledger, disk} : l \in [Problems -> Entry]
    BY <2>a DEF Types
  <2>2. \A i \in issues : i.ref \in 1 .. MaxIssues /\ i.problem \in Problems
    BY <2>a DEF Types, Issue
  <2>3. job.step \in Steps
    BY <2>a, JobFields DEF Steps, RecordSteps
  <2>4. "rec" \in DOMAIN job => job.rec \in Record
    <3>1. job = Idle \/ job \in SweepJob \/ job \in CloseJob => "rec" \notin DOMAIN job
      BY DEF Idle, SweepJob, CloseJob
    <3>2. job \in RecordJob => job.rec \in Record
      BY DEF RecordJob
    <3> QED
      BY <2>a, <3>1, <3>2 DEF Types, Job
  <2> QED
    BY <2>a, <2>1, <2>2, <2>3, <2>4 DEF TypeOK, Types, Entry
<1> QED
  BY <1>1, Invariance, PTL

(* Between two jobs an issue the ledger calls open is there, is its problem's *)
(* and is open, but for what the tracker or an operator closed unheard.       *)
THEOREM LedgerTruthful == Spec => []LedgerAgrees
<1>1. ASSUME IInv
      PROVE  LedgerAgrees
  <2> SUFFICES ASSUME job = Idle, NEW p \in Problems, ledger[p].status = "open"
               PROVE  \E i \in issues : /\ i.ref = ledger[p].ref /\ i.problem = p
                                        /\ i.open \/ i.ref \in behindBack
    BY DEF LedgerAgrees
  <2>1. Stands(ledger[p].ref, p)
    BY <1>1 DEF IInv, LedgerKnows, Idle
  <2> QED
    BY <2>1 DEF Stands
<1> QED
  BY <1>1, Invariance, PTL

(* However many problems, issues, failures and restarts: the open issues of a *)
(* problem are the one that counts, those that a lost answer, a crash or an   *)
(* unwritten ledger hid, and those that went with the ledger's file.          *)
THEOREM OneIssuePerProblem == Spec => []DuplicatesExcused
<1>1. ASSUME IInv
      PROVE  DuplicatesExcused
  <2> SUFFICES ASSUME NEW p \in Problems, NEW i \in OpenIssues(p), NEW j \in OpenIssues(p),
                      i.ref \notin Hidden, j.ref \notin Hidden
               PROVE  i = j
    BY DEF DuplicatesExcused, Hidden
  <2>1. i.ref = Counted(p) /\ j.ref = Counted(p)
    BY <1>1 DEF IInv, StraysExcused, Excused, Strays
  <2> QED
    BY <1>1, <2>1 DEF IInv, IssuesNumbered, OpenIssues
<1> QED
  BY <1>1, Invariance, PTL
=============================================================================
