---------------------------- MODULE RunLogProofs ----------------------------
(***************************************************************************)
(* What is proved of RunLog, for any scripts, any number of processes,     *)
(* packages and runs, and any crashes.                                     *)
(***************************************************************************)
EXTENDS RunLogProperties, WellFoundedInduction, FiniteSetTheorems, Integers, TLAPS

LEMMA Least ==
    ASSUME NEW S \in SUBSET Nat, S # {}
    PROVE  \E x \in S : \A y \in S : x <= y
<1>1. PICK x \in S : \A y \in S : ~(<<y, x>> \in OpToRel(<, Nat))
    BY NatLessThanWellFounded, WFMin
<1>2. \A y \in S : ~(y < x)
    BY <1>1 DEF OpToRel
<1> QED
    BY <1>2

LEMMA Greatest ==
    ASSUME NEW b \in Nat, NEW S \in SUBSET (0..b), S # {}
    PROVE  \E x \in S : \A y \in S : y <= x
<1> DEFINE T == {b - y : y \in S}
<1>1. \A y \in S : b - y \in Nat /\ b - y \in T
    OBVIOUS
<1>2. T \in SUBSET Nat /\ T # {}
    BY <1>1
<1> HIDE DEF T
<1>3. PICK x \in T : \A y \in T : x <= y
    BY <1>2, Least
<1>4. PICK z \in S : x = b - z
    BY <1>3 DEF T
<1>5. ASSUME NEW y \in S
      PROVE  y <= z
    BY <1>1, <1>3, <1>4
<1> QED
    BY <1>4, <1>5

-----------------------------------------------------------------------------
(* Types.                                                                  *)

\* A process that migrates has something to run.
Migrating == \A p \in Proc : opening[p].pc = "migrating" => opening[p].todo # {}

TypeInv == TypeOK /\ Migrating

LEMMA CurrentType ==
    ASSUME TypeInv, NEW p \in Proc, opening[p].pc = "migrating"
    PROVE  Current(p) \in opening[p].todo /\ Current(p) \in All
<1>1. opening[p].todo \in SUBSET Nat /\ opening[p].todo # {} /\ opening[p].todo \subseteq All
    BY ScriptsAssumption DEF TypeInv, TypeOK, MigrationTypeOK, Opening, Migrating, All
<1>2. \E m \in opening[p].todo : \A n \in opening[p].todo : m <= n
    BY <1>1, Least
<1> QED
    BY <1>1, <1>2 DEF Current

LEMMA WithType ==
    ASSUME NEW todo \in SUBSET All
    PROVE  /\ With(todo) \in Opening
           /\ With(todo).pc = "migrating" => With(todo).todo # {}
BY DEF With, Opening

LEMMA ClosedType == Closed \in Opening /\ Closed.pc = "closed"
BY DEF Closed, Opening

\* The steps of an opening.
LEMMA MigrationTypes ==
    ASSUME TypeInv, NEW p \in Proc, Connect(p) \/ Migrate(p) \/ Close(p) \/ Die(p)
    PROVE  MigrationTypeOK' /\ Migrating'
<1>0. /\ schema \subseteq Objects /\ applied \subseteq All /\ opening \in [Proc -> Opening]
      /\ crashes \in 0..MaxCrashes /\ Migrating
    BY DEF TypeInv, TypeOK, MigrationTypeOK
<1>a. ASSUME NEW o \in Opening, Opens(p, o), o.pc = "migrating" => o.todo # {}
      PROVE  opening' \in [Proc -> Opening] /\ Migrating'
    BY <1>0, <1>a DEF Opens, Migrating
<1>1. CASE Connect(p)
    BY <1>0, <1>1, <1>a, WithType DEF Connect, Pending, schemaVars, MigrationTypeOK
<1>2. CASE ExecuteStatement(p)
  <2> DEFINE o == [opening[p] EXCEPT !.statement = @ + 1]
             s == Scripts[Current(p)][opening[p].statement]
  <2>1. opening[p] \in Opening /\ opening[p].pc = "migrating" /\ opening[p].todo # {}
      BY <1>0, <1>2 DEF ExecuteStatement, Executing, Migrating
  <2>2. o \in Opening /\ o.todo # {}
      BY <2>1 DEF Opening
  <2>3. Current(p) \in All
      BY <2>1, CurrentType
  <2>4. Scripts[Current(p)] \in Seq(Statement)
      BY <2>3, ScriptsAssumption DEF All
  <2>5. opening[p].statement \in 1..Len(Scripts[Current(p)])
      BY <1>2, <2>1, <2>4 DEF ExecuteStatement, Executing, Opening
  <2>6. s \in Statement
      BY <2>4, <2>5
  <2>7. schema' \subseteq Objects
      BY <1>0, <1>2, <2>6 DEF ExecuteStatement, Statement
  <2>8. opening' \in [Proc -> Opening] /\ Migrating'
      BY <1>2, <1>a, <2>2 DEF ExecuteStatement
  <2> QED
      BY <1>0, <1>2, <2>7, <2>8 DEF ExecuteStatement, MigrationTypeOK
<1>3. CASE StatementFails(p)
    BY <1>0, <1>3, <1>a, ClosedType DEF StatementFails, schemaVars, MigrationTypeOK
<1>4. CASE RecordMigration(p)
  <2>1. Current(p) \in All /\ opening[p].todo \ {Current(p)} \in SUBSET All
      BY <1>0, <1>4, CurrentType DEF RecordMigration, Opening
  <2>2. applied' \subseteq All
      BY <1>0, <1>4, <2>1 DEF RecordMigration
  <2>3. opening' \in [Proc -> Opening] /\ Migrating'
      BY <1>4, <1>a, <2>1, WithType, ClosedType DEF RecordMigration
  <2> QED
      BY <1>0, <1>4, <2>2, <2>3 DEF RecordMigration, MigrationTypeOK
<1>5. CASE Close(p)
    BY <1>0, <1>5, <1>a, ClosedType DEF Close, schemaVars, MigrationTypeOK
<1>6. CASE Die(p)
    BY <1>0, <1>6, <1>a, ClosedType, CrashesAssumption DEF Die, schemaVars, MigrationTypeOK
<1> QED
    BY <1>1, <1>2, <1>3, <1>4, <1>5, <1>6 DEF Migrate

-----------------------------------------------------------------------------
(* What a process may rely on.                                             *)

Working == {"applications", "reconcile", "index", "plan", "verify", "publish", "link",
            "finish", "fail"}
SyncOnly == {"index", "plan", "verify", "publish", "link"}

\* What was recorded of the run is still to be counted, or need not be.
Counted(j) ==
    \/ ErrorsOf(j.run) \subseteq Uncounted
    \/ j.cmd # "status" /\ (j.rejected # {} \/ j.failed > 0)

\* A job owns a run as long as it works on it, and nobody has closed it.
Owns(j) ==
    /\ j.pc \in Working => j.run \in DOMAIN runs /\ ~runs[j.run].finished
    /\ j.run # 0 => j.pc \in Working
    /\ j.pc \in SyncOnly => j.cmd # "status"
    /\ j.pc \in Working \ {"fail"} => Counted(j)

\* What a report read of a run that had ended is what there is, if it is there.
Reported(j) ==
    /\ j.last < nextRun
    /\ j.last \in DOMAIN runs /\ j.read.finished
          => /\ j.read = runs[j.last]
             /\ j.pc = "told" => j.shown = ErrorsOf(j.last)

JobOK(j) == j \in Job /\ Owns(j) /\ Reported(j)

LogTypeOK ==
    /\ DOMAIN runs \subseteq 1..MaxRuns /\ runs \in [DOMAIN runs -> Run]
    /\ nextRun \in 1..(MaxRuns + 1)
    /\ events \subseteq Event /\ \A e \in events : e.run \in DOMAIN runs

LogInv ==
    /\ LogTypeOK
    /\ \A r \in DOMAIN runs : r < nextRun
    /\ job = [p \in Proc |-> job[p]] /\ \A p \in Proc : JobOK(job[p])
    /\ \A p, q \in Proc : job[p].run # 0 /\ job[p].run = job[q].run => p = q
    /\ CleanRunsAreClean

\* The runs that ended, kept whole or gone whole.
Stay ==
    \A r \in DOMAIN runs : Finished(r) =>
        \/ r \in DOMAIN runs' /\ runs'[r] = runs[r] /\ ErrorsOf(r)' = ErrorsOf(r)
        \/ r \notin DOMAIN runs' /\ ErrorsOf(r)' = {}

LEMMA NoJobOK ==
    ASSUME LogTypeOK
    PROVE  NoJob \in Job /\ NoJob.run = 0 /\ NoJob.pc = "none" /\ NoJob.last = 0
           /\ JobOK(NoJob)
<1>1. NoJob \in Job /\ NoJob.run = 0 /\ NoJob.pc = "none" /\ NoJob.last = 0
      /\ ~NoJob.read.finished
    BY DEF NoJob, Job, Label, Command, RunCommand, Run, Running
<1> QED
    BY <1>1 DEF JobOK, Owns, Reported, Working, SyncOnly, LogTypeOK

LEMMA Recorded ==
    ASSUME NEW p, NEW codes, Record(p, codes), NEW r
    PROVE  ErrorsOf(r)' = IF r = job[p].run THEN ErrorsOf(r) \cup codes ELSE ErrorsOf(r)
<1> DEFINE new == {[run |-> job[p].run, code |-> c] : c \in codes}
<1>1. \A e \in new : e.run = job[p].run /\ e.code \in codes
    OBVIOUS
<1>2. ASSUME NEW c \in codes
      PROVE  \E e \in new : e.run = job[p].run /\ e.code = c
  <2> WITNESS [run |-> job[p].run, code |-> c] \in new
  <2> QED
      OBVIOUS
<1>3. events' = events \cup new
    BY DEF Record
<1> HIDE DEF new
<1>4. ErrorsOf(r)' = {e.code : e \in {d \in events' : d.run = r}}
    BY DEF ErrorsOf
<1>5. CASE r = job[p].run
    BY <1>1, <1>2, <1>3, <1>4, <1>5 DEF ErrorsOf
<1>6. CASE r # job[p].run
    BY <1>1, <1>3, <1>4, <1>6 DEF ErrorsOf
<1> QED
    BY <1>5, <1>6

\* A process goes on with its run, and may record errors of it.
LEMMA Progress ==
    ASSUME LogInv, NEW p \in Proc, NEW j \in Job, NEW codes \in SUBSET Code,
           job[p].pc \in Working \ {"fail"}, j.pc \in Working, j.run = job[p].run,
           j.cmd = job[p].cmd, j.pc \in SyncOnly => j.cmd # "status",
           j.last = job[p].last, j.read = job[p].read,
           job[p].rejected # {} => j.rejected # {},
           j.failed >= job[p].failed,
           \/ j.pc = "fail" \/ codes \subseteq Uncounted
           \/ j.cmd # "status" /\ (j.rejected # {} \/ j.failed > 0),
           Becomes(p, j), Record(p, codes), UNCHANGED <<runs, nextRun>>
    PROVE  LogInv' /\ Stay
<1>0. /\ LogTypeOK /\ job = [q \in Proc |-> job[q]]
      /\ \A q \in Proc : job[q] \in Job /\ Owns(job[q]) /\ Reported(job[q])
    BY DEF LogInv, JobOK
<1>1. /\ j.run \in DOMAIN runs /\ ~runs[j.run].finished /\ j.run # 0 /\ j.run \in Nat
      /\ job[p] \in Job /\ job[p].failed \in Nat /\ j.failed \in Nat
    BY <1>0 DEF Owns, LogTypeOK, Job
<1>2. \A r : ErrorsOf(r)' = IF r = j.run THEN ErrorsOf(r) \cup codes ELSE ErrorsOf(r)
    BY Recorded
<1>3. \A r \in DOMAIN runs : Finished(r) => ErrorsOf(r)' = ErrorsOf(r)
    BY <1>1, <1>2 DEF Finished
<1>4. Stay
    BY <1>3 DEF Stay
<1>5. LogTypeOK'
    BY <1>0, <1>1 DEF LogTypeOK, Record, Event
<1>6. /\ job' = [q \in Proc |-> job'[q]] /\ job'[p] = j
      /\ \A q \in Proc \ {p} : job'[q] = job[q]
    BY <1>0 DEF Becomes
<1>7. JobOK(j)'
  <2>1. Counted(j)' \/ j.pc = "fail"
      BY <1>0, <1>1, <1>2 DEF Owns, Counted
  <2>2. Owns(j)'
      BY <1>0, <1>1, <2>1 DEF Owns
  <2>3. Reported(j)'
    <3>1. j.pc # "told"
        BY DEF Working
    <3> QED
        BY <1>0, <3>1 DEF Reported
  <2> QED
      BY <2>2, <2>3 DEF JobOK
<1>8. ASSUME NEW q \in Proc, q # p
      PROVE  JobOK(job[q])'
  <2>1. job[q].run # j.run
      BY <1>1, <1>8 DEF LogInv
  <2>2. job'[q] = job[q]
      BY <1>6, <1>8
  <2>3. Owns(job[q])'
      BY <1>0, <1>2, <2>1, <2>2 DEF Owns, Counted
  <2>4. Reported(job[q])'
      BY <1>0, <1>3, <2>2 DEF Reported, Finished
  <2> QED
      BY <1>0, <2>2, <2>3, <2>4 DEF JobOK
<1>9. \A q \in Proc : JobOK(job[q])'
    BY <1>6, <1>7, <1>8
<1>10. CleanRunsAreClean'
    BY <1>3 DEF LogInv, CleanRunsAreClean, Finished
<1> QED
    BY <1>1, <1>4, <1>5, <1>6, <1>9, <1>10 DEF LogInv

\* A process with no run goes on, and writes nothing.
LEMMA Aside ==
    ASSUME LogInv, NEW p \in Proc, NEW j, JobOK(j), j.run = 0,
           Becomes(p, j), UNCHANGED logVars
    PROVE  LogInv' /\ Stay
<1>1. /\ job' = [q \in Proc |-> job'[q]] /\ job'[p] = j
      /\ \A q \in Proc \ {p} : job'[q] = job[q]
    BY DEF LogInv, Becomes
<1>2. \A r : ErrorsOf(r)' = ErrorsOf(r)
    BY DEF logVars, ErrorsOf
<1>3. \A q \in Proc : JobOK(job[q])'
    BY <1>1, <1>2 DEF LogInv, JobOK, Owns, Counted, Reported, logVars
<1>4. LogTypeOK' /\ CleanRunsAreClean'
    BY <1>2 DEF LogInv, LogTypeOK, CleanRunsAreClean, Finished, logVars
<1>5. Stay
    BY <1>2 DEF Stay, logVars
<1> QED
    BY <1>1, <1>3, <1>4, <1>5 DEF LogInv, logVars

\* A run is closed with what was counted of it.
LEMMA Closing ==
    ASSUME LogInv, NEW p \in Proc, job[p].pc \in Working,
           NEW status \in {"OK", "WARNING", "FAILED"}, NEW n \in Nat,
           n = 0 => ErrorsOf(job[p].run) \subseteq Uncounted,
           FinishRun(job[p].run, status, n), Done(p), UNCHANGED <<nextRun, events>>
    PROVE  LogInv' /\ Stay
<1> DEFINE k == job[p].run
           j == [NoJob EXCEPT !.pc = "done"]
<1>0. /\ LogTypeOK /\ JobOK(job[p])
      /\ k \in DOMAIN runs /\ ~runs[k].finished /\ k # 0
    BY DEF LogInv, JobOK, Owns, LogTypeOK
<1>1. j \in Job /\ j.run = 0 /\ j.pc = "done" /\ j.last = 0
    BY <1>0, NoJobOK DEF Job, Label
<1> HIDE DEF j
<1>2. /\ job' = [q \in Proc |-> job'[q]] /\ job'[p] = j
      /\ \A q \in Proc \ {p} : job'[q] = job[q]
    BY DEF LogInv, Becomes, Done, j
<1>3. \A r : ErrorsOf(r)' = ErrorsOf(r)
    BY DEF ErrorsOf
<1>4. /\ DOMAIN runs' = DOMAIN runs
      /\ runs'[k] = [status |-> status, finished |-> TRUE, errors |-> n]
      /\ \A r \in DOMAIN runs \ {k} : runs'[r] = runs[r]
      /\ runs' = [r \in DOMAIN runs' |-> runs'[r]]
    BY <1>0 DEF FinishRun
<1>5. runs'[k].finished /\ runs'[k].errors = n /\ runs'[k] \in Run
    BY <1>4 DEF Run
<1>6. LogTypeOK'
  <2>1. \A r \in DOMAIN runs' : runs'[r] \in Run
      BY <1>0, <1>4, <1>5 DEF LogTypeOK
  <2> QED
      BY <1>0, <1>4, <2>1 DEF LogTypeOK
<1>7. Stay
    BY <1>0, <1>3, <1>4 DEF Stay, Finished
<1>8. JobOK(j)'
    BY <1>0, <1>1, <1>4 DEF JobOK, Owns, Reported, Working, SyncOnly, LogTypeOK
<1>9. ASSUME NEW q \in Proc, q # p
      PROVE  JobOK(job[q])'
  <2>1. job[q].run # k
      BY <1>0, <1>9 DEF LogInv
  <2>2. job'[q] = job[q] /\ JobOK(job[q])
      BY <1>2, <1>9 DEF LogInv
  <2>3. Owns(job[q])'
      BY <1>3, <1>4, <2>1, <2>2 DEF JobOK, Owns, Counted
  <2>4. Reported(job[q])'
      BY <1>0, <1>3, <1>4, <2>2 DEF JobOK, Reported
  <2> QED
      BY <2>2, <2>3, <2>4 DEF JobOK
<1>10. CleanRunsAreClean'
    BY <1>3, <1>4, <1>5 DEF LogInv, CleanRunsAreClean, Finished
<1> QED
    BY <1>2, <1>1, <1>4, <1>6, <1>7, <1>8, <1>9, <1>10 DEF LogInv

LEMMA Starting ==
    ASSUME LogInv, NEW p \in Proc, StartRun(p)
    PROVE  LogInv' /\ Stay
<1>0. /\ LogTypeOK /\ JobOK(job[p]) /\ job[p].pc = "start"
      /\ nextRun \notin DOMAIN runs /\ nextRun \in 1..MaxRuns
    BY RunsAssumption DEF LogInv, LogTypeOK, StartRun, At
<1>a. job[p] \in Job /\ nextRun \in Nat /\ nextRun # 0
    BY <1>0 DEF JobOK
<1>b. [job[p] EXCEPT !.pc = "applications", !.run = nextRun] \in Job
    BY <1>a DEF Job, Label
<1>c. PICK j \in Job : j = [job[p] EXCEPT !.pc = "applications", !.run = nextRun]
    BY <1>b
<1>1. /\ j.pc = "applications" /\ j.run = nextRun
      /\ j.last = job[p].last /\ j.read = job[p].read
    BY <1>a, <1>c DEF Job
<1>2. /\ job' = [q \in Proc |-> job'[q]] /\ job'[p] = j
      /\ \A q \in Proc \ {p} : job'[q] = job[q]
    BY <1>c DEF LogInv, Becomes, StartRun
<1>3. \A r : ErrorsOf(r)' = ErrorsOf(r)
    BY DEF ErrorsOf, StartRun
<1>4. /\ DOMAIN runs' = DOMAIN runs \cup {nextRun}
      /\ runs'[nextRun] = Running
      /\ \A r \in DOMAIN runs : runs'[r] = runs[r]
      /\ runs' = [r \in DOMAIN runs' |-> runs'[r]]
      /\ nextRun' = nextRun + 1 /\ events' = events
    BY <1>0 DEF StartRun
<1>5. Running \in Run /\ ~Running.finished
    BY DEF Run, Running
<1>6. LogTypeOK'
  <2>1. \A r \in DOMAIN runs' : runs'[r] \in Run
      BY <1>0, <1>4, <1>5 DEF LogTypeOK
  <2> QED
      BY <1>0, <1>4, <2>1, RunsAssumption DEF LogTypeOK
<1>7. Stay
    BY <1>0, <1>3, <1>4 DEF Stay, Finished
<1>8. ErrorsOf(nextRun) = {}
    BY <1>0 DEF ErrorsOf, LogTypeOK
<1>9. JobOK(j)'
  <2>1. Owns(j)'
      BY <1>0, <1>1, <1>3, <1>4, <1>5, <1>8 DEF Owns, Working, SyncOnly, Counted
  <2>2. Reported(j)'
      BY <1>0, <1>1, <1>4, <1>5, <1>3 DEF JobOK, Reported, LogTypeOK, Job
  <2> QED
      BY <2>1, <2>2 DEF JobOK
<1>10. ASSUME NEW q \in Proc, q # p
       PROVE  JobOK(job[q])' /\ job[q].run # nextRun
  <2>1. job'[q] = job[q] /\ JobOK(job[q])
      BY <1>2, <1>10 DEF LogInv
  <2>2. job[q].run # nextRun
      BY <1>0, <2>1 DEF JobOK, Owns
  <2>3. Owns(job[q])'
      BY <1>3, <1>4, <2>1 DEF JobOK, Owns, Counted
  <2>4. Reported(job[q])'
      BY <1>0, <1>3, <1>4, <1>5, <2>1 DEF JobOK, Reported, LogTypeOK, Job
  <2> QED
      BY <2>1, <2>2, <2>3, <2>4 DEF JobOK
<1>11. CleanRunsAreClean'
    BY <1>3, <1>4, <1>5 DEF LogInv, CleanRunsAreClean, Finished
<1>12. \A r \in DOMAIN runs' : r < nextRun'
    BY <1>0, <1>4 DEF LogInv, LogTypeOK
<1>13. \A q, s \in Proc : job'[q].run # 0 /\ job'[q].run = job'[s].run => q = s
    BY <1>1, <1>2, <1>10 DEF LogInv
<1> QED
    BY <1>2, <1>6, <1>7, <1>9, <1>10, <1>11, <1>12, <1>13 DEF LogInv

LEMMA Pruning ==
    ASSUME LogInv, NEW p \in Proc, Prune(p)
    PROVE  LogInv' /\ Stay
<1> DEFINE j == [NoJob EXCEPT !.pc = "done"]
<1>0. LogTypeOK
    BY DEF LogInv
<1>1. j \in Job /\ j.run = 0 /\ j.pc = "done" /\ j.last = 0
    BY <1>0, NoJobOK DEF Job, Label
<1> HIDE DEF j
<1>2. /\ job' = [q \in Proc |-> job'[q]] /\ job'[p] = j
      /\ \A q \in Proc \ {p} : job'[q] = job[q]
    BY DEF LogInv, Becomes, Done, Prune, j
<1>3. PICK kept \in 1..nextRun :
          /\ \A q \in Proc : job[q].run # 0 => job[q].run >= kept
          /\ runs' = [r \in {s \in DOMAIN runs : s >= kept} |-> runs[r]]
          /\ events' = {e \in events : e.run >= kept}
    BY DEF Prune
<1>4. /\ DOMAIN runs' = {s \in DOMAIN runs : s >= kept}
      /\ \A r \in DOMAIN runs' : runs'[r] = runs[r]
      /\ runs' = [r \in DOMAIN runs' |-> runs'[r]]
      /\ nextRun' = nextRun
    BY <1>3 DEF Prune
<1>5. \A r : r >= kept => ErrorsOf(r)' = ErrorsOf(r)
    BY <1>3 DEF ErrorsOf
<1>6. \A r \in DOMAIN runs : ~(r >= kept) => ErrorsOf(r)' = {}
    BY <1>3 DEF ErrorsOf
<1>7. LogTypeOK'
    BY <1>0, <1>3, <1>4 DEF LogTypeOK
<1>8. Stay
    BY <1>4, <1>5, <1>6 DEF Stay
<1>9. JobOK(j)'
    BY <1>0, <1>1, <1>4 DEF JobOK, Owns, Reported, Working, SyncOnly, LogTypeOK
<1>10. ASSUME NEW q \in Proc, q # p
       PROVE  JobOK(job[q])'
  <2>1. job'[q] = job[q] /\ JobOK(job[q])
      BY <1>2, <1>10 DEF LogInv
  <2>2. Owns(job[q])'
    <3>1. job[q].pc \in Working => job[q].run \in DOMAIN runs /\ job[q].run # 0
        BY <1>0, <2>1 DEF JobOK, Owns, LogTypeOK
    <3>2. job[q].pc \in Working => job[q].run >= kept
        BY <1>3, <3>1
    <3> QED
        BY <1>4, <1>5, <2>1, <3>1, <3>2 DEF JobOK, Owns, Counted
  <2>3. Reported(job[q])'
      BY <1>4, <1>5, <2>1 DEF JobOK, Reported
  <2> QED
      BY <2>1, <2>2, <2>3 DEF JobOK
<1>11. CleanRunsAreClean'
    BY <1>4, <1>5 DEF LogInv, CleanRunsAreClean, Finished
<1> QED
    BY <1>1, <1>2, <1>4, <1>7, <1>8, <1>9, <1>10, <1>11 DEF LogInv

\* A report goes on, and writes nothing.
LEMMA ReadingHistory ==
    ASSUME LogInv, NEW p \in Proc, ReadHistory(p)
    PROVE  LogInv' /\ Stay
<1>0. /\ LogTypeOK /\ JobOK(job[p]) /\ job[p].pc = "history" /\ job[p] \in Job
      /\ job[p].run = 0 /\ UNCHANGED logVars
    BY DEF LogInv, JobOK, Owns, Working, ReadHistory, At
<1>1. CASE DOMAIN runs = {}
  <2>1. [job[p] EXCEPT !.pc = "told"] \in Job
      BY <1>0 DEF Job, Label
  <2>2. PICK j \in Job : j = [job[p] EXCEPT !.pc = "told"]
      BY <2>1
  <2>3. j.pc = "told" /\ j.run = 0 /\ j.last = job[p].last
      BY <1>0, <2>2 DEF Job
  <2>4. JobOK(j)
      BY <1>0, <1>1, <2>3 DEF JobOK, Owns, Reported, Working, SyncOnly
  <2>5. Becomes(p, j)
      BY <1>1, <2>2 DEF ReadHistory
  <2> QED
      BY <1>0, <2>3, <2>4, <2>5, Aside
<1>2. CASE DOMAIN runs # {}
  <2> DEFINE last == CHOOSE r \in DOMAIN runs : \A s \in DOMAIN runs : s <= r
  <2>1. DOMAIN runs \in SUBSET (0..MaxRuns)
      BY <1>0 DEF LogTypeOK
  <2>2. \E r \in DOMAIN runs : \A s \in DOMAIN runs : s <= r
      BY <1>2, <2>1, Greatest, RunsAssumption
  <2>3. last \in DOMAIN runs
      BY <2>2
  <2>4. Becomes(p, [job[p] EXCEPT !.pc = "errors", !.last = last, !.read = runs[last]])
      BY <1>2 DEF ReadHistory
  <2> HIDE DEF last
  <2>5. last \in Nat /\ last < nextRun /\ runs[last] \in Run
      BY <1>0, <2>3 DEF LogInv, LogTypeOK
  <2>6. [job[p] EXCEPT !.pc = "errors", !.last = last, !.read = runs[last]] \in Job
      BY <1>0, <2>5 DEF Job, Label
  <2>7. PICK j \in Job :
            j = [job[p] EXCEPT !.pc = "errors", !.last = last, !.read = runs[last]]
      BY <2>6
  <2>8. j.pc = "errors" /\ j.run = 0 /\ j.last = last /\ j.read = runs[last]
      BY <1>0, <2>7 DEF Job
  <2>9. JobOK(j)
      BY <2>5, <2>8 DEF JobOK, Owns, Reported, Working, SyncOnly
  <2> QED
      BY <1>0, <2>4, <2>7, <2>8, <2>9, Aside
<1> QED
    BY <1>1, <1>2

LEMMA ReadingErrors ==
    ASSUME LogInv, NEW p \in Proc, ReadErrors(p)
    PROVE  LogInv' /\ Stay
<1>0. /\ LogTypeOK /\ JobOK(job[p]) /\ job[p].pc = "errors" /\ job[p] \in Job
      /\ job[p].run = 0 /\ UNCHANGED logVars
    BY DEF LogInv, JobOK, Owns, Working, ReadErrors, At
<1>1. ErrorsOf(job[p].last) \subseteq Code
    BY <1>0 DEF ErrorsOf, LogTypeOK, Event
<1>2. [job[p] EXCEPT !.pc = "told", !.shown = ErrorsOf(job[p].last)] \in Job
    BY <1>0, <1>1 DEF Job, Label
<1>3. PICK j \in Job : j = [job[p] EXCEPT !.pc = "told", !.shown = ErrorsOf(job[p].last)]
    BY <1>2
<1>4. /\ j.pc = "told" /\ j.run = 0 /\ j.last = job[p].last /\ j.read = job[p].read
      /\ j.shown = ErrorsOf(j.last)
    BY <1>0, <1>3 DEF Job
<1>5. JobOK(j)
    BY <1>0, <1>4 DEF JobOK, Owns, Reported, Working, SyncOnly
<1>6. Becomes(p, j)
    BY <1>3 DEF ReadErrors
<1> QED
    BY <1>0, <1>4, <1>5, <1>6, Aside

\* One package has been handled, by a phase that made i of the job.
LEMMA Handling ==
    ASSUME LogInv, NEW p \in Proc, NEW i \in Job, NEW k, NEW codes \in SUBSET Code,
           i.pc \in {"reconcile", "plan", "verify", "publish", "link"},
           i.pc = job[p].pc, i.cmd = job[p].cmd, i.run = job[p].run,
           i.last = job[p].last, i.read = job[p].read,
           job[p].rejected # {} => i.rejected # {},
           i.failed >= job[p].failed,
           \/ codes \subseteq Uncounted
           \/ i.cmd # "status" /\ (i.rejected # {} \/ i.failed > 0),
           Handled(p, i, k), Record(p, codes), UNCHANGED <<runs, nextRun>>
    PROVE  LogInv' /\ Stay
<1>0. i.pc \in SyncOnly => i.cmd # "status"
    BY DEF LogInv, JobOK, Owns
<1>1. PICK j \in Job :
          /\ Becomes(p, j)
          /\ j.pc \in Working \ {"fail"} /\ (j.pc \in SyncOnly => i.cmd # "status")
          /\ j.run = i.run /\ j.cmd = i.cmd /\ j.last = i.last /\ j.read = i.read
          /\ j.rejected = i.rejected /\ j.failed = i.failed
  <2> DEFINE rest == i.todo \ {k}
             next == After(i.pc, i.cmd)
  <2>1. CASE rest # {}
    <3>1. [i EXCEPT !.todo = rest] \in Job
        BY DEF Job
    <3>2. Becomes(p, [i EXCEPT !.todo = rest])
        BY <2>1 DEF Handled
    <3> QED
        BY <1>0, <3>1, <3>2 DEF Job, Working
  <2>2. CASE rest = {}
    <3>1. /\ next \in Working \ {"fail"} /\ next \in Label
          /\ next \in SyncOnly => i.cmd # "status"
        BY <1>0 DEF After, Working, SyncOnly, Label
    <3>2. Becomes(p, [i EXCEPT !.pc = next, !.todo = i.declared])
        BY <2>2 DEF Handled
    <3> HIDE DEF next
    <3>3. [i EXCEPT !.pc = next, !.todo = i.declared] \in Job
        BY <3>1 DEF Job
    <3> QED
        BY <3>1, <3>2, <3>3 DEF Job
  <2> QED
      BY <2>1, <2>2
<1>2. job[p].pc \in Working \ {"fail"}
    BY DEF Working
<1> QED
    BY <1>1, <1>2, Progress

LEMMA NothingRecorded == ASSUME NEW p, UNCHANGED events PROVE Record(p, {})
BY DEF Record

\* A package was handled, and there was nothing to say of it.
LEMMA HandledQuietly ==
    ASSUME LogInv, NEW p \in Proc, NEW k,
           job[p].pc \in {"reconcile", "plan", "verify", "publish", "link"},
           Handled(p, job[p], k), UNCHANGED <<runs, nextRun, events>>
    PROVE  LogInv' /\ Stay
<1>1. PICK i \in Job : i = job[p]
    BY DEF LogInv, JobOK
<1>2. i.failed \in Nat
    BY <1>1 DEF Job
<1>3. Record(p, {})
    BY NothingRecorded
<1>4. {} \subseteq Uncounted /\ {} \in SUBSET Code
    OBVIOUS
<1> QED
    BY <1>1, <1>2, <1>3, <1>4, Handling

LEMMA Reconciling ==
    ASSUME LogInv, NEW p \in Proc, Reconcile(p)
    PROVE  LogInv' /\ Stay
<1>1. job[p] \in Job /\ job[p].pc = "reconcile" /\ UNCHANGED <<runs, nextRun>>
    BY DEF LogInv, JobOK, Reconcile, At
<1>2. PICK k \in job[p].todo, status \in {"PAUSED", "RESOLVED", "NOT_IN_HEADWIND", "AMBIGUOUS"} :
          /\ Record(p, IF status = "AMBIGUOUS" THEN {"package.ambiguous"} ELSE {})
          /\ Handled(p, CASE status = "PAUSED" -> job[p]
                          [] status = "RESOLVED" ->
                               [job[p] EXCEPT !.resolved = job[p].resolved \cup {k}]
                          [] OTHER -> [job[p] EXCEPT !.blocking = job[p].blocking \cup {k}], k)
    BY DEF Reconcile
<1>3. k \in Pkgs
    BY <1>1 DEF Job
<1> DEFINE codes == IF status = "AMBIGUOUS" THEN {"package.ambiguous"} ELSE {}
<1>4. codes \subseteq Uncounted /\ codes \in SUBSET Code /\ Record(p, codes)
    BY <1>2 DEF Uncounted, Code
<1>5. /\ job[p].resolved \cup {k} \in SUBSET Pkgs
      /\ job[p].blocking \cup {k} \in SUBSET Pkgs
    BY <1>1, <1>3 DEF Job
<1>6. /\ [job[p] EXCEPT !.resolved = job[p].resolved \cup {k}] \in Job
      /\ [job[p] EXCEPT !.blocking = job[p].blocking \cup {k}] \in Job
    BY <1>1, <1>5 DEF Job
<1>7. PICK i \in Job :
          /\ Handled(p, i, k)
          /\ i.pc = job[p].pc /\ i.cmd = job[p].cmd /\ i.run = job[p].run
          /\ i.last = job[p].last /\ i.read = job[p].read
          /\ i.rejected = job[p].rejected /\ i.failed = job[p].failed
  <2>1. CASE status = "PAUSED"
      BY <1>1, <1>2, <2>1
  <2>2. CASE status = "RESOLVED"
      BY <1>1, <1>2, <1>6, <2>2 DEF Job
  <2>3. CASE status \in {"NOT_IN_HEADWIND", "AMBIGUOUS"}
      BY <1>1, <1>2, <1>6, <2>3 DEF Job
  <2> QED
      BY <1>2, <2>1, <2>2, <2>3
<1> HIDE DEF codes
<1>8. i.failed >= job[p].failed
    BY <1>1, <1>7 DEF Job
<1> QED
    BY <1>1, <1>4, <1>7, <1>8, Handling

LEMMA Planning ==
    ASSUME LogInv, NEW p \in Proc, Plan(p)
    PROVE  LogInv' /\ Stay
<1>1. /\ job[p] \in Job /\ job[p].pc = "plan" /\ UNCHANGED <<runs, nextRun>>
      /\ job[p].cmd # "status"
    BY DEF LogInv, JobOK, Owns, Working, SyncOnly, Plan, At
<1>2. PICK k \in job[p].todo, o \in PlanOutcomes \cup {<<"SKIPPED", {}>>} :
          /\ Record(p, o[2])
          /\ Handled(p, CASE o[1] = "UPDATE_AVAILABLE" ->
                               [job[p] EXCEPT !.updates = job[p].updates \cup {k}]
                          [] o[1] \in {"REJECTED", "NOT_IN_FDROID"} ->
                               [job[p] EXCEPT !.rejected = job[p].rejected \cup {k}]
                          [] OTHER -> job[p], k)
    BY DEF Plan
<1>3. k \in Pkgs
    BY <1>1 DEF Job
<1>4. /\ job[p].updates \cup {k} \in SUBSET Pkgs
      /\ job[p].rejected \cup {k} \in SUBSET Pkgs
    BY <1>1, <1>3 DEF Job
<1>5. /\ [job[p] EXCEPT !.updates = job[p].updates \cup {k}] \in Job
      /\ [job[p] EXCEPT !.rejected = job[p].rejected \cup {k}] \in Job
    BY <1>1, <1>4 DEF Job
<1>6. /\ o[2] \in SUBSET Code
      /\ o[1] \in {"REJECTED", "NOT_IN_FDROID"} \/ o[2] \subseteq Uncounted
      /\ o[1] \in {"REJECTED", "NOT_IN_FDROID"} => o[1] # "UPDATE_AVAILABLE"
    BY <1>2 DEF PlanOutcomes, Code, Uncounted
<1>7. PICK i \in Job :
          /\ Handled(p, i, k)
          /\ i.pc = job[p].pc /\ i.cmd = job[p].cmd /\ i.run = job[p].run
          /\ i.last = job[p].last /\ i.read = job[p].read /\ i.failed = job[p].failed
          /\ job[p].rejected # {} => i.rejected # {}
          /\ i.rejected # {} \/ o[2] \subseteq Uncounted
  <2>1. CASE o[1] = "UPDATE_AVAILABLE"
      BY <1>1, <1>2, <1>5, <1>6, <2>1 DEF Job
  <2>2. CASE o[1] \in {"REJECTED", "NOT_IN_FDROID"}
      BY <1>1, <1>2, <1>5, <1>6, <2>2 DEF Job
  <2>3. CASE o[1] # "UPDATE_AVAILABLE" /\ o[1] \notin {"REJECTED", "NOT_IN_FDROID"}
      BY <1>1, <1>2, <1>6, <2>3
  <2> QED
      BY <2>1, <2>2, <2>3
<1>8. i.failed >= job[p].failed
    BY <1>1, <1>7 DEF Job
<1> QED
    BY <1>1, <1>2, <1>6, <1>7, <1>8, Handling

LEMMA Verifying ==
    ASSUME LogInv, NEW p \in Proc, Verify(p)
    PROVE  LogInv' /\ Stay
<1>1. /\ job[p] \in Job /\ job[p].pc = "verify" /\ UNCHANGED <<runs, nextRun>>
      /\ job[p].cmd # "status"
    BY DEF LogInv, JobOK, Owns, Working, SyncOnly, Verify, At
<1>2. PICK k \in job[p].todo :
          \/ /\ Handled(p, job[p], k)
             /\ UNCHANGED events
          \/ /\ Record(p, {"apk.integrity"})
             /\ Handled(p, [job[p] EXCEPT !.updates = job[p].updates \ {k},
                                          !.rejected = job[p].rejected \cup {k}], k)
    BY DEF Verify
<1>3. CASE UNCHANGED events /\ Handled(p, job[p], k)
    BY <1>1, <1>3, HandledQuietly
<1>4. CASE /\ Record(p, {"apk.integrity"})
           /\ Handled(p, [job[p] EXCEPT !.updates = job[p].updates \ {k},
                                        !.rejected = job[p].rejected \cup {k}], k)
  <2>1. k \in Pkgs
      BY <1>1 DEF Job
  <2>2. [job[p] EXCEPT !.updates = job[p].updates \ {k},
                       !.rejected = job[p].rejected \cup {k}] \in Job
      BY <1>1, <2>1 DEF Job
  <2>3. PICK i \in Job : i = [job[p] EXCEPT !.updates = job[p].updates \ {k},
                                            !.rejected = job[p].rejected \cup {k}]
      BY <2>2
  <2>4. /\ i.pc = job[p].pc /\ i.cmd = job[p].cmd /\ i.run = job[p].run
        /\ i.last = job[p].last /\ i.read = job[p].read
        /\ i.failed >= job[p].failed /\ i.rejected # {}
      BY <1>1, <2>3 DEF Job
  <2>5. {"apk.integrity"} \in SUBSET Code
      BY DEF Code
  <2> QED
      BY <1>1, <1>4, <2>3, <2>4, <2>5, Handling
<1> QED
    BY <1>2, <1>3, <1>4

\* Publications and links are counted alike.
LEMMA Failing ==
    ASSUME LogInv, NEW p \in Proc, job[p].pc \in {"publish", "link"}, NEW k,
           NEW code \in Code, Record(p, {code}),
           Handled(p, [job[p] EXCEPT !.failed = job[p].failed + 1], k),
           UNCHANGED <<runs, nextRun>>
    PROVE  LogInv' /\ Stay
<1>1. job[p] \in Job /\ job[p].failed \in Nat /\ job[p].cmd # "status"
    BY DEF LogInv, JobOK, Owns, Working, SyncOnly, Job
<1>2. [job[p] EXCEPT !.failed = job[p].failed + 1] \in Job
    BY <1>1 DEF Job
<1>3. PICK i \in Job : i = [job[p] EXCEPT !.failed = job[p].failed + 1]
    BY <1>2
<1>4. /\ i.pc = job[p].pc /\ i.cmd = job[p].cmd /\ i.run = job[p].run
      /\ i.last = job[p].last /\ i.read = job[p].read /\ i.rejected = job[p].rejected
      /\ i.failed >= job[p].failed /\ i.failed > 0
    BY <1>1, <1>3 DEF Job
<1>5. {code} \in SUBSET Code
    OBVIOUS
<1> QED
    BY <1>1, <1>3, <1>4, <1>5, Handling

LEMMA PublishingAndLinking ==
    ASSUME LogInv, NEW p \in Proc, Publish(p) \/ Link(p)
    PROVE  LogInv' /\ Stay
<1>1. /\ job[p].pc \in {"publish", "link"} /\ UNCHANGED <<runs, nextRun>>
    BY DEF Publish, Link, At
<1>2. PICK k \in job[p].todo, code \in {"publish.failed", "link.failed"} :
          \/ /\ Handled(p, job[p], k)
             /\ UNCHANGED events
          \/ /\ Record(p, {code})
             /\ Handled(p, [job[p] EXCEPT !.failed = job[p].failed + 1], k)
    BY DEF Publish, Link
<1>3. code \in Code
    BY DEF Code
<1> QED
    BY <1>1, <1>2, <1>3, HandledQuietly, Failing

\* A phase starts, with nothing recorded.
LEMMA Moving ==
    ASSUME LogInv, NEW p \in Proc, NEW pc \in Working \ {"fail"}, NEW todo \in SUBSET Pkgs,
           job[p].pc \in Working \ {"fail"}, pc \in SyncOnly => job[p].cmd # "status",
           Becomes(p, [job[p] EXCEPT !.pc = pc, !.todo = todo]), UNCHANGED logVars
    PROVE  LogInv' /\ Stay
<1>1. job[p] \in Job /\ pc \in Label
    BY DEF LogInv, JobOK, Working, Label
<1>2. [job[p] EXCEPT !.pc = pc, !.todo = todo] \in Job
    BY <1>1 DEF Job
<1>3. PICK i \in Job : i = [job[p] EXCEPT !.pc = pc, !.todo = todo]
    BY <1>2
<1>4. /\ i.pc = pc /\ i.cmd = job[p].cmd /\ i.run = job[p].run
      /\ i.last = job[p].last /\ i.read = job[p].read /\ i.rejected = job[p].rejected
      /\ i.failed >= job[p].failed
    BY <1>1, <1>3 DEF Job
<1>5. Record(p, {}) /\ {} \in SUBSET Code /\ UNCHANGED <<runs, nextRun>>
    BY NothingRecorded DEF logVars
<1> QED
    BY <1>3, <1>4, <1>5, Progress

LEMMA Phases ==
    ASSUME LogInv, NEW p \in Proc, ListApplications(p) \/ RefreshIndex(p) \/ NoPackage(p)
    PROVE  LogInv' /\ Stay
<1>0. /\ job[p] \in Job /\ UNCHANGED logVars
      /\ job[p].todo \in SUBSET Pkgs /\ job[p].declared \in SUBSET Pkgs
      /\ job[p].pc \in SyncOnly => job[p].cmd # "status"
    BY DEF LogInv, JobOK, Owns, Job, ListApplications, RefreshIndex, NoPackage
<1>1. CASE ListApplications(p)
    BY <1>0, <1>1, Moving DEF ListApplications, At, Working, SyncOnly
<1>2. CASE RefreshIndex(p)
    BY <1>0, <1>2, Moving DEF RefreshIndex, At, Working, SyncOnly
<1>3. CASE NoPackage(p)
  <2> DEFINE next == After(job[p].pc, job[p].cmd)
  <2>1. /\ job[p].pc \in Working \ {"fail"} /\ next \in Working \ {"fail"}
        /\ next \in SyncOnly => job[p].cmd # "status"
      BY <1>0, <1>3 DEF NoPackage, At, After, Working, SyncOnly
  <2>2. [job[p] EXCEPT !.pc = next] = [job[p] EXCEPT !.pc = next, !.todo = job[p].todo]
      BY <1>0 DEF Job
  <2>3. Becomes(p, [job[p] EXCEPT !.pc = next])
      BY <1>3 DEF NoPackage
  <2> HIDE DEF next
  <2> QED
      BY <1>0, <2>1, <2>2, <2>3, Moving
<1> QED
    BY <1>1, <1>2, <1>3

LEMMA Aborting ==
    ASSUME LogInv, NEW p \in Proc, Abort(p)
    PROVE  LogInv' /\ Stay
<1>1. /\ job[p] \in Job /\ job[p].pc \in Working \ {"fail"} /\ UNCHANGED <<runs, nextRun>>
      /\ Becomes(p, [job[p] EXCEPT !.pc = "fail"])
    BY DEF LogInv, JobOK, Abort, At, Working
<1>2. PICK codes \in SUBSET Code : Record(p, codes)
  <2>1. {"headwind.unusable"} \in SUBSET Code /\ {"fdroid.unavailable"} \in SUBSET Code
      BY DEF Code, Fatal
  <2> QED
      BY <2>1 DEF Abort
<1>3. [job[p] EXCEPT !.pc = "fail"] \in Job
    BY <1>1 DEF Job, Label
<1>4. PICK i \in Job : i = [job[p] EXCEPT !.pc = "fail"]
    BY <1>3
<1>5. /\ i.pc = "fail" /\ i.cmd = job[p].cmd /\ i.run = job[p].run
      /\ i.last = job[p].last /\ i.read = job[p].read /\ i.rejected = job[p].rejected
      /\ i.failed >= job[p].failed
    BY <1>1, <1>4 DEF Job
<1>6. i.pc \in Working /\ i.pc \notin SyncOnly
    BY <1>5 DEF Working, SyncOnly
<1> QED
    BY <1>1, <1>2, <1>4, <1>5, <1>6, Progress

LEMMA Ending ==
    ASSUME LogInv, NEW p \in Proc, Finish(p) \/ Fail(p)
    PROVE  LogInv' /\ Stay
<1>1. /\ job[p] \in Job /\ job[p].pc \in Working /\ Done(p) /\ UNCHANGED <<nextRun, events>>
    BY DEF LogInv, JobOK, Finish, Fail, At, Working
<1>2. CASE Fail(p)
    BY <1>1, <1>2, Closing DEF Fail
<1>3. CASE Finish(p)
  <2> DEFINE n == Errors(job[p])
             status == IF n = 0 THEN "OK" ELSE "WARNING"
  <2>1. IsFiniteSet(job[p].blocking) /\ IsFiniteSet(job[p].rejected) /\ job[p].failed \in Nat
      BY <1>1, PkgsAssumption, FS_Subset DEF Job
  <2>2. Cardinality(job[p].blocking) \in Nat /\ Cardinality(job[p].rejected) \in Nat
      BY <2>1, FS_CardinalityType
  <2>3. Cardinality(job[p].rejected) = 0 => job[p].rejected = {}
      BY <2>1, FS_EmptySet
  <2>4. n \in Nat
      BY <2>1, <2>2 DEF Errors
  <2>5. job[p].pc \in Working \ {"fail"}
      BY <1>3 DEF Finish, At, Working
  <2>6. Counted(job[p])
      BY <2>5 DEF LogInv, JobOK, Owns
  <2>7. n = 0 => ErrorsOf(job[p].run) \subseteq Uncounted
      BY <2>1, <2>2, <2>3, <2>6 DEF Errors, Counted
  <2>8. FinishRun(job[p].run, status, n) /\ status \in {"OK", "WARNING", "FAILED"}
      BY <1>3 DEF Finish
  <2> HIDE DEF n, status
  <2> QED
      BY <1>1, <2>4, <2>7, <2>8, Closing
<1> QED
    BY <1>2, <1>3

\* The process opens, closes or dies.
LEMMA ComingAndGoing ==
    ASSUME LogInv, NEW p \in Proc,
           \/ \E cmd \in Commands[p] : Start(p, cmd)
           \/ Open(p) \/ OutOfRuns(p) \/ Exit(p) \/ Crash(p)
    PROVE  LogInv' /\ Stay
<1>0. /\ LogTypeOK /\ UNCHANGED logVars /\ NoJob.last = 0 /\ NoJob.run = 0
      /\ NoJob \in Job /\ JobOK(NoJob) /\ JobOK(job[p])
    BY NoJobOK DEF LogInv, Start, Open, OutOfRuns, Exit, Crash
<1>1. ASSUME NEW cmd \in Commands[p], Start(p, cmd)
      PROVE  LogInv' /\ Stay
  <2>1. PICK declared \in SUBSET Pkgs :
            Becomes(p, [NoJob EXCEPT !.pc = First(cmd), !.cmd = cmd, !.declared = declared])
      BY <1>1, PkgsAssumption DEF Start
  <2>2. cmd \in Command /\ First(cmd) \in {"history", "prune", "start"}
      BY <1>1, CommandsAssumption DEF First
  <2> DEFINE j == [NoJob EXCEPT !.pc = First(cmd), !.cmd = cmd, !.declared = declared]
  <2>3. j \in Job /\ j.pc = First(cmd) /\ j.run = 0 /\ j.last = 0
      BY <1>0, <2>2 DEF Job, Label
  <2> HIDE DEF j
  <2>4. JobOK(j)
      BY <1>0, <2>2, <2>3 DEF JobOK, Owns, Reported, Working, SyncOnly, LogTypeOK
  <2> QED
      BY <1>0, <2>1, <2>3, <2>4, Aside DEF j
<1>2. CASE Becomes(p, NoJob)
    BY <1>0, <1>2, Aside
<1>3. CASE OutOfRuns(p)
  <2> DEFINE j == [NoJob EXCEPT !.pc = "done"]
  <2>1. j \in Job /\ j.pc = "done" /\ j.run = 0 /\ j.last = 0
      BY <1>0 DEF Job, Label
  <2>2. Becomes(p, j)
      BY <1>3 DEF OutOfRuns, Done
  <2> HIDE DEF j
  <2>3. JobOK(j)
      BY <1>0, <2>1 DEF JobOK, Owns, Reported, Working, SyncOnly, LogTypeOK
  <2> QED
      BY <1>0, <2>1, <2>2, <2>3, Aside
<1>4. CASE Open(p) /\ Becomes(p, job[p])
  <2>1. job' = job
      BY <1>4 DEF LogInv, Becomes
  <2> QED
      BY <1>0, <2>1 DEF LogInv, LogTypeOK, logVars, JobOK, Owns, Counted, Reported, ErrorsOf,
                        CleanRunsAreClean, Finished, Stay
<1> QED
    BY <1>1, <1>2, <1>3, <1>4 DEF Open, Exit, Crash

-----------------------------------------------------------------------------
(* The theorems.                                                           *)

LEMMA LogStep ==
    ASSUME LogInv, Next
    PROVE  LogInv' /\ Stay
<1>1. ASSUME NEW p \in Proc, RunStep(p)
      PROVE  LogInv' /\ Stay
    BY <1>1, ComingAndGoing, Starting, Phases, Reconciling, Planning, Verifying,
       PublishingAndLinking, Ending, Aborting, ReadingHistory, ReadingErrors, Pruning
    DEF RunStep
<1> QED
    BY <1>1, ComingAndGoing DEF Next

LEMMA MigrationStep ==
    ASSUME TypeInv, Next
    PROVE  MigrationTypeOK' /\ Migrating'
<1>1. PICK p \in Proc : \/ Connect(p) \/ Migrate(p) \/ Close(p) \/ Die(p)
                       \/ UNCHANGED migrationVars
    BY DEF Next, RunStep, Start, Open, StartRun, OutOfRuns, NoPackage, ListApplications,
           Reconcile, RefreshIndex, Plan, Verify, Publish, Link, Finish, Abort, Fail,
           ReadHistory, ReadErrors, Prune, Exit, Crash
<1>2. CASE UNCHANGED migrationVars
    BY <1>2 DEF TypeInv, TypeOK, MigrationTypeOK, Migrating, migrationVars, schemaVars
<1> QED
    BY <1>1, <1>2, MigrationTypes

IInv == TypeInv /\ LogInv

LEMMA Initial == Init => IInv
<1> SUFFICES ASSUME Init
             PROVE  IInv
    OBVIOUS
<1>1. DOMAIN runs = {} /\ runs \in [DOMAIN runs -> Run] /\ events = {} /\ nextRun = 1
    BY DEF Init
<1>2. LogTypeOK
    BY <1>1, RunsAssumption DEF LogTypeOK
<1>3. /\ job = [p \in Proc |-> job[p]]
      /\ \A p \in Proc : job[p] = NoJob
    BY DEF Init
<1>4. LogInv
    BY <1>1, <1>2, <1>3, NoJobOK DEF LogInv, CleanRunsAreClean, Finished
<1>5. TypeInv
    BY <1>1, <1>2, <1>3, NoJobOK, ClosedType, CrashesAssumption
    DEF Init, MigrationInit, TypeInv, TypeOK, MigrationTypeOK, Migrating, LogTypeOK
<1> QED
    BY <1>4, <1>5 DEF IInv

LEMMA Inductive ==
    ASSUME IInv, [Next]_vars
    PROVE  IInv'
<1>1. CASE Next
  <2>1. LogInv' /\ MigrationTypeOK' /\ Migrating'
      BY <1>1, LogStep, MigrationStep DEF IInv
  <2>2. (job \in [Proc -> Job])'
      BY <2>1 DEF LogInv, JobOK
  <2>3. TypeInv'
      BY <2>1, <2>2 DEF TypeInv, TypeOK, LogInv, LogTypeOK
  <2> QED
      BY <2>1, <2>3 DEF IInv
<1>2. CASE UNCHANGED vars
  <2>1. \A r : ErrorsOf(r)' = ErrorsOf(r)
      BY <1>2 DEF vars, logVars, ErrorsOf
  <2>2. LogInv'
      BY <1>2, <2>1 DEF IInv, LogInv, LogTypeOK, JobOK, Owns, Counted, Reported,
                        CleanRunsAreClean, Finished, vars, logVars
  <2>3. TypeInv'
      BY <1>2 DEF IInv, TypeInv, TypeOK, MigrationTypeOK, Migrating, vars, logVars,
                  migrationVars, schemaVars
  <2> QED
      BY <2>2, <2>3 DEF IInv
<1> QED
    BY <1>1, <1>2

\* The database, the history and the processes keep their types, whatever the
\* scripts, and however the openings, runs, reports and prunings interleave.
THEOREM LogTypes == Spec => []TypeOK
<1>1. IInv => TypeOK
    BY DEF IInv, TypeInv
<1> QED
    BY Initial, Inductive, <1>1, PTL DEF Spec

\* A run that counts no error recorded none but the kinds that are never counted,
\* for any number of packages, processes and runs.
THEOREM CountsAreHonest == Spec => []CleanRunsAreClean
<1>1. IInv => CleanRunsAreClean
    BY DEF IInv, LogInv
<1> QED
    BY Initial, Inductive, <1>1, PTL DEF Spec

\* What a report shows of a run that ended is that run, however many transactions
\* of others fall between its two reads.
THEOREM ReportsOneRun == Spec => []ReportIsOneRun
<1>1. IInv => ReportIsOneRun
    BY DEF IInv, LogInv, JobOK, Reported, ReportIsOneRun, At
<1> QED
    BY Initial, Inductive, <1>1, PTL DEF Spec

\* A run that ended is never changed: each run is closed once, by the process that
\* opened it, and pruning takes the run and its events together.
THEOREM HistoryStays == Spec => FinishedRunsStay
<1>1. IInv /\ [Next]_vars => [Stay]_vars
    BY LogStep DEF IInv
<1>2. Spec => [][Stay]_vars
    BY Initial, Inductive, <1>1, PTL DEF Spec
<1> QED
    BY <1>2 DEF Stay, FinishedRunsStay

=============================================================================
