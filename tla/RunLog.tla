------------------------------- MODULE RunLog -------------------------------
(***************************************************************************)
(* The history of the runs: what status, sync, report and prune write and  *)
(* read of sync_run and sync_event, over a database that every process     *)
(* migrates as it opens it.  What the phases do to Headwind is in Sync;    *)
(* here a phase is what it may record and how it counts.                   *)
(*                                                                         *)
(* Only the events of level ERROR are kept.  Ids grow with start times.    *)
(***************************************************************************)
EXTENDS Migrations, FiniteSets

CONSTANTS
    Pkgs,       \* packages
    Declared,   \* the sets of packages packages.yaml may declare
    Commands,   \* Commands[p]: the commands process p may be given
    MaxRuns     \* bound: runs followed

RunCommand == {"status", "dry-run", "verify-apk", "apply"}
Command == RunCommand \cup {"report", "prune"}
\* What an error is about: the codes are told apart by what records them.
Fatal == {"headwind.unusable", "fdroid.unavailable"}
Code == Fatal \cup {"package.ambiguous", "fdroid.unresolved", "signer.mismatch",
                    "headwind.version_unreadable", "apk.integrity",
                    "publish.failed", "link.failed"}

ASSUME CommandsAssumption == Commands \in [Proc -> SUBSET Command]
ASSUME PkgsAssumption == IsFiniteSet(Pkgs) /\ Declared \subseteq SUBSET Pkgs
ASSUME RunsAssumption == MaxRuns \in Nat

VARIABLES
    runs,       \* the rows of sync_run, by id
    nextRun,    \* AUTOINCREMENT: ids are not reused
    events,     \* the ERROR rows of sync_event
    job         \* job[p]: the local state of process p

logVars == <<runs, nextRun, events>>
vars == <<migrationVars, logVars, job>>

Run == [status : {"RUNNING", "OK", "WARNING", "FAILED"}, finished : BOOLEAN, errors : Nat]
Running == [status |-> "RUNNING", finished |-> FALSE, errors |-> 0]
Event == [run : Nat \ {0}, code : Code]

Label == {"none", "start", "applications", "reconcile", "index", "plan", "verify",
          "publish", "link", "finish", "fail", "history", "errors", "told", "prune", "done"}

Job == [pc : Label, cmd : Command, run : Nat,
        declared : SUBSET Pkgs,
        todo : SUBSET Pkgs,                 \* those the phase still has to handle
        resolved : SUBSET Pkgs,             \* reconciled with one application
        blocking : SUBSET Pkgs,             \* with none, or with several
        updates : SUBSET Pkgs,              \* UPDATE_AVAILABLE
        rejected : SUBSET Pkgs,             \* REJECTED or NOT_IN_FDROID
        failed : Nat,                       \* failed publications and links
        last : Nat, read : Run, shown : SUBSET Code] \* what a report read

NoJob == [pc |-> "none", cmd |-> "report", run |-> 0, declared |-> {}, todo |-> {},
          resolved |-> {}, blocking |-> {}, updates |-> {}, rejected |-> {},
          failed |-> 0, last |-> 0, read |-> Running, shown |-> {}]

TypeOK ==
    /\ MigrationTypeOK
    /\ DOMAIN runs \subseteq 1..MaxRuns /\ runs \in [DOMAIN runs -> Run]
    /\ nextRun \in 1..(MaxRuns + 1)
    /\ events \subseteq Event /\ \A e \in events : e.run \in DOMAIN runs
    /\ job \in [Proc -> Job]

Init ==
    /\ MigrationInit
    /\ runs = [r \in {} |-> Running]
    /\ nextRun = 1
    /\ events = {}
    /\ job = [p \in Proc |-> NoJob]

At(p, l) == opening[p].pc = "open" /\ job[p].pc = l
Becomes(p, j) == job' = [job EXCEPT ![p] = j]
Done(p) == Becomes(p, [NoJob EXCEPT !.pc = "done"])
Record(p, codes) == events' = events \cup {[run |-> job[p].run, code |-> c] : c \in codes}

\* UPDATE sync_run ... WHERE id = ?
FinishRun(r, status, errors) ==
    runs' = [k \in DOMAIN runs |->
                IF k = r THEN [status |-> status, finished |-> TRUE, errors |-> errors]
                ELSE runs[k]]

-----------------------------------------------------------------------------
(* Opening and starting.                                                   *)

First(cmd) == IF cmd = "report" THEN "history" ELSE IF cmd = "prune" THEN "prune" ELSE "start"

Start(p, cmd) ==
    /\ Connect(p)
    /\ \E declared \in IF First(cmd) = "start" THEN Declared ELSE {{}} :
          Becomes(p, [NoJob EXCEPT !.pc = First(cmd), !.cmd = cmd, !.declared = declared])
    /\ UNCHANGED logVars

\* A process whose opening fails is gone.
Open(p) ==
    /\ Migrate(p)
    /\ Becomes(p, IF opening'[p].pc = "closed" THEN NoJob ELSE job[p])
    /\ UNCHANGED logVars

StartRun(p) ==
    /\ At(p, "start")
    /\ nextRun <= MaxRuns
    /\ runs' = [r \in DOMAIN runs \cup {nextRun} |-> IF r = nextRun THEN Running ELSE runs[r]]
    /\ nextRun' = nextRun + 1
    /\ Becomes(p, [job[p] EXCEPT !.pc = "applications", !.run = nextRun])
    /\ UNCHANGED <<migrationVars, events>>

\* Bound: no run is followed past MaxRuns.
OutOfRuns(p) ==
    /\ At(p, "start")
    /\ nextRun > MaxRuns
    /\ Done(p)
    /\ UNCHANGED <<migrationVars, logVars>>

-----------------------------------------------------------------------------
(* The phases.                                                             *)

After(pc, cmd) ==
    CASE pc = "reconcile" -> IF cmd = "status" THEN "finish" ELSE "index"
      [] pc = "plan" -> IF cmd = "dry-run" THEN "finish" ELSE "verify"
      [] pc = "verify" -> IF cmd = "apply" THEN "publish" ELSE "finish"
      [] pc = "publish" -> "link"
      [] pc = "link" -> "finish"

\* The phase goes on with the other packages, or the next one starts.
Handled(p, j, k) ==
    LET rest == j.todo \ {k}
    IN  Becomes(p, IF rest # {} THEN [j EXCEPT !.todo = rest]
                   ELSE [j EXCEPT !.pc = After(j.pc, j.cmd), !.todo = j.declared])

\* A phase over no package at all.
NoPackage(p) ==
    /\ \E l \in {"reconcile", "plan", "verify", "publish", "link"} : At(p, l)
    /\ job[p].todo = {}
    /\ Becomes(p, [job[p] EXCEPT !.pc = After(job[p].pc, job[p].cmd)])
    /\ UNCHANGED <<migrationVars, logVars>>

ListApplications(p) ==
    /\ At(p, "applications")
    /\ Becomes(p, [job[p] EXCEPT !.pc = "reconcile", !.todo = job[p].declared])
    /\ UNCHANGED <<migrationVars, logVars>>

Reconcile(p) ==
    /\ At(p, "reconcile")
    /\ \E k \in job[p].todo, status \in {"PAUSED", "RESOLVED", "NOT_IN_HEADWIND", "AMBIGUOUS"} :
          /\ Record(p, IF status = "AMBIGUOUS" THEN {"package.ambiguous"} ELSE {})
          /\ Handled(p, CASE status = "PAUSED" -> job[p]
                          [] status = "RESOLVED" -> [job[p] EXCEPT !.resolved = @ \cup {k}]
                          [] OTHER -> [job[p] EXCEPT !.blocking = @ \cup {k}], k)
    /\ UNCHANGED <<migrationVars, runs, nextRun>>

RefreshIndex(p) ==
    /\ At(p, "index")
    /\ Becomes(p, [job[p] EXCEPT !.pc = "plan", !.todo = job[p].declared])
    /\ UNCHANGED <<migrationVars, logVars>>

\* What may come of a package that is resolved: its status, and the errors
\* recorded on the way.  Versions that cannot be read take over the signer.
PlanOutcomes ==
    {<<"NOT_IN_FDROID", {}>>, <<"REJECTED", {"fdroid.unresolved"}>>,
     <<"REJECTED", {"signer.mismatch"}>>,
     <<"SKIPPED", {"headwind.version_unreadable"}>>,
     <<"SKIPPED", {"signer.mismatch", "headwind.version_unreadable"}>>,
     <<"UP_TO_DATE", {}>>, <<"UPDATE_AVAILABLE", {}>>}

Plan(p) ==
    /\ At(p, "plan")
    /\ \E k \in job[p].todo :
          \E o \in IF k \in job[p].resolved THEN PlanOutcomes ELSE {<<"SKIPPED", {}>>} :
             /\ Record(p, o[2])
             /\ Handled(p, CASE o[1] = "UPDATE_AVAILABLE" ->
                                  [job[p] EXCEPT !.updates = @ \cup {k}]
                             [] o[1] \in {"REJECTED", "NOT_IN_FDROID"} ->
                                  [job[p] EXCEPT !.rejected = @ \cup {k}]
                             [] OTHER -> job[p], k)
    /\ UNCHANGED <<migrationVars, runs, nextRun>>

Verify(p) ==
    /\ At(p, "verify")
    /\ \E k \in job[p].todo :
          \/ /\ Handled(p, job[p], k)
             /\ UNCHANGED events
          \/ /\ k \in job[p].updates
             /\ Record(p, {"apk.integrity"})
             /\ Handled(p, [job[p] EXCEPT !.updates = @ \ {k}, !.rejected = @ \cup {k}], k)
    /\ UNCHANGED <<migrationVars, runs, nextRun>>

Publish(p) ==
    /\ At(p, "publish")
    /\ \E k \in job[p].todo :
          \/ /\ Handled(p, job[p], k)
             /\ UNCHANGED events
          \/ /\ k \in job[p].updates
             /\ Record(p, {"publish.failed"})
             /\ Handled(p, [job[p] EXCEPT !.failed = @ + 1], k)
    /\ UNCHANGED <<migrationVars, runs, nextRun>>

\* Whatever the plan and the publication gave.
Link(p) ==
    /\ At(p, "link")
    /\ \E k \in job[p].todo :
          \/ /\ Handled(p, job[p], k)
             /\ UNCHANGED events
          \/ /\ Record(p, {"link.failed"})
             /\ Handled(p, [job[p] EXCEPT !.failed = @ + 1], k)
    /\ UNCHANGED <<migrationVars, runs, nextRun>>

-----------------------------------------------------------------------------
(* The end of a run.                                                       *)

\* Mutant: the publications and links that failed are left out of the sum.
ErrorsOfPlan(j) == Cardinality(IF j.cmd = "status" THEN j.blocking ELSE j.rejected)

Errors(j) ==
    IF j.cmd = "status" THEN Cardinality(j.blocking)
    ELSE Cardinality(j.rejected) + j.failed

\* Mutant: every row is updated.
FinishAllRuns(p) ==
    /\ At(p, "finish")
    /\ LET e == Errors(job[p])
       IN  runs' = [r \in DOMAIN runs |->
                       [status |-> IF e = 0 THEN "OK" ELSE "WARNING", finished |-> TRUE,
                        errors |-> e]]
    /\ Done(p)
    /\ UNCHANGED <<migrationVars, nextRun, events>>

Finish(p) ==
    /\ At(p, "finish")
    /\ LET e == Errors(job[p])
       IN  FinishRun(job[p].run, IF e = 0 THEN "OK" ELSE "WARNING", e)
    /\ Done(p)
    /\ UNCHANGED <<migrationVars, nextRun, events>>

\* The applications or the index cannot be read.
Abort(p) ==
    /\ \/ At(p, "applications") /\ Record(p, {"headwind.unusable"})
       \/ At(p, "index") /\ Record(p, {"fdroid.unavailable"})
    /\ Becomes(p, [job[p] EXCEPT !.pc = "fail"])
    /\ UNCHANGED <<migrationVars, runs, nextRun>>

\* Mutant: the process leaves without closing the run.
FailUnfinished(p) ==
    /\ At(p, "fail")
    /\ Done(p)
    /\ UNCHANGED <<migrationVars, logVars>>

Fail(p) ==
    /\ At(p, "fail")
    /\ FinishRun(job[p].run, "FAILED", 1)
    /\ Done(p)
    /\ UNCHANGED <<migrationVars, nextRun, events>>

-----------------------------------------------------------------------------
(* report: the runs are read, then the errors of the newest.               *)

ReadHistory(p) ==
    /\ At(p, "history")
    /\ IF DOMAIN runs = {}
       THEN Becomes(p, [job[p] EXCEPT !.pc = "told"])
       ELSE LET last == CHOOSE r \in DOMAIN runs : \A s \in DOMAIN runs : s <= r
            IN  Becomes(p, [job[p] EXCEPT !.pc = "errors", !.last = last, !.read = runs[last]])
    /\ UNCHANGED <<migrationVars, logVars>>

ErrorsOf(r) == {e.code : e \in {d \in events : d.run = r}}

\* Mutant: the errors shown are those of every run.
ReadAllErrors(p) ==
    /\ At(p, "errors")
    /\ Becomes(p, [job[p] EXCEPT !.pc = "told", !.shown = {e.code : e \in events}])
    /\ UNCHANGED <<migrationVars, logVars>>

ReadErrors(p) ==
    /\ At(p, "errors")
    /\ Becomes(p, [job[p] EXCEPT !.pc = "told", !.shown = ErrorsOf(job[p].last)])
    /\ UNCHANGED <<migrationVars, logVars>>

\* report exits with 0.
Healthy(j) == j.last = 0 \/ j.read.errors = 0

\* Mutant: the deletion does not cascade.
PruneRunsOnly(p) ==
    /\ At(p, "prune")
    /\ \E kept \in 1..nextRun :
          /\ \A q \in Proc : job[q].run # 0 => job[q].run >= kept
          /\ runs' = [r \in {s \in DOMAIN runs : s >= kept} |-> runs[r]]
    /\ Done(p)
    /\ UNCHANGED <<migrationVars, nextRun, events>>

\* The runs started before a date go, and their events with them.  No process
\* is still in one of them: the date is at least a day back.
Prune(p) ==
    /\ At(p, "prune")
    /\ \E kept \in 1..nextRun :
          /\ \A q \in Proc : job[q].run # 0 => job[q].run >= kept
          /\ runs' = [r \in {s \in DOMAIN runs : s >= kept} |-> runs[r]]
          /\ events' = {e \in events : e.run >= kept}
    /\ Done(p)
    /\ UNCHANGED <<migrationVars, nextRun>>

Exit(p) ==
    /\ At(p, "done") \/ At(p, "told")
    /\ Close(p)
    /\ Becomes(p, NoJob)
    /\ UNCHANGED logVars

Crash(p) ==
    /\ Die(p)
    /\ Becomes(p, NoJob)
    /\ UNCHANGED logVars

-----------------------------------------------------------------------------

RunStep(p) ==
    \/ Open(p) \/ StartRun(p) \/ OutOfRuns(p) \/ NoPackage(p)
    \/ ListApplications(p) \/ Reconcile(p) \/ RefreshIndex(p) \/ Plan(p)
    \/ Verify(p) \/ Publish(p) \/ Link(p) \/ Finish(p) \/ Abort(p) \/ Fail(p)
    \/ ReadHistory(p) \/ ReadErrors(p) \/ Prune(p) \/ Exit(p)

Next ==
    \/ \E p \in Proc : \E cmd \in Commands[p] : Start(p, cmd)
    \/ \E p \in Proc : RunStep(p) \/ Crash(p)

Spec == Init /\ [][Next]_vars

\* The timer starts sync --apply again and again, and a started process goes on.
Fairness == \A p \in Proc :
    /\ "apply" \in Commands[p] => SF_vars(Start(p, "apply"))
    /\ WF_vars(RunStep(p))

FairSpec == Spec /\ Fairness

=============================================================================
