-------------------------- MODULE RunLogProperties --------------------------
(***************************************************************************)
(* What the database and the report must show, and what the documentation  *)
(* says they show.                                                         *)
(***************************************************************************)
EXTENDS RunLog

StatementsOf(done) == UNION {{Scripts[m][i] : i \in DOMAIN Scripts[m]} : m \in done}

\* What the scripts of a set leave in the database.
SchemaOf(done) ==
    (UNION {s.adds : s \in StatementsOf(done)}) \ (UNION {s.drops : s \in StatementsOf(done)})

\* What the scripts must be like to run from several processes at once.
Lines(m) == 1..Len(Scripts[m])

\* What a statement drops, no later one brings back.
DropsAreFinal ==
    \A m, n \in All : \A i \in Lines(m), j \in Lines(n) :
        m < n \/ (m = n /\ i < j) => Scripts[m][i].drops \cap Scripts[n][j].adds = {}

\* The first statement of a script drops something, or adds something that no
\* statement drops: once executed, it fails for whoever tries it again.
FirstMarks ==
    \A m \in All : Len(Scripts[m]) > 0 =>
        \/ Scripts[m][1].drops # {}
        \/ \E o \in Scripts[m][1].adds : \A n \in All : \A j \in Lines(n) :
              o \notin Scripts[n][j].drops

\* However many first starts race, lose or die halfway, whoever gets past the
\* opening works on the whole schema: no command runs on tables that are not
\* all there.
OpenIsMigrated ==
    \A p \in Proc : opening[p].pc = "open" => applied = All /\ schema = SchemaOf(All)

\* A process died between the statements of a script and its record: nobody is
\* left who ran a part of it, and the script can neither go on nor start again.
Torn ==
    /\ schema # SchemaOf(applied)
    /\ \A p \in Proc : opening[p].pc = "migrating" => opening[p].statement = 1

\* Unless the database was torn, it keeps being opened: of racing first starts
\* one goes through, and a migrated database is not migrated again.
DatabaseOpens == []~Torn => []<>(\E p \in Proc : opening[p].pc = "open")

\* The errors a run records without counting them.
Uncounted == {"headwind.version_unreadable", "package.ambiguous", "signer.mismatch"}

Finished(r) == r \in DOMAIN runs /\ runs[r].finished

\* Every failure of a run that went through (a rejected package, an unverified
\* APK, a failed publication or link, whichever of the phases and packages it
\* fell in) is in the count the report goes by: a run that counts no error
\* recorded none but the few kinds that are left out of it.
CleanRunsAreClean ==
    \A r \in DOMAIN runs :
        Finished(r) /\ runs[r].errors = 0 => ErrorsOf(r) \subseteq Uncounted

\* What is said of a run that ended is never changed, by whatever runs beside or
\* after it; pruning removes it whole.
FinishedRunsStay ==
    [][\A r \in DOMAIN runs : Finished(r) =>
          \/ r \in DOMAIN runs' /\ runs'[r] = runs[r] /\ ErrorsOf(r)' = ErrorsOf(r)
          \/ r \notin DOMAIN runs' /\ ErrorsOf(r)' = {}]_vars

\* A report, although it reads the run and its errors in two transactions, speaks
\* of one run: if that run had ended, the errors shown are all it recorded,
\* unless it was pruned in between.
ReportIsOneRun ==
    \A p \in Proc :
        At(p, "told") /\ job[p].read.finished /\ job[p].last \in DOMAIN runs
            => /\ job[p].read = runs[job[p].last]
               /\ job[p].shown = ErrorsOf(job[p].last)

\* Unless a process dies, no run stays RUNNING for ever: every path through the
\* phases, the failing ones included, closes the run it opened.
RunsEnd ==
    [](crashes = 0) =>
        \A r \in 1..MaxRuns : []<>(r \in DOMAIN runs => runs[r].finished)

\* "The exit code is 1 if the last run produced errors": a report that exits with
\* 0 shows no error of the run it calls the last.
ErrorsFailTheReport ==
    \A p \in Proc : At(p, "told") /\ Healthy(job[p]) => job[p].shown = {}

=============================================================================
