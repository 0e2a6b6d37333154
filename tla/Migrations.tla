----------------------------- MODULE Migrations -----------------------------
(***************************************************************************)
(* Opening state.db.  The scripts that are not recorded as applied are run *)
(* in order, statement by statement: executescript commits what is pending *)
(* and leaves every statement on its own, so that only the record of a     *)
(* script, not the script, is a transaction.  Several processes may open   *)
(* the database at once, and die anywhere.                                 *)
(***************************************************************************)
EXTENDS Naturals, Sequences

CONSTANTS
    Proc,       \* processes of the command line
    Objects,    \* tables, columns and indexes
    Scripts,    \* Scripts[m]: the statements of migration m, in the order of names
    MaxCrashes  \* bound: crashes

Statement == [adds : SUBSET Objects, drops : SUBSET Objects]

ASSUME ScriptsAssumption == Scripts \in Seq(Seq(Statement))
ASSUME CrashesAssumption == MaxCrashes \in Nat

VARIABLES
    schema,     \* what exists in the database
    applied,    \* the rows of schema_migration
    opening,    \* opening[p]: how far process p is
    crashes

schemaVars == <<schema, applied>>
migrationVars == <<schemaVars, opening, crashes>>

All == DOMAIN Scripts

Opening == [pc : {"closed", "migrating", "open"}, todo : SUBSET All, statement : Nat \ {0}]
Closed == [pc |-> "closed", todo |-> {}, statement |-> 1]

Opens(p, o) == opening' = [opening EXCEPT ![p] = o]

MigrationTypeOK ==
    /\ schema \subseteq Objects
    /\ applied \subseteq All
    /\ opening \in [Proc -> Opening]
    /\ crashes \in 0..MaxCrashes

MigrationInit ==
    /\ schema = {}
    /\ applied = {}
    /\ opening = [p \in Proc |-> Closed]
    /\ crashes = 0

-----------------------------------------------------------------------------

With(todo) == [pc |-> IF todo = {} THEN "open" ELSE "migrating", todo |-> todo, statement |-> 1]

\* Mutant: what was applied is not looked up.
PendingAlways(done) == All

Pending(done) == All \ done

\* schema_migration is created if it does not exist, and read once.
Connect(p) ==
    /\ opening[p].pc = "closed"
    /\ Opens(p, With(Pending(applied)))
    /\ UNCHANGED <<schemaVars, crashes>>

Current(p) == CHOOSE m \in opening[p].todo : \A n \in opening[p].todo : m <= n

Executing(p) ==
    opening[p].pc = "migrating" /\ opening[p].statement <= Len(Scripts[Current(p)])

\* "already exists", "no such column"
Runs(s) == s.adds \cap schema = {} /\ s.drops \subseteq schema

ExecuteStatement(p) ==
    /\ Executing(p)
    /\ LET s == Scripts[Current(p)][opening[p].statement]
       IN  Runs(s) /\ schema' = (schema \cup s.adds) \ s.drops
    /\ Opens(p, [opening[p] EXCEPT !.statement = @ + 1])
    /\ UNCHANGED <<applied, crashes>>

\* Mutant: the error of the script is swallowed.
StatementFailsOpened(p) ==
    /\ Executing(p)
    /\ ~Runs(Scripts[Current(p)][opening[p].statement])
    /\ Opens(p, With({}))
    /\ UNCHANGED <<schemaVars, crashes>>

\* The error is not caught: the process ends.
StatementFails(p) ==
    /\ Executing(p)
    /\ ~Runs(Scripts[Current(p)][opening[p].statement])
    /\ Opens(p, Closed)
    /\ UNCHANGED <<schemaVars, crashes>>

\* The name is a primary key: the process ends if another recorded it first.
RecordMigration(p) ==
    /\ opening[p].pc = "migrating" /\ ~Executing(p)
    /\ applied' = applied \cup {Current(p)}
    /\ Opens(p, IF Current(p) \in applied THEN Closed
                ELSE With(opening[p].todo \ {Current(p)}))
    /\ UNCHANGED <<schema, crashes>>

Close(p) ==
    /\ opening[p].pc = "open"
    /\ Opens(p, Closed)
    /\ UNCHANGED <<schemaVars, crashes>>

\* The process dies, or an exception nobody catches ends it.
Die(p) ==
    /\ opening[p].pc # "closed"
    /\ crashes < MaxCrashes /\ crashes' = crashes + 1
    /\ Opens(p, Closed)
    /\ UNCHANGED schemaVars

Migrate(p) == ExecuteStatement(p) \/ StatementFails(p) \/ RecordMigration(p)

=============================================================================
