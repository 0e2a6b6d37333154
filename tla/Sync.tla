-------------------------------- MODULE Sync --------------------------------
(***************************************************************************)
(* One tracked package, followed through the runs of the service: from     *)
(* packages.yaml, the local database and the F-Droid index to the versions *)
(* and links of Headwind.                                                  *)
(*                                                                         *)
(* A run is a process that stops anywhere: each remote call and each       *)
(* committed transaction is a step of its own, and what a call returned is *)
(* kept in the process, as old as it gets.  Nothing prevents two processes *)
(* from running at once (the timer's and an operator's): Proc says how     *)
(* many there are.  The other packages of a run only add steps that leave  *)
(* this one's state alone.                                                 *)
(***************************************************************************)
EXTENDS Headwind

CONSTANTS
    Proc,            \* processes of the command line
    Commands,        \* Commands[p]: the commands process p may be given
    Signers,         \* APK signing keys
    Offers,          \* what the F-Droid index may resolve the package to
    Entries,         \* what packages.yaml may say of the package
    NoApp, NoSigner, \* NULL
    OperatorMoves,   \* what operators do in Headwind and in packages.yaml
    OperatorVersions,\* the versions they enter by hand: [name, code]
    Budget           \* how many times each disturbance may happen

Disturbance == {"crash", "fault", "lostPut", "lostPost", "operator", "offer"}
Command == {"status", "dry-run", "apply"}
Offer == [kind : {"candidate", "unresolved", "absent"}, name : Names, code : Nat,
          signer : Signers, urls : BOOLEAN]
Entry == [tracked : BOOLEAN, auto : BOOLEAN, paused : BOOLEAN]

ASSUME CommandsAssumption == Commands \in [Proc -> SUBSET Command]
ASSUME OffersAssumption ==
    Offers \subseteq Offer /\ \A o \in Offers : o.kind = "candidate" => o.code > 0
ASSUME EntriesAssumption == Entries \subseteq Entry
ASSUME NullAssumption == NoApp \notin Apps /\ NoSigner \notin Signers
ASSUME OperatorVersionsAssumption == OperatorVersions \subseteq [name : Names, code : Nat]
ASSUME BudgetAssumption == Budget \in [Disturbance -> Nat]

VARIABLES
    offer,   \* what the index resolves to now
    yaml,    \* what packages.yaml says now
    row,     \* the package's row in tracked_package
    job,     \* job[p]: the local state of process p
    left     \* left[d]: how many disturbances d may still happen

vars == <<serverVars, offer, yaml, row, job, left>>

-----------------------------------------------------------------------------
(* The row.  A code of 0 stands for NULL.                                  *)

Row == [tracked : BOOLEAN, app : Apps \cup {NoApp}, auto : BOOLEAN, paused : BOOLEAN,
        signer : Signers \cup {NoSigner}, seen : Nat, created : Nat, pushed : Nat]

NoRow == [tracked |-> FALSE, app |-> NoApp, auto |-> FALSE, paused |-> FALSE,
          signer |-> NoSigner, seen |-> 0, created |-> 0, pushed |-> 0]

AwaitingApproval(r) == r.created > r.pushed

\* UPDATE ... WHERE pkg = ? changes nothing when the row is gone.
UpdateRow(r) == row' = IF row.tracked THEN r ELSE row

\* Mutant: the row is replaced, its progress with it.
UpsertedAnew(r, app, entry) ==
    [NoRow EXCEPT !.tracked = TRUE, !.app = app, !.auto = entry.auto, !.paused = entry.paused]

Upserted(r, app, entry) ==
    [r EXCEPT !.tracked = TRUE, !.app = app, !.auto = entry.auto, !.paused = entry.paused]

-----------------------------------------------------------------------------
(* The local state of a process.                                           *)

Label == {"idle", "list", "reconcile", "index", "signer", "pin", "compare", "verify",
          "prepare", "versions", "configurations", "put", "record",
          "link", "resolve", "installing", "rows", "post", "pushed"}
Status == {"NONE", "UP_TO_DATE", "UPDATE_AVAILABLE", "REJECTED", "NOT_IN_FDROID", "SKIPPED"}
Outcome == {"NONE", "SKIPPED", "BLOCKED", "FAILED", "CREATED", "REWRITTEN"}
LinkRow == [conf : Confs, action : 0..2]

Job == [pc : Label, cmd : Command, yaml : Entry,
        app : Apps \cup {NoApp},          \* the application reconciliation resolved
        offer : Offer,                    \* the candidate read in the index
        trusted : BOOLEAN,                \* signer state is not MISMATCH
        status : Status, entryApp : Apps \cup {NoApp}, \* of the plan entry
        verified : BOOLEAN,
        known : SUBSET (Nat \ {0}),       \* version ids read before the PUT
        reply : Nat,                      \* id the PUT returned, 0 if unusable
        outcome : Outcome,
        code : Nat, target : Nat,         \* the version to link: code and id
        linkApp : Apps \cup {NoApp},
        installing : SUBSET Confs,        \* configurations read as installing
        rows : SUBSET LinkRow]            \* the target's rows as read

Idle == [pc |-> "idle", cmd |-> "status",
         yaml |-> [tracked |-> FALSE, auto |-> FALSE, paused |-> FALSE],
         app |-> NoApp, offer |-> CHOOSE o \in Offers : TRUE, trusted |-> FALSE,
         status |-> "NONE", entryApp |-> NoApp, verified |-> FALSE, known |-> {},
         reply |-> 0, outcome |-> "NONE", code |-> 0, target |-> 0,
         linkApp |-> NoApp, installing |-> {}, rows |-> {}]

At(p, l) == job[p].pc = l
Becomes(p, j) == job' = [job EXCEPT ![p] = j]
Goto(p, l) == Becomes(p, [job[p] EXCEPT !.pc = l])
Finish(p) == Becomes(p, Idle)

Spend(d) == left[d] > 0 /\ left' = [left EXCEPT ![d] = @ - 1]

TypeOK ==
    /\ ServerTypeOK
    /\ offer \in Offers
    /\ yaml \in Entries
    /\ row \in Row
    /\ job \in [Proc -> Job]
    /\ left \in [Disturbance -> Nat]

Init ==
    /\ ServerInit
    /\ offer \in Offers
    /\ yaml \in Entries
    /\ row = NoRow
    /\ job = [p \in Proc |-> Idle]
    /\ left = Budget

-----------------------------------------------------------------------------
(* Reconciliation (status and sync).                                       *)

StartRun(p, cmd) ==
    /\ At(p, "idle")
    /\ Becomes(p, [Idle EXCEPT !.pc = "list", !.cmd = cmd, !.yaml = yaml])
    /\ UNCHANGED <<serverVars, offer, yaml, row, left>>

\* Exactly one application carries the package, or none is resolved.
Resolved(apps) == IF \E a \in apps : apps = {a} THEN CHOOSE a \in apps : TRUE ELSE NoApp

ListApplications(p) ==
    /\ At(p, "list")
    /\ Becomes(p, [job[p] EXCEPT !.pc = "reconcile", !.app = Resolved(carriers)])
    /\ UNCHANGED <<serverVars, offer, yaml, row, left>>

Reconcile(p) ==
    /\ At(p, "reconcile")
    /\ IF job[p].yaml.tracked
       THEN /\ row' = Upserted(row, job[p].app, job[p].yaml)
            /\ IF job[p].cmd = "status" THEN Finish(p) ELSE Goto(p, "index")
       ELSE row' = NoRow /\ Finish(p)
    /\ UNCHANGED <<serverVars, offer, yaml, left>>

-----------------------------------------------------------------------------
(* The plan.                                                               *)

\* Mutant: the run ends on a package whose plan says there is nothing to update.
PlannedByStatus(p, j) ==
    Becomes(p, IF j.cmd = "dry-run" \/ j.status = "UP_TO_DATE" THEN Idle
               ELSE IF j.status = "UPDATE_AVAILABLE" THEN [j EXCEPT !.pc = "verify"]
               ELSE [j EXCEPT !.pc = "link"])

\* What follows the plan of the package: nothing in a dry run, otherwise the
\* verification of an update, and the linking in every case.
Planned(p, j) ==
    Becomes(p, IF j.cmd = "dry-run" THEN Idle
               ELSE IF j.status = "UPDATE_AVAILABLE" THEN [j EXCEPT !.pc = "verify"]
               ELSE [j EXCEPT !.pc = "link"])

\* The statuses decided before the signer is looked at.
EarlyStatus(j, o) ==
    IF j.yaml.paused \/ j.app = NoApp THEN "SKIPPED"
    ELSE IF o.kind = "absent" THEN "NOT_IN_FDROID"
    ELSE IF o.kind = "unresolved" THEN "REJECTED"
    ELSE "NONE"

RefreshIndex(p) ==
    /\ At(p, "index")
    /\ LET early == EarlyStatus(job[p], offer)
       IN  IF early = "NONE"
           THEN Becomes(p, [job[p] EXCEPT !.pc = "signer", !.offer = offer])
           ELSE Planned(p, [job[p] EXCEPT !.status = early])
    /\ UNCHANGED <<serverVars, offer, yaml, row, left>>

\* The row is read, and compared with the candidate...
ReadSigner(p) ==
    /\ At(p, "signer")
    /\ IF row.signer = NoSigner
       THEN Goto(p, "pin")
       ELSE Becomes(p, [job[p] EXCEPT !.pc = "compare",
                                      !.trusted = (row.signer = job[p].offer.signer)])
    /\ UNCHANGED <<serverVars, offer, yaml, row, left>>

\* ... then written, WHERE expected_signer IS NULL.
PinSigner(p) ==
    /\ At(p, "pin")
    /\ UpdateRow([row EXCEPT !.signer = IF @ = NoSigner THEN job[p].offer.signer ELSE @])
    /\ Becomes(p, [job[p] EXCEPT !.pc = "compare", !.trusted = TRUE])
    /\ UNCHANGED <<serverVars, offer, yaml, left>>

\* Mutant: a mismatch is recorded but does not reject.
PlanStatusUnsigned(j, vs) ==
    IF \E v \in vs : j.offer.code <= v.code THEN "UP_TO_DATE" ELSE "UPDATE_AVAILABLE"

PlanStatus(j, vs) ==
    IF ~j.trusted THEN "REJECTED"
    ELSE IF \E v \in vs : j.offer.code <= v.code THEN "UP_TO_DATE"
    ELSE "UPDATE_AVAILABLE"

Compare(p) ==
    /\ At(p, "compare")
    /\ UpdateRow([row EXCEPT !.seen = job[p].offer.code])
    /\ Planned(p, [job[p] EXCEPT !.entryApp = job[p].app,
                                 !.status = PlanStatus(job[p], VersionsOf(job[p].app))])
    /\ UNCHANGED <<serverVars, offer, yaml, left>>

\* Unreadable versions: the entry keeps no application.
CompareUnreadable(p) ==
    /\ At(p, "compare")
    /\ Spend("fault")
    /\ Planned(p, [job[p] EXCEPT !.status = "SKIPPED"])
    /\ UNCHANGED <<serverVars, offer, yaml, row>>

-----------------------------------------------------------------------------
(* Verification and publication of an update.                              *)

VerifyApks(p) ==
    /\ At(p, "verify")
    /\ Becomes(p, [job[p] EXCEPT !.pc = "prepare", !.verified = TRUE])
    /\ UNCHANGED <<serverVars, offer, yaml, row, left>>

RejectApks(p) ==
    /\ At(p, "verify")
    /\ Spend("fault")
    /\ Becomes(p, [job[p] EXCEPT !.pc = "link", !.status = "REJECTED"])
    /\ UNCHANGED <<serverVars, offer, yaml, row>>

Publishes(p, outcome) == Becomes(p, [job[p] EXCEPT !.pc = "link", !.outcome = outcome])

\* Mutant: only the very version last created is recognised.
AlreadyCreatedExactly(r, code) == r.created = code

AlreadyCreated(r, code) == r.created >= code

Prepare(p) ==
    /\ At(p, "prepare")
    /\ IF ~job[p].verified \/ AlreadyCreated(row, job[p].offer.code) \/ ~job[p].offer.urls
       THEN Publishes(p, "SKIPPED")
       ELSE Goto(p, "versions")
    /\ UNCHANGED <<serverVars, offer, yaml, row, left>>

\* Mutant: a version entered without a code is not seen as a homonym.
SameNameWithCode(vs, name) == \E v \in vs : v.name = name /\ v.code # 0

SameName(vs, name) == \E v \in vs : v.name = name

ReadVersions(p) ==
    /\ At(p, "versions")
    /\ LET vs == VersionsOf(job[p].entryApp)
       IN  IF SameName(vs, job[p].offer.name)
           THEN Publishes(p, "BLOCKED")
           ELSE Becomes(p, [job[p] EXCEPT !.pc = "configurations", !.known = Ids(vs)])
    /\ UNCHANGED <<serverVars, offer, yaml, row, left>>

ReadConfigurations(p) ==
    /\ At(p, "configurations")
    /\ Goto(p, "put")
    /\ UNCHANGED <<serverVars, offer, yaml, row, left>>

\* The PUT is accepted.  Its answer is the row now carrying the name, or is
\* unusable; either way the creation is taken as done.
CreateVersion(p) ==
    /\ At(p, "put")
    /\ job[p].entryApp \in carriers
    /\ StoreVersion(job[p].entryApp, job[p].offer.name, job[p].offer.code)
    /\ \E reply \in {0} \cup {v.id : v \in {w \in versions' :
                                  w.app = job[p].entryApp /\ w.name = job[p].offer.name}} :
          Becomes(p, [job[p] EXCEPT !.pc = "record", !.reply = reply])
    /\ UNCHANGED <<offer, yaml, row, left>>

\* The PUT is accepted and its answer never comes: reported as a refusal.
CreateVersionLost(p) ==
    /\ At(p, "put")
    /\ job[p].entryApp \in carriers
    /\ Spend("lostPut")
    /\ StoreVersion(job[p].entryApp, job[p].offer.name, job[p].offer.code)
    /\ Publishes(p, "FAILED")
    /\ UNCHANGED <<offer, yaml, row>>

\* Mutant: the signer is bound to the column of the code.
RecordCreatedSigner(p) ==
    /\ At(p, "record")
    /\ UpdateRow([row EXCEPT !.created = job[p].offer.signer])
    /\ Publishes(p, "CREATED")
    /\ UNCHANGED <<serverVars, offer, yaml, left>>

\* Mutant: the last version seen is recorded instead of the one created.
RecordCreatedSeen(p) ==
    /\ At(p, "record")
    /\ UpdateRow([row EXCEPT !.created = row.seen])
    /\ Publishes(p, IF job[p].reply \in job[p].known THEN "REWRITTEN" ELSE "CREATED")
    /\ UNCHANGED <<serverVars, offer, yaml, left>>

RecordCreated(p) ==
    /\ At(p, "record")
    /\ UpdateRow([row EXCEPT !.created = job[p].offer.code])
    /\ Publishes(p, IF job[p].reply \in job[p].known THEN "REWRITTEN" ELSE "CREATED")
    /\ UNCHANGED <<serverVars, offer, yaml, left>>

\* Mutant: the progress is recorded before the outcome of the PUT is known.
PublishFailsRecorded(p) ==
    /\ job[p].pc \in {"versions", "configurations", "put"}
    /\ Spend("fault")
    /\ UpdateRow([row EXCEPT !.created = job[p].offer.code])
    /\ Publishes(p, "FAILED")
    /\ UNCHANGED <<serverVars, offer, yaml>>

\* A read fails, the PUT is refused, or the application is gone.
PublishFails(p) ==
    /\ job[p].pc \in {"versions", "configurations", "put"}
    /\ IF job[p].entryApp \in carriers THEN Spend("fault") ELSE UNCHANGED left
    /\ Publishes(p, "FAILED")
    /\ UNCHANGED <<serverVars, offer, yaml, row>>

-----------------------------------------------------------------------------
(* Linking, whatever the plan and the publication gave.                    *)

LinkApp(j, r) == IF j.entryApp # NoApp THEN j.entryApp ELSE r.app

LinkOne(p) ==
    /\ At(p, "link")
    /\ IF /\ AwaitingApproval(row)
          /\ row.auto
          /\ LinkApp(job[p], row) # NoApp
       THEN Becomes(p, [job[p] EXCEPT !.pc = "resolve", !.code = row.created,
                                      !.linkApp = LinkApp(job[p], row)])
       ELSE Finish(p)
    /\ UNCHANGED <<serverVars, offer, yaml, row, left>>

\* Mutant: any version of the application is taken for the one to link.
ResolveAnyVersion(p) ==
    /\ At(p, "resolve")
    /\ \E v \in VersionsOf(job[p].linkApp) :
          Becomes(p, [job[p] EXCEPT !.pc = "installing", !.target = v.id])
    /\ UNCHANGED <<serverVars, offer, yaml, row, left>>

\* The first version with the code, in the server's order.
ResolveVersion(p) ==
    /\ At(p, "resolve")
    /\ LET found == {v \in VersionsOf(job[p].linkApp) : v.code = job[p].code}
       IN  \/ found = {} /\ Finish(p)
           \/ \E v \in found :
                 Becomes(p, [job[p] EXCEPT !.pc = "installing", !.target = v.id])
    /\ UNCHANGED <<serverVars, offer, yaml, row, left>>

ReadInstalling(p) ==
    /\ At(p, "installing")
    /\ Becomes(p, [job[p] EXCEPT !.pc = "rows",
                                 !.installing = InstallingConfs(job[p].linkApp)])
    /\ UNCHANGED <<serverVars, offer, yaml, row, left>>

\* Mutants: the action is taken to be inherited; every row is sent to install;
\* the requested uninstalls are left out.
LinksInherited(rows, installing) == {r \in rows : r.action # 0}
LinksEverywhere(rows, installing) ==
    {r \in rows : r.action = 2}
    \cup {[r EXCEPT !.action = 1] : r \in {s \in rows : s.action # 2}}
LinksInstalledOnly(rows, installing) ==
    {[r EXCEPT !.action = 1] : r \in {s \in rows : s.action # 2 /\ s.conf \in installing}}

LinksToSend(rows, installing) ==
    {r \in rows : r.action = 2}
    \cup {[r EXCEPT !.action = 1] :
              r \in {s \in rows : s.action # 2 /\ s.conf \in installing}}

ReadRows(p) ==
    /\ At(p, "rows")
    /\ LET read == RowsOf(job[p].target)
           sent == LinksToSend(read, job[p].installing)
           next == IF \E r \in sent : r.action = 1 THEN "post" ELSE "pushed"
       IN  Becomes(p, [job[p] EXCEPT !.pc = next, !.rows = read])
    /\ UNCHANGED <<serverVars, offer, yaml, row, left>>

TargetExists(p) == job[p].target \in Ids(VersionsOf(job[p].linkApp))

SendLinks(p) ==
    /\ At(p, "post")
    /\ TargetExists(p)
    /\ StoreLinks(job[p].linkApp, job[p].target,
                  LinksToSend(job[p].rows, job[p].installing))

PostLinks(p) ==
    /\ SendLinks(p)
    /\ Goto(p, "pushed")
    /\ UNCHANGED <<offer, yaml, row, left>>

PostLinksLost(p) ==
    /\ SendLinks(p)
    /\ Spend("lostPost")
    /\ Finish(p)
    /\ UNCHANGED <<offer, yaml, row>>

\* Mutant: the last version seen is recorded instead of the one linked.
RecordPushedSeen(p) ==
    /\ At(p, "pushed")
    /\ UpdateRow([row EXCEPT !.pushed = row.seen])
    /\ Finish(p)
    /\ UNCHANGED <<serverVars, offer, yaml, left>>

RecordPushed(p) ==
    /\ At(p, "pushed")
    /\ UpdateRow([row EXCEPT !.pushed = job[p].code])
    /\ Finish(p)
    /\ UNCHANGED <<serverVars, offer, yaml, left>>

LinkFails(p) ==
    /\ job[p].pc \in {"resolve", "installing", "rows", "post"}
    /\ IF At(p, "post") /\ ~TargetExists(p) THEN UNCHANGED left ELSE Spend("fault")
    /\ Finish(p)
    /\ UNCHANGED <<serverVars, offer, yaml, row>>

-----------------------------------------------------------------------------
(* Failed and interrupted runs.                                            *)

\* The applications or the index cannot be read: the run is FAILED.
AbortRun(p) ==
    /\ job[p].pc \in {"list", "index"}
    /\ Spend("fault")
    /\ Finish(p)
    /\ UNCHANGED <<serverVars, offer, yaml, row>>

\* The process dies, or an exception sync does not catch leaves it.
Crash(p) ==
    /\ ~At(p, "idle")
    /\ Spend("crash")
    /\ Finish(p)
    /\ UNCHANGED <<serverVars, offer, yaml, row>>

-----------------------------------------------------------------------------
(* The world around: F-Droid and the operators.                            *)

FDroidOffers ==
    /\ Spend("offer")
    /\ \E o \in Offers \ {offer} : offer' = o
    /\ UNCHANGED <<serverVars, yaml, row, job>>

Operates(move) == move \in OperatorMoves /\ Spend("operator")

EditYaml ==
    /\ Operates("yaml")
    /\ \E e \in Entries \ {yaml} : yaml' = e
    /\ UNCHANGED <<serverVars, offer, row, job>>

OperatorCreates ==
    /\ Operates("create")
    /\ \E a \in carriers, o \in OperatorVersions : StoreVersion(a, o.name, o.code)
    /\ UNCHANGED <<offer, yaml, row, job>>

\* A version is renamed, or given another code, in the panel.
OperatorEdits ==
    /\ Operates("edit")
    /\ \E v \in versions, o \in OperatorVersions :
          /\ \A w \in VersionsOf(v.app) \ {v} : w.name # o.name
          /\ versions' = (versions \ {v}) \cup {[v EXCEPT !.name = o.name, !.code = o.code]}
    /\ UNCHANGED <<carriers, links, latest, nextId, offer, yaml, row, job>>

\* A version no configuration uses is deleted.
OperatorDeletes ==
    /\ Operates("delete")
    /\ \E v \in versions :
          LET rest == versions \ {v}
          IN  /\ v.id \notin {l.ver : l \in links}
              /\ versions' = rest
              /\ \/ /\ TopRanked(v.app, rest) = {}
                    /\ latest' = [latest EXCEPT ![v.app] = 0]
                 \/ \E top \in TopRanked(v.app, rest) :
                       latest' = [latest EXCEPT ![v.app] = top.id]
    /\ UNCHANGED <<carriers, links, nextId, offer, yaml, row, job>>

\* What the panel posts when the action of one configuration changes.
PanelRows(ver, c, action) ==
    {[conf |-> c, action |-> action]}
    \cup {r \in RowsOf(ver) : r.conf # c /\ r.action # 0}

\* The panel's own way to approve, or to go back to another version.
OperatorInstalls ==
    /\ Operates("install")
    /\ \E v \in versions, c \in Confs :
          StoreLinks(v.app, v.id, PanelRows(v.id, c, 1))
    /\ UNCHANGED <<offer, yaml, row, job>>

\* An uninstall is requested on a version.
OperatorUninstalls ==
    /\ Operates("uninstall")
    /\ \E v \in versions, c \in Confs :
          StoreLinks(v.app, v.id, PanelRows(v.id, c, 2))
    /\ UNCHANGED <<offer, yaml, row, job>>

\* Another application of the same package appears, or one is removed with its
\* versions and links.
OperatorAddsApp ==
    /\ Operates("app")
    /\ \E a \in Apps \ carriers : carriers' = carriers \cup {a}
    /\ UNCHANGED <<versions, links, latest, nextId, offer, yaml, row, job>>

OperatorRemovesApp ==
    /\ Operates("app")
    /\ \E a \in carriers :
          /\ carriers' = carriers \ {a}
          /\ versions' = versions \ VersionsOf(a)
          /\ links' = links \ LinksOf(a)
          /\ latest' = [latest EXCEPT ![a] = 0]
    /\ UNCHANGED <<nextId, offer, yaml, row, job>>

-----------------------------------------------------------------------------

Plan(p) ==
    \/ ListApplications(p) \/ Reconcile(p) \/ RefreshIndex(p)
    \/ ReadSigner(p) \/ PinSigner(p) \/ Compare(p) \/ CompareUnreadable(p)

Publish(p) ==
    \/ VerifyApks(p) \/ RejectApks(p) \/ Prepare(p) \/ ReadVersions(p)
    \/ ReadConfigurations(p) \/ CreateVersion(p) \/ CreateVersionLost(p)
    \/ RecordCreated(p) \/ PublishFails(p)

LinkUp(p) ==
    \/ LinkOne(p) \/ ResolveVersion(p) \/ ReadInstalling(p) \/ ReadRows(p)
    \/ PostLinks(p) \/ PostLinksLost(p) \/ RecordPushed(p) \/ LinkFails(p)

RunStep(p) == Plan(p) \/ Publish(p) \/ LinkUp(p) \/ AbortRun(p)

Operator ==
    \/ EditYaml \/ OperatorCreates \/ OperatorEdits \/ OperatorDeletes
    \/ OperatorInstalls \/ OperatorUninstalls \/ OperatorAddsApp \/ OperatorRemovesApp

Next ==
    \/ \E p \in Proc : \E cmd \in Commands[p] : StartRun(p, cmd)
    \/ \E p \in Proc : RunStep(p) \/ Crash(p)
    \/ FDroidOffers
    \/ Operator

Spec == Init /\ [][Next]_vars

\* The timer starts sync --apply again and again, and a started run goes on.
Fairness == \A p \in Proc :
    /\ "apply" \in Commands[p] => SF_vars(StartRun(p, "apply"))
    /\ WF_vars(RunStep(p))

FairSpec == Spec /\ Fairness

=============================================================================
