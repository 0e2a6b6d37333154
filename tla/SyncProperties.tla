--------------------------- MODULE SyncProperties ---------------------------
(***************************************************************************)
(* What the service promises of one tracked package, and what its          *)
(* documentation promises and the code does not keep.                      *)
(***************************************************************************)
EXTENDS Sync

\* Only the processes change job; operators and F-Droid leave it alone.
ServiceStep == job' # job

Puts(p) == CreateVersion(p) \/ CreateVersionLost(p)
Posts(p) == PostLinks(p) \/ PostLinksLost(p)

\* What the devices of a configuration are told to run: version row and code.
Delivered(c) ==
    {<<v.id, v.code>> : v \in {w \in versions :
        [conf |-> c, ver |-> w.id, action |-> 1] \in links}}

\* No run died, and no PUT was accepted without an answer.
Lossless == \A d \in {"crash", "lostPut"} : left[d] = Budget[d]

InstallingNow == {c \in Confs : InstalledCodes(c) # {}}

-----------------------------------------------------------------------------
(* Safety.                                                                 *)

\* The ledger never claims more was linked than was created: link_plan only
\* records the version whose creation was recorded, whatever was dropped,
\* interrupted or retried in between.
LedgerOrdered == row.pushed <= row.created

\* The ledger never goes back: what a run records as created or linked is never
\* older than what an earlier run recorded, unless the package was dropped from
\* packages.yaml in between.
LedgerNeverRewinds ==
    [][row.tracked /\ row'.tracked
         => row'.created >= row.created /\ row'.pushed >= row.pushed]_vars

\* A PUT is accepted only for bytes verified in this run, signed by the pinned
\* key as the database holds it at that very moment, newer than anything the
\* service recorded creating, on the application reconciliation resolved, for a
\* package neither paused nor dropped.
PublicationGuarded ==
    [][\A p \in Proc : Puts(p) =>
          /\ job[p].verified
          /\ row.tracked /\ ~row.paused
          /\ row.signer = job[p].offer.signer
          /\ row.created < job[p].offer.code
          /\ row.app = job[p].entryApp]_vars

\* The index never gives one version name to two codes.
NamesTellCodes ==
    \A o, q \in Offers :
        o.kind = "candidate" /\ q.kind = "candidate" /\ o.name = q.name => o.code = q.code

\* The version recorded as created exists in Headwind under that code, so that
\* linking, which looks it up by its code, finds it in this run or any later.
CreatedExists ==
    row.created # 0 => \E v \in versions : v.code = row.created

\* Once a version is recorded as linked, no configuration installs an older one.
PushedIsDelivered ==
    row.pushed # 0 =>
        \A c \in Confs : \A code \in InstalledCodes(c) : code >= row.pushed

\* While auto_approve is off, no step of the service changes what the devices of
\* a configuration without autoUpdate are told to run, neither by linking nor by
\* rewriting the version they are on.
NoUnapprovedDelivery ==
    [][ServiceStep /\ ~row.auto =>
          \A c \in Confs \ AutoUpdate : Delivered(c)' = Delivered(c)]_vars

\* The service never makes a configuration install the application that did not,
\* nor stop installing it: it only moves those that install it.
InstallersStable == [][ServiceStep => InstallingNow' = InstallingNow]_vars

\* The service never moves a configuration to an older code: what gets installed
\* is newer than whatever the configuration installed.  The one exception is a
\* ledger that lost track of a creation: the last version it knows is then linked
\* over the one Headwind moved the configuration to.
NoDowngrade ==
    [][ServiceStep =>
          \A c \in Confs : \A new \in InstalledCodes(c)' \ InstalledCodes(c) :
              \A old \in InstalledCodes(c) :
                  new > old \/ (new = row.created /\ ~Lossless)]_vars

\* An uninstall requested on another version, or on the target as it was read,
\* survives the POST that replaces the links of the target.
PostKeepsUninstalls ==
    [][\A p \in Proc : Posts(p) =>
          \A l \in links :
              l.action = 2 /\ (l.ver = job[p].target
                                 => [conf |-> l.conf, action |-> 2] \in job[p].rows)
              => l \in links']_vars

\* Through every run, crash, failed or lost call and edit of packages.yaml, the
\* row of a package is a ledger that only moves forward: its key is pinned once
\* and never replaced, nothing is created before it is, creations go upwards, and
\* what is linked is the last creation.
Remembered == INSTANCE PackageLedger WITH
    tracked <- row.tracked, signer <- row.signer,
    created <- row.created, pushed <- row.pushed
ImplementsLedger == Remembered!Spec

-----------------------------------------------------------------------------
(* What a run relies on between its reads and its writes.  With one process *)
(* at a time it is inductive, and carries LedgerOrdered and                *)
(* PublicationGuarded.                                                     *)

Planning == {"index", "signer", "pin", "compare"}
Publishing == {"verify", "prepare", "versions", "configurations", "put", "record"}
Creating == {"versions", "configurations", "put", "record"}
Linking == {"resolve", "installing", "rows", "post", "pushed"}

\* While it plans, the row is the one the run reconciled, its signer the one the
\* run compared.
PlanHolds(j) ==
    /\ j.pc \in Planning => row.tracked /\ row.app = j.app /\ row.paused = j.yaml.paused
    /\ j.pc \in Planning \ {"index"} => ~row.paused
    /\ j.pc = "pin" => row.signer = NoSigner
    /\ j.pc = "compare" /\ j.trusted => row.signer = j.offer.signer

\* While it publishes, the row is still the one the update was planned for, and
\* nothing as new has been recorded as created.
UpdateHolds(j) ==
    /\ j.pc \in Publishing => /\ row.tracked /\ ~row.paused
                              /\ row.app = j.entryApp
                              /\ row.signer = j.offer.signer
    /\ j.pc \in Creating \ {"record"} => j.verified
    /\ j.pc \in Creating => row.created < j.offer.code

\* While it links, the version it links is the last one recorded as created.
LinkHolds(j) == j.pc \in Linking => j.code = row.created

\* What every run goes by is still what the database holds.
RunMatchesRow ==
    \A p \in Proc : PlanHolds(job[p]) /\ UpdateHolds(job[p]) /\ LinkHolds(job[p])

\* While it publishes, nothing in Headwind is as new as the candidate, and, once
\* the names were read, nothing has its name; what it put is still there.
PublicationReads(j) ==
    LET vs == VersionsOf(j.entryApp)
    IN  /\ j.pc \in Publishing \ {"record"} => \A v \in vs : v.code < j.offer.code
        /\ j.pc \in {"configurations", "put"} => \A v \in vs : v.name # j.offer.name
        /\ j.pc = "record" => \E v \in vs : v.code = j.offer.code

\* While it links, the target is the version recorded, and the links are those
\* that were read.
LinkReads(j) ==
    /\ j.pc \in {"installing", "rows", "post"} =>
          \E v \in VersionsOf(j.linkApp) : v.id = j.target /\ v.code = j.code
    /\ j.pc \in {"rows", "post"} => j.installing = InstallingConfs(j.linkApp)
    /\ j.pc = "post" => j.rows = RowsOf(j.target)

\* What every run read in Headwind is still what Headwind holds when it writes.
RunMatchesServer == \A p \in Proc : PublicationReads(job[p]) /\ LinkReads(job[p])

-----------------------------------------------------------------------------
(* Liveness, under Fairness and a finite number of disturbances.           *)

\* If approval stays on, no version recorded as created stays unlinked for ever,
\* however many runs crash or lose an answer on the way.
CreatedGetsLinked ==
    <>[]yaml.auto => []<>(row.created <= row.pushed)

\* "A package whose version Headwind had not adopted is caught up on the next
\* pass": whatever an earlier run left behind, the candidate ends up wherever the
\* application is installed.
CandidateArrives ==
    <>[](\A c \in Confs : \A code \in InstalledCodes(c) : code >= offer.code)

\* If approval stays on, the candidate ends up wherever the application is
\* installed, through failed calls, lost POSTs and detours by manual approval, as
\* long as no run loses track of a creation.
ArrivesUnlessLost == <>[]yaml.auto /\ []Lossless => CandidateArrives

-----------------------------------------------------------------------------
(* What the documentation says.                                            *)

\* "On every run, if the signer of the candidate version differs: rejection, no
\* write to Headwind": no PUT for another key than the one pinned.
PinIsObeyed ==
    [][\A p \in Proc : Puts(p) /\ row.tracked => row.signer = job[p].offer.signer]_vars

\* "For a configuration already moved by the auto-update, [...] the final state is
\* unchanged": no POST changes what is delivered where the latest version is
\* already installed by the auto-update.
AutoUpdatedStay ==
    [][\A p \in Proc : Posts(p) =>
          \A c \in AutoUpdate :
              (\E l \in links : /\ l.conf = c /\ l.action = 1
                                /\ l.ver = latest[job[p].linkApp])
              => Delivered(c)' = Delivered(c)]_vars

\* "A requested uninstall is never undone": no POST drops an uninstall.
UninstallNeverUndone ==
    [][\A p \in Proc : Posts(p) =>
          \A l \in links : l.action = 2 => l \in links']_vars

=============================================================================
