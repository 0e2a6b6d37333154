# Verification of fdroid-headwind-mirror

TLA+ models of the service that mirrors F-Droid updates into Headwind MDM, the
TLC runs that check them on small instances, and TLAPS proofs of what holds for
every instance. Paths are relative to the repository.

- [The system](#the-system), part by part, with what makes it hard and what must hold of it
- [The models](#the-models): which module stands for which code
- [The runs](#the-runs): what each one asks, its bounds, the fairness it assumes
- [What the code does not keep](#what-the-code-does-not-keep)
- [The proofs](#the-proofs)
- [What is left out](#what-is-left-out) and [the plan](#the-plan)

## The system

`fhm` is a command line: `status`, `sync --dry-run`, `sync --apply`, `report`,
`prune`. A systemd timer (`deploy/`) starts `sync --apply` every day; operators
type the others, and nothing (no lock file, no check of running runs) keeps two
of them from running at once. A run is one sequential process over three
stores: the SQLite database, the index cache file, and the Headwind server,
which operators change through its own panel meanwhile.

| Component | State it keeps | Operations | Must hold |
| --- | --- | --- | --- |
| Run orchestration, `cli.py` | none across runs | reconcile, refresh the index, plan, verify, publish, link; abort on a fatal error | the phases of all packages in this order; a failed package does not stop the others; every run is closed, with its errors counted |
| Reconciler, `domain/reconciler.py` | rows of `tracked_package` | upsert the declared packages, delete the dropped ones, resolve the application | exactly one application, or none is chosen; progress survives the upsert |
| Planner, `domain/planner.py` | `expected_signer`, `last_seen_version_code` | pin or compare the signer, compare with Headwind's newest code | a mismatch rejects; the first signer pinned stays |
| Verifier, `domain/verifier.py`, `fdroid/download.py` | APK store | download beside the final name, hash, rename, or reuse | nothing is published that the run did not hash |
| Publisher, `domain/publisher.py` | `last_created_version_code` | re-read versions and links, PUT, record | never twice, never over a homonym, never an older one |
| Linker, `domain/linker.py` | `last_pushed_version_code` | find the version by code, read who installs the application, POST the links, record | devices only move forward, uninstalls are kept, everything created ends up linked |
| State repository, `state/repository.py` | `state.db` | one transaction per update | the two codes are a ledger: pushed ≤ created |
| Index cache, `fdroid/cache.py`, `fdroid/merge.py` | `index-cache.json` | load, 304, diff, full index, save | what the planner reads is what the repository published |
| F-Droid client, `fdroid/client.py` | none | `entry.json` with ETag, files checked by hash | no file of another index is taken |
| Resolver, `fdroid/resolver.py` | none | the candidate of a package | one APK per target ABI, each the best there is; a marker (code, signer) that stays put |
| Headwind client, `headwind/` | a session | the REST calls | a refused write and an unusable answer are told apart |
| Report, `reporting/report.py` | none; reads `sync_run`, `sync_event` | the last run and its errors, an exit code | it speaks of one run; an unhealthy run is seen |
| Migrations, `state/repository.py` | `schema_migration` | apply the SQL scripts | nobody works on half a schema |

The interactions that matter: the planner's decisions are used after the
download of the APKs, which takes minutes; the publisher and the linker read
the server, then write what they computed from it; the write to Headwind and
its record in the database are two steps; the linker works from the ledger
alone, whatever the plan says; two runs share the database row and the cache
file; Headwind itself moves configurations marked `autoUpdate` and ranks
versions by their name, as text.

What is hard to test in this, and which property covers it, is the list
`hazards` of `PROJECT.json`: crashes and lost answers between the two stores,
answers gone stale before they are used, overlapping runs, retries, operators
working at the same time, the file written in place, diffs against the wrong base.

## The models

### Headwind

`Headwind` is the server: `carriers` (the applications of the package),
`versions`, `links` (configuration, version, action), `latest`
(`latestVersion`), `nextId`. It is external: its writes come from how `src/`
uses the API and from the notes on the server in `docs/architecture.md`. A PUT
with a new name inserts a row, recomputes the latest version by the *textual*
order of the names (`Rank`) and moves the `autoUpdate` configurations if the
new one won; a PUT with a known name rewrites the row in place and keeps its
links. A POST replaces the links of the version and, where it installs, drops
those of the other versions save requested uninstalls.

### Sync

`Sync` follows **one tracked package** through any number of runs of any number
of processes. `row` is its row of `tracked_package` (a code of 0 is NULL),
`yaml` its entry in `packages.yaml`, `offer` what the current index resolves it
to, `job[p]` the local state of process `p`, `left` how many disturbances
(crashes, faults, lost answers, operator moves, index moves) may still happen.

Each remote call and each committed transaction is a step, and what it returned
stays in `job[p]` until it is used:

| Phase | Actions | Code |
| --- | --- | --- |
| Start | `StartRun` (reads `packages.yaml`), `ListApplications`, `Reconcile` | `cli.py` status, sync; `reconciler.py` |
| Plan | `RefreshIndex`, `ReadSigner`, `PinSigner`, `Compare`, `CompareUnreadable` | `planner.py` `_plan_one`, `_check_signer`, `_status` |
| Verify | `VerifyApks`, `RejectApks` | `verifier.py` |
| Publish | `Prepare`, `ReadVersions`, `ReadConfigurations`, `CreateVersion`, `CreateVersionLost`, `RecordCreated`, `PublishFails` | `publisher.py` |
| Link | `LinkOne`, `ResolveVersion`, `ReadInstalling`, `ReadRows`, `PostLinks`, `PostLinksLost`, `RecordPushed`, `LinkFails` | `linker.py` |
| Stop | `AbortRun` (the run is FAILED), `Crash` (the process dies, anywhere) | `cli.py` `_fail` |
| Around | `FDroidOffers`, `EditYaml`, `OperatorCreates`, `...Edits`, `...Deletes`, `...Installs`, `...Uninstalls`, `...AddsApp`, `...RemovesApp` | outside `src/` |

Abstractions, and why they are sound for the properties:

- The other packages of a run only interleave steps that leave this package's
  row, versions and links alone: stuttering. The phases are per run in the code
  and the package goes through them in the same order.
- The refresh of the index is one atomic read of `offer`. That a refresh,
  with its cache and its diffs, answers exactly what was published at one
  moment of it is what `IndexCache` shows (`ImplementsReads`).
- `Compare` joins the read of the versions with the update of
  `last_seen_version_code`, which no decision of the code ever reads.
- Downloads, hashes and URLs are outcomes: verified or not, complete or not.
- Events, run accounting and wording are not there.
- A crash resets the process and nothing else: SQLite transactions are atomic.

`SyncProperties` holds the properties, `MCSync` the instances.

`PackageLedger` is what the row promises, with no run, call or fault: tracked,
pinned once, created upwards, linked up to the last creation, forgotten with the
declaration. `ImplementsLedger` maps the row to it.

### IndexData, IndexCache, IndexReads

`IndexData` is the index as data: JSON objects as functions, `Project`
(`cache.project`), `MergeDiff` (`merge.merge_diff`), and `DiffOf`, the diffs
the repository publishes. Nesting is cut at the package: its fields are flat
keys that stand for paths, `Kept` for those `METADATA_KEYS` and `VERSION_KEYS`
keep.

`IndexCache` is `refresh_index`: `StartRefresh` loads the file, `FetchEntry` is
the conditional request, then `ServeUnchanged` (304), `KeepPayload` (same
timestamp), `FetchDiff`, `FetchIndex` or `RejectFile` (the hash does not match:
the repository moved on since `entry.json`), `TruncateFile` and `WriteFile`
(`write_text`, in place: two writers may leave a mix), `EndRefresh`. The
repository publishes and mirrors lag (`Publish`, `MirrorLags`) between any two
of them.

`IndexReads` is the abstract specification: no cache, no diff, no file. A
process asks for some packages, remembers which index `entry.json` described,
and is answered the projection of that index, or gives up.
`IndexCacheProperties` maps `IndexCache` to it (`ReadOf`): the abstract read
starts when the entry is fetched, and is answered when the payload is served.

### Resolver, ApkStore

`Resolver` is the choice of the candidate as operators: the usable versions
(stable, without a blocked anti-feature, one signer), the target ABIs that some
of them serve (`Served` is their places, `Ascending` their order, `Retained` the
targets there), the `Best` version of each, the group marked with
the code, signer and kind of its first APK (`Resolve`), and the fields of
Headwind it fills (`Urls`), which come out empty when the publisher skips the
version. A version is its place in `Catalog`, the order an index lists them in.

`ApkStore` is the life of those APKs on disk. A run resolves the candidate and
reads the pinned signer (`CheckSigner`), pins one if there was none
(`PinSigner`, which another run may have done in between), and compares the
candidate with what Headwind holds (`Compare`, or `NothingToDo`). Then for each
artefact `Reuse` (the final file hashes to what is wanted), or `OpenPart`,
`WriteChunk` and `Replace`; then `Publish`. Names are shared: by processes,
and by two versions with one code. A process that has opened a file goes on
writing to it after another has renamed it (`handle` follows the file:
`part`, `final`, `gone`) and hashes the bytes that came, not those of the file.
`LoseRename` is the exception of a rename whose source is gone, `RejectApk` a
wrong hash or size or a transport error. Both only lead to `CleanUp`, the
`unlink` of the `except` clause (`download.py:85`): a later step, by name, which
may remove the file another process has opened since. The index, the target
ABIs and the versions in Headwind move (`FDroidMoves`, `OperatorRetargets`,
`OperatorEdits`).

Abstractions: the reads of the publisher, the PUT and its record are one step
here, with a PUT that is refused or whose answer is lost, and what happens
between them is in `Sync`; a version of F-Droid is named by its code, so that a
homonym is one an operator entered. A run whose signer is not the pinned one
does nothing at all, which is `CheckSigner` not being enabled.

`ApkStoreProperties` holds the properties of both, `MCApkStore` the catalog.

### Migrations, RunLog

`Migrations` is the opening of `state.db`: `Connect` reads what was applied,
`ExecuteStatement` runs a script one statement at a time (`executescript`
commits, so a script is not a transaction), `StatementFails` when a table is
there already, `RecordMigration` (a primary key: the second one fails). Several
processes do it at once and die anywhere.

`RunLog` is the history: `sync_run`, the ERROR rows of `sync_event`, and what
every command writes and reads of them, over a database that each process
migrates as it opens it. The phases are those of `Sync`, seen for what they may
record and how they count it: `Reconcile`, `Plan`, `Verify`, `Publish` and
`Link` handle the packages one after the other with any of the outcomes the
code has, and `Finish`, `Abort` and `Fail` close the run with
`Errors`. `ReadHistory` and `ReadErrors` are the report, in two transactions;
`Prune` deletes.

Abstractions: events below ERROR are left out; the codes an event may have are
those that properties tell apart (`publish.aborted` counts as `publish.failed`,
the fatal codes of Headwind as `headwind.unusable`); `last_sync_run` orders by
date, the model by id, which grows with it; `prune` names a date a day back at
least, so no process is still in a run it deletes.

`RunLogProperties` holds the properties, `MCRunLog` the two scripts of
`state/migrations`.

## The runs

| Run | Question | Checks |
| --- | --- | --- |
| `core` | one run at a time, every command, every fault, one crash, moving index, edited `packages.yaml`; versions entered by hand without a code | `CreatedExists`, `PushedIsDelivered`, `RunMatchesRow`, `RunMatchesServer`, `ImplementsLedger`, `PublicationGuarded`, `InstallersStable`, `NoDowngrade`, `NoUnapprovedDelivery`, types |
| `operators` | operators act in the panel between any two calls of a run | `LedgerOrdered`, `LedgerNeverRewinds`, `PostKeepsUninstalls` |
| `overlap` | two `sync --apply` at once, one may crash | `CreatedExists`, `InstallersStable` |
| `linked` | what eventually happens to a version | `CreatedGetsLinked`, `ArrivesUnlessLost` |
| `index_cache` | two refreshes that may overlap, one crash, one lagging mirror, any packages tracked | `FileIsCoherent`, `ImplementsReads`, types |
| `artifacts` | the timer's runs and an operator's verification on the same files, a moving index, target list and Headwind, faults and kills | `MarkerStable`, `UrlsServeTargets`, `NewVersionsNeverLower`, `PublishesWhatItHashed`, `NoPartialLeft`, `PublishedInTheEnd`, types |
| `run_log` | the timer's runs beside an operator's commands, from the first start on an empty database, one crash | `OpenIsMigrated`, `DatabaseOpens`, `CleanRunsAreClean`, `FinishedRunsStay`, `ReportIsOneRun`, `RunsEnd`, types |
| `lost_reply`, `uninstall_race`, `pin_race`, `stale_link`, `report_errors` | see [below](#what-the-code-does-not-keep) | one documented promise each, violated |

Reading of the main ones:

- `CreatedExists`: what the ledger calls created is in Headwind under that
  code, so linking, which looks versions up by code, finds it in any later run.
- `PushedIsDelivered`: once a version is recorded as linked no configuration
  installs an older one. It relates the ledger to the server through the whole
  chain of reads, POST, lost answers and "nothing to link".
- `RunMatchesServer`: what a run read in Headwind is still what Headwind holds
  at the PUT and at the POST, whatever earlier runs left there.
- `NoDowngrade`: what a configuration gets is newer than all it installed. The one
  exception is a ledger that lost track of a creation, which `stale_link` shows.
- `PublicationGuarded`: what the plan decided before minutes of download is
  still true of the database when the PUT is accepted.
- `NoUnapprovedDelivery`: with `auto_approve: false` a run changes nothing for
  devices outside `autoUpdate` configurations, not even by rewriting in place
  the version they are on.
- `PostKeepsUninstalls`: a POST loses at most the uninstalls requested on the
  very target after its rows were read.
- `LedgerNeverRewinds`: retries, crashes and older offers never lower the ledger.
- `MarkerStable`, `UrlsServeTargets`: the candidate is chosen one ABI at a time;
  widening the targets must not move the package to another version, and every
  target must find in its field the newest APK it can install.
- `PublishesWhatItHashed`: nobody publishes on the word of a file an earlier or
  overlapping run left under the same name.
- `NoPartialLeft`: while nothing is killed, whatever order renames, truncations
  and late removals of one name come in, a partial file is somebody's.
- `PublishedInTheEnd`: a candidate that nothing else stands in the way of
  (`Publishable`: its signer, the codes and names in Headwind, the fields)
  is published, whatever files were left behind. Its premise says what the
  code cannot promise, see [below](#what-the-code-does-not-keep).
- `OpenIsMigrated`: of racing first starts, none works on a part of the schema.
- `CleanRunsAreClean`: the errors of a run are added up from three summaries
  and recorded elsewhere; none of those meant to be counted escapes the sum.

**Bounds.** One application with a second one to make the package ambiguous;
two configurations, one with `autoUpdate`; three names and codes (installed,
next, newest), whose names rank as their codes in `core` and `stale_link` and
elsewhere as text, so that the newest is *not* the latest; two signers. The initial servers have the application installed in one or both
configurations, with or without a version lacking a code. `Budget` bounds the
disturbances per kind (`MCSync`); runs themselves are not bounded: every
process may run again for ever, the state space is closed. Two offers in a row
and two versions created are enough for an older record to meet a newer one;
one crash or lost answer at any step, followed by full runs, covers recovery; two processes cover
every race between a read and a write of the same item. `index_cache` uses two packages, two
kept keys and one dropped, indexes that differ by a package, a key, a value or
all of it, and a history of two. A third index would only add the case of a
cache too old for a diff: what is then fetched, the full index with a cache at
hand, also happens when a mirror lags; and the proofs hold for any history.
`artifacts`: an APK is two chunks, enough to be torn in the middle; seven
versions (a universal one, a group split in two, one of its APKs signed anew
under the same code, one without a single signer, a prerelease), three target
lists, a version operators may enter (a homonym without a code), two processes, two
disturbances of any kind. `run_log`: both scripts
statement by statement, two processes, one package (the proofs hold for any
number), two runs, one crash.

**Fairness** (`linked`, `lost_reply`, `run_log`, `artifacts`). Strong fairness
of the start of `apply`: the timer fires every day and `Persistent=true`
catches up; strong because an operator's command may hold the process in
between. Weak fairness of the steps of a run: it is sequential code with
timeouts on every call, so it goes on or fails. In `artifacts` only the timer's
runs are fair: a run that only verifies may never start, or stop anywhere for ever,
a file open in its hand. Nothing is assumed of operators, F-Droid, faults or
crashes, save that a bound makes them finite.

Deadlock is checked wherever an idle process can start again. In `artifacts` a
run whose candidate is missing, or of another signer than the pinned
one, does nothing: once the disturbances are spent, the system may stop.

`PROJECT.json` gives for every property a mutant of the code, a definition
with a plausible bug, under which the run reports a violation.

## What the code does not keep

Each is a run that TLC ends with a counterexample, listed under `findings`.

- `lost_reply`: when the answer of an accepted PUT is lost the version is in
  Headwind and not in the ledger. The next plans say UP TO DATE, the linker has
  nothing to do, and the candidate never arrives.
- `uninstall_race`: an uninstall requested on the target between the read of
  its rows and the POST is overwritten by an install.
- `pin_race`: two first runs that read different indexes; the second pin
  changes no row, and its run publishes for a signer the database does not hold.
- `stale_link`: a version is created and its linking fails; the next one is
  created, Headwind moves the `autoUpdate` configurations to it, and the answer is
  lost. That run goes on and links the last version the ledger knows, the older
  one, over the newer one (`linker.py:92`; the next run would too), also where
  `docs/architecture.md` says the POST changes nothing.
- `report_errors`: versions that cannot be read are an ERROR event and no error
  of the run: it ends OK, and the report shows the error and exits with 0.

Known limits that are no run of their own: a homonym entered between the last
read and the PUT is rewritten and, its id being unknown, reported as a creation;
a version approved in the panel is reported as awaiting approval for ever, since
nothing reads the links while `auto_approve` is off; a version linked late
replaces a newer one an operator installed by hand; a package paused after its
version was created is linked all the same by the next run, which goes by the
ledger alone (`linker.py:80`). This is why `NoDowngrade`,
`NoUnapprovedDelivery`, `CreatedExists` and `PushedIsDelivered` are checked
while nobody else writes to Headwind.

Two `sync --apply` at once: the slower one may record its older version over
that of the faster one, which is then never linked. `LedgerOrdered` and
`LedgerNeverRewinds` are therefore checked for one run at a time, and proved also
beside runs that do not apply.

The candidate: an APK for all ABIs offered to two target ABIs is two artefacts
with one file, which the publisher skips for ever (`publisher.py:268`);
`armeabi` and `armeabi-v7a` share a field, where the last one wins; the signer
is compared for the first APK of the group only. This is what the exceptions of
`UrlsServeTargets` are.

The files: two downloads of one name may leave a torn file under its final name
(it is hashed before it is used again) and the loser of the rename ends with an
exception; a killed run leaves a partial file that stays if the version is
withdrawn. That loser then removes the partial file by its name, possibly one that
another run has opened since, which loses its rename in turn: two runs that
keep overlapping, a `sync --verify-apk` repeated beside the timer's, may keep each
other from ever finishing. TLC finds that cycle when the premise of
`PublishedInTheEnd`, that runs which only verify clean up after a failure finitely often, is
dropped; such runs may go on for ever as long as they succeed. A candidate of another signer
than the pinned one is never published, by design.

The database: a crash inside a script leaves a schema on which the script
can neither go on nor start again, and nothing opens it until it is repaired by
hand; a run that died stays RUNNING with 0 errors, and its report exits with 0.
These are the premises of `DatabaseOpens` and `RunsEnd`.

## The proofs

`SyncProofs`, `DeliveryProofs` and `OverlapProofs` (about `Sync`), `IndexProofs`
(`IndexCache`), `RunLogProofs` and `MigrationProofs` (`RunLog`),
`ResolverProofs` (lemmas on the operators of `Resolver`) and `ApkProofs`
(`ApkStore`), for every value of the constants: any number of configurations,
versions, packages, processes, runs and disturbances. Assumptions are those the
modules name (`ASSUME`), which TLC evaluates on every run.

| Theorem | States |
| --- | --- |
| `TypeInvariant` | `Spec => []TypeOK` |
| `RunInvariant` | with one run at a time, `RunMatchesRow` and `LedgerOrdered` |
| `Ledger`, `Publication`, `NoRewind` | with one run at a time, `LedgerOrdered`, `PublicationGuarded`, `LedgerNeverRewinds` |
| `LedgerRefined` | with one run at a time, `ImplementsLedger`: the row implements `PackageLedger` |
| `Uninstalls` | `PostKeepsUninstalls`, whatever the number of processes |
| `Delivery` | the invariant of the five below: ledger, server and runs agree |
| `ReadsStayTrue`, `CreationsExist`, `LinksDelivered` | while one run at most applies and nobody else writes to Headwind, `RunMatchesServer`, `CreatedExists`, `PushedIsDelivered` |
| `LedgerBeside` | likewise, `LedgerOrdered` and `LedgerNeverRewinds`, now beside any number of `status` and dry runs |
| `NeverDowngraded` | likewise, `NoDowngrade` |
| `ApprovalRespected` | with one run at a time and nobody else writing to Headwind, `NoUnapprovedDelivery` |
| `Overlapping` | while nobody else writes to Headwind, the invariant of the two below, for any number of runs that apply at once |
| `InstallersStay` | likewise, `InstallersStable` |
| `CreationsStay` | likewise, `CreatedExists`, if the index gives a version name to one code (`NamesTellCodes`) |
| `DiffsAreExact` | projecting a diff and merging it into the projected old index gives the projected new one |
| `CoherentFile` | `FileIsCoherent`, whatever overlaps and crashes |
| `CacheTypes` | `TypeOK` of the cache |
| `RefreshImplementsRead` | `Spec => ImplementsReads`, the refinement |
| `LogTypes`, `CountsAreHonest`, `ReportsOneRun`, `HistoryStays` | of the history: `TypeOK`, `CleanRunsAreClean`, `ReportIsOneRun`, `FinishedRunsStay` |
| `OpensMigrated` | `OpenIsMigrated`, for scripts that are `DropsAreFinal` and `FirstMarks` |
| `HashedIsPublished` | `PublishesWhatItHashed`, whatever is left on the disk |
| `ApkTypes` | `TypeOK` of the APK store |
| `PartialsAreWritten` | `NoPartialLeft`, for any number of processes |
| `MarkersAreStable`, `FieldsServeTargets`, `AddedNeverLower` | `MarkerStable`, `UrlsServeTargets`, `NewVersionsNeverLower`, for any catalog, index and targets |

The argument for `Sync`: `LedgerOrdered` is not inductive, since
`RecordPushed` writes a code the run read several calls before. The inductive
invariant `IInv` is `TypeOK /\ LedgerOrdered /\ RunMatchesRow`.
`RunMatchesRow` says what each phase may still rely on: while it plans, that
the row is the one it reconciled and, once compared, has the signer of the
candidate; while it publishes, also that nothing as new was created; while it
links, that `code` is still the last one created. `core` checks it as an
invariant. Each phase has a lemma, one step per action (`PlanInv`,
`PublishInv`, `LinkUpInv`); the action properties follow from it and from the
guard of the action. `OneRun` (any two processes are equal) is a real hypothesis:
two overlapping runs break these facts (`pin_race`). Operators
need none: they do not write the database.

The argument for what is delivered (`DeliveryProofs`) needs the server in the
invariant. The hypotheses are `Sealed` (nobody but the service writes to Headwind;
`packages.yaml` may be edited) and `Alone`: one run at a time, or one process
that may apply beside any number that may not (`OneApplier`), the package then
staying declared (`AlwaysDeclared`), since a dry run that drops the row would
leave the one that applies recording into nothing. `uninstall_race` and the known
limits above show what operators break, and two runs that apply break
`LinkHolds`. Faults, lost answers, crashes, moves of the index and edits of the
other settings are all in. `DeliveryInv` is `TypeOK` with

- `ServerSound`: ids are unique and below `nextId`, links point at versions, and
  versions belong to the application that carries the package;
- `RunSound` of every process: the application it works on is still the resolved
  one, only `apply` goes past the plan, the codes it works with follow the
  ledger, and `PublicationReads` and `LinkReads`;
- `LedgerSound`: `LedgerOrdered`, `CreatedExists`, `PushedIsDelivered`, and
  `RowSound`: no uninstall is requested on the version recorded as created
  (`Clean`), and it is the newest as long as nothing was lost (`CaughtUp`).

None of these is inductive alone. `PublicationReads` makes every PUT an insertion
of a strictly newer version, never a rewriting, so `InsertInstalled` bounds what
it moves and `CreatedExists` keeps its witness. `Clean` is what makes the rows
posted install wherever the application is installed (`SentRows`): a version that
starts without an uninstall never gets one from the service. Then
`PostInstalled` gives `PushedIsDelivered` when the record is written, and
nothing else changes what is installed until then: `OnlyOneMoves` and
`OthersSound` say that beside one process that applies, the others leave all of it
alone. `NoDowngrade` follows from `CaughtUp`; `NoUnapprovedDelivery` from one more
invariant, `Approved` (with approval off no run is linking), which two overlapping runs break
when `packages.yaml` is edited between their starts. The lemmas come in three layers: the server's
two operations (`Insert...`, `Post...`), each phase of a run (`...Sound`), the
ledger (`...Ledger`).

The argument for runs that overlap (`OverlapProofs`) has to do without what a
run read being what Headwind holds: two runs that apply break `RunMatchesServer`
(`Alone` is what the theorems above it rest on). What is left is what no run can
take away from another, a relation between a state and the next (`Harmless`): no
step of the service requests an uninstall or gives a version on which one is
requested another name or code, and the configurations that install something
stay the same. So what a run read and found free of uninstalls stays so
(`HarmlessKeeps`): the name of its candidate up to the PUT, its target up to the
POST, which is therefore computed from old rows and yet installs where the
application is installed, and only there (`OverlapHolds`). `NameHolds` is one
fact more, for `CreatedExists`: a version that took the name of the candidate
since the names were read has its code. That is where `NamesTellCodes` comes in:
of two runs that saw an index which gave one name to two codes, the second would
rewrite the version of the first, and the code the first one recorded would be
gone. `MCSync` assumes it of its offers.

The argument for the index: the inductive invariant `CacheInv` is
`TypeOK /\ FileIsCoherent /\ RefreshHolds` of every refresh: a loaded file
holds what the index of its timestamp publishes for the packages it lists, and
a computed payload what the index of the entry publishes for the packages
wanted. The one step that is not bookkeeping is `FetchDiff`, by `DiffsAreExact`.
It holds with any number of processes: history is never rewritten, so what
was coherent stays so, and a file mixed up by two writers is not a `Cached`.
For the refinement, `ReadsStep` maps every action to a step of
`IndexReads` or to a stutter.

For the refinement of the ledger every action that leaves the row alone is a
stutter (`RowWriters` says which do not), a dropped package has forgotten
everything, and `RunMatchesRow` turns what a run remembers into what
`PackageLedger` asks: that a key is pinned before a creation, that the creation
is newer, that the code recorded as linked is the last one created.

The argument for the history (`LogInv`): a job owns the run it works on, which
nobody else has closed; up to its end, what was recorded of that run is of the
kinds never counted, or something is there to count (`Counted`); what a report
read of a run that had ended is what there is (`Reported`). The actions come in
a few shapes, each with its lemma: a process goes on with its run (`Progress`,
`Handling`), writes nothing (`Aside`), starts, closes or prunes runs. Types need one more
fact, `Migrating`: who migrates has a script left, so the smallest one exists.

The argument for the opening of the database (`MigrationProofs`): nothing is
locked and no script is a transaction, and yet the database is at any time some
number of whole scripts and the beginning of the next (`Placed`), which at most
one process is at. What takes the place of the lock is the first statement of a
script: once it was executed it fails for anybody else (`NotTwice`), because it
dropped what it asks for or added what nothing drops (`FirstMarks`; here `CREATE
TABLE tracked_package` and `DROP COLUMN mirror`). So a statement that runs is
the next of the whole (`OnlyTheNext`), and a record that is accepted ends the
script for everybody (`Records`). That the next statement then leaves what the
scripts say needs `DropsAreFinal`. Both are conditions to keep when a third
script is written: one that began with `CREATE TABLE IF NOT EXISTS` or an
`UPDATE` would let two processes run it at once. `MCRunLog` assumes them of the
two scripts there are, so that TLC checks them. A process that dies inside a
script leaves the place where it is: nobody opens the database then, and the
theorem still holds.

The argument for the APKs (`HashInv`): what a job hashed so far is, in order,
what its candidate lists. Steps of others change a job only in where its open
file went (`Others`), so nothing is asked of the files.

The types of `ApkStore` need one fact more, `JobOK`: a job on its way to an
artefact, at it, or cleaning up after it has one left, so that `Current` names
one. With it (`ApkInv`) `NoPartialLeft` is inductive: a partial file appears only
when its writer opens it, and a job minds it (`Minds`) until a rename or the
removal that follows a failure has taken the name away. The step that takes work
is that of a third process: `OthersGoOn` says that a rename or a removal changes
nothing of the others but where their handle points.

The choice of the candidate (`ResolverProofs`) is about operators that choose: the
best version (`BestVersion`), the places of the targets that are served, in
order (`AscendingExists`). That the choice exists, for a catalog or a list of
any length, is an induction, and no operator can be given to the library's
induction theorems. It is stated on sets instead: the family of the
counterexamples among the subsets of a finite set would have a smallest member
(`SmallestSubset`), and one element less gives a smaller one.
`AscendingPrefix` (targets added behind come behind), `TargetServed` (who is served has
an artefact, and only one) and `ResolvedCandidate` then give the three theorems,
which are about every index and every list of targets `TypeOK` allows.

Only model-checked: everything temporal beyond safety (`CreatedGetsLinked`,
`ArrivesUnlessLost`, `DatabaseOpens`, `RunsEnd`, `PublishedInTheEnd`: liveness
and ENABLED are out of the prover's reach). Every invariant and every action
property of the runs is a theorem, some of them under the hypotheses of the
table.

## What is left out

Rendering, logging, `tools/parc_inventory.py` and the loading and validation of
settings: I/O with no state of the service. `StateRepository.clear_expected_signer`:
nothing calls it. The authentication and the response envelope of the Headwind client:
a token is taken once per client and never renewed, and whatever goes wrong with either
is the failure of the call, which `Sync` has at every call. What of an index does not validate:
it would be a matter of types that `IndexData` does not carry; such a payload is
saved before it is read, and fails again until the repository publishes.
A second repository behind the one cache file: after `repo.url` changes, ETags and
timestamps of one are compared with those of the other, and meet only by accident.
The file names of two packages never meet, so `ApkStore` follows one package.

## The plan

Done: `Headwind`, `Sync`, `PackageLedger`; `IndexData`, `IndexCache`,
`IndexReads`; `Resolver`, `ApkStore`; `Migrations`, `RunLog`; their runs; the
proofs above. Left, in this order:

1. Proofs: which of the delivery results survive operators who only move
   configurations forward.
2. `HeadwindClient`: authentication once per client, the envelope, what is a
   refusal and what an unusable answer.
3. In `IndexCache`: payloads that do not validate, and a second repository.
