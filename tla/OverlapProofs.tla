---------------------------- MODULE OverlapProofs ----------------------------
(***************************************************************************)
(* What survives when any number of runs publish and link at once, for     *)
(* every value of the constants of Sync, while nobody else writes to       *)
(* Headwind: theorems about SyncProperties, checked by TLAPS.              *)
(*                                                                         *)
(* What a run read is then no longer what Headwind holds, so that the      *)
(* invariant of DeliveryProofs is lost.  The one here keeps what no run    *)
(* can take away from another.                                             *)
(***************************************************************************)
EXTENDS DeliveryProofs

-----------------------------------------------------------------------------
(* The invariant.                                                          *)

\* No uninstall is requested on this version, on the versions of this name.
NoUninstall(id) == \A l \in links : l.ver = id => l.action # 2
FreshName(name) == \A v \in versions : v.name = name => NoUninstall(v.id)

\* The configurations that install something.
InstallsNow == {l.conf : l \in {k \in links : k.action = 1}}

\* The target was read, and its rows with it, where no uninstall is requested;
\* where the application is installed was read, and no run changes that.
TargetHolds(j) ==
    /\ j.pc = "resolve" => Clean(j.code)
    /\ j.pc \in {"installing", "rows", "post"} => NoUninstall(j.target)
    /\ j.pc \in {"rows", "post"} => j.installing = InstallsNow
    /\ j.pc = "post" => /\ \A r \in j.rows : r.action # 2
                        /\ \A c \in Confs : \E r \in j.rows : r.conf = c

\* The candidate has no version on which an uninstall is requested.
CandidateHolds(j) ==
    /\ j.pc \in Publishing => Clean(j.offer.code)
    /\ j.pc \in {"configurations", "put"} => FreshName(j.offer.name)

OverlapHolds(j) == AppHolds(j) /\ CandidateHolds(j) /\ TargetHolds(j)

OverlapInv ==
    /\ TypeOK
    /\ ServerSound
    /\ row.app \in {NoApp, Application}
    /\ row.created # 0 => Clean(row.created)
    /\ \A p \in Proc : OverlapHolds(job[p])

-----------------------------------------------------------------------------
(* What no step does to Headwind.                                          *)

\* No step requests an uninstall, nor gives a version on which one is requested a
\* code or a name, and the configurations that install something stay the same.
Harmless ==
    /\ carriers' = carriers
    /\ ServerSound'
    /\ InstallsNow' = InstallsNow
    /\ \A l \in links' : l.action = 2 => l \in links
    /\ \A v \in versions' : v \in versions \/ NoUninstall(v.id)

\* What was established of codes, names and versions survives a harmless step.
LEMMA HarmlessKeeps ==
    ASSUME Harmless
    PROVE  /\ \A code : Clean(code) => Clean(code)'
           /\ \A name : FreshName(name) => FreshName(name)'
           /\ \A id : NoUninstall(id) => NoUninstall(id)'
           /\ Application' = Application
<1>1. ASSUME NEW id, NoUninstall(id) PROVE NoUninstall(id)'
    BY <1>1 DEF Harmless, NoUninstall
<1>2. ASSUME NEW code, Clean(code) PROVE Clean(code)'
  <2> SUFFICES ASSUME NEW v \in versions', NEW l \in links', v.code = code, l.ver = v.id
               PROVE  l.action # 2
      BY DEF Clean
  <2>1. CASE v \in versions
      BY <1>2, <2>1 DEF Clean, Harmless
  <2>2. CASE NoUninstall(v.id)
      BY <2>2 DEF NoUninstall, Harmless
  <2> QED
      BY <2>1, <2>2 DEF Harmless
<1>3. ASSUME NEW name, FreshName(name) PROVE FreshName(name)'
  <2> SUFFICES ASSUME NEW v \in versions', v.name = name
               PROVE  NoUninstall(v.id)'
      BY DEF FreshName
  <2>1. NoUninstall(v.id)
      BY <1>3 DEF FreshName, Harmless
  <2> QED
      BY <2>1 DEF NoUninstall, Harmless
<1>4. Application' = Application
    BY DEF Harmless, Application
<1> QED
    BY <1>1, <1>2, <1>3, <1>4

\* A step that leaves Headwind as it is.
LEMMA QuietHarmless ==
    ASSUME ServerSound, UNCHANGED serverVars
    PROVE  Harmless
BY DEF serverVars, Harmless, ServerSound, UniqueIds, Ids, InstallsNow

\* The auto-update leaves every configuration with as many links of each action.
LEMMA MovesInstall ==
    ASSUME NEW ver,
           \A l \in links' : \E k \in links : Moved(l, k, ver),
           \A k \in links : \E l \in links' : Moved(l, k, ver)
    PROVE  /\ InstallsNow' = InstallsNow
           /\ \A l \in links' : l.action = 2 => l \in links
<1>1. \A l \in links' : l.action = 2 => l \in links
    BY DEF Moved
<1>2. \A c : c \in InstallsNow <=> \E k \in links : k.action = 1 /\ c = k.conf
    BY DEF InstallsNow
<1>3. \A c : c \in InstallsNow' <=> \E k \in links' : k.action = 1 /\ c = k.conf
    BY DEF InstallsNow
<1>4. ASSUME NEW c \in InstallsNow PROVE c \in InstallsNow'
  <2>1. PICK k \in links : k.action = 1 /\ c = k.conf
      BY <1>2
  <2>2. PICK l \in links' : Moved(l, k, ver)
      OBVIOUS
  <2> QED
      BY <1>3, <2>1, <2>2 DEF Moved
<1>5. ASSUME NEW c \in InstallsNow' PROVE c \in InstallsNow
  <2>1. PICK l \in links' : l.action = 1 /\ c = l.conf
      BY <1>3
  <2>2. PICK k \in links : Moved(l, k, ver)
      OBVIOUS
  <2> QED
      BY <1>2, <2>1, <2>2 DEF Moved
<1> QED
    BY <1>1, <1>4, <1>5

\* A new version has no links yet, and takes over those of an older one.
LEMMA InsertHarmless ==
    ASSUME ServerTypeOK, ServerSound, NEW app \in carriers, NEW name \in Names,
           NEW code \in Nat, Insert(app, name, code)
    PROVE  Harmless
<1> DEFINE new == [id |-> nextId, app |-> app, name |-> name, code |-> code]
<1>1. versions' = versions \cup {new} /\ carriers' = carriers
    BY DEF Insert
<1>2. new.id = nextId
    OBVIOUS
<1>3. \A l \in links : l.ver # nextId
    BY DEF ServerTypeOK, Version, ServerSound, Ids
<1> HIDE DEF new
<1>4. NoUninstall(new.id)
    BY <1>2, <1>3 DEF NoUninstall
<1>5. ServerSound'
    BY InsertSound
<1>6. app \in Apps
    BY DEF ServerTypeOK
<1>7. /\ \A l \in links' : \E k \in links : Moved(l, k, nextId)
      /\ \A k \in links : \E l \in links' : Moved(l, k, nextId)
    BY <1>6, InsertMoves
<1>8. /\ InstallsNow' = InstallsNow
      /\ \A l \in links' : l.action = 2 => l \in links
    BY <1>7, MovesInstall
<1> QED
    BY <1>1, <1>4, <1>5, <1>8 DEF Harmless

\* A version is rewritten in place, and may take over the links of the others.
LEMMA RewriteHarmless ==
    ASSUME ServerTypeOK, ServerSound, NEW v \in versions, NEW code \in Nat,
           NoUninstall(v.id), RewriteInPlace(v, code)
    PROVE  Harmless
<1> DEFINE new == [v EXCEPT !.code = code]
<1>1. /\ versions' = (versions \ {v}) \cup {new} /\ carriers' = carriers
      /\ nextId' = nextId
      /\ links' = links \/ links' = AutoUpdated(v.app, v.id)
    BY DEF RewriteInPlace
<1>2. new.id = v.id /\ new.app = v.app
    BY DEF ServerTypeOK, Version
<1> HIDE DEF new
<1>3. /\ \A l \in links' : \E k \in links : Moved(l, k, v.id)
      /\ \A k \in links : \E l \in links' : Moved(l, k, v.id)
    BY <1>1, AutoUpdateMoves
<1>4. /\ InstallsNow' = InstallsNow
      /\ \A l \in links' : l.action = 2 => l \in links
    BY <1>3, MovesInstall
<1>5. UniqueIds(versions)'
    BY <1>1, <1>2 DEF ServerSound, UniqueIds
<1>6. \A w \in versions' : w.id < nextId' /\ w.app \in carriers'
    BY <1>1, <1>2 DEF ServerSound
<1>7. Ids(versions)' = Ids(versions)
    BY <1>1, <1>2 DEF Ids
<1>8. \A l \in links' : l.ver \in Ids(versions)
    BY <1>3 DEF Moved, ServerSound, Ids
<1>9. ServerSound'
    BY <1>5, <1>6, <1>7, <1>8 DEF ServerSound
<1> QED
    BY <1>1, <1>2, <1>4, <1>9 DEF Harmless

\* While it publishes or links, a run works on all the versions there are.
LEMMA WorksOnAll ==
    ASSUME OverlapInv, NEW p \in Proc
    PROVE  /\ job[p].pc \in Publishing => /\ job[p].entryApp = Application
                                          /\ Application \in carriers
                                          /\ VersionsOf(job[p].entryApp) = versions
           /\ job[p].pc \in Linking => /\ job[p].linkApp = Application
                                       /\ VersionsOf(job[p].linkApp) = versions
                                       /\ LinksOf(job[p].linkApp) = links
<1>1. AppHolds(job[p]) /\ TypeOK /\ ServerSound
    BY DEF OverlapInv, OverlapHolds
<1> QED
    BY <1>1, OneApplication DEF AppHolds

\* The PUT: the server inserts, or rewrites a version of the name the run read.
LEMMA PutHarmless ==
    ASSUME OverlapInv, NEW p \in Proc, Puts(p)
    PROVE  Harmless
<1>0. /\ job[p] \in Job /\ ServerTypeOK /\ ServerSound /\ job[p].pc = "put"
      /\ CandidateHolds(job[p])
      /\ StoreVersion(job[p].entryApp, job[p].offer.name, job[p].offer.code)
    BY DEF OverlapInv, OverlapHolds, TypeOK, Puts, CreateVersion, CreateVersionLost, At
<1>1. VersionsOf(job[p].entryApp) = versions /\ job[p].entryApp \in carriers
    BY <1>0, WorksOnAll DEF Publishing
<1>2. job[p].offer.name \in Names /\ job[p].offer.code \in Nat
    BY <1>0 DEF Job, Offer
<1>3. CASE Insert(job[p].entryApp, job[p].offer.name, job[p].offer.code)
    BY <1>0, <1>1, <1>2, <1>3, InsertHarmless
<1>4. ASSUME NEW v \in versions, v.name = job[p].offer.name,
             RewriteInPlace(v, job[p].offer.code)
      PROVE  Harmless
  <2>1. NoUninstall(v.id)
      BY <1>0, <1>4 DEF CandidateHolds, FreshName
  <2> QED
      BY <1>0, <1>2, <1>4, <2>1, RewriteHarmless
<1> QED
    BY <1>0, <1>1, <1>3, <1>4 DEF StoreVersion

\* A POST installs one version where the application is installed, nowhere else.
LEMMA PostHarmless ==
    ASSUME OverlapInv, NEW p \in Proc, SendLinks(p)
    PROVE  Harmless
<1> DEFINE sent == LinksToSend(job[p].rows, job[p].installing)
           installs == {r.conf : r \in {s \in sent : s.action = 1}}
           replaced(l) == \/ l.ver = job[p].target
                          \/ l \in LinksOf(job[p].linkApp) /\ l.conf \in installs
                                /\ l.action # 2
           posted == {[conf |-> r.conf, ver |-> job[p].target, action |-> r.action] :
                          r \in sent}
<1>0. /\ job[p] \in Job /\ ServerTypeOK /\ ServerSound /\ job[p].pc = "post"
      /\ TargetHolds(job[p]) /\ job[p].target \in Ids(VersionsOf(job[p].linkApp))
      /\ StoreLinks(job[p].linkApp, job[p].target, sent)
    BY DEF OverlapInv, OverlapHolds, TypeOK, SendLinks, At, TargetExists
<1>1. /\ job[p].installing = InstallsNow
      /\ \A r \in job[p].rows : r.action # 2
      /\ \A c \in Confs : \E r \in job[p].rows : r.conf = c
    BY <1>0 DEF TargetHolds
<1>2. job[p].rows \in SUBSET LinkRow /\ job[p].installing \in SUBSET Confs
    BY <1>0 DEF Job
<1>3. /\ \A r \in sent : r.conf \in InstallsNow /\ r.action = 1
      /\ \A c \in InstallsNow : \E r \in sent : r.conf = c /\ r.action = 1
    BY <1>1, <1>2, SentRows
<1>4. LinksOf(job[p].linkApp) = links /\ VersionsOf(job[p].linkApp) = versions
    BY <1>0, WorksOnAll DEF Linking
<1>5. /\ links' = {l \in links : ~replaced(l)} \cup posted
      /\ UNCHANGED <<carriers, versions, nextId>>
    BY <1>0 DEF StoreLinks
<1> HIDE DEF sent
<1>6. installs = InstallsNow
    BY <1>3
<1>7. \A l \in posted : l.ver = job[p].target /\ l.action = 1 /\ l.conf \in InstallsNow
    BY <1>3
<1>8. ASSUME NEW c \in InstallsNow PROVE \E l \in posted : l.conf = c /\ l.action = 1
  <2>1. PICK r \in sent : r.conf = c /\ r.action = 1
      BY <1>3
  <2>2. [conf |-> r.conf, ver |-> job[p].target, action |-> r.action] \in posted
      OBVIOUS
  <2> QED
      BY <2>1, <2>2
<1> HIDE DEF replaced, posted, installs
<1>9. \A l \in links' : l.action = 2 => l \in links
    BY <1>5, <1>7
<1>10. InstallsNow' = InstallsNow
  <2>1. \A c : c \in InstallsNow <=> \E k \in links : k.action = 1 /\ c = k.conf
      BY DEF InstallsNow
  <2>2. \A c : c \in InstallsNow' <=> \E k \in links' : k.action = 1 /\ c = k.conf
      BY DEF InstallsNow
  <2>3. ASSUME NEW c \in InstallsNow PROVE c \in InstallsNow'
      BY <1>5, <1>8, <2>2
  <2>4. ASSUME NEW c \in InstallsNow' PROVE c \in InstallsNow
      BY <1>5, <1>7, <2>1, <2>2
  <2> QED
      BY <2>3, <2>4
<1>11. ServerSound'
  <2>1. \A l \in links' : l.ver \in Ids(versions)
      BY <1>0, <1>4, <1>5, <1>7 DEF ServerSound
  <2> QED
      BY <1>5, <2>1, <1>0 DEF ServerSound, UniqueIds, Ids
<1> QED
    BY <1>5, <1>9, <1>10, <1>11 DEF Harmless

\* While nobody else writes to Headwind, every step is harmless.
LEMMA ServerStep ==
    ASSUME Sealed, OverlapInv, [Next]_vars
    PROVE  Harmless
<1>1. ServerSound /\ TypeOK
    BY DEF OverlapInv
<1> QED
    BY <1>1, WhoSteps, WritersApply, PutHarmless, PostHarmless, QuietHarmless

-----------------------------------------------------------------------------
(* What no run takes away from another.                                    *)

\* Nothing is lost on a run that does not move.
LEMMA StillHolds ==
    ASSUME Harmless, NEW p \in Proc, job'[p] = job[p], OverlapHolds(job[p])
    PROVE  OverlapHolds(job[p])'
<1>1. AppHolds(job[p])'
    BY HarmlessKeeps DEF OverlapHolds, AppHolds
<1>2. CandidateHolds(job[p])'
    BY HarmlessKeeps DEF OverlapHolds, CandidateHolds
<1>3. TargetHolds(job[p])'
    BY HarmlessKeeps DEF OverlapHolds, TargetHolds, Harmless
<1> QED
    BY <1>1, <1>2, <1>3 DEF OverlapHolds

\* Nothing is asked of Headwind before the update is planned, nor before it is
\* linked.
LEMMA AsideHolds ==
    ASSUME NEW p \in Proc, job'[p].pc \notin Publishing \cup Linking, AppHolds(job[p])'
    PROVE  OverlapHolds(job[p])'
BY DEF OverlapHolds, CandidateHolds, TargetHolds, Publishing, Linking

\* A run that ends, or goes to its links, has nothing to lose.
LEMMA EndHolds ==
    ASSUME TypeOK, NEW p \in Proc, Finish(p)
    PROVE  OverlapHolds(job[p])'
<1>1. job'[p].pc = "idle" /\ job'[p].entryApp = NoApp
    BY IdleType DEF TypeOK, Finish, Becomes, Idle, Job
<1>2. AppHolds(job[p])'
    BY <1>1 DEF AppHolds, Planning, Publishing, Linking
<1> QED
    BY <1>1, <1>2, AsideHolds DEF Publishing, Linking

\* A run that turns to the links has nothing to show for itself yet.
LEMMA ToLinksHolds ==
    ASSUME NEW p \in Proc, job'[p].pc = "link", UNCHANGED carriers,
           job'[p].entryApp \in {NoApp, Application}
    PROVE  OverlapHolds(job[p])'
<1>1. AppHolds(job[p])'
    BY DEF AppHolds, Application, Planning, Publishing, Linking
<1> QED
    BY <1>1, AsideHolds DEF Publishing, Linking

-----------------------------------------------------------------------------
(* The steps of a run.                                                     *)

\* A plan that finds nothing to publish ends the run, or sends it to its links.
LEMMA PlannedHolds ==
    ASSUME TypeOK, NEW p \in Proc, NEW j \in Job, Planned(p, j), UNCHANGED carriers,
           j.entryApp \in {NoApp, Application}, j.status # "UPDATE_AVAILABLE"
    PROVE  OverlapHolds(job[p])'
<1>1. CASE Finish(p)
    BY <1>1, EndHolds
<1>2. CASE ~Finish(p)
  <2>1. Becomes(p, [j EXCEPT !.pc = "link"])
      BY <1>2 DEF Planned, Finish, Becomes
  <2>2. job'[p].pc = "link" /\ job'[p].entryApp = j.entryApp
      BY <2>1 DEF Becomes, TypeOK, Job
  <2> QED
      BY <2>2, ToLinksHolds
<1> QED
    BY <1>1, <1>2

\* Planning: what the run takes over from the applications, the index and the row.
LEMMA PlanHoldsOn ==
    ASSUME OverlapInv, NEW p \in Proc, Plan(p)
    PROVE  OverlapHolds(job[p])'
<1>0. /\ job[p] \in Job /\ job \in [Proc -> Job] /\ TypeOK /\ AppHolds(job[p])
    BY DEF OverlapInv, OverlapHolds, TypeOK
<1>a. /\ carriers' = carriers /\ versions' = versions /\ links' = links
      /\ Application' = Application
    BY DEF Plan, ListApplications, Reconcile, RefreshIndex, ReadSigner, PinSigner,
           Compare, CompareUnreadable, serverVars, Application
<1>b. ASSUME job'[p].pc \in {"reconcile", "index", "signer", "pin", "compare"},
             job'[p].entryApp = job[p].entryApp, job'[p].app = Application,
             job'[p].pc \in {"signer", "pin", "compare"} => Application # NoApp
      PROVE  OverlapHolds(job[p])'
  <2>1. AppHolds(job[p])'
      BY <1>0, <1>a, <1>b DEF AppHolds, Planning, Publishing, Linking
  <2> QED
      BY <1>b, <2>1, AsideHolds DEF Publishing, Linking
<1>1. CASE ListApplications(p)
  <2>1. /\ job'[p].pc = "reconcile" /\ job'[p].app = Application
        /\ job'[p].entryApp = job[p].entryApp
      BY <1>0, <1>1 DEF ListApplications, Becomes, Job, Application
  <2> QED
      BY <1>b, <2>1
<1>2. CASE Reconcile(p)
  <2>1. CASE Finish(p)
      BY <1>0, <2>1, EndHolds
  <2>2. CASE ~Finish(p)
    <3>1. job[p].pc = "reconcile" /\ Goto(p, "index")
        BY <1>2, <2>2 DEF Reconcile, At
    <3>2. /\ job'[p].pc = "index" /\ job'[p].app = job[p].app
          /\ job'[p].entryApp = job[p].entryApp
        BY <1>0, <3>1 DEF Goto, Becomes, Job
    <3> QED
        BY <1>0, <1>b, <3>1, <3>2 DEF AppHolds
  <2> QED
      BY <2>1, <2>2
<1>3. CASE RefreshIndex(p)
  <2> DEFINE early == EarlyStatus(job[p], offer)
             j == [job[p] EXCEPT !.status = early]
  <2>1. job[p].app = Application
      BY <1>0, <1>3 DEF RefreshIndex, At, AppHolds, Planning
  <2>2. CASE early = "NONE"
    <3>1. job[p].app # NoApp
        BY <2>2 DEF EarlyStatus
    <3>2. Becomes(p, [job[p] EXCEPT !.pc = "signer", !.offer = offer])
        BY <1>3, <2>2 DEF RefreshIndex
    <3>3. /\ job'[p].pc = "signer" /\ job'[p].app = job[p].app
          /\ job'[p].entryApp = job[p].entryApp
        BY <1>0, <3>2 DEF Becomes, Job
    <3> QED
        BY <1>b, <2>1, <3>1, <3>3
  <2>3. CASE early # "NONE"
    <3>1. early \in Status /\ early # "UPDATE_AVAILABLE"
        BY DEF EarlyStatus, Status
    <3>2. j \in Job /\ j.status # "UPDATE_AVAILABLE" /\ j.entryApp = job[p].entryApp
        BY <1>0, <3>1 DEF Job
    <3>3. Planned(p, j)
        BY <1>3, <2>3 DEF RefreshIndex
    <3>4. j.entryApp \in {NoApp, Application}
        BY <1>0, <3>2 DEF AppHolds
    <3> HIDE DEF j
    <3> QED
        BY <1>0, <1>a, <3>2, <3>3, <3>4, PlannedHolds
  <2> QED
      BY <2>2, <2>3
<1>4. CASE ReadSigner(p) \/ PinSigner(p)
  <2>1. \E trusted : \/ Becomes(p, [job[p] EXCEPT !.pc = "pin"])
                     \/ Becomes(p, [job[p] EXCEPT !.pc = "compare", !.trusted = trusted])
      BY <1>4 DEF ReadSigner, PinSigner, Goto
  <2>2. /\ job'[p].pc \in {"pin", "compare"}
        /\ job'[p].app = job[p].app /\ job'[p].entryApp = job[p].entryApp
    <3>1. CASE Becomes(p, [job[p] EXCEPT !.pc = "pin"])
        BY <1>0, <3>1 DEF Becomes, Job
    <3>2. ASSUME NEW trusted,
                 Becomes(p, [job[p] EXCEPT !.pc = "compare", !.trusted = trusted])
          PROVE  /\ job'[p].pc \in {"pin", "compare"}
                 /\ job'[p].app = job[p].app /\ job'[p].entryApp = job[p].entryApp
        BY <1>0, <3>2 DEF Becomes, Job
    <3> QED
        BY <2>1, <3>1, <3>2
  <2>3. job[p].pc \in {"signer", "pin"}
      BY <1>4 DEF ReadSigner, PinSigner, At
  <2>4. job[p].app = Application /\ Application # NoApp
      BY <1>0, <2>3 DEF AppHolds, Planning
  <2> QED
      BY <1>b, <2>2, <2>4
<1>5. CASE Compare(p)
  <2> DEFINE status == PlanStatus(job[p], VersionsOf(job[p].app))
             j == [job[p] EXCEPT !.entryApp = job[p].app, !.status = status]
  <2>1. job[p].app = Application /\ Application # NoApp
      BY <1>0, <1>5 DEF Compare, At, AppHolds, Planning
  <2>2. status \in Status
      BY DEF PlanStatus, Status
  <2>3. /\ j \in Job /\ j.status = status /\ j.entryApp = Application
        /\ j.offer = job[p].offer
      BY <1>0, <2>1, <2>2 DEF Job
  <2>4. Planned(p, j)
      BY <1>5 DEF Compare
  <2>5. status = "UPDATE_AVAILABLE" =>
            \A v \in VersionsOf(Application) : ~(job[p].offer.code <= v.code)
      BY <2>1 DEF PlanStatus
  <2> HIDE DEF j, status
  <2>6. CASE status # "UPDATE_AVAILABLE"
      BY <1>0, <1>a, <2>3, <2>4, <2>6, PlannedHolds
  <2>7. CASE status = "UPDATE_AVAILABLE" /\ ~Finish(p)
    <3>1. Becomes(p, [j EXCEPT !.pc = "verify"])
        BY <2>3, <2>4, <2>7 DEF Planned, Finish, Becomes
    <3>2. /\ job'[p].pc = "verify" /\ job'[p].entryApp = Application
          /\ job'[p].offer = job[p].offer
        BY <1>0, <2>3, <3>1 DEF Becomes, Job
    <3>3. AppHolds(job[p])'
        BY <1>a, <2>1, <3>2 DEF AppHolds, Planning, Publishing, Linking
    <3>4. VersionsOf(Application) = versions
        BY <2>1, OneApplication DEF OverlapInv
    <3>5. \A v \in versions : v.code # job[p].offer.code
        BY <1>0, <2>5, <2>7, <3>4 DEF TypeOK, ServerTypeOK, Version, Job, Offer
    <3>6. CandidateHolds(job[p])'
        BY <1>a, <3>2, <3>5 DEF CandidateHolds, Clean
    <3>7. TargetHolds(job[p])'
        BY <3>2 DEF TargetHolds
    <3> QED
        BY <3>3, <3>6, <3>7 DEF OverlapHolds
  <2> QED
      BY <1>0, <2>6, <2>7, EndHolds
<1>6. CASE CompareUnreadable(p)
  <2> DEFINE j == [job[p] EXCEPT !.status = "SKIPPED"]
  <2>1. j \in Job /\ j.status # "UPDATE_AVAILABLE" /\ j.entryApp = job[p].entryApp
      BY <1>0 DEF Job, Status
  <2>2. Planned(p, j)
      BY <1>6 DEF CompareUnreadable
  <2>3. j.entryApp \in {NoApp, Application}
      BY <1>0, <2>1 DEF AppHolds
  <2> HIDE DEF j
  <2> QED
      BY <1>0, <1>a, <2>1, <2>2, <2>3, PlannedHolds
<1> QED
    BY <1>1, <1>2, <1>3, <1>4, <1>5, <1>6 DEF Plan

\* Publication over, the run goes to its links.
LEMMA PublicationOver ==
    ASSUME OverlapInv, NEW p \in Proc, UNCHANGED carriers, NEW outcome,
           Publishes(p, outcome)
    PROVE  OverlapHolds(job[p])'
<1>1. job'[p].pc = "link" /\ job'[p].entryApp = job[p].entryApp
    BY DEF OverlapInv, TypeOK, Publishes, Becomes, Job
<1>2. job[p].entryApp \in {NoApp, Application}
    BY DEF OverlapInv, OverlapHolds, AppHolds
<1> QED
    BY <1>1, <1>2, ToLinksHolds

\* Publishing: the names, the codes and the configurations are read one by one,
\* and hold until the PUT.
LEMMA PublishHoldsOn ==
    ASSUME OverlapInv, NEW p \in Proc, Publish(p), Harmless
    PROVE  OverlapHolds(job[p])'
<1>0. /\ job[p] \in Job /\ job \in [Proc -> Job] /\ TypeOK
      /\ AppHolds(job[p]) /\ CandidateHolds(job[p])
    BY DEF OverlapInv, OverlapHolds, TypeOK
<1>a. ASSUME job[p].pc \in Publishing, job'[p].pc \in Publishing,
             job'[p].entryApp = job[p].entryApp, job'[p].offer = job[p].offer,
             job'[p].pc \in {"configurations", "put"} => FreshName(job[p].offer.name)
      PROVE  OverlapHolds(job[p])'
  <2>1. AppHolds(job[p])'
      BY <1>0, <1>a, HarmlessKeeps DEF AppHolds, Planning, Publishing, Linking
  <2>2. CandidateHolds(job[p])'
      BY <1>0, <1>a, HarmlessKeeps DEF CandidateHolds
  <2>3. TargetHolds(job[p])'
      BY <1>a DEF TargetHolds, Publishing
  <2> QED
      BY <2>1, <2>2, <2>3 DEF OverlapHolds
<1>b. carriers' = carriers
    BY DEF Harmless
<1>1. CASE VerifyApks(p)
  <2>1. /\ job[p].pc = "verify" /\ job'[p].pc = "prepare"
        /\ job'[p].entryApp = job[p].entryApp /\ job'[p].offer = job[p].offer
      BY <1>0, <1>1 DEF VerifyApks, At, Becomes, Job
  <2> QED
      BY <1>a, <2>1 DEF Publishing
<1>2. CASE RejectApks(p)
  <2>1. job'[p].pc = "link" /\ job'[p].entryApp = job[p].entryApp
      BY <1>0, <1>2 DEF RejectApks, Becomes, Job
  <2> QED
      BY <1>0, <1>b, <2>1, ToLinksHolds DEF AppHolds
<1>3. CASE Prepare(p)
  <2>1. CASE Publishes(p, "SKIPPED")
      BY <1>b, <2>1, PublicationOver
  <2>2. CASE ~Publishes(p, "SKIPPED")
    <3>1. job[p].pc = "prepare" /\ Goto(p, "versions")
        BY <1>3, <2>2 DEF Prepare, At
    <3>2. /\ job'[p].pc = "versions" /\ job'[p].entryApp = job[p].entryApp
          /\ job'[p].offer = job[p].offer
        BY <1>0, <3>1 DEF Goto, Becomes, Job
    <3> QED
        BY <1>a, <3>1, <3>2 DEF Publishing
  <2> QED
      BY <2>1, <2>2
<1>4. CASE ReadVersions(p)
  <2>1. CASE Publishes(p, "BLOCKED")
      BY <1>b, <2>1, PublicationOver
  <2>2. CASE ~Publishes(p, "BLOCKED")
    <3>1. /\ job[p].pc = "versions"
          /\ \A v \in VersionsOf(job[p].entryApp) : v.name # job[p].offer.name
        BY <1>4, <2>2 DEF ReadVersions, SameName, At
    <3>2. PICK ids : Becomes(p, [job[p] EXCEPT !.pc = "configurations", !.known = ids])
        BY <1>4, <2>2 DEF ReadVersions
    <3>3. /\ job'[p].pc = "configurations" /\ job'[p].entryApp = job[p].entryApp
          /\ job'[p].offer = job[p].offer
        BY <1>0, <3>2 DEF Becomes, Job
    <3>4. FreshName(job[p].offer.name)
        BY <3>1, WorksOnAll DEF FreshName, Publishing
    <3> QED
        BY <1>a, <3>1, <3>3, <3>4 DEF Publishing
  <2> QED
      BY <2>1, <2>2
<1>5. CASE ReadConfigurations(p)
  <2>1. /\ job[p].pc = "configurations" /\ job'[p].pc = "put"
        /\ job'[p].entryApp = job[p].entryApp /\ job'[p].offer = job[p].offer
      BY <1>0, <1>5 DEF ReadConfigurations, At, Goto, Becomes, Job
  <2>2. FreshName(job[p].offer.name)
      BY <1>0, <2>1 DEF CandidateHolds
  <2> QED
      BY <1>a, <2>1, <2>2 DEF Publishing
<1>6. CASE CreateVersion(p)
  <2>1. PICK reply : Becomes(p, [job[p] EXCEPT !.pc = "record", !.reply = reply])
      BY <1>6 DEF CreateVersion
  <2>2. /\ job[p].pc = "put" /\ job'[p].pc = "record"
        /\ job'[p].entryApp = job[p].entryApp /\ job'[p].offer = job[p].offer
      BY <1>0, <1>6, <2>1 DEF CreateVersion, At, Becomes, Job
  <2> QED
      BY <1>a, <2>2 DEF Publishing
<1>7. CASE CreateVersionLost(p) \/ RecordCreated(p) \/ PublishFails(p)
    BY <1>7, <1>b, PublicationOver DEF CreateVersionLost, RecordCreated, PublishFails
<1> QED
    BY <1>1, <1>2, <1>3, <1>4, <1>5, <1>6, <1>7 DEF Publish

\* Linking: the target, where the application is installed, and the rows.
LEMMA LinkUpHoldsOn ==
    ASSUME OverlapInv, NEW p \in Proc, LinkUp(p), Harmless
    PROVE  OverlapHolds(job[p])'
<1>0. /\ job[p] \in Job /\ job \in [Proc -> Job] /\ row \in Row
      /\ TypeOK /\ ServerTypeOK /\ ServerSound
      /\ AppHolds(job[p]) /\ TargetHolds(job[p])
    BY DEF OverlapInv, OverlapHolds, TypeOK
<1>a. ASSUME job[p].pc \in {"link"} \cup Linking, job'[p].pc \in Linking,
             job'[p].entryApp = job[p].entryApp, job'[p].linkApp = Application,
             Application # NoApp, TargetHolds(job[p])'
      PROVE  OverlapHolds(job[p])'
  <2>1. AppHolds(job[p])'
      BY <1>0, <1>a, HarmlessKeeps DEF AppHolds, Planning, Publishing, Linking
  <2>2. CandidateHolds(job[p])'
      BY <1>a DEF CandidateHolds, Publishing, Linking
  <2> QED
      BY <1>a, <2>1, <2>2 DEF OverlapHolds
<1>b. job[p].pc \in Linking => /\ job[p].linkApp = Application /\ Application # NoApp
                               /\ VersionsOf(job[p].linkApp) = versions
                               /\ LinksOf(job[p].linkApp) = links
    BY <1>0, WorksOnAll DEF AppHolds
<1>1. CASE LinkOne(p) /\ ~Finish(p)
  <2>1. /\ Becomes(p, [job[p] EXCEPT !.pc = "resolve", !.code = row.created,
                                     !.linkApp = LinkApp(job[p], row)])
        /\ row.created > row.pushed /\ LinkApp(job[p], row) # NoApp
        /\ job[p].pc = "link"
      BY <1>1 DEF LinkOne, At, AwaitingApproval
  <2>2. /\ job'[p].pc = "resolve" /\ job'[p].code = row.created
        /\ job'[p].linkApp = LinkApp(job[p], row)
        /\ job'[p].entryApp = job[p].entryApp
      BY <1>0, <2>1 DEF Becomes, Job
  <2>3. LinkApp(job[p], row) = Application
      BY <1>0, <2>1 DEF LinkApp, AppHolds, OverlapInv
  <2>4. row.created # 0
      BY <1>0, <2>1 DEF Row
  <2>5. Clean(row.created)
      BY <2>4 DEF OverlapInv
  <2>6. TargetHolds(job[p])'
      BY <2>2, <2>5, HarmlessKeeps DEF TargetHolds
  <2> QED
      BY <1>a, <2>1, <2>2, <2>3, <2>6 DEF Linking
<1>2. CASE ResolveVersion(p) /\ ~Finish(p)
  <2>1. PICK v \in versions :
            /\ job[p].pc = "resolve" /\ v.code = job[p].code
            /\ Becomes(p, [job[p] EXCEPT !.pc = "installing", !.target = v.id])
      BY <1>2 DEF ResolveVersion, VersionsOf, At
  <2>2. /\ job'[p].pc = "installing" /\ job'[p].target = v.id
        /\ job'[p].linkApp = job[p].linkApp /\ job'[p].entryApp = job[p].entryApp
      BY <1>0, <2>1 DEF Becomes, Job
  <2>3. NoUninstall(v.id)
      BY <1>0, <2>1 DEF TargetHolds, Clean, NoUninstall
  <2>4. TargetHolds(job[p])'
      BY <2>2, <2>3, HarmlessKeeps DEF TargetHolds
  <2> QED
      BY <1>a, <1>b, <2>1, <2>2, <2>4 DEF Linking
<1>3. CASE ReadInstalling(p)
  <2>1. /\ job[p].pc = "installing" /\ job'[p].pc = "rows"
        /\ job'[p].linkApp = job[p].linkApp /\ job'[p].target = job[p].target
        /\ job'[p].entryApp = job[p].entryApp
        /\ job'[p].installing = InstallingConfs(job[p].linkApp)
      BY <1>0, <1>3 DEF ReadInstalling, At, Becomes, Job
  <2>2. InstallingConfs(job[p].linkApp) = InstallsNow
      BY <1>b, <2>1 DEF InstallingConfs, InstallsNow, Linking
  <2>3. NoUninstall(job[p].target)
      BY <1>0, <2>1 DEF TargetHolds
  <2>4. TargetHolds(job[p])'
      BY <2>1, <2>2, <2>3, HarmlessKeeps DEF TargetHolds, Harmless
  <2> QED
      BY <1>a, <1>b, <2>1, <2>4 DEF Linking
<1>4. CASE ReadRows(p)
  <2> DEFINE read == RowsOf(job[p].target)
             sent == LinksToSend(read, job[p].installing)
             next == IF \E r \in sent : r.action = 1 THEN "post" ELSE "pushed"
  <2>1. /\ job[p].pc = "rows"
        /\ Becomes(p, [job[p] EXCEPT !.pc = next, !.rows = read])
      BY <1>4 DEF ReadRows, At
  <2>2. next \in {"post", "pushed"}
      OBVIOUS
  <2> HIDE DEF read, next
  <2>3. /\ job'[p].pc = next /\ job'[p].linkApp = job[p].linkApp
        /\ job'[p].target = job[p].target /\ job'[p].entryApp = job[p].entryApp
        /\ job'[p].installing = job[p].installing /\ job'[p].rows = read
      BY <1>0, <2>1 DEF Becomes, Job
  <2>4. NoUninstall(job[p].target) /\ job[p].installing = InstallsNow
      BY <1>0, <2>1 DEF TargetHolds
  <2>5. /\ \A r \in read : r.action # 2
        /\ \A c \in Confs : \E r \in read : r.conf = c
      BY <1>0, <2>4, CleanRows DEF read, NoUninstall
  <2>6. TargetHolds(job[p])'
      BY <2>2, <2>3, <2>4, <2>5, HarmlessKeeps DEF TargetHolds, Harmless
  <2> QED
      BY <1>a, <1>b, <2>1, <2>2, <2>3, <2>6 DEF Linking
<1>5. CASE PostLinks(p)
  <2>1. /\ job[p].pc = "post" /\ job'[p].pc = "pushed"
        /\ job'[p].linkApp = job[p].linkApp /\ job'[p].entryApp = job[p].entryApp
      BY <1>0, <1>5 DEF PostLinks, SendLinks, At, Goto, Becomes, Job
  <2>2. TargetHolds(job[p])'
      BY <2>1 DEF TargetHolds
  <2> QED
      BY <1>a, <1>b, <2>1, <2>2 DEF Linking
<1>6. CASE Finish(p)
    BY <1>0, <1>6, EndHolds
<1> QED
    BY <1>1, <1>2, <1>3, <1>4, <1>5, <1>6
    DEF LinkUp, PostLinksLost, RecordPushed, LinkFails

\* Any step of a process, for that process.
LEMMA MoverHolds ==
    ASSUME OverlapInv, NEW p \in Proc, ProcStep(p), Harmless
    PROVE  OverlapHolds(job[p])'
<1>0. TypeOK
    BY DEF OverlapInv
<1>1. ASSUME NEW cmd \in Commands[p], StartRun(p, cmd)
      PROVE  OverlapHolds(job[p])'
  <2>1. job'[p].pc = "list" /\ job'[p].entryApp = NoApp
      BY <1>0, <1>1, IdleType DEF TypeOK, StartRun, Becomes, Idle, Job
  <2>2. AppHolds(job[p])'
      BY <2>1 DEF AppHolds, Planning, Publishing, Linking
  <2> QED
      BY <2>1, <2>2, AsideHolds DEF Publishing, Linking
<1>2. CASE AbortRun(p) \/ Crash(p)
    BY <1>0, <1>2, EndHolds DEF AbortRun, Crash
<1> QED
    BY <1>1, <1>2, PlanHoldsOn, PublishHoldsOn, LinkUpHoldsOn DEF ProcStep, RunStep

\* The row is the package's, and its code no version with an uninstall.
LEMMA RowHoldsOn ==
    ASSUME OverlapInv, Harmless, row' = row \/ \E p \in Proc : RowStep(p)
    PROVE  /\ row'.app \in {NoApp, Application'}
           /\ row'.created # 0 => Clean(row.created)'
<1>0. /\ TypeOK /\ Application' = Application
      /\ row.app \in {NoApp, Application}
      /\ row.created # 0 => Clean(row.created)
    BY HarmlessKeeps DEF OverlapInv
<1>a. ASSUME NEW code, code # 0 => Clean(code), row'.created = code
      PROVE  row'.created # 0 => Clean(row.created)'
  <2>1. code # 0 => Clean(code)'
      BY <1>a, HarmlessKeeps
  <2> QED
      BY <1>a, <2>1 DEF Clean
<1>1. CASE row'.created = row.created /\ row'.app = row.app
    BY <1>0, <1>a, <1>1
<1>2. CASE row' = NoRow
    BY <1>2 DEF NoRow
<1>3. ASSUME NEW p \in Proc, RowStep(p)
      PROVE  /\ row'.app \in {NoApp, Application'}
             /\ row'.created # 0 => Clean(row.created)'
  <2>1. OverlapHolds(job[p])
      BY DEF OverlapInv
  <2>2. job[p].pc = "reconcile" => job[p].app = Application
      BY <2>1 DEF OverlapHolds, AppHolds
  <2>3. RecordCreated(p) => Clean(job[p].offer.code)
      BY <2>1 DEF RecordCreated, At, OverlapHolds, CandidateHolds, Publishing
  <2>4. \/ row' = NoRow
        \/ row'.created = row.created
        \/ RecordCreated(p) /\ row'.created = job[p].offer.code
      BY <1>0, <1>3, RowStepEffect
  <2>5. \/ row' = NoRow
        \/ row'.app = row.app
        \/ row'.app = job[p].app /\ job[p].pc = "reconcile"
      BY <1>0, <1>3, RowStepEffect
  <2>6. row'.created # 0 => Clean(row.created)'
      BY <1>0, <1>a, <1>2, <2>3, <2>4
  <2>7. row'.app \in {NoApp, Application'}
      BY <1>0, <1>2, <2>2, <2>5
  <2> QED
      BY <2>6, <2>7
<1> QED
    BY <1>1, <1>2, <1>3

\* Any step, for every process.
LEMMA OverlapStep ==
    ASSUME Sealed, OverlapInv, [Next]_vars
    PROVE  OverlapInv'
<1>0. TypeOK /\ TypeOK' /\ Harmless
    BY ServerStep, TypeStep DEF OverlapInv
<1>1. ASSUME NEW p \in Proc, ProcStep(p)
      PROVE  OverlapInv'
  <2>1. ASSUME NEW q \in Proc PROVE OverlapHolds(job[q])'
    <3>1. CASE q = p
        BY <1>0, <1>1, <3>1, MoverHolds
    <3>2. CASE q # p
        BY <1>0, <1>1, <3>2, OnlyOneMoves, StillHolds DEF OverlapInv
    <3> QED
        BY <3>1, <3>2
  <2>2. row' = row \/ RowStep(p)
      BY <1>0, <1>1, WritersApply
  <2>3. /\ row'.app \in {NoApp, Application'}
        /\ row'.created # 0 => Clean(row.created)'
      BY <1>0, <2>2, RowHoldsOn
  <2> QED
      BY <1>0, <2>1, <2>3 DEF OverlapInv, Harmless
<1>2. CASE UNCHANGED <<serverVars, row, job>>
  <2>1. \A q \in Proc : OverlapHolds(job[q])'
      BY <1>0, <1>2, StillHolds DEF OverlapInv
  <2>2. row'.app \in {NoApp, Application'} /\ (row'.created # 0 => Clean(row.created)')
      BY <1>0, <1>2, RowHoldsOn
  <2> QED
      BY <1>0, <2>1, <2>2 DEF OverlapInv, Harmless
<1> QED
    BY <1>1, <1>2, WhoSteps

\* At first nothing is recorded, and no run is under way.
LEMMA OverlapInit ==
    ASSUME Init
    PROVE  OverlapInv
<1>1. TypeOK
    BY TypeInit
<1>2. ServerSound
    BY ServersAssumption DEF Init, ServerInit, ServerSound
<1>3. row.app = NoApp /\ row.created = 0
    BY DEF Init, NoRow
<1>4. ASSUME NEW p \in Proc PROVE OverlapHolds(job[p])
  <2>1. job[p].pc = "idle" /\ job[p].entryApp = NoApp
      BY DEF Init, Idle
  <2> QED
      BY <2>1 DEF OverlapHolds, AppHolds, CandidateHolds, TargetHolds,
                  Planning, Publishing, Linking
<1> QED
    BY <1>1, <1>2, <1>3, <1>4 DEF OverlapInv

\* Whatever the other runs do meanwhile, a run goes by the one application of the
\* package, requests no uninstall, and links where the application is installed.
THEOREM Overlapping ==
    ASSUME Sealed
    PROVE  Spec => []OverlapInv
<1>1. Init => OverlapInv
    BY OverlapInit
<1>2. OverlapInv /\ [Next]_vars => OverlapInv'
    BY OverlapStep
<1> QED
    BY <1>1, <1>2, PTL DEF Spec

\* However many runs overlap, and whatever dies, no configuration starts or stops
\* installing the application by what the service does: neither by the PUT, nor by
\* a POST computed from reads that other runs have since made old.
THEOREM InstallersStay ==
    ASSUME Sealed
    PROVE  Spec => InstallersStable
<1> DEFINE Stable == ServiceStep => InstallingNow' = InstallingNow
<1>1. OverlapInv /\ [Next]_vars => [Stable]_vars
  <2> SUFFICES ASSUME OverlapInv, [Next]_vars PROVE InstallingNow' = InstallingNow
      OBVIOUS
  <2>1. ServerSound /\ ServerSound' /\ InstallsNow' = InstallsNow
      BY ServerStep DEF OverlapInv, Harmless
  <2>2. ServerSound => InstallingNow = Confs \cap InstallsNow
      BY DEF InstallingNow, InstalledCodes, InstallsNow, ServerSound, Ids
  <2>3. ServerSound' => InstallingNow' = Confs \cap InstallsNow'
      BY DEF InstallingNow, InstalledCodes, InstallsNow, ServerSound, Ids
  <2> QED
      BY <2>1, <2>2, <2>3
<1> QED
    BY <1>1, Overlapping, PTL DEF Spec, InstallersStable

-----------------------------------------------------------------------------
(* What a run created stays.                                               *)

\* A run publishes a candidate of the index; a version that took its name since
\* the run read the names has its code, so that the PUT rewrites no other code.
NameHolds(j) ==
    /\ j.pc \in (Planning \ {"index"}) \cup Publishing =>
          j.offer \in Offers /\ j.offer.kind = "candidate"
    /\ j.pc \in {"configurations", "put"} =>
          \A v \in versions : v.name = j.offer.name => v.code = j.offer.code
    /\ j.pc = "record" => \E v \in versions : v.code = j.offer.code

NameInv == CreatedExists /\ \A p \in Proc : NameHolds(job[p])

\* Versions are only added, under the name and the code of a candidate.
Created(o) ==
    /\ versions \subseteq versions'
    /\ \A v \in versions' : v \in versions \/ (v.name = o.name /\ v.code = o.code)

\* The PUT of a run leaves a version of its candidate, and rewrites no other code.
LEMMA PutCreates ==
    ASSUME OverlapInv, NameInv, NEW p \in Proc, Puts(p)
    PROVE  Created(job[p].offer) /\ \E v \in versions' : v.code = job[p].offer.code
<1> DEFINE new == [id |-> nextId, app |-> job[p].entryApp, name |-> job[p].offer.name,
                   code |-> job[p].offer.code]
<1>1. /\ job[p].pc = "put" /\ NameHolds(job[p]) /\ versions \subseteq Version
      /\ StoreVersion(job[p].entryApp, job[p].offer.name, job[p].offer.code)
    BY DEF OverlapInv, NameInv, TypeOK, ServerTypeOK, Puts, CreateVersion,
           CreateVersionLost, At
<1>2. VersionsOf(job[p].entryApp) = versions
    BY <1>1, WorksOnAll DEF Publishing
<1>3. CASE Insert(job[p].entryApp, job[p].offer.name, job[p].offer.code)
  <2>1. versions' = versions \cup {new}
      BY <1>3 DEF Insert
  <2>2. new.name = job[p].offer.name /\ new.code = job[p].offer.code
      OBVIOUS
  <2> HIDE DEF new
  <2> QED
      BY <2>1, <2>2 DEF Created
<1>4. ASSUME NEW v \in versions, v.name = job[p].offer.name,
             RewriteInPlace(v, job[p].offer.code)
      PROVE  versions' = versions /\ v.code = job[p].offer.code
  <2>1. v.code = job[p].offer.code /\ v \in Version
      BY <1>1, <1>4 DEF NameHolds
  <2>2. [v EXCEPT !.code = job[p].offer.code] = v
      BY <2>1 DEF Version
  <2> QED
      BY <1>4, <2>1, <2>2 DEF RewriteInPlace
<1>5. (\E v \in versions : v.code = job[p].offer.code /\ versions' = versions)
          => Created(job[p].offer) /\ \E v \in versions' : v.code = job[p].offer.code
    BY DEF Created
<1> QED
    BY <1>1, <1>2, <1>3, <1>4, <1>5 DEF StoreVersion

\* Whatever a step creates has the name and the code of a candidate.
LEMMA StepCreates ==
    ASSUME Sealed, OverlapInv, NameInv, [Next]_vars
    PROVE  \/ versions' = versions
           \/ \E o \in Offers : o.kind = "candidate" /\ Created(o)
<1>1. ASSUME NEW p \in Proc, Puts(p)
      PROVE  \E o \in Offers : o.kind = "candidate" /\ Created(o)
  <2>1. job[p].offer \in Offers /\ job[p].offer.kind = "candidate"
      BY <1>1 DEF NameInv, NameHolds, Puts, CreateVersion, CreateVersionLost, At,
                  Publishing
  <2> QED
      BY <1>1, <2>1, PutCreates
<1>2. ASSUME NEW p \in Proc, SendLinks(p) PROVE versions' = versions
    BY <1>2 DEF SendLinks, StoreLinks
<1> QED
    BY <1>1, <1>2, WhoSteps, WritersApply DEF OverlapInv, serverVars

\* The names a run goes by are not taken by another code, nor is what it created.
LEMMA StillNamed ==
    ASSUME NamesTellCodes, NEW j, NameHolds(j),
           \/ versions' = versions
           \/ \E o \in Offers : o.kind = "candidate" /\ Created(o)
    PROVE  /\ j.pc \in {"configurations", "put"} =>
                  \A v \in versions' : v.name = j.offer.name => v.code = j.offer.code
           /\ j.pc = "record" => \E v \in versions' : v.code = j.offer.code
BY DEF NameHolds, Created, NamesTellCodes, Publishing

Named == (Planning \ {"index"}) \cup Publishing

\* Where the candidate of a run comes from, and what was read before its name is
\* written, or its code recorded.
Follows(p) ==
    /\ job'[p].pc \in Named =>
          \/ job'[p].offer = offer /\ offer.kind = "candidate"
          \/ job'[p].offer = job[p].offer /\ job[p].pc \in Named
    /\ job'[p].pc \in {"configurations", "put"} =>
          \/ /\ ReadVersions(p) /\ job'[p].offer = job[p].offer
             /\ ~SameName(VersionsOf(job[p].entryApp), job[p].offer.name)
          \/ job'[p].offer = job[p].offer /\ job[p].pc = "configurations"
    /\ job'[p].pc = "record" => CreateVersion(p) /\ job'[p].offer = job[p].offer

\* A run keeps the candidate it planned until it has recorded it.
LEMMA StepFollows ==
    ASSUME TypeOK, NEW p \in Proc, ProcStep(p)
    PROVE  Follows(p)
<1>0. job[p] \in Job /\ job \in [Proc -> Job]
    BY DEF TypeOK
<1> USE DEF Named, Planning, Publishing
<1>a. ASSUME job'[p].pc \notin Named PROVE Follows(p)
    BY <1>a DEF Follows
<1>b. ASSUME job'[p].pc \in Named \ {"configurations", "put", "record"},
             job'[p].offer = job[p].offer, job[p].pc \in Named
      PROVE  Follows(p)
    BY <1>b DEF Follows
<1>c. ASSUME Finish(p) PROVE Follows(p)
  <2>1. job'[p].pc = "idle"
      BY <1>0, <1>c DEF Finish, Becomes, Idle
  <2> QED
      BY <1>a, <2>1
<1>d. ASSUME NEW outcome, Publishes(p, outcome) PROVE Follows(p)
  <2>1. job'[p].pc = "link"
      BY <1>0, <1>d DEF Publishes, Becomes, Job
  <2> QED
      BY <1>a, <2>1
<1>e. ASSUME NEW j \in Job, Planned(p, j), j.offer = job[p].offer,
             j.status # "UPDATE_AVAILABLE" \/ job[p].pc \in Named
      PROVE  Follows(p)
  <2>1. CASE Becomes(p, [j EXCEPT !.pc = "verify"]) /\ j.status = "UPDATE_AVAILABLE"
    <3>1. job'[p].pc = "verify" /\ job'[p].offer = job[p].offer
        BY <1>0, <1>e, <2>1 DEF Becomes, Job
    <3> QED
        BY <1>b, <1>e, <2>1, <3>1
  <2>2. CASE Becomes(p, [j EXCEPT !.pc = "link"])
    <3>1. job'[p].pc = "link"
        BY <1>0, <2>2 DEF Becomes, Job
    <3> QED
        BY <1>a, <3>1
  <2> QED
      BY <1>c, <1>e, <2>1, <2>2 DEF Planned, Finish
<1>1. CASE ListApplications(p) \/ \E cmd \in Commands[p] : StartRun(p, cmd)
  <2>1. ListApplications(p) => job'[p].pc = "reconcile"
      BY <1>0 DEF ListApplications, Becomes, Job
  <2>2. \A cmd \in Commands[p] : StartRun(p, cmd) => job'[p].pc = "list"
      BY <1>0, IdleType DEF StartRun, Becomes, Job
  <2> QED
      BY <1>1, <1>a, <2>1, <2>2
<1>2. CASE Reconcile(p)
  <2>1. Goto(p, "index") => job'[p].pc = "index"
      BY <1>0 DEF Goto, Becomes, Job
  <2> QED
      BY <1>2, <1>a, <1>c, <2>1 DEF Reconcile
<1>3. CASE RefreshIndex(p)
  <2> DEFINE early == EarlyStatus(job[p], offer)
             j == [job[p] EXCEPT !.status = early]
  <2>1. CASE early = "NONE"
    <3>1. offer.kind = "candidate"
      <4>1. offer \in Offer
          BY OffersAssumption DEF TypeOK
      <4>2. offer.kind # "absent" /\ offer.kind # "unresolved"
          BY <2>1 DEF EarlyStatus
      <4> QED
          BY <4>1, <4>2 DEF Offer
    <3>2. Becomes(p, [job[p] EXCEPT !.pc = "signer", !.offer = offer])
        BY <1>3, <2>1 DEF RefreshIndex
    <3>3. job'[p].pc = "signer" /\ job'[p].offer = offer
        BY <1>0, <3>2 DEF Becomes, Job
    <3> QED
        BY <3>1, <3>3 DEF Follows
  <2>2. CASE early # "NONE"
    <3>1. early \in Status /\ early # "UPDATE_AVAILABLE"
        BY DEF EarlyStatus, Status
    <3>2. j \in Job /\ j.status # "UPDATE_AVAILABLE" /\ j.offer = job[p].offer
        BY <1>0, <3>1 DEF Job
    <3>3. Planned(p, j)
        BY <1>3, <2>2 DEF RefreshIndex
    <3> HIDE DEF j
    <3> QED
        BY <1>e, <3>2, <3>3
  <2> QED
      BY <2>1, <2>2
<1>4. CASE ReadSigner(p) \/ PinSigner(p)
  <2>1. \E trusted : \/ Becomes(p, [job[p] EXCEPT !.pc = "pin"])
                     \/ Becomes(p, [job[p] EXCEPT !.pc = "compare", !.trusted = trusted])
      BY <1>4 DEF ReadSigner, PinSigner, Goto
  <2>2. job'[p].pc \in {"pin", "compare"} /\ job'[p].offer = job[p].offer
    <3>1. CASE Becomes(p, [job[p] EXCEPT !.pc = "pin"])
        BY <1>0, <3>1 DEF Becomes, Job
    <3>2. ASSUME NEW trusted,
                 Becomes(p, [job[p] EXCEPT !.pc = "compare", !.trusted = trusted])
          PROVE  job'[p].pc \in {"pin", "compare"} /\ job'[p].offer = job[p].offer
        BY <1>0, <3>2 DEF Becomes, Job
    <3> QED
        BY <2>1, <3>1, <3>2
  <2>3. job[p].pc \in Named
      BY <1>4 DEF ReadSigner, PinSigner, At
  <2> QED
      BY <1>b, <2>2, <2>3
<1>5. CASE Compare(p)
  <2> DEFINE status == PlanStatus(job[p], VersionsOf(job[p].app))
             j == [job[p] EXCEPT !.entryApp = job[p].app, !.status = status]
  <2>1. status \in Status
      BY DEF PlanStatus, Status
  <2>2. j \in Job /\ j.offer = job[p].offer
      BY <1>0, <2>1 DEF Job
  <2>3. Planned(p, j) /\ job[p].pc \in Named
      BY <1>5 DEF Compare, At
  <2> HIDE DEF j, status
  <2> QED
      BY <1>e, <2>2, <2>3
<1>6. CASE CompareUnreadable(p)
  <2> DEFINE j == [job[p] EXCEPT !.status = "SKIPPED"]
  <2>1. j \in Job /\ j.status # "UPDATE_AVAILABLE" /\ j.offer = job[p].offer
      BY <1>0 DEF Job, Status
  <2>2. Planned(p, j)
      BY <1>6 DEF CompareUnreadable
  <2> HIDE DEF j
  <2> QED
      BY <1>e, <2>1, <2>2
<1>7. CASE VerifyApks(p)
  <2>1. job[p].pc = "verify" /\ job'[p].pc = "prepare" /\ job'[p].offer = job[p].offer
      BY <1>0, <1>7 DEF VerifyApks, At, Becomes, Job
  <2> QED
      BY <1>b, <2>1
<1>8. CASE RejectApks(p)
  <2>1. job'[p].pc = "link"
      BY <1>0, <1>8 DEF RejectApks, Becomes, Job
  <2> QED
      BY <1>a, <2>1
<1>9. CASE Prepare(p)
  <2>1. CASE Goto(p, "versions")
    <3>1. job[p].pc = "prepare" /\ job'[p].pc = "versions" /\ job'[p].offer = job[p].offer
        BY <1>0, <1>9, <2>1 DEF Prepare, At, Goto, Becomes, Job
    <3> QED
        BY <1>b, <3>1
  <2> QED
      BY <1>9, <1>d, <2>1 DEF Prepare
<1>10. CASE ReadVersions(p)
  <2>1. ASSUME NEW ids, ~SameName(VersionsOf(job[p].entryApp), job[p].offer.name),
               Becomes(p, [job[p] EXCEPT !.pc = "configurations", !.known = ids])
        PROVE  Follows(p)
    <3>1. /\ job[p].pc = "versions" /\ job'[p].pc = "configurations"
          /\ job'[p].offer = job[p].offer
        BY <1>0, <1>10, <2>1 DEF ReadVersions, At, Becomes, Job
    <3> QED
        BY <1>10, <2>1, <3>1 DEF Follows
  <2> QED
      BY <1>10, <1>d, <2>1 DEF ReadVersions
<1>11. CASE ReadConfigurations(p)
  <2>1. /\ job[p].pc = "configurations" /\ job'[p].pc = "put"
        /\ job'[p].offer = job[p].offer
      BY <1>0, <1>11 DEF ReadConfigurations, At, Goto, Becomes, Job
  <2> QED
      BY <2>1 DEF Follows
<1>12. CASE CreateVersion(p)
  <2>1. PICK reply : Becomes(p, [job[p] EXCEPT !.pc = "record", !.reply = reply])
      BY <1>12 DEF CreateVersion
  <2>2. job[p].pc = "put" /\ job'[p].pc = "record" /\ job'[p].offer = job[p].offer
      BY <1>0, <1>12, <2>1 DEF CreateVersion, At, Becomes, Job
  <2> QED
      BY <1>12, <2>2 DEF Follows
<1>13. CASE CreateVersionLost(p) \/ RecordCreated(p) \/ PublishFails(p)
    BY <1>13, <1>d DEF CreateVersionLost, RecordCreated, PublishFails
<1>14. CASE LinkUp(p) /\ ~Finish(p)
  <2>1. LinkOne(p) => job'[p].pc = "resolve"
    <3>1. ASSUME NEW code, NEW app,
                 Becomes(p, [job[p] EXCEPT !.pc = "resolve", !.code = code, !.linkApp = app])
          PROVE  job'[p].pc = "resolve"
        BY <1>0, <3>1 DEF Becomes, Job
    <3> QED
        BY <1>14, <3>1 DEF LinkOne
  <2>2. ResolveVersion(p) => job'[p].pc = "installing"
    <3>1. ASSUME NEW id, Becomes(p, [job[p] EXCEPT !.pc = "installing", !.target = id])
          PROVE  job'[p].pc = "installing"
        BY <1>0, <3>1 DEF Becomes, Job
    <3> QED
        BY <1>14, <3>1 DEF ResolveVersion
  <2>3. ReadInstalling(p) => job'[p].pc = "rows"
      BY <1>0 DEF ReadInstalling, Becomes, Job
  <2>4. ReadRows(p) => job'[p].pc \in {"post", "pushed"}
    <3>1. ASSUME NEW next \in {"post", "pushed"}, NEW read,
                 Becomes(p, [job[p] EXCEPT !.pc = next, !.rows = read])
          PROVE  job'[p].pc = next
        BY <1>0, <3>1 DEF Becomes, Job
    <3> QED
        BY <3>1 DEF ReadRows
  <2>5. PostLinks(p) => job'[p].pc = "pushed"
      BY <1>0 DEF PostLinks, Goto, Becomes, Job
  <2> QED
      BY <1>14, <1>a, <2>1, <2>2, <2>3, <2>4, <2>5
      DEF LinkUp, PostLinksLost, RecordPushed, LinkFails
<1>15. CASE AbortRun(p) \/ Crash(p)
    BY <1>15, <1>c DEF AbortRun, Crash
<1> QED
    BY <1>1, <1>2, <1>3, <1>4, <1>5, <1>6, <1>7, <1>8, <1>9, <1>10, <1>11, <1>12, <1>13,
       <1>14, <1>15, <1>c DEF ProcStep, RunStep, Plan, Publish

\* Nobody takes the name of a candidate for another code, and nobody removes what
\* was recorded.
LEMMA NameStep ==
    ASSUME Sealed, NamesTellCodes, OverlapInv, NameInv, [Next]_vars
    PROVE  NameInv'
<1>0. TypeOK /\ offer \in Offers /\ \A q \in Proc : NameHolds(job[q])
    BY DEF OverlapInv, TypeOK, NameInv
<1>1. versions' = versions \/ \E o \in Offers : o.kind = "candidate" /\ Created(o)
    BY StepCreates
<1>2. ASSUME NEW q \in Proc, job'[q] = job[q] PROVE NameHolds(job[q])'
  <2>1. NameHolds(job[q])
      BY <1>0
  <2> QED
      BY <1>1, <1>2, <2>1, StillNamed DEF NameHolds
<1>3. ASSUME NEW p \in Proc, ProcStep(p) PROVE NameHolds(job[p])'
  <2>0. Follows(p) /\ NameHolds(job[p])
      BY <1>0, <1>3, StepFollows
  <2>1. job'[p].pc \in Named => job'[p].offer \in Offers /\ job'[p].offer.kind = "candidate"
      BY <1>0, <2>0 DEF Follows, NameHolds, Named
  <2>2. job'[p].pc \in {"configurations", "put"} =>
            \A v \in versions' : v.name = job'[p].offer.name => v.code = job'[p].offer.code
    <3>1. CASE /\ ReadVersions(p) /\ job'[p].offer = job[p].offer
               /\ ~SameName(VersionsOf(job[p].entryApp), job[p].offer.name)
      <4>1. versions' = versions /\ job[p].pc = "versions"
          BY <3>1 DEF ReadVersions, serverVars, At
      <4>2. VersionsOf(job[p].entryApp) = versions
          BY <4>1, WorksOnAll DEF Publishing
      <4> QED
          BY <3>1, <4>1, <4>2 DEF SameName
    <3>2. CASE job'[p].offer = job[p].offer /\ job[p].pc = "configurations"
        BY <1>1, <2>0, <3>2, StillNamed
    <3> QED
        BY <2>0, <3>1, <3>2 DEF Follows
  <2>3. job'[p].pc = "record" => \E v \in versions' : v.code = job'[p].offer.code
      BY <2>0, PutCreates DEF Follows, Puts
  <2> QED
      BY <2>1, <2>2, <2>3 DEF NameHolds, Named
<1>4. \A q \in Proc : NameHolds(job[q])'
    BY <1>0, <1>2, <1>3, WhoSteps, OnlyOneMoves
<1>5. CreatedExists'
  <2>1. versions \subseteq versions'
      BY <1>1 DEF Created
  <2>2. CASE row'.created = row.created
      BY <2>1, <2>2 DEF NameInv, CreatedExists
  <2>3. CASE row' = NoRow
      BY <2>3 DEF CreatedExists, NoRow
  <2>4. ASSUME NEW p \in Proc, RecordCreated(p), row'.created = job[p].offer.code
        PROVE  CreatedExists'
      BY <1>0, <2>1, <2>4 DEF CreatedExists, NameHolds, RecordCreated, At
  <2>5. row' = row \/ \E p \in Proc : RowStep(p)
      BY <1>0, WhoSteps, WritersApply
  <2>6. \A p \in Proc : RowStep(p) =>
            \/ row'.created = row.created \/ row' = NoRow
            \/ RecordCreated(p) /\ row'.created = job[p].offer.code
      BY <1>0, RowStepEffect
  <2> QED
      BY <2>2, <2>3, <2>4, <2>5, <2>6
<1> QED
    BY <1>4, <1>5 DEF NameInv

\* However many runs overlap, and whatever dies, the version recorded as created
\* exists in Headwind under its code: by a run's own PUT, and by no later one
\* rewriting it, as long as the index gives a version name to one code only.
THEOREM CreationsStay ==
    ASSUME Sealed, NamesTellCodes
    PROVE  Spec => []CreatedExists
<1>1. Init => OverlapInv /\ NameInv
  <2>1. Init => \A p \in Proc : job[p].pc = "idle"
      BY DEF Init, Idle
  <2>2. Init => NameInv
      BY <2>1 DEF Init, NoRow, NameInv, CreatedExists, NameHolds, Planning, Publishing
  <2> QED
      BY <2>2, OverlapInit
<1>2. OverlapInv /\ NameInv /\ [Next]_vars => (OverlapInv /\ NameInv)'
    BY OverlapStep, NameStep
<1>3. NameInv => CreatedExists
    BY DEF NameInv
<1> QED
    BY <1>1, <1>2, <1>3, PTL DEF Spec

=============================================================================
