----------------------------- MODULE SyncProofs -----------------------------
(***************************************************************************)
(* Theorems about Sync for every value of its constants, checked by TLAPS. *)
(***************************************************************************)
EXTENDS SyncProperties, TLAPS

-----------------------------------------------------------------------------
(* The server's operations keep its types.                                 *)

LEMMA AutoUpdatedType ==
    ASSUME ServerTypeOK, NEW app, NEW ver \in Nat \ {0}
    PROVE  AutoUpdated(app, ver) \in SUBSET Link
<1> SUFFICES ASSUME NEW l \in links
             PROVE  (IF l \in LinksOf(app) /\ l.conf \in AutoUpdate /\ l.action # 2
                     THEN [l EXCEPT !.ver = ver] ELSE l) \in Link
    BY DEF AutoUpdated
<1>1. l \in Link
    BY DEF ServerTypeOK
<1> QED
    BY <1>1 DEF Link

LEMMA StoreVersionType ==
    ASSUME ServerTypeOK, NEW app \in Apps, NEW name \in Names, NEW code \in Nat,
           StoreVersion(app, name, code)
    PROVE  ServerTypeOK'
<1>1. CASE \E v \in VersionsOf(app) : v.name = name /\ RewriteInPlace(v, code)
  <2>1. PICK v \in VersionsOf(app) : RewriteInPlace(v, code)
      BY <1>1
  <2>2. v \in Version
      BY DEF VersionsOf, ServerTypeOK
  <2>3. versions' \subseteq Version
      BY <2>1, <2>2 DEF RewriteInPlace, ServerTypeOK, Version
  <2>4. links' \subseteq Link
      BY <2>1, <2>2, AutoUpdatedType DEF RewriteInPlace, ServerTypeOK, Version
  <2> QED
      BY <2>1, <2>3, <2>4 DEF RewriteInPlace, ServerTypeOK
<1>2. CASE Insert(app, name, code)
  <2> DEFINE new == [id |-> nextId, app |-> app, name |-> name, code |-> code]
  <2>1. new \in Version
      BY DEF ServerTypeOK, Version
  <2>2. versions' \subseteq Version
      BY <1>2, <2>1 DEF Insert, ServerTypeOK
  <2>3. PICK top \in TopRanked(app, versions \cup {new}) :
            /\ latest' = [latest EXCEPT ![app] = top.id]
            /\ links' = IF top = new THEN AutoUpdated(app, nextId) ELSE links
      BY <1>2 DEF Insert
  <2>4. top \in Version
      BY <2>1, <2>3 DEF TopRanked, ServerTypeOK
  <2>5. latest' \in [Apps -> Nat]
      BY <2>3, <2>4 DEF ServerTypeOK, Version
  <2>6. links' \subseteq Link
      BY <2>3, AutoUpdatedType DEF ServerTypeOK
  <2>7. nextId' \in Nat \ {0} /\ carriers' = carriers
      BY <1>2 DEF Insert, ServerTypeOK
  <2> QED
      BY <2>2, <2>5, <2>6, <2>7 DEF ServerTypeOK
<1> QED
    BY <1>1, <1>2 DEF StoreVersion

LEMMA StoreLinksType ==
    ASSUME ServerTypeOK, NEW app, NEW ver \in Nat \ {0},
           NEW rows \in SUBSET LinkRow, StoreLinks(app, ver, rows)
    PROVE  ServerTypeOK'
<1>1. {[conf |-> r.conf, ver |-> ver, action |-> r.action] : r \in rows} \subseteq Link
    BY DEF LinkRow, Link
<1>2. links' \subseteq links \cup
            {[conf |-> r.conf, ver |-> ver, action |-> r.action] : r \in rows}
    BY DEF StoreLinks
<1>3. UNCHANGED <<carriers, versions, latest, nextId>>
    BY DEF StoreLinks
<1> QED
    BY <1>1, <1>2, <1>3 DEF ServerTypeOK

LEMMA RowsType ==
    ASSUME ServerTypeOK, NEW ver
    PROVE  RowsOf(ver) \in SUBSET LinkRow
BY DEF RowsOf, ServerTypeOK, Link, LinkRow

LEMMA LinksToSendType ==
    ASSUME NEW rows \in SUBSET LinkRow, NEW installing
    PROVE  LinksToSend(rows, installing) \in SUBSET LinkRow
BY DEF LinksToSend, LinkRow

LEMMA PanelRowsType ==
    ASSUME ServerTypeOK, NEW ver, NEW c \in Confs, NEW action \in 0..2
    PROVE  PanelRows(ver, c, action) \in SUBSET LinkRow
<1>1. RowsOf(ver) \in SUBSET LinkRow
    BY RowsType
<1>2. [conf |-> c, action |-> action] \in LinkRow
    BY DEF LinkRow
<1> QED
    BY <1>1, <1>2 DEF PanelRows

-----------------------------------------------------------------------------
(* The local state of a process and the row keep their types.              *)

LEMMA IdleType ==
    ASSUME TypeOK
    PROVE  Idle \in Job
<1>1. (CHOOSE o \in Offers : TRUE) \in Offer
    BY OffersAssumption DEF TypeOK
<1>2. [tracked |-> FALSE, auto |-> FALSE, paused |-> FALSE] \in Entry
    BY DEF Entry
<1> QED
    BY <1>1, <1>2 DEF Idle, Job, Label, Command, Status, Outcome

LEMMA BecomesType ==
    ASSUME TypeOK, NEW p \in Proc, NEW j \in Job, Becomes(p, j)
    PROVE  job' \in [Proc -> Job]
BY DEF TypeOK, Becomes

LEMMA FinishType ==
    ASSUME TypeOK, NEW p \in Proc, Finish(p)
    PROVE  job' \in [Proc -> Job]
BY IdleType, BecomesType DEF Finish

LEMMA SpendType ==
    ASSUME TypeOK, NEW d \in Disturbance, Spend(d)
    PROVE  left' \in [Disturbance -> Nat]
BY DEF TypeOK, Spend

LEMMA PlannedType ==
    ASSUME TypeOK, NEW p \in Proc, NEW j \in Job, Planned(p, j)
    PROVE  job' \in [Proc -> Job]
<1>1. [j EXCEPT !.pc = "verify"] \in Job /\ [j EXCEPT !.pc = "link"] \in Job
    BY DEF Job, Label
<1> QED
    BY <1>1, IdleType, BecomesType DEF Planned

LEMMA UpdateRowType ==
    ASSUME TypeOK, NEW r \in Row, UpdateRow(r)
    PROVE  row' \in Row
BY DEF TypeOK, UpdateRow

LEMMA StartRunType ==
    ASSUME TypeOK, NEW p \in Proc, NEW cmd \in Commands[p], StartRun(p, cmd)
    PROVE  TypeOK'
<1>1. cmd \in Command
    BY CommandsAssumption
<1>2. yaml \in Entry
    BY EntriesAssumption DEF TypeOK
<1>3. [Idle EXCEPT !.pc = "list", !.cmd = cmd, !.yaml = yaml] \in Job
    BY <1>1, <1>2, IdleType DEF Job, Label
<1> QED
    BY <1>3, BecomesType DEF StartRun, TypeOK, ServerTypeOK, serverVars

LEMMA PlanType ==
    ASSUME TypeOK, NEW p \in Proc, Plan(p)
    PROVE  TypeOK'
<1> USE DEF serverVars
<1>0. job[p] \in Job /\ row \in Row /\ offer \in Offer
    BY OffersAssumption DEF TypeOK
<1>1. CASE ListApplications(p)
  <2>1. Resolved(carriers) \in Apps \cup {NoApp}
      BY DEF Resolved, TypeOK, ServerTypeOK
  <2>2. [job[p] EXCEPT !.pc = "reconcile", !.app = Resolved(carriers)] \in Job
      BY <1>0, <2>1 DEF Job, Label
  <2> QED
      BY <1>1, <2>2, BecomesType DEF ListApplications, TypeOK, ServerTypeOK
<1>2. CASE Reconcile(p)
  <2>1. Upserted(row, job[p].app, job[p].yaml) \in Row /\ NoRow \in Row
      BY <1>0 DEF Upserted, NoRow, Row, Job, Entry
  <2>2. [job[p] EXCEPT !.pc = "index"] \in Job
      BY <1>0 DEF Job, Label
  <2>3. job' \in [Proc -> Job]
      BY <1>2, <2>2, BecomesType, FinishType DEF Reconcile, Goto
  <2> QED
      BY <1>2, <2>1, <2>3 DEF Reconcile, TypeOK, ServerTypeOK
<1>3. CASE RefreshIndex(p)
  <2>1. EarlyStatus(job[p], offer) \in Status
      BY DEF EarlyStatus, Status
  <2>2. /\ [job[p] EXCEPT !.pc = "signer", !.offer = offer] \in Job
        /\ [job[p] EXCEPT !.status = EarlyStatus(job[p], offer)] \in Job
      BY <1>0, <2>1 DEF Job, Label
  <2> QED
      BY <1>3, <2>2, BecomesType, PlannedType DEF RefreshIndex, TypeOK, ServerTypeOK
<1>4. CASE ReadSigner(p)
  <2>1. /\ [job[p] EXCEPT !.pc = "pin"] \in Job
        /\ [job[p] EXCEPT !.pc = "compare",
                          !.trusted = (row.signer = job[p].offer.signer)] \in Job
      BY <1>0 DEF Job, Label
  <2> QED
      BY <1>4, <2>1, BecomesType DEF ReadSigner, Goto, TypeOK, ServerTypeOK
<1>5. CASE PinSigner(p)
  <2>1. [row EXCEPT !.signer = IF @ = NoSigner THEN job[p].offer.signer ELSE @] \in Row
      BY <1>0 DEF Row, Job, Offer
  <2>2. [job[p] EXCEPT !.pc = "compare", !.trusted = TRUE] \in Job
      BY <1>0 DEF Job, Label
  <2> QED
      BY <1>5, <2>1, <2>2, UpdateRowType, BecomesType
      DEF PinSigner, TypeOK, ServerTypeOK
<1>6. CASE Compare(p)
  <2>1. [row EXCEPT !.seen = job[p].offer.code] \in Row
      BY <1>0 DEF Row, Job, Offer
  <2>2. PlanStatus(job[p], VersionsOf(job[p].app)) \in Status
      BY DEF PlanStatus, Status
  <2>3. [job[p] EXCEPT !.entryApp = job[p].app,
                       !.status = PlanStatus(job[p], VersionsOf(job[p].app))] \in Job
      BY <1>0, <2>2 DEF Job
  <2> QED
      BY <1>6, <2>1, <2>3, UpdateRowType, PlannedType DEF Compare, TypeOK, ServerTypeOK
<1>7. CASE CompareUnreadable(p)
  <2>1. [job[p] EXCEPT !.status = "SKIPPED"] \in Job
      BY <1>0 DEF Job, Status
  <2> QED
      BY <1>7, <2>1, SpendType, PlannedType
      DEF CompareUnreadable, Disturbance, TypeOK, ServerTypeOK
<1> QED
    BY <1>1, <1>2, <1>3, <1>4, <1>5, <1>6, <1>7 DEF Plan

LEMMA PublishesType ==
    ASSUME TypeOK, NEW p \in Proc, NEW outcome \in Outcome, Publishes(p, outcome)
    PROVE  job' \in [Proc -> Job]
<1>1. job[p] \in Job
    BY DEF TypeOK
<1>2. [job[p] EXCEPT !.pc = "link", !.outcome = outcome] \in Job
    BY <1>1 DEF Job, Label
<1> QED
    BY <1>2, BecomesType DEF Publishes

LEMMA PublishType ==
    ASSUME TypeOK, NEW p \in Proc, Publish(p)
    PROVE  TypeOK'
<1> USE DEF serverVars
<1>0. job[p] \in Job /\ row \in Row
    BY DEF TypeOK
<1>a. /\ job[p].offer.name \in Names /\ job[p].offer.code \in Nat
      /\ carriers \subseteq Apps
    BY <1>0 DEF Job, Offer, TypeOK, ServerTypeOK
<1>1. CASE VerifyApks(p)
  <2>1. [job[p] EXCEPT !.pc = "prepare", !.verified = TRUE] \in Job
      BY <1>0 DEF Job, Label
  <2> QED
      BY <1>1, <2>1, BecomesType DEF VerifyApks, TypeOK, ServerTypeOK
<1>2. CASE RejectApks(p)
  <2>1. [job[p] EXCEPT !.pc = "link", !.status = "REJECTED"] \in Job
      BY <1>0 DEF Job, Label, Status
  <2> QED
      BY <1>2, <2>1, BecomesType, SpendType
      DEF RejectApks, Disturbance, TypeOK, ServerTypeOK
<1>3. CASE Prepare(p)
  <2>1. [job[p] EXCEPT !.pc = "versions"] \in Job
      BY <1>0 DEF Job, Label
  <2>2. job' \in [Proc -> Job]
      BY <1>3, <2>1, BecomesType, PublishesType DEF Prepare, Goto, Outcome
  <2> QED
      BY <1>3, <2>2 DEF Prepare, TypeOK, ServerTypeOK
<1>4. CASE ReadVersions(p)
  <2> DEFINE vs == VersionsOf(job[p].entryApp)
  <2>1. Ids(vs) \in SUBSET (Nat \ {0})
      BY DEF Ids, VersionsOf, TypeOK, ServerTypeOK, Version
  <2>2. [job[p] EXCEPT !.pc = "configurations", !.known = Ids(vs)] \in Job
      BY <1>0, <2>1 DEF Job, Label
  <2>3. job' \in [Proc -> Job]
      BY <1>4, <2>2, BecomesType, PublishesType DEF ReadVersions, Outcome
  <2> QED
      BY <1>4, <2>3 DEF ReadVersions, TypeOK, ServerTypeOK
<1>5. CASE ReadConfigurations(p)
  <2>1. [job[p] EXCEPT !.pc = "put"] \in Job
      BY <1>0 DEF Job, Label
  <2> QED
      BY <1>5, <2>1, BecomesType DEF ReadConfigurations, Goto, TypeOK, ServerTypeOK
<1>6. CASE CreateVersion(p)
  <2>1. ServerTypeOK'
      BY <1>6, <1>a, StoreVersionType DEF CreateVersion, TypeOK
  <2>2. PICK reply \in {0} \cup {v.id : v \in versions'} :
            Becomes(p, [job[p] EXCEPT !.pc = "record", !.reply = reply])
      BY <1>6 DEF CreateVersion
  <2>3. reply \in Nat
      BY <2>1 DEF ServerTypeOK, Version
  <2>4. [job[p] EXCEPT !.pc = "record", !.reply = reply] \in Job
      BY <1>0, <2>3 DEF Job, Label
  <2> QED
      BY <1>6, <2>1, <2>2, <2>4, BecomesType DEF CreateVersion, TypeOK
<1>7. CASE CreateVersionLost(p)
  <2>1. ServerTypeOK'
      BY <1>7, <1>a, StoreVersionType DEF CreateVersionLost, TypeOK
  <2>2. job' \in [Proc -> Job] /\ left' \in [Disturbance -> Nat]
      BY <1>7, PublishesType, SpendType DEF CreateVersionLost, Outcome, Disturbance
  <2> QED
      BY <1>7, <2>1, <2>2 DEF CreateVersionLost, TypeOK
<1>8. CASE RecordCreated(p)
  <2>1. [row EXCEPT !.created = job[p].offer.code] \in Row
      BY <1>0, <1>a DEF Row
  <2>2. job' \in [Proc -> Job]
      BY <1>8, PublishesType DEF RecordCreated, Outcome
  <2> QED
      BY <1>8, <2>1, <2>2, UpdateRowType DEF RecordCreated, TypeOK, ServerTypeOK
<1>9. CASE PublishFails(p)
  <2>1. job' \in [Proc -> Job] /\ left' \in [Disturbance -> Nat]
      BY <1>9, PublishesType, SpendType DEF PublishFails, Outcome, Disturbance, TypeOK
  <2> QED
      BY <1>9, <2>1 DEF PublishFails, TypeOK, ServerTypeOK
<1> QED
    BY <1>1, <1>2, <1>3, <1>4, <1>5, <1>6, <1>7, <1>8, <1>9 DEF Publish

LEMMA SendLinksType ==
    ASSUME TypeOK, NEW p \in Proc, SendLinks(p)
    PROVE  ServerTypeOK'
<1>1. job[p].rows \in SUBSET LinkRow
    BY DEF TypeOK, Job
<1>2. LinksToSend(job[p].rows, job[p].installing) \in SUBSET LinkRow
    BY <1>1, LinksToSendType
<1>3. job[p].target \in Nat \ {0}
    BY DEF SendLinks, TargetExists, Ids, VersionsOf, TypeOK, ServerTypeOK, Version
<1> QED
    BY <1>2, <1>3, StoreLinksType DEF SendLinks, TypeOK

LEMMA LinkUpType ==
    ASSUME TypeOK, NEW p \in Proc, LinkUp(p)
    PROVE  TypeOK'
<1> USE DEF serverVars
<1>0. job[p] \in Job /\ row \in Row
    BY DEF TypeOK
<1>1. CASE LinkOne(p)
  <2>1. LinkApp(job[p], row) \in Apps \cup {NoApp} /\ row.created \in Nat
      BY <1>0 DEF LinkApp, Job, Row
  <2>2. [job[p] EXCEPT !.pc = "resolve", !.code = row.created,
                       !.linkApp = LinkApp(job[p], row)] \in Job
      BY <1>0, <2>1 DEF Job, Label
  <2>3. job' \in [Proc -> Job]
      BY <1>1, <2>2, BecomesType, FinishType DEF LinkOne
  <2> QED
      BY <1>1, <2>3 DEF LinkOne, TypeOK, ServerTypeOK
<1>2. CASE ResolveVersion(p)
  <2>1. \A v \in VersionsOf(job[p].linkApp) :
            [job[p] EXCEPT !.pc = "installing", !.target = v.id] \in Job
      BY <1>0 DEF Job, Label, VersionsOf, TypeOK, ServerTypeOK, Version
  <2>2. job' \in [Proc -> Job]
      BY <1>2, <2>1, BecomesType, FinishType DEF ResolveVersion
  <2> QED
      BY <1>2, <2>2 DEF ResolveVersion, TypeOK, ServerTypeOK
<1>3. CASE ReadInstalling(p)
  <2>1. InstallingConfs(job[p].linkApp) \in SUBSET Confs
      BY DEF InstallingConfs, LinksOf, TypeOK, ServerTypeOK, Link
  <2>2. [job[p] EXCEPT !.pc = "rows",
                       !.installing = InstallingConfs(job[p].linkApp)] \in Job
      BY <1>0, <2>1 DEF Job, Label
  <2> QED
      BY <1>3, <2>2, BecomesType DEF ReadInstalling, TypeOK, ServerTypeOK
<1>4. CASE ReadRows(p)
  <2>1. RowsOf(job[p].target) \in SUBSET LinkRow
      BY RowsType DEF TypeOK
  <2>2. \A next \in {"post", "pushed"} :
            [job[p] EXCEPT !.pc = next, !.rows = RowsOf(job[p].target)] \in Job
      BY <1>0, <2>1 DEF Job, Label
  <2>3. job' \in [Proc -> Job]
      BY <1>4, <2>2, BecomesType DEF ReadRows
  <2> QED
      BY <1>4, <2>3 DEF ReadRows, TypeOK, ServerTypeOK
<1>5. CASE PostLinks(p)
  <2>1. [job[p] EXCEPT !.pc = "pushed"] \in Job
      BY <1>0 DEF Job, Label
  <2> QED
      BY <1>5, <2>1, SendLinksType, BecomesType DEF PostLinks, Goto, TypeOK
<1>6. CASE PostLinksLost(p)
    BY <1>6, SendLinksType, FinishType, SpendType DEF PostLinksLost, Disturbance, TypeOK
<1>7. CASE RecordPushed(p)
  <2>1. [row EXCEPT !.pushed = job[p].code] \in Row
      BY <1>0 DEF Row, Job
  <2> QED
      BY <1>7, <2>1, UpdateRowType, FinishType DEF RecordPushed, TypeOK, ServerTypeOK
<1>8. CASE LinkFails(p)
    BY <1>8, FinishType, SpendType DEF LinkFails, Disturbance, TypeOK, ServerTypeOK
<1> QED
    BY <1>1, <1>2, <1>3, <1>4, <1>5, <1>6, <1>7, <1>8 DEF LinkUp

LEMMA StopType ==
    ASSUME TypeOK, NEW p \in Proc, AbortRun(p) \/ Crash(p)
    PROVE  TypeOK'
BY FinishType, SpendType
DEF AbortRun, Crash, Disturbance, TypeOK, ServerTypeOK, serverVars

LEMMA OperatorType ==
    ASSUME TypeOK, Operator
    PROVE  TypeOK'
<1> USE DEF serverVars
<1>1. left' \in [Disturbance -> Nat]
    BY SpendType
    DEF Operator, EditYaml, OperatorCreates, OperatorEdits, OperatorDeletes,
        OperatorInstalls, OperatorUninstalls, OperatorAddsApp, OperatorRemovesApp,
        Operates, Disturbance
<1>2. CASE EditYaml
    BY <1>1, <1>2 DEF EditYaml, TypeOK, ServerTypeOK
<1>3. CASE OperatorCreates
  <2>1. PICK a \in carriers, o \in OperatorVersions : StoreVersion(a, o.name, o.code)
      BY <1>3 DEF OperatorCreates
  <2>2. a \in Apps /\ o.name \in Names /\ o.code \in Nat
      BY OperatorVersionsAssumption DEF TypeOK, ServerTypeOK
  <2>3. ServerTypeOK'
      BY <2>1, <2>2, StoreVersionType DEF TypeOK
  <2> QED
      BY <1>1, <1>3, <2>3 DEF OperatorCreates, TypeOK
<1>4. CASE OperatorEdits
  <2>1. PICK v \in versions, o \in OperatorVersions :
            versions' = (versions \ {v})
                        \cup {[v EXCEPT !.name = o.name, !.code = o.code]}
      BY <1>4 DEF OperatorEdits
  <2>2. [v EXCEPT !.name = o.name, !.code = o.code] \in Version
      BY OperatorVersionsAssumption DEF TypeOK, ServerTypeOK, Version
  <2>3. versions' \subseteq Version
      BY <2>1, <2>2 DEF TypeOK, ServerTypeOK
  <2> QED
      BY <1>1, <1>4, <2>3 DEF OperatorEdits, TypeOK, ServerTypeOK
<1>5. CASE OperatorDeletes
  <2>1. PICK v \in versions :
            /\ versions' = versions \ {v}
            /\ \/ latest' = [latest EXCEPT ![v.app] = 0]
               \/ \E top \in TopRanked(v.app, versions \ {v}) :
                     latest' = [latest EXCEPT ![v.app] = top.id]
      BY <1>5 DEF OperatorDeletes
  <2>2. \A top \in TopRanked(v.app, versions \ {v}) : top.id \in Nat
      BY DEF TopRanked, TypeOK, ServerTypeOK, Version
  <2>3. PICK n \in Nat : latest' = [latest EXCEPT ![v.app] = n]
      BY <2>1, <2>2
  <2>4. latest' \in [Apps -> Nat]
      BY <2>3 DEF TypeOK, ServerTypeOK
  <2> QED
      BY <1>1, <1>5, <2>1, <2>4 DEF OperatorDeletes, TypeOK, ServerTypeOK
<1>6. CASE OperatorInstalls \/ OperatorUninstalls
  <2>1. PICK v \in versions, c \in Confs, action \in {1, 2} :
            StoreLinks(v.app, v.id, PanelRows(v.id, c, action))
      BY <1>6 DEF OperatorInstalls, OperatorUninstalls
  <2>2. v.id \in Nat \ {0}
      BY DEF TypeOK, ServerTypeOK, Version
  <2>3. PanelRows(v.id, c, action) \in SUBSET LinkRow
      BY PanelRowsType DEF TypeOK
  <2>4. ServerTypeOK'
      BY <2>1, <2>2, <2>3, StoreLinksType DEF TypeOK
  <2> QED
      BY <1>1, <1>6, <2>4 DEF OperatorInstalls, OperatorUninstalls, TypeOK
<1>7. CASE OperatorAddsApp
    BY <1>1, <1>7 DEF OperatorAddsApp, TypeOK, ServerTypeOK
<1>8. CASE OperatorRemovesApp
    BY <1>1, <1>8 DEF OperatorRemovesApp, TypeOK, ServerTypeOK
<1> QED
    BY <1>2, <1>3, <1>4, <1>5, <1>6, <1>7, <1>8 DEF Operator

LEMMA TypeStep ==
    ASSUME TypeOK, [Next]_vars
    PROVE  TypeOK'
<1>1. CASE \E p \in Proc : \E cmd \in Commands[p] : StartRun(p, cmd)
    BY <1>1, StartRunType
<1>2. CASE \E p \in Proc : RunStep(p) \/ Crash(p)
    BY <1>2, PlanType, PublishType, LinkUpType, StopType DEF RunStep
<1>3. CASE FDroidOffers
    BY <1>3, SpendType DEF FDroidOffers, Disturbance, TypeOK, ServerTypeOK, serverVars
<1>4. CASE Operator
    BY <1>4, OperatorType
<1>5. CASE UNCHANGED vars
    BY <1>5 DEF vars, serverVars, TypeOK, ServerTypeOK
<1> QED
    BY <1>1, <1>2, <1>3, <1>4, <1>5 DEF Next

LEMMA TypeInit ==
    ASSUME Init
    PROVE  TypeOK
<1>1. ServerTypeOK
    BY ServersAssumption DEF Init, ServerInit, ServerTypeOK, Server
<1>2. (CHOOSE o \in Offers : TRUE) \in Offer
    BY OffersAssumption DEF Init
<1>3. Idle \in Job
    BY <1>2 DEF Idle, Job, Entry, Label, Command, Status, Outcome
<1>4. NoRow \in Row
    BY DEF NoRow, Row
<1> QED
    BY <1>1, <1>3, <1>4, BudgetAssumption DEF Init, TypeOK

\* Every variable keeps its type, whatever the number of processes, applications,
\* configurations, names and disturbances.
THEOREM TypeInvariant == Spec => []TypeOK
<1>1. Init => TypeOK
    BY TypeInit
<1>2. TypeOK /\ [Next]_vars => TypeOK'
    BY TypeStep
<1> QED
    BY <1>1, <1>2, PTL DEF Spec

-----------------------------------------------------------------------------
(* One process at a time: nothing but the run itself writes the row, so what *)
(* it read stays true until it uses it.                                    *)

OneRun == \A p, q \in Proc : p = q

RunHolds(p) == PlanHolds(job[p]) /\ UpdateHolds(job[p]) /\ LinkHolds(job[p])

\* The inductive invariant.  LedgerOrdered alone is not inductive: RecordPushed
\* writes the code LinkOne read, RecordCreated the code Prepare compared.
IInv == TypeOK /\ LedgerOrdered /\ RunMatchesRow

LEMMA IdleHolds ==
    ASSUME TypeOK, NEW p \in Proc, Finish(p)
    PROVE  RunHolds(p)'
<1>1. job'[p].pc = "idle"
    BY DEF Finish, Becomes, Idle, TypeOK
<1> QED
    BY <1>1 DEF RunHolds, PlanHolds, UpdateHolds, LinkHolds,
                Planning, Publishing, Creating, Linking

LEMMA PlanInv ==
    ASSUME IInv, NEW p \in Proc, Plan(p)
    PROVE  LedgerOrdered' /\ RunHolds(p)'
<1> USE DEF RunHolds, PlanHolds, UpdateHolds, LinkHolds,
            Planning, Publishing, Creating, Linking
<1>0. /\ job[p] \in Job /\ row \in Row /\ job \in [Proc -> Job]
      /\ RunHolds(p) /\ TypeOK /\ row.pushed <= row.created
    BY DEF IInv, TypeOK, RunMatchesRow, LedgerOrdered
<1>1. CASE ListApplications(p)
    BY <1>0, <1>1 DEF ListApplications, At, Becomes, Job, LedgerOrdered
<1>2. CASE Reconcile(p)
  <2>1. CASE job[p].yaml.tracked
    <3>1. row' = Upserted(row, job[p].app, job[p].yaml)
        BY <1>2, <2>1 DEF Reconcile
    <3>2. /\ row'.pushed = row.pushed /\ row'.created = row.created
          /\ row'.tracked /\ row'.app = job[p].app
          /\ row'.paused = job[p].yaml.paused
        BY <1>0, <3>1 DEF Upserted, Row
    <3>3. CASE job[p].cmd = "status"
        BY <1>0, <1>2, <2>1, <3>2, <3>3, IdleHolds DEF Reconcile, LedgerOrdered
    <3>4. CASE job[p].cmd # "status"
      <4>1. job' = [job EXCEPT ![p] = [job[p] EXCEPT !.pc = "index"]]
          BY <1>2, <2>1, <3>4 DEF Reconcile, Goto, Becomes
      <4>2. job'[p].pc = "index" /\ job'[p].app = job[p].app
            /\ job'[p].yaml = job[p].yaml
          BY <1>0, <4>1 DEF Job
      <4> QED
          BY <1>0, <3>2, <4>2 DEF LedgerOrdered
    <3> QED
        BY <3>3, <3>4
  <2>2. CASE ~job[p].yaml.tracked
      BY <1>0, <1>2, <2>2, IdleHolds DEF Reconcile, LedgerOrdered, NoRow
  <2> QED
      BY <2>1, <2>2
<1>3. CASE RefreshIndex(p)
  <2>1. row' = row
      BY <1>3 DEF RefreshIndex
  <2>2. CASE EarlyStatus(job[p], offer) = "NONE"
    <3>1. ~job[p].yaml.paused
        BY <2>2 DEF EarlyStatus
    <3>2. job' = [job EXCEPT ![p] = [job[p] EXCEPT !.pc = "signer", !.offer = offer]]
        BY <1>3, <2>2 DEF RefreshIndex, Becomes
    <3>3. /\ job'[p].pc = "signer" /\ job'[p].app = job[p].app
          /\ job'[p].yaml = job[p].yaml
        BY <1>0, <3>2 DEF Job
    <3> QED
        BY <1>0, <1>3, <2>1, <3>1, <3>3 DEF RefreshIndex, At, LedgerOrdered
  <2>3. CASE EarlyStatus(job[p], offer) # "NONE"
    <3> DEFINE j == [job[p] EXCEPT !.status = EarlyStatus(job[p], offer)]
    <3>1. j.status # "UPDATE_AVAILABLE"
        BY <1>0 DEF EarlyStatus, Job
    <3>2. Planned(p, j)
        BY <1>3, <2>3 DEF RefreshIndex
    <3>3. Finish(p) \/ Becomes(p, [j EXCEPT !.pc = "link"])
        BY <3>1, <3>2 DEF Planned, Finish, Becomes
    <3>4. RunHolds(p)'
      <4>1. CASE Becomes(p, [j EXCEPT !.pc = "link"])
        <5>1. job'[p].pc = "link"
            BY <1>0, <4>1 DEF Becomes, Job
        <5> QED
            BY <5>1
      <4> QED
          BY <1>0, <3>3, <4>1, IdleHolds
    <3> QED
        BY <1>0, <2>1, <3>4 DEF LedgerOrdered
  <2> QED
      BY <2>2, <2>3
<1>4. CASE ReadSigner(p)
  <2>1. row' = row /\ job[p].pc = "signer"
      BY <1>4 DEF ReadSigner, At
  <2>2. CASE row.signer = NoSigner
    <3>1. job' = [job EXCEPT ![p] = [job[p] EXCEPT !.pc = "pin"]]
        BY <1>4, <2>2 DEF ReadSigner, Goto, Becomes
    <3>2. /\ job'[p].pc = "pin" /\ job'[p].app = job[p].app
          /\ job'[p].yaml = job[p].yaml
        BY <1>0, <3>1 DEF Job
    <3> QED
        BY <1>0, <2>1, <2>2, <3>2 DEF LedgerOrdered
  <2>3. CASE row.signer # NoSigner
    <3> DEFINE same == row.signer = job[p].offer.signer
    <3>1. job' = [job EXCEPT ![p] = [job[p] EXCEPT !.pc = "compare", !.trusted = same]]
        BY <1>4, <2>3 DEF ReadSigner, Becomes
    <3>2. /\ job'[p].pc = "compare" /\ job'[p].app = job[p].app
          /\ job'[p].yaml = job[p].yaml /\ job'[p].offer = job[p].offer
          /\ job'[p].trusted = same
        BY <1>0, <3>1 DEF Job
    <3> QED
        BY <1>0, <2>1, <3>2 DEF LedgerOrdered
  <2> QED
      BY <2>2, <2>3
<1>5. CASE PinSigner(p)
  <2>1. job[p].pc = "pin" /\ row.tracked /\ row.signer = NoSigner
      BY <1>0, <1>5 DEF PinSigner, At
  <2>2. row' = [row EXCEPT !.signer = job[p].offer.signer]
      BY <1>0, <1>5, <2>1 DEF PinSigner, UpdateRow, Row
  <2>3. /\ row'.signer = job[p].offer.signer /\ row'.tracked = row.tracked
        /\ row'.app = row.app /\ row'.paused = row.paused
        /\ row'.created = row.created /\ row'.pushed = row.pushed
      BY <1>0, <2>2 DEF Row
  <2>4. /\ job'[p].pc = "compare" /\ job'[p].app = job[p].app
        /\ job'[p].yaml = job[p].yaml /\ job'[p].offer = job[p].offer
      BY <1>0, <1>5 DEF PinSigner, Becomes, Job
  <2> QED
      BY <1>0, <2>1, <2>3, <2>4 DEF LedgerOrdered
<1>6. CASE Compare(p)
  <2> DEFINE status == PlanStatus(job[p], VersionsOf(job[p].app))
             j == [job[p] EXCEPT !.entryApp = job[p].app, !.status = status]
  <2>1. job[p].pc = "compare"
      BY <1>6 DEF Compare, At
  <2>2. row' = [row EXCEPT !.seen = job[p].offer.code]
      BY <1>0, <1>6, <2>1 DEF Compare, UpdateRow
  <2>3. /\ row'.signer = row.signer /\ row'.tracked = row.tracked
        /\ row'.app = row.app /\ row'.paused = row.paused
        /\ row'.created = row.created /\ row'.pushed = row.pushed
      BY <1>0, <2>2 DEF Row
  <2>4. status = "UPDATE_AVAILABLE" => job[p].trusted
      BY DEF PlanStatus
  <2>5. Planned(p, j)
      BY <1>6 DEF Compare
  <2>6. j.status = status
      BY <1>0 DEF Job
  <2>7. CASE status # "UPDATE_AVAILABLE" \/ j.cmd = "dry-run"
    <3>1. Finish(p) \/ Becomes(p, [j EXCEPT !.pc = "link"])
        BY <2>5, <2>6, <2>7 DEF Planned, Finish, Becomes
    <3>2. CASE Becomes(p, [j EXCEPT !.pc = "link"])
      <4>1. job'[p].pc = "link"
          BY <1>0, <3>2 DEF Becomes, Job
      <4> QED
          BY <1>0, <2>3, <4>1 DEF LedgerOrdered
    <3> QED
        BY <1>0, <2>3, <3>1, <3>2, IdleHolds DEF LedgerOrdered
  <2>8. CASE status = "UPDATE_AVAILABLE" /\ j.cmd # "dry-run"
    <3>1. Becomes(p, [j EXCEPT !.pc = "verify"])
        BY <2>5, <2>6, <2>8 DEF Planned, Becomes
    <3>2. /\ job'[p].pc = "verify" /\ job'[p].entryApp = job[p].app
          /\ job'[p].offer = job[p].offer
        BY <1>0, <3>1 DEF Becomes, Job
    <3> QED
        BY <1>0, <2>1, <2>3, <2>4, <2>8, <3>2 DEF LedgerOrdered
  <2> QED
      BY <2>7, <2>8
<1>7. CASE CompareUnreadable(p)
  <2> DEFINE j == [job[p] EXCEPT !.status = "SKIPPED"]
  <2>1. j.status # "UPDATE_AVAILABLE" /\ row' = row
      BY <1>0, <1>7 DEF CompareUnreadable, Job
  <2>2. Planned(p, j)
      BY <1>7 DEF CompareUnreadable
  <2>3. Finish(p) \/ Becomes(p, [j EXCEPT !.pc = "link"])
      BY <2>1, <2>2 DEF Planned, Finish, Becomes
  <2>4. CASE Becomes(p, [j EXCEPT !.pc = "link"])
    <3>1. job'[p].pc = "link"
        BY <1>0, <2>4 DEF Becomes, Job
    <3> QED
        BY <1>0, <2>1, <3>1 DEF LedgerOrdered
  <2> QED
      BY <1>0, <2>1, <2>3, <2>4, IdleHolds DEF LedgerOrdered
<1> QED
    BY <1>1, <1>2, <1>3, <1>4, <1>5, <1>6, <1>7 DEF Plan

\* A run that goes to its linking has nothing left to hold on to.
LEMMA LeavingHolds ==
    ASSUME TypeOK, NEW p \in Proc, job'[p].pc = "link"
    PROVE  RunHolds(p)'
BY DEF RunHolds, PlanHolds, UpdateHolds, LinkHolds, Planning, Publishing, Creating, Linking

LEMMA PublishesHolds ==
    ASSUME TypeOK, NEW p \in Proc, NEW outcome, Publishes(p, outcome)
    PROVE  RunHolds(p)'
<1>1. job'[p].pc = "link"
    BY DEF Publishes, Becomes, TypeOK, Job
<1> QED
    BY <1>1, LeavingHolds

LEMMA PublishInv ==
    ASSUME IInv, NEW p \in Proc, Publish(p)
    PROVE  LedgerOrdered' /\ RunHolds(p)'
<1> USE DEF RunHolds, PlanHolds, UpdateHolds, LinkHolds,
            Planning, Publishing, Creating, Linking
<1>0. /\ job[p] \in Job /\ row \in Row /\ job \in [Proc -> Job]
      /\ RunHolds(p) /\ TypeOK /\ row.pushed <= row.created
    BY DEF IInv, TypeOK, RunMatchesRow, LedgerOrdered
<1>1. CASE VerifyApks(p)
  <2>1. /\ job[p].pc = "verify" /\ job'[p].pc = "prepare" /\ row' = row
        /\ job'[p].offer = job[p].offer /\ job'[p].entryApp = job[p].entryApp
      BY <1>0, <1>1 DEF VerifyApks, At, Becomes, Job
  <2> QED
      BY <1>0, <2>1 DEF LedgerOrdered
<1>2. CASE RejectApks(p)
  <2>1. job'[p].pc = "link" /\ row' = row
      BY <1>0, <1>2 DEF RejectApks, Becomes, Job
  <2> QED
      BY <1>0, <2>1 DEF LedgerOrdered
<1>3. CASE Prepare(p)
  <2>1. row' = row /\ job[p].pc = "prepare"
      BY <1>3 DEF Prepare, At
  <2>2. CASE Publishes(p, "SKIPPED")
      BY <1>0, <2>1, <2>2, PublishesHolds DEF LedgerOrdered
  <2>3. CASE ~Publishes(p, "SKIPPED")
    <3>1. job[p].verified /\ ~(row.created >= job[p].offer.code)
        BY <1>3, <2>3 DEF Prepare, AlreadyCreated
    <3>2. row.created < job[p].offer.code
        BY <1>0, <3>1 DEF Row, Job, Offer
    <3>3. Goto(p, "versions")
        BY <1>3, <2>3 DEF Prepare
    <3>4. /\ job'[p].pc = "versions" /\ job'[p].verified = job[p].verified
          /\ job'[p].offer = job[p].offer /\ job'[p].entryApp = job[p].entryApp
        BY <1>0, <3>3 DEF Goto, Becomes, Job
    <3> QED
        BY <1>0, <2>1, <3>1, <3>2, <3>4 DEF LedgerOrdered
  <2> QED
      BY <2>2, <2>3
<1>4. CASE ReadVersions(p)
  <2>1. row' = row /\ job[p].pc = "versions"
      BY <1>4 DEF ReadVersions, At
  <2>2. CASE Publishes(p, "BLOCKED")
      BY <1>0, <2>1, <2>2, PublishesHolds DEF LedgerOrdered
  <2>3. CASE ~Publishes(p, "BLOCKED")
    <3>1. PICK ids : Becomes(p, [job[p] EXCEPT !.pc = "configurations", !.known = ids])
        BY <1>4, <2>3 DEF ReadVersions
    <3>2. /\ job'[p].pc = "configurations" /\ job'[p].verified = job[p].verified
          /\ job'[p].offer = job[p].offer /\ job'[p].entryApp = job[p].entryApp
        BY <1>0, <3>1 DEF Becomes, Job
    <3> QED
        BY <1>0, <2>1, <3>2 DEF LedgerOrdered
  <2> QED
      BY <2>2, <2>3
<1>5. CASE ReadConfigurations(p)
  <2>1. row' = row /\ job[p].pc = "configurations"
      BY <1>5 DEF ReadConfigurations, At
  <2>2. /\ job'[p].pc = "put" /\ job'[p].verified = job[p].verified
        /\ job'[p].offer = job[p].offer /\ job'[p].entryApp = job[p].entryApp
      BY <1>0, <1>5 DEF ReadConfigurations, Goto, Becomes, Job
  <2> QED
      BY <1>0, <2>1, <2>2 DEF LedgerOrdered
<1>6. CASE CreateVersion(p)
  <2>1. row' = row /\ job[p].pc = "put"
      BY <1>6 DEF CreateVersion, At
  <2>2. PICK reply : Becomes(p, [job[p] EXCEPT !.pc = "record", !.reply = reply])
      BY <1>6 DEF CreateVersion
  <2>3. /\ job'[p].pc = "record" /\ job'[p].offer = job[p].offer
        /\ job'[p].entryApp = job[p].entryApp
      BY <1>0, <2>2 DEF Becomes, Job
  <2> QED
      BY <1>0, <2>1, <2>3 DEF LedgerOrdered
<1>7. CASE CreateVersionLost(p)
    BY <1>0, <1>7, PublishesHolds DEF CreateVersionLost, LedgerOrdered
<1>8. CASE RecordCreated(p)
  <2>1. job[p].pc = "record"
      BY <1>8 DEF RecordCreated, At
  <2>2. row.created < job[p].offer.code
      BY <1>0, <2>1
  <2>3. \/ row' = row
        \/ row' = [row EXCEPT !.created = job[p].offer.code]
      BY <1>8 DEF RecordCreated, UpdateRow
  <2>4. \/ row' = row
        \/ row'.pushed = row.pushed /\ row'.created = job[p].offer.code
      BY <1>0, <2>3 DEF Row
  <2>5. row'.pushed <= row'.created
      BY <1>0, <2>2, <2>4 DEF Row, Job, Offer
  <2>6. RunHolds(p)'
      BY <1>0, <1>8, PublishesHolds DEF RecordCreated
  <2> QED
      BY <2>5, <2>6 DEF LedgerOrdered
<1>9. CASE PublishFails(p)
    BY <1>0, <1>9, PublishesHolds DEF PublishFails, LedgerOrdered
<1> QED
    BY <1>1, <1>2, <1>3, <1>4, <1>5, <1>6, <1>7, <1>8, <1>9 DEF Publish

LEMMA LinkUpInv ==
    ASSUME IInv, NEW p \in Proc, LinkUp(p)
    PROVE  LedgerOrdered' /\ RunHolds(p)'
<1> USE DEF RunHolds, PlanHolds, UpdateHolds, LinkHolds,
            Planning, Publishing, Creating, Linking
<1>0. /\ job[p] \in Job /\ row \in Row /\ job \in [Proc -> Job]
      /\ RunHolds(p) /\ TypeOK /\ row.pushed <= row.created
    BY DEF IInv, TypeOK, RunMatchesRow, LedgerOrdered
<1>1. CASE LinkOne(p)
  <2>1. row' = row
      BY <1>1 DEF LinkOne
  <2>2. CASE Finish(p)
      BY <1>0, <2>1, <2>2, IdleHolds DEF LedgerOrdered
  <2>3. CASE ~Finish(p)
    <3>1. Becomes(p, [job[p] EXCEPT !.pc = "resolve", !.code = row.created,
                                    !.linkApp = LinkApp(job[p], row)])
        BY <1>1, <2>3 DEF LinkOne
    <3>2. job'[p].pc = "resolve" /\ job'[p].code = row.created
        BY <1>0, <3>1 DEF Becomes, Job
    <3> QED
        BY <1>0, <2>1, <3>2 DEF LedgerOrdered
  <2> QED
      BY <2>2, <2>3
<1>2. CASE ResolveVersion(p)
  <2>1. row' = row /\ job[p].pc = "resolve"
      BY <1>2 DEF ResolveVersion, At
  <2>2. CASE Finish(p)
      BY <1>0, <2>1, <2>2, IdleHolds DEF LedgerOrdered
  <2>3. CASE ~Finish(p)
    <3>1. PICK id : Becomes(p, [job[p] EXCEPT !.pc = "installing", !.target = id])
        BY <1>2, <2>3 DEF ResolveVersion
    <3>2. job'[p].pc = "installing" /\ job'[p].code = job[p].code
        BY <1>0, <3>1 DEF Becomes, Job
    <3> QED
        BY <1>0, <2>1, <3>2 DEF LedgerOrdered
  <2> QED
      BY <2>2, <2>3
<1>3. CASE ReadInstalling(p)
  <2>1. /\ row' = row /\ job[p].pc = "installing"
        /\ job'[p].pc = "rows" /\ job'[p].code = job[p].code
      BY <1>0, <1>3 DEF ReadInstalling, At, Becomes, Job
  <2> QED
      BY <1>0, <2>1 DEF LedgerOrdered
<1>4. CASE ReadRows(p)
  <2>1. row' = row /\ job[p].pc = "rows"
      BY <1>4 DEF ReadRows, At
  <2>2. PICK next \in {"post", "pushed"}, read \in {RowsOf(job[p].target)} :
            Becomes(p, [job[p] EXCEPT !.pc = next, !.rows = read])
      BY <1>4 DEF ReadRows
  <2>3. job'[p].pc = next /\ job'[p].code = job[p].code
      BY <1>0, <2>2 DEF Becomes, Job
  <2> QED
      BY <1>0, <2>1, <2>3 DEF LedgerOrdered
<1>5. CASE PostLinks(p)
  <2>1. /\ row' = row /\ job[p].pc = "post"
        /\ job'[p].pc = "pushed" /\ job'[p].code = job[p].code
      BY <1>0, <1>5 DEF PostLinks, SendLinks, At, Goto, Becomes, Job
  <2> QED
      BY <1>0, <2>1 DEF LedgerOrdered
<1>6. CASE PostLinksLost(p)
    BY <1>0, <1>6, IdleHolds DEF PostLinksLost, LedgerOrdered
<1>7. CASE RecordPushed(p)
  <2>1. job[p].code = row.created
      BY <1>0, <1>7 DEF RecordPushed, At
  <2>2. \/ row' = row
        \/ row' = [row EXCEPT !.pushed = job[p].code]
      BY <1>7 DEF RecordPushed, UpdateRow
  <2>3. row'.pushed <= row'.created
      BY <1>0, <2>1, <2>2 DEF Row
  <2> QED
      BY <1>0, <1>7, <2>3, IdleHolds DEF RecordPushed, LedgerOrdered
<1>8. CASE LinkFails(p)
    BY <1>0, <1>8, IdleHolds DEF LinkFails, LedgerOrdered
<1> QED
    BY <1>1, <1>2, <1>3, <1>4, <1>5, <1>6, <1>7, <1>8 DEF LinkUp

LEMMA InvStep ==
    ASSUME OneRun, IInv, [Next]_vars
    PROVE  IInv'
<1>0. TypeOK /\ TypeOK'
    BY TypeStep DEF IInv
<1>1. ASSUME NEW p \in Proc, LedgerOrdered', RunHolds(p)'
      PROVE  IInv'
    BY <1>0, <1>1 DEF OneRun, IInv, RunMatchesRow, RunHolds
<1>2. CASE \E p \in Proc : \E cmd \in Commands[p] : StartRun(p, cmd)
  <2>1. PICK p \in Proc : \E cmd \in Commands[p] : StartRun(p, cmd)
      BY <1>2
  <2>2. row' = row /\ job'[p].pc = "list"
      BY <1>0, <2>1, IdleType DEF StartRun, Becomes, TypeOK, Job
  <2>3. RunHolds(p)'
      BY <2>2 DEF RunHolds, PlanHolds, UpdateHolds, LinkHolds,
                  Planning, Publishing, Creating, Linking
  <2> QED
      BY <1>1, <2>2, <2>3 DEF IInv, LedgerOrdered
<1>3. ASSUME NEW p \in Proc, RunStep(p) \/ Crash(p)
      PROVE  IInv'
  <2>1. CASE Plan(p) \/ Publish(p) \/ LinkUp(p)
      BY <1>1, <2>1, PlanInv, PublishInv, LinkUpInv
  <2>2. CASE AbortRun(p) \/ Crash(p)
      BY <1>0, <1>1, <2>2, IdleHolds DEF AbortRun, Crash, IInv, LedgerOrdered
  <2> QED
      BY <1>3, <2>1, <2>2 DEF RunStep
<1>4. CASE FDroidOffers \/ Operator \/ UNCHANGED vars
  <2>1. row' = row /\ job' = job
      BY <1>4
      DEF FDroidOffers, Operator, EditYaml, OperatorCreates, OperatorEdits,
          OperatorDeletes, OperatorInstalls, OperatorUninstalls, OperatorAddsApp,
          OperatorRemovesApp, vars
  <2> QED
      BY <1>0, <2>1 DEF IInv, LedgerOrdered, RunMatchesRow, PlanHolds, UpdateHolds, LinkHolds
<1> QED
    BY <1>2, <1>3, <1>4 DEF Next

\* With one process at a time, what a run read of the row is still true when it
\* writes: RunMatchesRow, together with the type and the order of the ledger.
THEOREM RunInvariant ==
    ASSUME OneRun
    PROVE  Spec => [](LedgerOrdered /\ RunMatchesRow)
<1>1. Init => IInv
  <2> SUFFICES ASSUME Init PROVE IInv
      OBVIOUS
  <2>1. TypeOK
      BY TypeInit
  <2>2. LedgerOrdered
      BY DEF Init, NoRow, LedgerOrdered
  <2>3. \A p \in Proc : job[p].pc = "idle"
      BY DEF Init, Idle
  <2>4. RunMatchesRow
      BY <2>3 DEF RunMatchesRow, PlanHolds, UpdateHolds, LinkHolds,
                  Planning, Publishing, Creating, Linking
  <2> QED
      BY <2>1, <2>2, <2>4 DEF IInv
<1>2. IInv /\ [Next]_vars => IInv'
    BY InvStep
<1>3. IInv => LedgerOrdered /\ RunMatchesRow
    BY DEF IInv
<1> QED
    BY <1>1, <1>2, <1>3, PTL DEF Spec

\* With one process at a time, last_pushed_version_code never exceeds
\* last_created_version_code, whatever the operators do and wherever runs stop.
THEOREM Ledger ==
    ASSUME OneRun
    PROVE  Spec => []LedgerOrdered
BY RunInvariant, PTL

\* With one process at a time, a version is only ever put in Headwind for a
\* package neither paused nor dropped, under the pinned key, verified, and above
\* the code recorded as created: the guards are passed many calls before the PUT.
THEOREM Publication ==
    ASSUME OneRun
    PROVE  Spec => PublicationGuarded
<1> DEFINE Guarded ==
        \A p \in Proc : Puts(p) =>
            /\ job[p].verified
            /\ row.tracked /\ ~row.paused
            /\ row.signer = job[p].offer.signer
            /\ row.created < job[p].offer.code
            /\ row.app = job[p].entryApp
<1>1. RunMatchesRow => Guarded
    BY DEF RunMatchesRow, UpdateHolds, Publishing, Creating,
           Puts, CreateVersion, CreateVersionLost, At
<1>2. RunMatchesRow /\ [Next]_vars => [Guarded]_vars
    BY <1>1
<1> QED
    BY <1>2, RunInvariant, PTL DEF Spec, PublicationGuarded

\* With one process at a time, neither recorded code ever decreases while the
\* package stays in packages.yaml.
THEOREM NoRewind ==
    ASSUME OneRun
    PROVE  Spec => LedgerNeverRewinds
<1> DEFINE Onward == row.tracked /\ row'.tracked
                       => row'.created >= row.created /\ row'.pushed >= row.pushed
<1>1. LedgerOrdered /\ RunMatchesRow /\ TypeOK /\ [Next]_vars => [Onward]_vars
  <2> SUFFICES ASSUME LedgerOrdered, RunMatchesRow, TypeOK, Next
               PROVE  Onward
      OBVIOUS
  <2>0. row \in Row /\ row.created \in Nat /\ row.pushed \in Nat
      BY DEF TypeOK, Row
  <2>1. CASE row' = row
      BY <2>0, <2>1
  <2>2. ASSUME NEW p \in Proc, Reconcile(p)
        PROVE  Onward
    <3>1. CASE row' = Upserted(row, job[p].app, job[p].yaml)
      <4>1. row'.created = row.created /\ row'.pushed = row.pushed
          BY <2>0, <3>1 DEF Upserted, Row
      <4> QED
          BY <2>0, <4>1
    <3>2. CASE row' = NoRow
        BY <3>2 DEF NoRow
    <3> QED
        BY <2>2, <3>1, <3>2 DEF Reconcile
  <2>3. ASSUME NEW p \in Proc, PinSigner(p) \/ Compare(p)
        PROVE  Onward
    <3>1. row'.created = row.created /\ row'.pushed = row.pushed
        BY <2>0, <2>3 DEF PinSigner, Compare, UpdateRow, Row
    <3> QED
        BY <2>0, <3>1
  <2>4. ASSUME NEW p \in Proc, RecordCreated(p)
        PROVE  Onward
    <3>1. row.created < job[p].offer.code /\ job[p].offer.code \in Nat
        BY <2>4 DEF RunMatchesRow, UpdateHolds, Creating, RecordCreated, At, TypeOK, Job, Offer
    <3>2. \/ row' = row
          \/ row'.created = job[p].offer.code /\ row'.pushed = row.pushed
        BY <2>0, <2>4 DEF RecordCreated, UpdateRow, Row
    <3> QED
        BY <2>0, <3>1, <3>2
  <2>5. ASSUME NEW p \in Proc, RecordPushed(p)
        PROVE  Onward
    <3>1. job[p].code = row.created
        BY <2>5 DEF RunMatchesRow, LinkHolds, Linking, RecordPushed, At
    <3>2. \/ row' = row
          \/ row'.created = row.created /\ row'.pushed = row.created
        BY <2>0, <2>5, <3>1 DEF RecordPushed, UpdateRow, Row
    <3> QED
        BY <2>0, <3>2 DEF LedgerOrdered
  <2>6. \/ row' = row
        \/ \E p \in Proc : \/ Reconcile(p) \/ PinSigner(p) \/ Compare(p)
                           \/ RecordCreated(p) \/ RecordPushed(p)
      BY DEF Next, RunStep, Plan, Publish, LinkUp, StartRun, ListApplications,
             RefreshIndex, ReadSigner, CompareUnreadable, VerifyApks, RejectApks,
             Prepare, ReadVersions, ReadConfigurations, CreateVersion,
             CreateVersionLost, PublishFails, LinkOne, ResolveVersion,
             ReadInstalling, ReadRows, PostLinks, PostLinksLost, LinkFails,
             AbortRun, Crash, FDroidOffers, Operator, EditYaml, OperatorCreates,
             OperatorEdits, OperatorDeletes, OperatorInstalls, OperatorUninstalls,
             OperatorAddsApp, OperatorRemovesApp
  <2> QED
      BY <2>1, <2>2, <2>3, <2>4, <2>5, <2>6
<1> QED
    BY <1>1, RunInvariant, TypeInvariant, PTL DEF Spec, LedgerNeverRewinds

-----------------------------------------------------------------------------
(* The ledger.                                                             *)

\* A row that is gone holds nothing.
Forgotten == row.tracked \/ row = NoRow

\* Only these steps write the row.
RowStep(p) ==
    Reconcile(p) \/ PinSigner(p) \/ Compare(p) \/ RecordCreated(p) \/ RecordPushed(p)

LEMMA RowWriters ==
    ASSUME [Next]_vars
    PROVE  row' = row \/ \E p \in Proc : RowStep(p)
BY DEF Next, RowStep, RunStep, Plan, Publish, LinkUp, StartRun, ListApplications,
       RefreshIndex, ReadSigner, CompareUnreadable, VerifyApks, RejectApks,
       Prepare, ReadVersions, ReadConfigurations, CreateVersion,
       CreateVersionLost, PublishFails, LinkOne, ResolveVersion,
       ReadInstalling, ReadRows, PostLinks, PostLinksLost, LinkFails,
       AbortRun, Crash, FDroidOffers, Operator, EditYaml, OperatorCreates,
       OperatorEdits, OperatorDeletes, OperatorInstalls, OperatorUninstalls,
       OperatorAddsApp, OperatorRemovesApp, vars

LEMMA ForgottenStep ==
    ASSUME TypeOK, Forgotten, [Next]_vars
    PROVE  Forgotten'
<1>0. row \in Row
    BY DEF TypeOK
<1>1. CASE row' = row
    BY <1>1 DEF Forgotten
<1>2. ASSUME NEW p \in Proc, RowStep(p)
      PROVE  Forgotten'
  <2>1. CASE Reconcile(p)
      BY <1>0, <2>1 DEF Reconcile, Upserted, Forgotten, Row
  <2>2. CASE ~Reconcile(p)
    <3>1. \/ row' = row
          \/ row.tracked /\ row'.tracked = row.tracked
        BY <1>0, <1>2, <2>2
        DEF RowStep, PinSigner, Compare, RecordCreated, RecordPushed, UpdateRow, Row
    <3> QED
        BY <3>1 DEF Forgotten
  <2> QED
      BY <2>1, <2>2
<1> QED
    BY <1>1, <1>2, RowWriters

LEMMA LedgerStep ==
    ASSUME TypeOK, Forgotten, LedgerOrdered, RunMatchesRow, [Next]_vars
    PROVE  [Remembered!Next]_(Remembered!ledger)
<1>0. /\ row \in Row /\ row.created \in Nat /\ row.pushed \in Nat
      /\ row.pushed <= row.created /\ job \in [Proc -> Job]
    BY DEF TypeOK, Row, LedgerOrdered
<1>1. CASE row' = row
    BY <1>1 DEF Remembered!ledger
<1>2. ASSUME NEW p \in Proc, Reconcile(p)
      PROVE  [Remembered!Next]_(Remembered!ledger)
  <2>1. CASE row' = NoRow /\ row.tracked
    <3>1. Remembered!Drop
        BY <2>1 DEF Remembered!Drop, NoRow
    <3> QED
        BY <3>1 DEF Remembered!Next
  <2>2. CASE row' = NoRow /\ ~row.tracked
      BY <2>2 DEF Forgotten, Remembered!ledger
  <2>3. CASE row' = Upserted(row, job[p].app, job[p].yaml)
    <3>1. /\ row'.tracked = TRUE /\ row'.signer = row.signer
          /\ row'.created = row.created /\ row'.pushed = row.pushed
        BY <1>0, <2>3 DEF Upserted, Row
    <3>2. CASE row.tracked
        BY <1>0, <3>1, <3>2 DEF Remembered!ledger, Row
    <3>3. CASE ~row.tracked
      <4>1. Remembered!Track
          BY <3>1, <3>3 DEF Forgotten, NoRow, Remembered!Track
      <4> QED
          BY <4>1 DEF Remembered!Next
    <3> QED
        BY <3>2, <3>3
  <2> QED
      BY <1>2, <2>1, <2>2, <2>3 DEF Reconcile
<1>3. ASSUME NEW p \in Proc, PinSigner(p), row' # row
      PROVE  Remembered!Pin
  <2>1. row.tracked /\ row.signer = NoSigner /\ job[p].offer.signer \in Signers
      BY <1>0, <1>3 DEF PinSigner, UpdateRow, Row, Job, Offer
  <2>2. row' = [row EXCEPT !.signer = job[p].offer.signer]
      BY <1>3, <2>1 DEF PinSigner, UpdateRow
  <2>3. /\ row'.tracked = row.tracked /\ row'.signer = job[p].offer.signer
        /\ row'.created = row.created /\ row'.pushed = row.pushed
      BY <1>0, <2>2 DEF Row
  <2> QED
      BY <2>1, <2>3 DEF Remembered!Pin
<1>4. ASSUME NEW p \in Proc, Compare(p)
      PROVE  UNCHANGED Remembered!ledger
    BY <1>0, <1>4 DEF Compare, UpdateRow, Row, Remembered!ledger
<1>5. ASSUME NEW p \in Proc, RecordCreated(p), row' # row
      PROVE  Remembered!Create
  <2>1. /\ row.tracked /\ row.signer = job[p].offer.signer
        /\ row.created < job[p].offer.code
      BY <1>5 DEF RunMatchesRow, UpdateHolds, Publishing, Creating, RecordCreated, At
  <2>2. row.signer # NoSigner /\ job[p].offer.code \in Nat
      BY <1>0, <2>1, NullAssumption DEF Job, Offer
  <2>3. row' = [row EXCEPT !.created = job[p].offer.code]
      BY <1>5, <2>1 DEF RecordCreated, UpdateRow
  <2>4. /\ row'.tracked = row.tracked /\ row'.signer = row.signer
        /\ row'.created = job[p].offer.code /\ row'.pushed = row.pushed
      BY <1>0, <2>3 DEF Row
  <2> QED
      BY <1>0, <2>1, <2>2, <2>4 DEF Remembered!Create
<1>6. ASSUME NEW p \in Proc, RecordPushed(p), row' # row
      PROVE  Remembered!Link
  <2>1. job[p].code = row.created
      BY <1>6 DEF RunMatchesRow, LinkHolds, Linking, RecordPushed, At
  <2>2. row.tracked /\ row' = [row EXCEPT !.pushed = row.created]
      BY <1>6, <2>1 DEF RecordPushed, UpdateRow
  <2>3. row.pushed # row.created
      BY <1>0, <1>6, <2>2 DEF Row
  <2>4. row.pushed < row.created
      BY <1>0, <2>3
  <2>5. /\ row'.tracked = row.tracked /\ row'.signer = row.signer
        /\ row'.created = row.created /\ row'.pushed = row.created
      BY <1>0, <2>2 DEF Row
  <2> QED
      BY <2>2, <2>4, <2>5 DEF Remembered!Link
<1> QED
    BY <1>1, <1>2, <1>3, <1>4, <1>5, <1>6, RowWriters DEF RowStep, Remembered!Next

\* With one process at a time, the row cannot be told from a ledger that only
\* moves forward, whatever faults, crashes, operators and edits come between.
THEOREM LedgerRefined ==
    ASSUME OneRun
    PROVE  Spec => ImplementsLedger
<1>1. Init => Forgotten /\ Remembered!Init
    BY DEF Init, Forgotten, NoRow, Remembered!Init
<1>2. TypeOK /\ Forgotten /\ [Next]_vars => Forgotten'
    BY ForgottenStep
<1>3. TypeOK /\ Forgotten /\ LedgerOrdered /\ RunMatchesRow /\ [Next]_vars
        => [Remembered!Next]_(Remembered!ledger)
    BY LedgerStep
<1> QED
    BY <1>1, <1>2, <1>3, TypeInvariant, RunInvariant, PTL
    DEF Spec, Remembered!Spec, ImplementsLedger

-----------------------------------------------------------------------------
(* Uninstalls.                                                             *)

\* A POST only drops an uninstall that was requested on its target after its rows
\* were read: any number of processes, operators and applications.
THEOREM Uninstalls == Spec => PostKeepsUninstalls
<1> DEFINE Kept ==
        \A p \in Proc : Posts(p) =>
            \A l \in links :
                l.action = 2 /\ (l.ver = job[p].target
                                   => [conf |-> l.conf, action |-> 2] \in job[p].rows)
                => l \in links'
<1>1. TypeOK => Kept
  <2> SUFFICES ASSUME TypeOK, NEW p \in Proc, Posts(p), NEW l \in links,
                      l.action = 2,
                      l.ver = job[p].target
                        => [conf |-> l.conf, action |-> 2] \in job[p].rows
               PROVE  l \in links'
      OBVIOUS
  <2> DEFINE sent == LinksToSend(job[p].rows, job[p].installing)
  <2>1. l \in Link
      BY DEF TypeOK, ServerTypeOK
  <2>2. StoreLinks(job[p].linkApp, job[p].target, sent)
      BY DEF Posts, PostLinks, PostLinksLost, SendLinks
  <2>3. CASE l.ver = job[p].target
    <3> DEFINE r == [conf |-> l.conf, action |-> 2]
    <3>1. r \in sent
        BY <2>3 DEF LinksToSend
    <3>2. l = [conf |-> r.conf, ver |-> job[p].target, action |-> r.action]
        BY <2>1, <2>3 DEF Link
    <3> HIDE DEF sent, r
    <3> QED
        BY <2>2, <3>1, <3>2 DEF StoreLinks
  <2>4. CASE l.ver # job[p].target
      BY <2>2, <2>4 DEF StoreLinks
  <2> QED
      BY <2>3, <2>4
<1>2. TypeOK /\ [Next]_vars => [Kept]_vars
    BY <1>1
<1> QED
    BY <1>2, TypeInvariant, PTL DEF Spec, PostKeepsUninstalls

=============================================================================
