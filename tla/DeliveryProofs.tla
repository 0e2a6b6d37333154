--------------------------- MODULE DeliveryProofs ---------------------------
(***************************************************************************)
(* What the service delivers, for every value of the constants of Sync,    *)
(* while nobody else writes to Headwind and one run at most publishes and  *)
(* links: theorems about SyncProperties that need an invariant of the      *)
(* server, checked by TLAPS.                                               *)
(***************************************************************************)
EXTENDS SyncProofs

-----------------------------------------------------------------------------
(* The hypotheses.                                                         *)

\* Nobody but the service writes to Headwind; packages.yaml may be edited.
Sealed == OperatorMoves \subseteq {"yaml"}

\* At most one process is ever given sync --apply.
OneApplier ==
    \A p, q \in Proc : "apply" \in Commands[p] /\ "apply" \in Commands[q] => p = q

\* The package is never dropped from packages.yaml.
AlwaysDeclared == \A e \in Entries : e.tracked

\* One run at a time; or one that applies, beside any number of status and dry
\* runs that never delete the row.
Alone == OneRun \/ (OneApplier /\ AlwaysDeclared)

-----------------------------------------------------------------------------
(* The invariant.                                                          *)

Application == Resolved(carriers)

\* Links only point at versions, versions only belong to the applications that
\* carry the package, ids are never reused.
ServerSound ==
    /\ UniqueIds(versions)
    /\ \A v \in versions : v.id < nextId /\ v.app \in carriers
    /\ \A l \in links : l.ver \in Ids(versions)

Applying == Publishing \cup {"link"} \cup Linking

\* A run works on the one application that carries the package.
AppHolds(j) ==
    /\ j.entryApp \in {NoApp, Application}
    /\ j.pc \in {"reconcile"} \cup Planning => j.app = Application
    /\ j.pc \in Planning \ {"index"} => j.app # NoApp
    /\ j.pc \in Publishing => j.entryApp # NoApp
    /\ j.pc \in Linking => j.linkApp = Application /\ Application # NoApp

\* Only sync --apply goes past the plan.
CommandHolds(p) ==
    /\ job[p].pc # "idle" => job[p].cmd \in Commands[p] /\ job[p].yaml \in Entries
    /\ job[p].pc \in Planning => job[p].cmd # "status"
    /\ job[p].pc \in Applying => job[p].cmd = "apply"

\* No uninstall is requested on a version of this code.
Clean(code) ==
    \A v \in versions, l \in links : v.code = code /\ l.ver = v.id => l.action # 2

\* No version is newer than this code.
Newest(code) == \A v \in versions : v.code <= code

\* No configuration installs an older code.
Reached(code) == \A c \in Confs : \A old \in InstalledCodes(c) : old >= code

\* The progress of a run follows the ledger, and the versions it is about.
ProgressHolds(j) ==
    /\ j.pc \in Creating => row.created < j.offer.code
    /\ j.pc = "record" => Clean(j.offer.code) /\ Newest(j.offer.code)
    /\ j.pc \in Linking => j.code = row.created /\ row.created # 0
    /\ j.pc = "pushed" => Reached(j.code)

RunSound(p) ==
    /\ AppHolds(job[p])
    /\ CommandHolds(p)
    /\ ProgressHolds(job[p])
    /\ PublicationReads(job[p])
    /\ LinkReads(job[p])

\* Disturbances only run out.
LeftHolds == \A d \in Disturbance : left[d] <= Budget[d]

\* As long as no run lost track of a creation, the ledger knows the newest code.
CaughtUp ==
    Lossless /\ row.created # 0 /\ (\A p \in Proc : job[p].pc # "record")
        => Newest(row.created)

RowSound ==
    /\ Forgotten
    /\ row.app \in {NoApp, Application}
    /\ row.created # 0 => Clean(row.created)
    /\ CaughtUp

LedgerSound ==
    /\ LedgerOrdered
    /\ CreatedExists
    /\ PushedIsDelivered
    /\ RowSound

DeliveryInv ==
    /\ TypeOK
    /\ LeftHolds
    /\ ServerSound
    /\ LedgerSound
    /\ \A p \in Proc : RunSound(p)

-----------------------------------------------------------------------------
(* The server's operations, on one application.                            *)

LEMMA OneApplication ==
    ASSUME TypeOK, ServerSound, Application # NoApp
    PROVE  /\ Application \in carriers
           /\ VersionsOf(Application) = versions
           /\ LinksOf(Application) = links
<1>1. carriers = {Application}
    BY DEF Application, Resolved
<1>2. VersionsOf(Application) = versions
    BY <1>1 DEF VersionsOf, ServerSound
<1>3. LinksOf(Application) = links
    BY <1>2 DEF LinksOf, ServerSound
<1> QED
    BY <1>1, <1>2, <1>3

\* A link after a PUT is one of before, or was moved by the auto-update.
Moved(l, k, ver) ==
    /\ l.conf = k.conf /\ l.action = k.action
    /\ \/ l = k
       \/ l.ver = ver /\ k.conf \in AutoUpdate /\ k.action # 2

\* The auto-update moves links to the version it is given, and drops none.
LEMMA AutoUpdateMoves ==
    ASSUME ServerTypeOK, NEW app, NEW ver,
           links' = links \/ links' = AutoUpdated(app, ver)
    PROVE  /\ \A l \in links' : \E k \in links : Moved(l, k, ver)
           /\ \A k \in links : \E l \in links' : Moved(l, k, ver)
<1>1. links \subseteq Link
    BY DEF ServerTypeOK
<1>2. CASE links' = links
  <2>1. \A k \in links : Moved(k, k, ver)
      BY DEF Moved
  <2> QED
      BY <1>2, <2>1
<1>3. CASE links' = AutoUpdated(app, ver)
  <2> DEFINE to(k) == IF k \in LinksOf(app) /\ k.conf \in AutoUpdate /\ k.action # 2
                      THEN [k EXCEPT !.ver = ver] ELSE k
  <2>1. \A k \in links : Moved(to(k), k, ver)
    <3> SUFFICES ASSUME NEW k \in links PROVE Moved(to(k), k, ver)
        OBVIOUS
    <3>1. k \in Link
        BY <1>1
    <3>2. to(k).conf = k.conf /\ to(k).action = k.action
        BY <3>1 DEF Link
    <3>3. \/ to(k) = k
          \/ to(k).ver = ver /\ k.conf \in AutoUpdate /\ k.action # 2
        BY <3>1 DEF Link
    <3> HIDE DEF to
    <3> QED
        BY <3>2, <3>3 DEF Moved
  <2>2. links' = {to(k) : k \in links}
      BY <1>3 DEF AutoUpdated
  <2> HIDE DEF to
  <2> QED
      BY <2>1, <2>2
<1> QED
    BY <1>2, <1>3

LEMMA InsertMoves ==
    ASSUME ServerTypeOK, NEW app \in Apps, NEW name \in Names, NEW code \in Nat,
           Insert(app, name, code)
    PROVE  /\ \A l \in links' : \E k \in links : Moved(l, k, nextId)
           /\ \A k \in links : \E l \in links' : Moved(l, k, nextId)
<1>1. links' = links \/ links' = AutoUpdated(app, nextId)
    BY DEF Insert
<1> QED
    BY <1>1, AutoUpdateMoves

LEMMA InsertSound ==
    ASSUME ServerTypeOK, ServerSound, NEW app \in carriers, NEW name \in Names,
           NEW code \in Nat, Insert(app, name, code)
    PROVE  ServerSound'
<1> DEFINE new == [id |-> nextId, app |-> app, name |-> name, code |-> code]
<1>1. /\ versions' = versions \cup {new}
      /\ nextId' = nextId + 1 /\ carriers' = carriers
    BY DEF Insert
<1>2. new.id = nextId /\ new.app = app
    OBVIOUS
<1>3. nextId \in Nat /\ \A v \in versions : v.id \in Nat /\ v.id < nextId
    BY DEF ServerTypeOK, Version, ServerSound
<1> HIDE DEF new
<1>4. UniqueIds(versions)'
    BY <1>1, <1>2, <1>3 DEF UniqueIds, ServerSound
<1>5. \A v \in versions' : v.id < nextId' /\ v.app \in carriers'
    BY <1>1, <1>2, <1>3 DEF ServerSound
<1>6. \A l \in links' : l.ver \in Ids(versions)'
  <2> SUFFICES ASSUME NEW l \in links' PROVE l.ver \in Ids(versions)'
      OBVIOUS
  <2>1. PICK k \in links : Moved(l, k, nextId)
      BY InsertMoves DEF ServerTypeOK
  <2>2. l.ver = k.ver \/ l.ver = new.id
      BY <1>2, <2>1 DEF Moved
  <2>3. k.ver \in Ids(versions)
      BY DEF ServerSound
  <2> QED
      BY <1>1, <2>2, <2>3 DEF Ids
<1> QED
    BY <1>4, <1>5, <1>6 DEF ServerSound

\* A configuration goes on installing what it installed, or installs the new
\* version instead; one that installed nothing still does.
LEMMA InsertInstalled ==
    ASSUME ServerTypeOK, ServerSound, NEW app \in carriers, NEW name \in Names,
           NEW code \in Nat, Insert(app, name, code), NEW c \in Confs
    PROVE  /\ InstalledCodes(c)' \subseteq InstalledCodes(c) \cup {code}
           /\ InstalledCodes(c)' = {} <=> InstalledCodes(c) = {}
<1> DEFINE new == [id |-> nextId, app |-> app, name |-> name, code |-> code]
<1>1. versions' = versions \cup {new}
    BY DEF Insert
<1>2. new.id = nextId /\ new.code = code
    OBVIOUS
<1>3. \A v \in versions : v.id # nextId
    BY DEF ServerTypeOK, Version, ServerSound
<1>4. \A l \in links : l.ver # nextId
    BY <1>3 DEF ServerSound, Ids
<1> HIDE DEF new
<1>5. ASSUME NEW v \in versions', NEW l \in links',
             l.ver = v.id, l.conf = c, l.action = 1
      PROVE  /\ v.code \in InstalledCodes(c) \cup {code}
             /\ InstalledCodes(c) # {}
  <2>1. PICK k \in links : Moved(l, k, nextId)
      BY InsertMoves DEF ServerTypeOK
  <2>2. k.conf = c /\ k.action = 1
      BY <1>5, <2>1 DEF Moved
  <2>3. PICK w \in versions : w.id = k.ver
      BY DEF ServerSound, Ids
  <2>4. w.code \in InstalledCodes(c)
      BY <2>2, <2>3 DEF InstalledCodes
  <2>5. v = new \/ v = w
      BY <1>1, <1>2, <1>3, <1>5, <2>1, <2>3 DEF Moved, ServerSound, UniqueIds
  <2> QED
      BY <1>2, <2>4, <2>5
<1>6. ASSUME NEW w \in versions, NEW k \in links,
             k.ver = w.id, k.conf = c, k.action = 1
      PROVE  InstalledCodes(c)' # {}
  <2>1. PICK l \in links' : Moved(l, k, nextId)
      BY InsertMoves DEF ServerTypeOK
  <2>2. l.conf = c /\ l.action = 1
      BY <1>6, <2>1 DEF Moved
  <2>3. PICK v \in versions' : v.id = l.ver
      BY <1>1, <1>2, <1>6, <2>1 DEF Moved
  <2>4. v.code \in InstalledCodes(c)'
      BY <2>2, <2>3 DEF InstalledCodes
  <2> QED
      BY <2>4
<1>7. ASSUME NEW x \in InstalledCodes(c)'
      PROVE  x \in InstalledCodes(c) \cup {code} /\ InstalledCodes(c) # {}
  <2>1. PICK v \in versions', l \in links' :
            x = v.code /\ l.ver = v.id /\ l.conf = c /\ l.action = 1
      BY DEF InstalledCodes
  <2> QED
      BY <1>5, <2>1
<1>8. ASSUME NEW x \in InstalledCodes(c)
      PROVE  InstalledCodes(c)' # {}
  <2>1. PICK v \in versions, l \in links :
            x = v.code /\ l.ver = v.id /\ l.conf = c /\ l.action = 1
      BY DEF InstalledCodes
  <2> QED
      BY <1>6, <2>1
<1> QED
    BY <1>7, <1>8

\* An insertion requests no uninstall.
LEMMA InsertClean ==
    ASSUME ServerTypeOK, ServerSound, NEW app \in carriers, NEW name \in Names,
           NEW code \in Nat, Insert(app, name, code), NEW other,
           other = code => \A v \in versions : v.code # code,
           other # code => Clean(other)
    PROVE  Clean(other)'
<1> DEFINE new == [id |-> nextId, app |-> app, name |-> name, code |-> code]
<1>1. versions' = versions \cup {new}
    BY DEF Insert
<1>2. new.id = nextId /\ new.code = code
    OBVIOUS
<1>3. \A v \in versions : v.id # nextId
    BY DEF ServerTypeOK, Version, ServerSound
<1>4. \A l \in links : l.ver # nextId
    BY <1>3 DEF ServerSound, Ids
<1> HIDE DEF new
<1> SUFFICES ASSUME NEW v \in versions', NEW l \in links', v.code = other, l.ver = v.id
             PROVE  l.action # 2
    BY DEF Clean
<1>5. PICK k \in links : Moved(l, k, nextId)
    BY InsertMoves DEF ServerTypeOK
<1>6. CASE v = new
    BY <1>2, <1>4, <1>5, <1>6 DEF Moved
<1>7. CASE v # new
  <2>1. v \in versions /\ l = k
      BY <1>1, <1>3, <1>5, <1>7 DEF Moved
  <2>2. other # code /\ Clean(other)
      BY <2>1
  <2> QED
      BY <2>1, <2>2 DEF Clean
<1> QED
    BY <1>6, <1>7

\* Where no uninstall is requested on a version, its rows ask for none, and there
\* is one for every configuration.
LEMMA CleanRows ==
    ASSUME NEW id, \A l \in links : l.ver = id => l.action # 2
    PROVE  /\ \A r \in RowsOf(id) : r.action # 2
           /\ \A c \in Confs : \E r \in RowsOf(id) : r.conf = c
<1> DEFINE own == {l \in links : l.ver = id}
           rest == Confs \ {l.conf : l \in own}
<1>1. RowsOf(id) = {[conf |-> l.conf, action |-> l.action] : l \in own}
                        \cup {[conf |-> c, action |-> 0] : c \in rest}
    BY DEF RowsOf
<1>2. \A l \in own : l.action # 2
    OBVIOUS
<1>3. \A c \in Confs : c \in rest \/ \E l \in own : l.conf = c
    OBVIOUS
<1> HIDE DEF own, rest
<1>4. \A r \in RowsOf(id) : r.action # 2
    BY <1>1, <1>2
<1>5. ASSUME NEW c \in Confs PROVE \E r \in RowsOf(id) : r.conf = c
  <2>1. CASE c \in rest
    <3>1. [conf |-> c, action |-> 0] \in RowsOf(id)
        BY <1>1, <2>1
    <3> QED
        BY <3>1
  <2>2. ASSUME NEW l \in own, l.conf = c
        PROVE  \E r \in RowsOf(id) : r.conf = c
    <3>1. [conf |-> l.conf, action |-> l.action] \in RowsOf(id)
        BY <1>1
    <3> QED
        BY <2>2, <3>1
  <2> QED
      BY <1>3, <2>1, <2>2
<1> QED
    BY <1>4, <1>5

\* Of such rows, what is sent is an install wherever the application is installed.
LEMMA SentRows ==
    ASSUME NEW rows \in SUBSET LinkRow, \A r \in rows : r.action # 2,
           NEW installing \in SUBSET Confs,
           \A c \in Confs : \E r \in rows : r.conf = c
    PROVE  /\ \A r \in LinksToSend(rows, installing) :
                  r.conf \in installing /\ r.action = 1
           /\ \A c \in installing : \E r \in LinksToSend(rows, installing) :
                  r.conf = c /\ r.action = 1
<1> DEFINE moved == {s \in rows : s.action # 2 /\ s.conf \in installing}
<1>1. LinksToSend(rows, installing) = {[r EXCEPT !.action = 1] : r \in moved}
    BY DEF LinksToSend
<1>2. \A r \in moved : /\ [r EXCEPT !.action = 1].conf = r.conf
                       /\ [r EXCEPT !.action = 1].action = 1
    BY DEF LinkRow
<1>3. \A r \in moved : r.conf \in installing
    OBVIOUS
<1>4. \A c \in installing : \E r \in moved : r.conf = c
    OBVIOUS
<1> HIDE DEF moved
<1>5. ASSUME NEW c \in installing
      PROVE  \E r \in LinksToSend(rows, installing) : r.conf = c /\ r.action = 1
  <2>1. PICK r \in moved : r.conf = c
      BY <1>4
  <2>2. [r EXCEPT !.action = 1] \in LinksToSend(rows, installing)
      BY <1>1
  <2> QED
      BY <1>2, <2>1, <2>2
<1>6. ASSUME NEW r \in LinksToSend(rows, installing)
      PROVE  r.conf \in installing /\ r.action = 1
  <2>1. PICK s \in moved : r = [s EXCEPT !.action = 1]
      BY <1>1
  <2> QED
      BY <1>2, <1>3, <2>1
<1> QED
    BY <1>5, <1>6

\* What a configuration installs nothing of is not among those read as installing.
LEMMA NotInstalling ==
    ASSUME TypeOK, ServerSound, Application # NoApp, NEW c,
           c \notin InstallingConfs(Application)
    PROVE  \A l \in links : l.conf = c => l.action # 1
BY OneApplication DEF InstallingConfs

\* A POST installs the version recorded as created, and nothing else of the
\* application, in every configuration that installs the application.
LEMMA PostMoves ==
    ASSUME TypeOK, ServerSound, RowSound, NEW p \in Proc, RunSound(p), SendLinks(p)
    PROVE  /\ \E t \in versions : t.id = job[p].target /\ t.code = row.created
           /\ job[p].installing = InstallingConfs(Application)
           /\ \A l \in links' :
                 \/ /\ l \in links /\ l.ver # job[p].target
                    /\ l.conf \in job[p].installing => l.action = 2
                 \/ /\ l.ver = job[p].target /\ l.action = 1
                    /\ l.conf \in job[p].installing
           /\ \A c \in job[p].installing : \E l \in links' :
                 l.conf = c /\ l.ver = job[p].target /\ l.action = 1
           /\ UNCHANGED <<carriers, versions, nextId>>
<1> DEFINE sent == LinksToSend(job[p].rows, job[p].installing)
<1>1. job[p] \in Job /\ job[p].pc = "post" /\ ServerTypeOK
    BY DEF SendLinks, At, TypeOK
<1>2. /\ job[p].linkApp = Application /\ Application # NoApp
      /\ job[p].code = row.created /\ row.created # 0
    BY <1>1 DEF RunSound, AppHolds, ProgressHolds, Linking
<1>3. VersionsOf(Application) = versions /\ LinksOf(Application) = links
    BY <1>2, OneApplication
<1>4. /\ \E t \in versions : t.id = job[p].target /\ t.code = row.created
      /\ job[p].installing = InstallingConfs(Application)
      /\ job[p].rows = RowsOf(job[p].target)
    BY <1>1, <1>2, <1>3 DEF RunSound, LinkReads
<1>5. /\ \A r \in job[p].rows : r.action # 2
      /\ \A c \in Confs : \E r \in job[p].rows : r.conf = c
    BY <1>1, <1>2, <1>4, CleanRows DEF RowSound, Clean
<1>6. job[p].rows \in SUBSET LinkRow /\ job[p].installing \in SUBSET Confs
    BY <1>1 DEF Job
<1>7. /\ \A r \in sent : r.conf \in job[p].installing /\ r.action = 1
      /\ \A c \in job[p].installing : \E r \in sent : r.conf = c /\ r.action = 1
    BY <1>5, <1>6, SentRows
<1>8. StoreLinks(Application, job[p].target, sent)
    BY <1>2 DEF SendLinks
<1> HIDE DEF sent
<1> DEFINE installs == {r.conf : r \in {s \in sent : s.action = 1}}
           replaced(l) == \/ l.ver = job[p].target
                          \/ l \in LinksOf(Application) /\ l.conf \in installs /\ l.action # 2
           posted == {[conf |-> r.conf, ver |-> job[p].target, action |-> r.action] : r \in sent}
<1>9. links' = {l \in links : ~replaced(l)} \cup posted
    BY <1>8 DEF StoreLinks
<1>10. installs = job[p].installing
    BY <1>7
<1>11. \A l \in posted : /\ l.ver = job[p].target /\ l.action = 1
                         /\ l.conf \in job[p].installing
    BY <1>7
<1>12. ASSUME NEW c \in job[p].installing
       PROVE  \E l \in posted : l.conf = c /\ l.ver = job[p].target /\ l.action = 1
  <2>1. PICK r \in sent : r.conf = c /\ r.action = 1
      BY <1>7
  <2>2. [conf |-> r.conf, ver |-> job[p].target, action |-> r.action] \in posted
      OBVIOUS
  <2> QED
      BY <2>1, <2>2
<1>13. \A l \in links : ~replaced(l) =>
           /\ l.ver # job[p].target
           /\ l.conf \in job[p].installing => l.action = 2
    BY <1>3, <1>10
<1> HIDE DEF replaced, posted, installs
<1>14. UNCHANGED <<carriers, versions, nextId>>
    BY <1>8 DEF StoreLinks
<1>15. \A l \in links' :
          \/ /\ l \in links /\ l.ver # job[p].target
             /\ l.conf \in job[p].installing => l.action = 2
          \/ /\ l.ver = job[p].target /\ l.action = 1
             /\ l.conf \in job[p].installing
    BY <1>9, <1>11, <1>13
<1>16. \A c \in job[p].installing : \E l \in links' :
          l.conf = c /\ l.ver = job[p].target /\ l.action = 1
    BY <1>9, <1>12
<1> QED
    BY <1>4, <1>14, <1>15, <1>16

LEMMA PostInstalled ==
    ASSUME TypeOK, ServerSound, RowSound, NEW p \in Proc, RunSound(p), SendLinks(p),
           NEW c \in Confs
    PROVE  \/ InstalledCodes(c) # {} /\ InstalledCodes(c)' = {row.created}
           \/ InstalledCodes(c) = {} /\ InstalledCodes(c)' = {}
<1>1. PICK t \in versions : t.id = job[p].target /\ t.code = row.created
    BY PostMoves
<1>2. versions' = versions
    BY PostMoves
<1>3. Application # NoApp
    BY DEF RunSound, AppHolds, SendLinks, At, Linking
<1>4. CASE c \in job[p].installing
  <2>1. PICK l \in links' : l.conf = c /\ l.ver = job[p].target /\ l.action = 1
      BY <1>4, PostMoves
  <2>2. row.created \in InstalledCodes(c)'
      BY <1>1, <1>2, <2>1 DEF InstalledCodes
  <2>3. ASSUME NEW v \in versions', NEW k \in links',
               k.ver = v.id, k.conf = c, k.action = 1
        PROVE  v.code = row.created
    <3>1. k.ver = job[p].target
        BY <1>4, <2>3, PostMoves
    <3> QED
        BY <1>1, <1>2, <2>3, <3>1 DEF ServerSound, UniqueIds
  <2>4. \A x \in InstalledCodes(c)' : x = row.created
      BY <2>3 DEF InstalledCodes
  <2>5. PICK k \in links : k.conf = c /\ k.action = 1
    <3>1. c \in InstallingConfs(Application)
        BY <1>4, PostMoves
    <3> QED
        BY <1>3, <3>1, OneApplication DEF InstallingConfs
  <2>6. PICK w \in versions : w.id = k.ver
      BY DEF ServerSound, Ids
  <2>7. w.code \in InstalledCodes(c)
      BY <2>5, <2>6 DEF InstalledCodes
  <2> QED
      BY <2>2, <2>4, <2>7
<1>5. CASE c \notin job[p].installing
  <2>1. \A l \in links : l.conf = c => l.action # 1
      BY <1>3, <1>5, NotInstalling, PostMoves
  <2>2. \A l \in links' : l.conf = c => l.action # 1
      BY <1>5, <2>1, PostMoves
  <2> QED
      BY <2>1, <2>2 DEF InstalledCodes
<1> QED
    BY <1>4, <1>5

\* A POST requests no uninstall, and only points at versions that exist.
LEMMA PostSound ==
    ASSUME TypeOK, ServerSound, RowSound, NEW p \in Proc, RunSound(p), SendLinks(p)
    PROVE  ServerSound' /\ \A code : Clean(code) => Clean(code)'
<1>1. PICK t \in versions : t.id = job[p].target
    BY PostMoves
<1>2. UNCHANGED <<carriers, versions, nextId>>
    BY PostMoves
<1>3. \A l \in links' : l.ver \in Ids(versions)
    BY <1>1, PostMoves DEF ServerSound, Ids
<1>4. ServerSound'
    BY <1>2, <1>3 DEF ServerSound, UniqueIds, Ids
<1>5. ASSUME NEW code, Clean(code)
      PROVE  Clean(code)'
    BY <1>2, <1>5, PostMoves DEF Clean
<1> QED
    BY <1>4, <1>5

-----------------------------------------------------------------------------
(* The steps of a run keep what it goes by.                                *)

LEMMA IdleSound ==
    ASSUME TypeOK, NEW p \in Proc, Finish(p)
    PROVE  RunSound(p)'
<1>1. /\ job'[p].pc = "idle" /\ job'[p].entryApp = NoApp
    BY IdleType DEF TypeOK, Finish, Becomes, Idle, Job
<1> QED
    BY <1>1 DEF RunSound, AppHolds, CommandHolds, ProgressHolds, PublicationReads,
                LinkReads, Applying, Planning, Publishing, Creating, Linking

\* Nothing is asked of Headwind before the update is planned.
LEMMA AsideSound ==
    ASSUME NEW p \in Proc, job'[p].pc \notin Publishing \cup Linking,
           AppHolds(job[p])', CommandHolds(p)'
    PROVE  RunSound(p)'
BY DEF RunSound, ProgressHolds, PublicationReads, LinkReads, Publishing, Creating, Linking

\* A run is not disturbed by a step that leaves Headwind and the progress alone.
LEMMA Undisturbed ==
    ASSUME NEW p \in Proc, RunSound(p), job'[p] = job[p],
           UNCHANGED <<carriers, versions, links>>, row'.created = row.created
    PROVE  RunSound(p)'
BY DEF RunSound, AppHolds, Application, CommandHolds, ProgressHolds, PublicationReads,
       LinkReads, VersionsOf, Clean, Newest, Reached, InstalledCodes, InstallingConfs,
       LinksOf, Ids, RowsOf

\* A plan that finds nothing to publish ends the run, or sends it to its links.
LEMMA PlannedSound ==
    ASSUME TypeOK, NEW p \in Proc, NEW j \in Job, Planned(p, j), UNCHANGED carriers,
           j.entryApp \in {NoApp, Application}, j.status # "UPDATE_AVAILABLE",
           j.cmd \in Commands[p], j.cmd # "status", j.yaml \in Entries
    PROVE  RunSound(p)'
<1>1. CASE Finish(p)
    BY <1>1, IdleSound
<1>2. CASE ~Finish(p)
  <2>1. j.cmd # "dry-run" /\ Becomes(p, [j EXCEPT !.pc = "link"])
      BY <1>2 DEF Planned, Finish, Becomes
  <2>2. /\ job'[p].pc = "link" /\ job'[p].cmd = j.cmd /\ job'[p].yaml = j.yaml
        /\ job'[p].entryApp = j.entryApp
      BY <2>1 DEF Becomes, TypeOK, Job
  <2>3. j.cmd = "apply"
      BY <2>1 DEF Job, Command
  <2>4. AppHolds(job[p])' /\ CommandHolds(p)'
      BY <2>2, <2>3 DEF AppHolds, Application, CommandHolds, Planning, Publishing, Linking
  <2> QED
      BY <2>2, <2>4, AsideSound DEF Publishing, Linking
<1> QED
    BY <1>1, <1>2

LEMMA StartSound ==
    ASSUME TypeOK, NEW p \in Proc, NEW cmd \in Commands[p], StartRun(p, cmd)
    PROVE  RunSound(p)'
<1>1. /\ job'[p].pc = "list" /\ job'[p].cmd = cmd /\ job'[p].yaml = yaml
      /\ job'[p].entryApp = NoApp
    BY IdleType DEF TypeOK, StartRun, Becomes, Idle, Job
<1>2. AppHolds(job[p])' /\ CommandHolds(p)'
    BY <1>1 DEF AppHolds, CommandHolds, Applying, Planning, Publishing, Linking, TypeOK
<1> QED
    BY <1>1, <1>2, AsideSound DEF Publishing, Linking

LEMMA PlanSound ==
    ASSUME DeliveryInv, NEW p \in Proc, Plan(p)
    PROVE  RunSound(p)'
<1>0. /\ job[p] \in Job /\ job \in [Proc -> Job] /\ TypeOK
      /\ AppHolds(job[p]) /\ CommandHolds(p)
    BY DEF DeliveryInv, RunSound, TypeOK
<1>a. /\ carriers' = carriers /\ versions' = versions /\ links' = links
      /\ Application' = Application
    BY DEF Plan, ListApplications, Reconcile, RefreshIndex, ReadSigner, PinSigner,
           Compare, CompareUnreadable, serverVars, Application
<1>b. ASSUME job'[p].pc \in {"reconcile", "index", "signer", "pin", "compare"},
             job'[p].cmd = job[p].cmd, job'[p].yaml = job[p].yaml,
             job'[p].entryApp = job[p].entryApp, job'[p].app = Application,
             job'[p].pc \in {"signer", "pin", "compare"} => Application # NoApp,
             job'[p].pc # "reconcile" => job[p].cmd # "status",
             job[p].pc # "idle"
      PROVE  RunSound(p)'
  <2>1. AppHolds(job[p])' /\ CommandHolds(p)'
      BY <1>0, <1>a, <1>b DEF AppHolds, CommandHolds, Applying, Planning, Publishing, Linking
  <2> QED
      BY <1>b, <2>1, AsideSound DEF Publishing, Linking
<1>c. job[p].pc \in Planning => /\ job[p].app = Application /\ job[p].cmd # "status"
                                /\ job[p].cmd \in Commands[p] /\ job[p].yaml \in Entries
    BY <1>0 DEF AppHolds, CommandHolds, Planning
<1>1. CASE ListApplications(p)
  <2>1. /\ job[p].pc = "list" /\ job'[p].pc = "reconcile" /\ job'[p].app = Application
        /\ job'[p].cmd = job[p].cmd /\ job'[p].yaml = job[p].yaml
        /\ job'[p].entryApp = job[p].entryApp
      BY <1>0, <1>1 DEF ListApplications, At, Becomes, Job, Application
  <2> QED
      BY <1>b, <2>1
<1>2. CASE Reconcile(p)
  <2>1. CASE Finish(p)
      BY <1>0, <2>1, IdleSound
  <2>2. CASE ~Finish(p)
    <3>1. job[p].pc = "reconcile" /\ job[p].cmd # "status" /\ Goto(p, "index")
        BY <1>2, <2>2 DEF Reconcile, At
    <3>2. /\ job'[p].pc = "index" /\ job'[p].app = job[p].app
          /\ job'[p].cmd = job[p].cmd /\ job'[p].yaml = job[p].yaml
          /\ job'[p].entryApp = job[p].entryApp
        BY <1>0, <3>1 DEF Goto, Becomes, Job
    <3>3. job[p].app = Application
        BY <1>0, <3>1 DEF AppHolds
    <3> QED
        BY <1>b, <3>1, <3>2, <3>3
  <2> QED
      BY <2>1, <2>2
<1>3. CASE RefreshIndex(p)
  <2> DEFINE early == EarlyStatus(job[p], offer)
             j == [job[p] EXCEPT !.status = early]
  <2>1. job[p].pc = "index" /\ job[p].pc \in Planning
      BY <1>3 DEF RefreshIndex, At, Planning
  <2>2. CASE early = "NONE"
    <3>1. job[p].app # NoApp
        BY <2>2 DEF EarlyStatus
    <3>2. Becomes(p, [job[p] EXCEPT !.pc = "signer", !.offer = offer])
        BY <1>3, <2>2 DEF RefreshIndex
    <3>3. /\ job'[p].pc = "signer" /\ job'[p].app = job[p].app
          /\ job'[p].cmd = job[p].cmd /\ job'[p].yaml = job[p].yaml
          /\ job'[p].entryApp = job[p].entryApp
        BY <1>0, <3>2 DEF Becomes, Job
    <3> QED
        BY <1>b, <1>c, <2>1, <3>1, <3>3
  <2>3. CASE early # "NONE"
    <3>1. early \in Status /\ early # "UPDATE_AVAILABLE"
        BY DEF EarlyStatus, Status
    <3>2. /\ j \in Job /\ j.status # "UPDATE_AVAILABLE" /\ j.cmd = job[p].cmd
          /\ j.yaml = job[p].yaml /\ j.entryApp = job[p].entryApp
        BY <1>0, <3>1 DEF Job
    <3>3. Planned(p, j)
        BY <1>3, <2>3 DEF RefreshIndex
    <3>4. j.entryApp \in {NoApp, Application}
        BY <1>0, <3>2 DEF AppHolds
    <3> HIDE DEF j
    <3> QED
        BY <1>0, <1>a, <1>c, <2>1, <3>2, <3>3, <3>4, PlannedSound
  <2> QED
      BY <2>2, <2>3
<1>4. CASE ReadSigner(p)
  <2> DEFINE same == row.signer = job[p].offer.signer
  <2>1. \/ Becomes(p, [job[p] EXCEPT !.pc = "pin"])
        \/ Becomes(p, [job[p] EXCEPT !.pc = "compare", !.trusted = same])
      BY <1>4 DEF ReadSigner, Goto
  <2> HIDE DEF same
  <2>2. /\ job'[p].pc \in {"pin", "compare"}
        /\ job'[p].app = job[p].app /\ job'[p].cmd = job[p].cmd
        /\ job'[p].yaml = job[p].yaml /\ job'[p].entryApp = job[p].entryApp
    <3>1. CASE Becomes(p, [job[p] EXCEPT !.pc = "pin"])
        BY <1>0, <3>1 DEF Becomes, Job
    <3>2. CASE Becomes(p, [job[p] EXCEPT !.pc = "compare", !.trusted = same])
        BY <1>0, <3>2 DEF Becomes, Job
    <3> QED
        BY <2>1, <3>1, <3>2
  <2>3. /\ job[p].pc = "signer" /\ job[p].pc \in Planning /\ job[p].app # NoApp
      BY <1>0, <1>4 DEF ReadSigner, At, AppHolds, Planning
  <2> QED
      BY <1>b, <1>c, <2>2, <2>3
<1>5. CASE PinSigner(p)
  <2>1. /\ job[p].pc = "pin" /\ job'[p].pc = "compare"
        /\ job'[p].app = job[p].app /\ job'[p].cmd = job[p].cmd
        /\ job'[p].yaml = job[p].yaml /\ job'[p].entryApp = job[p].entryApp
      BY <1>0, <1>5 DEF PinSigner, At, Becomes, Job
  <2>2. job[p].pc \in Planning /\ job[p].app # NoApp
      BY <1>0, <2>1 DEF AppHolds, Planning
  <2> QED
      BY <1>b, <1>c, <2>1, <2>2
<1>6. CASE Compare(p)
  <2> DEFINE status == PlanStatus(job[p], VersionsOf(job[p].app))
             j == [job[p] EXCEPT !.entryApp = job[p].app, !.status = status]
  <2>1. job[p].pc = "compare" /\ job[p].pc \in Planning /\ job[p].app # NoApp
      BY <1>0, <1>6 DEF Compare, At, AppHolds, Planning
  <2>2. status \in Status
      BY DEF PlanStatus, Status
  <2>3. /\ j \in Job /\ j.status = status /\ j.entryApp = Application
        /\ j.cmd = job[p].cmd /\ j.yaml = job[p].yaml /\ j.offer = job[p].offer
      BY <1>0, <1>c, <2>1, <2>2 DEF Job
  <2>4. Planned(p, j)
      BY <1>6 DEF Compare
  <2>5. status = "UPDATE_AVAILABLE" =>
            \A v \in VersionsOf(Application) : ~(job[p].offer.code <= v.code)
      BY <1>c, <2>1 DEF PlanStatus
  <2> HIDE DEF j, status
  <2>6. CASE status # "UPDATE_AVAILABLE"
      BY <1>0, <1>a, <1>c, <2>1, <2>3, <2>4, <2>6, PlannedSound
  <2>7. CASE status = "UPDATE_AVAILABLE"
    <3>1. CASE Finish(p)
        BY <1>0, <3>1, IdleSound
    <3>2. CASE ~Finish(p)
      <4>1. j.cmd # "dry-run" /\ Becomes(p, [j EXCEPT !.pc = "verify"])
          BY <2>3, <2>4, <2>7, <3>2 DEF Planned, Finish, Becomes
      <4>2. /\ job'[p].pc = "verify" /\ job'[p].cmd = j.cmd /\ job'[p].yaml = j.yaml
            /\ job'[p].entryApp = j.entryApp /\ job'[p].offer = j.offer
          BY <1>0, <2>3, <4>1 DEF Becomes, Job
      <4>3. j.cmd = "apply"
          BY <1>c, <2>1, <2>3, <4>1 DEF Job, Command
      <4>4. AppHolds(job[p])' /\ CommandHolds(p)'
          BY <1>a, <1>c, <2>1, <2>3, <4>2, <4>3
          DEF AppHolds, CommandHolds, Applying, Planning, Publishing, Linking
      <4>5. \A v \in VersionsOf(Application) : v.code < job[p].offer.code
          BY <1>0, <2>5, <2>7 DEF VersionsOf, TypeOK, ServerTypeOK, Version, Job, Offer
      <4>6. PublicationReads(job[p])'
          BY <1>a, <2>3, <4>2, <4>5 DEF PublicationReads, VersionsOf
      <4> QED
          BY <4>2, <4>4, <4>6
          DEF RunSound, ProgressHolds, LinkReads, Creating, Linking
    <3> QED
        BY <3>1, <3>2
  <2> QED
      BY <2>6, <2>7
<1>7. CASE CompareUnreadable(p)
  <2> DEFINE j == [job[p] EXCEPT !.status = "SKIPPED"]
  <2>1. job[p].pc \in Planning
      BY <1>7 DEF CompareUnreadable, At, Planning
  <2>2. /\ j \in Job /\ j.status # "UPDATE_AVAILABLE" /\ j.cmd = job[p].cmd
        /\ j.yaml = job[p].yaml /\ j.entryApp = job[p].entryApp
      BY <1>0 DEF Job, Status
  <2>3. Planned(p, j)
      BY <1>7 DEF CompareUnreadable
  <2>4. j.entryApp \in {NoApp, Application}
      BY <1>0, <2>2 DEF AppHolds
  <2> HIDE DEF j
  <2> QED
      BY <1>0, <1>a, <1>c, <2>1, <2>2, <2>3, <2>4, PlannedSound
<1> QED
    BY <1>1, <1>2, <1>3, <1>4, <1>5, <1>6, <1>7 DEF Plan

\* Publication over, the run goes to its links.
LEMMA LeavingSound ==
    ASSUME DeliveryInv, NEW p \in Proc, UNCHANGED carriers,
           job[p].pc \in Publishing, job'[p].pc = "link", job'[p].cmd = job[p].cmd,
           job'[p].yaml = job[p].yaml, job'[p].entryApp = job[p].entryApp
    PROVE  RunSound(p)'
<1>1. AppHolds(job[p]) /\ CommandHolds(p)
    BY DEF DeliveryInv, RunSound
<1>2. AppHolds(job[p])' /\ CommandHolds(p)'
    BY <1>1 DEF AppHolds, CommandHolds, Application, Applying, Planning, Publishing, Linking
<1> QED
    BY <1>2, AsideSound DEF Publishing, Linking

LEMMA PublishesSound ==
    ASSUME DeliveryInv, NEW p \in Proc, UNCHANGED carriers, job[p].pc \in Publishing,
           NEW outcome, Publishes(p, outcome)
    PROVE  RunSound(p)'
<1>1. /\ job'[p].pc = "link" /\ job'[p].cmd = job[p].cmd
      /\ job'[p].yaml = job[p].yaml /\ job'[p].entryApp = job[p].entryApp
    BY DEF DeliveryInv, TypeOK, Publishes, Becomes, Job
<1> QED
    BY <1>1, LeavingSound

\* While it publishes a run works on all the versions there are.
LEMMA PublishReads ==
    ASSUME DeliveryInv, NEW p \in Proc, job[p].pc \in Publishing
    PROVE  /\ job[p].entryApp = Application /\ Application \in carriers
           /\ VersionsOf(job[p].entryApp) = versions
           /\ job[p].pc # "record" => \A v \in versions : v.code < job[p].offer.code
           /\ job[p].pc = "put" => \A v \in versions : v.name # job[p].offer.name
           /\ job[p].pc = "record" => \E v \in versions : v.code = job[p].offer.code
<1>1. RunSound(p) /\ TypeOK /\ ServerSound
    BY DEF DeliveryInv
<1>2. job[p].entryApp = Application /\ Application # NoApp
    BY <1>1 DEF RunSound, AppHolds
<1>3. VersionsOf(job[p].entryApp) = versions /\ Application \in carriers
    BY <1>1, <1>2, OneApplication
<1> QED
    BY <1>1, <1>2, <1>3 DEF RunSound, PublicationReads

\* The PUT never rewrites: it inserts a version newer than any other.
LEMMA PutInserts ==
    ASSUME DeliveryInv, NEW p \in Proc, Puts(p)
    PROVE  /\ job[p].pc = "put" /\ job[p].offer \in Offer
           /\ job[p].entryApp \in carriers /\ job[p].entryApp \in Apps
           /\ \A v \in versions : v.code < job[p].offer.code
           /\ row.created < job[p].offer.code
           /\ Insert(job[p].entryApp, job[p].offer.name, job[p].offer.code)
           /\ UNCHANGED <<carriers, row>>
<1>1. /\ job[p].pc = "put" /\ job[p] \in Job
      /\ StoreVersion(job[p].entryApp, job[p].offer.name, job[p].offer.code)
      /\ row' = row
    BY DEF Puts, CreateVersion, CreateVersionLost, At, DeliveryInv, TypeOK
<1>2. job[p].pc \in Publishing
    BY <1>1 DEF Publishing
<1>3. /\ VersionsOf(job[p].entryApp) = versions /\ job[p].entryApp \in carriers
      /\ \A v \in versions : v.code < job[p].offer.code
      /\ \A v \in versions : v.name # job[p].offer.name
    BY <1>1, <1>2, PublishReads
<1>4. Insert(job[p].entryApp, job[p].offer.name, job[p].offer.code)
    BY <1>1, <1>3 DEF StoreVersion
<1>5. row.created < job[p].offer.code
    BY <1>1 DEF DeliveryInv, RunSound, ProgressHolds, Creating
<1>6. job[p].offer \in Offer /\ carriers' = carriers /\ job[p].entryApp \in Apps
    BY <1>1, <1>3, <1>4 DEF Insert, Job, DeliveryInv, TypeOK, ServerTypeOK
<1> QED
    BY <1>1, <1>3, <1>4, <1>5, <1>6

LEMMA CreateSound ==
    ASSUME DeliveryInv, NEW p \in Proc, CreateVersion(p)
    PROVE  RunSound(p)'
<1> DEFINE new == [id |-> nextId, app |-> job[p].entryApp, name |-> job[p].offer.name,
                   code |-> job[p].offer.code]
<1>0. /\ job[p] \in Job /\ job \in [Proc -> Job] /\ ServerTypeOK /\ ServerSound
      /\ AppHolds(job[p]) /\ CommandHolds(p)
    BY DEF DeliveryInv, RunSound, TypeOK
<1>1. Puts(p)
    BY DEF Puts
<1>2. PICK reply : Becomes(p, [job[p] EXCEPT !.pc = "record", !.reply = reply])
    BY DEF CreateVersion
<1>3. /\ job'[p].pc = "record" /\ job'[p].cmd = job[p].cmd /\ job'[p].yaml = job[p].yaml
      /\ job'[p].entryApp = job[p].entryApp /\ job'[p].offer = job[p].offer
    BY <1>0, <1>2 DEF Becomes, Job
<1>4. AppHolds(job[p])' /\ CommandHolds(p)'
    BY <1>0, <1>1, <1>3, PutInserts
    DEF AppHolds, CommandHolds, Application, Applying, Planning, Publishing, Linking
<1>5. versions' = versions \cup {new} /\ row' = row
    BY <1>1, PutInserts DEF Insert
<1>6. new.app = job[p].entryApp /\ new.code = job[p].offer.code
    OBVIOUS
<1>7. job[p].offer.code \in Nat /\ \A v \in versions : v.code \in Nat
    BY <1>0 DEF Job, Offer, ServerTypeOK, Version
<1> HIDE DEF new
<1>8. Newest(job[p].offer.code)'
    BY <1>1, <1>3, <1>5, <1>6, <1>7, PutInserts DEF Newest
<1>9. Clean(job[p].offer.code)'
  <2>1. job[p].offer.name \in Names
      BY <1>0 DEF Job, Offer
  <2>2. \A v \in versions : v.code # job[p].offer.code
      BY <1>1, <1>7, PutInserts
  <2>3. PICK code \in Nat : code = job[p].offer.code
      BY <1>7
  <2>4. Clean(code)'
      BY <1>0, <1>1, <2>1, <2>2, <2>3, PutInserts, InsertClean
  <2>5. job'[p].offer.code = code
      BY <1>3, <2>3
  <2> QED
      BY <2>4, <2>5 DEF Clean
<1>10. ProgressHolds(job[p])'
    BY <1>1, <1>3, <1>5, <1>8, <1>9, PutInserts DEF ProgressHolds, Creating, Linking
<1>11. PublicationReads(job[p])'
    BY <1>3, <1>5, <1>6 DEF PublicationReads, VersionsOf, Publishing
<1> QED
    BY <1>3, <1>4, <1>10, <1>11 DEF RunSound, LinkReads

LEMMA PublishSound ==
    ASSUME DeliveryInv, NEW p \in Proc, Publish(p)
    PROVE  RunSound(p)'
<1>0. /\ job[p] \in Job /\ job \in [Proc -> Job] /\ TypeOK
      /\ AppHolds(job[p]) /\ CommandHolds(p) /\ ProgressHolds(job[p])
      /\ PublicationReads(job[p])
    BY DEF DeliveryInv, RunSound, TypeOK
<1>a. ASSUME job[p].pc \in Publishing \ {"record"}, job'[p].pc \in Publishing \ {"record"},
             job'[p].cmd = job[p].cmd, job'[p].yaml = job[p].yaml,
             job'[p].entryApp = job[p].entryApp, job'[p].offer = job[p].offer,
             job'[p].pc \in Creating => row.created < job[p].offer.code,
             job'[p].pc \in {"configurations", "put"} =>
                \A v \in VersionsOf(job[p].entryApp) : v.name # job[p].offer.name,
             UNCHANGED <<carriers, versions, links, row>>
      PROVE  RunSound(p)'
  <2>1. AppHolds(job[p])' /\ CommandHolds(p)'
      BY <1>0, <1>a
      DEF AppHolds, CommandHolds, Application, Applying, Planning, Publishing, Linking
  <2>2. ProgressHolds(job[p])'
      BY <1>a DEF ProgressHolds, Publishing, Creating, Linking
  <2>3. PublicationReads(job[p])'
      BY <1>0, <1>a DEF PublicationReads, VersionsOf
  <2> QED
      BY <1>a, <2>1, <2>2, <2>3 DEF RunSound, LinkReads, Publishing
<1>1. CASE VerifyApks(p)
  <2>1. /\ job[p].pc = "verify" /\ job'[p].pc = "prepare"
        /\ job'[p].cmd = job[p].cmd /\ job'[p].yaml = job[p].yaml
        /\ job'[p].entryApp = job[p].entryApp /\ job'[p].offer = job[p].offer
        /\ UNCHANGED <<carriers, versions, links, row>>
      BY <1>0, <1>1 DEF VerifyApks, At, Becomes, Job, serverVars
  <2> QED
      BY <1>a, <2>1 DEF Publishing, Creating
<1>2. CASE RejectApks(p)
  <2>1. /\ job[p].pc = "verify" /\ job'[p].pc = "link"
        /\ job'[p].cmd = job[p].cmd /\ job'[p].yaml = job[p].yaml
        /\ job'[p].entryApp = job[p].entryApp /\ carriers' = carriers
      BY <1>0, <1>2 DEF RejectApks, At, Becomes, Job, serverVars
  <2> QED
      BY <2>1, LeavingSound DEF Publishing
<1>3. CASE Prepare(p)
  <2>1. job[p].pc = "prepare" /\ UNCHANGED <<carriers, versions, links, row>>
      BY <1>3 DEF Prepare, At, serverVars
  <2>2. CASE Publishes(p, "SKIPPED")
      BY <2>1, <2>2, PublishesSound DEF Publishing
  <2>3. CASE ~Publishes(p, "SKIPPED")
    <3>1. Goto(p, "versions") /\ ~(row.created >= job[p].offer.code)
        BY <1>3, <2>3 DEF Prepare, AlreadyCreated
    <3>2. row.created < job[p].offer.code
        BY <1>0, <3>1 DEF TypeOK, Row, Job, Offer
    <3>3. /\ job'[p].pc = "versions" /\ job'[p].cmd = job[p].cmd
          /\ job'[p].yaml = job[p].yaml /\ job'[p].entryApp = job[p].entryApp
          /\ job'[p].offer = job[p].offer
        BY <1>0, <3>1 DEF Goto, Becomes, Job
    <3> QED
        BY <1>a, <2>1, <3>2, <3>3 DEF Publishing
  <2> QED
      BY <2>2, <2>3
<1>4. CASE ReadVersions(p)
  <2>1. job[p].pc = "versions" /\ UNCHANGED <<carriers, versions, links, row>>
      BY <1>4 DEF ReadVersions, At, serverVars
  <2>2. CASE Publishes(p, "BLOCKED")
      BY <2>1, <2>2, PublishesSound DEF Publishing
  <2>3. CASE ~Publishes(p, "BLOCKED")
    <3>1. \A v \in VersionsOf(job[p].entryApp) : v.name # job[p].offer.name
        BY <1>4, <2>3 DEF ReadVersions, SameName
    <3>2. PICK ids : Becomes(p, [job[p] EXCEPT !.pc = "configurations", !.known = ids])
        BY <1>4, <2>3 DEF ReadVersions
    <3>3. /\ job'[p].pc = "configurations" /\ job'[p].cmd = job[p].cmd
          /\ job'[p].yaml = job[p].yaml /\ job'[p].entryApp = job[p].entryApp
          /\ job'[p].offer = job[p].offer
        BY <1>0, <3>2 DEF Becomes, Job
    <3>4. row.created < job[p].offer.code
        BY <1>0, <2>1 DEF ProgressHolds, Creating
    <3> QED
        BY <1>a, <2>1, <3>1, <3>3, <3>4 DEF Publishing
  <2> QED
      BY <2>2, <2>3
<1>5. CASE ReadConfigurations(p)
  <2>1. /\ job[p].pc = "configurations" /\ UNCHANGED <<carriers, versions, links, row>>
        /\ job'[p].pc = "put" /\ job'[p].cmd = job[p].cmd
        /\ job'[p].yaml = job[p].yaml /\ job'[p].entryApp = job[p].entryApp
        /\ job'[p].offer = job[p].offer
      BY <1>0, <1>5 DEF ReadConfigurations, At, Goto, Becomes, Job, serverVars
  <2>2. /\ row.created < job[p].offer.code
        /\ \A v \in VersionsOf(job[p].entryApp) : v.name # job[p].offer.name
      BY <1>0, <2>1 DEF ProgressHolds, PublicationReads, Creating
  <2> QED
      BY <1>a, <2>1, <2>2 DEF Publishing
<1>6. CASE CreateVersion(p)
    BY <1>6, CreateSound
<1>7. CASE CreateVersionLost(p)
  <2>1. job[p].pc \in Publishing /\ carriers' = carriers
      BY <1>7, PutInserts DEF Puts, Publishing
  <2> QED
      BY <1>7, <2>1, PublishesSound DEF CreateVersionLost
<1>8. CASE RecordCreated(p) \/ PublishFails(p)
  <2>1. job[p].pc \in Publishing /\ carriers' = carriers
      BY <1>8 DEF RecordCreated, PublishFails, At, Publishing, serverVars
  <2> QED
      BY <1>8, <2>1, PublishesSound DEF RecordCreated, PublishFails
<1> QED
    BY <1>1, <1>2, <1>3, <1>4, <1>5, <1>6, <1>7, <1>8 DEF Publish

LEMMA LinkSound ==
    ASSUME DeliveryInv, NEW p \in Proc, LinkUp(p)
    PROVE  RunSound(p)'
<1>0. /\ job[p] \in Job /\ job \in [Proc -> Job] /\ row \in Row
      /\ TypeOK /\ ServerSound /\ LedgerOrdered /\ RowSound /\ RunSound(p)
      /\ AppHolds(job[p]) /\ CommandHolds(p) /\ ProgressHolds(job[p]) /\ LinkReads(job[p])
    BY DEF DeliveryInv, LedgerSound, RunSound, TypeOK
<1>a. ASSUME job[p].pc \in {"link"} \cup Linking, job'[p].pc \in Linking,
             job'[p].cmd = job[p].cmd, job'[p].yaml = job[p].yaml,
             job'[p].entryApp = job[p].entryApp, job'[p].linkApp = Application,
             Application # NoApp, job'[p].code = row.created, row.created # 0,
             job'[p].pc = "pushed" => Reached(job[p].code)',
             LinkReads(job[p])', UNCHANGED <<carriers, row>>
      PROVE  RunSound(p)'
  <2>1. AppHolds(job[p])' /\ CommandHolds(p)'
      BY <1>0, <1>a
      DEF AppHolds, CommandHolds, Application, Applying, Planning, Publishing, Linking
  <2>2. ProgressHolds(job[p])'
      BY <1>a DEF ProgressHolds, Creating, Linking
  <2>3. PublicationReads(job[p])'
      BY <1>a DEF PublicationReads, Publishing, Linking
  <2> QED
      BY <1>a, <2>1, <2>2, <2>3 DEF RunSound
<1>b. job[p].pc \in Linking => /\ job[p].linkApp = Application /\ Application # NoApp
                               /\ job[p].code = row.created /\ row.created # 0
                               /\ VersionsOf(job[p].linkApp) = versions
    BY <1>0, OneApplication DEF AppHolds, ProgressHolds
<1>1. CASE LinkOne(p)
  <2>1. CASE Finish(p)
      BY <1>0, <2>1, IdleSound
  <2>2. CASE ~Finish(p)
    <3>1. /\ Becomes(p, [job[p] EXCEPT !.pc = "resolve", !.code = row.created,
                                       !.linkApp = LinkApp(job[p], row)])
          /\ row.created > row.pushed /\ LinkApp(job[p], row) # NoApp
          /\ job[p].pc = "link" /\ UNCHANGED <<carriers, versions, links, row>>
        BY <1>1, <2>2 DEF LinkOne, At, AwaitingApproval, serverVars
    <3>2. /\ job'[p].pc = "resolve" /\ job'[p].code = row.created
          /\ job'[p].linkApp = LinkApp(job[p], row)
          /\ job'[p].cmd = job[p].cmd /\ job'[p].yaml = job[p].yaml
          /\ job'[p].entryApp = job[p].entryApp
        BY <1>0, <3>1 DEF Becomes, Job
    <3>3. row.created # 0
        BY <1>0, <3>1 DEF Row
    <3>4. LinkApp(job[p], row) = Application
        BY <1>0, <3>1 DEF LinkApp, AppHolds, RowSound
    <3>5. LinkReads(job[p])'
        BY <3>2 DEF LinkReads
    <3> QED
        BY <1>a, <3>1, <3>2, <3>3, <3>4, <3>5 DEF Linking
  <2> QED
      BY <2>1, <2>2
<1>2. CASE ResolveVersion(p)
  <2>0. job[p].pc = "resolve" /\ UNCHANGED <<carriers, versions, links, row>>
      BY <1>2 DEF ResolveVersion, At, serverVars
  <2>1. CASE Finish(p)
      BY <1>0, <2>1, IdleSound
  <2>2. CASE ~Finish(p)
    <3>1. PICK v \in versions :
              /\ v.code = job[p].code /\ v.app = job[p].linkApp
              /\ Becomes(p, [job[p] EXCEPT !.pc = "installing", !.target = v.id])
        BY <1>2, <2>2 DEF ResolveVersion, VersionsOf
    <3>2. /\ job'[p].pc = "installing" /\ job'[p].code = job[p].code
          /\ job'[p].linkApp = job[p].linkApp /\ job'[p].target = v.id
          /\ job'[p].cmd = job[p].cmd /\ job'[p].yaml = job[p].yaml
          /\ job'[p].entryApp = job[p].entryApp
        BY <1>0, <3>1 DEF Becomes, Job
    <3>3. LinkReads(job[p])'
        BY <2>0, <3>1, <3>2 DEF LinkReads, VersionsOf
    <3> QED
        BY <1>a, <1>b, <2>0, <3>2, <3>3 DEF Linking
  <2> QED
      BY <2>1, <2>2
<1>3. CASE ReadInstalling(p)
  <2>1. /\ job[p].pc = "installing" /\ UNCHANGED <<carriers, versions, links, row>>
        /\ job'[p].pc = "rows" /\ job'[p].code = job[p].code
        /\ job'[p].linkApp = job[p].linkApp /\ job'[p].target = job[p].target
        /\ job'[p].cmd = job[p].cmd /\ job'[p].yaml = job[p].yaml
        /\ job'[p].entryApp = job[p].entryApp
        /\ job'[p].installing = InstallingConfs(job[p].linkApp)
      BY <1>0, <1>3 DEF ReadInstalling, At, Becomes, Job, serverVars
  <2>2. LinkReads(job[p])'
      BY <1>0, <2>1 DEF LinkReads, VersionsOf, InstallingConfs, LinksOf, Ids
  <2> QED
      BY <1>a, <1>b, <2>1, <2>2 DEF Linking
<1>4. CASE ReadRows(p)
  <2> DEFINE read == RowsOf(job[p].target)
             sent == LinksToSend(read, job[p].installing)
             next == IF \E r \in sent : r.action = 1 THEN "post" ELSE "pushed"
  <2>1. /\ job[p].pc = "rows" /\ UNCHANGED <<carriers, versions, links, row>>
        /\ Becomes(p, [job[p] EXCEPT !.pc = next, !.rows = read])
      BY <1>4 DEF ReadRows, At, serverVars
  <2>2. next \in {"post", "pushed"}
      OBVIOUS
  <2>3. next = "pushed" => ~ \E r \in sent : r.action = 1
      OBVIOUS
  <2> HIDE DEF read, next
  <2>4. /\ job'[p].pc = next /\ job'[p].code = job[p].code
        /\ job'[p].linkApp = job[p].linkApp /\ job'[p].target = job[p].target
        /\ job'[p].cmd = job[p].cmd /\ job'[p].yaml = job[p].yaml
        /\ job'[p].entryApp = job[p].entryApp
        /\ job'[p].installing = job[p].installing /\ job'[p].rows = read
      BY <1>0, <2>1 DEF Becomes, Job
  <2>5. LinkReads(job[p])'
    <3>1. /\ \E v \in VersionsOf(job[p].linkApp) : v.id = job[p].target /\ v.code = job[p].code
          /\ job[p].installing = InstallingConfs(job[p].linkApp)
        BY <1>0, <2>1 DEF LinkReads
    <3>2. UNCHANGED <<VersionsOf(job[p].linkApp), InstallingConfs(job[p].linkApp)>>
        BY <2>1, <2>4 DEF VersionsOf, InstallingConfs, LinksOf, Ids
    <3>3. read = RowsOf(job[p].target)'
        BY <2>1, <2>4 DEF read, RowsOf
    <3> QED
        BY <2>4, <3>1, <3>2, <3>3 DEF LinkReads
  <2>6. ASSUME next = "pushed"
        PROVE  Reached(job[p].code)'
    <3>1. /\ job[p].linkApp = Application /\ Application # NoApp
          /\ job[p].code = row.created /\ row.created # 0
          /\ VersionsOf(job[p].linkApp) = versions
        BY <1>b, <2>1 DEF Linking
    <3>2. PICK t \in versions : t.id = job[p].target /\ t.code = row.created
        BY <1>0, <2>1, <3>1 DEF LinkReads
    <3>3. /\ \A r \in read : r.action # 2
          /\ \A c \in Confs : \E r \in read : r.conf = c
        BY <1>0, <3>1, <3>2, CleanRows DEF read, RowSound, Clean
    <3>4. read \in SUBSET LinkRow /\ job[p].installing \in SUBSET Confs
        BY <1>0, RowsType DEF read, Job, TypeOK
    <3>5. \A c \in job[p].installing : \E r \in sent : r.action = 1
        BY <3>3, <3>4, SentRows
    <3>6. job[p].installing = {}
        BY <2>3, <2>6, <3>5
    <3>7. InstallingConfs(Application) = {}
        BY <1>0, <2>1, <3>1, <3>6 DEF LinkReads
    <3>8. \A l \in links : l.action # 1
        BY <1>0, <3>1, <3>7, NotInstalling
    <3> QED
        BY <2>1, <3>8 DEF Reached, InstalledCodes
  <2> QED
      BY <1>a, <1>b, <2>1, <2>2, <2>4, <2>5, <2>6 DEF Linking
<1>5. CASE PostLinks(p)
  <2>1. /\ SendLinks(p) /\ job[p].pc = "post" /\ row' = row
        /\ job'[p].pc = "pushed" /\ job'[p].code = job[p].code
        /\ job'[p].linkApp = job[p].linkApp
        /\ job'[p].cmd = job[p].cmd /\ job'[p].yaml = job[p].yaml
        /\ job'[p].entryApp = job[p].entryApp
      BY <1>0, <1>5 DEF PostLinks, SendLinks, At, Goto, Becomes, Job
  <2>2. carriers' = carriers
      BY <1>0, <2>1, PostMoves
  <2>3. LinkReads(job[p])'
      BY <2>1 DEF LinkReads
  <2>4. job[p].code = row.created /\ row.created \in Nat
      BY <1>0, <1>b, <2>1 DEF Linking, Row
  <2>5. \A c \in Confs : \A code \in InstalledCodes(c)' : code = row.created
      BY <1>0, <2>1, PostInstalled
  <2>6. Reached(job[p].code)'
      BY <2>1, <2>4, <2>5 DEF Reached
  <2> QED
      BY <1>a, <1>b, <2>1, <2>2, <2>3, <2>6 DEF Linking
<1>6. CASE PostLinksLost(p) \/ RecordPushed(p) \/ LinkFails(p)
    BY <1>0, <1>6, IdleSound DEF PostLinksLost, RecordPushed, LinkFails
<1> QED
    BY <1>1, <1>2, <1>3, <1>4, <1>5, <1>6 DEF LinkUp

-----------------------------------------------------------------------------
(* Who does what to whom.                                                  *)

ProcStep(p) ==
    (\E cmd \in Commands[p] : StartRun(p, cmd)) \/ RunStep(p) \/ Crash(p)

LEMMA WhoSteps ==
    ASSUME Sealed, [Next]_vars
    PROVE  (\E p \in Proc : ProcStep(p)) \/ UNCHANGED <<serverVars, row, job>>
<1>1. CASE \E p \in Proc : \E cmd \in Commands[p] : StartRun(p, cmd)
    BY <1>1 DEF ProcStep
<1>2. CASE \E p \in Proc : RunStep(p) \/ Crash(p)
    BY <1>2 DEF ProcStep
<1>3. CASE FDroidOffers
    BY <1>3 DEF FDroidOffers
<1>4. CASE Operator
  <2>1. EditYaml
      BY <1>4 DEF Operator, OperatorCreates, OperatorEdits, OperatorDeletes,
                  OperatorInstalls, OperatorUninstalls, OperatorAddsApp,
                  OperatorRemovesApp, Operates, Sealed
  <2> QED
      BY <2>1 DEF EditYaml
<1>5. CASE UNCHANGED vars
    BY <1>5 DEF vars
<1> QED
    BY <1>1, <1>2, <1>3, <1>4, <1>5 DEF Next

\* A step of a process is the only one its local state knows of.
LEMMA OnlyOneMoves ==
    ASSUME TypeOK, NEW p \in Proc, ProcStep(p), NEW q \in Proc, q # p
    PROVE  job'[q] = job[q]
<1>0. job \in [Proc -> Job]
    BY DEF TypeOK
<1>1. ASSUME NEW j, Becomes(p, j) PROVE job'[q] = job[q]
    BY <1>0, <1>1 DEF Becomes
<1>2. ASSUME NEW j, Planned(p, j) PROVE job'[q] = job[q]
    BY <1>1, <1>2 DEF Planned
<1>3. Finish(p) => job'[q] = job[q]
    BY <1>1 DEF Finish
<1>4. ASSUME NEW l, Goto(p, l) PROVE job'[q] = job[q]
    BY <1>1, <1>4 DEF Goto
<1>5. ASSUME NEW outcome, Publishes(p, outcome) PROVE job'[q] = job[q]
    BY <1>1, <1>5 DEF Publishes
<1>6. CASE Plan(p)
    BY <1>1, <1>2, <1>3, <1>4, <1>6
    DEF Plan, ListApplications, Reconcile, RefreshIndex, ReadSigner, PinSigner,
        Compare, CompareUnreadable
<1>7. CASE Publish(p)
    BY <1>1, <1>4, <1>5, <1>7
    DEF Publish, VerifyApks, RejectApks, Prepare, ReadVersions, ReadConfigurations,
        CreateVersion, CreateVersionLost, RecordCreated, PublishFails
<1>8. CASE LinkUp(p)
    BY <1>1, <1>3, <1>4, <1>8
    DEF LinkUp, LinkOne, ResolveVersion, ReadInstalling, ReadRows, PostLinks,
        PostLinksLost, RecordPushed, LinkFails
<1>9. CASE AbortRun(p) \/ Crash(p) \/ \E cmd \in Commands[p] : StartRun(p, cmd)
    BY <1>1, <1>3, <1>9 DEF AbortRun, Crash, StartRun
<1> QED
    BY <1>6, <1>7, <1>8, <1>9 DEF ProcStep, RunStep

\* Only a run past its plan writes to Headwind, and to the progress unless it
\* finds the package dropped.
LEMMA WritersApply ==
    ASSUME TypeOK, NEW p \in Proc, ProcStep(p)
    PROVE  /\ UNCHANGED serverVars \/ Puts(p) \/ SendLinks(p)
           /\ row' = row \/ RowStep(p)
<1>1. CASE Plan(p)
    BY <1>1 DEF Plan, ListApplications, Reconcile, RefreshIndex, ReadSigner, PinSigner,
                Compare, CompareUnreadable, RowStep
<1>2. CASE Publish(p)
    BY <1>2 DEF Publish, VerifyApks, RejectApks, Prepare, ReadVersions,
                ReadConfigurations, CreateVersion, CreateVersionLost, RecordCreated,
                PublishFails, RowStep, Puts
<1>3. CASE LinkUp(p)
    BY <1>3 DEF LinkUp, LinkOne, ResolveVersion, ReadInstalling, ReadRows, PostLinks,
                PostLinksLost, RecordPushed, LinkFails, RowStep
<1>4. CASE AbortRun(p) \/ Crash(p) \/ \E cmd \in Commands[p] : StartRun(p, cmd)
    BY <1>4 DEF AbortRun, Crash, StartRun
<1> QED
    BY <1>1, <1>2, <1>3, <1>4 DEF ProcStep, RunStep

\* What the steps that write the row do to the progress.
LEMMA RowStepEffect ==
    ASSUME TypeOK, NEW p \in Proc, RowStep(p)
    PROVE  /\ UNCHANGED serverVars
           /\ \/ /\ row'.created = row.created /\ row'.pushed = row.pushed
                 /\ row'.app \in {row.app, job[p].app}
                 /\ row'.app # row.app => job[p].pc = "reconcile"
              \/ Reconcile(p) /\ ~job[p].yaml.tracked /\ row' = NoRow
              \/ /\ RecordCreated(p) /\ row'.created = job[p].offer.code
                 /\ row'.pushed = row.pushed /\ row'.app = row.app
              \/ /\ RecordPushed(p) /\ row'.pushed = job[p].code
                 /\ row'.created = row.created /\ row'.app = row.app
<1>0. row \in Row
    BY DEF TypeOK
<1>1. CASE Reconcile(p)
  <2>1. UNCHANGED serverVars /\ job[p].pc = "reconcile"
      BY <1>1 DEF Reconcile, At
  <2>2. CASE ~job[p].yaml.tracked
      BY <1>1, <2>1, <2>2 DEF Reconcile
  <2>3. CASE row' = Upserted(row, job[p].app, job[p].yaml)
    <3>1. /\ row'.created = row.created /\ row'.pushed = row.pushed
          /\ row'.app = job[p].app
        BY <1>0, <2>3 DEF Upserted, Row
    <3> QED
        BY <2>1, <3>1
  <2> QED
      BY <1>1, <2>2, <2>3 DEF Reconcile
<1>2. CASE PinSigner(p)
    BY <1>0, <1>2 DEF PinSigner, UpdateRow, Row
<1>3. CASE Compare(p)
    BY <1>0, <1>3 DEF Compare, UpdateRow, Row
<1>4. CASE RecordCreated(p)
    BY <1>0, <1>4 DEF RecordCreated, UpdateRow, Row
<1>5. CASE RecordPushed(p)
    BY <1>0, <1>5 DEF RecordPushed, UpdateRow, Row
<1> QED
    BY <1>1, <1>2, <1>3, <1>4, <1>5 DEF RowStep

\* While a run is past its plan, nobody else touches Headwind or the code recorded
\* as created.
LEMMA NobodyElse ==
    ASSUME Alone, DeliveryInv, NEW p \in Proc, ProcStep(p), NEW q \in Proc, q # p,
           job[q].pc \in Applying
    PROVE  UNCHANGED <<carriers, versions, links>> /\ row'.created = row.created
<1>0. TypeOK /\ CommandHolds(p) /\ CommandHolds(q)
    BY DEF DeliveryInv, RunSound
<1>1. OneApplier /\ AlwaysDeclared
    BY DEF Alone, OneRun
<1>2. job[p].pc \notin Applying
  <2> SUFFICES ASSUME job[p].pc \in Applying PROVE FALSE
      OBVIOUS
  <2>1. "apply" \in Commands[p] /\ "apply" \in Commands[q]
      BY <1>0 DEF CommandHolds, Applying, Publishing, Linking
  <2> QED
      BY <1>1, <2>1 DEF OneApplier
<1>3. UNCHANGED serverVars
    BY <1>0, <1>2, WritersApply
    DEF Puts, CreateVersion, CreateVersionLost, SendLinks, At, Applying, Publishing, Linking
<1>4. ~(Reconcile(p) /\ ~job[p].yaml.tracked)
    BY <1>0, <1>1 DEF Reconcile, At, CommandHolds, AlwaysDeclared
<1>5. ~RecordCreated(p)
    BY <1>2 DEF RecordCreated, At, Applying, Publishing
<1>6. row'.created = row.created
    BY <1>0, <1>4, <1>5, WritersApply, RowStepEffect
<1> QED
    BY <1>3, <1>6 DEF serverVars

LEMMA OthersSound ==
    ASSUME Alone, DeliveryInv, NEW p \in Proc, ProcStep(p), NEW q \in Proc, q # p,
           UNCHANGED carriers
    PROVE  RunSound(q)'
<1>1. job'[q] = job[q] /\ RunSound(q)
    BY OnlyOneMoves DEF DeliveryInv
<1>2. CASE job[q].pc \in Applying
    BY <1>1, <1>2, NobodyElse, Undisturbed
<1>3. CASE job[q].pc \notin Applying
  <2>1. AppHolds(job[q])' /\ CommandHolds(q)'
      BY <1>1 DEF RunSound, AppHolds, CommandHolds, Application
  <2> QED
      BY <1>1, <1>3, <2>1, AsideSound DEF Applying
<1> QED
    BY <1>2, <1>3

-----------------------------------------------------------------------------
(* The disturbances.                                                       *)

LEMMA Spent ==
    ASSUME TypeOK, LeftHolds, NEW d \in Disturbance, Spend(d)
    PROVE  LeftHolds' /\ left'[d] # Budget[d] /\ \A e \in Disturbance : left'[e] <= left[e]
<1>1. left \in [Disturbance -> Nat] /\ Budget \in [Disturbance -> Nat]
    BY BudgetAssumption DEF TypeOK
<1>2. left'[d] = left[d] - 1 /\ \A e \in Disturbance \ {d} : left'[e] = left[e]
    BY <1>1 DEF Spend
<1>3. \A e \in Disturbance : left'[e] <= left[e]
    BY <1>1, <1>2
<1>4. left' \in [Disturbance -> Nat]
    BY SpendType
<1>5. left[d] <= Budget[d]
    BY DEF LeftHolds
<1>6. left'[d] # Budget[d]
    BY <1>1, <1>2, <1>5
<1>7. LeftHolds'
    BY <1>1, <1>3, <1>4 DEF LeftHolds
<1> QED
    BY <1>3, <1>6, <1>7

LEMMA LeftStep ==
    ASSUME TypeOK, LeftHolds, [Next]_vars
    PROVE  LeftHolds' /\ (Lossless' => Lossless)
<1>1. left' = left \/ \E d \in Disturbance : Spend(d)
  <2>1. ASSUME NEW p \in Proc, ProcStep(p)
        PROVE  left' = left \/ \E d \in Disturbance : Spend(d)
    <3>1. CASE Plan(p)
        BY <3>1 DEF Plan, ListApplications, Reconcile, RefreshIndex, ReadSigner,
                    PinSigner, Compare, CompareUnreadable, Disturbance
    <3>2. CASE Publish(p)
        BY <3>2 DEF Publish, VerifyApks, RejectApks, Prepare, ReadVersions,
                    ReadConfigurations, CreateVersion, CreateVersionLost,
                    RecordCreated, PublishFails, Disturbance
    <3>3. CASE LinkUp(p)
        BY <3>3 DEF LinkUp, LinkOne, ResolveVersion, ReadInstalling, ReadRows,
                    PostLinks, PostLinksLost, RecordPushed, LinkFails, Disturbance
    <3>4. CASE AbortRun(p) \/ Crash(p) \/ \E cmd \in Commands[p] : StartRun(p, cmd)
        BY <3>4 DEF AbortRun, Crash, StartRun, Disturbance
    <3> QED
        BY <2>1, <3>1, <3>2, <3>3, <3>4 DEF ProcStep, RunStep
  <2>2. CASE FDroidOffers \/ Operator
      BY <2>2 DEF FDroidOffers, Operator, EditYaml, OperatorCreates, OperatorEdits,
                  OperatorDeletes, OperatorInstalls, OperatorUninstalls,
                  OperatorAddsApp, OperatorRemovesApp, Operates, Disturbance
  <2> QED
      BY <2>1, <2>2 DEF Next, ProcStep, vars
<1>2. CASE left' = left
    BY <1>2 DEF LeftHolds, Lossless
<1>3. ASSUME NEW d \in Disturbance, Spend(d)
      PROVE  LeftHolds' /\ (Lossless' => Lossless)
  <2>1. LeftHolds' /\ \A e \in Disturbance : left'[e] <= left[e]
      BY <1>3, Spent
  <2>2. left \in [Disturbance -> Nat] /\ Budget \in [Disturbance -> Nat]
      BY BudgetAssumption DEF TypeOK
  <2>3. left' \in [Disturbance -> Nat]
      BY <1>3, SpendType
  <2>4. Lossless' => Lossless
      BY <2>1, <2>2, <2>3 DEF Lossless, LeftHolds, Disturbance
  <2> QED
      BY <2>1, <2>4
<1> QED
    BY <1>1, <1>2, <1>3

-----------------------------------------------------------------------------
(* The ledger and Headwind keep agreeing.                                  *)

\* Who is between the PUT and its record ends there, or dies.
LEMMA RecordLeaves ==
    ASSUME TypeOK, NEW p \in Proc, ProcStep(p), job[p].pc = "record"
    PROVE  RecordCreated(p) \/ Crash(p)
<1>1. ~Plan(p)
    BY DEF Plan, ListApplications, Reconcile, RefreshIndex, ReadSigner, PinSigner,
           Compare, CompareUnreadable, At
<1>2. Publish(p) => RecordCreated(p)
    BY DEF Publish, VerifyApks, RejectApks, Prepare, ReadVersions, ReadConfigurations,
           CreateVersion, CreateVersionLost, PublishFails, At
<1>3. ~LinkUp(p)
    BY DEF LinkUp, LinkOne, ResolveVersion, ReadInstalling, ReadRows, PostLinks,
           PostLinksLost, SendLinks, RecordPushed, LinkFails, At
<1>4. ~AbortRun(p) /\ \A cmd \in Commands[p] : ~StartRun(p, cmd)
    BY DEF AbortRun, StartRun, At
<1> QED
    BY <1>1, <1>2, <1>3, <1>4 DEF ProcStep, RunStep

LEMMA CaughtUpKept ==
    ASSUME DeliveryInv, [Next]_vars, NEW p \in Proc, ProcStep(p), ~RecordCreated(p),
           UNCHANGED versions, row'.created # 0 => row'.created = row.created
    PROVE  CaughtUp'
<1> SUFFICES ASSUME Lossless', row'.created # 0, \A q \in Proc : job'[q].pc # "record"
             PROVE  Newest(row.created)'
    BY DEF CaughtUp
<1>0. TypeOK /\ LeftHolds /\ CaughtUp
    BY DEF DeliveryInv, LedgerSound, RowSound
<1>1. Lossless
    BY <1>0, LeftStep
<1>2. ~Crash(p)
  <2>1. Crash(p) => left'["crash"] # Budget["crash"]
      BY <1>0, Spent DEF Crash, Disturbance
  <2> QED
      BY <2>1 DEF Lossless
<1>3. job[p].pc # "record"
    BY <1>0, <1>2, RecordLeaves
<1>4. \A q \in Proc : job[q].pc # "record"
    BY <1>0, <1>3, OnlyOneMoves
<1> QED
    BY <1>0, <1>1, <1>4 DEF CaughtUp, Newest

LEMMA PutLedger ==
    ASSUME DeliveryInv, [Next]_vars, NEW p \in Proc, Puts(p)
    PROVE  ServerSound' /\ LedgerSound'
<1> DEFINE new == [id |-> nextId, app |-> job[p].entryApp, name |-> job[p].offer.name,
                   code |-> job[p].offer.code]
<1>0. /\ TypeOK /\ LeftHolds /\ ServerTypeOK /\ ServerSound /\ LedgerSound
      /\ job[p] \in Job /\ row \in Row /\ job \in [Proc -> Job]
    BY DEF DeliveryInv, TypeOK
<1>1. /\ job[p].entryApp \in carriers /\ row.created < job[p].offer.code
      /\ Insert(job[p].entryApp, job[p].offer.name, job[p].offer.code)
      /\ row' = row /\ carriers' = carriers
      /\ job[p].offer.name \in Names /\ job[p].offer.code \in Nat
    BY PutInserts DEF Offer
<1>2. versions' = versions \cup {new}
    BY <1>1 DEF Insert
<1>3. ServerSound'
    BY <1>0, <1>1, InsertSound
<1>4. LedgerOrdered'
    BY <1>0, <1>1 DEF LedgerSound, LedgerOrdered
<1>5. CreatedExists'
    BY <1>0, <1>1, <1>2 DEF LedgerSound, CreatedExists
<1>6. row.created \in Nat /\ row.pushed \in Nat /\ row.pushed <= row.created
    BY <1>0 DEF LedgerSound, LedgerOrdered, Row
<1>7. PushedIsDelivered'
  <2> SUFFICES ASSUME row.pushed # 0, NEW c \in Confs, NEW code \in InstalledCodes(c)'
               PROVE  code >= row.pushed
      BY <1>1 DEF PushedIsDelivered
  <2>1. code \in InstalledCodes(c) \cup {job[p].offer.code}
      BY <1>0, <1>1, InsertInstalled
  <2>2. CASE code \in InstalledCodes(c)
      BY <1>0, <2>2 DEF LedgerSound, PushedIsDelivered
  <2>3. CASE code = job[p].offer.code
      BY <1>1, <1>6, <2>3
  <2> QED
      BY <2>1, <2>2, <2>3
<1>8. row.created # 0 => Clean(row.created)'
  <2> SUFFICES ASSUME row.created # 0 PROVE Clean(row.created)'
      OBVIOUS
  <2>1. Clean(row.created) /\ row.created # job[p].offer.code
      BY <1>0, <1>1, <1>6 DEF LedgerSound, RowSound
  <2>2. PICK created \in Nat : created = row.created
      BY <1>6
  <2>3. Clean(created)'
      BY <1>0, <1>1, <2>1, <2>2, InsertClean
  <2> QED
      BY <1>1, <2>2, <2>3 DEF Clean
<1>9. CaughtUp'
  <2>1. CASE CreateVersion(p)
    <3>1. PICK reply : Becomes(p, [job[p] EXCEPT !.pc = "record", !.reply = reply])
        BY <2>1 DEF CreateVersion
    <3>2. job'[p].pc = "record"
        BY <1>0, <3>1 DEF Becomes, Job
    <3> QED
        BY <3>2 DEF CaughtUp
  <2>2. CASE CreateVersionLost(p)
    <3>1. left'["lostPut"] # Budget["lostPut"]
        BY <1>0, <2>2, Spent DEF CreateVersionLost, Disturbance
    <3> QED
        BY <3>1 DEF CaughtUp, Lossless
  <2> QED
      BY <2>1, <2>2 DEF Puts
<1>10. Forgotten' /\ row'.app \in {NoApp, Application'}
    BY <1>0, <1>1 DEF LedgerSound, RowSound, Forgotten, Application
<1> QED
    BY <1>1, <1>3, <1>4, <1>5, <1>7, <1>8, <1>9, <1>10 DEF LedgerSound, RowSound

LEMMA PostLedger ==
    ASSUME DeliveryInv, [Next]_vars, NEW p \in Proc, ProcStep(p), SendLinks(p), row' = row
    PROVE  ServerSound' /\ LedgerSound'
<1>0. /\ TypeOK /\ ServerSound /\ LedgerSound /\ RowSound /\ RunSound(p) /\ row \in Row
    BY DEF DeliveryInv, LedgerSound, TypeOK
<1>1. UNCHANGED <<carriers, versions, nextId>>
    BY <1>0, PostMoves
<1>2. ServerSound' /\ \A code : Clean(code) => Clean(code)'
    BY <1>0, PostSound
<1>3. LedgerOrdered' /\ CreatedExists'
    BY <1>0, <1>1 DEF LedgerSound, LedgerOrdered, CreatedExists
<1>4. row.created \in Nat /\ row.pushed \in Nat /\ row.pushed <= row.created
    BY <1>0 DEF LedgerSound, LedgerOrdered, Row
<1>5. \A c \in Confs : \A code \in InstalledCodes(c)' : code = row.created
    BY <1>0, PostInstalled
<1>6. PushedIsDelivered'
    BY <1>4, <1>5 DEF PushedIsDelivered
<1>7. row.created # 0 => Clean(row.created)'
  <2> SUFFICES ASSUME row.created # 0 PROVE Clean(row.created)'
      OBVIOUS
  <2>1. Clean(row.created)
      BY <1>0 DEF RowSound
  <2>2. PICK created \in Nat : created = row.created
      BY <1>4
  <2>3. Clean(created)'
      BY <1>2, <2>1, <2>2
  <2> QED
      BY <2>2, <2>3 DEF Clean
<1>8. ~RecordCreated(p)
    BY DEF SendLinks, RecordCreated, At
<1>9. CaughtUp'
    BY <1>1, <1>8, CaughtUpKept
<1>10. Forgotten' /\ row'.app \in {NoApp, Application'}
    BY <1>0, <1>1 DEF RowSound, Forgotten, Application
<1> QED
    BY <1>2, <1>3, <1>6, <1>7, <1>9, <1>10 DEF LedgerSound, RowSound

LEMMA RecordLedger ==
    ASSUME DeliveryInv, [Next]_vars, NEW p \in Proc, RowStep(p)
    PROVE  ServerSound' /\ LedgerSound'
<1>0. /\ TypeOK /\ ServerSound /\ LedgerSound /\ RowSound /\ RunSound(p)
      /\ row \in Row /\ row' \in Row /\ job[p] \in Job
      /\ row.pushed <= row.created /\ Forgotten
    BY TypeStep DEF DeliveryInv, LedgerSound, LedgerOrdered, RowSound, TypeOK
<1>1. UNCHANGED serverVars
    BY <1>0, RowStepEffect
<1>2. ServerSound' /\ Application' = Application
    BY <1>0, <1>1 DEF ServerSound, serverVars, Application, UniqueIds, Ids
<1>3. Forgotten'
    BY <1>0, ForgottenStep
<1>4. ProcStep(p)
    BY DEF RowStep, ProcStep, RunStep, Plan, Publish, LinkUp
<1>5. row.created \in Nat /\ row.pushed \in Nat /\ job[p].offer.code \in Nat
    BY <1>0 DEF Row, Job, Offer
<1>6. CASE row' = NoRow
  <2>1. row'.created = 0 /\ row'.pushed = 0 /\ row'.app = NoApp
      BY <1>6 DEF NoRow
  <2> QED
      BY <1>2, <1>3, <2>1
      DEF LedgerSound, LedgerOrdered, CreatedExists, PushedIsDelivered, RowSound, CaughtUp
<1>7. CASE RecordCreated(p) /\ row' # NoRow
  <2>1. row' = [row EXCEPT !.created = job[p].offer.code]
      BY <1>0, <1>7 DEF RecordCreated, UpdateRow, Forgotten
  <2>2. /\ row'.created = job[p].offer.code
        /\ row'.pushed = row.pushed /\ row'.app = row.app
      BY <1>0, <2>1 DEF Row
  <2>3. /\ job[p].pc = "record" /\ row.created < job[p].offer.code
        /\ Clean(job[p].offer.code) /\ Newest(job[p].offer.code)
      BY <1>0, <1>7 DEF RecordCreated, At, RunSound, ProgressHolds, Creating
  <2>4. \E v \in versions : v.code = job[p].offer.code
      BY <2>3, PublishReads DEF Publishing
  <2>5. LedgerOrdered'
      BY <1>0, <1>5, <2>2, <2>3 DEF LedgerOrdered
  <2>6. CreatedExists'
      BY <1>1, <2>2, <2>4 DEF CreatedExists, serverVars
  <2>7. PushedIsDelivered'
      BY <1>0, <1>1, <2>2 DEF LedgerSound, PushedIsDelivered, serverVars, InstalledCodes
  <2>8. Clean(row.created)' /\ Newest(row.created)'
      BY <1>1, <2>2, <2>3 DEF Clean, Newest, serverVars
  <2> QED
      BY <1>0, <1>2, <1>3, <2>2, <2>5, <2>6, <2>7, <2>8 DEF LedgerSound, RowSound, CaughtUp
<1>8. CASE ~RecordCreated(p) /\ row' # NoRow
  <2>1. /\ row'.created = row.created
        /\ \/ row'.pushed = row.pushed
           \/ RecordPushed(p) /\ row'.pushed = job[p].code
        /\ row'.app = row.app \/ (row'.app = job[p].app /\ job[p].pc = "reconcile")
      BY <1>0, <1>8, RowStepEffect
  <2>2. RecordPushed(p) => job[p].code = row.created /\ Reached(job[p].code)
      BY <1>0 DEF RecordPushed, At, RunSound, ProgressHolds, Linking
  <2>3. LedgerOrdered'
      BY <1>0, <1>5, <2>1, <2>2 DEF LedgerOrdered
  <2>4. CreatedExists'
      BY <1>0, <1>1, <2>1 DEF LedgerSound, CreatedExists, serverVars
  <2>5. PushedIsDelivered'
      BY <1>0, <1>1, <2>1, <2>2
      DEF LedgerSound, PushedIsDelivered, Reached, serverVars, InstalledCodes
  <2>6. row'.created # 0 => Clean(row.created)'
      BY <1>0, <1>1, <2>1 DEF RowSound, Clean, serverVars
  <2>7. CaughtUp'
      BY <1>1, <1>4, <1>8, <2>1, CaughtUpKept DEF serverVars
  <2>8. row'.app \in {NoApp, Application'}
      BY <1>0, <1>2, <2>1 DEF RowSound, RunSound, AppHolds
  <2> QED
      BY <1>2, <1>3, <2>3, <2>4, <2>5, <2>6, <2>7, <2>8 DEF LedgerSound, RowSound
<1> QED
    BY <1>6, <1>7, <1>8

LEMMA QuietLedger ==
    ASSUME DeliveryInv, [Next]_vars, NEW p \in Proc, ProcStep(p), UNCHANGED serverVars,
           row' = row, ~RowStep(p)
    PROVE  ServerSound' /\ LedgerSound'
<1>0. /\ TypeOK /\ ServerSound /\ LedgerSound /\ RowSound
    BY DEF DeliveryInv, LedgerSound
<1>1. ServerSound' /\ LedgerOrdered' /\ CreatedExists' /\ PushedIsDelivered'
    BY <1>0 DEF ServerSound, LedgerSound, LedgerOrdered, CreatedExists, PushedIsDelivered,
                InstalledCodes, serverVars, UniqueIds, Ids
<1>2. /\ Forgotten' /\ row'.app \in {NoApp, Application'}
      /\ row'.created # 0 => Clean(row.created)'
    BY <1>0 DEF RowSound, Forgotten, Application, Clean, serverVars
<1>3. ~RecordCreated(p)
    BY DEF RowStep
<1>4. CaughtUp'
    BY <1>3, CaughtUpKept DEF serverVars
<1> QED
    BY <1>1, <1>2, <1>4 DEF LedgerSound, RowSound

LEMMA DeliveryStep ==
    ASSUME Sealed, Alone, DeliveryInv, [Next]_vars
    PROVE  DeliveryInv'
<1>0. TypeOK /\ TypeOK' /\ LeftHolds' /\ (Lossless' => Lossless)
    BY TypeStep, LeftStep DEF DeliveryInv
<1>1. ASSUME NEW p \in Proc, ProcStep(p)
      PROVE  DeliveryInv'
  <2>1. ServerSound' /\ LedgerSound'
    <3>1. CASE RowStep(p)
        BY <3>1, RecordLedger
    <3>2. CASE ~RowStep(p)
      <4>1. row' = row
          BY <1>0, <1>1, <3>2, WritersApply
      <4> QED
          BY <1>0, <1>1, <3>2, <4>1, WritersApply, PutLedger, PostLedger, QuietLedger
    <3> QED
        BY <3>1, <3>2
  <2>2. RunSound(p)'
    <3>1. CASE Plan(p) \/ Publish(p) \/ LinkUp(p)
        BY <3>1, PlanSound, PublishSound, LinkSound
    <3>2. CASE AbortRun(p) \/ Crash(p)
        BY <1>0, <3>2, IdleSound DEF AbortRun, Crash
    <3>3. CASE \E cmd \in Commands[p] : StartRun(p, cmd)
        BY <1>0, <3>3, StartSound
    <3> QED
        BY <1>1, <3>1, <3>2, <3>3 DEF ProcStep, RunStep
  <2>3. carriers' = carriers
    <3>1. Puts(p) => carriers' = carriers
        BY PutInserts
    <3>2. SendLinks(p) => carriers' = carriers
        BY DEF SendLinks, StoreLinks
    <3> QED
        BY <1>0, <1>1, <3>1, <3>2, WritersApply DEF serverVars
  <2>4. \A q \in Proc : q # p => RunSound(q)'
      BY <1>1, <2>3, OthersSound
  <2> QED
      BY <1>0, <2>1, <2>2, <2>4 DEF DeliveryInv
<1>2. CASE UNCHANGED <<serverVars, row, job>>
  <2>1. ServerSound' /\ LedgerOrdered' /\ CreatedExists' /\ PushedIsDelivered'
      BY <1>2 DEF DeliveryInv, ServerSound, LedgerSound, LedgerOrdered, CreatedExists,
                  PushedIsDelivered, InstalledCodes, serverVars, UniqueIds, Ids
  <2>2. RowSound'
      BY <1>0, <1>2 DEF DeliveryInv, LedgerSound, RowSound, Forgotten, CaughtUp, Clean,
                        Newest, Application, serverVars
  <2>3. \A q \in Proc : RunSound(q)'
      BY <1>2, Undisturbed DEF DeliveryInv, serverVars
  <2> QED
      BY <1>0, <2>1, <2>2, <2>3 DEF DeliveryInv, LedgerSound
<1> QED
    BY <1>1, <1>2, WhoSteps

LEMMA DeliveryInit ==
    ASSUME Init
    PROVE  DeliveryInv
<1>1. TypeOK
    BY TypeInit
<1>2. LeftHolds
    BY BudgetAssumption DEF Init, LeftHolds
<1>3. ServerSound
    BY ServersAssumption DEF Init, ServerInit, ServerSound
<1>4. LedgerSound
    BY DEF Init, NoRow, LedgerSound, LedgerOrdered, CreatedExists, PushedIsDelivered,
           RowSound, Forgotten, CaughtUp
<1>5. ASSUME NEW p \in Proc PROVE RunSound(p)
  <2>1. job[p].pc = "idle" /\ job[p].entryApp = NoApp
      BY DEF Init, Idle
  <2> QED
      BY <2>1 DEF RunSound, AppHolds, CommandHolds, ProgressHolds, PublicationReads,
                  LinkReads, Applying, Planning, Publishing, Creating, Linking
<1> QED
    BY <1>1, <1>2, <1>3, <1>4, <1>5 DEF DeliveryInv

-----------------------------------------------------------------------------
(* The theorems.                                                           *)

\* The inductive invariant, of which the properties below are consequences.
THEOREM Delivery ==
    ASSUME Sealed, Alone
    PROVE  Spec => []DeliveryInv
<1>1. Init => DeliveryInv
    BY DeliveryInit
<1>2. DeliveryInv /\ [Next]_vars => DeliveryInv'
    BY DeliveryStep
<1> QED
    BY <1>1, <1>2, PTL DEF Spec

\* While nobody else writes to Headwind and one run at most applies, what a run
\* read there is still what it holds when the run writes: nothing as new and
\* nothing of the same name at the PUT; the same target, the same configurations
\* and the same rows at the POST.
THEOREM ReadsStayTrue ==
    ASSUME Sealed, Alone
    PROVE  Spec => []RunMatchesServer
<1>1. DeliveryInv => RunMatchesServer
    BY DEF DeliveryInv, RunSound, RunMatchesServer
<1> QED
    BY <1>1, Delivery, PTL

\* The version recorded as created is in Headwind under its code, through every
\* crash, lost answer and edit of packages.yaml.
THEOREM CreationsExist ==
    ASSUME Sealed, Alone
    PROVE  Spec => []CreatedExists
<1>1. DeliveryInv => CreatedExists
    BY DEF DeliveryInv, LedgerSound
<1> QED
    BY <1>1, Delivery, PTL

\* Once a version is recorded as linked, no configuration installs an older one:
\* the record is only written when the links were set, or had nothing to set.
THEOREM LinksDelivered ==
    ASSUME Sealed, Alone
    PROVE  Spec => []PushedIsDelivered
<1>1. DeliveryInv => PushedIsDelivered
    BY DEF DeliveryInv, LedgerSound
<1> QED
    BY <1>1, Delivery, PTL

\* One run that applies beside any number of status and dry runs: the row they
\* all write keeps its order, and its codes never go back.
THEOREM LedgerBeside ==
    ASSUME Sealed, Alone
    PROVE  Spec => []LedgerOrdered /\ LedgerNeverRewinds
<1> DEFINE Onward == row.tracked /\ row'.tracked
                       => row'.created >= row.created /\ row'.pushed >= row.pushed
<1>1. DeliveryInv => LedgerOrdered
    BY DEF DeliveryInv, LedgerSound
<1>2. DeliveryInv /\ [Next]_vars => [Onward]_vars
  <2> SUFFICES ASSUME DeliveryInv, [Next]_vars PROVE Onward
      OBVIOUS
  <2>0. /\ TypeOK /\ row.created \in Nat /\ row.pushed \in Nat
        /\ row.pushed <= row.created
      BY DEF DeliveryInv, LedgerSound, LedgerOrdered, TypeOK, Row
  <2>1. CASE row' = row
      BY <2>0, <2>1
  <2>2. ASSUME NEW p \in Proc, RowStep(p)
        PROVE  Onward
    <3>1. RunSound(p) /\ job[p].offer.code \in Nat
        BY <2>0 DEF DeliveryInv, TypeOK, Job, Offer
    <3>2. RecordCreated(p) => row.created < job[p].offer.code
        BY <3>1 DEF RecordCreated, At, RunSound, ProgressHolds, Creating
    <3>3. RecordPushed(p) => job[p].code = row.created
        BY <3>1 DEF RecordPushed, At, RunSound, ProgressHolds, Linking
    <3>4. row' = NoRow => ~row'.tracked
        BY DEF NoRow
    <3> QED
        BY <2>0, <2>2, <3>1, <3>2, <3>3, <3>4, RowStepEffect
  <2> QED
      BY <2>1, <2>2, RowWriters
<1> QED
    BY <1>1, <1>2, Delivery, PTL DEF Spec, LedgerNeverRewinds

\* What any step does to the codes a configuration installs.
LEMMA InstalledStep ==
    ASSUME Sealed, DeliveryInv, [Next]_vars, NEW c \in Confs
    PROVE  \/ InstalledCodes(c)' = InstalledCodes(c)
           \/ \E p \in Proc :
                 /\ \A v \in versions : v.code < job[p].offer.code
                 /\ InstalledCodes(c)' \subseteq InstalledCodes(c) \cup {job[p].offer.code}
                 /\ InstalledCodes(c)' = {} <=> InstalledCodes(c) = {}
           \/ \E p \in Proc :
                 /\ SendLinks(p)
                 /\ InstalledCodes(c) # {} /\ InstalledCodes(c)' = {row.created}
<1>0. TypeOK /\ ServerTypeOK /\ ServerSound /\ RowSound /\ \A p \in Proc : RunSound(p)
    BY DEF DeliveryInv, LedgerSound, TypeOK
<1>1. CASE UNCHANGED serverVars
    BY <1>1 DEF serverVars, InstalledCodes
<1>2. ASSUME NEW p \in Proc, Puts(p)
      PROVE  /\ \A v \in versions : v.code < job[p].offer.code
             /\ InstalledCodes(c)' \subseteq InstalledCodes(c) \cup {job[p].offer.code}
             /\ InstalledCodes(c)' = {} <=> InstalledCodes(c) = {}
  <2>1. /\ job[p].entryApp \in carriers /\ job[p].offer \in Offer
        /\ \A v \in versions : v.code < job[p].offer.code
        /\ Insert(job[p].entryApp, job[p].offer.name, job[p].offer.code)
      BY <1>2, PutInserts
  <2>2. job[p].offer.name \in Names /\ job[p].offer.code \in Nat
      BY <2>1 DEF Offer
  <2> QED
      BY <1>0, <2>1, <2>2, InsertInstalled
<1>3. ASSUME NEW p \in Proc, SendLinks(p)
      PROVE  \/ InstalledCodes(c)' = InstalledCodes(c)
             \/ InstalledCodes(c) # {} /\ InstalledCodes(c)' = {row.created}
    BY <1>0, <1>3, PostInstalled
<1>4. UNCHANGED serverVars \/ \E p \in Proc : Puts(p) \/ SendLinks(p)
    BY <1>0, WhoSteps, WritersApply
<1> QED
    BY <1>1, <1>2, <1>3, <1>4

\* The service never moves a configuration to an older code, unless a run lost
\* track of a creation: by the PUT, nothing is as new as what it creates; by the
\* POST, what is linked is what the ledger knows as the newest.
THEOREM NeverDowngraded ==
    ASSUME Sealed, Alone
    PROVE  Spec => NoDowngrade
<1> DEFINE Upwards ==
        ServiceStep =>
            \A c \in Confs : \A new \in InstalledCodes(c)' \ InstalledCodes(c) :
                \A old \in InstalledCodes(c) :
                    new > old \/ (new = row.created /\ ~Lossless)
<1>1. DeliveryInv /\ [Next]_vars => [Upwards]_vars
  <2> SUFFICES ASSUME DeliveryInv, [Next]_vars, NEW c \in Confs,
                      NEW new \in InstalledCodes(c)' \ InstalledCodes(c),
                      NEW old \in InstalledCodes(c)
               PROVE  new > old \/ (new = row.created /\ ~Lossless)
      OBVIOUS
  <2>0. /\ TypeOK /\ CaughtUp /\ row.created \in Nat
        /\ \A p \in Proc : RunSound(p) /\ job[p].offer.code \in Nat
      BY DEF DeliveryInv, LedgerSound, RowSound, TypeOK, Row, Job, Offer
  <2>1. PICK v \in versions : v.code = old
      BY DEF InstalledCodes
  <2>2. old \in Nat
      BY <2>0, <2>1 DEF TypeOK, ServerTypeOK, Version
  <2>3. ASSUME NEW p \in Proc, \A w \in versions : w.code < job[p].offer.code,
               InstalledCodes(c)' \subseteq InstalledCodes(c) \cup {job[p].offer.code}
        PROVE  new > old
      BY <2>0, <2>1, <2>2, <2>3
  <2>4. ASSUME NEW p \in Proc, SendLinks(p), InstalledCodes(c)' = {row.created}, Lossless
        PROVE  new > old
    <3>1. job[p].pc = "post" /\ row.created # 0
        BY <2>0, <2>4 DEF SendLinks, At, RunSound, ProgressHolds, Linking
    <3>2. \A q \in Proc : job[q].pc # "record"
      <4> SUFFICES ASSUME NEW q \in Proc, job[q].pc = "record" PROVE FALSE
          OBVIOUS
      <4>1. "apply" \in Commands[p] /\ "apply" \in Commands[q]
          BY <2>0, <3>1 DEF RunSound, CommandHolds, Applying, Publishing, Linking
      <4> QED
          BY <3>1, <4>1 DEF Alone, OneRun, OneApplier
    <3>3. v.code <= row.created
        BY <2>0, <2>4, <3>1, <3>2 DEF CaughtUp, Newest
    <3> QED
        BY <2>0, <2>1, <2>2, <2>4, <3>3
  <2>5. CASE ~Lossless
    <3>1. CASE new = row.created
        BY <2>5, <3>1
    <3>2. CASE new # row.created
        BY <2>3, <3>2, InstalledStep
    <3> QED
        BY <3>1, <3>2
  <2>6. CASE Lossless
      BY <2>3, <2>4, <2>6, InstalledStep
  <2> QED
      BY <2>5, <2>6
<1> QED
    BY <1>1, Delivery, PTL DEF Spec, NoDowngrade

-----------------------------------------------------------------------------
(* Approval.                                                               *)

\* A run only links while approval is on.
Approved == \A p \in Proc : job[p].pc \in Linking => row.auto

\* The linking of a run starts with the row that approves it, and leaves it alone
\* until it ends.
LEMMA LinkingEntered ==
    ASSUME TypeOK, NEW p \in Proc, ProcStep(p), job'[p].pc \in Linking
    PROVE  row' = row /\ (job[p].pc \in Linking \/ row.auto)
<1>0. job \in [Proc -> Job] /\ job[p] \in Job /\ Idle \in Job
    BY IdleType DEF TypeOK
<1>a. ~Finish(p)
    BY <1>0 DEF Finish, Becomes, Idle, Linking
<1>b. ASSUME NEW outcome, Publishes(p, outcome) PROVE FALSE
  <2>1. job'[p].pc = "link"
      BY <1>0, <1>b DEF Publishes, Becomes, Job
  <2> QED
      BY <2>1 DEF Linking
<1>c. ASSUME NEW l, l \notin Linking PROVE ~Goto(p, l)
    BY <1>0, <1>c DEF Goto, Becomes, Job
<1>d. ASSUME NEW j \in Job, Planned(p, j) PROVE FALSE
  <2>1. \/ Becomes(p, [j EXCEPT !.pc = "verify"])
        \/ Becomes(p, [j EXCEPT !.pc = "link"])
      BY <1>a, <1>d DEF Planned, Finish, Becomes
  <2>2. job'[p].pc \in {"verify", "link"}
      BY <1>0, <2>1 DEF Becomes, Job
  <2> QED
      BY <2>2 DEF Linking
<1>1. ~Plan(p)
  <2>1. ~ListApplications(p)
    <3>1. ListApplications(p) => job'[p].pc = "reconcile"
        BY <1>0 DEF ListApplications, Becomes, Job
    <3> QED
        BY <3>1 DEF Linking
  <2>2. ~Reconcile(p)
      BY <1>a, <1>c DEF Reconcile, Linking
  <2>3. ~RefreshIndex(p)
    <3>1. EarlyStatus(job[p], offer) \in Status
        BY DEF EarlyStatus, Status
    <3>2. [job[p] EXCEPT !.status = EarlyStatus(job[p], offer)] \in Job
        BY <1>0, <3>1 DEF Job
    <3>3. Becomes(p, [job[p] EXCEPT !.pc = "signer", !.offer = offer])
            => job'[p].pc = "signer"
        BY <1>0 DEF Becomes, Job
    <3> QED
        BY <1>d, <3>2, <3>3 DEF RefreshIndex, Linking
  <2>4. ~ReadSigner(p)
    <3> DEFINE same == row.signer = job[p].offer.signer
    <3>1. ReadSigner(p) => \/ Goto(p, "pin")
                           \/ Becomes(p, [job[p] EXCEPT !.pc = "compare", !.trusted = same])
        BY DEF ReadSigner
    <3> HIDE DEF same
    <3>2. Becomes(p, [job[p] EXCEPT !.pc = "compare", !.trusted = same])
            => job'[p].pc = "compare"
        BY <1>0 DEF Becomes, Job
    <3> QED
        BY <1>c, <3>1, <3>2 DEF Linking
  <2>5. ~PinSigner(p)
    <3>1. PinSigner(p) => job'[p].pc = "compare"
        BY <1>0 DEF PinSigner, Becomes, Job
    <3> QED
        BY <3>1 DEF Linking
  <2>6. ~Compare(p)
    <3>1. PlanStatus(job[p], VersionsOf(job[p].app)) \in Status
        BY DEF PlanStatus, Status
    <3>2. [job[p] EXCEPT !.entryApp = job[p].app,
                         !.status = PlanStatus(job[p], VersionsOf(job[p].app))] \in Job
        BY <1>0, <3>1 DEF Job
    <3> QED
        BY <1>d, <3>2 DEF Compare
  <2>7. ~CompareUnreadable(p)
    <3>1. [job[p] EXCEPT !.status = "SKIPPED"] \in Job
        BY <1>0 DEF Job, Status
    <3> QED
        BY <1>d, <3>1 DEF CompareUnreadable
  <2> QED
      BY <2>1, <2>2, <2>3, <2>4, <2>5, <2>6, <2>7 DEF Plan
<1>2. ~Publish(p)
  <2>1. ~VerifyApks(p) /\ ~RejectApks(p)
    <3>1. VerifyApks(p) => job'[p].pc = "prepare"
        BY <1>0 DEF VerifyApks, Becomes, Job
    <3>2. RejectApks(p) => job'[p].pc = "link"
        BY <1>0 DEF RejectApks, Becomes, Job
    <3> QED
        BY <3>1, <3>2 DEF Linking
  <2>2. ~Prepare(p) /\ ~ReadConfigurations(p)
      BY <1>b, <1>c DEF Prepare, ReadConfigurations, Linking
  <2>3. ~ReadVersions(p)
    <3>1. ASSUME NEW ids, Becomes(p, [job[p] EXCEPT !.pc = "configurations", !.known = ids])
          PROVE  FALSE
        BY <1>0, <3>1 DEF Becomes, Job, Linking
    <3> QED
        BY <1>b, <3>1 DEF ReadVersions
  <2>4. ~CreateVersion(p)
    <3>1. ASSUME NEW reply, Becomes(p, [job[p] EXCEPT !.pc = "record", !.reply = reply])
          PROVE  FALSE
        BY <1>0, <3>1 DEF Becomes, Job, Linking
    <3> QED
        BY <3>1 DEF CreateVersion
  <2>5. ~CreateVersionLost(p) /\ ~RecordCreated(p) /\ ~PublishFails(p)
      BY <1>b DEF CreateVersionLost, RecordCreated, PublishFails
  <2> QED
      BY <2>1, <2>2, <2>3, <2>4, <2>5 DEF Publish
<1>3. ~AbortRun(p) /\ ~Crash(p) /\ \A cmd \in Commands[p] : ~StartRun(p, cmd)
  <2>1. \A cmd \in Commands[p] : StartRun(p, cmd) => job'[p].pc = "list"
      BY <1>0 DEF StartRun, Becomes, Job
  <2> QED
      BY <1>a, <2>1 DEF AbortRun, Crash, Linking
<1>4. LinkUp(p)
    BY <1>1, <1>2, <1>3 DEF ProcStep, RunStep
<1> QED
    BY <1>4, <1>a DEF LinkUp, LinkOne, ResolveVersion, ReadInstalling, ReadRows, PostLinks,
                      PostLinksLost, SendLinks, RecordPushed, LinkFails, At, Linking

LEMMA ApprovedStep ==
    ASSUME Sealed, OneRun, TypeOK, Approved, [Next]_vars
    PROVE  Approved'
<1>1. ASSUME NEW p \in Proc, ProcStep(p)
      PROVE  Approved'
  <2>1. job'[p].pc \in Linking => row'.auto
      BY <1>1, LinkingEntered DEF Approved
  <2> QED
      BY <2>1 DEF OneRun, Approved
<1>2. CASE UNCHANGED <<serverVars, row, job>>
    BY <1>2 DEF Approved
<1> QED
    BY <1>1, <1>2, WhoSteps

\* An insertion changes nothing where versions are not updated by themselves.
LEMMA InsertDelivered ==
    ASSUME ServerTypeOK, ServerSound, NEW app \in carriers, NEW name \in Names,
           NEW code \in Nat, Insert(app, name, code), NEW c \in Confs \ AutoUpdate
    PROVE  Delivered(c)' = Delivered(c)
<1> DEFINE new == [id |-> nextId, app |-> app, name |-> name, code |-> code]
           at(v) == [conf |-> c, ver |-> v.id, action |-> 1]
<1>1. versions' = versions \cup {new}
    BY DEF Insert
<1>2. new.id = nextId /\ \A v : at(v).conf = c /\ at(v).ver = v.id
    OBVIOUS
<1>3. \A v \in versions : v.id # nextId
    BY DEF ServerTypeOK, Version, ServerSound
<1>4. \A l \in links : l.ver # nextId
    BY <1>3 DEF ServerSound, Ids
<1>5. Delivered(c) = {<<v.id, v.code>> : v \in {w \in versions : at(w) \in links}}
    BY DEF Delivered
<1>6. Delivered(c)' = {<<v.id, v.code>> : v \in {w \in versions' : at(w) \in links'}}
    BY DEF Delivered
<1> HIDE DEF new, at
<1>7. \A v \in versions' : at(v) \in links' => at(v) \in links
    BY <1>2, InsertMoves DEF Moved, ServerTypeOK
<1>8. \A v \in versions : at(v) \in links => at(v) \in links'
    BY <1>2, InsertMoves DEF Moved, ServerTypeOK
<1>9. at(new) \notin links
    BY <1>2, <1>4
<1>10. {w \in versions' : at(w) \in links'} = {w \in versions : at(w) \in links}
    BY <1>1, <1>7, <1>8, <1>9
<1> QED
    BY <1>5, <1>6, <1>10

\* With one run at a time and nobody else writing to Headwind, nothing changes for
\* the devices of a configuration without autoUpdate while auto_approve is off.
THEOREM ApprovalRespected ==
    ASSUME Sealed, OneRun
    PROVE  Spec => NoUnapprovedDelivery
<1> DEFINE Unmoved ==
        ServiceStep /\ ~row.auto =>
            \A c \in Confs \ AutoUpdate : Delivered(c)' = Delivered(c)
<1>0. Alone
    BY DEF Alone
<1>1. Init => Approved
    BY DEF Init, Idle, Approved, Linking
<1>2. TypeOK /\ Approved /\ [Next]_vars => Approved'
    BY ApprovedStep
<1>3. DeliveryInv /\ Approved /\ [Next]_vars => [Unmoved]_vars
  <2> SUFFICES ASSUME DeliveryInv, Approved, [Next]_vars, ~row.auto,
                      NEW c \in Confs \ AutoUpdate
               PROVE  Delivered(c)' = Delivered(c)
      OBVIOUS
  <2>0. TypeOK /\ ServerTypeOK /\ ServerSound
      BY DEF DeliveryInv, TypeOK
  <2>1. CASE UNCHANGED serverVars
      BY <2>1 DEF serverVars, Delivered
  <2>2. ASSUME NEW p \in Proc, Puts(p)
        PROVE  Delivered(c)' = Delivered(c)
    <3>1. /\ job[p].entryApp \in carriers /\ job[p].offer \in Offer
          /\ Insert(job[p].entryApp, job[p].offer.name, job[p].offer.code)
        BY <2>2, PutInserts
    <3>2. job[p].offer.name \in Names /\ job[p].offer.code \in Nat
        BY <3>1 DEF Offer
    <3> QED
        BY <2>0, <3>1, <3>2, InsertDelivered
  <2>3. \A p \in Proc : ~SendLinks(p)
      BY DEF Approved, SendLinks, At, Linking
  <2>4. UNCHANGED serverVars \/ \E p \in Proc : Puts(p) \/ SendLinks(p)
      BY <2>0, WhoSteps, WritersApply
  <2> QED
      BY <2>1, <2>2, <2>3, <2>4
<1> QED
    BY <1>0, <1>1, <1>2, <1>3, Delivery, TypeInvariant, PTL DEF Spec, NoUnapprovedDelivery

=============================================================================
