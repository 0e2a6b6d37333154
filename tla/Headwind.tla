------------------------------ MODULE Headwind ------------------------------
(***************************************************************************)
(* The Headwind MDM server, as the service sees it: applications that      *)
(* carry the tracked package, their versions, and the links that say what  *)
(* each configuration does with a version.  The server is not in the       *)
(* repository: these definitions come from how the clients of src/ use it  *)
(* and from the notes the repository keeps on its behaviour.               *)
(*                                                                         *)
(* A version name stands for the exact string the server compares.  A      *)
(* version code of 0 is "no code".  Action 1 installs the version in the   *)
(* configuration, 2 uninstalls it, 0 is "do not install".                  *)
(***************************************************************************)
EXTENDS Naturals

CONSTANTS
    Apps,        \* application ids that may carry the package
    Names,       \* version names
    Rank,        \* the textual ranking of names: Rank[n] is n's index
    Confs,       \* configurations of the instance
    AutoUpdate,  \* those with autoUpdate = TRUE
    Servers      \* the states the server may be in when tracking starts

VARIABLES
    carriers,    \* the applications that carry the package now
    versions,    \* the rows of applicationVersions
    links,       \* the rows of configurationApplications
    latest,      \* latest[a]: id of a's latestVersion, 0 when it has none
    nextId       \* the next row id; ids are never reused

serverVars == <<carriers, versions, links, latest, nextId>>

Version == [id : Nat \ {0}, app : Apps, name : Names, code : Nat]
Link == [conf : Confs, ver : Nat \ {0}, action : 0..2]
Server == [carriers : SUBSET Apps, versions : SUBSET Version,
           links : SUBSET Link, latest : [Apps -> Nat], nextId : Nat \ {0}]

Ids(vs) == {v.id : v \in vs}
UniqueIds(vs) == \A v, w \in vs : v.id = w.id => v = w

ASSUME RankAssumption == Rank \in [Names -> Nat]
ASSUME ConfsAssumption == AutoUpdate \subseteq Confs
ASSUME ServersAssumption ==
    /\ Servers \subseteq Server
    /\ \A s \in Servers : /\ UniqueIds(s.versions)
                          /\ \A v \in s.versions : v.id < s.nextId /\ v.app \in s.carriers
                          /\ \A l \in s.links : l.ver \in Ids(s.versions)

ServerTypeOK ==
    /\ carriers \subseteq Apps
    /\ versions \subseteq Version
    /\ links \subseteq Link
    /\ latest \in [Apps -> Nat]
    /\ nextId \in Nat \ {0}

ServerInit ==
    \E s \in Servers :
        /\ carriers = s.carriers
        /\ versions = s.versions
        /\ links = s.links
        /\ latest = s.latest
        /\ nextId = s.nextId

-----------------------------------------------------------------------------
(* Reads.                                                                  *)

VersionsOf(app) == {v \in versions : v.app = app}
LinksOf(app) == {l \in links : l.ver \in Ids(VersionsOf(app))}

\* GET applications/configurations/{app}: the configurations where one of the
\* versions of the application is installed.
InstallingConfs(app) == {l.conf : l \in {k \in LinksOf(app) : k.action = 1}}

\* GET applications/version/{id}/configurations: one row per configuration,
\* with action 0 where the version has no link.
RowsOf(ver) ==
    LET own == {l \in links : l.ver = ver}
    IN  {[conf |-> l.conf, action |-> l.action] : l \in own}
        \cup {[conf |-> c, action |-> 0] : c \in Confs \ {l.conf : l \in own}}

\* The codes a configuration installs.
InstalledCodes(c) ==
    {v.code : v \in {w \in versions :
        \E l \in links : l.ver = w.id /\ l.conf = c /\ l.action = 1}}

-----------------------------------------------------------------------------
(* Writes.                                                                 *)

\* doAutoUpdateToApplicationVersion
AutoUpdated(app, ver) ==
    {IF l \in LinksOf(app) /\ l.conf \in AutoUpdate /\ l.action # 2
     THEN [l EXCEPT !.ver = ver] ELSE l : l \in links}

\* A version of this name exists: its row is rewritten, its links are kept and
\* latestVersion is not recalculated.
RewriteInPlace(v, code) ==
    /\ versions' = (versions \ {v}) \cup {[v EXCEPT !.code = code]}
    /\ links' = IF latest[v.app] = v.id THEN AutoUpdated(v.app, v.id) ELSE links
    /\ UNCHANGED <<carriers, latest, nextId>>

TopRanked(app, vs) ==
    {v \in vs : /\ v.app = app
                /\ \A w \in vs : w.app = app => Rank[w.name] <= Rank[v.name]}

\* recalculateLatestVersion, then the auto-update if the new version won.
Insert(app, name, code) ==
    LET new == [id |-> nextId, app |-> app, name |-> name, code |-> code]
    IN  /\ versions' = versions \cup {new}
        /\ \E top \in TopRanked(app, versions \cup {new}) :
              /\ latest' = [latest EXCEPT ![app] = top.id]
              /\ links' = IF top = new THEN AutoUpdated(app, nextId) ELSE links
        /\ nextId' = nextId + 1
        /\ UNCHANGED carriers

\* PUT applications/versions
StoreVersion(app, name, code) ==
    \/ \E v \in VersionsOf(app) : v.name = name /\ RewriteInPlace(v, code)
    \/ (\A v \in VersionsOf(app) : v.name # name) /\ Insert(app, name, code)

\* POST applications/version/configurations: the links of the version are
\* replaced; where it gets installed, the other versions of the application
\* leave the configuration, save the uninstalls requested on them.
StoreLinks(app, ver, rows) ==
    LET installs == {r.conf : r \in {s \in rows : s.action = 1}}
        replaced(l) == \/ l.ver = ver
                       \/ l \in LinksOf(app) /\ l.conf \in installs /\ l.action # 2
    IN  /\ links' = {l \in links : ~replaced(l)}
                    \cup {[conf |-> r.conf, ver |-> ver, action |-> r.action] : r \in rows}
        /\ UNCHANGED <<carriers, versions, latest, nextId>>

=============================================================================
