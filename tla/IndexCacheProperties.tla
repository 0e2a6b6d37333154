----------------------- MODULE IndexCacheProperties -----------------------
(***************************************************************************)
(* What the cache of the index must never show the planner.                *)
(***************************************************************************)
EXTENDS IndexCache

CONSTANT NoRead

ASSUME ReadAssumption ==
    NoRead \notin [wanted : SUBSET Pkgs, timestamp : Nat, answered : BOOLEAN,
                   view : Payload]

\* What the planner looks up: only the packages it tracks.
View(payload, wanted) == [p \in DOMAIN payload \cap wanted |-> payload[p]]

\* A record holds, for the packages it says it tracks, exactly what the index of
\* its timestamp publishes, and its ETag is that of the same index.
Coherent(c) ==
    /\ c.timestamp \in DOMAIN history
    /\ View(c.payload, c.tracked) = Project(history[c.timestamp], c.tracked)
    /\ c.etag \in {0, c.timestamp}

\* Whichever writers overlapped or died, a file that can be read is safe to patch
\* and to serve.
FileIsCoherent == file \in Cached => Coherent(file)

\* The abstract read a refresh stands for.
ReadOf(j) ==
    IF j.pc \in {"idle", "entry"} THEN NoRead
    ELSE [wanted |-> j.wanted,
          timestamp |-> IF j.pc = "cached" THEN j.cached.timestamp ELSE j.timestamp,
          answered |-> j.pc = "served",
          view |-> IF j.pc = "served" THEN View(j.payload, j.wanted) ELSE NoIndex]

Reads == INSTANCE IndexReads WITH reads <- [p \in Proc |-> ReadOf(job[p])]

\* A refresh, through 304s, diffs, fallbacks, overlapping writers and crashes,
\* answers the tracked packages exactly as published in the index entry.json
\* described when it was asked: neither a version withdrawn since nor a package
\* missing because it was not tracked before.
ImplementsReads == Reads!Spec

\* What a refresh holds on to between its steps: with FileIsCoherent, inductive.
RefreshHolds(j) ==
    /\ j.pc # "idle" => j.wanted \in Wanted
    /\ j.cached \in Cached => Coherent(j.cached)
    /\ j.pc = "cached" => /\ j.cached \in Cached
                          /\ j.wanted \subseteq j.cached.tracked
    /\ j.pc \in {"decide", "truncate", "write"} => j.etag \in {0, j.timestamp}
    /\ j.pc \in {"decide", "truncate", "write", "served"}
          => j.timestamp \in DOMAIN history
    /\ j.pc \in {"truncate", "write", "served"}
          => View(j.payload, j.wanted) = Project(history[j.timestamp], j.wanted)

CacheInv == TypeOK /\ FileIsCoherent /\ \A p \in Proc : RefreshHolds(job[p])

=============================================================================
