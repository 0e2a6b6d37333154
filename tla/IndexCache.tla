----------------------------- MODULE IndexCache -----------------------------
(***************************************************************************)
(* refresh_index: from the projected index kept in a file to the index as  *)
(* the repository publishes it, by a conditional request, a diff or the    *)
(* whole file.  The file is written in place, by processes that may stop   *)
(* between any two steps and may overlap; the repository may publish, or   *)
(* answer from a mirror that lags, between any two requests.               *)
(*                                                                         *)
(* The timestamp of an index is its position in history, and its ETag too. *)
(***************************************************************************)
EXTENDS IndexData, Naturals, Sequences

CONSTANTS
    Proc,       \* processes that refresh the index
    NoFile,     \* no cache file
    Empty, Torn,\* a file just truncated, or that two writers mixed up
    Published,  \* what the repository may publish
    Wanted,     \* the sets of packages packages.yaml may track
    DiffWindow, \* a diff is offered from the last DiffWindow indexes
    MaxIndexes, \* bound: indexes ever published
    MaxCrashes, \* bound: crashes
    MaxLags     \* bound: moves to another mirror

ASSUME PublishedAssumption == Published \subseteq Index /\ Wanted \subseteq SUBSET Pkgs
ASSUME WindowAssumption == DiffWindow \in Nat /\ MaxIndexes \in Nat \ {0}
ASSUME BoundsAssumption == MaxCrashes \in Nat /\ MaxLags \in Nat

VARIABLES
    history,  \* the indexes published so far
    front,    \* the one entry.json describes now
    file,     \* index-cache.json
    job,      \* job[p]: the local state of a refresh
    crashes, lags

repoVars == <<history, front>>
vars == <<repoVars, file, job, crashes, lags>>

Cached == [timestamp : Nat \ {0}, etag : Nat, tracked : SUBSET Pkgs, payload : Payload]

ASSUME FileAssumption == {NoFile, Empty, Torn} \cap Cached = {}

Label == {"idle", "entry", "cached", "decide", "truncate", "write", "served"}

Job == [pc : Label, wanted : SUBSET Pkgs,
        cached : Cached \cup {NoFile},    \* the file as loaded, while it matters
        timestamp : Nat, etag : Nat,      \* the entry's; ETag 0 when it has none
        payload : Payload]                \* what the refresh answers

NoIndex == [p \in {} |-> Null]
Idle == [pc |-> "idle", wanted |-> {}, cached |-> NoFile,
         timestamp |-> 0, etag |-> 0, payload |-> NoIndex]

At(p, l) == job[p].pc = l
Becomes(p, j) == job' = [job EXCEPT ![p] = j]
Answers(p, l, payload) ==
    Becomes(p, [job[p] EXCEPT !.pc = l, !.payload = payload, !.cached = NoFile])

TypeOK ==
    /\ history \in Seq(Published) /\ front \in DOMAIN history
    /\ file \in Cached \cup {NoFile, Empty, Torn}
    /\ job \in [Proc -> Job]
    /\ crashes \in 0..MaxCrashes /\ lags \in 0..MaxLags

Init ==
    /\ \E i \in Published : history = <<i>>
    /\ front = 1
    /\ file = NoFile
    /\ job = [p \in Proc |-> Idle]
    /\ crashes = 0 /\ lags = 0

-----------------------------------------------------------------------------

\* Mutant: what is not a cache is loaded all the same.
LoadUnchecked == file

\* An unreadable file counts for none.
Load == IF file \in {Empty, Torn} THEN NoFile ELSE file

StartRefresh(p) ==
    /\ At(p, "idle")
    /\ \E wanted \in Wanted :
          Becomes(p, [Idle EXCEPT !.pc = "entry", !.wanted = wanted, !.cached = Load])
    /\ UNCHANGED <<repoVars, file, crashes, lags>>

\* Mutant: a larger set of packages is not noticed.
UsableAlways(j) == j.cached # NoFile

\* There is a cache, and it was not widened.
Usable(j) == j.cached # NoFile /\ j.wanted \subseteq j.cached.tracked

\* If-None-Match, unless there is no usable cache or it holds no ETag.
FetchEntry(p) ==
    /\ At(p, "entry")
    /\ IF Usable(job[p]) /\ job[p].cached.etag = front
       THEN Becomes(p, [job[p] EXCEPT !.pc = "cached"])
       ELSE \E etag \in {0, front} :
               Becomes(p, [job[p] EXCEPT !.pc = "decide", !.timestamp = front, !.etag = etag])
    /\ UNCHANGED <<repoVars, file, crashes, lags>>

\* 304: the cache is served and left as it is.
ServeUnchanged(p) ==
    /\ At(p, "cached")
    /\ Becomes(p, [job[p] EXCEPT !.pc = "served", !.payload = job[p].cached.payload,
                                 !.timestamp = job[p].cached.timestamp,
                                 !.cached = NoFile])
    /\ UNCHANGED <<repoVars, file, crashes, lags>>

SameTimestamp(j) == Usable(j) /\ j.cached.timestamp = j.timestamp

KeepPayload(p) ==
    /\ At(p, "decide")
    /\ SameTimestamp(job[p])
    /\ Answers(p, "truncate", job[p].cached.payload)
    /\ UNCHANGED <<repoVars, file, crashes, lags>>

DiffOffered(j) ==
    Usable(j) /\ j.cached.timestamp < j.timestamp
              /\ j.timestamp <= j.cached.timestamp + DiffWindow

Patched(j, diff) == MergeDiff(j.cached.payload, Project(diff, j.wanted))

\* The sha256 of the entry only matches the files published with it.
Intact(j) == j.timestamp = front

FetchDiff(p) ==
    /\ At(p, "decide")
    /\ ~SameTimestamp(job[p]) /\ DiffOffered(job[p]) /\ Intact(job[p])
    /\ LET diff == DiffOf(history[job[p].cached.timestamp], history[front])
       IN  Answers(p, "truncate", Patched(job[p], diff))
    /\ UNCHANGED <<repoVars, file, crashes, lags>>

FetchIndex(p) ==
    /\ At(p, "decide")
    /\ ~SameTimestamp(job[p]) /\ ~DiffOffered(job[p]) /\ Intact(job[p])
    /\ Answers(p, "truncate", Project(history[front], job[p].wanted))
    /\ UNCHANGED <<repoVars, file, crashes, lags>>

\* A hash mismatch ends the run, before anything is written.
RejectFile(p) ==
    /\ At(p, "decide")
    /\ ~SameTimestamp(job[p]) /\ ~Intact(job[p])
    /\ Becomes(p, Idle)
    /\ UNCHANGED <<repoVars, file, crashes, lags>>

\* The file is opened for writing, which empties it...
TruncateFile(p) ==
    /\ At(p, "truncate")
    /\ file' = Empty
    /\ Becomes(p, [job[p] EXCEPT !.pc = "write"])
    /\ UNCHANGED <<repoVars, crashes, lags>>

CacheRecord(j) ==
    [timestamp |-> j.timestamp, etag |-> j.etag, tracked |-> j.wanted, payload |-> j.payload]

\* Another process writes the file too, or wrote it since it was truncated.
Disturbed(p) == file # Empty \/ \E q \in Proc \ {p} : At(q, "write")

\* ... and written.  Two writers at once may leave a mix of both.
WriteFile(p) ==
    /\ At(p, "write")
    /\ \/ file' = CacheRecord(job[p])
       \/ Disturbed(p) /\ file' = Torn
    /\ Becomes(p, [job[p] EXCEPT !.pc = "served"])
    /\ UNCHANGED <<repoVars, crashes, lags>>

\* The index has been used.
EndRefresh(p) ==
    /\ At(p, "served")
    /\ Becomes(p, Idle)
    /\ UNCHANGED <<repoVars, file, crashes, lags>>

\* The process stops, or a request fails.
Crash(p) ==
    /\ ~At(p, "idle")
    /\ crashes < MaxCrashes /\ crashes' = crashes + 1
    /\ Becomes(p, Idle)
    /\ UNCHANGED <<repoVars, file, lags>>

-----------------------------------------------------------------------------
(* The repository.                                                         *)

Publish ==
    /\ Len(history) < MaxIndexes
    /\ \E i \in Published : history' = Append(history, i)
    /\ front' = Len(history) + 1
    /\ UNCHANGED <<file, job, crashes, lags>>

\* Another mirror answers from now on.
MirrorLags ==
    /\ lags < MaxLags /\ lags' = lags + 1
    /\ \E t \in DOMAIN history \ {front} : front' = t
    /\ UNCHANGED <<history, file, job, crashes>>

RefreshStep(p) ==
    \/ StartRefresh(p) \/ FetchEntry(p) \/ ServeUnchanged(p) \/ KeepPayload(p)
    \/ FetchDiff(p) \/ FetchIndex(p) \/ RejectFile(p)
    \/ TruncateFile(p) \/ WriteFile(p) \/ EndRefresh(p)

Next ==
    \/ \E p \in Proc : RefreshStep(p) \/ Crash(p)
    \/ Publish
    \/ MirrorLags

Spec == Init /\ [][Next]_vars

=============================================================================
