------------------------------ MODULE ApkStore ------------------------------
(***************************************************************************)
(* The APKs of one package, from the index to the publication: a run       *)
(* resolves what is offered, compares it with the pinned signer and with   *)
(* what Headwind holds, verifies every APK of the group, reusing the files *)
(* of earlier runs, and publishes the group if none is missing.            *)
(*                                                                         *)
(* A file is downloaded beside its final name and renamed.  Names are      *)
(* shared by all processes, and by versions with the same code; a process  *)
(* that has opened a file goes on writing to it wherever it was moved.     *)
(***************************************************************************)
EXTENDS Resolver

CONSTANTS
    Proc,       \* processes
    Applies,    \* those that publish what they have verified
    Offers,     \* what the index may offer at first
    Targets,    \* the lists of target ABIs packages.yaml may hold
    Entered,    \* bound: the versions operators may enter in Headwind
    Chunks,     \* bound: chunks of an APK
    MaxDisturbances \* bound: moves of the index, the targets and Headwind, faults, crashes

ASSUME TargetsAssumption == Targets \subseteq Seq(Abi) \ {<<>>} /\ Applies \subseteq Proc
ASSUME OffersAssumption == Offers \subseteq SUBSET Versions
\* A version of Headwind, 0 for no code; one that is published is named by its code.
Held == [name : Nat, code : Nat]

ASSUME BoundsAssumption ==
    Entered \subseteq Held /\ Chunks \in Nat \ {0} /\ MaxDisturbances \in Nat

VARIABLES
    offered,    \* the versions in the index
    targets,    \* target_abis
    part,       \* part[f]: what <f>.part holds, of those there are
    final,      \* final[f]: what f holds, of those there are
    pinned,     \* expected_signer, once pinned
    held,       \* the versions Headwind holds
    created,    \* last_created_version_code
    job,        \* job[p]: the local state of process p
    killed,     \* a process was killed
    disturbances

indexVars == <<offered, targets>>
files == <<part, final>>
ledger == <<pinned, held, created>>
vars == <<indexVars, files, ledger, job, killed, disturbances>>

Path == {Code(v) : v \in Versions} \X Abi
PathOf(a) == <<Code(a.version), a.abi>>

\* A chunk is known by the version whose APK has it in that place.
Nothing == 0
Wrong == Len(Catalog) + 1
Bytes == [1..Chunks -> Versions \cup {Nothing, Wrong}]
Empty == [i \in 1..Chunks |-> Nothing]
Whole(v) == [i \in 1..Chunks |-> v]

NoFiles == [f \in {} |-> Empty]
Put(dir, f, bytes) == [g \in DOMAIN dir \cup {f} |-> IF g = f THEN bytes ELSE dir[g]]
Without(dir, f) == [g \in DOMAIN dir \ {f} |-> dir[g]]

Job == [pc : {"idle", "pin", "compare", "fetch", "write", "cleanup", "prepare"},
        candidate : Candidate,
        hashed : Seq(Bytes),                     \* what was hashed for each artefact
        written : 0..Chunks, stream : Bytes,     \* the download so far
        handle : {"none", "part", "final", "gone"}] \* where the file it writes to is now

Idle == [pc |-> "idle", candidate |-> NoCandidate, hashed |-> <<>>,
         written |-> 0, stream |-> Empty, handle |-> "none"]

TypeOK ==
    /\ offered \subseteq Versions /\ targets \in Targets
    /\ DOMAIN part \subseteq Path /\ part \in [DOMAIN part -> Bytes]
    /\ DOMAIN final \subseteq Path /\ final \in [DOMAIN final -> Bytes]
    /\ pinned \in Signer \cup {NoSigner} /\ held \subseteq Held /\ created \in Nat
    /\ job \in [Proc -> Job]
    /\ \A p \in Proc : job[p].handle # "none" <=> job[p].pc = "write"
    /\ killed \in BOOLEAN /\ disturbances \in 0..MaxDisturbances

Init ==
    /\ offered \in Offers /\ targets \in Targets
    /\ part = NoFiles /\ final = NoFiles
    /\ pinned = NoSigner /\ held = {} /\ created = 0
    /\ job = [p \in Proc |-> Idle]
    /\ killed = FALSE /\ disturbances = 0

Disturbs == disturbances < MaxDisturbances /\ disturbances' = disturbances + 1

-----------------------------------------------------------------------------
(* The plan.                                                               *)

Current(p) == job[p].candidate.artifacts[Len(job[p].hashed) + 1]
Here(p) == PathOf(Current(p))
Becomes(p, j) == job' = [job EXCEPT ![p] = j]
Goto(p, pc) == Becomes(p, [job[p] EXCEPT !.pc = pc])

\* Any signer but the one pinned is REJECTED, and the run does nothing.
CheckSigner(p) ==
    /\ job[p].pc = "idle"
    /\ \E c \in {Resolve(offered, targets)} \ {NoCandidate} :
          /\ pinned \in {NoSigner, c.signer}
          /\ Becomes(p, [Idle EXCEPT !.pc = IF pinned = NoSigner THEN "pin" ELSE "compare",
                                     !.candidate = c])
    /\ UNCHANGED <<indexVars, files, ledger, killed, disturbances>>

\* WHERE expected_signer IS NULL: another run may have pinned another.
PinSigner(p) ==
    /\ job[p].pc = "pin"
    /\ pinned' = IF pinned = NoSigner THEN job[p].candidate.signer ELSE pinned
    /\ Goto(p, "compare")
    /\ UNCHANGED <<indexVars, files, held, created, killed, disturbances>>

\* UPDATE_AVAILABLE
Compare(p) ==
    /\ job[p].pc = "compare"
    /\ \A v \in held : v.code < job[p].candidate.code
    /\ Goto(p, "fetch")
    /\ UNCHANGED <<indexVars, files, ledger, killed, disturbances>>

\* UP_TO_DATE, or SKIPPED because the versions cannot be read.
NothingToDo(p) ==
    /\ job[p].pc = "compare"
    /\ \/ (\E v \in held : v.code >= job[p].candidate.code) /\ UNCHANGED disturbances
       \/ Disturbs
    /\ Becomes(p, Idle)
    /\ UNCHANGED <<indexVars, files, ledger, killed>>

-----------------------------------------------------------------------------
(* One artefact after the other.                                           *)

\* Mutant: the file is not closed.
VerifiedKeeping(p, bytes) ==
    LET done == Append(job[p].hashed, bytes)
    IN  [job[p] EXCEPT !.pc = IF Len(done) = Len(job[p].candidate.artifacts)
                              THEN "prepare" ELSE "fetch",
                       !.hashed = done]

\* The artefact is verified: the next one, or the publication.
Verified(p, bytes) ==
    LET done == Append(job[p].hashed, bytes)
    IN  [Idle EXCEPT !.pc = IF Len(done) = Len(job[p].candidate.artifacts)
                            THEN "prepare" ELSE "fetch",
                     !.candidate = job[p].candidate, !.hashed = done]

\* Mutant: the name of the file is trusted.
HoldsFile(f, v) == f \in DOMAIN final

Holds(f, v) == f \in DOMAIN final /\ final[f] = Whole(v)

Reuse(p) ==
    /\ job[p].pc = "fetch"
    /\ Holds(Here(p), Current(p).version)
    /\ Becomes(p, Verified(p, final[Here(p)]))
    /\ UNCHANGED <<indexVars, files, ledger, killed, disturbances>>

\* Mutant: a .part that is there is not touched.
OpenPartExclusively(p) ==
    /\ job[p].pc = "fetch"
    /\ ~Holds(Here(p), Current(p).version)
    /\ Here(p) \notin DOMAIN part
    /\ part' = Put(part, Here(p), Empty)
    /\ Becomes(p, [job[p] EXCEPT !.pc = "write", !.handle = "part"])
    /\ UNCHANGED <<indexVars, final, ledger, killed, disturbances>>

\* A .part that is there is truncated, and shared with whoever is writing it.
OpenPart(p) ==
    /\ job[p].pc = "fetch"
    /\ ~Holds(Here(p), Current(p).version)
    /\ part' = Put(part, Here(p), Empty)
    /\ Becomes(p, [job[p] EXCEPT !.pc = "write", !.handle = "part"])
    /\ UNCHANGED <<indexVars, final, ledger, killed, disturbances>>

WriteChunk(p) ==
    /\ job[p].pc = "write"
    /\ job[p].written < Chunks
    /\ \E b \in {Current(p).version, Wrong} :
          LET at == job[p].written + 1
              into(dir) == [dir EXCEPT ![Here(p)][at] = b]
          IN  /\ IF b = Wrong THEN Disturbs ELSE UNCHANGED disturbances
              /\ part' = IF job[p].handle = "part" THEN into(part) ELSE part
              /\ final' = IF job[p].handle = "final" THEN into(final) ELSE final
              /\ Becomes(p, [job[p] EXCEPT !.written = at, !.stream[at] = b])
    /\ UNCHANGED <<indexVars, ledger, killed>>

\* Those that had the file open follow it.
Writing(q, f) == job[q].pc = "write" /\ Here(q) = f
Cleaning(q, f) == job[q].pc = "cleanup" /\ Here(q) = f
Moved(f) ==
    [q \in Proc |->
        IF ~Writing(q, f) THEN job[q]
        ELSE [job[q] EXCEPT !.handle = IF @ = "part" THEN "final" ELSE "gone"]]
Unlinked(f) ==
    [q \in Proc |->
        IF Writing(q, f) /\ job[q].handle = "part" THEN [job[q] EXCEPT !.handle = "gone"]
        ELSE job[q]]

\* The bytes hashed are those that came, not those of the file.
Arrived(p) ==
    job[p].pc = "write" /\ job[p].written = Chunks /\ job[p].stream = Whole(Current(p).version)

Replace(p) ==
    /\ Arrived(p)
    /\ Here(p) \in DOMAIN part
    /\ final' = Put(final, Here(p), part[Here(p)])
    /\ part' = Without(part, Here(p))
    /\ job' = [Moved(Here(p)) EXCEPT ![p] = Verified(p, job[p].stream)]
    /\ UNCHANGED <<indexVars, ledger, killed, disturbances>>

\* Another process renamed or removed it: an exception, that ends the process.
LoseRename(p) ==
    /\ Arrived(p)
    /\ Here(p) \notin DOMAIN part
    /\ Becomes(p, [job[p] EXCEPT !.pc = "cleanup", !.handle = "none"])
    /\ UNCHANGED <<indexVars, files, ledger, killed, disturbances>>

\* A wrong hash or size, or a transport error: the package is to be REJECTED.
RejectApk(p) ==
    /\ \/ job[p].pc = "write" /\ job[p].written = Chunks /\ ~Arrived(p) /\ UNCHANGED disturbances
       \/ /\ \/ job[p].pc = "write"
             \/ job[p].pc = "fetch" /\ ~Holds(Here(p), Current(p).version)
          /\ Disturbs
    /\ Becomes(p, [job[p] EXCEPT !.pc = "cleanup", !.handle = "none"])
    /\ UNCHANGED <<indexVars, files, ledger, killed>>

\* Mutant: the partial file is left.
CleanUpLeaving(p) ==
    /\ job[p].pc = "cleanup"
    /\ Becomes(p, Idle)
    /\ UNCHANGED <<indexVars, files, ledger, killed, disturbances>>

\* After either: whatever bears the name of .part by now is removed, also one that
\* another process has opened since.
CleanUp(p) ==
    /\ job[p].pc = "cleanup"
    /\ part' = Without(part, Here(p))
    /\ job' = [Unlinked(Here(p)) EXCEPT ![p] = Idle]
    /\ UNCHANGED <<indexVars, final, ledger, killed, disturbances>>

\* Every artefact is verified, nothing as new was created, fields take it, and
\* no version in Headwind bears its name.
Publishes(c) ==
    /\ c.code > created /\ Urls(c) # [f \in {} |-> 0]
    /\ \A v \in held : v.name # c.code

\* The PUT is refused, or its answer lost, when something disturbs it.
Publish(p) ==
    /\ job[p].pc = "prepare"
    /\ LET c == job[p].candidate
           stored == held \cup {[name |-> c.code, code |-> c.code]}
       IN  IF p \in Applies /\ Publishes(c)
           THEN \/ held' = stored /\ created' = c.code /\ UNCHANGED disturbances
                \/ held' \in {held, stored} /\ UNCHANGED created /\ Disturbs
           ELSE UNCHANGED <<held, created, disturbances>>
    /\ Becomes(p, Idle)
    /\ UNCHANGED <<indexVars, files, pinned, killed>>

\* Killed: nothing is removed.
Crash(p) ==
    /\ job[p].pc # "idle"
    /\ Disturbs /\ killed' = TRUE
    /\ Becomes(p, Idle)
    /\ UNCHANGED <<indexVars, files, ledger>>

-----------------------------------------------------------------------------
(* What moves outside.                                                     *)

FDroidMoves ==
    /\ Disturbs
    /\ \E v \in Versions :
          offered' = IF v \in offered THEN offered \ {v} ELSE offered \cup {v}
    /\ UNCHANGED <<targets, files, ledger, job, killed>>

OperatorEdits ==
    /\ Disturbs
    /\ held' \in {held \cup {v} : v \in Entered} \cup {held \ {v} : v \in held}
    /\ UNCHANGED <<indexVars, files, pinned, created, job, killed>>

OperatorRetargets ==
    /\ Disturbs
    /\ targets' \in Targets \ {targets}
    /\ UNCHANGED <<offered, files, ledger, job, killed>>

-----------------------------------------------------------------------------

RunStep(p) ==
    \/ PinSigner(p) \/ Compare(p) \/ NothingToDo(p)
    \/ Reuse(p) \/ OpenPart(p) \/ WriteChunk(p) \/ Replace(p)
    \/ LoseRename(p) \/ RejectApk(p) \/ CleanUp(p)
    \/ Publish(p)

Next ==
    \/ \E p \in Proc : CheckSigner(p) \/ RunStep(p) \/ Crash(p)
    \/ FDroidMoves \/ OperatorEdits \/ OperatorRetargets

Spec == Init /\ [][Next]_vars

\* The timer starts the runs that apply again and again, and what it has started
\* goes on; a run that only verifies may stop anywhere.  Every step changes a job.
Fairness ==
    \A p \in Applies : WF_job(CheckSigner(p) \/ RunStep(p))

FairSpec == Spec /\ Fairness

=============================================================================
