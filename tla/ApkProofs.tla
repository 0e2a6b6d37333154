------------------------------ MODULE ApkProofs ------------------------------
(***************************************************************************)
(* What is proved of ApkStore, for any catalog, any index, any number of   *)
(* processes and of chunks, and any faults and crashes.                    *)
(***************************************************************************)
EXTENDS ApkStoreProperties, ResolverProofs

\* Every job is a record with these fields, whatever they hold.
IsJob(j) ==
    j \in [pc : {j.pc}, candidate : {j.candidate}, hashed : {j.hashed},
           written : {j.written}, stream : {j.stream}, handle : {j.handle}]

\* What was hashed so far is, in order, what the candidate lists.
HashedSoFar(j) ==
    /\ \E S : j.hashed \in Seq(S)
    /\ \A i \in 1..Len(j.hashed) : j.hashed[i] = Whole(j.candidate.artifacts[i].version)
    /\ j.pc = "prepare" => Len(j.hashed) = Len(j.candidate.artifacts)

HashInv == job = [p \in Proc |-> job[p]] /\ \A p \in Proc : IsJob(job[p]) /\ HashedSoFar(job[p])

\* A fresh job has hashed nothing.
LEMMA FreshJob ==
    ASSUME NEW c
    PROVE  \A pc \in {"pin", "compare"} :
               LET j == [Idle EXCEPT !.pc = pc, !.candidate = c]
               IN  IsJob(j) /\ HashedSoFar(j)
<1> SUFFICES ASSUME NEW pc \in {"pin", "compare"}
             PROVE  LET j == [Idle EXCEPT !.pc = pc, !.candidate = c]
                    IN  IsJob(j) /\ HashedSoFar(j)
    OBVIOUS
<1> DEFINE j == [Idle EXCEPT !.pc = pc, !.candidate = c]
<1>1. <<>> \in Seq({}) /\ Len(<<>>) = 0
    OBVIOUS
<1>2. IsJob(j) /\ j.pc # "prepare" /\ j.hashed = <<>>
    BY DEF IsJob, Idle
<1> HIDE DEF j
<1>3. HashedSoFar(j)
    BY <1>1, <1>2 DEF HashedSoFar
<1> QED
    BY <1>2, <1>3 DEF j

\* So has an idle one.
LEMMA IdleJob == IsJob(Idle) /\ HashedSoFar(Idle)
<1>1. <<>> \in Seq({}) /\ Len(<<>>) = 0
    OBVIOUS
<1> QED
    BY <1>1 DEF IsJob, HashedSoFar, Idle

\* An artefact is verified with its own bytes.
LEMMA VerifiedJob ==
    ASSUME NEW p \in Proc, HashInv, job[p].pc # "prepare"
    PROVE  LET j == Verified(p, Whole(Current(p).version))
           IN  IsJob(j) /\ HashedSoFar(j)
<1> DEFINE old == job[p].hashed
           b == Whole(Current(p).version)
           done == Append(old, b)
           j == Verified(p, b)
<1>1. PICK S : old \in Seq(S)
    BY DEF HashInv, HashedSoFar
<1>2. old \in Seq(S \cup {b})
    BY <1>1
<1>3. /\ done \in Seq(S \cup {b}) /\ Len(done) = Len(old) + 1 /\ Len(old) \in Nat
      /\ \A i \in 1..Len(old) : done[i] = old[i]
      /\ done[Len(old) + 1] = b
    BY <1>2
<1>4. /\ j.hashed = done /\ j.candidate = job[p].candidate /\ IsJob(j)
      /\ j.pc = "prepare" => Len(done) = Len(job[p].candidate.artifacts)
  <2> HIDE DEF done, b, old
  <2> QED
      BY DEF Verified, Idle, IsJob, done, old
<1>5. \A i \in 1..Len(old) : old[i] = Whole(job[p].candidate.artifacts[i].version)
    BY DEF HashInv, HashedSoFar
<1>6. b = Whole(job[p].candidate.artifacts[Len(old) + 1].version)
    BY DEF Current
<1>7. \A i \in 1..Len(done) : done[i] = Whole(job[p].candidate.artifacts[i].version)
    BY <1>3, <1>5, <1>6
<1> HIDE DEF done, b, old, j
<1>8. HashedSoFar(j)
    BY <1>3, <1>4, <1>7 DEF HashedSoFar
<1> QED
    BY <1>4, <1>8 DEF j, b

\* Only the handles of other jobs change.
LEMMA Others ==
    ASSUME HashInv, NEW f, NEW q \in Proc
    PROVE  /\ IsJob(Moved(f)[q]) /\ HashedSoFar(Moved(f)[q])
           /\ IsJob(Unlinked(f)[q]) /\ HashedSoFar(Unlinked(f)[q])
<1>1. IsJob(job[q]) /\ HashedSoFar(job[q])
    BY DEF HashInv
<1>2. \A h : LET j == [job[q] EXCEPT !.handle = h]
             IN  /\ IsJob(j) /\ j.hashed = job[q].hashed
                 /\ j.candidate = job[q].candidate /\ j.pc = job[q].pc
    BY <1>1 DEF IsJob
<1>3. \A h : HashedSoFar([job[q] EXCEPT !.handle = h])
    BY <1>1, <1>2 DEF HashedSoFar
<1> QED
    BY <1>1, <1>2, <1>3 DEF Moved, Unlinked

\* Whoever steps, what a job has hashed stays what its candidate lists.
LEMMA HashStep ==
    ASSUME HashInv, [Next]_vars
    PROVE  HashInv'
<1>0. /\ job = [p \in Proc |-> job[p]]
      /\ \A p \in Proc : IsJob(job[p]) /\ HashedSoFar(job[p])
    BY DEF HashInv
\* One job becomes a good one.
<1>a. ASSUME NEW p \in Proc, NEW j, Becomes(p, j), IsJob(j), HashedSoFar(j)
      PROVE  HashInv'
    BY <1>0, <1>a DEF Becomes, HashInv
\* One job moves on without hashing.
<1>b. ASSUME NEW p \in Proc, NEW pc, NEW h, pc # "prepare",
             Becomes(p, [job[p] EXCEPT !.pc = pc, !.handle = h])
      PROVE  HashInv'
  <2> DEFINE j == [job[p] EXCEPT !.pc = pc, !.handle = h]
  <2>1. /\ IsJob(j) /\ j.pc = pc
        /\ j.candidate = job[p].candidate /\ j.hashed = job[p].hashed
      BY <1>0 DEF IsJob
  <2>2. HashedSoFar(j)
      BY <1>0, <1>b, <2>1 DEF HashedSoFar
  <2> QED
      BY <1>a, <1>b, <2>1, <2>2
<1>1. ASSUME NEW p \in Proc, CheckSigner(p)
      PROVE  HashInv'
  <2>1. PICK pc \in {"pin", "compare"} :
            Becomes(p, [Idle EXCEPT !.pc = pc, !.candidate = Resolve(offered, targets)])
      BY <1>1 DEF CheckSigner
  <2> QED
      BY <2>1, <1>a, FreshJob
<1>2. ASSUME NEW p \in Proc, Reuse(p)
      PROVE  HashInv'
  <2>1. Becomes(p, Verified(p, Whole(Current(p).version))) /\ job[p].pc # "prepare"
      BY <1>2 DEF Reuse, Holds
  <2> QED
      BY <2>1, <1>a, VerifiedJob
<1>3. ASSUME NEW p \in Proc, OpenPart(p)
      PROVE  HashInv'
    BY <1>3, <1>b DEF OpenPart
<1>4. ASSUME NEW p \in Proc, WriteChunk(p)
      PROVE  HashInv'
  <2>1. PICK b : Becomes(p, [job[p] EXCEPT !.written = job[p].written + 1,
                                           !.stream[job[p].written + 1] = b])
      BY <1>4 DEF WriteChunk
  <2> DEFINE at == job[p].written + 1
             j == [job[p] EXCEPT !.written = at, !.stream[at] = b]
  <2>2. /\ IsJob(j) /\ j.pc = job[p].pc
        /\ j.candidate = job[p].candidate /\ j.hashed = job[p].hashed
      BY <1>0 DEF IsJob
  <2>3. HashedSoFar(j)
      BY <1>0, <2>2 DEF HashedSoFar
  <2> QED
      BY <1>a, <2>1, <2>2, <2>3
<1>5. ASSUME NEW p \in Proc, Replace(p)
      PROVE  HashInv'
  <2>1. /\ job[p].pc # "prepare"
        /\ job' = [Moved(Here(p)) EXCEPT ![p] = Verified(p, Whole(Current(p).version))]
      BY <1>5 DEF Replace, Arrived
  <2>2. /\ IsJob(Verified(p, Whole(Current(p).version)))
        /\ HashedSoFar(Verified(p, Whole(Current(p).version)))
      BY <2>1, VerifiedJob
  <2>3. Moved(Here(p)) = [q \in Proc |-> Moved(Here(p))[q]]
      BY DEF Moved
  <2> QED
      BY <2>1, <2>2, <2>3, Others DEF HashInv
<1>6. ASSUME NEW p \in Proc, CleanUp(p)
      PROVE  HashInv'
  <2>1. job' = [Unlinked(Here(p)) EXCEPT ![p] = Idle]
      BY <1>6 DEF CleanUp
  <2>2. Unlinked(Here(p)) = [q \in Proc |-> Unlinked(Here(p))[q]]
      BY DEF Unlinked
  <2> QED
      BY <2>1, <2>2, IdleJob, Others DEF HashInv
<1>7. ASSUME NEW p \in Proc, NothingToDo(p) \/ Publish(p) \/ Crash(p)
      PROVE  HashInv'
    BY <1>7, <1>a, IdleJob DEF NothingToDo, Publish, Crash
<1>8. ASSUME NEW p \in Proc, LoseRename(p) \/ RejectApk(p)
      PROVE  HashInv'
    BY <1>8, <1>b DEF LoseRename, RejectApk
<1>9. ASSUME NEW p \in Proc, PinSigner(p) \/ Compare(p)
      PROVE  HashInv'
  <2>1. PICK pc \in {"compare", "fetch"} : Becomes(p, [job[p] EXCEPT !.pc = pc])
      BY <1>9 DEF PinSigner, Compare, Goto
  <2>2. [job[p] EXCEPT !.pc = pc] = [job[p] EXCEPT !.pc = pc, !.handle = job[p].handle]
      BY <1>0 DEF IsJob
  <2> QED
      BY <1>b, <2>1, <2>2
<1>10. CASE UNCHANGED job
    BY <1>10 DEF HashInv
<1> QED
    BY <1>1, <1>2, <1>3, <1>4, <1>5, <1>6, <1>7, <1>8, <1>9, <1>10
    DEF Next, RunStep, FDroidMoves, OperatorEdits, OperatorRetargets, vars

\* Whatever processes share the names of the files, whatever faults tear them and
\* however the index moves, what is published was hashed, whole, by who publishes.
THEOREM HashedIsPublished == Spec => []PublishesWhatItHashed
<1>1. Init => HashInv
    BY IdleJob DEF Init, HashInv
<1>2. HashInv /\ [Next]_vars => HashInv'
    BY HashStep
<1>3. HashInv => PublishesWhatItHashed
    BY DEF HashInv, HashedSoFar, PublishesWhatItHashed
<1> QED
    BY <1>1, <1>2, <1>3, PTL DEF Spec

-----------------------------------------------------------------------------
(* Types.                                                                  *)

\* A job on its way to an artefact, or at it, has one left.
Fetching == {"pin", "compare", "fetch", "write", "cleanup"}

JobOK(j) ==
    /\ j \in Job
    /\ j.handle # "none" <=> j.pc = "write"
    /\ j.pc \in Fetching => Len(j.hashed) < Len(j.candidate.artifacts)

ApkInv == TypeOK /\ \A p \in Proc : JobOK(job[p])

\* What is written over bytes is bytes.
LEMMA BytesTypes ==
    /\ Empty \in Bytes
    /\ \A v \in Versions : Whole(v) \in Bytes
    /\ \A s \in Bytes, at \in Nat, b \in Versions \cup {Wrong} : [s EXCEPT ![at] = b] \in Bytes
<1> QED
    BY DEF Bytes, Empty, Whole

\* An idle job is well formed.
LEMMA IdleOK == JobOK(Idle)
<1>1. <<>> \in Seq(Bytes) /\ <<>> \in Seq(Artifact)
    OBVIOUS
<1>2. NoCandidate \in Candidate
    BY <1>1 DEF NoCandidate, Candidate
<1>3. 0 \in 0..Chunks
    BY BoundsAssumption
<1>4. Idle \in Job
    BY <1>1, <1>2, <1>3, BytesTypes DEF Idle, Job
<1> QED
    BY <1>4 DEF JobOK, Idle, Fetching

\* Where such a job is.
LEMMA CurrentTypes ==
    ASSUME ApkInv, NEW p \in Proc, job[p].pc \in Fetching
    PROVE  /\ Current(p) \in Artifact /\ Current(p).version \in Versions
           /\ Here(p) \in Path
<1> DEFINE hs == job[p].hashed
           list == job[p].candidate.artifacts
<1>1. hs \in Seq(Bytes) /\ list \in Seq(Artifact) /\ Len(hs) < Len(list)
    BY DEF ApkInv, JobOK, Job, Candidate
<1>2. list[Len(hs) + 1] \in Artifact
  <2>1. Len(hs) \in Nat /\ Len(list) \in Nat /\ Len(hs) < Len(list)
      BY <1>1, LenProperties
  <2>2. \A m, n \in Nat : m < n => m + 1 \in 1..n
      OBVIOUS
  <2> HIDE DEF hs, list
  <2>3. Len(hs) + 1 \in 1..Len(list)
      BY <2>1, <2>2
  <2> QED
      BY <1>1, <2>3, ElementOfSeq
<1>3. Current(p) \in Artifact
    BY <1>2 DEF Current, hs, list
<1>4. Current(p).version \in Versions /\ Current(p).abi \in Abi
    BY <1>3 DEF Artifact
<1> QED
    BY <1>3, <1>4 DEF Here, PathOf, Path

\* So is one that goes on with its next artefact, or to the publication.
LEMMA VerifiedOK ==
    ASSUME ApkInv, NEW p \in Proc, job[p].pc \in {"fetch", "write"}, NEW bytes \in Bytes
    PROVE  JobOK(Verified(p, bytes))
<1> DEFINE hs == job[p].hashed
           c == job[p].candidate
           done == Append(hs, bytes)
           n == Len(c.artifacts)
           j == [Idle EXCEPT !.pc = IF Len(done) = n THEN "prepare" ELSE "fetch",
                             !.candidate = c, !.hashed = done]
<1>1. c \in Candidate /\ hs \in Seq(Bytes) /\ Len(hs) < n
    BY DEF ApkInv, JobOK, Job, Fetching
<1>2. n \in Nat
    BY <1>1 DEF Candidate
<1>3. done \in Seq(Bytes) /\ Len(done) = Len(hs) + 1 /\ Len(hs) \in Nat
    BY <1>1
<1> HIDE DEF hs, c, done, n
<1>4. Idle \in Job /\ Idle.handle = "none"
    BY IdleOK DEF JobOK, Idle
<1>5. /\ j \in Job /\ j.handle = "none" /\ j.pc \in {"fetch", "prepare"}
      /\ j.hashed = done /\ j.candidate = c
      /\ j.pc = "fetch" => Len(done) # n
    BY <1>1, <1>3, <1>4 DEF Job
<1>6. JobOK(j)
  <2>1. n = Len(c.artifacts)
      BY DEF n
  <2> HIDE DEF j
  <2>2. Len(done) # n => Len(done) < n
      BY <1>1, <1>2, <1>3
  <2>3. j.pc \in Fetching => Len(done) # n
      BY <1>5 DEF Fetching
  <2>4. Len(j.hashed) = Len(done) /\ Len(j.candidate.artifacts) = n
      BY <1>5, <2>1
  <2>5. j.pc \in Fetching => Len(j.hashed) < Len(j.candidate.artifacts)
      BY <2>2, <2>3, <2>4
  <2>6. j \in Job /\ (j.handle # "none" <=> j.pc = "write")
      BY <1>5
  <2> QED
      BY <2>5, <2>6 DEF JobOK
<1> QED
    BY <1>6 DEF Verified, hs, c, done, n

\* A rename and an unlink leave the other jobs well formed.
LEMMA OtherJobs ==
    ASSUME ApkInv, NEW f, NEW q \in Proc
    PROVE  JobOK(Moved(f)[q]) /\ JobOK(Unlinked(f)[q])
<1>1. \A h \in {"final", "gone"} : job[q].pc = "write" => JobOK([job[q] EXCEPT !.handle = h])
  <2> SUFFICES ASSUME NEW h \in {"final", "gone"}, job[q].pc = "write"
               PROVE  JobOK([job[q] EXCEPT !.handle = h])
      OBVIOUS
  <2> DEFINE j == [job[q] EXCEPT !.handle = h]
  <2>1. JobOK(job[q])
      BY DEF ApkInv
  <2>2. j \in Job /\ j.handle = h /\ j.pc = "write"
        /\ j.hashed = job[q].hashed /\ j.candidate = job[q].candidate
      BY <2>1 DEF JobOK, Job
  <2> QED
      BY <2>1, <2>2 DEF JobOK
<1>2. JobOK(job[q])
    BY DEF ApkInv
<1> QED
    BY <1>1, <1>2 DEF Moved, Unlinked, Writing

\* What is put into a directory, and what is taken out, leaves a directory.
LEMMA DirectoryTypes ==
    ASSUME NEW dir, DOMAIN dir \subseteq Path, dir \in [DOMAIN dir -> Bytes],
           NEW f, NEW bytes \in Bytes
    PROVE  /\ LET put == Put(dir, f, bytes)
              IN  f \in Path => DOMAIN put \subseteq Path /\ put \in [DOMAIN put -> Bytes]
           /\ LET left == Without(dir, f)
              IN  DOMAIN left \subseteq Path /\ left \in [DOMAIN left -> Bytes]
           /\ \A at \in Nat, b \in Versions \cup {Wrong} :
                 LET into == [dir EXCEPT ![f][at] = b]
                 IN  DOMAIN into = DOMAIN dir /\ into \in [DOMAIN into -> Bytes]
<1>1. LET put == Put(dir, f, bytes)
      IN  f \in Path => DOMAIN put \subseteq Path /\ put \in [DOMAIN put -> Bytes]
    BY DEF Put
<1>2. LET left == Without(dir, f)
      IN  DOMAIN left \subseteq Path /\ left \in [DOMAIN left -> Bytes]
    BY DEF Without
<1>3. ASSUME NEW at \in Nat, NEW b \in Versions \cup {Wrong}
      PROVE  LET into == [dir EXCEPT ![f][at] = b]
             IN  DOMAIN into = DOMAIN dir /\ into \in [DOMAIN into -> Bytes]
  <2> DEFINE into == [dir EXCEPT ![f][at] = b]
  <2>1. \A g \in DOMAIN dir : into[g] \in Bytes
      BY <1>3, BytesTypes
  <2> QED
      BY <2>1
<1> QED
    BY <1>1, <1>2, <1>3

\* The invariant is inductive: one step per action.
LEMMA ApkStep ==
    ASSUME ApkInv, [Next]_vars
    PROVE  ApkInv'
<1>0. /\ offered \subseteq Versions /\ targets \in Targets
      /\ DOMAIN part \subseteq Path /\ part \in [DOMAIN part -> Bytes]
      /\ DOMAIN final \subseteq Path /\ final \in [DOMAIN final -> Bytes]
      /\ pinned \in Signer \cup {NoSigner} /\ held \subseteq Held /\ created \in Nat
      /\ killed \in BOOLEAN /\ disturbances \in 0..MaxDisturbances
      /\ job \in [Proc -> Job] /\ \A p \in Proc : JobOK(job[p])
    BY DEF ApkInv, TypeOK
<1>a. Disturbs => disturbances' \in 0..MaxDisturbances
    BY <1>0, BoundsAssumption DEF Disturbs
\* One job becomes a good one.
<1>b. ASSUME NEW p \in Proc, NEW j, Becomes(p, j), JobOK(j)
      PROVE  job' \in [Proc -> Job] /\ \A q \in Proc : JobOK(job'[q])
    BY <1>0, <1>b DEF Becomes, JobOK
\* The other jobs follow their files.
<1>c. ASSUME NEW p \in Proc, NEW f, NEW j, JobOK(j),
             job' = [Moved(f) EXCEPT ![p] = j] \/ job' = [Unlinked(f) EXCEPT ![p] = j]
      PROVE  job' \in [Proc -> Job] /\ \A q \in Proc : JobOK(job'[q])
  <2>1. /\ Moved(f) = [q \in Proc |-> Moved(f)[q]]
        /\ Unlinked(f) = [q \in Proc |-> Unlinked(f)[q]]
      BY DEF Moved, Unlinked
  <2>2. \A q \in Proc : JobOK(Moved(f)[q]) /\ JobOK(Unlinked(f)[q])
      BY OtherJobs
  <2>3. \A q \in Proc : Moved(f)[q] \in Job /\ Unlinked(f)[q] \in Job /\ j \in Job
      BY <1>c, <2>2 DEF JobOK
  <2> QED
      BY <1>c, <2>1, <2>2, <2>3
\* What is left is the type of everything else.
<1>d. ASSUME offered' \subseteq Versions, targets' \in Targets,
             DOMAIN part' \subseteq Path, part' \in [DOMAIN part' -> Bytes],
             DOMAIN final' \subseteq Path, final' \in [DOMAIN final' -> Bytes],
             pinned' \in Signer \cup {NoSigner}, held' \subseteq Held, created' \in Nat,
             killed' \in BOOLEAN, disturbances' \in 0..MaxDisturbances,
             job' \in [Proc -> Job], \A q \in Proc : JobOK(job'[q])
      PROVE  ApkInv'
  <2>1. \A q \in Proc : job'[q].handle # "none" <=> job'[q].pc = "write"
      BY <1>d DEF JobOK
  <2> QED
      BY <1>d, <2>1 DEF ApkInv, TypeOK
\* One job moves on to another step of the same artefact.
<1>e. ASSUME NEW p \in Proc, NEW pc \in Fetching, NEW h \in {"none", "part"},
             job[p].pc \in Fetching, pc = "write" <=> h = "part",
             Becomes(p, [job[p] EXCEPT !.pc = pc, !.handle = h])
      PROVE  job' \in [Proc -> Job] /\ \A q \in Proc : JobOK(job'[q])
  <2> DEFINE j == [job[p] EXCEPT !.pc = pc, !.handle = h]
  <2>1. JobOK(job[p]) /\ pc \in {"pin", "compare", "fetch", "write", "cleanup"}
      BY <1>0 DEF Fetching
  <2>2. /\ j \in Job /\ j.handle = h /\ j.pc = pc
        /\ j.hashed = job[p].hashed /\ j.candidate = job[p].candidate
      BY <2>1 DEF JobOK, Job
  <2>3. Becomes(p, j)
      BY <1>e
  <2> HIDE DEF j
  <2>4. JobOK(j)
      BY <1>e, <2>1, <2>2 DEF JobOK
  <2> QED
      BY <1>b, <2>3, <2>4
<1>1. ASSUME NEW p \in Proc, CheckSigner(p)
      PROVE  ApkInv'
  <2>0. PICK pc \in {"pin", "compare"} :
            Becomes(p, [Idle EXCEPT !.pc = pc, !.candidate = Resolve(offered, targets)])
      BY <1>1 DEF CheckSigner
  <2> DEFINE c == Resolve(offered, targets)
             j == [Idle EXCEPT !.pc = pc, !.candidate = c]
  <2>1. c \in Candidate /\ Len(c.artifacts) > 0
    <3>1. targets \in Seq(Abi)
        BY <1>0, TargetsAssumption
    <3>2. c \in Candidate /\ (c = NoCandidate <=> Len(c.artifacts) = 0)
        BY <1>0, <3>1, ResolvedCandidate
    <3>3. c # NoCandidate
        BY <1>1 DEF CheckSigner
    <3>4. c.artifacts \in Seq(Artifact)
        BY <3>2 DEF Candidate
    <3> HIDE DEF c
    <3>5. Len(c.artifacts) \in Nat
        BY <3>4, LenProperties
    <3> QED
        BY <3>2, <3>3, <3>5
  <2>2. Becomes(p, j)
      BY <2>0
  <2> HIDE DEF c
  <2>3. Idle \in Job /\ Idle.handle = "none" /\ Idle.hashed = <<>>
      BY IdleOK DEF JobOK, Idle
  <2>4. /\ j \in Job /\ j.handle = "none" /\ j.pc # "write"
        /\ j.hashed = <<>> /\ j.candidate = c
      BY <2>1, <2>3 DEF Job
  <2> HIDE DEF j
  <2>5. Len(<<>>) = 0
      OBVIOUS
  <2>6. JobOK(j)
      BY <2>1, <2>4, <2>5 DEF JobOK
  <2> QED
      BY <1>0, <1>1, <1>b, <1>d, <2>2, <2>6 DEF CheckSigner, indexVars, files, ledger
<1>2. ASSUME NEW p \in Proc, Reuse(p)
      PROVE  ApkInv'
  <2>1. job[p].pc = "fetch" /\ Here(p) \in DOMAIN final
      BY <1>2 DEF Reuse, Holds
  <2>2. final[Here(p)] \in Bytes
      BY <1>0, <2>1
  <2>3. JobOK(Verified(p, final[Here(p)]))
      BY <2>1, <2>2, VerifiedOK
  <2> QED
      BY <1>0, <1>2, <1>b, <1>d, <2>3 DEF Reuse, indexVars, files, ledger
<1>3. ASSUME NEW p \in Proc, OpenPart(p)
      PROVE  ApkInv'
  <2>1. /\ job[p].pc = "fetch" /\ part' = Put(part, Here(p), Empty)
        /\ Becomes(p, [job[p] EXCEPT !.pc = "write", !.handle = "part"])
      BY <1>3 DEF OpenPart
  <2>2. Here(p) \in Path
      BY <2>1, CurrentTypes DEF Fetching
  <2>3. DOMAIN part' \subseteq Path /\ part' \in [DOMAIN part' -> Bytes]
      BY <1>0, <2>1, <2>2, BytesTypes, DirectoryTypes
  <2>4. job' \in [Proc -> Job] /\ \A q \in Proc : JobOK(job'[q])
      BY <1>e, <2>1 DEF Fetching
  <2> QED
      BY <1>0, <1>3, <1>d, <2>3, <2>4 DEF OpenPart, indexVars, ledger
<1>4. ASSUME NEW p \in Proc, WriteChunk(p)
      PROVE  ApkInv'
  <2> DEFINE at == job[p].written + 1
  <2>1. PICK b \in {Current(p).version, Wrong} :
            /\ IF b = Wrong THEN Disturbs ELSE UNCHANGED disturbances
            /\ part' = IF job[p].handle = "part"
                       THEN [part EXCEPT ![Here(p)][at] = b] ELSE part
            /\ final' = IF job[p].handle = "final"
                        THEN [final EXCEPT ![Here(p)][at] = b] ELSE final
            /\ Becomes(p, [job[p] EXCEPT !.written = at, !.stream[at] = b])
      BY <1>4 DEF WriteChunk
  <2>2. job[p].pc = "write" /\ job[p].written < Chunks /\ UNCHANGED <<indexVars, ledger, killed>>
      BY <1>4 DEF WriteChunk
  <2>3. JobOK(job[p]) /\ job[p] \in Job
      BY <1>0
  <2>4. b \in Versions \cup {Wrong} /\ at \in 0..Chunks /\ at \in Nat
    <3>1. Current(p).version \in Versions
        BY <2>2, CurrentTypes DEF Fetching
    <3>2. job[p].written \in 0..Chunks
        BY <2>3 DEF Job
    <3> QED
        BY <2>2, <3>1, <3>2, BoundsAssumption
  <2> HIDE DEF at
  <2> DEFINE s == [job[p].stream EXCEPT ![at] = b]
             j == [job[p] EXCEPT !.written = at, !.stream = s]
  <2>5. s \in Bytes
    <3>1. job[p].stream \in Bytes
        BY <2>3 DEF Job
    <3> QED
        BY <2>4, <3>1, BytesTypes
  <2>6. [job[p] EXCEPT !.written = at, !.stream[at] = b] = j
      BY <2>3 DEF Job
  <2> HIDE DEF s
  <2>7. JobOK(j)
    <3>1. /\ j \in Job /\ j.handle = job[p].handle /\ j.pc = job[p].pc
          /\ j.hashed = job[p].hashed /\ j.candidate = job[p].candidate
        BY <2>3, <2>4, <2>5 DEF Job
    <3> HIDE DEF j
    <3> QED
        BY <2>3, <3>1 DEF JobOK
  <2>8. Becomes(p, j)
      BY <2>1, <2>6
  <2> HIDE DEF j
  <2>9. job' \in [Proc -> Job] /\ \A q \in Proc : JobOK(job'[q])
      BY <1>b, <2>7, <2>8
  <2>10. /\ DOMAIN part' \subseteq Path /\ part' \in [DOMAIN part' -> Bytes]
         /\ DOMAIN final' \subseteq Path /\ final' \in [DOMAIN final' -> Bytes]
    <3>1. LET into == [part EXCEPT ![Here(p)][at] = b]
          IN  DOMAIN into = DOMAIN part /\ into \in [DOMAIN into -> Bytes]
        BY <1>0, <2>4, BytesTypes, DirectoryTypes
    <3>2. LET into == [final EXCEPT ![Here(p)][at] = b]
          IN  DOMAIN into = DOMAIN final /\ into \in [DOMAIN into -> Bytes]
        BY <1>0, <2>4, BytesTypes, DirectoryTypes
    <3> QED
        BY <1>0, <2>1, <3>1, <3>2
  <2>11. disturbances' \in 0..MaxDisturbances
      BY <1>0, <1>a, <2>1
  <2> QED
      BY <1>0, <1>d, <2>2, <2>9, <2>10, <2>11 DEF indexVars, ledger
<1>5. ASSUME NEW p \in Proc, Replace(p)
      PROVE  ApkInv'
  <2>1. /\ job[p].pc = "write" /\ Here(p) \in DOMAIN part
        /\ final' = Put(final, Here(p), part[Here(p)])
        /\ part' = Without(part, Here(p))
        /\ job' = [Moved(Here(p)) EXCEPT ![p] = Verified(p, job[p].stream)]
        /\ UNCHANGED <<indexVars, ledger, killed, disturbances>>
      BY <1>5 DEF Replace, Arrived
  <2>2. Here(p) \in Path /\ part[Here(p)] \in Bytes /\ job[p].stream \in Bytes
      BY <1>0, <2>1 DEF Job
  <2>3. JobOK(Verified(p, job[p].stream))
      BY <2>1, <2>2, VerifiedOK
  <2>4. job' \in [Proc -> Job] /\ \A q \in Proc : JobOK(job'[q])
      BY <1>c, <2>1, <2>3
  <2>5. DOMAIN part' \subseteq Path /\ part' \in [DOMAIN part' -> Bytes]
      BY <1>0, <2>1, <2>2, DirectoryTypes
  <2>6. DOMAIN final' \subseteq Path /\ final' \in [DOMAIN final' -> Bytes]
      BY <1>0, <2>1, <2>2, DirectoryTypes
  <2> QED
      BY <1>0, <1>d, <2>1, <2>4, <2>5, <2>6 DEF indexVars, ledger
<1>6. ASSUME NEW p \in Proc, CleanUp(p)
      PROVE  ApkInv'
  <2>1. /\ part' = Without(part, Here(p))
        /\ job' = [Unlinked(Here(p)) EXCEPT ![p] = Idle]
        /\ UNCHANGED <<indexVars, final, ledger, killed, disturbances>>
      BY <1>6 DEF CleanUp
  <2>2. job' \in [Proc -> Job] /\ \A q \in Proc : JobOK(job'[q])
      BY <1>c, <2>1, IdleOK
  <2>3. DOMAIN part' \subseteq Path /\ part' \in [DOMAIN part' -> Bytes]
      BY <1>0, <2>1, BytesTypes, DirectoryTypes
  <2> QED
      BY <1>0, <1>d, <2>1, <2>2, <2>3 DEF indexVars, ledger
<1>7. ASSUME NEW p \in Proc, LoseRename(p) \/ RejectApk(p)
      PROVE  ApkInv'
  <2>1. /\ Becomes(p, [job[p] EXCEPT !.pc = "cleanup", !.handle = "none"])
        /\ job[p].pc \in {"fetch", "write"}
        /\ UNCHANGED <<indexVars, files, ledger, killed>>
        /\ UNCHANGED disturbances \/ Disturbs
      BY <1>7 DEF LoseRename, RejectApk, Arrived
  <2>2. job' \in [Proc -> Job] /\ \A q \in Proc : JobOK(job'[q])
      BY <1>e, <2>1 DEF Fetching
  <2>3. disturbances' \in 0..MaxDisturbances
      BY <1>0, <1>a, <2>1
  <2> QED
      BY <1>0, <1>d, <2>1, <2>2, <2>3 DEF indexVars, files, ledger
<1>8. ASSUME NEW p \in Proc, PinSigner(p) \/ Compare(p)
      PROVE  ApkInv'
  <2>1. PICK pc \in {"compare", "fetch"} : Becomes(p, [job[p] EXCEPT !.pc = pc])
      BY <1>8 DEF PinSigner, Compare, Goto
  <2>2. job[p].pc \in {"pin", "compare"} /\ job[p] \in Job /\ job[p].handle = "none"
      BY <1>0, <1>8 DEF PinSigner, Compare, JobOK
  <2>3. [job[p] EXCEPT !.pc = pc] = [job[p] EXCEPT !.pc = pc, !.handle = "none"]
      BY <2>2 DEF Job
  <2>4. job' \in [Proc -> Job] /\ \A q \in Proc : JobOK(job'[q])
    <3>1. Becomes(p, [job[p] EXCEPT !.pc = pc, !.handle = "none"])
        BY <2>1, <2>3
    <3> QED
        BY <1>e, <2>2, <3>1 DEF Fetching
  <2>5. pinned' \in Signer \cup {NoSigner}
      BY <1>0, <1>8 DEF PinSigner, Compare, ledger, Job, Candidate
  <2> QED
      BY <1>0, <1>8, <1>d, <2>4, <2>5 DEF PinSigner, Compare, indexVars, files, ledger
<1>9. ASSUME NEW p \in Proc, NothingToDo(p) \/ Crash(p)
      PROVE  ApkInv'
  <2>1. Becomes(p, Idle) /\ UNCHANGED <<indexVars, files, ledger>>
      BY <1>9 DEF NothingToDo, Crash
  <2>2. job' \in [Proc -> Job] /\ \A q \in Proc : JobOK(job'[q])
      BY <1>b, <2>1, IdleOK
  <2>3. disturbances' \in 0..MaxDisturbances /\ killed' \in BOOLEAN
      BY <1>0, <1>9, <1>a DEF NothingToDo, Crash
  <2> QED
      BY <1>0, <1>d, <2>1, <2>2, <2>3 DEF indexVars, files, ledger
<1>10. ASSUME NEW p \in Proc, Publish(p)
      PROVE  ApkInv'
  <2> DEFINE code == job[p].candidate.code
             stored == held \cup {[name |-> code, code |-> code]}
  <2>1. Becomes(p, Idle) /\ UNCHANGED <<indexVars, files, pinned, killed>>
      BY <1>10 DEF Publish
  <2>2. job' \in [Proc -> Job] /\ \A q \in Proc : JobOK(job'[q])
      BY <1>b, <2>1, IdleOK
  <2>3. code \in Nat
      BY <1>0 DEF Job, Candidate
  <2>4. stored \subseteq Held
      BY <1>0, <2>3 DEF Held
  <2>5. /\ held' \in {held, stored} /\ created' \in {created, code}
        /\ UNCHANGED disturbances \/ Disturbs
      BY <1>10 DEF Publish
  <2>6. held' \subseteq Held /\ created' \in Nat /\ disturbances' \in 0..MaxDisturbances
      BY <1>0, <1>a, <2>3, <2>4, <2>5
  <2> QED
      BY <1>0, <1>d, <2>1, <2>2, <2>6 DEF indexVars, files
<1>11. CASE FDroidMoves \/ OperatorRetargets
    BY <1>0, <1>11, <1>a, <1>d DEF FDroidMoves, OperatorRetargets, files, ledger
<1>12. CASE OperatorEdits
  <2>1. held' \subseteq Held
      BY <1>0, <1>12, BoundsAssumption DEF OperatorEdits
  <2> QED
      BY <1>0, <1>12, <1>a, <1>d, <2>1 DEF OperatorEdits, indexVars, files
<1>13. CASE UNCHANGED vars
    BY <1>0, <1>13, <1>d DEF vars, indexVars, files, ledger
<1> QED
    BY <1>1, <1>2, <1>3, <1>4, <1>5, <1>6, <1>7, <1>8, <1>9, <1>10, <1>11, <1>12, <1>13
    DEF Next, RunStep

\* It holds at first.
LEMMA ApkInit == Init => ApkInv
<1> SUFFICES ASSUME Init PROVE ApkInv
    OBVIOUS
<1>1. /\ offered \subseteq Versions /\ targets \in Targets
      /\ pinned \in Signer \cup {NoSigner} /\ held \subseteq Held /\ created \in Nat
      /\ killed \in BOOLEAN /\ disturbances \in 0..MaxDisturbances
  <2>1. /\ offered \in Offers /\ targets \in Targets
        /\ pinned = NoSigner /\ held = {} /\ created = 0 /\ killed = FALSE /\ disturbances = 0
      BY DEF Init
  <2>2. offered \subseteq Versions
      BY <2>1, OffersAssumption
  <2>3. 0 \in Nat /\ 0 \in 0..MaxDisturbances
      BY BoundsAssumption
  <2>4. killed \in BOOLEAN
      BY <2>1
  <2> QED
      BY <2>1, <2>2, <2>3, <2>4
<1>2. /\ DOMAIN part \subseteq Path /\ part \in [DOMAIN part -> Bytes]
      /\ DOMAIN final \subseteq Path /\ final \in [DOMAIN final -> Bytes]
    BY DEF Init, NoFiles
<1>3. job \in [Proc -> Job] /\ \A p \in Proc : JobOK(job[p])
    BY IdleOK DEF Init, JobOK
<1>4. \A p \in Proc : job[p].handle # "none" <=> job[p].pc = "write"
    BY <1>3 DEF JobOK
<1> QED
    BY <1>1, <1>2, <1>3, <1>4 DEF ApkInv, TypeOK

\* It holds for ever.
LEMMA ApkInvariant == Spec => []ApkInv
<1> QED
    BY ApkInit, ApkStep, PTL DEF Spec

\* The files, the jobs and the candidates they hold keep their types, for any
\* catalog, and whatever the index, the targets and the faults do.
THEOREM ApkTypes == Spec => []TypeOK
<1>1. ApkInv => TypeOK
    BY DEF ApkInv
<1> QED
    BY <1>1, ApkInvariant, PTL

-----------------------------------------------------------------------------
(* Partial files.                                                          *)

\* Whoever may leave a partial file, and has not done with it.
Minds(q, f) == Writing(q, f) \/ Cleaning(q, f)

\* A job that goes on with the same artefact.
LEMMA GoesOnMinding ==
    ASSUME NEW q \in Proc, NEW f, Minds(q, f),
           job'[q].pc = job[q].pc, job'[q].hashed = job[q].hashed,
           job'[q].candidate = job[q].candidate
    PROVE  Minds(q, f)'
<1> QED
    BY DEF Minds, Writing, Cleaning, Here, Current

\* Whoever steps, the others go on with the files they mind.
LEMMA OthersGoOn ==
    ASSUME ApkInv, NEW p \in Proc, NEW q \in Proc \ {p}, NEW f, NEW g, NEW j, Minds(q, f),
           \/ Becomes(p, j)
           \/ job' = [Moved(g) EXCEPT ![p] = j]
           \/ job' = [Unlinked(g) EXCEPT ![p] = j]
    PROVE  Minds(q, f)'
<1>1. job \in [Proc -> Job] /\ job[q] \in Job
    BY DEF ApkInv, TypeOK
<1>2. \A h : LET k == [job[q] EXCEPT !.handle = h]
             IN  /\ k.pc = job[q].pc /\ k.hashed = job[q].hashed
                 /\ k.candidate = job[q].candidate
    BY <1>1 DEF Job
<1>3. \/ job'[q] = job[q]
      \/ \E h : job'[q] = [job[q] EXCEPT !.handle = h]
  <2>1. CASE Becomes(p, j)
      BY <1>1, <2>1 DEF Becomes
  <2>2. CASE job' = [Moved(g) EXCEPT ![p] = j]
    <3>1. job'[q] = Moved(g)[q]
        BY <2>2 DEF Moved
    <3>2. CASE Writing(q, g)
      <4>1. Moved(g)[q] = [job[q] EXCEPT !.handle = IF @ = "part" THEN "final" ELSE "gone"]
          BY <3>2 DEF Moved
      <4>2. [job[q] EXCEPT !.handle = IF @ = "part" THEN "final" ELSE "gone"]
             = [job[q] EXCEPT !.handle = IF job[q].handle = "part" THEN "final" ELSE "gone"]
          BY <1>1 DEF Job
      <4> QED
          BY <3>1, <4>1, <4>2
    <3>3. CASE ~Writing(q, g)
        BY <3>1, <3>3 DEF Moved
    <3> QED
        BY <3>2, <3>3
  <2>3. CASE job' = [Unlinked(g) EXCEPT ![p] = j]
    <3>1. job'[q] = Unlinked(g)[q]
        BY <2>3 DEF Unlinked
    <3> QED
        BY <3>1 DEF Unlinked
  <2> QED
      BY <2>1, <2>2, <2>3
<1>4. /\ job'[q].pc = job[q].pc /\ job'[q].hashed = job[q].hashed
      /\ job'[q].candidate = job[q].candidate
    BY <1>2, <1>3
<1> QED
    BY <1>4, GoesOnMinding

\* While nothing is killed, whoever leaves a download removes or renames its
\* partial file, or has lost it to another process: none outlives the downloads
\* of its name and their cleaning up.
THEOREM PartialsAreWritten == Spec => []NoPartialLeft
<1>1. Init => NoPartialLeft
    BY DEF Init, NoPartialLeft, NoFiles
<1>2. ApkInv /\ NoPartialLeft /\ [Next]_vars => NoPartialLeft'
  <2> SUFFICES ASSUME ApkInv, NoPartialLeft, [Next]_vars, ~killed',
                      NEW f \in DOMAIN part'
               PROVE  \E q \in Proc : Minds(q, f)'
      BY DEF NoPartialLeft, Minds
  <2>0. /\ ~killed
        /\ f \in DOMAIN part => \E q \in Proc : Minds(q, f)
        /\ job \in [Proc -> Job] /\ \A q \in Proc : job[q] \in Job
    <3>1. killed \in BOOLEAN /\ (killed => killed')
        BY DEF ApkInv, TypeOK, Next, RunStep, CheckSigner, PinSigner, Compare, NothingToDo,
               Reuse, OpenPart, WriteChunk, Replace, LoseRename, RejectApk, CleanUp, Publish,
               Crash, FDroidMoves, OperatorEdits, OperatorRetargets, vars
    <3> QED
        BY <3>1 DEF NoPartialLeft, Minds, ApkInv, TypeOK
  \* Who steps did not mind the file, so another did, and still does.
  <2>a. ASSUME NEW p \in Proc, NEW g, NEW j, f \in DOMAIN part, ~Minds(p, f),
               \/ Becomes(p, j)
               \/ job' = [Moved(g) EXCEPT ![p] = j]
               \/ job' = [Unlinked(g) EXCEPT ![p] = j]
        PROVE  \E q \in Proc : Minds(q, f)'
    <3>1. PICK q \in Proc \ {p} : Minds(q, f)
        BY <2>0, <2>a
    <3> QED
        BY <2>a, <3>1, OthersGoOn
  \* Who steps stays at its artefact and writes it, or is to clean up.
  <2>b. ASSUME NEW p \in Proc, NEW pc \in {"write", "cleanup"}, NEW h,
               Becomes(p, [job[p] EXCEPT !.pc = pc, !.handle = h]),
               f \in DOMAIN part \cup {Here(p)}
        PROVE  \E q \in Proc : Minds(q, f)'
    <3> DEFINE j == [job[p] EXCEPT !.pc = pc, !.handle = h]
    <3>1. CASE f = Here(p)
      <4>1. /\ j.pc = pc /\ j.hashed = job[p].hashed
            /\ j.candidate = job[p].candidate /\ job'[p] = j
          BY <2>0, <2>b DEF Job, Becomes
      <4>2. Minds(p, f)'
          BY <3>1, <4>1 DEF Minds, Writing, Cleaning, Here, Current
      <4> QED
          BY <4>2
    <3>2. CASE f # Here(p)
      <4>1. f \in DOMAIN part /\ ~Minds(p, f)
          BY <2>b, <3>2 DEF Minds, Writing, Cleaning
      <4> QED
          BY <2>a, <2>b, <4>1
    <3> QED
        BY <3>1, <3>2
  <2>1. ASSUME NEW p \in Proc,
               \/ CheckSigner(p) \/ PinSigner(p) \/ Compare(p) \/ NothingToDo(p)
               \/ Reuse(p) \/ Publish(p)
        PROVE  \E q \in Proc : Minds(q, f)'
    <3>1. part' = part /\ job[p].pc \notin {"write", "cleanup"} /\ \E j : Becomes(p, j)
        BY <2>1 DEF CheckSigner, PinSigner, Compare, NothingToDo, Reuse, Publish, Goto, files
    <3>2. ~Minds(p, f)
        BY <3>1 DEF Minds, Writing, Cleaning
    <3> QED
        BY <2>a, <3>1, <3>2
  <2>2. ASSUME NEW p \in Proc, OpenPart(p)
        PROVE  \E q \in Proc : Minds(q, f)'
    <3>1. /\ Becomes(p, [job[p] EXCEPT !.pc = "write", !.handle = "part"])
          /\ f \in DOMAIN part \cup {Here(p)}
        BY <2>2 DEF OpenPart, Put
    <3> QED
        BY <2>b, <3>1
  <2>3. ASSUME NEW p \in Proc, WriteChunk(p)
        PROVE  \E q \in Proc : Minds(q, f)'
    <3>1. PICK b : /\ DOMAIN part' = DOMAIN part
                   /\ Becomes(p, [job[p] EXCEPT !.written = job[p].written + 1,
                                                !.stream[job[p].written + 1] = b])
        BY <2>3 DEF WriteChunk
    <3> DEFINE j == [job[p] EXCEPT !.written = job[p].written + 1,
                                   !.stream[job[p].written + 1] = b]
    <3>2. PICK q \in Proc : Minds(q, f)
        BY <2>0, <3>1
    <3>3. CASE q = p
      <4>1. /\ j.pc = job[p].pc /\ j.hashed = job[p].hashed
            /\ j.candidate = job[p].candidate /\ job'[p] = j
          BY <2>0, <3>1 DEF Job, Becomes
      <4>2. Minds(p, f)'
          BY <3>2, <3>3, <4>1, GoesOnMinding
      <4> QED
          BY <4>2
    <3>4. CASE q # p
        BY <3>1, <3>2, <3>4, OthersGoOn
    <3> QED
        BY <3>3, <3>4
  <2>4. ASSUME NEW p \in Proc, Replace(p) \/ CleanUp(p)
        PROVE  \E q \in Proc : Minds(q, f)'
    <3>1. /\ f \in DOMAIN part /\ f # Here(p)
          /\ \E j : \/ job' = [Moved(Here(p)) EXCEPT ![p] = j]
                   \/ job' = [Unlinked(Here(p)) EXCEPT ![p] = j]
        BY <2>4 DEF Replace, CleanUp, Without
    <3>2. ~Minds(p, f)
        BY <3>1 DEF Minds, Writing, Cleaning
    <3> QED
        BY <2>a, <3>1, <3>2
  <2>5. ASSUME NEW p \in Proc, LoseRename(p) \/ RejectApk(p)
        PROVE  \E q \in Proc : Minds(q, f)'
    <3>1. /\ part' = part
          /\ Becomes(p, [job[p] EXCEPT !.pc = "cleanup", !.handle = "none"])
        BY <2>5 DEF LoseRename, RejectApk, files
    <3> QED
        BY <2>b, <3>1
  <2>6. ASSUME NEW p \in Proc, Crash(p)
        PROVE  FALSE
      BY <2>6 DEF Crash
  <2>7. CASE UNCHANGED <<part, job>>
    <3>1. PICK q \in Proc : Minds(q, f)
        BY <2>0, <2>7
    <3>2. Minds(q, f)'
        BY <2>7, <3>1 DEF Minds, Writing, Cleaning, Here, Current
    <3> QED
        BY <3>2
  <2> QED
      BY <2>1, <2>2, <2>3, <2>4, <2>5, <2>6, <2>7
      DEF Next, RunStep, FDroidMoves, OperatorEdits, OperatorRetargets, vars, files
<1> QED
    BY <1>1, <1>2, ApkInvariant, PTL DEF Spec

-----------------------------------------------------------------------------
(* The choice of the version, and the fields it goes to.                   *)

\* What is offered and what is targeted, as the lemmas on the resolver need them.
LEMMA IndexTypes ==
    ASSUME ApkInv
    PROVE  /\ offered \in SUBSET Versions /\ targets \in Seq(Abi)
           /\ UsableOf(offered) \in SUBSET Versions
           /\ Targets \subseteq Seq(Abi)
<1>1. offered \in SUBSET Versions /\ targets \in Targets
    BY DEF ApkInv, TypeOK
<1>2. Targets \subseteq Seq(Abi)
    BY TargetsAssumption
<1> QED
    BY <1>1, <1>2, UsableVersions

\* For any catalog, any index and any list of targets, to add targets behind
\* those there are leaves the version a package is at, and its artefacts.
THEOREM MarkersAreStable == Spec => []MarkerStable
<1>1. ApkInv => MarkerStable
  <2> SUFFICES ASSUME ApkInv, NEW longer \in Targets, Extends(longer, targets),
                      Resolve(offered, targets) # NoCandidate
               PROVE  LET c == Resolve(offered, targets)
                          d == Resolve(offered, longer)
                      IN  /\ d.code = c.code /\ d.signer = c.signer /\ d.split = c.split
                          /\ SubSeq(d.artifacts, 1, Len(c.artifacts)) = c.artifacts
      BY DEF MarkerStable
  <2> DEFINE c == Resolve(offered, targets)
             d == Resolve(offered, longer)
             of == Artifacts(UsableOf(offered), targets)
             bs == Artifacts(UsableOf(offered), longer)
  <2>1. /\ offered \in SUBSET Versions /\ targets \in Seq(Abi) /\ longer \in Seq(Abi)
        /\ UsableOf(offered) \in SUBSET Versions
      BY IndexTypes
  <2>2. /\ of \in Seq(Artifact) /\ Len(of) \in Nat
        /\ bs \in Seq(Artifact) /\ Len(bs) \in Nat
      BY <2>1, ArtifactList
  <2>3. Len(of) <= Len(bs) /\ \A n \in 1..Len(of) : of[n] = bs[n]
      BY <2>1, WidenedArtifacts DEF Extends
  <2>4. /\ c.artifacts = of /\ d.artifacts = bs
        /\ Len(of) # 0
        /\ Len(of) > 0 => /\ c.code = Code(of[1].version)
                          /\ c.signer = Catalog[of[1].version].signer
                          /\ c.split = AbiSpecific(of[1].version)
        /\ Len(bs) > 0 => /\ d.code = Code(bs[1].version)
                          /\ d.signer = Catalog[bs[1].version].signer
                          /\ d.split = AbiSpecific(bs[1].version)
      BY <2>1, ResolvedCandidate
  <2> HIDE DEF c, d, of, bs
  <2>5. d.code = c.code /\ d.signer = c.signer /\ d.split = c.split
    <3>1. Len(of) > 0 /\ Len(bs) > 0 /\ of[1] = bs[1]
        BY <2>2, <2>3, <2>4
    <3> QED
        BY <2>4, <3>1
  <2>6. SubSeq(bs, 1, Len(of)) = of
    <3> DEFINE head == SubSeq(bs, 1, Len(of))
    <3>1. \A n \in 1..Len(of) : bs[n] \in Artifact
        BY <2>2, <2>3, ElementOfSeq
    <3>2. /\ head \in Seq(Artifact) /\ Len(head) = Len(of)
          /\ \A n \in 1..Len(of) : head[n] = bs[n]
        BY <2>2, <3>1, SubSeqProperties
    <3> HIDE DEF head
    <3>3. head = of
        BY <2>2, <2>3, <3>2, SeqEqual
    <3> QED
        BY <3>3 DEF head
  <2> QED
      BY <2>4, <2>5, <2>6 DEF c, d
<1> QED
    BY <1>1, ApkInvariant, PTL

\* For any catalog, any index and any list of targets, the field of a target that
\* is served and shares it with no other points to the newest version for it.
THEOREM FieldsServeTargets == Spec => []UrlsServeTargets
<1>1. ApkInv => UrlsServeTargets
  <2> DEFINE c == Resolve(offered, targets)
             urls == Urls(c)
             all == UsableOf(offered)
             arts == Artifacts(all, targets)
  <2> SUFFICES ASSUME ApkInv, NEW i \in DOMAIN targets,
                      {v \in all : Supports(v, targets[i])} # {},
                      DOMAIN urls # {},
                      \A j \in DOMAIN targets \ {i} : Arch(targets[j]) # Arch(targets[i])
               PROVE  LET field == IF c.split THEN Arch(targets[i]) ELSE "url"
                      IN  /\ field \in DOMAIN urls
                          /\ urls[field] \in {v \in all : Supports(v, targets[i])}
                          /\ \A v \in {v \in all : Supports(v, targets[i])} :
                                 Code(v) <= Code(urls[field])
      BY DEF UrlsServeTargets
  <2>1. offered \in SUBSET Versions /\ targets \in Seq(Abi) /\ all \in SUBSET Versions
      BY IndexTypes
  <2>2. \E v \in all : Supports(v, targets[i])
      OBVIOUS
  <2>3. PICK n \in 1..Len(arts) :
            /\ arts[n].abi = targets[i] /\ arts[n].version = Best(all, targets[i])
            /\ OthersServeOthers(arts, targets, i, n)
      BY <2>1, <2>2, TargetServed
  <2>4. /\ c.artifacts = arts
        /\ Len(arts) \in Nat /\ DOMAIN arts = 1..Len(arts)
      BY <2>1, ResolvedCandidate, ArtifactList
  <2>5. LET b == arts[n].version
        IN  /\ b \in {v \in all : Supports(v, targets[i])}
            /\ \A v \in {v \in all : Supports(v, targets[i])} : Code(v) <= Code(b)
    <3> HIDE DEF all, arts
    <3>1. LET b == Best(all, targets[i])
          IN  /\ b \in all /\ Supports(b, targets[i])
              /\ \A v \in all : Supports(v, targets[i]) => Code(v) <= Code(b)
        BY <2>1, <2>2, BestVersion
    <3> QED
        BY <2>3, <3>1
  <2>6. CASE ~c.split
    <3>1. DOMAIN [f \in {} |-> 0] = {}
        OBVIOUS
    <3>2. Len(arts) = 1 /\ urls = [f \in {"url"} |-> arts[1].version]
      <4>1. urls = IF Len(arts) = 1 THEN [f \in {"url"} |-> arts[1].version]
                   ELSE [f \in {} |-> 0]
          BY <2>4, <2>6 DEF Urls
      <4> HIDE DEF urls, arts
      <4> QED
          BY <3>1, <4>1
    <3>3. n = 1
        BY <3>2
    <3>4. "url" \in DOMAIN urls /\ urls["url"] = arts[n].version
        BY <3>2, <3>3
    <3> QED
        BY <2>5, <2>6, <3>4
  <2>7. CASE c.split
    <3> DEFINE skipped == \E k \in DOMAIN arts : Arch(arts[k].abi) \notin Fields
               behind == [f \in {Arch(arts[k].abi) : k \in DOMAIN arts} |->
                             LET of == {k \in DOMAIN arts : Arch(arts[k].abi) = f}
                             IN  arts[CHOOSE k \in of : \A j \in of : j <= k].version]
               mine == {k \in DOMAIN arts : Arch(arts[k].abi) = Arch(targets[i])}
    <3>1. urls = IF skipped THEN [f \in {} |-> 0] ELSE behind
        BY <2>4, <2>7 DEF Urls
    <3>2. urls = behind
      <4>1. DOMAIN [f \in {} |-> 0] = {}
          OBVIOUS
      <4> HIDE DEF skipped, behind, urls
      <4> QED
          BY <3>1, <4>1
    <3>3. mine = {n}
      <4>1. n \in mine
          BY <2>3, <2>4
      <4>2. ASSUME NEW m \in mine, m # n PROVE FALSE
        <5>1. PICK j \in DOMAIN targets \ {i} : arts[m].abi = targets[j]
            BY <2>3, <2>4, <4>2 DEF OthersServeOthers
        <5>2. Arch(arts[m].abi) = Arch(targets[i])
            BY <4>2
        <5> QED
            BY <5>1, <5>2
      <4> QED
          BY <4>1, <4>2
    <3>4. (CHOOSE k \in mine : \A j \in mine : j <= k) = n
      <4>1. n <= n
          BY <2>3, <2>4
      <4> HIDE DEF mine
      <4> QED
          BY <3>3, <4>1
    <3>5. Arch(targets[i]) \in DOMAIN behind
        BY <2>3, <2>4
    <3>6. behind[Arch(targets[i])] = arts[n].version
      <4>1. behind[Arch(targets[i])] = arts[CHOOSE k \in mine : \A j \in mine : j <= k].version
          BY <3>5
      <4> QED
          BY <3>4, <4>1
    <3> HIDE DEF behind, arts, urls, c
    <3> QED
        BY <2>5, <2>7, <3>2, <3>5, <3>6
  <2> QED
      BY <2>6, <2>7
<1> QED
    BY <1>1, ApkInvariant, PTL

\* For any catalog and any targets, versions that are only added lower the code
\* of the candidate only with another ABI in front.
THEOREM AddedNeverLower == Spec => NewVersionsNeverLower
<1> DEFINE Added ==
        offered \subseteq offered' /\ offered # offered' /\ targets' = targets
        => LET c == Resolve(offered, targets)
               d == Resolve(offered', targets)
           IN  \/ c = NoCandidate \/ d.code >= c.code
               \/ Preferred(offered', targets) # Preferred(offered, targets)
<1>1. ApkInv /\ ApkInv' => [Added]_indexVars
  <2> DEFINE c == Resolve(offered, targets)
             d == Resolve(offered', targets)
             old == UsableOf(offered)
             new == UsableOf(offered')
             of == Artifacts(old, targets)
             bs == Artifacts(new, targets)
             abi == Retained(old, targets)[1]
  <2> SUFFICES ASSUME ApkInv, ApkInv', offered \subseteq offered', c # NoCandidate,
                      Retained(new, targets)[1] = abi
               PROVE  d.code >= c.code
      BY DEF Preferred
  <2>1. /\ offered \in SUBSET Versions /\ offered' \in SUBSET Versions
        /\ targets \in Seq(Abi)
        /\ old \in SUBSET Versions /\ new \in SUBSET Versions /\ old \subseteq new
    <3>1. offered' \in SUBSET Versions
        BY DEF ApkInv, TypeOK
    <3>2. old \subseteq new
        BY DEF UsableOf
    <3> QED
        BY <3>1, <3>2, IndexTypes, UsableVersions
  <2>2. Len(of) > 0 /\ c.code = Code(of[1].version)
      BY <2>1, ResolvedCandidate, ArtifactList
  <2>3. of[1].abi = abi /\ of[1].version = Best(old, abi) /\ of[1].version \in old
      BY <2>1, <2>2, ArtifactList
  <2>4. PICK i \in DOMAIN targets : targets[i] = abi /\ \E v \in old : Supports(v, abi)
    <3>1. Len(of) = Cardinality(Served(old, targets)) /\ Len(of) \in Nat
        BY <2>1, ArtifactList, RetainedTargets
    <3>2. LET n == Ascending(Served(old, targets))[1]
          IN  n \in Served(old, targets) /\ abi = targets[n]
        BY <2>1, <2>2, <3>1, RetainedTargets
    <3> QED
        BY <3>2 DEF Served
  <2>5. \E v \in new : Supports(v, targets[i])
      BY <2>1, <2>4
  <2>6. Len(bs) > 0 /\ d.code = Code(bs[1].version)
    <3>1. PICK n \in 1..Len(bs) : TRUE
        BY <2>1, <2>5, TargetServed
    <3>2. Len(bs) \in Nat /\ Len(bs) > 0
        BY <2>1, <3>1, ArtifactList
    <3> QED
        BY <2>1, <3>2, ResolvedCandidate
  <2>7. bs[1].version = Best(new, abi)
      BY <2>1, <2>6, ArtifactList
  <2>8. Supports(Best(old, abi), abi) /\ Best(old, abi) \in new
      BY <2>1, <2>4, BestVersion
  <2>9. Code(Best(old, abi)) <= Code(Best(new, abi))
    <3> DEFINE was == Best(old, abi)
    <3> HIDE DEF was, old, new, abi
    <3>1. \A w \in new : Supports(w, abi) => Code(w) <= Code(Best(new, abi))
        BY <2>1, <2>4, <2>5, BestVersion
    <3> QED
        BY <2>8, <3>1 DEF was
  <2>10. Best(old, abi) \in Versions /\ Best(new, abi) \in Versions
      BY <2>1, <2>4, <2>8, BestVersion
  <2> QED
      BY <2>2, <2>3, <2>6, <2>7, <2>9, <2>10, VersionTypes
<1> QED
    BY <1>1, ApkInvariant, PTL DEF NewVersionsNeverLower

=============================================================================
