------------------------- MODULE ApkStoreProperties -------------------------
(***************************************************************************)
(* What the choice, the verification and the publication of the APKs must  *)
(* guarantee.                                                              *)
(***************************************************************************)
EXTENDS ApkStore

Extends(longer, shorter) ==
    Len(longer) > Len(shorter) /\ SubSeq(longer, 1, Len(shorter)) = shorter

\* Target ABIs added behind those there are never change which version a package
\* is at: the code, the signer and the kind of the candidate are those of the
\* preferred ABI, so that widening the targets neither republishes nor hides an
\* update.
MarkerStable ==
    \A longer \in {ts \in Targets : Extends(ts, targets)} :
        LET c == Resolve(offered, targets)
            d == Resolve(offered, longer)
        IN  c # NoCandidate
                => /\ d.code = c.code /\ d.signer = c.signer /\ d.split = c.split
                   /\ SubSeq(d.artifacts, 1, Len(c.artifacts)) = c.artifacts

\* Whatever is published, a device of any target ABI that some usable version
\* serves can install what its field points to, and finds there the newest such
\* version; unless two targets share a field, or the version is skipped.
UrlsServeTargets ==
    LET c == Resolve(offered, targets)
        urls == Urls(c)
        field(abi) == IF c.split THEN Arch(abi) ELSE "url"
    IN  \A i \in DOMAIN targets :
            LET usable == {v \in UsableOf(offered) : Supports(v, targets[i])}
                shared == \E j \in DOMAIN targets \ {i} : Arch(targets[j]) = Arch(targets[i])
            IN  usable # {} /\ DOMAIN urls # {} /\ ~shared
                    => /\ field(targets[i]) \in DOMAIN urls
                       /\ urls[field(targets[i])] \in usable
                       /\ \A v \in usable : Code(v) <= Code(urls[field(targets[i])])

\* A version F-Droid adds never makes a package go back: the candidate gets a
\* lower code only when an ABI preferred to that of the old one is served at last.
Preferred(os, ts) == Retained(UsableOf(os), ts)[1]
NewVersionsNeverLower ==
    [][offered \subseteq offered' /\ offered # offered' /\ targets' = targets
       => LET c == Resolve(offered, targets)
              d == Resolve(offered', targets)
          IN  \/ c = NoCandidate \/ d.code >= c.code
              \/ Preferred(offered', targets) # Preferred(offered, targets)]_indexVars

\* No run publishes an APK whose every byte it has not hashed itself, whatever an
\* earlier or an overlapping run left under the name of the file: half a file,
\* a file being written, or that of another version with the same code.
PublishesWhatItHashed ==
    \A p \in Proc :
        job[p].pc = "prepare" =>
            LET c == job[p].candidate
            IN  /\ Len(job[p].hashed) = Len(c.artifacts)
                /\ \A i \in 1..Len(c.artifacts) :
                      job[p].hashed[i] = Whole(c.artifacts[i].version)

\* As long as nothing is killed, a partial file never outlives the downloads of
\* that name and their cleaning up, however they overlap, fail or lose their file
\* to one another.
NoPartialLeft ==
    ~killed =>
        \A f \in DOMAIN part : \E p \in Proc : Writing(p, f) \/ Cleaning(p, f)

\* A candidate that nothing but the download stands in the way of: of the signer
\* pinned or first to be, newer than all Headwind holds and than what was created,
\* under a name Headwind has not, and with fields that take it.
Publishable ==
    \E c \in {Resolve(offered, targets)} :
        /\ pinned \in {NoSigner, c.signer}
        /\ \A v \in held : v.code < c.code
        /\ Publishes(c)

\* Once faults, crashes, the index and Headwind settle, the timer's runs get there:
\* neither the partial and torn files left behind, nor a rename lost to a run that
\* only verifies, keep the candidate from being published.  Unless such runs go on
\* failing for ever beside them: each may remove the file of the next download.
PublishedInTheEnd ==
    <>[][\A p \in Proc \ Applies : ~CleanUp(p)]_job => []<>~Publishable

=============================================================================
