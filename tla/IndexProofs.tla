---------------------------- MODULE IndexProofs ----------------------------
(***************************************************************************)
(* Theorems about the index and its cache for every value of their         *)
(* constants, checked by TLAPS.                                            *)
(***************************************************************************)
EXTENDS IndexCacheProperties, TLAPS

-----------------------------------------------------------------------------
(* Diffs.                                                                  *)

\* The fields the service reads of one package.
Filter(object) == Restrict(object, DOMAIN object \cap Kept)

LEMMA FilterMember ==
    ASSUME NEW values, NEW object \in Objects(Keys, values)
    PROVE  Filter(object) \in Objects(Keys, values)
<1>1. PICK D \in SUBSET Keys : object \in [D -> values]
    BY DEF Objects
<1>2. Filter(object) \in [D \cap Kept -> values]
    BY <1>1 DEF Filter, Restrict
<1> QED
    BY <1>2 DEF Objects

\* Two objects without nulls: filtering them and patching the old one with the
\* filtered diff gives the new one.
LEMMA PatchedKeys ==
    ASSUME NEW old \in Package, NEW new \in Package
    PROVE  MergeKeys(Filter(old), Filter(DiffKeys(old, new))) = Filter(new)
<1> DEFINE d == DiffKeys(old, new)
           fd == Filter(d)
           m == MergeKeys(Filter(old), fd)
<1>1. /\ DOMAIN d = Changed(old, new)
      /\ \A k \in Changed(old, new) :
            d[k] = IF k \in DOMAIN new THEN new[k] ELSE Null
    BY DEF DiffKeys
<1>2. /\ DOMAIN fd = Changed(old, new) \cap Kept
      /\ \A k \in DOMAIN fd : fd[k] = d[k]
    BY <1>1 DEF Filter, Restrict
<1>3. \A k \in DOMAIN new : new[k] # Null
    BY NullAssumption DEF Package, Objects
<1>4. Deleted(fd) = {k \in Kept : k \in DOMAIN old /\ k \notin DOMAIN new}
    BY <1>1, <1>2, <1>3 DEF Deleted, Changed
<1>5. DOMAIN Filter(old) = DOMAIN old \cap Kept /\ DOMAIN Filter(new) = DOMAIN new \cap Kept
    BY DEF Filter, Restrict
<1>6. DOMAIN m = DOMAIN Filter(new)
    BY <1>2, <1>4, <1>5 DEF MergeKeys, Changed
<1>7. ASSUME NEW k \in DOMAIN Filter(new)
      PROVE  m[k] = Filter(new)[k]
  <2>1. m[k] = IF k \in DOMAIN fd THEN fd[k] ELSE Filter(old)[k]
      BY <1>6 DEF MergeKeys
  <2>2. Filter(new)[k] = new[k]
      BY DEF Filter, Restrict
  <2>3. CASE k \in DOMAIN fd
      BY <1>1, <1>2, <1>5, <2>1, <2>2, <2>3
  <2>4. CASE k \notin DOMAIN fd
    <3>1. k \in DOMAIN old /\ old[k] = new[k] /\ k \in Kept
        BY <1>2, <1>5, <2>4 DEF Changed
    <3>2. Filter(old)[k] = old[k]
        BY <3>1 DEF Filter, Restrict
    <3> QED
        BY <2>1, <2>2, <2>4, <3>1, <3>2
  <2> QED
      BY <2>3, <2>4
<1>8. m = [k \in DOMAIN m |-> m[k]] /\ Filter(new) = [k \in DOMAIN Filter(new) |-> Filter(new)[k]]
    BY DEF MergeKeys, Filter, Restrict
<1>9. m = Filter(new)
  <2> HIDE DEF m
  <2> QED
      BY <1>6, <1>7, <1>8
<1> QED
    BY <1>9

LEMMA DiffKeysType ==
    ASSUME NEW old \in Package, NEW new \in Package
    PROVE  DiffKeys(old, new) \in Objects(Keys, Vals \cup {Null})
<1>1. Changed(old, new) \in SUBSET Keys
    BY DEF Changed, Package, Objects
<1>2. \A k \in DOMAIN new : new[k] \in Vals
    BY DEF Package, Objects
<1>3. DiffKeys(old, new) \in [Changed(old, new) -> Vals \cup {Null}]
    BY <1>2 DEF DiffKeys
<1> QED
    BY <1>1, <1>3 DEF Objects

LEMMA DiffType ==
    ASSUME NEW old \in Index, NEW new \in Index
    PROVE  DiffOf(old, new) \in Patch
<1> DEFINE full == Objects(Keys, Vals \cup {Null})
<1>1. Changed(old, new) \in SUBSET Pkgs
    BY DEF Changed, Index, Objects
<1>2. /\ \A p \in DOMAIN old : old[p] \in Package
      /\ \A p \in DOMAIN new : new[p] \in Package
    BY DEF Index, Objects
<1>3. Package \subseteq full
  <2> SUFFICES ASSUME NEW object \in Package PROVE object \in full
      OBVIOUS
  <2>1. PICK D \in SUBSET Keys : object \in [D -> Vals]
      BY DEF Package, Objects
  <2>2. object \in [D -> Vals \cup {Null}]
      BY <2>1
  <2> QED
      BY <2>2 DEF Objects
<1>4. \A p \in Changed(old, new) : DiffOf(old, new)[p] \in full \cup {Null}
    BY <1>2, <1>3, DiffKeysType DEF DiffOf
<1>5. DiffOf(old, new) \in [Changed(old, new) -> full \cup {Null}]
    BY <1>4 DEF DiffOf
<1> QED
    BY <1>1, <1>5 DEF Patch, Objects

LEMMA ProjectType ==
    ASSUME NEW payload \in Patch, NEW wanted
    PROVE  Project(payload, wanted) \in Patch
<1> DEFINE full == Objects(Keys, Vals \cup {Null})
<1>1. DOMAIN payload \in SUBSET Pkgs
      /\ \A p \in DOMAIN payload : payload[p] \in full \cup {Null}
    BY DEF Patch, Objects
<1>2. \A p \in DOMAIN payload \cap wanted :
          Project(payload, wanted)[p] \in full \cup {Null}
    BY <1>1, FilterMember DEF Project, Filter
<1>3. Project(payload, wanted) \in [DOMAIN payload \cap wanted -> full \cup {Null}]
    BY <1>2 DEF Project
<1> QED
    BY <1>1, <1>3 DEF Patch, Objects

LEMMA ProjectIndexType ==
    ASSUME NEW index \in Index, NEW wanted
    PROVE  /\ Project(index, wanted) \in Payload
           /\ DOMAIN Project(index, wanted) = DOMAIN index \cap wanted
           /\ \A p \in DOMAIN index \cap wanted :
                  Project(index, wanted)[p] = Filter(index[p])
<1>1. DOMAIN index \in SUBSET Pkgs /\ \A p \in DOMAIN index : index[p] \in Package
    BY DEF Index, Objects
<1>2. \A object \in Package : /\ object # Null
                              /\ Filter(object) \in Objects(Keys, Vals \cup {Null})
  <2> SUFFICES ASSUME NEW object \in Package
               PROVE  /\ object # Null
                      /\ Filter(object) \in Objects(Keys, Vals \cup {Null})
      OBVIOUS
  <2>1. PICK D \in SUBSET Keys : object \in [D -> Vals]
      BY DEF Package, Objects
  <2>2. object \in [D -> Vals \cup {Null}]
      BY <2>1
  <2>3. object \in Objects(Keys, Vals \cup {Null})
      BY <2>2 DEF Objects
  <2> QED
      BY <2>3, NullAssumption, FilterMember
<1>3. \A p \in DOMAIN index \cap wanted : Project(index, wanted)[p] = Filter(index[p])
    BY <1>1, <1>2 DEF Project, Filter
<1>4. Project(index, wanted)
          \in [DOMAIN index \cap wanted -> Objects(Keys, Vals \cup {Null})]
    BY <1>1, <1>2, <1>3 DEF Project
<1> QED
    BY <1>1, <1>3, <1>4 DEF Payload, Objects

LEMMA MergeType ==
    ASSUME NEW base \in Payload, NEW patch \in Patch
    PROVE  MergeDiff(base, patch) \in Payload
<1> DEFINE full == Objects(Keys, Vals \cup {Null})
           D == (DOMAIN base \cup DOMAIN patch) \ Deleted(patch)
<1>1. /\ DOMAIN base \in SUBSET Pkgs /\ \A p \in DOMAIN base : base[p] \in full
      /\ DOMAIN patch \in SUBSET Pkgs /\ \A p \in DOMAIN patch : patch[p] \in full \cup {Null}
    BY DEF Payload, Patch, Objects
<1>2. ASSUME NEW b \in full, NEW q \in full
      PROVE  MergeKeys(b, q) \in full
  <2>1. /\ DOMAIN b \in SUBSET Keys /\ \A k \in DOMAIN b : b[k] \in Vals \cup {Null}
        /\ DOMAIN q \in SUBSET Keys /\ \A k \in DOMAIN q : q[k] \in Vals \cup {Null}
      BY DEF Objects
  <2>2. MergeKeys(b, q)
            \in [(DOMAIN b \cup DOMAIN q) \ Deleted(q) -> Vals \cup {Null}]
      BY <2>1 DEF MergeKeys
  <2> QED
      BY <2>1, <2>2 DEF Objects
<1>3. \A p \in D : MergeDiff(base, patch)[p] \in full
    BY <1>1, <1>2 DEF MergeDiff, Deleted
<1>4. MergeDiff(base, patch) \in [D -> full]
    BY <1>3 DEF MergeDiff
<1> QED
    BY <1>1, <1>4 DEF Payload, Objects

\* A cached payload that shows the wanted packages as an index published them,
\* patched with the projection of the diff to another index, shows them as that
\* other index publishes them: merge_diff and project commute, deletions included.
THEOREM DiffsAreExact ==
    ASSUME NEW old \in Index, NEW new \in Index, NEW wanted, NEW payload \in Payload,
           View(payload, wanted) = Project(old, wanted)
    PROVE  View(MergeDiff(payload, Project(DiffOf(old, new), wanted)), wanted)
               = Project(new, wanted)
<1> DEFINE d == DiffOf(old, new)
           pd == Project(d, wanted)
           m == MergeDiff(payload, pd)
           v == View(m, wanted)
<1>1. /\ \A p \in DOMAIN old : old[p] \in Package
      /\ \A p \in DOMAIN new : new[p] \in Package
    BY DEF Index, Objects
<1>2. ASSUME NEW object \in Objects(Keys, Vals \cup {Null})
      PROVE  object # Null /\ Filter(object) # Null
    BY NullAssumption, FilterMember
<1>3. Package \subseteq Objects(Keys, Vals \cup {Null})
  <2> SUFFICES ASSUME NEW object \in Package
               PROVE  object \in Objects(Keys, Vals \cup {Null})
      OBVIOUS
  <2>1. PICK D \in SUBSET Keys : object \in [D -> Vals]
      BY DEF Package, Objects
  <2>2. object \in [D -> Vals \cup {Null}]
      BY <2>1
  <2> QED
      BY <2>2 DEF Objects
<1>4. DOMAIN pd = Changed(old, new) \cap wanted
    BY DEF Project, DiffOf
<1>5. ASSUME NEW p \in DOMAIN pd
      PROVE  /\ p \notin DOMAIN new => pd[p] = Null
             /\ p \in DOMAIN new /\ p \in DOMAIN old
                  => pd[p] = Filter(DiffKeys(old[p], new[p])) /\ pd[p] # Null
             /\ p \in DOMAIN new /\ p \notin DOMAIN old
                  => pd[p] = Filter(new[p]) /\ pd[p] # Null
    BY <1>1, <1>2, <1>3, <1>4, DiffKeysType DEF Project, DiffOf, Filter
<1>6. Deleted(pd) = {p \in wanted : p \in DOMAIN old /\ p \notin DOMAIN new}
    BY <1>4, <1>5 DEF Deleted, Changed
<1>7. /\ DOMAIN payload \cap wanted = DOMAIN old \cap wanted
      /\ \A p \in DOMAIN old \cap wanted : payload[p] = Filter(old[p])
  <2>1. DOMAIN View(payload, wanted) = DOMAIN payload \cap wanted
        /\ \A p \in DOMAIN payload \cap wanted : View(payload, wanted)[p] = payload[p]
      BY DEF View
  <2>2. /\ DOMAIN Project(old, wanted) = DOMAIN old \cap wanted
        /\ \A p \in DOMAIN old \cap wanted : Project(old, wanted)[p] = Filter(old[p])
      BY ProjectIndexType
  <2> HIDE DEF m, v, pd, d
  <2> QED
      BY <2>1, <2>2
<1>8. DOMAIN v = DOMAIN new \cap wanted
    BY <1>4, <1>6, <1>7 DEF View, MergeDiff, Changed
<1>9. ASSUME NEW p \in DOMAIN new \cap wanted
      PROVE  v[p] = Filter(new[p])
  <2>1. v[p] = IF p \notin DOMAIN pd THEN payload[p]
               ELSE IF p \in DOMAIN payload THEN MergeKeys(payload[p], pd[p])
               ELSE pd[p]
      BY <1>8 DEF View, MergeDiff
  <2>2. CASE p \notin DOMAIN pd
    <3>1. p \in DOMAIN old /\ old[p] = new[p]
        BY <1>4, <2>2 DEF Changed
    <3> QED
        BY <1>7, <2>1, <2>2, <3>1
  <2>3. CASE p \in DOMAIN pd /\ p \in DOMAIN old
    <3>1. /\ p \in DOMAIN payload /\ payload[p] = Filter(old[p])
          /\ pd[p] = Filter(DiffKeys(old[p], new[p]))
        BY <1>5, <1>7, <2>3
    <3>2. v[p] = MergeKeys(Filter(old[p]), Filter(DiffKeys(old[p], new[p])))
        BY <2>1, <2>3, <3>1
    <3> QED
        BY <1>1, <2>3, <3>2, PatchedKeys
  <2>4. CASE p \in DOMAIN pd /\ p \notin DOMAIN old
    <3>1. p \notin DOMAIN payload /\ pd[p] = Filter(new[p])
        BY <1>5, <1>7, <2>4
    <3> QED
        BY <2>1, <2>4, <3>1
  <2> QED
      BY <2>2, <2>3, <2>4
<1>10. v = Project(new, wanted)
  <2>1. v = [p \in DOMAIN v |-> v[p]]
      BY DEF View
  <2>2. Project(new, wanted)
            = [p \in DOMAIN new \cap wanted |-> Project(new, wanted)[p]]
      BY DEF Project
  <2> HIDE DEF v
  <2> QED
      BY <1>8, <1>9, <2>1, <2>2, ProjectIndexType
<1> QED
    BY <1>10

-----------------------------------------------------------------------------
(* The cache.                                                              *)

\* What shows the packages of a set as published shows those of a subset so too.
LEMMA NarrowView ==
    ASSUME NEW index \in Index, NEW payload, NEW tracked, NEW wanted \in SUBSET tracked,
           View(payload, tracked) = Project(index, tracked)
    PROVE  View(payload, wanted) = Project(index, wanted)
<1>1. /\ DOMAIN View(payload, tracked) = DOMAIN payload \cap tracked
      /\ DOMAIN View(payload, wanted) = DOMAIN payload \cap wanted
      /\ \A p \in DOMAIN payload \cap tracked : View(payload, tracked)[p] = payload[p]
      /\ \A p \in DOMAIN payload \cap wanted : View(payload, wanted)[p] = payload[p]
    BY DEF View
<1>2. /\ DOMAIN Project(index, tracked) = DOMAIN index \cap tracked
      /\ DOMAIN Project(index, wanted) = DOMAIN index \cap wanted
      /\ \A p \in DOMAIN index \cap tracked : Project(index, tracked)[p] = Filter(index[p])
      /\ \A p \in DOMAIN index \cap wanted : Project(index, wanted)[p] = Filter(index[p])
    BY ProjectIndexType
<1>3. DOMAIN payload \cap tracked = DOMAIN index \cap tracked
    BY <1>1, <1>2
<1>4. DOMAIN View(payload, wanted) = DOMAIN Project(index, wanted)
    BY <1>1, <1>2, <1>3
<1>5. \A p \in DOMAIN View(payload, wanted) :
          View(payload, wanted)[p] = Project(index, wanted)[p]
    BY <1>1, <1>2, <1>3
<1>6. /\ View(payload, wanted)
             = [p \in DOMAIN View(payload, wanted) |-> View(payload, wanted)[p]]
      /\ Project(index, wanted)
             = [p \in DOMAIN Project(index, wanted) |-> Project(index, wanted)[p]]
    BY DEF View, Project
<1> QED
    BY <1>4, <1>5, <1>6

LEMMA ViewOfProject ==
    ASSUME NEW index \in Index, NEW wanted
    PROVE  View(Project(index, wanted), wanted) = Project(index, wanted)
<1>1. DOMAIN Project(index, wanted) \cap wanted = DOMAIN Project(index, wanted)
    BY ProjectIndexType
<1>2. Project(index, wanted)
          = [p \in DOMAIN Project(index, wanted) |-> Project(index, wanted)[p]]
    BY DEF Project
<1> QED
    BY <1>1, <1>2 DEF View

LEMMA HistoryTypes ==
    ASSUME TypeOK
    PROVE  /\ \A t \in DOMAIN history : t \in Nat \ {0} /\ history[t] \in Index
           /\ front \in DOMAIN history
BY PublishedAssumption DEF TypeOK

LEMMA IdleRefresh ==
    ASSUME TypeOK, NEW p \in Proc, Becomes(p, Idle)
    PROVE  job' \in [Proc -> Job] /\ RefreshHolds(job'[p])
<1>1. NoIndex \in [{} -> Objects(Keys, Vals \cup {Null})]
    BY DEF NoIndex
<1>2. NoIndex \in Payload
    BY <1>1 DEF Payload, Objects
<1>3. Idle \in Job
    BY <1>2 DEF Idle, Job, Label
<1>4. job'[p] = Idle
    BY DEF Becomes, TypeOK
<1>5. RefreshHolds(Idle)
    BY FileAssumption DEF RefreshHolds, Idle
<1> QED
    BY <1>3, <1>4, <1>5 DEF Becomes, TypeOK

\* The steps of one refresh that leave the repository and the file alone.
LEMMA QuietStep ==
    ASSUME CacheInv, UNCHANGED <<repoVars, file, crashes, lags>>,
           NEW p \in Proc, NEW j \in Job, Becomes(p, j), RefreshHolds(j)
    PROVE  CacheInv'
<1>1. TypeOK'
    BY DEF CacheInv, TypeOK, Becomes, repoVars
<1>2. FileIsCoherent'
    BY DEF CacheInv, FileIsCoherent, Coherent, repoVars
<1>3. ASSUME NEW q \in Proc PROVE RefreshHolds(job[q])'
  <2>1. RefreshHolds(job'[q])
      BY DEF CacheInv, TypeOK, Becomes
  <2> QED
      BY <2>1 DEF RefreshHolds, Coherent, repoVars
<1> QED
    BY <1>1, <1>2, <1>3 DEF CacheInv

LEMMA AnswersStep ==
    ASSUME CacheInv, UNCHANGED <<repoVars, file, crashes, lags>>,
           NEW p \in Proc, At(p, "decide"), NEW payload \in Payload,
           Answers(p, "truncate", payload),
           View(payload, job[p].wanted) = Project(history[job[p].timestamp], job[p].wanted)
    PROVE  CacheInv'
<1> DEFINE j == [job[p] EXCEPT !.pc = "truncate", !.payload = payload, !.cached = NoFile]
<1>1. job[p] \in Job /\ RefreshHolds(job[p])
    BY DEF CacheInv, TypeOK
<1>2. /\ j \in Job
      /\ j.pc = "truncate" /\ j.payload = payload /\ j.cached = NoFile
      /\ j.wanted = job[p].wanted /\ j.timestamp = job[p].timestamp /\ j.etag = job[p].etag
    BY <1>1 DEF Job, Label
<1>3. RefreshHolds(j)
    BY <1>1, <1>2, FileAssumption DEF RefreshHolds, At
<1> HIDE DEF j
<1>4. Becomes(p, j)
    BY DEF Answers, j
<1> QED
    BY <1>2, <1>3, <1>4, QuietStep

LEMMA RefreshInv ==
    ASSUME CacheInv, NEW p \in Proc, RefreshStep(p)
    PROVE  CacheInv'
<1> DEFINE w == job[p].wanted
           c == job[p].cached
           t == job[p].timestamp
<1>0. job[p] \in Job /\ RefreshHolds(job[p]) /\ TypeOK
    BY DEF CacheInv, TypeOK
<1>a. /\ \A n \in DOMAIN history : n \in Nat \ {0} /\ history[n] \in Index
      /\ front \in DOMAIN history
    BY <1>0, HistoryTypes
<1>1. CASE StartRefresh(p)
  <2>1. PICK wanted \in Wanted :
            Becomes(p, [Idle EXCEPT !.pc = "entry", !.wanted = wanted, !.cached = Load])
      BY <1>1 DEF StartRefresh
  <2> DEFINE j == [Idle EXCEPT !.pc = "entry", !.wanted = wanted, !.cached = Load]
  <2>2. Load \in Cached \cup {NoFile} /\ (Load \in Cached => Coherent(Load))
      BY FileAssumption DEF Load, CacheInv, TypeOK, FileIsCoherent
  <2>3. NoIndex \in Payload
    <3>1. NoIndex \in [{} -> Objects(Keys, Vals \cup {Null})]
        BY DEF NoIndex
    <3> QED
        BY <3>1 DEF Payload, Objects
  <2>4. j \in Job
      BY <2>2, <2>3, PublishedAssumption DEF Idle, Job, Label
  <2>5. RefreshHolds(j)
      BY <2>2 DEF RefreshHolds, Idle
  <2> QED
      BY <1>1, <2>1, <2>4, <2>5, QuietStep DEF StartRefresh
<1>2. CASE FetchEntry(p)
  <2>1. CASE Usable(job[p]) /\ c.etag = front
    <3> DEFINE j == [job[p] EXCEPT !.pc = "cached"]
    <3>1. Becomes(p, j)
        BY <1>2, <2>1 DEF FetchEntry
    <3>2. /\ j \in Job /\ j.pc = "cached" /\ j.wanted = w /\ j.cached = c
          /\ j.etag = job[p].etag /\ j.timestamp = t /\ j.payload = job[p].payload
        BY <1>0 DEF Job, Label
    <3>3. RefreshHolds(j)
        BY <1>0, <1>2, <2>1, <3>2 DEF RefreshHolds, FetchEntry, At, Usable, Job
    <3> QED
        BY <1>2, <3>1, <3>2, <3>3, QuietStep DEF FetchEntry
  <2>2. CASE ~(Usable(job[p]) /\ c.etag = front)
    <3>1. PICK etag \in {0, front} :
              Becomes(p, [job[p] EXCEPT !.pc = "decide", !.timestamp = front, !.etag = etag])
        BY <1>2, <2>2 DEF FetchEntry
    <3> DEFINE j == [job[p] EXCEPT !.pc = "decide", !.timestamp = front, !.etag = etag]
    <3>a. etag \in Nat /\ front \in Nat
        BY <1>a
    <3>2. /\ j \in Job /\ j.pc = "decide" /\ j.wanted = w /\ j.cached = c
          /\ j.etag = etag /\ j.timestamp = front
        BY <1>0, <3>a DEF Job, Label
    <3>3. RefreshHolds(j)
        BY <1>0, <1>a, <1>2, <3>2 DEF RefreshHolds, FetchEntry, At
    <3> QED
        BY <1>2, <3>1, <3>2, <3>3, QuietStep DEF FetchEntry
  <2> QED
      BY <2>1, <2>2
<1>3. CASE ServeUnchanged(p)
  <2> DEFINE j == [job[p] EXCEPT !.pc = "served", !.payload = c.payload,
                                 !.timestamp = c.timestamp, !.cached = NoFile]
  <2>1. c \in Cached /\ w \subseteq c.tracked /\ Coherent(c)
      BY <1>0, <1>3 DEF RefreshHolds, ServeUnchanged, At
  <2>2. /\ j \in Job /\ j.pc = "served" /\ j.wanted = w /\ j.cached = NoFile
        /\ j.payload = c.payload /\ j.timestamp = c.timestamp
      BY <1>0, <2>1 DEF Job, Label, Cached
  <2>3. View(c.payload, w) = Project(history[c.timestamp], w)
      BY <1>a, <2>1, NarrowView DEF Coherent
  <2>4. RefreshHolds(j)
      BY <1>0, <1>3, <2>1, <2>2, <2>3, FileAssumption
      DEF RefreshHolds, Coherent, ServeUnchanged, At
  <2> QED
      BY <1>3, <2>2, <2>4, QuietStep DEF ServeUnchanged
<1>4. CASE KeepPayload(p)
  <2>1. /\ c \in Cached /\ w \subseteq c.tracked /\ Coherent(c) /\ c.timestamp = t
        /\ At(p, "decide")
      BY <1>0, <1>4 DEF RefreshHolds, KeepPayload, SameTimestamp, Usable, Job
  <2>2. View(c.payload, w) = Project(history[t], w)
      BY <1>a, <2>1, NarrowView DEF Coherent
  <2>3. c.payload \in Payload
      BY <2>1 DEF Cached
  <2> QED
      BY <1>4, <2>1, <2>2, <2>3, AnswersStep DEF KeepPayload
<1>5. CASE FetchDiff(p)
  <2>1. /\ c \in Cached /\ w \subseteq c.tracked /\ Coherent(c) /\ t = front
        /\ At(p, "decide")
      BY <1>0, <1>5 DEF RefreshHolds, FetchDiff, DiffOffered, Usable, Intact, Job
  <2> DEFINE old == history[c.timestamp]
             diff == DiffOf(old, history[front])
  <2>2. old \in Index /\ history[front] \in Index /\ c.payload \in Payload
      BY <1>a, <2>1 DEF Coherent, Cached
  <2>3. View(c.payload, w) = Project(old, w)
      BY <2>1, <2>2, NarrowView DEF Coherent
  <2>4. View(Patched(job[p], diff), w) = Project(history[t], w)
      BY <2>1, <2>2, <2>3, DiffsAreExact DEF Patched
  <2>5. Patched(job[p], diff) \in Payload
      BY <2>2, DiffType, ProjectType, MergeType DEF Patched
  <2>6. Answers(p, "truncate", Patched(job[p], diff))
      BY <1>5 DEF FetchDiff
  <2> QED
      BY <1>5, <2>1, <2>4, <2>5, <2>6, AnswersStep DEF FetchDiff
<1>6. CASE FetchIndex(p)
  <2>1. t = front /\ At(p, "decide")
      BY <1>6 DEF FetchIndex, Intact
  <2>2. View(Project(history[front], w), w) = Project(history[t], w)
      BY <1>a, <2>1, ViewOfProject
  <2>3. Project(history[front], w) \in Payload
      BY <1>a, ProjectIndexType
  <2> QED
      BY <1>6, <2>1, <2>2, <2>3, AnswersStep DEF FetchIndex
<1>7. CASE RejectFile(p) \/ EndRefresh(p)
  <2>1. Becomes(p, Idle)
      BY <1>7 DEF RejectFile, EndRefresh
  <2>2. job'[p] = Idle /\ Idle \in Job /\ RefreshHolds(Idle)
      BY <1>0, <2>1, IdleRefresh DEF Becomes, TypeOK
  <2> QED
      BY <1>7, <2>1, <2>2, QuietStep DEF RejectFile, EndRefresh
<1>8. CASE TruncateFile(p)
  <2> DEFINE j == [job[p] EXCEPT !.pc = "write"]
  <2>1. /\ j \in Job /\ j.pc = "write" /\ j.wanted = w /\ j.cached = c
        /\ j.etag = job[p].etag /\ j.timestamp = t /\ j.payload = job[p].payload
      BY <1>0 DEF Job, Label
  <2>2. RefreshHolds(j)
      BY <1>0, <1>8, <2>1 DEF RefreshHolds, TruncateFile, At
  <2>3. job' = [job EXCEPT ![p] = j] /\ file' = Empty
      BY <1>8 DEF TruncateFile, Becomes
  <2>4. TypeOK'
      BY <1>0, <1>8, <2>1, <2>3 DEF TypeOK, TruncateFile, repoVars
  <2>5. FileIsCoherent'
      BY <2>3, FileAssumption DEF FileIsCoherent
  <2>6. ASSUME NEW q \in Proc PROVE RefreshHolds(job[q])'
    <3>1. RefreshHolds(job'[q])
        BY <1>0, <2>2, <2>3 DEF CacheInv, TypeOK
    <3> QED
        BY <1>8, <3>1 DEF RefreshHolds, Coherent, TruncateFile, repoVars
  <2> QED
      BY <2>4, <2>5, <2>6 DEF CacheInv
<1>9. CASE WriteFile(p)
  <2> DEFINE j == [job[p] EXCEPT !.pc = "served"]
  <2>1. /\ j \in Job /\ j.pc = "served" /\ j.wanted = w /\ j.cached = c
        /\ j.timestamp = t /\ j.payload = job[p].payload
      BY <1>0 DEF Job, Label
  <2>2. RefreshHolds(j)
      BY <1>0, <1>9, <2>1 DEF RefreshHolds, WriteFile, At
  <2>3. job' = [job EXCEPT ![p] = j] /\ file' \in {CacheRecord(job[p]), Torn}
      BY <1>9 DEF WriteFile, Becomes
  <2>4. CacheRecord(job[p]) \in Cached /\ Coherent(CacheRecord(job[p]))
      BY <1>0, <1>a, <1>9 DEF CacheRecord, Cached, Coherent, RefreshHolds, WriteFile, At, Job
  <2>5. TypeOK'
      BY <1>0, <1>9, <2>1, <2>3, <2>4 DEF TypeOK, WriteFile, repoVars
  <2>6. FileIsCoherent'
      BY <1>9, <2>3, <2>4, FileAssumption DEF FileIsCoherent, Coherent, WriteFile, repoVars
  <2>7. ASSUME NEW q \in Proc PROVE RefreshHolds(job[q])'
    <3>1. RefreshHolds(job'[q])
        BY <1>0, <2>2, <2>3 DEF CacheInv, TypeOK
    <3> QED
        BY <1>9, <3>1 DEF RefreshHolds, Coherent, WriteFile, repoVars
  <2> QED
      BY <2>5, <2>6, <2>7 DEF CacheInv
<1> QED
    BY <1>1, <1>2, <1>3, <1>4, <1>5, <1>6, <1>7, <1>8, <1>9 DEF RefreshStep

LEMMA CacheStep ==
    ASSUME CacheInv, [Next]_vars
    PROVE  CacheInv'
<1>0. TypeOK /\ \A q \in Proc : RefreshHolds(job[q])
    BY DEF CacheInv
<1>1. CASE \E p \in Proc : RefreshStep(p)
    BY <1>1, RefreshInv
<1>2. ASSUME NEW p \in Proc, Crash(p)
      PROVE  CacheInv'
  <2>1. Becomes(p, Idle) /\ UNCHANGED <<repoVars, file, lags>>
      BY <1>2 DEF Crash
  <2>2. job' \in [Proc -> Job] /\ RefreshHolds(job'[p])
      BY <1>0, <2>1, IdleRefresh
  <2>3. crashes' \in 0..MaxCrashes
      BY <1>0, <1>2, BoundsAssumption DEF TypeOK, Crash
  <2>4. ASSUME NEW q \in Proc PROVE RefreshHolds(job[q])'
    <3>1. RefreshHolds(job'[q])
        BY <1>0, <2>1, <2>2 DEF TypeOK, Becomes
    <3> QED
        BY <2>1, <3>1 DEF RefreshHolds, Coherent, repoVars
  <2> QED
      BY <1>0, <2>1, <2>2, <2>3, <2>4
      DEF CacheInv, TypeOK, FileIsCoherent, Coherent, repoVars
<1>3. CASE Publish
  <2>1. PICK i \in Published : history' = Append(history, i)
      BY <1>3 DEF Publish
  <2>2. /\ history' \in Seq(Published)
        /\ DOMAIN history \subseteq DOMAIN history'
        /\ \A t \in DOMAIN history : history'[t] = history[t]
        /\ front' \in DOMAIN history'
      BY <1>0, <1>3, <2>1 DEF TypeOK, Publish
  <2>3. TypeOK'
      BY <1>0, <1>3, <2>2 DEF TypeOK, Publish
  <2>4. ASSUME NEW c, Coherent(c) PROVE Coherent(c)'
      BY <2>2, <2>4 DEF Coherent
  <2>5. FileIsCoherent'
      BY <1>3, <2>4 DEF CacheInv, FileIsCoherent, Publish
  <2>6. ASSUME NEW q \in Proc PROVE RefreshHolds(job[q])'
      BY <1>0, <1>3, <2>2, <2>4 DEF RefreshHolds, Publish
  <2> QED
      BY <2>3, <2>5, <2>6 DEF CacheInv
<1>4. CASE MirrorLags
  <2>1. lags' \in 0..MaxLags /\ front' \in DOMAIN history
      BY <1>0, <1>4, BoundsAssumption DEF TypeOK, MirrorLags
  <2> QED
      BY <1>0, <1>4, <2>1
      DEF CacheInv, TypeOK, FileIsCoherent, Coherent, RefreshHolds, MirrorLags
<1>5. CASE UNCHANGED vars
    BY <1>0, <1>5
    DEF CacheInv, TypeOK, FileIsCoherent, Coherent, RefreshHolds, vars, repoVars
<1> QED
    BY <1>1, <1>2, <1>3, <1>4, <1>5 DEF Next

LEMMA CacheInit ==
    ASSUME Init
    PROVE  CacheInv
<1>1. /\ history \in Seq(Published) /\ front \in DOMAIN history /\ file = NoFile
      /\ crashes \in 0..MaxCrashes /\ lags \in 0..MaxLags
      /\ \A p \in Proc : job[p] = Idle
    BY BoundsAssumption DEF Init
<1>2. Idle \in Job
  <2>1. NoIndex \in [{} -> Objects(Keys, Vals \cup {Null})]
      BY DEF NoIndex
  <2>2. NoIndex \in Payload
      BY <2>1 DEF Payload, Objects
  <2> QED
      BY <2>2 DEF Idle, Job, Label
<1>3. TypeOK
    BY <1>1, <1>2 DEF Init, TypeOK
<1>4. \A p \in Proc : RefreshHolds(job[p])
    BY <1>1, FileAssumption DEF RefreshHolds, Idle
<1> QED
    BY <1>1, <1>3, <1>4, FileAssumption DEF CacheInv, FileIsCoherent

LEMMA CacheInvariant == Spec => []CacheInv
<1>1. Init => CacheInv
    BY CacheInit
<1>2. CacheInv /\ [Next]_vars => CacheInv'
    BY CacheStep
<1> QED
    BY <1>1, <1>2, PTL DEF Spec

\* However many refreshes overlap, die or lose their file half written, and
\* whatever the mirrors answer, a cache file that can be read holds the tracked
\* packages exactly as the index of its timestamp publishes them.
THEOREM CoherentFile == Spec => []FileIsCoherent
<1>1. CacheInv => FileIsCoherent
    BY DEF CacheInv
<1> QED
    BY <1>1, CacheInvariant, PTL

-----------------------------------------------------------------------------
(* The refresh implements the abstract read.                               *)

ReadsOf == [p \in Proc |-> ReadOf(job[p])]

\* One process moves: the mapping changes at that process only.
LEMMA MappedStep ==
    ASSUME TypeOK, NEW p \in Proc, NEW j, Becomes(p, j)
    PROVE  ReadsOf' = [ReadsOf EXCEPT ![p] = ReadOf(j)]
BY DEF TypeOK, Becomes, ReadsOf, ReadOf, View, NoIndex

LEMMA AskedIsRead ==
    ASSUME NEW wanted \in SUBSET Pkgs, NEW t \in Nat
    PROVE  [wanted |-> wanted, timestamp |-> t, answered |-> FALSE, view |-> NoIndex]
               # NoRead
<1>1. NoIndex \in [{} -> Objects(Keys, Vals \cup {Null})]
    BY DEF NoIndex
<1>2. NoIndex \in Payload
    BY <1>1 DEF Payload, Objects
<1> HIDE DEF NoIndex
<1>3. [wanted |-> wanted, timestamp |-> t, answered |-> FALSE, view |-> NoIndex]
          \in [wanted : SUBSET Pkgs, timestamp : Nat, answered : BOOLEAN, view : Payload]
    BY <1>2
<1> QED
    BY <1>3, ReadAssumption

LEMMA ReadsInit ==
    ASSUME Init
    PROVE  Reads!Init
BY DEF Init, Reads!Init, Idle, ReadOf

LEMMA ReadsStep ==
    ASSUME CacheInv, CacheInv', [Next]_vars
    PROVE  [Reads!Next]_(Reads!vars)
<1> USE DEF Reads!vars, Reads!repoVars, repoVars
<1>0. TypeOK /\ \A q \in Proc : job[q] \in Job /\ RefreshHolds(job[q])
    BY DEF CacheInv, TypeOK
<1>a. \A n \in DOMAIN history : n \in Nat \ {0} /\ history[n] \in Index
    BY <1>0, HistoryTypes
<1>b. ASSUME NEW p \in Proc, NEW j, Becomes(p, j), UNCHANGED repoVars,
             ReadOf(j) = ReadOf(job[p])
      PROVE  UNCHANGED Reads!vars
    BY <1>0, <1>b, MappedStep DEF ReadsOf
<1>c. ASSUME NEW p \in Proc, NEW j, Becomes(p, j), UNCHANGED repoVars,
             j.pc \in {"cached", "decide"}, job[p].pc = "entry",
             j.wanted = job[p].wanted,
             front = IF j.pc = "cached" THEN j.cached.timestamp ELSE j.timestamp
      PROVE  Reads!Ask(p)
  <2>1. ReadOf(job[p]) = NoRead /\ ReadOf(j) = Reads!Asked(job[p].wanted, front)
      BY <1>c DEF ReadOf, Reads!Asked, NoIndex
  <2>2. job[p].wanted \in Wanted
      BY <1>0, <1>c DEF RefreshHolds
  <2> QED
      BY <1>0, <1>c, <2>1, <2>2, MappedStep DEF Reads!Ask, Reads!Becomes, ReadsOf
<1>d. ASSUME NEW p \in Proc, NEW j, Becomes(p, j), UNCHANGED repoVars,
             j.pc = "served", job[p].pc \in {"cached", "write"},
             j.wanted = job[p].wanted,
             j.timestamp = (IF job[p].pc = "cached" THEN job[p].cached.timestamp
                            ELSE job[p].timestamp),
             View(j.payload, j.wanted) = Project(history[j.timestamp], j.wanted)
      PROVE  Reads!Answer(p)
  <2> DEFINE r == ReadOf(job[p])
  <2>1. /\ r = [wanted |-> j.wanted, timestamp |-> j.timestamp, answered |-> FALSE,
                view |-> NoIndex]
        /\ ReadOf(j) = [wanted |-> j.wanted, timestamp |-> j.timestamp, answered |-> TRUE,
                        view |-> Project(history[j.timestamp], j.wanted)]
      BY <1>d DEF ReadOf
  <2>2. ReadsOf[p] = r
      BY DEF ReadsOf
  <2> HIDE DEF r
  <2>3. j.wanted \in SUBSET Pkgs /\ j.timestamp \in Nat
    <3>1. j.timestamp \in Nat
        BY <1>0, <1>a, <1>d DEF RefreshHolds, Coherent
    <3> QED
        BY <1>0, <1>d, <3>1 DEF Job
  <2>4. r # NoRead
      BY <2>1, <2>3, AskedIsRead
  <2>5. r.timestamp = j.timestamp /\ r.wanted = j.wanted /\ ~r.answered
      BY <2>1
  <2>6. Reads!Project(history[r.timestamp], r.wanted)
            = Project(history[j.timestamp], j.wanted)
      BY <2>5 DEF Reads!Project, Project, Reads!Restrict, Restrict
  <2>7. ReadOf(j) = Reads!Answered(r)
      BY <2>1, <2>5, <2>6 DEF Reads!Answered
  <2>8. ReadsOf' = [ReadsOf EXCEPT ![p] = Reads!Answered(ReadsOf[p])]
      BY <1>0, <1>d, <2>2, <2>7, MappedStep
  <2> QED
      BY <1>d, <2>2, <2>4, <2>5, <2>8 DEF Reads!Answer, Reads!Becomes, ReadsOf
<1>e. ASSUME NEW p \in Proc, Becomes(p, Idle), UNCHANGED repoVars
      PROVE  [Reads!Next]_(Reads!vars)
  <2>1. ReadOf(Idle) = NoRead
      BY DEF ReadOf, Idle
  <2>2. CASE ReadOf(job[p]) = NoRead
      BY <1>b, <1>e, <2>1, <2>2
  <2>3. CASE ReadOf(job[p]) # NoRead
      BY <1>0, <1>e, <2>1, <2>3, MappedStep
      DEF Reads!Next, Reads!Forget, Reads!Becomes, ReadsOf
  <2> QED
      BY <2>2, <2>3
<1>1. ASSUME NEW p \in Proc, RefreshStep(p)
      PROVE  [Reads!Next]_(Reads!vars)
  <2>0. job[p] \in Job /\ RefreshHolds(job[p])
      BY <1>0
  <2>1. CASE StartRefresh(p)
    <3>1. PICK wanted \in Wanted :
              Becomes(p, [Idle EXCEPT !.pc = "entry", !.wanted = wanted, !.cached = Load])
        BY <2>1 DEF StartRefresh
    <3> DEFINE j == [Idle EXCEPT !.pc = "entry", !.wanted = wanted, !.cached = Load]
    <3>2. ReadOf(j) = NoRead /\ ReadOf(job[p]) = NoRead
        BY <2>1 DEF ReadOf, Idle, StartRefresh, At
    <3> HIDE DEF j
    <3> QED
        BY <1>b, <2>1, <3>1, <3>2 DEF StartRefresh, j
  <2>2. CASE FetchEntry(p)
    <3>1. job[p].pc = "entry" /\ UNCHANGED repoVars
        BY <2>2 DEF FetchEntry, At
    <3>2. CASE Usable(job[p]) /\ job[p].cached.etag = front
      <4> DEFINE j == [job[p] EXCEPT !.pc = "cached"]
      <4>1. Becomes(p, j) /\ j.pc = "cached" /\ j.wanted = job[p].wanted
            /\ j.cached = job[p].cached
          BY <2>0, <2>2, <3>2 DEF FetchEntry, Job
      <4>2. job[p].cached.timestamp = front
          BY <1>0, <1>a, <2>0, <3>2 DEF RefreshHolds, Coherent, Usable, Job, TypeOK
      <4>3. Reads!Ask(p)
          BY <1>c, <3>1, <4>1, <4>2
      <4> QED
          BY <4>3 DEF Reads!Next
    <3>3. CASE ~(Usable(job[p]) /\ job[p].cached.etag = front)
      <4>1. PICK etag \in {0, front} :
                Becomes(p, [job[p] EXCEPT !.pc = "decide", !.timestamp = front, !.etag = etag])
          BY <2>2, <3>3 DEF FetchEntry
      <4> DEFINE j == [job[p] EXCEPT !.pc = "decide", !.timestamp = front, !.etag = etag]
      <4>2. j.pc = "decide" /\ j.wanted = job[p].wanted /\ j.timestamp = front
          BY <2>0 DEF Job
      <4>3. Reads!Ask(p)
          BY <1>c, <3>1, <4>1, <4>2
      <4> QED
          BY <4>3 DEF Reads!Next
    <3> QED
        BY <3>2, <3>3
  <2>3. CASE ServeUnchanged(p)
    <3> DEFINE j == [job[p] EXCEPT !.pc = "served", !.payload = job[p].cached.payload,
                                   !.timestamp = job[p].cached.timestamp,
                                   !.cached = NoFile]
    <3>1. /\ Becomes(p, j) /\ UNCHANGED repoVars /\ job[p].pc = "cached"
          /\ j.pc = "served" /\ j.wanted = job[p].wanted
          /\ j.timestamp = job[p].cached.timestamp
          /\ j.payload = job[p].cached.payload
        BY <2>0, <2>3 DEF ServeUnchanged, At, Job
    <3>2. View(j.payload, j.wanted) = Project(history[j.timestamp], j.wanted)
        BY <1>a, <2>0, <3>1, NarrowView DEF RefreshHolds, Coherent
    <3>3. Reads!Answer(p)
        BY <1>d, <3>1, <3>2
    <3> QED
        BY <3>3 DEF Reads!Next
  <2>4. CASE KeepPayload(p) \/ FetchDiff(p) \/ FetchIndex(p)
    <3>1. PICK payload : Answers(p, "truncate", payload)
        BY <2>4 DEF KeepPayload, FetchDiff, FetchIndex
    <3> DEFINE j == [job[p] EXCEPT !.pc = "truncate", !.payload = payload, !.cached = NoFile]
    <3>2. Becomes(p, j) /\ job[p].pc = "decide" /\ UNCHANGED repoVars
        BY <2>4, <3>1 DEF Answers, KeepPayload, FetchDiff, FetchIndex, At
    <3>3. j.pc = "truncate" /\ j.wanted = job[p].wanted /\ j.timestamp = job[p].timestamp
        BY <2>0 DEF Job
    <3>4. ReadOf(j) = ReadOf(job[p])
        BY <3>2, <3>3 DEF ReadOf
    <3> QED
        BY <1>b, <3>2, <3>4
  <2>5. CASE RejectFile(p) \/ EndRefresh(p)
      BY <1>e, <2>5 DEF RejectFile, EndRefresh
  <2>6. CASE TruncateFile(p)
    <3> DEFINE j == [job[p] EXCEPT !.pc = "write"]
    <3>1. Becomes(p, j) /\ job[p].pc = "truncate" /\ UNCHANGED repoVars
        BY <2>6 DEF TruncateFile, At
    <3>2. j.pc = "write" /\ j.wanted = job[p].wanted /\ j.timestamp = job[p].timestamp
        BY <2>0 DEF Job
    <3>3. ReadOf(j) = ReadOf(job[p])
        BY <3>1, <3>2 DEF ReadOf
    <3> QED
        BY <1>b, <3>1, <3>3
  <2>7. CASE WriteFile(p)
    <3> DEFINE j == [job[p] EXCEPT !.pc = "served"]
    <3>1. /\ Becomes(p, j) /\ UNCHANGED repoVars /\ job[p].pc = "write"
          /\ j.pc = "served" /\ j.wanted = job[p].wanted
          /\ j.timestamp = job[p].timestamp /\ j.payload = job[p].payload
        BY <2>0, <2>7 DEF WriteFile, At, Job
    <3>2. Reads!Answer(p)
        BY <1>d, <2>0, <3>1 DEF RefreshHolds
    <3> QED
        BY <3>2 DEF Reads!Next
  <2> QED
      BY <1>1, <2>1, <2>2, <2>3, <2>4, <2>5, <2>6, <2>7 DEF RefreshStep
<1>2. ASSUME NEW p \in Proc, Crash(p)
      PROVE  [Reads!Next]_(Reads!vars)
    BY <1>e, <1>2 DEF Crash
<1>3. CASE Publish
    BY <1>3 DEF Publish, Reads!Publish, Reads!Next
<1>4. CASE MirrorLags
    BY <1>4 DEF MirrorLags, Reads!MirrorLags, Reads!Next
<1>5. CASE UNCHANGED vars
    BY <1>5 DEF vars
<1> QED
    BY <1>1, <1>2, <1>3, <1>4, <1>5 DEF Next

\* The file, the history and the jobs keep their types, for any number of
\* processes, packages and indexes.
THEOREM CacheTypes == Spec => []TypeOK
<1>1. CacheInv => TypeOK
    BY DEF CacheInv
<1> QED
    BY <1>1, CacheInvariant, PTL

\* Every refresh answers the packages it was asked for as published in the index
\* entry.json described when it asked: conditional requests, diffs, the cache file
\* and its overlapping writers cannot be told from a direct, whole download.
THEOREM RefreshImplementsRead == Spec => ImplementsReads
<1>1. Init => Reads!Init
    BY ReadsInit
<1>2. CacheInv /\ CacheInv' /\ [Next]_vars => [Reads!Next]_(Reads!vars)
    BY ReadsStep
<1> QED
    BY <1>1, <1>2, CacheInvariant, PTL DEF Spec, Reads!Spec, ImplementsReads

=============================================================================
