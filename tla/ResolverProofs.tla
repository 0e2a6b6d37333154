--------------------------- MODULE ResolverProofs ---------------------------
(***************************************************************************)
(* Lemmas about the operators of Resolver, for any catalog: what is        *)
(* retained, what is best, what a candidate holds.                         *)
(***************************************************************************)
EXTENDS Resolver, FiniteSetTheorems, FunctionTheorems, SequenceTheorems, TLAPS

-----------------------------------------------------------------------------
(* Finite sets of numbers.  There is no induction over an operator here:   *)
(* a counterexample would have a smallest one.                             *)

\* Of the subsets of a finite set in some family, one has no proper subset in it.
LEMMA SmallestSubset ==
    \A S : IsFiniteSet(S) =>
        \A F : (\A T \in F : T \subseteq S) /\ F # {}
                  => \E T \in F : \A U \in F : U \subseteq T => U = T
<1> SUFFICES ASSUME NEW S, IsFiniteSet(S), NEW F, \A T \in F : T \subseteq S, F # {}
             PROVE  \E T \in F : \A U \in F : U \subseteq T => U = T
    OBVIOUS
<1>1. IsWellFoundedOn(StrictSubsetOrdering(S), SUBSET S)
    BY FS_StrictSubsetOrderingWellFounded, FS_FiniteSubsetsOfFinite
<1>2. PICK T \in F : \A U \in F : ~(<<U, T>> \in StrictSubsetOrdering(S))
    BY <1>1, WFMin
<1>3. \A U \in F : U \subseteq T => U = T
    BY <1>2 DEF StrictSubsetOrdering
<1> QED
    BY <1>3

\* A non-empty set of numbers has a smallest one.
LEMMA SmallestNumber ==
    ASSUME NEW S \in SUBSET Nat, S # {}
    PROVE  \E n \in S : \A m \in S : n <= m
<1>1. IsWellFoundedOn(OpToRel(<, Nat), Nat)
    BY NatLessThanWellFounded
<1>2. PICK n \in S : \A m \in S : ~(<<m, n>> \in OpToRel(<, Nat))
    BY <1>1, WFMin
<1>3. \A m \in S : ~(m < n)
    BY <1>2 DEF OpToRel
<1> QED
    BY <1>3

\* A non-empty finite set of numbers has a largest one.
LEMMA LargestNumber ==
    ASSUME NEW S \in SUBSET Nat, S # {}, IsFiniteSet(S)
    PROVE  \E n \in S : \A m \in S : m <= n
<1> DEFINE F == {T \in SUBSET S : T # {} /\ \A n \in T : \E m \in T : n < m}
<1>1. SUFFICES ASSUME S \in F PROVE FALSE
    BY <1>1
<1>2. PICK T \in F : \A U \in F : U \subseteq T => U = T
  <2>1. (\A T \in F : T \subseteq S) /\ F # {}
      BY <1>1
  <2> HIDE DEF F
  <2> QED
      BY <2>1, SmallestSubset
<1>3. PICK x \in T : TRUE
    OBVIOUS
<1>4. T \ {x} \notin F /\ T \subseteq Nat
    BY <1>2, <1>3
<1>5. CASE T \ {x} = {}
    BY <1>3, <1>4, <1>5
<1>6. CASE T \ {x} # {}
  <2>1. PICK n \in T \ {x} : \A m \in T \ {x} : ~(n < m)
      BY <1>4, <1>6
  <2>2. (\A m \in T : ~(n < m)) \/ (\A m \in T : ~(x < m))
      BY <2>1, <1>3, <1>4
  <2> QED
      BY <2>1, <2>2, <1>3
<1> QED
    BY <1>5, <1>6

\* A function on 1..k is a sequence of that length.
LEMMA LenDomain ==
    ASSUME NEW T, NEW k \in Nat, NEW s \in [1..k -> T]
    PROVE  s \in Seq(T) /\ Len(s) = k /\ DOMAIN s = 1..k
<1> QED
    OBVIOUS

Ascends(f, S) ==
    /\ f \in [1..Cardinality(S) -> S]
    /\ \A i, j \in 1..Cardinality(S) : i < j => f[i] < f[j]

\* Ascending names something.
LEMMA AscendingExists ==
    ASSUME NEW S \in SUBSET Nat, IsFiniteSet(S)
    PROVE  Ascends(Ascending(S), S)
<1> DEFINE F == {T \in SUBSET S : \A f : ~Ascends(f, T)}
<1>1. SUFFICES ASSUME S \in F PROVE FALSE
  <2>1. PICK f : Ascends(f, S)
      BY <1>1
  <2>2. f \in [1..Cardinality(S) -> S] /\ \A i, j \in DOMAIN f : i < j => f[i] < f[j]
      BY <2>1 DEF Ascends
  <2> QED
      BY <2>2 DEF Ascending, Ascends
<1>2. PICK T \in F : \A U \in F : U \subseteq T => U = T
  <2>1. (\A T \in F : T \subseteq S) /\ F # {}
      BY <1>1
  <2> HIDE DEF F
  <2> QED
      BY <2>1, SmallestSubset
<1>3. T \subseteq Nat /\ IsFiniteSet(T)
    BY FS_Subset
<1>4. T # {}
  <2>1. Ascends([i \in {} |-> 0], {})
      BY FS_EmptySet DEF Ascends
  <2> QED
      BY <2>1
<1>5. PICK m \in T : \A n \in T : n <= m
    BY <1>3, <1>4, LargestNumber
<1> DEFINE U == T \ {m}
           k == Cardinality(T)
<1>6. IsFiniteSet(U) /\ Cardinality(U) = k - 1 /\ k \in Nat
    BY <1>3, <1>5, FS_RemoveElement, FS_CardinalityType
<1>7. PICK f : Ascends(f, U)
    BY <1>2, <1>5
<1>8. Cardinality(U) \in Nat
    BY <1>6, FS_CardinalityType
<1> DEFINE g == [i \in 1..k |-> IF i = k THEN m ELSE f[i]]
<1>9. Ascends(g, T)
  <2>1. /\ f \in [1..(k-1) -> U]
        /\ \A i, j \in 1..(k-1) : i < j => f[i] < f[j]
      BY <1>6, <1>7 DEF Ascends
  <2>2. \A n \in U : n < m
      BY <1>3, <1>5
  <2>3. k \in Nat \ {0}
      BY <1>6, <1>8
  <2> HIDE DEF k
  <2>4. g \in [1..k -> T]
      BY <2>1, <2>3, <1>5
  <2>5. \A i, j \in 1..k : i < j => g[i] < g[j]
    <3> SUFFICES ASSUME NEW i \in 1..k, NEW j \in 1..k, i < j PROVE g[i] < g[j]
        OBVIOUS
    <3>1. i \in 1..(k-1) /\ g[i] = f[i] /\ f[i] \in U
        BY <2>1, <2>3
    <3>2. CASE j = k
        BY <2>2, <3>1, <3>2
    <3>3. CASE j # k
      <4>1. j \in 1..(k-1) /\ g[j] = f[j]
          BY <2>3, <3>3
      <4> QED
          BY <2>1, <3>1, <4>1
    <3> QED
        BY <3>2, <3>3
  <2> QED
      BY <2>4, <2>5 DEF Ascends, k
<1> QED
    BY <1>9

\* A sequence that goes up through a set has each of its members once.
LEMMA AscendingReaches ==
    ASSUME NEW S \in SUBSET Nat, IsFiniteSet(S), NEW f, Ascends(f, S)
    PROVE  /\ Cardinality(S) \in Nat
           /\ \A i, j \in 1..Cardinality(S) : f[i] = f[j] => i = j
           /\ \A s \in S : \E i \in 1..Cardinality(S) : f[i] = s
<1> DEFINE n == Cardinality(S)
<1>1. n \in Nat
    BY FS_CardinalityType
<1>2. /\ f \in [1..n -> S]
      /\ \A i, j \in 1..n : i < j => f[i] < f[j]
    BY DEF Ascends
<1>3. \A i, j \in 1..n : f[i] = f[j] => i = j
  <2> SUFFICES ASSUME NEW i \in 1..n, NEW j \in 1..n, f[i] = f[j], i # j PROVE FALSE
      OBVIOUS
  <2>1. f[i] \in Nat /\ f[j] \in Nat
      BY <1>2
  <2>2. f[i] < f[j] \/ f[j] < f[i]
      BY <1>1, <1>2
  <2> QED
      BY <2>1, <2>2
<1>4. f \in Injection(1..n, S)
    BY <1>2, <1>3, Fun_IsInj
<1>5. Cardinality(1..n) = n
    BY <1>1, FS_Interval
<1>6. f \in Surjection(1..n, S)
    BY <1>4, <1>5, FS_Injection
<1>7. \A s \in S : \E i \in 1..n : f[i] = s
  <2> HIDE DEF n
  <2> QED
      BY <1>6 DEF Surjection
<1> QED
    BY <1>1, <1>3, <1>7

\* The numbers below a bound come first, in the order they have by themselves.
LEMMA AscendingPrefix ==
    ASSUME NEW S \in SUBSET Nat, IsFiniteSet(S), NEW T \in SUBSET S,
           \A t \in T, s \in S \ T : t < s
    PROVE  /\ Cardinality(T) <= Cardinality(S)
           /\ \A i \in 1..Cardinality(T) : Ascending(S)[i] = Ascending(T)[i]
<1> DEFINE f == Ascending(S)
           h == Ascending(T)
           n == Cardinality(S)
           k == Cardinality(T)
<1>1. IsFiniteSet(T) /\ T \subseteq Nat /\ k <= n
    BY FS_Subset
<1>2. Ascends(f, S) /\ Ascends(h, T)
    BY <1>1, AscendingExists
<1>3. /\ f \in [1..n -> S] /\ h \in [1..k -> T]
      /\ \A i, j \in 1..n : i < j => f[i] < f[j]
      /\ \A i, j \in 1..k : i < j => h[i] < h[j]
    BY <1>2 DEF Ascends
<1>4. /\ n \in Nat /\ \A i, j \in 1..n : f[i] = f[j] => i = j
      /\ \A s \in S : \E i \in 1..n : f[i] = s
    BY <1>2, AscendingReaches
<1>5. /\ k \in Nat /\ \A i, j \in 1..k : h[i] = h[j] => i = j
      /\ \A t \in T : \E i \in 1..k : h[i] = t
    BY <1>1, <1>2, AscendingReaches
<1> HIDE DEF f, h, n, k
<1>6. \A i \in 1..k : f[i] = h[i]
  <2> DEFINE Bad == {i \in 1..k : f[i] # h[i]}
  <2> SUFFICES ASSUME Bad # {} PROVE FALSE
      OBVIOUS
  <2>1. PICK i \in Bad : \A j \in Bad : i <= j
    <3>1. Bad \in SUBSET Nat
        BY <1>5
    <3> HIDE DEF Bad
    <3> QED
        BY <3>1, SmallestNumber
  <2>2. \A j \in 1..k : j < i => f[j] = h[j]
      BY <2>1, <1>5
  <2>3. i \in 1..k /\ i \in 1..n /\ f[i] # h[i] /\ f[i] \in S /\ h[i] \in T
      BY <1>1, <1>3, <1>4, <1>5
  <2>4. PICK j \in 1..n : f[j] = h[i]
      BY <1>4, <2>3
  <2>5. i < j
    <3>1. ~(j < i)
      <4> SUFFICES ASSUME j < i PROVE FALSE
          OBVIOUS
      <4>1. j \in 1..k /\ f[j] = h[j]
          BY <2>2, <2>3, <1>5
      <4> QED
          BY <4>1, <2>4, <2>3, <1>5
    <3> QED
        BY <3>1, <2>3, <2>4
  <2>6. f[i] < h[i]
      BY <2>3, <2>4, <2>5, <1>3
  <2>7. f[i] \in T
    <3>1. f[i] \in Nat /\ h[i] \in Nat
        BY <2>3, <1>1
    <3> QED
        BY <2>3, <2>6, <3>1
  <2>8. PICK m \in 1..k : h[m] = f[i]
      BY <2>7, <1>5
  <2>9. m < i
    <3>1. h[m] < h[i] /\ h[m] \in Nat /\ h[i] \in Nat
        BY <2>6, <2>8, <2>3, <1>1
    <3>2. ~(i < m)
        BY <3>1, <1>3, <2>3
    <3>3. i # m
        BY <3>1
    <3> QED
        BY <3>2, <3>3, <2>3
  <2>10. f[m] = h[m] /\ m \in 1..n
      BY <2>2, <2>9, <1>1, <1>4, <1>5
  <2> QED
      BY <2>8, <2>9, <2>10, <2>3, <1>4
<1> QED
    BY <1>1, <1>6 DEF f, h, n, k

-----------------------------------------------------------------------------
(* The targets retained.                                                   *)

\* The places that are served are finitely many.
LEMMA ServedPlaces ==
    ASSUME NEW usable, NEW targets \in Seq(Abi)
    PROVE  LET S == Served(usable, targets)
           IN  /\ S \in SUBSET Nat /\ IsFiniteSet(S) /\ S \subseteq 1..Len(targets)
               /\ Cardinality(S) \in Nat
               /\ Ascends(Ascending(S), S)
<1> DEFINE S == Served(usable, targets)
<1>1. S \subseteq 1..Len(targets) /\ Len(targets) \in Nat
    BY DEF Served
<1>2. IsFiniteSet(1..Len(targets))
    BY <1>1, FS_Interval
<1>3. IsFiniteSet(S) /\ S \in SUBSET Nat
    BY <1>1, <1>2, FS_Subset
<1>4. Ascends(Ascending(S), S) /\ Cardinality(S) \in Nat
    BY <1>3, AscendingExists, FS_CardinalityType
<1> QED
    BY <1>1, <1>3, <1>4

\* What is retained: the targets that are served, in their order.
LEMMA RetainedTargets ==
    ASSUME NEW usable, NEW targets \in Seq(Abi)
    PROVE  LET S == Served(usable, targets)
               abis == Retained(usable, targets)
           IN  /\ abis \in Seq(Abi)
               /\ Len(abis) = Cardinality(S) /\ DOMAIN abis = 1..Cardinality(S)
               /\ \A n \in 1..Cardinality(S) :
                     /\ Ascending(S)[n] \in S
                     /\ abis[n] = targets[Ascending(S)[n]]
                     /\ \E v \in usable : Supports(v, abis[n])
<1> DEFINE S == Served(usable, targets)
           abis == Retained(usable, targets)
           f == Ascending(S)
           k == Cardinality(S)
<1>1. k \in Nat /\ f \in [1..k -> S] /\ S \subseteq 1..Len(targets)
    BY ServedPlaces DEF Ascends
<1>2. abis = [n \in 1..k |-> targets[f[n]]]
    BY <1>1 DEF Retained
<1>3. \A i \in S : targets[i] \in Abi /\ \E v \in usable : Supports(v, targets[i])
    BY DEF Served
<1> HIDE DEF S, abis, f, k
<1>4. \A n \in 1..k : f[n] \in S /\ abis[n] = targets[f[n]] /\ abis[n] \in Abi
    BY <1>1, <1>2, <1>3
<1>5. abis \in [1..k -> Abi]
    BY <1>2, <1>4
<1>6. abis \in Seq(Abi) /\ Len(abis) = k /\ DOMAIN abis = 1..k
    BY <1>1, <1>5, LenDomain
<1> QED
    BY <1>3, <1>4, <1>6 DEF S, abis, f, k

-----------------------------------------------------------------------------
(* The best version.                                                       *)

Better(v, w) == Code(w) < Code(v) \/ (Code(w) = Code(v) /\ v <= w)

\* Versions are finitely many numbers, with codes.
LEMMA VersionTypes ==
    /\ IsFiniteSet(Versions) /\ Versions \subseteq Nat
    /\ \A v \in Versions : Catalog[v] \in Version /\ Code(v) \in Nat \ {0}
<1>1. Versions = 1..Len(Catalog) /\ Len(Catalog) \in Nat
    BY CatalogAssumption DEF Versions
<1>2. IsFiniteSet(1..Len(Catalog))
    BY <1>1, FS_Interval
<1>3. \A v \in Versions : Catalog[v] \in Version
    BY CatalogAssumption DEF Versions
<1>4. \A v \in Versions : Code(v) \in Nat \ {0}
    BY <1>3 DEF Code, Version
<1> QED
    BY <1>1, <1>2, <1>3, <1>4

\* Best names something: the newest version that supports the ABI.
LEMMA BestVersion ==
    ASSUME NEW vs \in SUBSET Versions, NEW abi, \E v \in vs : Supports(v, abi)
    PROVE  LET b == Best(vs, abi)
           IN  /\ b \in vs /\ Supports(b, abi)
               /\ \A w \in vs : Supports(w, abi) => Better(b, w)
               /\ \A w \in vs : Supports(w, abi) => Code(w) <= Code(b)
<1> DEFINE S == {v \in vs : Supports(v, abi)}
           F == {T \in SUBSET S : T # {} /\ \A v \in T : \E w \in T : ~Better(v, w)}
<1>0. /\ \A v \in vs : v \in Nat /\ Code(v) \in Nat
      /\ IsFiniteSet(S) /\ S # {}
  <2>1. IsFiniteSet(S)
      BY VersionTypes, FS_Subset
  <2> QED
      BY <2>1, VersionTypes
<1>1. S \notin F
  <2>1. SUFFICES ASSUME S \in F PROVE FALSE
      BY <2>1
  <2>2. PICK T \in F : \A U \in F : U \subseteq T => U = T
    <3>1. (\A T \in F : T \subseteq S) /\ F # {} /\ IsFiniteSet(S)
        BY <1>0, <2>1
    <3> HIDE DEF F, S
    <3> QED
        BY <3>1, SmallestSubset
  <2>3. PICK x \in T : TRUE
      OBVIOUS
  <2>4. T \ {x} \notin F /\ T \subseteq S
      BY <2>2, <2>3
  <2>5. \A v \in T : v \in Nat /\ Code(v) \in Nat
      BY <1>0, <2>4
  <2>6. CASE T \ {x} = {}
      BY <2>3, <2>5, <2>6 DEF Better
  <2>7. CASE T \ {x} # {}
    <3>1. PICK v \in T \ {x} : \A w \in T \ {x} : Better(v, w)
        BY <2>4, <2>7
    <3>2. (\A w \in T : Better(v, w)) \/ (\A w \in T : Better(x, w))
        BY <3>1, <2>3, <2>5 DEF Better
    <3> QED
        BY <3>1, <3>2, <2>3
  <2> QED
      BY <2>6, <2>7
<1>2. PICK b \in S : \A w \in S : Better(b, w)
    BY <1>0, <1>1
<1>3. /\ b \in vs /\ Supports(b, abi)
      /\ \A w \in vs : Supports(w, abi) =>
             Code(w) < Code(b) \/ (Code(w) = Code(b) /\ b <= w)
    BY <1>2 DEF Better
<1>4. LET c == Best(vs, abi)
      IN  /\ c \in vs /\ Supports(c, abi)
          /\ \A w \in vs : Supports(w, abi) =>
                 Code(w) < Code(c) \/ (Code(w) = Code(c) /\ c <= w)
    BY <1>3 DEF Best
<1> QED
    BY <1>0, <1>4 DEF Better

-----------------------------------------------------------------------------
(* The candidate.                                                          *)

\* What is usable is a version with a signer.
LEMMA UsableVersions ==
    ASSUME NEW offered \in SUBSET Versions
    PROVE  /\ UsableOf(offered) \in SUBSET Versions
           /\ \A v \in UsableOf(offered) : Catalog[v].signer \in Signer
<1>1. \A v \in Versions : Catalog[v].signer \in Signer \cup {NoSigner}
    BY VersionTypes DEF Version
<1> QED
    BY <1>1 DEF UsableOf, Usable

\* One artefact for each target that is served: the best version for it.
LEMMA ArtifactList ==
    ASSUME NEW usable \in SUBSET Versions, NEW targets \in Seq(Abi)
    PROVE  LET as == Artifacts(usable, targets)
               abis == Retained(usable, targets)
           IN  /\ as \in Seq(Artifact)
               /\ Len(as) = Len(abis) /\ Len(as) \in Nat
               /\ DOMAIN as = 1..Len(as)
               /\ \A n \in 1..Len(as) :
                     /\ as[n].abi = abis[n] /\ as[n].version = Best(usable, abis[n])
                     /\ as[n].abi \in Abi /\ as[n].version \in usable
<1> DEFINE as == Artifacts(usable, targets)
           abis == Retained(usable, targets)
           k == Len(abis)
<1>1. /\ abis \in Seq(Abi) /\ DOMAIN abis = 1..k /\ k \in Nat
      /\ \A n \in 1..k : abis[n] \in Abi /\ Best(usable, abis[n]) \in usable
  <2>1. /\ abis \in Seq(Abi) /\ DOMAIN abis = 1..k /\ k = Cardinality(Served(usable, targets))
        /\ \A n \in 1..k : \E v \in usable : Supports(v, abis[n])
      BY RetainedTargets
  <2> HIDE DEF abis, k
  <2>2. \A n \in 1..k : abis[n] \in Abi
      BY <2>1 DEF k
  <2>3. \A n \in 1..k : Best(usable, abis[n]) \in usable
      BY <2>1, BestVersion
  <2>4. k \in Nat
      BY <2>1, ServedPlaces
  <2> QED
      BY <2>1, <2>2, <2>3, <2>4
<1>2. as = [n \in 1..k |-> [abi |-> abis[n], version |-> Best(usable, abis[n])]]
    BY <1>1 DEF Artifacts
<1> HIDE DEF as, abis, k
<1>3. \A n \in 1..k : /\ as[n].abi = abis[n] /\ as[n].version = Best(usable, abis[n])
                      /\ as[n] \in Artifact
    BY <1>1, <1>2 DEF Artifact
<1>4. as \in [1..k -> Artifact]
    BY <1>2, <1>3
<1>5. as \in Seq(Artifact) /\ Len(as) = k /\ DOMAIN as = 1..k
    BY <1>1, <1>4, LenDomain
<1> QED
    BY <1>1, <1>3, <1>5 DEF as, abis, k

\* Only the empty sequence has no length.
LEMMA EmptySequence ==
    ASSUME NEW T, NEW s \in Seq(T)
    PROVE  s = <<>> <=> Len(s) = 0
<1> QED
    BY EmptySeq, LenProperties

\* A candidate is marked with the version of its first artefact.
LEMMA ResolvedCandidate ==
    ASSUME NEW offered \in SUBSET Versions, NEW targets \in Seq(Abi)
    PROVE  LET c == Resolve(offered, targets)
               as == Artifacts(UsableOf(offered), targets)
           IN  /\ c \in Candidate /\ c.artifacts = as
               /\ c = NoCandidate <=> Len(as) = 0
               /\ c.code > 0 => Len(as) > 0
               /\ Len(as) > 0 =>
                     /\ c.code = Code(as[1].version)
                     /\ c.signer = Catalog[as[1].version].signer
                     /\ c.split = AbiSpecific(as[1].version)
<1> DEFINE c == Resolve(offered, targets)
           as == Artifacts(UsableOf(offered), targets)
<1>1. /\ as \in Seq(Artifact) /\ Len(as) \in Nat
      /\ \A n \in 1..Len(as) : as[n].version \in UsableOf(offered)
    BY UsableVersions, ArtifactList
<1>2. c = IF as = <<>> THEN NoCandidate ELSE CandidateOf(as[1].version, as)
    BY DEF Resolve
<1> HIDE DEF c, as
<1>3. as = <<>> <=> Len(as) = 0
    BY <1>1, EmptySequence
<1>4. CASE Len(as) = 0
  <2>1. NoCandidate \in Candidate /\ NoCandidate.artifacts = <<>> /\ NoCandidate.code = 0
    <3>1. <<>> \in Seq(Artifact)
        OBVIOUS
    <3> QED
        BY <3>1 DEF NoCandidate, Candidate
  <2> QED
      BY <1>2, <1>3, <1>4, <2>1 DEF c, as
<1>5. CASE Len(as) # 0
  <2> DEFINE v == as[1].version
             d == CandidateOf(v, as)
  <2>0. v \in UsableOf(offered)
    <3>1. \A k \in Nat : k # 0 => 1 \in 1..k
        OBVIOUS
    <3>2. \A n \in 1..Len(as) : as[n].version \in UsableOf(offered)
        BY <1>1
    <3> QED
        BY <1>1, <1>5, <3>1, <3>2, Zenon
  <2>2. AbiSpecific(v) \in BOOLEAN
      BY DEF AbiSpecific
  <2> HIDE DEF v
  <2>1. Code(v) \in Nat \ {0} /\ Catalog[v].signer \in Signer
      BY <2>0, UsableVersions, VersionTypes
  <2>3. /\ d \in Candidate /\ d.artifacts = as /\ d.code = Code(v)
        /\ d.signer = Catalog[v].signer /\ d.split = AbiSpecific(v)
      BY <1>1, <2>1, <2>2 DEF CandidateOf, Candidate
  <2>4. d.code # NoCandidate.code
      BY <2>1, <2>3 DEF NoCandidate
  <2>5. c = d
      BY <1>2, <1>3, <1>5 DEF v
  <2> QED
      BY <1>1, <1>5, <2>3, <2>4, <2>5 DEF c, as, v
<1> QED
    BY <1>4, <1>5

\* Targets added behind those there are only add artefacts behind theirs.
LEMMA WidenedArtifacts ==
    ASSUME NEW usable \in SUBSET Versions, NEW longer \in Seq(Abi), NEW targets \in Seq(Abi),
           Len(longer) > Len(targets), SubSeq(longer, 1, Len(targets)) = targets
    PROVE  LET as == Artifacts(usable, targets)
               bs == Artifacts(usable, longer)
           IN  Len(as) <= Len(bs) /\ \A n \in 1..Len(as) : as[n] = bs[n]
<1> DEFINE as == Artifacts(usable, targets)
           bs == Artifacts(usable, longer)
           T == Served(usable, targets)
           S == Served(usable, longer)
<1>1. \A i \in 1..Len(targets) : longer[i] = targets[i]
  <2>1. \A i \in 1..Len(targets) : SubSeq(longer, 1, Len(targets))[i] = longer[i]
      OBVIOUS
  <2> QED
      BY <2>1
<1>2. /\ T \in SUBSET S /\ S \in SUBSET Nat /\ IsFiniteSet(S)
      /\ \A t \in T, s \in S \ T : t < s
      /\ \A t \in T : longer[t] = targets[t]
  <2>1. DOMAIN longer = 1..Len(longer) /\ DOMAIN targets = 1..Len(targets)
      OBVIOUS
  <2>2. S = {i \in 1..Len(longer) : \E v \in usable : Supports(v, longer[i])}
      BY <2>1 DEF Served
  <2>3. T = {i \in 1..Len(targets) : \E v \in usable : Supports(v, targets[i])}
      BY <2>1 DEF Served
  <2>4. Len(targets) \in Nat /\ Len(longer) \in Nat
      OBVIOUS
  <2>5. S \in SUBSET Nat /\ IsFiniteSet(S)
      BY ServedPlaces
  <2> HIDE DEF S, T
  <2>6. T \in SUBSET S /\ \A t \in T : t \in 1..Len(targets)
      BY <1>1, <2>2, <2>3, <2>4
  <2>7. \A s \in S \ T : s \in Nat /\ s > Len(targets)
      BY <1>1, <2>2, <2>3, <2>4
  <2> QED
      BY <1>1, <2>4, <2>5, <2>6, <2>7
<1>3. /\ Cardinality(T) <= Cardinality(S)
      /\ \A n \in 1..Cardinality(T) : Ascending(S)[n] = Ascending(T)[n]
    BY <1>2, AscendingPrefix
<1>4. \A n \in 1..Cardinality(T) : Ascending(T)[n] \in T
    BY RetainedTargets
<1>5. Cardinality(T) \in Nat /\ Cardinality(S) \in Nat
    BY ServedPlaces
<1>6. \A n \in 1..Cardinality(T) : Retained(usable, longer)[n] = Retained(usable, targets)[n]
  <2>1. /\ \A n \in 1..Cardinality(T) : Retained(usable, targets)[n] = targets[Ascending(T)[n]]
        /\ \A n \in 1..Cardinality(S) : Retained(usable, longer)[n] = longer[Ascending(S)[n]]
      BY RetainedTargets
  <2> HIDE DEF S, T
  <2>2. ASSUME NEW n \in 1..Cardinality(T)
        PROVE  Retained(usable, longer)[n] = Retained(usable, targets)[n]
    <3>1. n \in 1..Cardinality(S)
        BY <1>3, <1>5
    <3>2. Ascending(S)[n] = Ascending(T)[n] /\ longer[Ascending(T)[n]] = targets[Ascending(T)[n]]
        BY <1>2, <1>3, <1>4
    <3> QED
        BY <2>1, <3>1, <3>2
  <2> QED
      BY <2>2
<1>7. Len(as) = Cardinality(T) /\ Len(bs) = Cardinality(S)
    BY ArtifactList, RetainedTargets
<1> DEFINE of(abi) == [abi |-> abi, version |-> Best(usable, abi)]
<1>8. /\ \A n \in 1..Len(as) : as[n] = of(Retained(usable, targets)[n])
      /\ \A n \in 1..Len(bs) : bs[n] = of(Retained(usable, longer)[n])
    BY <1>7, RetainedTargets DEF Artifacts
<1> HIDE DEF as, bs, S, T, of
<1>9. \A n \in 1..Len(as) : n \in 1..Len(bs)
    BY <1>3, <1>5, <1>7
<1>10. \A n \in 1..Len(as) : as[n] = bs[n]
    BY <1>6, <1>7, <1>8, <1>9
<1> QED
    BY <1>3, <1>7, <1>10 DEF as, bs

\* Every artefact but the n-th is that of another target than the i-th.
OthersServeOthers(artifacts, ts, i, n) ==
    \A m \in 1..Len(artifacts) \ {n} : \E j \in DOMAIN ts \ {i} : artifacts[m].abi = ts[j]

\* The artefact of a target that is served, and no other target's.
LEMMA TargetServed ==
    ASSUME NEW usable \in SUBSET Versions, NEW targets \in Seq(Abi), NEW i \in DOMAIN targets,
           \E v \in usable : Supports(v, targets[i])
    PROVE  LET as == Artifacts(usable, targets)
           IN  \E n \in 1..Len(as) :
                  /\ as[n].abi = targets[i] /\ as[n].version = Best(usable, targets[i])
                  /\ OthersServeOthers(as, targets, i, n)
<1> DEFINE as == Artifacts(usable, targets)
           S == Served(usable, targets)
           f == Ascending(S)
           k == Cardinality(S)
<1>1. i \in S /\ S \subseteq DOMAIN targets
    BY DEF Served
<1>2. /\ k \in Nat
      /\ \A m, n \in 1..k : f[m] = f[n] => m = n
      /\ \A s \in S : \E n \in 1..k : f[n] = s
    BY ServedPlaces, AscendingReaches
<1>3. /\ Len(as) = k
      /\ \A n \in 1..k : /\ f[n] \in S /\ as[n].abi = targets[f[n]]
                          /\ as[n].version = Best(usable, targets[f[n]])
    BY ArtifactList, RetainedTargets
<1> HIDE DEF as, S, f, k
<1>4. PICK n \in 1..k : f[n] = i
    BY <1>1, <1>2
<1>5. \A m \in 1..k \ {n} : f[m] \in DOMAIN targets \ {i} /\ as[m].abi = targets[f[m]]
    BY <1>1, <1>2, <1>3, <1>4
<1> QED
    BY <1>3, <1>4, <1>5 DEF as, OthersServeOthers

=============================================================================
