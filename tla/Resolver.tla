------------------------------ MODULE Resolver ------------------------------
(***************************************************************************)
(* From the versions an index offers to the one version to publish: a      *)
(* group of APKs, one for each target ABI, then the fields of Headwind     *)
(* they go to.                                                             *)
(***************************************************************************)
EXTENDS Naturals, Sequences, FiniteSets

CONSTANTS
    Abi,        \* ABIs an APK or packages.yaml may name
    Signer,     \* signing keys
    NoSigner,   \* none in the manifest, or several
    Catalog     \* every version there may be, in the order an index lists them

\* native: nativecode, unless universal says there is none.
Version == [code : Nat \ {0}, universal : BOOLEAN, native : SUBSET Abi,
            signer : Signer \cup {NoSigner},
            channel : {"stable", "prerelease"}, blocked : BOOLEAN]

ASSUME CatalogAssumption == Catalog \in Seq(Version)
ASSUME NoSignerAssumption == NoSigner \notin Signer

Versions == DOMAIN Catalog
Code(v) == Catalog[v].code
Supports(v, abi) == Catalog[v].universal \/ abi \in Catalog[v].native
AbiSpecific(v) == ~Catalog[v].universal /\ Cardinality(Catalog[v].native) = 1

\* Stable, without a blocked anti-feature, and with one signer.
Usable ==
    {v \in Versions : /\ Catalog[v].channel = "stable" /\ ~Catalog[v].blocked
                      /\ Catalog[v].signer # NoSigner}
UsableOf(index) == index \cap Usable

\* Mutant: the version listed last.
BestListedLast(vs, abi) ==
    CHOOSE v \in vs : Supports(v, abi) /\ \A w \in vs : Supports(w, abi) => w <= v

\* Of several with that code, the one listed first.
Best(vs, abi) ==
    CHOOSE v \in vs :
        /\ Supports(v, abi)
        /\ \A w \in vs : Supports(w, abi) =>
               Code(w) < Code(v) \/ (Code(w) = Code(v) /\ v <= w)

\* The places of the targets that some usable version serves.
Served(usable, wanted) == {i \in DOMAIN wanted : \E v \in usable : Supports(v, wanted[i])}

\* A finite set of numbers as a sequence that goes up.
Ascending(S) ==
    CHOOSE f \in [1..Cardinality(S) -> S] : \A i, j \in DOMAIN f : i < j => f[i] < f[j]

Retained(usable, wanted) ==
    LET places == Ascending(Served(usable, wanted))
    IN  [n \in DOMAIN places |-> wanted[places[n]]]

Artifact == [abi : Abi, version : Versions]
Candidate == [code : Nat, signer : Signer \cup {NoSigner}, split : BOOLEAN,
              artifacts : Seq(Artifact)]
NoCandidate == [code |-> 0, signer |-> NoSigner, split |-> FALSE, artifacts |-> <<>>]

Artifacts(usable, wanted) ==
    LET best == [abi \in Abi |-> [abi |-> abi, version |-> Best(usable, abi)]]
        abis == Retained(usable, wanted)
    IN  [i \in DOMAIN abis |-> best[abis[i]]]

CandidateOf(reference, artifacts) ==
    [code |-> Code(reference), signer |-> Catalog[reference].signer,
     split |-> AbiSpecific(reference), artifacts |-> artifacts]

\* Mutant: the group is marked by the highest of its codes.
ResolveHighest(index, wanted) ==
    LET as == Artifacts(UsableOf(index), wanted)
        vs == {as[i].version : i \in DOMAIN as}
    IN  IF as = <<>> THEN NoCandidate
        ELSE CandidateOf(CHOOSE v \in vs : \A w \in vs : Code(w) <= Code(v), as)

\* The four reasons to reject a package come to no artefact.
Resolve(index, wanted) ==
    LET as == Artifacts(UsableOf(index), wanted)
    IN  IF as = <<>> THEN NoCandidate ELSE CandidateOf(as[1].version, as)

-----------------------------------------------------------------------------
(* The fields of a Headwind version.                                       *)

Arch(abi) ==
    CASE abi = "arm64-v8a" -> "arm64"
      [] abi \in {"armeabi-v7a", "armeabi"} -> "armeabi"
      [] OTHER -> abi

Fields == {"arm64", "armeabi"}

\* Mutant: a group is published by the APK of its reference.
UrlsOfReference(c) ==
    IF ~c.split
    THEN IF Len(c.artifacts) = 1 THEN [f \in {"url"} |-> c.artifacts[1].version]
         ELSE [f \in {} |-> 0]
    ELSE IF \E i \in DOMAIN c.artifacts : Arch(c.artifacts[i].abi) \notin Fields
    THEN [f \in {} |-> 0]
    ELSE [f \in {Arch(c.artifacts[i].abi) : i \in DOMAIN c.artifacts} |-> c.artifacts[1].version]

\* The version behind each field; no field at all if the version is skipped.
\* Of two ABIs with one field, the last.
Urls(c) ==
    IF ~c.split
    THEN IF Len(c.artifacts) = 1 THEN [f \in {"url"} |-> c.artifacts[1].version]
         ELSE [f \in {} |-> 0]
    ELSE IF \E i \in DOMAIN c.artifacts : Arch(c.artifacts[i].abi) \notin Fields
    THEN [f \in {} |-> 0]
    ELSE [f \in {Arch(c.artifacts[i].abi) : i \in DOMAIN c.artifacts} |->
             LET of == {i \in DOMAIN c.artifacts : Arch(c.artifacts[i].abi) = f}
             IN  c.artifacts[CHOOSE i \in of : \A j \in of : j <= i].version]

=============================================================================
