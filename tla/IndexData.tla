----------------------------- MODULE IndexData -----------------------------
(***************************************************************************)
(* The F-Droid index as data: a JSON object per package, projected onto    *)
(* the tracked packages and the fields the service reads, and brought up   *)
(* to date by diffs whose nulls delete.                                    *)
(*                                                                         *)
(* A JSON object is a function on the keys it holds.  The fields of a      *)
(* package, nested in the real index, are flat here: a key of Keys stands  *)
(* for a path, and Kept for the paths METADATA_KEYS and VERSION_KEYS keep. *)
(***************************************************************************)
EXTENDS Functions

CONSTANTS Pkgs, Keys, Kept, Vals, Null

Objects(keys, values) == UNION {[D -> values] : D \in SUBSET keys}

Package == Objects(Keys, Vals)
Index == Objects(Pkgs, Package)
Payload == Objects(Pkgs, Objects(Keys, Vals \cup {Null}))
Patch == Objects(Pkgs, Objects(Keys, Vals \cup {Null}) \cup {Null})

ASSUME KeptAssumption == Kept \subseteq Keys
ASSUME NullAssumption == Null \notin Vals /\ Null \notin Objects(Keys, Vals \cup {Null})

\* Deletions are kept: the projection of a diff is still a diff.
Project(payload, wanted) ==
    [p \in DOMAIN payload \cap wanted |->
        IF payload[p] = Null THEN Null
        ELSE Restrict(payload[p], DOMAIN payload[p] \cap Kept)]

Deleted(patch) == {k \in DOMAIN patch : patch[k] = Null}

\* Mutant: dict.update.
MergeKeysUpdate(base, patch) ==
    [k \in DOMAIN base \cup (DOMAIN patch \ Deleted(patch)) |->
        IF k \in DOMAIN patch /\ patch[k] # Null THEN patch[k] ELSE base[k]]

\* merge_diff where neither value is an object...
MergeKeys(base, patch) ==
    [k \in (DOMAIN base \cup DOMAIN patch) \ Deleted(patch) |->
        IF k \in DOMAIN patch THEN patch[k] ELSE base[k]]

\* ... and where both are: it descends.  An object the base lacks is taken as it
\* is, nulls included.
MergeDiff(base, patch) ==
    [p \in (DOMAIN base \cup DOMAIN patch) \ Deleted(patch) |->
        IF p \notin DOMAIN patch THEN base[p]
        ELSE IF p \in DOMAIN base THEN MergeKeys(base[p], patch[p])
        ELSE patch[p]]

\* The diffs the repository publishes.
Changed(old, new) ==
    {k \in DOMAIN old \cup DOMAIN new :
        ~(k \in DOMAIN old /\ k \in DOMAIN new /\ old[k] = new[k])}

DiffKeys(old, new) ==
    [k \in Changed(old, new) |-> IF k \in DOMAIN new THEN new[k] ELSE Null]

DiffOf(old, new) ==
    [p \in Changed(old, new) |->
        IF p \notin DOMAIN new THEN Null
        ELSE IF p \in DOMAIN old THEN DiffKeys(old[p], new[p])
        ELSE new[p]]

=============================================================================
