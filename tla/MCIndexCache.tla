---------------------------- MODULE MCIndexCache ----------------------------
(***************************************************************************)
(* Small instances of IndexCacheProperties: two packages, two fields that  *)
(* are kept and one that is not, and indexes that differ by a package, a   *)
(* field or a value.                                                       *)
(***************************************************************************)
EXTENDS IndexCacheProperties, TLC

CONSTANTS a, b, k1, k2, k3, v1, v2, p1, p2

Full == (k1 :> v1) @@ (k2 :> v1) @@ (k3 :> v1)
Bumped == (k1 :> v1) @@ (k2 :> v2) @@ (k3 :> v2)
Withdrawn == k1 :> v2

MCPublished == {(a :> Full) @@ (b :> Bumped), a :> Withdrawn}
MCWanted == {{a}, {a, b}}

=============================================================================
