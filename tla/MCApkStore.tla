----------------------------- MODULE MCApkStore -----------------------------
(***************************************************************************)
(* A small instance of ApkStoreProperties: a universal version, a group    *)
(* split in two, one of its APKs signed anew, and versions nobody uses.    *)
(***************************************************************************)
EXTENDS ApkStoreProperties

CONSTANTS p1, p2

MCVersion(code, native, signer) ==
    [code |-> code, universal |-> native = {}, native |-> native, signer |-> signer,
     channel |-> "stable", blocked |-> FALSE]

MCCatalog ==
    << MCVersion(2, {"arm64-v8a"}, "A"),
       MCVersion(3, {"armeabi-v7a"}, "A"),
       MCVersion(2, {"arm64-v8a"}, "B"),
       MCVersion(2, {"x86"}, "A"),
       MCVersion(1, {}, "A"),
       MCVersion(4, {"arm64-v8a"}, "none"),
       [MCVersion(4, {"armeabi-v7a", "x86"}, "A") EXCEPT !.channel = "prerelease"] >>

\* A homonym, without a code, of a version of F-Droid.
MCEntered == {[name |-> 2, code |-> 0]}

MCOffers == {{1}}
MCTargets == {<<"arm64-v8a">>, <<"arm64-v8a", "armeabi-v7a">>, <<"x86", "arm64-v8a">>}

=============================================================================
