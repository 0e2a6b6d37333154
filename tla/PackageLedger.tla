---------------------------- MODULE PackageLedger ----------------------------
(***************************************************************************)
(* What the database promises to remember of a package: the key it is      *)
(* bound to, the last version created, and the last version linked.  No    *)
(* run, no call and no fault: a ledger that only moves forward.            *)
(***************************************************************************)
EXTENDS Naturals

CONSTANTS Signers, NoSigner

VARIABLES tracked, signer, created, pushed

ledger == <<tracked, signer, created, pushed>>

Init == ~tracked /\ signer = NoSigner /\ created = 0 /\ pushed = 0

Track == ~tracked /\ tracked' = TRUE /\ UNCHANGED <<signer, created, pushed>>

\* Everything is forgotten with the declaration.
Drop == tracked /\ tracked' = FALSE /\ signer' = NoSigner /\ created' = 0 /\ pushed' = 0

\* Once, for as long as the package stays declared.
Pin ==
    /\ tracked /\ signer = NoSigner /\ signer' \in Signers
    /\ UNCHANGED <<tracked, created, pushed>>

\* Upwards only, and never before a key is pinned.
Create ==
    /\ tracked /\ signer # NoSigner /\ created' > created
    /\ UNCHANGED <<tracked, signer, pushed>>

\* The last version created, and no other.
Link ==
    /\ tracked /\ pushed < created /\ pushed' = created
    /\ UNCHANGED <<tracked, signer, created>>

Next == Track \/ Drop \/ Pin \/ Create \/ Link

Spec == Init /\ [][Next]_ledger

=============================================================================
