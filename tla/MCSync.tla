------------------------------- MODULE MCSync -------------------------------
(***************************************************************************)
(* Finite instances of SyncProperties.  Version names are ranked as        *)
(* strings by Headwind: "2-rc" above "2", "3" below both.                  *)
(***************************************************************************)
EXTENDS SyncProperties, TLC

CONSTANTS a1, a2, s1, s2, c1, c2, p1, p2, none

MCNames == {"1", "2", "3"}
\* The name of the newest ranks lowest.
RankTextual == ("1" :> 2) @@ ("2" :> 3) @@ ("3" :> 1)
RankNatural == ("1" :> 1) @@ ("2" :> 2) @@ ("3" :> 3)

V(id, name, code) == [id |-> id, app |-> a1, name |-> name, code |-> code]
L(conf, ver, action) == [conf |-> conf, ver |-> ver, action |-> action]
S(vs, ls, top) ==
    [carriers |-> {a1}, versions |-> vs, links |-> ls,
     latest |-> (a1 :> top) @@ (a2 :> 0), nextId |-> 3]

\* One version, installed in one configuration or in both.
OneVersion ==
    {S({V(1, "1", 1)}, {L(c1, 1, 1)}, 1),
     S({V(1, "1", 1)}, {L(c1, 1, 1), L(c2, 1, 1)}, 1)}
\* One version, or two of which the newest was entered by hand without a code.
EitherVersions ==
    {S({V(1, "1", 1)}, {L(c1, 1, 0), L(c2, 1, 1)}, 1),
     S({V(1, "1", 1), V(2, "2", 0)}, {L(c1, 2, 1), L(c2, 1, 1)}, 2)}

O(name, code, signer) ==
    [kind |-> "candidate", name |-> name, code |-> code, signer |-> signer, urls |-> TRUE]
Absent == [O("1", 0, s1) EXCEPT !.kind = "absent"]
Unresolved == [O("1", 0, s1) EXCEPT !.kind = "unresolved"]
NoUrls == [O("2", 2, s1) EXCEPT !.urls = FALSE]

TwoOffers == {O("2", 2, s1), O("3", 3, s1)}
TwoSigners == {O("2", 2, s1), O("3", 3, s2)}
AllOffers == TwoOffers \cup {Absent, Unresolved, NoUrls, O("3", 3, s2)}

ASSUME NamesAreTold == NamesTellCodes

E(tracked, auto, paused) == [tracked |-> tracked, auto |-> auto, paused |-> paused]
Auto == {E(TRUE, TRUE, FALSE)}
Manual == {E(TRUE, FALSE, FALSE)}
AutoOrManual == Auto \cup Manual
AllEntries == Auto \cup Manual \cup {E(TRUE, TRUE, TRUE), E(FALSE, FALSE, FALSE)}

ApplyOnly == [p \in Proc |-> {"apply"}]
OneApplies == [p \in Proc |-> IF p = p1 THEN {"apply"} ELSE {"status", "dry-run"}]
AnyCommand == [p \in Proc |-> Command]

Entered == {[name |-> "2", code |-> 2], [name |-> "3", code |-> 2], [name |-> "3", code |-> 3]}

B(crash, fault, lostPut, lostPost, operator, offers) ==
    [d \in Disturbance |->
        CASE d = "crash" -> crash [] d = "fault" -> fault
          [] d = "lostPut" -> lostPut [] d = "lostPost" -> lostPost
          [] d = "operator" -> operator [] d = "offer" -> offers]
BudgetCore == B(1, 2, 1, 1, 1, 2)
BudgetOperators == B(0, 1, 0, 1, 2, 1)
BudgetOverlap == B(1, 0, 0, 0, 0, 1)
BudgetLinked == B(1, 1, 1, 1, 2, 1)
OneLostPut == B(0, 0, 1, 0, 0, 0)
LostAfterFault == B(0, 1, 1, 0, 0, 1)
OneMove == B(0, 0, 0, 0, 1, 0)
OneOffer == B(0, 0, 0, 0, 0, 1)

=============================================================================
