----------------------------- MODULE IndexReads -----------------------------
(***************************************************************************)
(* What a refresh of the index promises the run that asked for it: no      *)
(* cache, no diff and no file, only the tracked packages as the repository *)
(* published them in the index it described when asked.                    *)
(***************************************************************************)
EXTENDS IndexData, Naturals, Sequences

CONSTANTS Proc, Published, Wanted, NoRead

VARIABLES history, front,
    reads    \* reads[p]: what p asked for, and was answered

repoVars == <<history, front>>
vars == <<repoVars, reads>>

Asked(wanted, t) == [wanted |-> wanted, timestamp |-> t, answered |-> FALSE,
                     view |-> [p \in {} |-> Null]]

Answered(r) == [wanted |-> r.wanted, timestamp |-> r.timestamp, answered |-> TRUE,
                view |-> Project(history[r.timestamp], r.wanted)]

Init ==
    /\ \E i \in Published : history = <<i>>
    /\ front = 1
    /\ reads = [p \in Proc |-> NoRead]

Becomes(p, r) == reads' = [reads EXCEPT ![p] = r] /\ UNCHANGED repoVars

Ask(p) ==
    /\ reads[p] = NoRead
    /\ \E wanted \in Wanted : Becomes(p, Asked(wanted, front))

Answer(p) ==
    /\ reads[p] # NoRead
    /\ ~reads[p].answered
    /\ Becomes(p, Answered(reads[p]))

\* The run is over, or the refresh failed.
Forget(p) == reads[p] # NoRead /\ Becomes(p, NoRead)

Publish ==
    /\ \E i \in Published : history' = Append(history, i)
    /\ front' = Len(history) + 1
    /\ UNCHANGED reads

MirrorLags == front' \in DOMAIN history /\ UNCHANGED <<history, reads>>

Next == (\E p \in Proc : Ask(p) \/ Answer(p) \/ Forget(p)) \/ Publish \/ MirrorLags

Spec == Init /\ [][Next]_vars

=============================================================================
