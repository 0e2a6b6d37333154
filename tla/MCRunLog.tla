------------------------------ MODULE MCRunLog ------------------------------
(***************************************************************************)
(* A small instance of RunLogProperties, with the two scripts there are.   *)
(***************************************************************************)
EXTENDS RunLogProperties

CONSTANTS k1, k2, p1, p2

MCObjects == {"tracked_package", "mirror", "sync_run", "sync_event", "idx_run", "idx_pkg"}
St(adds, drops) == [adds |-> adds, drops |-> drops]
MCScripts ==
    << << St({"tracked_package", "mirror"}, {}), St({"sync_run"}, {}), St({"sync_event"}, {}),
          St({"idx_run"}, {}), St({"idx_pkg"}, {}) >>,
       << St({}, {"mirror"}) >> >>

ASSUME ScriptsAreSafe == DropsAreFinal /\ FirstMarks

MCDeclared == {{}, {k1}}
TimerAndOperator ==
    [p \in Proc |-> IF p = p1 THEN {"apply"}
                    ELSE {"status", "dry-run", "report", "prune"}]
RunAndReport == [p \in Proc |-> {"apply", "report"}]

=============================================================================
