----------------------------- MODULE MCScenario -----------------------------
(* Scenario for TLC. *)
EXTENDS Scenario

Link == {<<"h1", "h2">>}

\* Of MCScenario_stopping.cfg, and false of the code: after a reconciliation without a failed
\* call every recorded host that was not gone has been up since it began (reconcile_topology).
\* A host that is still stopping when its status is read is left as it is.
ReconcileLeavesNoneDown ==
    [][ Pushed /\ Latest.actual = "RECONCILED" =>
          misread' \/ \A h \in rows : BeenUp(h) \/ Been(h, "absent") ]_vars
=============================================================================
