----------------------------- MODULE StateMap -----------------------------
(***************************************************************************)
(* What the callers of services/local_state_store.py rely on, and what the *)
(* variable snapshot of module Deployment is: a map from topology id to    *)
(* entry, of which one update changes one entry or clears all, at once or  *)
(* not at all.  Nothing is promised once updates have overlapped.          *)
(***************************************************************************)
CONSTANTS Keys, Records, NoRecord

VARIABLES
    entries,    \* what the map says of each topology
    overlapped  \* an update has begun before another had ended

Blank == [k \in Keys |-> NoRecord]

Init == entries = Blank /\ overlapped = FALSE

\* record_deploy_snapshot, record_deploy_failed or remove_local_deployment.
Update(k) == \E r \in Records \cup {NoRecord} : entries' = [entries EXCEPT ![k] = r]

\* clear_all_local_state.
Clear == entries' = Blank

Next ==
    \/ overlapped'
    \/ ~overlapped /\ ~overlapped' /\ (Clear \/ \E k \in Keys : Update(k))

Spec == Init /\ [][Next]_<<entries, overlapped>>

=============================================================================
