---------------------------- MODULE VerdictList ----------------------------
(***************************************************************************)
(* What a caller of validate_topology_links relies on: a list with one     *)
(* verdict per link or firewall rule, filled from its first entry to its   *)
(* last and never corrected, and a status that sums it up.  How many pings *)
(* run at once, which of them are late and which never answer is not to be *)
(* seen in it.                                                             *)
(***************************************************************************)
EXTENDS Naturals

CONSTANTS
    Entries, \* positions of the links or firewall rules in the topology
    Tests    \* those that are tested; the other rules are skipped

VARIABLES
    slots,   \* the verdict at each position
    outcome  \* what the call has returned: "none" as long as it runs

Unfilled == {i \in Entries : slots[i] = "none"}

Init ==
    /\ slots = [i \in Entries |-> IF i \in Tests THEN "none" ELSE "SKIPPED"]
    /\ outcome = "none"

\* The verdict of the first position that has none.
Fill(i, verdict) ==
    /\ outcome = "none"
    /\ i \in Unfilled /\ \A j \in Unfilled : i <= j
    /\ slots' = [slots EXCEPT ![i] = verdict]
    /\ UNCHANGED outcome

\* The call returns when every position has its verdict; it has passed when no test has
\* failed, and links have only passed when there are any.
Return ==
    /\ outcome = "none"
    /\ Unfilled = {}
    /\ outcome' \in {"PASSED", "FAILED"}
    /\ outcome' = "PASSED" => \A i \in Entries : slots[i] # "FAILED"
    /\ outcome' = "FAILED" => Entries = {} \/ \E i \in Entries : slots[i] = "FAILED"
    /\ UNCHANGED slots

\* An exception ends it.
Raise ==
    /\ outcome = "none"
    /\ outcome' = "raised"
    /\ UNCHANGED slots

Next ==
    \/ \E i \in Entries, verdict \in {"PASSED", "FAILED"} : Fill(i, verdict)
    \/ Return
    \/ Raise

Spec == Init /\ [][Next]_<<slots, outcome>>

=============================================================================
