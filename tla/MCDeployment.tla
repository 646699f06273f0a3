--------------------------- MODULE MCDeployment ---------------------------
(* Instances of Deployment for TLC. *)
EXTENDS Deployment, TLC

CONSTANTS r1, r2

\* One network with a host on it, and the smallest plan with every kind.
PlanPair == <<[kind |-> "network", net |-> 0], [kind |-> "server", net |-> 1]>>
PlanTriple == <<[kind |-> "network", net |-> 0], [kind |-> "subnet", net |-> 1],
                [kind |-> "server", net |-> 1]>>

\* Requests for different topologies interleave, those for one topology do not.
TurnSpec == Init /\ [][Next /\ TakeTurns']_vars

\* Moreover the janitor has the server to itself.
AloneSpec == Init /\ [][Next /\ TakeTurns' /\ JanitorAlone']_vars

\* And one handler at a time updates state.json.
OrderlySpec == Init /\ [][Next /\ TakeTurns' /\ JanitorAlone' /\ UpdatesApart']_vars

\* Threads are alike, and the properties checked with this symmetry are safety properties.
Threads == Permutations(Requests)

=============================================================================
