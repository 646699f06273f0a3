---------------------------- MODULE CycleSearch ----------------------------
(***************************************************************************)
(* The depth-first search of _reject_cycles (topology_compiler.py), step   *)
(* by step: the calls of visit that are under way are frames on a stack,   *)
(* and every iteration of their loops is a step.  The search tells links   *)
(* apart by their nodes alone: it never goes back to the node it came      *)
(* from, by whatever link, and takes any other node it meets again for a   *)
(* cycle.                                                                  *)
(***************************************************************************)
EXTENDS TopologyCompiler

VARIABLES
    visited,   \* the nodes visit has been called with
    stack      \* the calls that have not returned, the last on top

search == <<visited, stack>>

Idle == visited = {} /\ stack = <<>>

Stop == visited' = {} /\ stack' = <<>>

\* A call of visit: its node, the node it was called from ({} for none), and the links that
\* are left to follow.
Visit(links, n, parent) == [node |-> n, parent |-> parent, left |-> Meets(links, n)]

Top == stack[Len(stack)]

\* The loop of the call on top has come to link i.
At(i) == stack # <<>> /\ i \in Top.left /\ \A j \in Top.left : i <= j

Passed(i) == [stack EXCEPT ![Len(stack)].left = @ \ {i}]

\* next_node
Far(links, i) == IF links[i].from = Top.node THEN links[i].to ELSE links[i].from

\* The outer loop; the order of its nodes is left open.
Begin(links) ==
    /\ stack = <<>>
    /\ \E n \in Ends(links) \ visited :
         visited' = visited \cup {n} /\ stack' = <<Visit(links, n, {})>>

Skip(links) ==
    \E i \in DOMAIN links :
        /\ At(i) /\ {Far(links, i)} = Top.parent
        /\ stack' = Passed(i) /\ UNCHANGED visited

Descend(links) ==
    \E i \in DOMAIN links :
        LET m == Far(links, i)
        IN  /\ At(i) /\ {m} # Top.parent /\ m \notin visited
            /\ visited' = visited \cup {m}
            /\ stack' = Append(Passed(i), Visit(links, m, {Top.node}))

Return ==
    /\ stack # <<>> /\ Top.left = {}
    /\ stack' = SubSeq(stack, 1, Len(stack) - 1) /\ UNCHANGED visited

\* The error is raised.
Closing(links) ==
    \E i \in DOMAIN links : At(i) /\ {Far(links, i)} # Top.parent /\ Far(links, i) \in visited

Searched(links) == stack = <<>> /\ Ends(links) \subseteq visited

Step(links) == Begin(links) \/ Skip(links) \/ Descend(links) \/ Return

-----------------------------------------------------------------------------
(* What the search is for *)

\* A set of links is a ring when each node it touches is on two of them.
Ring(links, S) ==
    /\ S # {}
    /\ \A i \in S : \A n \in {links[i].from, links[i].to} : Cardinality(Meets(links, n) \cap S) = 2

=============================================================================
