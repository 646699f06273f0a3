--------------------------- MODULE MCValidation ---------------------------
(* Instances of Validation for TLC. *)
EXTENDS Validation

CONSTANTS a, b, links, rules

Check(kind, from, to) == [kind |-> kind, from |-> from, to |-> to]

\* Links in both directions, one more than the pool has threads; and firewall rules of
\* which one is not for ICMP.
Layout ==
    [c \in {links, rules} |->
        IF c = links
        THEN <<Check("link", a, b), Check("link", b, a), Check("link", a, b)>>
        ELSE <<Check("other", a, b), Check("icmp", b, a)>>]
=============================================================================
