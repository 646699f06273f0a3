--------------------------- MODULE MCAwsProvider ---------------------------
(* AwsProvider for TLC. *)
EXTENDS AwsProvider

Labels == [t1 |-> "lab", t2 |-> "prod"]
Links == [t1 |-> 2, t2 |-> 1]
Homes == [t1 |-> <<2>>, t2 |-> <<1>>]
OneLink == [t1 |-> 1]
OneHome == [t1 |-> <<1>>]
=============================================================================
