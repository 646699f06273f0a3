--------------------------- MODULE MCStateStore ---------------------------
(* Instances of StateStore for TLC. *)
EXTENDS StateStore, TLC

\* Threads, topology ids and inodes are interchangeable.
Symmetry == Permutations(Handlers) \cup Permutations(Keys) \cup Permutations(Inodes)
=============================================================================
