------------------------------ MODULE MCWatchdog ------------------------------
(* The election on small instances; the nodes are interchangeable. *)
EXTENDS WatchdogFeed, TLC

Symmetry == Permutations(Node)
=============================================================================
