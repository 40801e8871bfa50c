---------------------------- MODULE MCDrawBatch ----------------------------
(* Values of a set are alike: Init and every action treat them so.         *)
EXTENDS DrawBatch, TLC

Symmetry == Permutations(States) \cup Permutations(Programs) \cup Permutations(Targets)
=============================================================================
