---------------------------- MODULE MCFloydTimers ----------------------------
(* Symmetry of FloydTimers for TLC: followers are interchangeable. *)
EXTENDS FloydTimers, TLC

Symmetry == Permutations(Follower)

=============================================================================
