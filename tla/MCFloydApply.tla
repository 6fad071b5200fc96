----------------------------- MODULE MCFloydApply -----------------------------
(* Symmetry of FloydApply for TLC: clients, and holders, are interchangeable. *)
EXTENDS FloydApply, TLC

Symmetry == Permutations(Client) \cup Permutations(Holder)

=============================================================================
