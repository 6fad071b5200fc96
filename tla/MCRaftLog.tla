------------------------------ MODULE MCRaftLog ------------------------------
(* Symmetry of RaftLog for TLC: the client threads are interchangeable. *)
EXTENDS RaftLog, TLC

Symmetry == Permutations(Client)

=============================================================================
