----------------------------- MODULE MCFloydRaft -----------------------------
(***************************************************************************)
(* Symmetry sets for the runs.  The servers that may stand are             *)
(* interchangeable among themselves, and so are those that may not, and    *)
(* the commands.                                                           *)
(***************************************************************************)
EXTENDS FloydRaft, TLC

Symmetry ==
  {p @@ q @@ r : p \in Permutations(Electable),
                 q \in Permutations(Server \ Electable),
                 r \in Permutations(Command)}

=============================================================================
