------------------------------- MODULE MCGitSync -------------------------------
(* An instance of GitSync for TLC. *)
EXTENDS GitSync

CONSTANTS p1, p2, p3
MCSlugOf == p1 :> "s1" @@ p2 :> "s2" @@ p3 :> "s1"

(* The clones differ in nothing, nor do the bodies. *)
Symmetry == Permutations(Vaults) \cup Permutations(Bodies)
=============================================================================
