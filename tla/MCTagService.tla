------------------------------ MODULE MCTagService ------------------------------
(* Instances of TagService for TLC. *)
EXTENDS TagService, TLC

MCNames == {"a", "A", "b", "project"}
MCLower == [n \in MCNames |-> IF n = "A" THEN "a" ELSE n]
MCLabelSets == {{}, {"a"}, {"A", "b"}}
MCUntaggedBackups == {{}}
MCTaggedBackups == {{"a"}}
MCProjectNames == {"project"}

Symmetry == Permutations(Callers)

=============================================================================
