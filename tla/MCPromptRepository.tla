-------------------------- MODULE MCPromptRepository --------------------------
(* Instances of PromptRepository for TLC. *)
EXTENDS PromptRepository, TLC

MCTimes == {0, 1}

Symmetry == Permutations(PromptIds) \cup Permutations(Slugs) \cup
            Permutations(Titles) \cup Permutations(Categories) \cup
            Permutations(Bodies) \cup Permutations(Labels)

=============================================================================
