--------------------------- MODULE MCSharedDatabase ---------------------------
(* Instances of SharedDatabase for TLC. *)
EXTENDS SharedDatabase, TLC

MCTimes == {0, 1}
OneTime == {0}

Symmetry == Permutations(Processes) \cup Permutations(PromptIds) \cup
            Permutations(Slugs) \cup Permutations(Titles) \cup
            Permutations(Categories) \cup Permutations(Bodies)

=============================================================================
