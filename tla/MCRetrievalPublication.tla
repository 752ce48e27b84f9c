----------------------- MODULE MCRetrievalPublication -----------------------
(* Instances of RetrievalPublication for TLC.  Names, builders, maintainers  *)
(* and readers are interchangeable: the model never orders them.             *)
EXTENDS RetrievalPublication, TLC

Symmetry ==
    Permutations(Collections) \cup Permutations(Builders)
        \cup Permutations(Maintainers) \cup Permutations(Readers)
=============================================================================
