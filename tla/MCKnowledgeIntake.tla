-------------------------- MODULE MCKnowledgeIntake --------------------------
(* Model-checking instances of KnowledgeIntake. *)
EXTENDS KnowledgeIntake, TLC

\* "test" is an alias of "testing"; "misc" has no directory in team.yaml.
MCTypes == {"test", "testing", "misc"}
MCNormalized == [t \in MCTypes |-> IF t = "test" THEN "testing" ELSE t]
MCPackTypes == {"testing"}

\* The smaller instances: one type, its paths differ in the title.
MCOneType == {"testing"}
MCOneNormalized == [t \in MCOneType |-> t]

Symmetry == Permutations(Workers) \cup Permutations(Documents)
                \cup Permutations(Titles)
=============================================================================
