------------------------- MODULE MCMemoryGovernance -------------------------
(* Model-checking instances of MemoryGovernance. *)
EXTENDS MemoryGovernance, TLC

CONSTANTS a, b, c, s1, s2

\* a and c give one value, b another; a comes approved from its scan.
MCStatus == [claim \in Claims |-> IF claim = a THEN "approved" ELSE "candidate"]
MCRivals == {{x, y} : x \in {a, c} \cap Claims, y \in {b}}

\* The second scan does not hold the first claim any more.
MCContent == [scan \in Scans |-> IF scan = s1 THEN Claims ELSE Claims \ {a}]

MCIdOrder == SelectSeq(<<a, b, c>>, LAMBDA claim : claim \in Claims)
MCFoundOrder == SelectSeq(<<b, a, c>>, LAMBDA claim : claim \in Claims)

Symmetry == Permutations(Workers)
=============================================================================
