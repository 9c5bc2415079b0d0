-------------------------- MODULE MCQwenRateLimit --------------------------
(* Model-checking instance of QwenRateLimit. *)
EXTENDS QwenRateLimit, TLC

Symmetry == Permutations(Workers)
=============================================================================
