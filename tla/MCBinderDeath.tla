--------------------------- MODULE MCBinderDeath ---------------------------
(* Instances of BinderDeath for TLC.                                       *)
EXTENDS BinderDeath, TLC

CONSTANTS m, l, h1, h2, c1, c2, d1, d2, d3

Symmetry == Permutations(Death) \cup Permutations(Handle) \cup Permutations(Cookie)
=============================================================================
