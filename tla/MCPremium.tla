----------------------------- MODULE MCPremium -----------------------------
(* Premium on small instances.                                             *)
EXTENDS Premium, TLC

Symmetry == Permutations(Token)
=============================================================================
