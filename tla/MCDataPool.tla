----------------------------- MODULE MCDataPool -----------------------------
(* DataPool on a small instance.  Two-bit arithmetic in place of u32.      *)
EXTENDS DataPool, TLC

Symmetry == Permutations(Owner)
=============================================================================
