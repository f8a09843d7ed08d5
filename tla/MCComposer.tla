----------------------------- MODULE MCComposer -----------------------------
(* Composer on small instances: files are interchangeable.                 *)
EXTENDS Composer, TLC

Symmetry == Permutations(Files)
=============================================================================
