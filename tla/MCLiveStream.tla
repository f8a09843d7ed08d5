---------------------------- MODULE MCLiveStream ----------------------------
(* LiveStream with interchangeable agents.                                  *)
EXTENDS LiveStream, TLC

Symmetry == Permutations(Agents)
=============================================================================
