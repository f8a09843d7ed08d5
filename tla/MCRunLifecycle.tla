--------------------------- MODULE MCRunLifecycle ---------------------------
(* RunLifecycle on a few requests.  Messages are interchangeable, and so    *)
(* are continues.                                                           *)
EXTENDS RunLifecycle, TLC

Symmetry == Permutations(Messages) \cup Permutations(Continues)
=============================================================================
