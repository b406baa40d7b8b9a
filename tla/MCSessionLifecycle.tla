------------------------- MODULE MCSessionLifecycle -------------------------
(***************************************************************************)
(* Instances of SessionLifecycle for TLC.                                  *)
(***************************************************************************)
EXTENDS SessionLifecycle, TLC

\* Processes are interchangeable: no property or fairness condition of the
\* runs that use this set tells one slot from another.
ProcSymmetry == Permutations(Procs)
=============================================================================
