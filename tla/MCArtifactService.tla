------------------------- MODULE MCArtifactService --------------------------
(***************************************************************************)
(* Instances of ArtifactService for TLC.                                   *)
(***************************************************************************)
EXTENDS ArtifactService, TLC

\* Processes, authors and contents are each interchangeable: the modules
\* only ever compare two of them for equality.
ArtifactSymmetry ==
    Permutations(Procs) \cup Permutations(Authors) \cup Permutations(Contents)
=============================================================================
