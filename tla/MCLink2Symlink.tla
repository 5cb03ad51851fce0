----------------------------- MODULE MCLink2Symlink -----------------------------
(***************************************************************************)
(* Instances of Link2Symlink for TLC.                                      *)
(***************************************************************************)
EXTENDS Link2Symlink, TLC

MCSymmetry == Permutations(Tracees) \cup Permutations(Names) \cup Permutations(Files)
================================================================================
