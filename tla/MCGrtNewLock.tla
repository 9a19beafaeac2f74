---------------------------- MODULE MCGrtNewLock ----------------------------
(* A small instance of GrtNewLock for TLC.                                 *)
EXTENDS GrtNewLock, TLC

AllJobs == LockJob \cup OnJob
(* The properties are all about finite behaviours.                         *)
Symmetry ==
  Permutations(Proc \ {Home}) \cup Permutations(Handler) \cup Permutations(Thread)
=============================================================================
