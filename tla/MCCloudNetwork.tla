--------------------------- MODULE MCCloudNetwork ----------------------------
(***************************************************************************)
(* CloudNetwork for TLC.  Nothing tells the shell and the REST threads     *)
(* apart.                                                                  *)
(***************************************************************************)
EXTENDS CloudNetwork, TLC

ThreadSymmetry == Permutations(Threads)
=============================================================================
