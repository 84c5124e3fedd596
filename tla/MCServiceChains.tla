--------------------------- MODULE MCServiceChains ---------------------------
(* Instances of ServiceChains for TLC.                                        *)
EXTENDS ServiceChains, TLC

CONSTANTS f1, f2

Alike == Permutations({f1, f2})
=============================================================================
