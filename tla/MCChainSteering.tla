--------------------------- MODULE MCChainSteering ---------------------------
(* Instances of ChainSteering for TLC: two hosts that talk to each other and  *)
(* a chain that may go through either of two services.                        *)
EXTENDS ChainSteering

CONSTANTS a, b, f1, f2

BothWays == {[src |-> a, dst |-> b], [src |-> b, dst |-> a]}
OneOfTwo == [i \in Ids |-> {<<f1>>, <<f2, f1>>}]
=============================================================================
