------------------------------ MODULE MCArpGnet ------------------------------
(***************************************************************************)
(* Instances of ArpGnet for TLC: hosts of different hardware addresses,    *)
(* whose cache key is the same.                                            *)
(***************************************************************************)
EXTENDS ArpGnet

CONSTANTS h1, h2, m1, m2

Addresses == [h \in Hosts |-> IF h = h1 THEN {m1} ELSE {m2}]
OneKey == [h \in Hosts |-> 0]
=============================================================================
