----------------------------- MODULE PacketLink -----------------------------
(***************************************************************************)
(* What the packet core promises of the packets between an input device    *)
(* and the worker.  The packets that come from one device and fall in one  *)
(* class form a flow.  A flow may lose packets anywhere, and never         *)
(* reorders, repeats or invents one; flows do not wait for each other.     *)
(***************************************************************************)
EXTENDS Naturals

CONSTANT Flows

VARIABLES transit,      (* transit[f]: the packets of f on their way     *)
          entered,      (* how many packets have entered                 *)
          out           (* the packet handed out last, 0 before any      *)

lvars == <<transit, entered, out>>

LinkInit == /\ transit = [f \in Flows |-> {}]
            /\ entered = 0
            /\ out = 0

(* A packet is its number in the order of arrival.                         *)
Enter(f) == /\ entered' = entered + 1
            /\ transit' = [transit EXCEPT ![f] = @ \cup {entered + 1}]
            /\ UNCHANGED out

(* The packet that entered first goes out, and is on its way no longer.    *)
Exit(f) == /\ out' \in transit[f]
           /\ \A p \in transit[f] : out' <= p
           /\ transit' = [transit EXCEPT ![f] = @ \ {out'}]
           /\ UNCHANGED entered

Lose == /\ transit' \in [Flows -> SUBSET (1..entered)]
        /\ \A f \in Flows : transit'[f] \subseteq transit[f]
        /\ UNCHANGED <<entered, out>>

LinkNext == Lose \/ \E f \in Flows : Enter(f) \/ Exit(f)

LinkSpec == LinkInit /\ [][LinkNext]_lvars
=============================================================================
