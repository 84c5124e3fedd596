---------------------------- MODULE MCPacketCore ----------------------------
(***************************************************************************)
(* Instances of PacketCore for TLC: two or three devices, the default      *)
(* queue and one or two classes.                                           *)
(***************************************************************************)
EXTENDS PacketCore

CONSTANTS default, voice, video

(* The queues at the start.                                                *)
OneQueue == <<default>>
TwoQueues == <<default, voice>>
ThreeQueues == <<default, voice, video>>

(* The order in which map_keys lists the classes.                          *)
HashOrder == [S \in SUBSET Names |->
                SelectSeq(<<voice, default, video>>, LAMBDA n : n \in S)]

(* "queue add ... -size 1" for the classes, room for two in the default    *)
(* queue.                                                                  *)
SmallQueues == [n \in Names |-> IF n = default THEN 2 ELSE 1]

AmpleQueues == [n \in Names |-> MaxPackets]
=============================================================================
