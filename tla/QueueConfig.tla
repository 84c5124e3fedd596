---------------------------- MODULE QueueConfig ----------------------------
(***************************************************************************)
(* The set of input queues of the packet core and the cache of their       *)
(* names, as the CLI command "queue" changes them: the map pcore->queues   *)
(* and pcore->pcache of grouter/packetcore.c.  The cache is an array of    *)
(* pointers to copies of the names; a pointer is a number, so that an      *)
(* entry moved within the array and the copy it left behind are the same   *)
(* pointer, and a pointer that was freed can still be in the array.        *)
(***************************************************************************)
EXTENDS Naturals, Sequences, FiniteSets

CONSTANTS Names,        (* the classes an operator may give a queue      *)
          Default,      (* "default", the queue main creates             *)
          Initial,      (* the queues there are when traffic starts, in  *)
                        (* the order of their creation                   *)
          MaxAdds       (* bound on the queues added while running       *)

ASSUME ConfigAssumption == /\ Default \in Names /\ MaxAdds \in Nat
                           /\ Initial \in Seq(Names) /\ Initial # <<>>
                           /\ Head(Initial) = Default

VARIABLES queues,       (* the keys of pcore->queues                     *)
          pcache,       (* pcore->pcache->cname, numofentries long       *)
          named,        (* the name each strdup'ed pointer was made of   *)
          freed         (* the pointers passed to free()                 *)

cvars == <<queues, pcache, named, freed>>

Ptrs == 1..(Len(Initial) + MaxAdds)

ConfigTypeOK == /\ queues \subseteq Names
                /\ pcache \in Seq(Ptrs)
                /\ named \in Seq(Names) /\ Len(named) <= Len(Initial) + MaxAdds
                /\ freed \subseteq Ptrs

(* createPacketCore, main's addPktCoreQueue("default") and the "queue add" *)
(* commands of the start-up script.                                        *)
ConfigInit == /\ queues = {Initial[k] : k \in 1..Len(Initial)}
              /\ pcache = [k \in 1..Len(Initial) |-> k]
              /\ named = Initial
              /\ freed = {}

(* insertCnameCache: the copy goes to the end of the array.                *)
InsertCnameCache(n) == /\ named' = Append(named, n)
                       /\ pcache' = Append(pcache, Len(named) + 1)
                       /\ UNCHANGED freed

(* addPktCoreQueue: map_add does nothing for a key that is there already,  *)
(* and the name is cached again.                                           *)
AddPktCoreQueue(n) == /\ Len(named) < Len(Initial) + MaxAdds
                      /\ queues' = queues \cup {n}
                      /\ InsertCnameCache(n)

(* The positions that hold a name equal to n; freed memory equals none.    *)
Hits(n) == {j \in 1..Len(pcache) : pcache[j] \notin freed /\ named[pcache[j]] = n}

(* The loop of deleteCnameCache advances j and copies cname[i + 1] to      *)
(* cname[i] with i fixed: one entry moves, and the last one is dropped.    *)
Shifted(s, i) == [k \in 1..(Len(s) - 1) |-> IF k = i THEN s[i + 1] ELSE s[k]]

(* deleteCnameCache frees and drops the first entry equal to n.            *)
DeleteCnameCache(n) ==
    /\ \/ Hits(n) = {} /\ UNCHANGED <<pcache, freed>>
       \/ \E j \in Hits(n) : /\ \A k \in Hits(n) : j <= k
                             /\ freed' = freed \cup {pcache[j]}
                             /\ pcache' = Shifted(pcache, j)
    /\ UNCHANGED named

(* delPktCoreQueue: nothing happens for a name that is not a key.          *)
DelPktCoreQueue(n) == /\ n \in queues
                      /\ queues' = queues \ {n}
                      /\ DeleteCnameCache(n)

(* The names tagPacket can return: the first cached name, "default"        *)
(* excepted, whose rule matches the packet, and "default" if none does.    *)
(* Which rules match is up to the packet.  A pointer that was freed        *)
(* matches no class.                                                       *)
Tags == {Default} \cup
        {named[pcache[j]] : j \in {k \in 1..Len(pcache) : pcache[k] \notin freed}}
ConfigNext == \E n \in Names : AddPktCoreQueue(n) \/ DelPktCoreQueue(n)

ConfigSpec == ConfigInit /\ [][ConfigNext]_cvars
-----------------------------------------------------------------------------
(* The cache holds the name of every queue: "a simple cache to make fast   *)
(* lookups on the cnames (classes) already defined for the packet queues"  *)
(* (packetcore.c:43).  A queue it misses gets no packet.                   *)
CacheCoversQueues == queues \ {Default} \subseteq Tags

(* The cache holds no pointer to freed memory, which tagPacket would       *)
(* compare with strcmp.                                                    *)
NoDanglingName == \A j \in 1..Len(pcache) : pcache[j] \notin freed
=============================================================================
