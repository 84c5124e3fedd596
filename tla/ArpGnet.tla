------------------------------- MODULE ArpGnet -------------------------------
(***************************************************************************)
(* The way out of the router: the GNET handler thread (gnet.c) drains the  *)
(* output queue and gives packets a hardware address from its own direct   *)
(* mapped cache or from the ARP table (arp.c); packets that must wait for  *)
(* an address are kept in the ARP buffer.  The worker thread processes the *)
(* ARP packets received, and the operator edits the ARP table.             *)
(*                                                                         *)
(* Neither the table nor the buffer has a lock.  Each call that searches   *)
(* or changes one of them is a step; the threads interleave between those  *)
(* calls.  What two of them do inside each other's calls is not modelled.  *)
(* The hosts are those reached through one interface; the packets of the   *)
(* OpenFlow processor, which skip all this, are left out.                  *)
(***************************************************************************)
EXTENDS Integers, Sequences, FiniteSets

CONSTANTS Hosts,         (* next hops: IP addresses                         *)
          Macs,
          Claims,        (* the hardware addresses of each host: it answers *)
                         (* with any of them, and the operator types one    *)
          MaxArp,        (* MAX_ARP                                         *)
          MaxBuffers,    (* MAX_ARP_BUFFERS                                 *)
          CacheKey,      (* getARPCacheKey                                  *)
          None,
          MaxPackets,    (* bound on the IP packets to send                 *)
          MaxRequests,   (* bound on the ARP requests made                  *)
          MaxEvents      (* bound on the operator's commands, on what hosts *)
                         (* do unasked and on the ARP packets lost          *)

Entry == [ip : Hosts, mac : Macs]
Slots == 1..MaxArp
Keys == {CacheKey[h] : h \in Hosts}

(* The IP packets are numbered as they come.                               *)
Ids == 1..MaxPackets

(* What the output queue holds: an IP packet, an ARP request (id 0, no     *)
(* address), an ARP reply (id 0, an address).  mac # None is arp_valid.    *)
Item == [kind : {"ip", "request", "reply"}, id : 0..MaxPackets,
         ip : Hosts, mac : Macs \cup {None}]
Buffered == [id : Ids, ip : Hosts]

(* An ARP packet received: the sender, and "other" if it is for others.    *)
ArpPacket == [op : {"request", "reply", "other"}, ip : Hosts, mac : Macs]

ASSUME ArpGnetAssumption ==
    /\ Claims \in [Hosts -> SUBSET Macs] /\ DOMAIN CacheKey = Hosts
    /\ MaxArp \in Nat \ {0} /\ MaxBuffers \in Nat \ {0} /\ MaxPackets \in Nat
    /\ MaxRequests \in Nat /\ MaxEvents \in Nat
    /\ None \notin Macs /\ None \notin Entry /\ None \notin Buffered
    /\ None \notin Item

VARIABLES
    table,      (* ARPtable; None is an empty entry                          *)
    replace,    (* tbl_replace_indx, from 1                                  *)
    buffer,     (* ARPbuffer                                                 *)
    cache,      (* arp_cache                                                 *)
    outQ,       (* outputQ                                                   *)
    gnet,       (* the GNET handler: "idle", "miss" (not found in the table) *)
                (* or "request" (packet buffered, the request not sent)      *)
    hand,       (* the packet it is resolving                                *)
    worker,     (* the worker: "idle", "added" (sender in the table), "flush" *)
    workQ,      (* the ARP packets received                                  *)
    asked,      (* the requests on their way to each host                    *)
    up,         (* whether the interface is up                               *)
    (* History:                                                              *)
    arrived,    (* the number of IP packets so far                           *)
    sent,       (* the packets given to the device, with their addresses     *)
    gone,       (* the packets dropped                                       *)
    requests,   (* the number of ARP requests made                           *)
    lost,       (* the hosts an ARP packet of which was lost                 *)
    budget      (* what is left of MaxEvents                                 *)

gnetVars == <<gnet, hand, cache>>
netVars == <<asked, workQ>>
histVars == <<arrived, requests, sent, gone, lost, budget>>
vars == <<table, replace, buffer, cache, outQ, gnet, hand, worker, workQ,
          asked, up, arrived, requests, sent, gone, lost, budget>>
-----------------------------------------------------------------------------
(* The ARP table (arp.c).                                                  *)

Full(s) == s # None
Lowest(S) == {i \in S : \A j \in S : i <= j}

(* ARPFindEntry: the first entry for the address.                          *)
Found(ip) == Lowest({i \in Slots : Full(table[i]) /\ table[i].ip = ip})

(* Mutant: the FIFO pointer does not wrap around.                          *)
AddEntry_NoWrap(ip, mac) ==
    LET ends == Lowest({i \in Slots : Full(table[i]) => table[i].ip = ip})
    IN /\ table' = [i \in Slots |->
                      IF i \in ends \/ (ends = {} /\ i = replace)
                      THEN [ip |-> ip, mac |-> mac] ELSE table[i]]
       /\ replace' = IF ends = {} THEN replace + 1 ELSE replace

(* ARPAddEntry: the loop ends at the first entry that is empty or for the  *)
(* address; if there is none the FIFO pointer chooses.                     *)
AddEntry(ip, mac) ==
    LET ends == Lowest({i \in Slots : Full(table[i]) => table[i].ip = ip})
    IN /\ table' = [i \in Slots |->
                      IF i \in ends \/ (ends = {} /\ i = replace)
                      THEN [ip |-> ip, mac |-> mac] ELSE table[i]]
       /\ replace' = IF ends = {} THEN (replace % MaxArp) + 1 ELSE replace

(* ARPDeleteEntry, and ARPReInitTable for "arp del" with no address.       *)
DeleteEntry(ip) ==
    /\ table' = [i \in Slots |-> IF Full(table[i]) /\ table[i].ip = ip
                                 THEN None ELSE table[i]]
    /\ UNCHANGED replace
ReInitTable == table' = [i \in Slots |-> None] /\ replace' = 1
-----------------------------------------------------------------------------
(* The IP layer: a packet for the next hop ip is put in the output queue.  *)
SendIP(ip) ==
    /\ arrived < MaxPackets
    /\ arrived' = arrived + 1
    /\ outQ' = Append(outQ, [kind |-> "ip", id |-> arrived + 1,
                             ip |-> ip, mac |-> None])
    /\ UNCHANGED <<table, replace, buffer, worker, up, gnetVars, netVars,
                   requests, sent, gone, lost, budget>>
-----------------------------------------------------------------------------
(* GNETHandler.                                                            *)

(* toEthernetDev: the packet leaves with this address.                     *)
ToDevice(p, mac) ==
    CASE p.kind = "ip" -> /\ sent' = sent \cup {[id |-> p.id, ip |-> p.ip, mac |-> mac]}
                          /\ UNCHANGED asked
      [] p.kind = "request" -> /\ asked' = [asked EXCEPT ![p.ip] = @ + 1]
                               /\ UNCHANGED sent
      [] OTHER -> UNCHANGED <<sent, asked>>

(* Mutant: the address of the entry is not compared.                       *)
Cached_AnyEntry(ip) == Full(cache[CacheKey[ip]])

Cached(ip) == LET e == cache[CacheKey[ip]] IN Full(e) /\ e.ip = ip

(* The interface is down: the packet is dropped.                           *)
DropOut ==
    /\ gnet = "idle" /\ outQ # <<>> /\ ~up
    /\ LET p == Head(outQ)
       IN /\ gone' = IF p.kind = "ip" THEN gone \cup {p.id} ELSE gone
          /\ lost' = IF p.kind = "request" THEN lost \cup {p.ip} ELSE lost
    /\ outQ' = Tail(outQ)
    /\ UNCHANGED <<table, replace, buffer, worker, up, gnetVars, netVars,
                   arrived, requests, sent, budget>>

(* arp_valid: the address goes to the cache, the packet to the device.     *)
OutValid ==
    /\ gnet = "idle" /\ outQ # <<>> /\ up /\ Head(outQ).mac # None
    /\ LET p == Head(outQ)
       IN /\ cache' = [cache EXCEPT ![CacheKey[p.ip]] = [ip |-> p.ip, mac |-> p.mac]]
          /\ ToDevice(p, p.mac)
    /\ outQ' = Tail(outQ)
    /\ UNCHANGED <<table, replace, buffer, gnet, hand, worker, workQ, up,
                   arrived, requests, gone, lost, budget>>

(* arp_bcast: an ARP request goes out as it is.                            *)
OutRequest ==
    /\ gnet = "idle" /\ outQ # <<>> /\ up /\ Head(outQ).kind = "request"
    /\ ToDevice(Head(outQ), None)
    /\ outQ' = Tail(outQ)
    /\ UNCHANGED <<table, replace, buffer, worker, workQ, up, gnetVars,
                   arrived, requests, gone, lost, budget>>

(* lookupARPCache finds the next hop.                                      *)
OutCached ==
    /\ gnet = "idle" /\ outQ # <<>> /\ up
    /\ LET p == Head(outQ)
       IN /\ p.kind = "ip" /\ p.mac = None /\ Cached(p.ip)
          /\ ToDevice(p, cache[CacheKey[p.ip]].mac)
    /\ outQ' = Tail(outQ)
    /\ UNCHANGED <<table, replace, buffer, worker, workQ, up, gnetVars,
                   arrived, requests, gone, lost, budget>>

(* ARPResolve, the table searched: found, the packet returns to the output *)
(* queue with its address.                                                 *)
Resolve ==
    /\ gnet = "idle" /\ outQ # <<>> /\ up
    /\ LET p == Head(outQ)
       IN /\ p.kind = "ip" /\ p.mac = None /\ ~Cached(p.ip)
          /\ \/ /\ \E i \in Found(p.ip) :
                      outQ' = Append(Tail(outQ), [p EXCEPT !.mac = table[i].mac])
                /\ UNCHANGED <<gnet, hand>>
             \/ /\ Found(p.ip) = {}
                /\ gnet' = "miss" /\ hand' = p
                /\ outQ' = Tail(outQ)
    /\ UNCHANGED <<table, replace, buffer, cache, worker, up, netVars, histVars>>

(* ARPResolve, not found: ARPAddBuffer keeps a copy in the first empty     *)
(* slot.  With none, the code writes past the end of the buffer, where no  *)
(* search looks: the copy is lost.                                         *)
AddBuffer ==
    /\ gnet = "miss"
    /\ LET free == {i \in 1..MaxBuffers : buffer[i] = None}
       IN IF free = {} THEN gone' = gone \cup {hand.id} /\ UNCHANGED buffer
          ELSE /\ \E i \in Lowest(free) :
                     buffer' = [buffer EXCEPT ![i] = [id |-> hand.id, ip |-> hand.ip]]
               /\ UNCHANGED gone
    /\ gnet' = "request"
    /\ UNCHANGED <<table, replace, cache, outQ, hand, worker, up, netVars,
                   arrived, requests, sent, lost, budget>>

(* Mutant: no request if the address has come meanwhile.                   *)
SendRequest_LooksAgain ==
    /\ gnet = "request" /\ requests < MaxRequests
    /\ IF Found(hand.ip) # {} THEN UNCHANGED <<requests, outQ>>
       ELSE /\ requests' = requests + 1
            /\ outQ' = Append(outQ, [kind |-> "request", id |-> 0,
                                     ip |-> hand.ip, mac |-> None])
    /\ gnet' = "idle" /\ hand' = None
    /\ UNCHANGED <<table, replace, buffer, cache, worker, up, netVars,
                   arrived, sent, gone, lost, budget>>

(* ARPResolve, then: ARPSendRequest makes the packet itself the request.   *)
SendRequest ==
    /\ gnet = "request" /\ requests < MaxRequests
    /\ requests' = requests + 1
    /\ outQ' = Append(outQ, [kind |-> "request", id |-> 0, ip |-> hand.ip, mac |-> None])
    /\ gnet' = "idle" /\ hand' = None
    /\ UNCHANGED <<table, replace, buffer, cache, worker, up, netVars,
                   arrived, sent, gone, lost, budget>>

GNETHandler == \/ DropOut \/ OutValid \/ OutRequest \/ OutCached
               \/ Resolve \/ AddBuffer \/ SendRequest
-----------------------------------------------------------------------------
(* The worker: ARPProcess on the packets of the work queue.                *)

(* Mutant: an ARP packet of a known sender is dropped.                     *)
LearnSender_New ==
    /\ worker = "idle" /\ workQ # <<>>
    /\ IF Found(Head(workQ).ip) # {}
       THEN workQ' = Tail(workQ) /\ UNCHANGED <<table, replace, worker>>
       ELSE /\ AddEntry(Head(workQ).ip, Head(workQ).mac)
            /\ worker' = "added" /\ UNCHANGED workQ
    /\ UNCHANGED <<buffer, outQ, asked, up, gnetVars, histVars>>

(* The sender is added to the table, whatever the packet is.               *)
LearnSender ==
    /\ worker = "idle" /\ workQ # <<>>
    /\ AddEntry(Head(workQ).ip, Head(workQ).mac)
    /\ worker' = "added"
    /\ UNCHANGED <<buffer, outQ, up, gnetVars, netVars, histVars>>

(* Not for this router: dropped.                                           *)
ForOthers ==
    /\ worker = "added" /\ Head(workQ).op = "other"
    /\ worker' = "idle" /\ workQ' = Tail(workQ)
    /\ UNCHANGED <<table, replace, buffer, outQ, asked, up, gnetVars, histVars>>

(* A request is turned into a reply to its sender.                         *)
ReplyTo ==
    /\ worker = "added" /\ Head(workQ).op = "request"
    /\ outQ' = Append(outQ, [kind |-> "reply", id |-> 0, ip |-> Head(workQ).ip,
                             mac |-> Head(workQ).mac])
    /\ worker' = "idle" /\ workQ' = Tail(workQ)
    /\ UNCHANGED <<table, replace, buffer, asked, up, gnetVars, histVars>>

(* Mutant: the slot of the buffer is not emptied.                          *)
Flush_KeepsSlot ==
    /\ worker \in {"added", "flush"} /\ Head(workQ).op = "reply"
    /\ LET waiting == {i \in 1..MaxBuffers :
                          Full(buffer[i]) /\ buffer[i].ip = Head(workQ).ip}
       IN \E i \in Lowest(waiting) :
             outQ' = Append(outQ, [kind |-> "ip", id |-> buffer[i].id,
                                   ip |-> buffer[i].ip, mac |-> None])
    /\ worker' = "flush"
    /\ UNCHANGED <<buffer, workQ, table, replace, asked, up, gnetVars, histVars>>

(* ARPFlushBuffer: one by one, ARPGetBuffer takes the first packet waiting *)
(* for the sender of the reply, and it returns to the output queue.  Its   *)
(* header gets the address but not arp_valid.                              *)
Flush ==
    /\ worker \in {"added", "flush"} /\ Head(workQ).op = "reply"
    /\ LET waiting == {i \in 1..MaxBuffers :
                          Full(buffer[i]) /\ buffer[i].ip = Head(workQ).ip}
       IN \/ /\ \E i \in Lowest(waiting) :
                   /\ buffer' = [buffer EXCEPT ![i] = None]
                   /\ outQ' = Append(outQ, [kind |-> "ip", id |-> buffer[i].id,
                                            ip |-> buffer[i].ip, mac |-> None])
             /\ worker' = "flush"
             /\ UNCHANGED workQ
          \/ /\ waiting = {}
             /\ worker' = "idle" /\ workQ' = Tail(workQ)
             /\ UNCHANGED <<buffer, outQ>>
    /\ UNCHANGED <<table, replace, asked, up, gnetVars, histVars>>

ARPProcess == LearnSender \/ ForOthers \/ ReplyTo \/ Flush
-----------------------------------------------------------------------------
(* The operator and the hosts.                                             *)

Spend == budget > 0 /\ budget' = budget - 1

(* arpCmd, and an interface taken down or up.                              *)
Operator ==
    /\ Spend
    /\ \/ /\ \E h \in Hosts : DeleteEntry(h)
          /\ UNCHANGED up
       \/ ReInitTable /\ UNCHANGED up
       \/ /\ \E h \in Hosts : \E m \in Claims[h] : AddEntry(h, m)
          /\ UNCHANGED up
       \/ up' = ~up /\ UNCHANGED <<table, replace>>
    /\ UNCHANGED <<buffer, outQ, worker, gnetVars, netVars, arrived, requests, sent, gone, lost>>

(* A host's ARP packet reaches the work queue.                             *)
Announce(h, op) ==
    \E m \in Claims[h] : workQ' = Append(workQ, [op |-> op, ip |-> h, mac |-> m])

(* A host answers a request; or the request or the answer is lost.         *)
Answer(h) ==
    /\ asked[h] > 0
    /\ asked' = [asked EXCEPT ![h] = @ - 1]
    /\ Announce(h, "reply")
    /\ UNCHANGED <<table, replace, buffer, outQ, worker, up, gnetVars,
                   arrived, requests, sent, gone, lost, budget>>
Lose(h) ==
    /\ asked[h] > 0
    /\ asked' = [asked EXCEPT ![h] = @ - 1]
    /\ Spend /\ lost' = lost \cup {h}
    /\ UNCHANGED <<table, replace, buffer, outQ, worker, workQ, up,
                   gnetVars, arrived, requests, sent, gone>>

(* A host speaks unasked.                                                  *)
HostSpeaks(h) ==
    /\ Spend
    /\ \E op \in {"request", "other"} : Announce(h, op)
    /\ UNCHANGED <<table, replace, buffer, outQ, worker, asked, up,
                   gnetVars, arrived, requests, sent, gone, lost>>

Init == /\ table = [i \in Slots |-> None] /\ replace = 1
        /\ buffer = [i \in 1..MaxBuffers |-> None]
        /\ cache = [k \in Keys |-> None]
        /\ outQ = <<>> /\ workQ = <<>>
        /\ gnet = "idle" /\ hand = None /\ worker = "idle"
        /\ asked = [h \in Hosts |-> 0] /\ up = TRUE
        /\ arrived = 0 /\ requests = 0 /\ sent = {} /\ gone = {} /\ lost = {}
        /\ budget = MaxEvents

Next == \/ \E h \in Hosts : SendIP(h) \/ Answer(h) \/ Lose(h) \/ HostSpeaks(h)
        \/ GNETHandler
        \/ ARPProcess
        \/ Operator

Spec == Init /\ [][Next]_vars

(* The two threads block only on empty queues, and hosts answer.           *)
FairSpec == /\ Spec
            /\ WF_vars(GNETHandler) /\ WF_vars(ARPProcess)
            /\ \A h \in Hosts : WF_vars(Answer(h))
-----------------------------------------------------------------------------
(* Properties.                                                             *)

TypeOK ==
    /\ table \in [Slots -> Entry \cup {None}] /\ replace \in Slots
    /\ buffer \in [1..MaxBuffers -> Buffered \cup {None}]
    /\ cache \in [Keys -> Entry \cup {None}]
    /\ outQ \in Seq(Item) /\ workQ \in Seq(ArpPacket)
    /\ gnet \in {"idle", "miss", "request"} /\ hand \in Item \cup {None}
    /\ worker \in {"idle", "added", "flush"}
    /\ asked \in [Hosts -> Nat] /\ up \in BOOLEAN
    /\ arrived \in 0..MaxPackets /\ requests \in 0..MaxRequests
    /\ sent \subseteq [id : Ids, ip : Hosts, mac : Macs] /\ gone \subseteq Ids
    /\ lost \subseteq Hosts
    /\ budget \in Nat

(* Wherever an address is kept or used, in the table, the cache, with a    *)
(* packet of the output queue or one sent, it is one of that host's:       *)
(* entries that are replaced, deleted and reused, and keys of the cache    *)
(* that hosts share, never give one host's packets the address of another. *)
OwnAddresses ==
    /\ \A i \in Slots : Full(table[i]) => table[i].mac \in Claims[table[i].ip]
    /\ \A k \in Keys : Full(cache[k]) => cache[k].mac \in Claims[cache[k].ip]
    /\ \A i \in 1..Len(outQ) :
          outQ[i].mac # None => outQ[i].mac \in Claims[outQ[i].ip]
    /\ \A s \in sent : s.mac \in Claims[s.ip]

(* Every IP packet given to the output queue is in exactly one place: the  *)
(* queue, the hands of the GNET handler, the ARP buffer, on the device or  *)
(* dropped.  Buffering makes a copy and flushing hands it back; neither    *)
(* may send a packet twice or forget one.                                  *)
Places(id) ==
    Cardinality({i \in 1..Len(outQ) : outQ[i].id = id})
    + (IF gnet = "miss" /\ hand.id = id THEN 1 ELSE 0)
    + Cardinality({i \in 1..MaxBuffers : Full(buffer[i]) /\ buffer[i].id = id})
    + Cardinality({s \in sent : s.id = id})
    + (IF id \in gone THEN 1 ELSE 0)
PacketInOnePlace == \A id \in 1..arrived : Places(id) = 1

(* Nothing ever retries a request, so a packet in the buffer waits for one *)
(* that is still on its way, or for the answer to one, unless an ARP       *)
(* packet of its host was lost: a packet buffered after the answer to an   *)
(* earlier request flushed the buffer must have its own.                   *)
AnswerComing ==
    \A i \in 1..MaxBuffers : Full(buffer[i]) =>
        LET h == buffer[i].ip IN
        \/ h \in lost
        \/ gnet = "request" /\ hand.ip = h
        \/ \E k \in 1..Len(outQ) : outQ[k].kind = "request" /\ outQ[k].ip = h
        \/ asked[h] > 0
        \/ \E k \in 1..Len(workQ) : workQ[k].op = "reply" /\ workQ[k].ip = h

(* If hosts answer, every packet leaves, or is dropped because the         *)
(* interface is down or the buffer full, or waits for an answer lost.      *)
(* Packets that must be resolved again and again, because their entry is   *)
(* replaced or deleted before they are sent, each time cost a request.     *)
Leaves ==
    \A id \in Ids, h \in Hosts :
        (\E i \in 1..Len(outQ) : outQ[i].id = id /\ outQ[i].ip = h)
        ~> (id \in gone \/ h \in lost \/ requests = MaxRequests
            \/ \E s \in sent : s.id = id)
=============================================================================
