---------------------------- MODULE ArpGnetProofs ----------------------------
(***************************************************************************)
(* Proofs about ArpGnet, for any hosts, addresses and sizes of the table,  *)
(* the buffer and the cache: the types, that no host's packets are given   *)
(* the address of another, and that a buffered packet has an answer coming.*)
(*                                                                         *)
(* That an address is its host's goes with the data: an entry, an item of  *)
(* the output queue and an ARP packet that have it make a set of their own *)
(* ("Own..."), and the inductive invariant is a type invariant over those. *)
(* The answer is followed on its way: a request in the output queue, then  *)
(* one asked of the host (or lost), then the reply in the work queue.      *)
(*                                                                         *)
(* That a packet is in one place goes with five sets that split those      *)
(* which arrived.  The last part is about SimpleQueue itself, the queue    *)
(* between the threads.                                                    *)
(***************************************************************************)
EXTENDS ArpGnet, SimpleQueue, FiniteSetTheorems, TLAPS

OwnEntry == {e \in Entry : e.mac \in Claims[e.ip]}
OwnItem == {p \in Item : /\ p.mac # None => p.mac \in Claims[p.ip]
                         /\ p.kind = "ip" => p.id \in Ids}
OwnArp == {a \in ArpPacket : a.mac \in Claims[a.ip]}
OwnSent == {s \in [id : Ids, ip : Hosts, mac : Macs] : s.mac \in Claims[s.ip]}

TableInv == table \in [Slots -> OwnEntry \cup {None}] /\ replace \in Slots
GnetInv == /\ cache \in [Keys -> OwnEntry \cup {None}]
           /\ gnet \in {"idle", "miss", "request"} /\ hand \in OwnItem \cup {None}
           /\ gnet # "idle" => hand \in OwnItem /\ hand.id \in Ids
OutInv == outQ \in Seq(OwnItem) /\ buffer \in [1..MaxBuffers -> Buffered \cup {None}]
WorkInv == /\ workQ \in Seq(OwnArp) /\ worker \in {"idle", "added", "flush"}
           /\ worker # "idle" => workQ # <<>>
           /\ asked \in [Hosts -> Nat]
HistInv == /\ up \in BOOLEAN
           /\ arrived \in 0..MaxPackets /\ requests \in 0..MaxRequests
           /\ sent \subseteq OwnSent /\ gone \subseteq Ids
           /\ lost \subseteq Hosts /\ budget \in Nat

IInv == TableInv /\ GnetInv /\ OutInv /\ WorkInv /\ HistInv

gnetInvVars == <<cache, gnet, hand>>
outInvVars == <<outQ, buffer>>
workInvVars == <<workQ, worker, asked>>
histInvVars == <<up, arrived, requests, sent, gone, lost, budget>>
-----------------------------------------------------------------------------
(* What a step leaves alone keeps its part of the invariant.               *)

LEMMA Unchanged ==
    ASSUME IInv
    PROVE  /\ UNCHANGED <<table, replace>> => TableInv'
           /\ UNCHANGED gnetInvVars => GnetInv'
           /\ UNCHANGED outInvVars => OutInv'
           /\ UNCHANGED workInvVars => WorkInv'
           /\ UNCHANGED histInvVars => HistInv'
BY DEF IInv, TableInv, GnetInv, OutInv, WorkInv, HistInv,
       gnetInvVars, outInvVars, workInvVars, histInvVars

LEMMA HeadTail ==
    ASSUME NEW S, NEW q \in Seq(S), q # <<>>
    PROVE  Head(q) \in S /\ Tail(q) \in Seq(S)
OBVIOUS

LEMMA Appended ==
    ASSUME NEW S, NEW q \in Seq(S), NEW e \in S
    PROVE  Append(q, e) \in Seq(S)
OBVIOUS

LEMMA FoundEntry ==
    ASSUME TableInv, NEW ip \in Hosts, NEW i \in Found(ip)
    PROVE  i \in Slots /\ table[i] \in OwnEntry /\ table[i].ip = ip
<1>1. i \in Slots /\ table[i] # None /\ table[i].ip = ip
  BY DEF Found, Lowest, Full
<1> QED BY <1>1 DEF TableInv

(* Whatever the slot, the table stays a table of its hosts' addresses.     *)
LEMMA AddEntryInv ==
    ASSUME TableInv, NEW ip \in Hosts, NEW mac \in Macs, mac \in Claims[ip],
           AddEntry(ip, mac)
    PROVE  TableInv'
<1>1. [ip |-> ip, mac |-> mac] \in OwnEntry
  BY DEF OwnEntry, Entry
<1>2. table' \in [Slots -> OwnEntry \cup {None}]
  BY <1>1 DEF AddEntry, TableInv
<1>3. replace' \in Slots
  BY ArpGnetAssumption DEF AddEntry, TableInv, Slots
<1> QED BY <1>2, <1>3 DEF TableInv

LEMMA DeleteInv ==
    ASSUME TableInv, NEW ip \in Hosts, DeleteEntry(ip)
    PROVE  TableInv'
BY DEF DeleteEntry, TableInv

(* What an action that only takes the head of the output queue finds.      *)
LEMMA OutHead ==
    ASSUME IInv, outQ # <<>>
    PROVE  Head(outQ) \in OwnItem /\ Tail(outQ) \in Seq(OwnItem)
BY HeadTail, Zenon DEF IInv, OutInv

LEMMA WorkHead ==
    ASSUME IInv, workQ # <<>>
    PROVE  /\ Head(workQ) \in OwnArp /\ Tail(workQ) \in Seq(OwnArp)
           /\ Head(workQ).ip \in Hosts /\ Head(workQ).mac \in Macs
           /\ Head(workQ).mac \in Claims[Head(workQ).ip]
<1>1. Head(workQ) \in OwnArp /\ Tail(workQ) \in Seq(OwnArp)
  BY HeadTail, Zenon DEF IInv, WorkInv
<1> QED BY <1>1 DEF OwnArp, ArpPacket

(* A packet goes to the device with an address of its host.                *)
LEMMA ToDeviceInv ==
    ASSUME IInv, NEW p \in OwnItem, NEW mac,
           p.kind = "ip" => mac \in Macs /\ mac \in Claims[p.ip],
           ToDevice(p, mac)
    PROVE  sent' \subseteq OwnSent /\ asked' \in [Hosts -> Nat]
<1>1. p.ip \in Hosts
  BY DEF OwnItem, Item
<1>2. CASE p.kind = "ip"
  <2>1. [id |-> p.id, ip |-> p.ip, mac |-> mac] \in OwnSent
    BY <1>1, <1>2 DEF OwnItem, OwnSent
  <2> QED BY <1>2, <2>1 DEF ToDevice, IInv, HistInv, WorkInv
<1>3. CASE p.kind = "request"
  BY <1>1, <1>3 DEF ToDevice, IInv, HistInv, WorkInv
<1>4. CASE p.kind \notin {"ip", "request"}
  BY <1>4 DEF ToDevice, IInv, HistInv, WorkInv
<1> QED BY <1>2, <1>3, <1>4
-----------------------------------------------------------------------------
(* One lemma for each thread.                                              *)

LEMMA GNETHandlerInv ==
    ASSUME IInv, GNETHandler
    PROVE  IInv'
<1>1. CASE DropOut
  <2>1. Head(outQ) \in OwnItem /\ Tail(outQ) \in Seq(OwnItem)
    BY <1>1, OutHead DEF DropOut
  <2>2. OutInv'
    BY <1>1, <2>1 DEF DropOut, IInv, OutInv
  <2>3. HistInv'
    BY <1>1, <2>1 DEF DropOut, IInv, HistInv, OwnItem, Item
  <2>4. UNCHANGED <<table, replace>> /\ UNCHANGED gnetInvVars /\ UNCHANGED workInvVars
    BY <1>1 DEF DropOut, gnetVars, netVars, gnetInvVars, workInvVars
  <2> QED BY <2>2, <2>3, <2>4, Unchanged DEF IInv
<1>2. CASE OutValid
  <2> DEFINE p == Head(outQ)
  <2>1. p \in OwnItem /\ Tail(outQ) \in Seq(OwnItem)
    BY <1>2, OutHead DEF OutValid
  <2>2. p.mac # None /\ p.ip \in Hosts /\ p.mac \in Macs /\ p.mac \in Claims[p.ip]
    BY <1>2, <2>1 DEF OutValid, OwnItem, Item
  <2>3. ToDevice(p, p.mac)
    BY <1>2 DEF OutValid
  <2>4. sent' \subseteq OwnSent /\ asked' \in [Hosts -> Nat]
    BY <2>1, <2>2, <2>3, ToDeviceInv
  <2>5. [ip |-> p.ip, mac |-> p.mac] \in OwnEntry
    BY <2>2 DEF OwnEntry, Entry
  <2>6. cache' \in [Keys -> OwnEntry \cup {None}]
    BY <1>2, <2>5 DEF OutValid, IInv, GnetInv
  <2>7. GnetInv'
    BY <1>2, <2>6 DEF OutValid, IInv, GnetInv
  <2>8. OutInv' /\ WorkInv' /\ HistInv'
    BY <1>2, <2>1, <2>4 DEF OutValid, IInv, OutInv, WorkInv, HistInv
  <2>9. UNCHANGED <<table, replace>>
    BY <1>2 DEF OutValid
  <2> QED BY <2>7, <2>8, <2>9, Unchanged DEF IInv
<1>3. CASE OutRequest
  <2>1. Head(outQ) \in OwnItem /\ Tail(outQ) \in Seq(OwnItem)
    BY <1>3, OutHead DEF OutRequest
  <2>2. sent' \subseteq OwnSent /\ asked' \in [Hosts -> Nat]
    BY <1>3, <2>1, ToDeviceInv DEF OutRequest
  <2>3. OutInv' /\ WorkInv' /\ HistInv'
    BY <1>3, <2>1, <2>2 DEF OutRequest, IInv, OutInv, WorkInv, HistInv
  <2>4. UNCHANGED <<table, replace>> /\ UNCHANGED gnetInvVars
    BY <1>3 DEF OutRequest, gnetVars, gnetInvVars
  <2> QED BY <2>3, <2>4, Unchanged DEF IInv
<1>4. CASE OutCached
  <2> DEFINE p == Head(outQ)
             e == cache[CacheKey[p.ip]]
  <2>1. p \in OwnItem /\ Tail(outQ) \in Seq(OwnItem)
    BY <1>4, OutHead DEF OutCached
  <2>2. p.ip \in Hosts /\ CacheKey[p.ip] \in Keys
    BY <2>1 DEF OwnItem, Item, Keys
  <2>3. e # None /\ e.ip = p.ip
    BY <1>4 DEF OutCached, Cached, Full
  <2>4. e \in OwnEntry
    BY <2>2, <2>3 DEF IInv, GnetInv
  <2>5. e.mac \in Macs /\ e.mac \in Claims[p.ip]
    BY <2>3, <2>4 DEF OwnEntry, Entry
  <2>6. ToDevice(p, e.mac)
    BY <1>4 DEF OutCached
  <2>7. sent' \subseteq OwnSent /\ asked' \in [Hosts -> Nat]
    BY <2>1, <2>5, <2>6, ToDeviceInv
  <2>8. OutInv' /\ WorkInv' /\ HistInv'
    BY <1>4, <2>1, <2>7 DEF OutCached, IInv, OutInv, WorkInv, HistInv
  <2>9. UNCHANGED <<table, replace>> /\ UNCHANGED gnetInvVars
    BY <1>4 DEF OutCached, gnetVars, gnetInvVars
  <2> QED BY <2>8, <2>9, Unchanged DEF IInv
<1>5. CASE Resolve
  <2> DEFINE p == Head(outQ)
  <2>1. p \in OwnItem /\ Tail(outQ) \in Seq(OwnItem)
    BY <1>5, OutHead DEF Resolve
  <2>2. p.kind = "ip" /\ p.ip \in Hosts /\ p.id \in Ids
    BY <1>5, <2>1 DEF Resolve, OwnItem, Item
  <2>3. /\ UNCHANGED <<table, replace>> /\ UNCHANGED workInvVars
        /\ UNCHANGED histInvVars /\ UNCHANGED <<cache, buffer>>
    BY <1>5 DEF Resolve, netVars, histVars, workInvVars, histInvVars
  <2>4. ASSUME NEW i \in Found(p.ip),
               outQ' = Append(Tail(outQ), [p EXCEPT !.mac = table[i].mac]),
               UNCHANGED <<gnet, hand>>
        PROVE  OutInv' /\ GnetInv'
    <3>1. table[i] \in OwnEntry /\ table[i].ip = p.ip
      BY <2>2, FoundEntry DEF IInv
    <3>2. [p EXCEPT !.mac = table[i].mac] \in OwnItem
      BY <2>1, <2>2, <3>1 DEF OwnItem, Item, OwnEntry, Entry
    <3>3. outQ' \in Seq(OwnItem)
      BY <2>1, <2>4, <3>2, Appended, Zenon
    <3> QED BY <2>3, <2>4, <3>3, Unchanged DEF IInv, OutInv, gnetInvVars
  <2>5. ASSUME gnet' = "miss", hand' = p, outQ' = Tail(outQ)
        PROVE  OutInv' /\ GnetInv'
    BY <2>1, <2>2, <2>3, <2>5 DEF IInv, OutInv, GnetInv
  <2>6. OutInv' /\ GnetInv'
    BY <1>5, <2>4, <2>5 DEF Resolve
  <2> QED BY <2>3, <2>6, Unchanged DEF IInv
<1>6. CASE AddBuffer
  <2>1. hand \in OwnItem /\ hand.id \in Ids /\ hand.ip \in Hosts
    BY <1>6 DEF AddBuffer, IInv, GnetInv, OwnItem, Item
  <2>2. [id |-> hand.id, ip |-> hand.ip] \in Buffered
    BY <2>1 DEF Buffered
  <2>3. buffer' \in [1..MaxBuffers -> Buffered \cup {None}] /\ gone' \subseteq Ids
    BY <1>6, <2>1, <2>2 DEF AddBuffer, IInv, OutInv, HistInv
  <2>4. GnetInv'
    BY <1>6, <2>1 DEF AddBuffer, IInv, GnetInv
  <2>5. OutInv' /\ HistInv'
    BY <1>6, <2>3 DEF AddBuffer, IInv, OutInv, HistInv
  <2>6. UNCHANGED <<table, replace>> /\ UNCHANGED workInvVars
    BY <1>6 DEF AddBuffer, netVars, workInvVars
  <2> QED BY <2>4, <2>5, <2>6, Unchanged DEF IInv
<1>7. CASE SendRequest
  <2> DEFINE q == [kind |-> "request", id |-> 0, ip |-> hand.ip, mac |-> None]
  <2>1. hand.ip \in Hosts
    BY <1>7 DEF SendRequest, IInv, GnetInv, OwnItem, Item
  <2>2. q \in OwnItem
    BY <2>1, ArpGnetAssumption DEF OwnItem, Item
  <2>3. outQ' = Append(outQ, q)
    BY <1>7 DEF SendRequest
  <2>4. outQ' \in Seq(OwnItem)
    BY <2>2, <2>3, Appended, Zenon DEF IInv, OutInv
  <2>5. OutInv' /\ GnetInv'
    BY <1>7, <2>4 DEF SendRequest, IInv, OutInv, GnetInv
  <2>6. HistInv'
    BY <1>7, ArpGnetAssumption DEF SendRequest, IInv, HistInv
  <2>7. UNCHANGED <<table, replace>> /\ UNCHANGED workInvVars
    BY <1>7 DEF SendRequest, netVars, workInvVars
  <2> QED BY <2>5, <2>6, <2>7, Unchanged DEF IInv
<1> QED BY <1>1, <1>2, <1>3, <1>4, <1>5, <1>6, <1>7 DEF GNETHandler

LEMMA ARPProcessInv ==
    ASSUME IInv, ARPProcess
    PROVE  IInv'
<1>1. CASE LearnSender
  <2>1. TableInv'
    BY <1>1, WorkHead, AddEntryInv DEF LearnSender, IInv
  <2>2. WorkInv'
    BY <1>1 DEF LearnSender, netVars, IInv, WorkInv
  <2>3. UNCHANGED gnetInvVars /\ UNCHANGED outInvVars /\ UNCHANGED histInvVars
    BY <1>1 DEF LearnSender, gnetVars, histVars, gnetInvVars, outInvVars, histInvVars
  <2> QED BY <2>1, <2>2, <2>3, Unchanged DEF IInv
<1>2. CASE ForOthers
  <2>1. workQ # <<>>
    BY <1>2 DEF ForOthers, IInv, WorkInv
  <2>2. WorkInv'
    BY <1>2, <2>1, WorkHead DEF ForOthers, IInv, WorkInv
  <2>3. /\ UNCHANGED <<table, replace>> /\ UNCHANGED gnetInvVars
        /\ UNCHANGED outInvVars /\ UNCHANGED histInvVars
    BY <1>2 DEF ForOthers, gnetVars, histVars, gnetInvVars, outInvVars, histInvVars
  <2> QED BY <2>2, <2>3, Unchanged DEF IInv
<1>3. CASE ReplyTo
  <2> DEFINE q == [kind |-> "reply", id |-> 0, ip |-> Head(workQ).ip,
                   mac |-> Head(workQ).mac]
  <2>1. workQ # <<>>
    BY <1>3 DEF ReplyTo, IInv, WorkInv
  <2>2. q \in OwnItem
    BY <2>1, WorkHead, ArpGnetAssumption DEF OwnItem, Item
  <2>3. outQ' = Append(outQ, q)
    BY <1>3 DEF ReplyTo
  <2>4. outQ' \in Seq(OwnItem)
    BY <2>2, <2>3, Appended, Zenon DEF IInv, OutInv
  <2>5. OutInv' /\ WorkInv'
    BY <1>3, <2>1, <2>4, WorkHead DEF ReplyTo, IInv, OutInv, WorkInv
  <2>6. UNCHANGED <<table, replace>> /\ UNCHANGED gnetInvVars /\ UNCHANGED histInvVars
    BY <1>3 DEF ReplyTo, gnetVars, histVars, gnetInvVars, histInvVars
  <2> QED BY <2>5, <2>6, Unchanged DEF IInv
<1>4. CASE Flush
  <2> DEFINE waiting == {i \in 1..MaxBuffers :
                            Full(buffer[i]) /\ buffer[i].ip = Head(workQ).ip}
             q(i) == [kind |-> "ip", id |-> buffer[i].id, ip |-> buffer[i].ip,
                      mac |-> None]
  <2>1. workQ # <<>>
    BY <1>4 DEF Flush, IInv, WorkInv
  <2>2. ASSUME NEW i \in Lowest(waiting), buffer' = [buffer EXCEPT ![i] = None],
               outQ' = Append(outQ, q(i)), worker' = "flush", UNCHANGED workQ
        PROVE  OutInv' /\ WorkInv'
    <3>1. buffer[i] \in Buffered
      BY DEF Lowest, Full, IInv, OutInv
    <3>2. q(i) \in OwnItem
      BY <3>1, ArpGnetAssumption DEF OwnItem, Item, Buffered, Ids
    <3>3. outQ' \in Seq(OwnItem)
      BY <2>2, <3>2, Appended, Zenon DEF IInv, OutInv
    <3> QED BY <1>4, <2>1, <2>2, <3>3 DEF Flush, IInv, OutInv, WorkInv
  <2>3. ASSUME worker' = "idle", workQ' = Tail(workQ), UNCHANGED <<buffer, outQ>>
        PROVE  OutInv' /\ WorkInv'
    BY <1>4, <2>1, <2>3, WorkHead DEF Flush, IInv, OutInv, WorkInv
  <2>4. OutInv' /\ WorkInv'
    BY <1>4, <2>2, <2>3 DEF Flush
  <2>5. UNCHANGED <<table, replace>> /\ UNCHANGED gnetInvVars /\ UNCHANGED histInvVars
    BY <1>4 DEF Flush, gnetVars, histVars, gnetInvVars, histInvVars
  <2> QED BY <2>4, <2>5, Unchanged DEF IInv
<1> QED BY <1>1, <1>2, <1>3, <1>4 DEF ARPProcess

LEMMA AnnounceInv ==
    ASSUME IInv, NEW h \in Hosts, NEW op \in {"request", "reply", "other"},
           Announce(h, op)
    PROVE  workQ' \in Seq(OwnArp) /\ workQ' # <<>>
<1>1. PICK m \in Claims[h] : workQ' = Append(workQ, [op |-> op, ip |-> h, mac |-> m])
  BY DEF Announce
<1>2. [op |-> op, ip |-> h, mac |-> m] \in OwnArp
  BY ArpGnetAssumption DEF OwnArp, ArpPacket
<1> QED BY <1>1, <1>2 DEF IInv, WorkInv

LEMMA OthersInv ==
    ASSUME IInv, NEW h \in Hosts,
           SendIP(h) \/ Answer(h) \/ Lose(h) \/ HostSpeaks(h)
    PROVE  IInv'
<1>1. CASE SendIP(h)
  <2> DEFINE q == [kind |-> "ip", id |-> arrived + 1, ip |-> h, mac |-> None]
  <2>1. arrived + 1 \in Ids
    BY <1>1, ArpGnetAssumption DEF SendIP, IInv, HistInv, Ids
  <2>2. q \in OwnItem
    BY <2>1, ArpGnetAssumption DEF OwnItem, Item, Ids
  <2>3. outQ' = Append(outQ, q)
    BY <1>1 DEF SendIP
  <2>4. outQ' \in Seq(OwnItem)
    BY <2>2, <2>3, Appended, Zenon DEF IInv, OutInv
  <2>5. OutInv' /\ HistInv'
    BY <1>1, <2>1, <2>4 DEF SendIP, IInv, OutInv, HistInv, Ids
  <2>6. UNCHANGED <<table, replace>> /\ UNCHANGED gnetInvVars /\ UNCHANGED workInvVars
    BY <1>1 DEF SendIP, gnetVars, netVars, gnetInvVars, workInvVars
  <2> QED BY <2>5, <2>6, Unchanged DEF IInv
<1>2. CASE Answer(h)
  <2>1. workQ' \in Seq(OwnArp) /\ workQ' # <<>>
    BY <1>2, AnnounceInv DEF Answer
  <2>2. WorkInv'
    BY <1>2, <2>1 DEF Answer, IInv, WorkInv
  <2>3. /\ UNCHANGED <<table, replace>> /\ UNCHANGED gnetInvVars
        /\ UNCHANGED outInvVars /\ UNCHANGED histInvVars
    BY <1>2 DEF Answer, gnetVars, gnetInvVars, outInvVars, histInvVars
  <2> QED BY <2>2, <2>3, Unchanged DEF IInv
<1>3. CASE Lose(h)
  <2>1. WorkInv' /\ HistInv'
    BY <1>3 DEF Lose, Spend, IInv, WorkInv, HistInv
  <2>2. UNCHANGED <<table, replace>> /\ UNCHANGED gnetInvVars /\ UNCHANGED outInvVars
    BY <1>3 DEF Lose, gnetVars, gnetInvVars, outInvVars
  <2> QED BY <2>1, <2>2, Unchanged DEF IInv
<1>4. CASE HostSpeaks(h)
  <2>1. workQ' \in Seq(OwnArp) /\ workQ' # <<>>
    BY <1>4, AnnounceInv DEF HostSpeaks
  <2>2. WorkInv' /\ HistInv'
    BY <1>4, <2>1 DEF HostSpeaks, Spend, IInv, WorkInv, HistInv
  <2>3. UNCHANGED <<table, replace>> /\ UNCHANGED gnetInvVars /\ UNCHANGED outInvVars
    BY <1>4 DEF HostSpeaks, gnetVars, gnetInvVars, outInvVars
  <2> QED BY <2>2, <2>3, Unchanged DEF IInv
<1> QED BY <1>1, <1>2, <1>3, <1>4

LEMMA OperatorInv ==
    ASSUME IInv, Operator
    PROVE  IInv'
<1>1. TableInv
  BY DEF IInv
<1>2. ASSUME NEW g \in Hosts, NEW m \in Claims[g], AddEntry(g, m)
      PROVE  TableInv'
  <2>1. m \in Macs
    BY ArpGnetAssumption
  <2> QED BY <1>1, <1>2, <2>1, AddEntryInv
<1>3. ASSUME NEW g \in Hosts, DeleteEntry(g)
      PROVE  TableInv'
  BY <1>1, <1>3, DeleteInv
<1>4. ASSUME ReInitTable PROVE TableInv'
  BY <1>1, <1>4, ArpGnetAssumption DEF ReInitTable, TableInv, Slots
<1>5. TableInv'
  BY <1>2, <1>3, <1>4, Unchanged DEF Operator
<1>6. up' \in BOOLEAN
  <2>1. up' = up \/ up' = ~up
    BY Zenon DEF Operator
  <2> QED BY <2>1, Zenon DEF IInv, HistInv
<1>7. HistInv'
  BY <1>6 DEF Operator, Spend, IInv, HistInv
<1>8. UNCHANGED gnetInvVars /\ UNCHANGED outInvVars /\ UNCHANGED workInvVars
  BY DEF Operator, gnetVars, netVars, gnetInvVars, outInvVars, workInvVars
<1> QED BY <1>5, <1>7, <1>8, Unchanged DEF IInv

LEMMA InitInv == Init => IInv
<1> SUFFICES ASSUME Init PROVE IInv
  OBVIOUS
<1>1. TableInv /\ GnetInv
  BY ArpGnetAssumption DEF Init, TableInv, GnetInv, Slots
<1>2. OutInv /\ WorkInv /\ HistInv
  BY ArpGnetAssumption DEF Init, OutInv, WorkInv, HistInv
<1> QED BY <1>1, <1>2 DEF IInv

LEMMA StepInv == IInv /\ [Next]_vars => IInv'
<1> SUFFICES ASSUME IInv, [Next]_vars PROVE IInv'
  OBVIOUS
<1>1. CASE \E h \in Hosts : SendIP(h) \/ Answer(h) \/ Lose(h) \/ HostSpeaks(h)
  BY <1>1, OthersInv
<1>2. CASE GNETHandler
  BY <1>2, GNETHandlerInv
<1>3. CASE ARPProcess
  BY <1>3, ARPProcessInv
<1>4. CASE Operator
  BY <1>4, OperatorInv
<1>5. CASE UNCHANGED vars
  <2>1. /\ UNCHANGED <<table, replace>> /\ UNCHANGED gnetInvVars
        /\ UNCHANGED outInvVars /\ UNCHANGED workInvVars /\ UNCHANGED histInvVars
    BY <1>5 DEF vars, gnetInvVars, outInvVars, workInvVars, histInvVars
  <2> QED BY <2>1, Unchanged DEF IInv
<1> QED BY <1>1, <1>2, <1>3, <1>4, <1>5 DEF Next

LEMMA Invariance == Spec => []IInv
BY InitInv, StepInv, PTL DEF Spec
-----------------------------------------------------------------------------
LEMMA SeqOfSubset ==
    ASSUME NEW S, NEW T, S \subseteq T, NEW q \in Seq(S)
    PROVE  q \in Seq(T)
OBVIOUS

LEMMA IInvTypeOK == IInv => TypeOK
<1> SUFFICES ASSUME IInv PROVE TypeOK
  OBVIOUS
<1>1. outQ \in Seq(Item)
  BY SeqOfSubset, Zenon DEF IInv, OutInv, OwnItem
<1>2. workQ \in Seq(ArpPacket)
  BY SeqOfSubset, Zenon DEF IInv, WorkInv, OwnArp
<1>3. table \in [Slots -> Entry \cup {None}] /\ cache \in [Keys -> Entry \cup {None}]
  BY DEF IInv, TableInv, GnetInv, OwnEntry
<1>4. sent \subseteq [id : Ids, ip : Hosts, mac : Macs] /\ hand \in Item \cup {None}
  BY DEF IInv, HistInv, GnetInv, OwnSent, OwnItem
<1> QED BY <1>1, <1>2, <1>3, <1>4
        DEF IInv, TableInv, GnetInv, OutInv, WorkInv, HistInv, TypeOK

LEMMA IInvOwn == IInv => OwnAddresses
<1> SUFFICES ASSUME IInv PROVE OwnAddresses
  OBVIOUS
<1>1. \A i \in Slots : Full(table[i]) => table[i].mac \in Claims[table[i].ip]
  BY DEF IInv, TableInv, OwnEntry, Full
<1>2. \A k \in Keys : Full(cache[k]) => cache[k].mac \in Claims[cache[k].ip]
  BY DEF IInv, GnetInv, OwnEntry, Full
<1>3. \A i \in 1..Len(outQ) : outQ[i] \in OwnItem
  BY DEF IInv, OutInv
<1>4. \A s \in sent : s.mac \in Claims[s.ip]
  BY DEF IInv, HistInv, OwnSent
<1> QED BY <1>1, <1>2, <1>3, <1>4 DEF OwnAddresses, OwnItem

(* The table, the buffer, the cache and the queues between the GNET        *)
(* handler and the worker (arp.c, gnet.c) keep their types.                *)
THEOREM TypeCorrect == Spec => []TypeOK
BY Invariance, IInvTypeOK, PTL

(* Neither the ARP table nor the direct mapped cache nor the buffer ever   *)
(* gives a packet the hardware address of a host that is not its next hop, *)
(* for any sizes and cache keys: replacing, deleting and reusing entries   *)
(* (arp.c:243-325) and sharing keys of the cache (gnet.c:782-806) mix no   *)
(* two hosts up.                                                           *)
THEOREM NoMixUp == Spec => []OwnAddresses
BY Invariance, IInvOwn, PTL
-----------------------------------------------------------------------------
(* Sequences: where an element is after the first one is taken, or another *)
(* one put behind.                                                         *)

LEMMA TailItems ==
    ASSUME NEW S, NEW q \in Seq(S), q # <<>>
    PROVE  /\ 1 \in 1..Len(q) /\ q[1] = Head(q)
           /\ \A k \in 1..Len(q) : k # 1 => k - 1 \in 1..Len(Tail(q))
           /\ \A k \in 1..Len(Tail(q)) : k + 1 \in 1..Len(q) /\ Tail(q)[k] = q[k + 1]
OBVIOUS

LEMMA AppendItems ==
    ASSUME NEW S, NEW q \in Seq(S), NEW e \in S
    PROVE  /\ Len(q) + 1 \in 1..Len(Append(q, e)) /\ Append(q, e)[Len(q) + 1] = e
           /\ \A k \in 1..Len(q) : k \in 1..Len(Append(q, e)) /\ Append(q, e)[k] = q[k]
           /\ \A k \in 1..Len(Append(q, e)) : k \in 1..Len(q) \/ k = Len(q) + 1
OBVIOUS
-----------------------------------------------------------------------------
(* The answer a buffered packet waits for.                                 *)

Asking(q, h) == \E k \in 1..Len(q) : q[k].kind = "request" /\ q[k].ip = h
Answering(q, h) == \E k \in 1..Len(q) : q[k].op = "reply" /\ q[k].ip = h
Coming(h) == \/ h \in lost
             \/ gnet = "request" /\ hand.ip = h
             \/ Asking(outQ, h)
             \/ asked[h] > 0
             \/ Answering(workQ, h)
ComingInv == \A i \in 1..MaxBuffers : Full(buffer[i]) => Coming(buffer[i].ip)

LEMMA AskingTail ==
    ASSUME NEW q \in Seq(OwnItem), q # <<>>, NEW h, Asking(q, h)
    PROVE  Asking(Tail(q), h) \/ (Head(q).kind = "request" /\ Head(q).ip = h)
<1>1. PICK k \in 1..Len(q) : q[k].kind = "request" /\ q[k].ip = h
  BY DEF Asking
<1>2. CASE k = 1
  BY <1>1, <1>2, TailItems
<1>3. CASE k # 1
  <2>1. k - 1 \in 1..Len(Tail(q)) /\ Tail(q)[k - 1] = q[k]
    BY <1>3, TailItems
  <2> QED BY <1>1, <2>1 DEF Asking
<1> QED BY <1>2, <1>3

LEMMA AnsweringTail ==
    ASSUME NEW q \in Seq(OwnArp), q # <<>>, NEW h, Answering(q, h)
    PROVE  Answering(Tail(q), h) \/ (Head(q).op = "reply" /\ Head(q).ip = h)
<1>1. PICK k \in 1..Len(q) : q[k].op = "reply" /\ q[k].ip = h
  BY DEF Answering
<1>2. CASE k = 1
  BY <1>1, <1>2, TailItems
<1>3. CASE k # 1
  <2>1. k - 1 \in 1..Len(Tail(q)) /\ Tail(q)[k - 1] = q[k]
    BY <1>3, TailItems
  <2> QED BY <1>1, <2>1 DEF Answering
<1> QED BY <1>2, <1>3

LEMMA AskingAppend ==
    ASSUME NEW q \in Seq(OwnItem), NEW e \in OwnItem, NEW h,
           Asking(q, h) \/ (e.kind = "request" /\ e.ip = h)
    PROVE  Asking(Append(q, e), h)
BY AppendItems DEF Asking

LEMMA AnsweringAppend ==
    ASSUME NEW q \in Seq(OwnArp), NEW e \in OwnArp, NEW h,
           Answering(q, h) \/ (e.op = "reply" /\ e.ip = h)
    PROVE  Answering(Append(q, e), h)
BY AppendItems DEF Answering

LEMMA ComingTypes ==
    ASSUME IInv
    PROVE  /\ outQ \in Seq(OwnItem) /\ workQ \in Seq(OwnArp)
           /\ asked \in [Hosts -> Nat] /\ lost \subseteq Hosts
           /\ \A i \in 1..MaxBuffers : Full(buffer[i]) => buffer[i].ip \in Hosts
BY DEF IInv, OutInv, WorkInv, HistInv, Full, Buffered

(* What the answer comes through moves on: from the output queue to the    *)
(* host or the lost, from there to the work queue.                         *)
LEMMA ComingOn ==
    ASSUME IInv, IInv', NEW h \in Hosts, Coming(h),
           DropOut \/ OutValid \/ OutRequest \/ OutCached \/ Resolve \/ AddBuffer \/ SendRequest
    PROVE  Coming(h)'
<1> DEFINE p == Head(outQ)
<1> USE ComingTypes
<1>1. CASE AddBuffer
  BY <1>1 DEF AddBuffer, netVars, Coming
<1>2. CASE SendRequest
  <2> DEFINE q == [kind |-> "request", id |-> 0, ip |-> hand.ip, mac |-> None]
  <2>1. hand.ip \in Hosts
    BY <1>2 DEF SendRequest, IInv, GnetInv, OwnItem, Item
  <2>2. q \in OwnItem
    BY <2>1, ArpGnetAssumption DEF OwnItem, Item
  <2>3. outQ' = Append(outQ, q) /\ UNCHANGED <<lost, asked, workQ>> /\ gnet = "request"
    BY <1>2 DEF SendRequest, netVars
  <2>4. Asking(outQ, h) \/ hand.ip = h => Asking(outQ, h)'
    <3>1. Asking(outQ, h) \/ (q.kind = "request" /\ q.ip = h) => Asking(Append(outQ, q), h)
      BY <2>2, AskingAppend
    <3> QED BY <2>3, <3>1 DEF Asking
  <2> QED BY <2>3, <2>4 DEF Coming, Answering
<1>3. CASE DropOut \/ OutValid \/ OutRequest \/ OutCached \/ Resolve
  <2>1. /\ outQ # <<>> /\ gnet = "idle" /\ lost \subseteq lost'
        /\ UNCHANGED workQ
    BY <1>3 DEF DropOut, OutValid, OutRequest, OutCached, Resolve, netVars, histVars
  <2>2. /\ p \in OwnItem /\ p.ip \in Hosts /\ Tail(outQ) \in Seq(OwnItem)
    BY <2>1, OutHead DEF OwnItem, Item
  <2>3. asked[h] > 0 => asked'[h] > 0
    <3>1. UNCHANGED asked \/ asked' = [asked EXCEPT ![p.ip] = @ + 1]
      BY <1>3 DEF DropOut, OutValid, OutRequest, OutCached, Resolve, netVars, ToDevice
    <3> QED BY <2>2, <3>1
  <2>4. p.kind = "request" => p.ip \in lost' \/ asked'[p.ip] > 0
    <3> SUFFICES ASSUME p.kind = "request" PROVE p.ip \in lost' \/ asked'[p.ip] > 0
      OBVIOUS
    <3>1. CASE DropOut
      BY <3>1 DEF DropOut
    <3>2. CASE OutValid \/ OutRequest
      <4>1. asked' = [asked EXCEPT ![p.ip] = @ + 1]
        BY <3>2 DEF OutValid, OutRequest, ToDevice
      <4> QED BY <2>2, <4>1
    <3>3. CASE OutCached \/ Resolve
      BY <3>3 DEF OutCached, Resolve
    <3> QED BY <1>3, <3>1, <3>2, <3>3
  <2>5. Asking(Tail(outQ), h) => Asking(outQ, h)'
    <3>1. CASE outQ' = Tail(outQ)
      BY <3>1 DEF Asking
    <3>2. CASE outQ' # Tail(outQ)
      <4>1. Resolve /\ p.kind = "ip"
        BY <1>3, <3>2 DEF DropOut, OutValid, OutRequest, OutCached, Resolve
      <4>2. PICK i \in Found(p.ip) : outQ' = Append(Tail(outQ), [p EXCEPT !.mac = table[i].mac])
        BY <3>2, <4>1 DEF Resolve
      <4>3. [p EXCEPT !.mac = table[i].mac] \in OwnItem
        <5>1. table[i] \in OwnEntry /\ table[i].ip = p.ip
          BY <2>2, FoundEntry DEF IInv
        <5> QED BY <2>2, <5>1, <4>1 DEF OwnItem, Item, OwnEntry, Entry
      <4> HIDE DEF p
      <4>4. Asking(Tail(outQ), h) =>
               Asking(Append(Tail(outQ), [p EXCEPT !.mac = table[i].mac]), h)
        BY <2>2, <4>3, AskingAppend
      <4> QED BY <4>2, <4>4 DEF Asking
    <3> QED BY <3>1, <3>2
  <2>6. Asking(outQ, h) => Coming(h)'
    BY <2>1, <2>2, <2>4, <2>5, AskingTail DEF Coming
  <2> QED BY <2>1, <2>3, <2>6 DEF Coming, Answering
<1> QED BY <1>1, <1>2, <1>3

LEMMA ComingStep == IInv /\ IInv' /\ ComingInv /\ [Next]_vars => ComingInv'
<1> SUFFICES ASSUME IInv, IInv', ComingInv, [Next]_vars PROVE ComingInv'
  OBVIOUS
<1> USE ComingTypes
<1>1. ASSUME UNCHANGED buffer, \A h \in Hosts : Coming(h) => Coming(h)' PROVE ComingInv'
  BY <1>1 DEF ComingInv, Full
<1>2. ASSUME UNCHANGED <<lost, gnet, hand, outQ, asked, workQ>>, NEW h \in Hosts, Coming(h)
      PROVE  Coming(h)'
  BY <1>2 DEF Coming, Asking, Answering
<1>3. CASE AddBuffer
  <2>1. ASSUME NEW i \in 1..MaxBuffers, Full(buffer[i])' PROVE Coming(buffer[i].ip)'
    <3>1. CASE buffer'[i] = buffer[i]
      <4>1. Full(buffer[i]) /\ buffer[i].ip \in Hosts /\ Coming(buffer[i].ip)
        BY <2>1, <3>1 DEF Full, ComingInv
      <4>2. \A h \in Hosts : Coming(h) => Coming(h)'
        BY <1>3, ComingOn
      <4> QED BY <3>1, <4>1, <4>2 DEF Coming, Asking, Answering
    <3>2. CASE buffer'[i] # buffer[i]
      <4>1. buffer'[i] = [id |-> hand.id, ip |-> hand.ip]
        BY <1>3, <3>2 DEF AddBuffer, Lowest, IInv, OutInv
      <4>2. gnet' = "request" /\ hand' = hand
        BY <1>3 DEF AddBuffer
      <4> QED BY <4>1, <4>2 DEF Coming
    <3> QED BY <3>1, <3>2
  <2> QED BY <2>1 DEF ComingInv
<1>4. CASE DropOut \/ OutValid \/ OutRequest \/ OutCached \/ Resolve \/ SendRequest
  <2>1. UNCHANGED buffer
    BY <1>4 DEF DropOut, OutValid, OutRequest, OutCached, Resolve, SendRequest
  <2> QED BY <1>1, <1>4, <2>1, ComingOn
<1>5. CASE LearnSender
  BY <1>1, <1>2, <1>5 DEF LearnSender, gnetVars, netVars, histVars
<1>6. CASE ForOthers \/ ReplyTo
  <2>1. workQ # <<>> /\ Head(workQ).op # "reply" /\ workQ' = Tail(workQ)
        /\ UNCHANGED <<buffer, lost, gnet, hand, asked>>
    BY <1>6 DEF ForOthers, ReplyTo, IInv, WorkInv, gnetVars, histVars
  <2>2. \A h \in Hosts : Answering(workQ, h) => Answering(workQ, h)'
    <3>1. \A h \in Hosts : Answering(workQ, h) => Answering(Tail(workQ), h)
      BY <2>1, AnsweringTail
    <3> QED BY <2>1, <3>1 DEF Answering
  <2>3. \A h \in Hosts : Asking(outQ, h) => Asking(outQ, h)'
    <3>1. CASE ForOthers
      BY <3>1 DEF ForOthers, Asking
    <3>2. CASE ReplyTo
      <4> DEFINE q == [kind |-> "reply", id |-> 0, ip |-> Head(workQ).ip,
                       mac |-> Head(workQ).mac]
      <4>1. q \in OwnItem
        BY <2>1, WorkHead, ArpGnetAssumption DEF OwnItem, Item
      <4>2. outQ' = Append(outQ, q)
        BY <3>2 DEF ReplyTo
      <4> HIDE DEF q
      <4>3. \A h \in Hosts : Asking(outQ, h) => Asking(Append(outQ, q), h)
        BY <4>1, AskingAppend
      <4> QED BY <4>2, <4>3 DEF Asking
    <3> QED BY <1>6, <3>1, <3>2
  <2>4. \A h \in Hosts : Coming(h) => Coming(h)'
    BY <2>1, <2>2, <2>3 DEF Coming
  <2> QED BY <1>1, <2>1, <2>4
<1>7. CASE Flush
  <2> DEFINE waiting == {i \in 1..MaxBuffers :
                            Full(buffer[i]) /\ buffer[i].ip = Head(workQ).ip}
             q(i) == [kind |-> "ip", id |-> buffer[i].id, ip |-> buffer[i].ip,
                      mac |-> None]
  <2>1. workQ # <<>> /\ UNCHANGED <<lost, gnet, hand, asked>>
    BY <1>7 DEF Flush, IInv, WorkInv, gnetVars, histVars
  <2>2. ASSUME NEW i \in Lowest(waiting), buffer' = [buffer EXCEPT ![i] = None],
               outQ' = Append(outQ, q(i)), UNCHANGED workQ
        PROVE  ComingInv'
    <3>1. buffer[i] \in Buffered
      BY DEF Lowest, Full, IInv, OutInv
    <3>2. q(i) \in OwnItem
      BY <3>1, ArpGnetAssumption DEF OwnItem, Item, Buffered, Ids
    <3> HIDE DEF q
    <3>3. \A h \in Hosts : Asking(outQ, h) => Asking(Append(outQ, q(i)), h)
      BY <3>2, AskingAppend
    <3>4. \A h \in Hosts : Coming(h) => Coming(h)'
      BY <2>1, <2>2, <3>3 DEF Coming, Asking, Answering
    <3>5. \A k \in 1..MaxBuffers : Full(buffer[k])' => buffer'[k] = buffer[k]
      BY <2>2 DEF Full, IInv, OutInv
    <3> QED BY <3>4, <3>5 DEF ComingInv, Full
  <2>3. ASSUME waiting = {}, workQ' = Tail(workQ), UNCHANGED <<buffer, outQ>>
        PROVE  ComingInv'
    <3> SUFFICES ASSUME NEW i \in 1..MaxBuffers, Full(buffer[i]) PROVE Coming(buffer[i].ip)'
      BY <2>3 DEF ComingInv, Full
    <3>1. buffer[i].ip \in Hosts /\ buffer[i].ip # Head(workQ).ip /\ Coming(buffer[i].ip)
      BY <2>3 DEF ComingInv
    <3>2. Answering(workQ, buffer[i].ip) => Answering(Tail(workQ), buffer[i].ip)
      BY <2>1, <3>1, AnsweringTail
    <3> QED BY <2>1, <2>3, <3>1, <3>2 DEF Coming, Asking, Answering
  <2> QED BY <1>7, <2>2, <2>3 DEF Flush
<1>8. ASSUME NEW g \in Hosts, SendIP(g) PROVE ComingInv'
  <2> DEFINE q == [kind |-> "ip", id |-> arrived + 1, ip |-> g, mac |-> None]
  <2>1. outQ' = Append(outQ, q) /\ UNCHANGED <<buffer, lost, gnet, hand, asked, workQ>>
    BY <1>8 DEF SendIP, gnetVars, netVars
  <2>2. q \in OwnItem
    BY <1>8, ArpGnetAssumption DEF SendIP, IInv, HistInv, OwnItem, Item, Ids
  <2> HIDE DEF q
  <2>3. \A h \in Hosts : Asking(outQ, h) => Asking(Append(outQ, q), h)
    BY <2>2, AskingAppend
  <2>4. \A h \in Hosts : Coming(h) => Coming(h)'
    BY <2>1, <2>3 DEF Coming, Asking, Answering
  <2> QED BY <1>1, <2>1, <2>4
<1>9. ASSUME NEW g \in Hosts, Answer(g) \/ HostSpeaks(g) PROVE ComingInv'
  <2>1. PICK op \in {"request", "reply", "other"} : Announce(g, op) /\ (Answer(g) => op = "reply")
    BY <1>9 DEF Answer, HostSpeaks
  <2>2. PICK m \in Claims[g] : workQ' = Append(workQ, [op |-> op, ip |-> g, mac |-> m])
    BY <2>1 DEF Announce
  <2> DEFINE a == [op |-> op, ip |-> g, mac |-> m]
  <2>3. a \in OwnArp
    BY ArpGnetAssumption DEF OwnArp, ArpPacket
  <2>4. workQ' = Append(workQ, a) /\ a.op = op /\ a.ip = g
    BY <2>2
  <2>5. /\ UNCHANGED <<buffer, lost, gnet, hand, outQ>>
        /\ \A h \in Hosts : h # g \/ ~Answer(g) => asked'[h] = asked[h]
    BY <1>9 DEF Answer, HostSpeaks, gnetVars
  <2> HIDE DEF a
  <2>6. \A h \in Hosts : Answering(workQ, h) \/ (a.op = "reply" /\ a.ip = h)
                         => Answering(workQ, h)'
    <3>1. \A h \in Hosts : Answering(workQ, h) \/ (a.op = "reply" /\ a.ip = h)
                           => Answering(Append(workQ, a), h)
      BY <2>3, AnsweringAppend
    <3> QED BY <2>4, <3>1 DEF Answering
  <2>7. \A h \in Hosts : Coming(h) => Coming(h)'
    BY <2>1, <2>4, <2>5, <2>6 DEF Coming, Asking
  <2> QED BY <1>1, <2>5, <2>7
<1>10. ASSUME NEW g \in Hosts, Lose(g) PROVE ComingInv'
  <2>1. /\ UNCHANGED <<buffer, gnet, hand, outQ, workQ>> /\ lost' = lost \cup {g}
        /\ asked' = [asked EXCEPT ![g] = @ - 1]
    BY <1>10 DEF Lose, gnetVars
  <2>2. \A h \in Hosts : Coming(h) => Coming(h)'
    BY <2>1 DEF Coming, Asking, Answering
  <2> QED BY <1>1, <2>1, <2>2
<1>11. CASE Operator \/ UNCHANGED vars
  <2>1. UNCHANGED <<buffer, lost, gnet, hand, outQ, asked, workQ>>
    BY <1>11 DEF Operator, vars, gnetVars, netVars
  <2> QED BY <1>1, <1>2, <2>1
<1> QED BY <1>3, <1>4, <1>5, <1>6, <1>7, <1>8, <1>9, <1>10, <1>11
        DEF Next, GNETHandler, ARPProcess

(* A buffered packet always has an answer coming, or lost one of its       *)
(* host's ARP packets, although requests are never retried and a reply     *)
(* flushes whatever is in the buffer when it is processed                  *)
(* (ARPResolve, ARPFlushBuffer).                                           *)
THEOREM AnswerIsComing == Spec => []AnswerComing
<1>1. Init => ComingInv
  BY DEF Init, ComingInv, Full
<1>2. ComingInv => AnswerComing
  BY DEF ComingInv, AnswerComing, Coming, Asking, Answering
<1> QED BY <1>1, <1>2, ComingStep, Invariance, PTL DEF Spec
-----------------------------------------------------------------------------
(* Where a packet is: the packets in the output queue, in the hands of the *)
(* GNET handler, in the ARP buffer, sent and dropped are disjoint sets,    *)
(* and none of the containers has a packet twice.                          *)

(* The packets of a queue; requests and replies have the number 0.         *)
Kept(q) == {q[k].id : k \in 1..Len(q)} \ {0}
Orderly(q) ==
    /\ \A j, k \in 1..Len(q) : q[j].id = q[k].id /\ q[j].id # 0 => j = k
    /\ \A k \in 1..Len(q) : q[k].kind # "ip" => q[k].id = 0

HandIds == IF gnet = "miss" THEN {hand.id} ELSE {}
FullSlots == {i \in 1..MaxBuffers : Full(buffer[i])}
BufferIds == {buffer[i].id : i \in FullSlots}
SentIds == {s.id : s \in sent}

Split(A, B, C, D, E, U) ==
    /\ A \cup B \cup C \cup D \cup E = U
    /\ A \cap B = {} /\ A \cap C = {} /\ A \cap D = {} /\ A \cap E = {}
    /\ B \cap C = {} /\ B \cap D = {} /\ B \cap E = {}
    /\ C \cap D = {} /\ C \cap E = {} /\ D \cap E = {}

OneSlotEach == \A i, j \in FullSlots : buffer[i].id = buffer[j].id => i = j
SentOnce == \A s, t \in sent : s.id = t.id => s = t
PlaceInv == /\ Orderly(outQ) /\ OneSlotEach /\ SentOnce
            /\ Split(Kept(outQ), HandIds, BufferIds, SentIds, gone, 1..arrived)
-----------------------------------------------------------------------------
(* The output queue: what the first packet and one more are to the rest.   *)

LEMMA KeptTail ==
    ASSUME NEW q \in Seq(OwnItem), q # <<>>, Orderly(q)
    PROVE  /\ Orderly(Tail(q)) /\ Head(q).id \notin Kept(Tail(q))
           /\ Kept(q) = Kept(Tail(q)) \cup ({Head(q).id} \ {0})
           /\ Head(q).kind # "ip" => Head(q).id = 0
<1>1. \A k \in 1..Len(Tail(q)) : k + 1 \in 1..Len(q) /\ Tail(q)[k] = q[k + 1]
  BY TailItems
<1>2. 1 \in 1..Len(q) /\ q[1] = Head(q)
  BY TailItems
<1>3. \A k \in 1..Len(q) : k # 1 => k - 1 \in 1..Len(Tail(q)) /\ Tail(q)[k - 1] = q[k]
  BY <1>1, TailItems
<1>4. Orderly(Tail(q))
  <2>1. ASSUME NEW j \in 1..Len(Tail(q)), NEW k \in 1..Len(Tail(q)),
               Tail(q)[j].id = Tail(q)[k].id, Tail(q)[j].id # 0
        PROVE  j = k
    <3>1. j + 1 = k + 1
      BY <1>1, <2>1 DEF Orderly
    <3> QED BY <3>1
  <2>2. \A k \in 1..Len(Tail(q)) : Tail(q)[k].kind # "ip" => Tail(q)[k].id = 0
    BY <1>1 DEF Orderly
  <2> QED BY <2>1, <2>2 DEF Orderly
<1>5. Head(q).id \notin Kept(Tail(q))
  <2> SUFFICES ASSUME NEW k \in 1..Len(Tail(q)), Tail(q)[k].id = Head(q).id, Head(q).id # 0
               PROVE  FALSE
    BY DEF Kept
  <2>1. k + 1 = 1
    BY <1>1, <1>2 DEF Orderly
  <2> QED BY <2>1
<1>6. Kept(q) \subseteq Kept(Tail(q)) \cup ({Head(q).id} \ {0})
  BY <1>2, <1>3 DEF Kept
<1>7. Kept(Tail(q)) \cup ({Head(q).id} \ {0}) \subseteq Kept(q)
  BY <1>1, <1>2 DEF Kept
<1> QED BY <1>2, <1>4, <1>5, <1>6, <1>7 DEF Orderly

LEMMA KeptAppend ==
    ASSUME NEW q \in Seq(OwnItem), NEW e \in OwnItem, Orderly(q),
           e.id \notin Kept(q), e.kind # "ip" => e.id = 0
    PROVE  /\ Orderly(Append(q, e))
           /\ Kept(Append(q, e)) = Kept(q) \cup ({e.id} \ {0})
<1>1. \A k \in 1..Len(q) : k \in 1..Len(Append(q, e)) /\ Append(q, e)[k] = q[k]
  BY AppendItems
<1>2. Len(q) + 1 \in 1..Len(Append(q, e)) /\ Append(q, e)[Len(q) + 1] = e
  BY AppendItems
<1>3. \A k \in 1..Len(Append(q, e)) : k \in 1..Len(q) \/ k = Len(q) + 1
  BY AppendItems
<1>4. \A k \in 1..Len(q) : q[k].id # 0 => q[k].id # e.id
  BY DEF Kept
<1>5. Orderly(Append(q, e))
  BY <1>1, <1>2, <1>3, <1>4 DEF Orderly
<1>6. Kept(Append(q, e)) \subseteq Kept(q) \cup ({e.id} \ {0})
  BY <1>1, <1>2, <1>3 DEF Kept
<1>7. Kept(q) \cup ({e.id} \ {0}) \subseteq Kept(Append(q, e))
  BY <1>1, <1>2 DEF Kept
<1> QED BY <1>5, <1>6, <1>7

(* A request or a reply takes no packet's place.                           *)
LEMMA KeptOther ==
    ASSUME NEW q \in Seq(OwnItem), NEW e \in OwnItem, Orderly(q), e.id = 0
    PROVE  Orderly(Append(q, e)) /\ Kept(Append(q, e)) = Kept(q)
<1>1. e.id \notin Kept(q)
  BY DEF Kept
<1>2. /\ Orderly(Append(q, e))
      /\ Kept(Append(q, e)) = Kept(q) \cup ({e.id} \ {0})
  BY <1>1, KeptAppend
<1>3. {e.id} \ {0} = {}
  OBVIOUS
<1> QED BY <1>2, <1>3, Zenon

LEMMA PlaceTypes ==
    ASSUME IInv
    PROVE  /\ outQ \in Seq(OwnItem)
           /\ \A i \in FullSlots : i \in 1..MaxBuffers /\ buffer[i] \in Buffered
           /\ \A i \in FullSlots : buffer[i].id \in Ids /\ buffer[i].ip \in Hosts
           /\ buffer \in [1..MaxBuffers -> Buffered \cup {None}]
           /\ 0 \notin Ids /\ arrived \in Nat
<1>1. \A i \in FullSlots : i \in 1..MaxBuffers /\ buffer[i] \in Buffered
  BY DEF IInv, OutInv, FullSlots, Full
<1>2. arrived \in Nat /\ 0 \notin Ids
  BY ArpGnetAssumption DEF IInv, HistInv, Ids
<1> QED BY <1>1, <1>2 DEF IInv, OutInv, Buffered

(* What a step that leaves the packets where they are keeps.               *)
LEMMA PlaceUnchanged ==
    ASSUME PlaceInv, UNCHANGED <<buffer, sent, gone, arrived>>,
           HandIds' = HandIds, Kept(outQ)' = Kept(outQ), Orderly(outQ)'
    PROVE  PlaceInv'
<1>1. OneSlotEach' /\ BufferIds' = BufferIds
  BY DEF PlaceInv, OneSlotEach, BufferIds, FullSlots, Full
<1>2. SentOnce' /\ SentIds' = SentIds
  BY DEF PlaceInv, SentOnce, SentIds
<1>3. (1..arrived)' = 1..arrived
  OBVIOUS
<1> QED BY <1>1, <1>2, <1>3 DEF PlaceInv
-----------------------------------------------------------------------------
(* The head of the output queue is dropped, sent or taken in hand.         *)
LEMMA HeadLeaves ==
    ASSUME IInv, PlaceInv, outQ # <<>>, outQ' = Tail(outQ),
           UNCHANGED <<buffer, arrived>>, gnet = "idle"
    PROVE  LET p == Head(outQ) IN
           /\ p.kind = "ip" /\ UNCHANGED <<gnet, sent>> /\ gone' = gone \cup {p.id}
                 => PlaceInv'
           /\ p.kind = "ip" /\ gnet' = "miss" /\ hand' = p /\ UNCHANGED <<sent, gone>>
                 => PlaceInv'
           /\ p.kind = "ip" /\ UNCHANGED <<gnet, gone>>
              /\ (\E m : sent' = sent \cup {[id |-> p.id, ip |-> p.ip, mac |-> m]})
                 => PlaceInv'
           /\ p.kind # "ip" /\ UNCHANGED <<gnet, sent, gone>> => PlaceInv'
<1> DEFINE p == Head(outQ)
<1>1. p \in OwnItem /\ outQ \in Seq(OwnItem) /\ Orderly(outQ)
  BY OutHead, PlaceTypes DEF PlaceInv
<1> HIDE DEF p
<1>2. /\ Orderly(Tail(outQ)) /\ p.id \notin Kept(Tail(outQ))
      /\ Kept(outQ) = Kept(Tail(outQ)) \cup ({p.id} \ {0})
      /\ p.kind # "ip" => p.id = 0
  BY <1>1, KeptTail DEF p
<1>3. Orderly(outQ)' /\ Kept(outQ)' = Kept(Tail(outQ))
  BY <1>2 DEF Kept, Orderly
<1>4. p.kind = "ip" => p.id # 0
  BY <1>1, PlaceTypes DEF OwnItem
<1>5. /\ OneSlotEach' /\ BufferIds' = BufferIds /\ HandIds = {}
      /\ (1..arrived)' = 1..arrived
  BY DEF PlaceInv, OneSlotEach, BufferIds, FullSlots, Full, HandIds
<1>6. UNCHANGED sent => SentOnce' /\ SentIds' = SentIds
  BY DEF PlaceInv, SentOnce, SentIds
<1>7. UNCHANGED gnet => HandIds' = HandIds
  BY <1>5 DEF HandIds
<1>8. Split(Kept(outQ), HandIds, BufferIds, SentIds, gone, 1..arrived)
  BY DEF PlaceInv
<1>9. ASSUME p.kind = "ip", UNCHANGED <<gnet, sent>>, gone' = gone \cup {p.id}
      PROVE  PlaceInv'
  <2>1. Split(Kept(outQ)', HandIds', BufferIds', SentIds', gone', (1..arrived)')
    BY <1>2, <1>3, <1>4, <1>5, <1>6, <1>7, <1>8, <1>9 DEF Split
  <2> QED BY <1>3, <1>5, <1>6, <1>9, <2>1 DEF PlaceInv
<1>10. ASSUME p.kind = "ip", gnet' = "miss", hand' = p, UNCHANGED <<sent, gone>>
       PROVE  PlaceInv'
  <2>1. HandIds' = {p.id}
    BY <1>10 DEF HandIds
  <2>2. Split(Kept(outQ)', HandIds', BufferIds', SentIds', gone', (1..arrived)')
    BY <1>2, <1>3, <1>4, <1>5, <1>6, <1>8, <1>10, <2>1 DEF Split
  <2> QED BY <1>3, <1>5, <1>6, <1>10, <2>2 DEF PlaceInv
<1>11. ASSUME p.kind = "ip", UNCHANGED <<gnet, gone>>, NEW m,
              sent' = sent \cup {[id |-> p.id, ip |-> p.ip, mac |-> m]}
       PROVE  PlaceInv'
  <2> DEFINE new == [id |-> p.id, ip |-> p.ip, mac |-> m]
  <2>1. SentIds' = SentIds \cup {p.id}
    <3>1. sent' = sent \cup {new} /\ new.id = p.id
      BY <1>11
    <3> HIDE DEF new
    <3> QED BY <3>1 DEF SentIds
  <2>2. p.id \notin SentIds
    BY <1>2, <1>4, <1>8, <1>11 DEF Split
  <2>3. SentOnce'
    BY <1>11, <2>2 DEF PlaceInv, SentOnce, SentIds
  <2>4. Split(Kept(outQ)', HandIds', BufferIds', SentIds', gone', (1..arrived)')
    BY <1>2, <1>3, <1>4, <1>5, <1>7, <1>8, <1>11, <2>1 DEF Split
  <2> QED BY <1>3, <1>5, <2>3, <2>4 DEF PlaceInv
<1>12. ASSUME p.kind # "ip", UNCHANGED <<gnet, sent, gone>>
       PROVE  PlaceInv'
  <2>1. Kept(outQ)' = Kept(outQ)
    BY <1>2, <1>3, <1>12
  <2> QED BY <1>3, <1>7, <1>12, <2>1, PlaceUnchanged
<1> QED BY <1>9, <1>10, <1>11, <1>12 DEF p

LEMMA GNETHandlerPlace ==
    ASSUME IInv, PlaceInv, GNETHandler
    PROVE  PlaceInv'
<1> DEFINE p == Head(outQ)
<1>1. CASE DropOut \/ OutValid \/ OutRequest \/ OutCached
  <2>1. /\ outQ # <<>> /\ outQ' = Tail(outQ) /\ UNCHANGED <<buffer, arrived, gnet>>
        /\ gnet = "idle"
    BY <1>1 DEF DropOut, OutValid, OutRequest, OutCached, gnetVars
  <2>2. CASE DropOut
    BY <2>1, <2>2, HeadLeaves DEF DropOut
  <2>3. CASE OutValid \/ OutRequest \/ OutCached
    <3>1. PICK m : ToDevice(p, m) /\ UNCHANGED gone
      BY <2>3 DEF OutValid, OutRequest, OutCached
    <3>2. p.kind = "ip" => sent' = sent \cup {[id |-> p.id, ip |-> p.ip, mac |-> m]}
      BY <3>1 DEF ToDevice
    <3>3. p.kind # "ip" => UNCHANGED sent
      BY <3>1 DEF ToDevice
    <3> QED BY <2>1, <3>1, <3>2, <3>3, HeadLeaves
  <2> QED BY <1>1, <2>2, <2>3
<1>2. CASE Resolve
  <2>1. /\ outQ # <<>> /\ gnet = "idle" /\ p.kind = "ip"
        /\ UNCHANGED <<buffer, arrived, sent, gone>>
    BY <1>2 DEF Resolve, histVars
  <2>2. ASSUME NEW i \in Found(p.ip), UNCHANGED <<gnet, hand>>,
               outQ' = Append(Tail(outQ), [p EXCEPT !.mac = table[i].mac])
        PROVE  PlaceInv'
    <3>1. p \in OwnItem /\ Tail(outQ) \in Seq(OwnItem) /\ p.ip \in Hosts /\ p.id \in Ids
      BY <2>1, OutHead DEF OwnItem, Item
    <3> DEFINE e == [p EXCEPT !.mac = table[i].mac]
    <3>2. table[i] \in OwnEntry /\ table[i].ip = p.ip
      BY <3>1, FoundEntry DEF IInv
    <3>3. e \in OwnItem /\ e.id = p.id /\ e.kind = p.kind
      BY <2>1, <3>1, <3>2 DEF OwnItem, Item, OwnEntry, Entry
    <3>4. outQ' = Append(Tail(outQ), e)
      BY <2>2
    <3> HIDE DEF e
    <3>5. /\ Orderly(Tail(outQ)) /\ p.id \notin Kept(Tail(outQ))
          /\ Kept(outQ) = Kept(Tail(outQ)) \cup ({p.id} \ {0})
      BY <2>1, PlaceTypes, KeptTail DEF PlaceInv
    <3>6. Orderly(Append(Tail(outQ), e)) /\ Kept(Append(Tail(outQ), e)) = Kept(outQ)
      BY <2>1, <3>1, <3>3, <3>5, KeptAppend
    <3>7. Orderly(outQ)' /\ Kept(outQ)' = Kept(outQ)
      BY <3>4, <3>6 DEF Kept, Orderly
    <3>8. HandIds' = HandIds
      BY <2>2 DEF HandIds
    <3> QED BY <2>1, <3>7, <3>8, PlaceUnchanged
  <2>3. ASSUME gnet' = "miss", hand' = p, outQ' = Tail(outQ)
        PROVE  PlaceInv'
    BY <2>1, <2>3, HeadLeaves
  <2> QED BY <1>2, <2>2, <2>3 DEF Resolve
<1>3. CASE AddBuffer
  <2>1. /\ gnet = "miss" /\ gnet' = "request"
        /\ UNCHANGED <<outQ, arrived, sent>>
    BY <1>3 DEF AddBuffer
  <2>2. /\ HandIds = {hand.id} /\ HandIds' = {} /\ Kept(outQ)' = Kept(outQ)
        /\ Orderly(outQ)' /\ SentIds' = SentIds /\ SentOnce'
        /\ (1..arrived)' = 1..arrived
    BY <2>1 DEF HandIds, Kept, Orderly, SentIds, SentOnce, PlaceInv
  <2>3. Split(Kept(outQ), {hand.id}, BufferIds, SentIds, gone, 1..arrived)
    BY <2>2 DEF PlaceInv
  <2>4. CASE gone' = gone \cup {hand.id} /\ UNCHANGED buffer
    <3>1. OneSlotEach' /\ BufferIds' = BufferIds
      BY <2>4 DEF PlaceInv, OneSlotEach, BufferIds, FullSlots, Full
    <3>2. Split(Kept(outQ)', HandIds', BufferIds', SentIds', gone', (1..arrived)')
      BY <2>2, <2>3, <2>4, <3>1 DEF Split
    <3> QED BY <2>2, <3>1, <3>2 DEF PlaceInv
  <2>5. ASSUME NEW i \in 1..MaxBuffers, buffer[i] = None, UNCHANGED gone,
               buffer' = [buffer EXCEPT ![i] = [id |-> hand.id, ip |-> hand.ip]]
        PROVE  PlaceInv'
    <3>1. hand.id \in Ids /\ hand.ip \in Hosts
      BY <2>1 DEF IInv, GnetInv, OwnItem, Item
    <3>2. [id |-> hand.id, ip |-> hand.ip] # None
      BY <3>1, ArpGnetAssumption DEF Buffered
    <3>3. /\ FullSlots' = FullSlots \cup {i} /\ i \notin FullSlots
          /\ buffer'[i].id = hand.id
          /\ \A j \in FullSlots : buffer'[j] = buffer[j]
      BY <2>5, <3>2, PlaceTypes DEF FullSlots, Full
    <3>4. BufferIds' = BufferIds \cup {hand.id}
      BY <3>3 DEF BufferIds
    <3>5. OneSlotEach'
      <4>1. \A j \in FullSlots : buffer[j].id # hand.id
        BY <2>3 DEF Split, BufferIds
      <4> QED BY <3>3, <4>1 DEF OneSlotEach, PlaceInv
    <3>6. Split(Kept(outQ)', HandIds', BufferIds', SentIds', gone', (1..arrived)')
      BY <2>2, <2>3, <2>5, <3>4 DEF Split
    <3> QED BY <2>2, <3>5, <3>6 DEF PlaceInv
  <2> QED BY <1>3, <2>4, <2>5 DEF AddBuffer, Lowest
<1>4. CASE SendRequest
  <2> DEFINE e == [kind |-> "request", id |-> 0, ip |-> hand.ip, mac |-> None]
  <2>1. /\ gnet = "request" /\ gnet' = "idle" /\ outQ' = Append(outQ, e)
        /\ UNCHANGED <<buffer, arrived, sent, gone>>
    BY <1>4 DEF SendRequest
  <2>2. e \in OwnItem /\ e.id = 0
    BY <2>1, ArpGnetAssumption DEF IInv, GnetInv, OwnItem, Item
  <2> HIDE DEF e
  <2>3. Orderly(Append(outQ, e)) /\ Kept(Append(outQ, e)) = Kept(outQ)
    BY <2>2, PlaceTypes, KeptOther DEF PlaceInv
  <2>4. Orderly(outQ)' /\ Kept(outQ)' = Kept(outQ) /\ HandIds' = HandIds
    BY <2>1, <2>3 DEF Kept, Orderly, HandIds
  <2> QED BY <2>1, <2>4, PlaceUnchanged
<1> QED BY <1>1, <1>2, <1>3, <1>4 DEF GNETHandler

LEMMA ARPProcessPlace ==
    ASSUME IInv, PlaceInv, ARPProcess
    PROVE  PlaceInv'
<1>1. CASE LearnSender \/ ForOthers
  <2>1. UNCHANGED <<outQ, buffer, arrived, sent, gone, gnet, hand>>
    BY <1>1 DEF LearnSender, ForOthers, gnetVars, histVars
  <2>2. Orderly(outQ)' /\ Kept(outQ)' = Kept(outQ) /\ HandIds' = HandIds
    BY <2>1 DEF Kept, Orderly, HandIds, PlaceInv
  <2> QED BY <2>1, <2>2, PlaceUnchanged
<1>2. CASE ReplyTo
  <2> DEFINE e == [kind |-> "reply", id |-> 0, ip |-> Head(workQ).ip,
                   mac |-> Head(workQ).mac]
  <2>1. outQ' = Append(outQ, e) /\ UNCHANGED <<buffer, arrived, sent, gone, gnet, hand>>
    BY <1>2 DEF ReplyTo, gnetVars, histVars
  <2>2. e \in OwnItem /\ e.id = 0
    <3>1. workQ # <<>>
      BY <1>2 DEF ReplyTo, IInv, WorkInv
    <3> QED BY <3>1, WorkHead, ArpGnetAssumption DEF OwnItem, Item
  <2> HIDE DEF e
  <2>3. Orderly(Append(outQ, e)) /\ Kept(Append(outQ, e)) = Kept(outQ)
    BY <2>2, PlaceTypes, KeptOther DEF PlaceInv
  <2>4. Orderly(outQ)' /\ Kept(outQ)' = Kept(outQ) /\ HandIds' = HandIds
    BY <2>1, <2>3 DEF Kept, Orderly, HandIds
  <2> QED BY <2>1, <2>4, PlaceUnchanged
<1>3. CASE Flush
  <2>1. UNCHANGED <<arrived, sent, gone, gnet, hand>>
    BY <1>3 DEF Flush, gnetVars, histVars
  <2>2. HandIds' = HandIds /\ (1..arrived)' = 1..arrived
    BY <2>1 DEF HandIds
  <2>3. ASSUME UNCHANGED <<buffer, outQ>> PROVE PlaceInv'
    <3>1. Orderly(outQ)' /\ Kept(outQ)' = Kept(outQ)
      BY <2>3 DEF Kept, Orderly, PlaceInv
    <3> QED BY <2>1, <2>2, <2>3, <3>1, PlaceUnchanged
  <2>4. ASSUME NEW i \in FullSlots, buffer' = [buffer EXCEPT ![i] = None],
               outQ' = Append(outQ, [kind |-> "ip", id |-> buffer[i].id,
                                     ip |-> buffer[i].ip, mac |-> None])
        PROVE  PlaceInv'
    <3> DEFINE e == [kind |-> "ip", id |-> buffer[i].id, ip |-> buffer[i].ip, mac |-> None]
    <3>1. /\ buffer[i].id \in Ids /\ buffer[i].ip \in Hosts /\ i \in 1..MaxBuffers
          /\ 0 \notin Ids /\ outQ \in Seq(OwnItem) /\ Orderly(outQ)
          /\ buffer \in [1..MaxBuffers -> Buffered \cup {None}]
      BY PlaceTypes DEF PlaceInv
    <3>2. e \in OwnItem /\ e.id = buffer[i].id /\ e.kind = "ip"
      BY <3>1, ArpGnetAssumption DEF OwnItem, Item, Ids
    <3>3. outQ' = Append(outQ, e)
      BY <2>4
    <3> HIDE DEF e
    <3>4. /\ buffer[i].id \in BufferIds
          /\ Split(Kept(outQ), HandIds, BufferIds, SentIds, gone, 1..arrived)
      BY DEF BufferIds, PlaceInv
    <3>5. buffer[i].id \notin Kept(outQ)
      BY <3>4 DEF Split
    <3>6. /\ Orderly(Append(outQ, e))
          /\ Kept(Append(outQ, e)) = Kept(outQ) \cup {buffer[i].id}
      BY <3>1, <3>2, <3>5, KeptAppend
    <3>7. Orderly(outQ)' /\ Kept(outQ)' = Kept(outQ) \cup {buffer[i].id}
      BY <3>3, <3>6 DEF Kept, Orderly
    <3>8. /\ FullSlots' = FullSlots \ {i}
          /\ \A j \in FullSlots \ {i} : buffer'[j] = buffer[j]
      BY <2>4, <3>1 DEF FullSlots, Full
    <3>9. OneSlotEach
      BY DEF PlaceInv
    <3>10. OneSlotEach' /\ BufferIds' = BufferIds \ {buffer[i].id}
      BY <3>8, <3>9 DEF OneSlotEach, BufferIds
    <3>11. SentOnce' /\ SentIds' = SentIds
      BY <2>1 DEF PlaceInv, SentOnce, SentIds
    <3>12. Split(Kept(outQ)', HandIds', BufferIds', SentIds', gone', (1..arrived)')
      BY <2>1, <2>2, <3>4, <3>7, <3>10, <3>11 DEF Split
    <3> QED BY <3>7, <3>10, <3>11, <3>12 DEF PlaceInv
  <2>5. \/ UNCHANGED <<buffer, outQ>>
        \/ \E i \in FullSlots :
              /\ buffer' = [buffer EXCEPT ![i] = None]
              /\ outQ' = Append(outQ, [kind |-> "ip", id |-> buffer[i].id,
                                       ip |-> buffer[i].ip, mac |-> None])
    BY <1>3 DEF Flush, FullSlots, Lowest
  <2> QED BY <2>3, <2>4, <2>5
<1> QED BY <1>1, <1>2, <1>3 DEF ARPProcess

LEMMA SendIPPlace ==
    ASSUME IInv, PlaceInv, NEW h \in Hosts, SendIP(h)
    PROVE  PlaceInv'
<1> DEFINE e == [kind |-> "ip", id |-> arrived + 1, ip |-> h, mac |-> None]
<1>1. /\ outQ' = Append(outQ, e) /\ arrived' = arrived + 1
      /\ UNCHANGED <<buffer, sent, gone, gnet, hand>>
  BY DEF SendIP, gnetVars
<1>2. e \in OwnItem /\ e.id = arrived + 1 /\ e.kind = "ip" /\ arrived \in Nat
  BY ArpGnetAssumption DEF SendIP, IInv, HistInv, OwnItem, Item, Ids
<1> HIDE DEF e
<1>3. Split(Kept(outQ), HandIds, BufferIds, SentIds, gone, 1..arrived)
  BY DEF PlaceInv
<1>4. arrived + 1 \notin 1..arrived /\ (1..arrived)' = (1..arrived) \cup {arrived + 1}
  BY <1>1, <1>2
<1>5. arrived + 1 \notin Kept(outQ)
  BY <1>3, <1>4 DEF Split
<1>6. /\ Orderly(Append(outQ, e))
      /\ Kept(Append(outQ, e)) = Kept(outQ) \cup {arrived + 1}
  BY <1>2, <1>5, PlaceTypes, KeptAppend DEF PlaceInv
<1>7. Orderly(outQ)' /\ Kept(outQ)' = Kept(outQ) \cup {arrived + 1}
  BY <1>1, <1>6 DEF Kept, Orderly
<1>8. /\ OneSlotEach' /\ BufferIds' = BufferIds /\ HandIds' = HandIds
      /\ SentOnce' /\ SentIds' = SentIds /\ gone' = gone
  BY <1>1 DEF PlaceInv, OneSlotEach, BufferIds, FullSlots, Full, HandIds, SentOnce, SentIds
<1>9. Split(Kept(outQ)', HandIds', BufferIds', SentIds', gone', (1..arrived)')
  BY <1>3, <1>4, <1>7, <1>8 DEF Split
<1> QED BY <1>7, <1>8, <1>9 DEF PlaceInv

LEMMA PlaceStep == IInv /\ PlaceInv /\ [Next]_vars => PlaceInv'
<1> SUFFICES ASSUME IInv, PlaceInv, [Next]_vars PROVE PlaceInv'
  OBVIOUS
<1>1. ASSUME UNCHANGED <<outQ, buffer, arrived, sent, gone, gnet, hand>> PROVE PlaceInv'
  <2>1. Orderly(outQ)' /\ Kept(outQ)' = Kept(outQ) /\ HandIds' = HandIds
    BY <1>1 DEF Kept, Orderly, HandIds, PlaceInv
  <2> QED BY <1>1, <2>1, PlaceUnchanged
<1>2. ASSUME NEW h \in Hosts, Answer(h) \/ Lose(h) \/ HostSpeaks(h) PROVE PlaceInv'
  BY <1>1, <1>2 DEF Answer, Lose, HostSpeaks, gnetVars
<1>3. CASE Operator
  BY <1>1, <1>3 DEF Operator, gnetVars
<1>4. CASE UNCHANGED vars
  BY <1>1, <1>4 DEF vars
<1> QED BY <1>2, <1>3, <1>4, SendIPPlace, GNETHandlerPlace, ARPProcessPlace DEF Next
-----------------------------------------------------------------------------
(* A set with at most one element.                                         *)
LEMMA OneElement ==
    ASSUME NEW S, NEW x, S = {} \/ S = {x}
    PROVE  Cardinality(S) = IF S = {} THEN 0 ELSE 1
BY FS_EmptySet, FS_Singleton

LEMMA PlaceInvOnePlace == IInv /\ PlaceInv => PacketInOnePlace
<1> SUFFICES ASSUME IInv, PlaceInv, NEW id \in 1..arrived PROVE Places(id) = 1
  BY DEF PacketInOnePlace
<1> DEFINE Q == {i \in 1..Len(outQ) : outQ[i].id = id}
           H == gnet = "miss" /\ hand.id = id
           B == {i \in 1..MaxBuffers : Full(buffer[i]) /\ buffer[i].id = id}
           S == {s \in sent : s.id = id}
<1>1. id # 0
  BY PlaceTypes
<1>2. Q = {} \/ \E x : Q = {x}
  BY <1>1 DEF PlaceInv, Orderly
<1>3. Q # {} <=> id \in Kept(outQ)
  BY <1>1 DEF Kept
<1>4. B = {} \/ \E x : B = {x}
  BY DEF PlaceInv, OneSlotEach, FullSlots
<1>5. B # {} <=> id \in BufferIds
  BY DEF BufferIds, FullSlots
<1>6. S = {} \/ \E x : S = {x}
  BY DEF PlaceInv, SentOnce
<1>7. S # {} <=> id \in SentIds
  BY DEF SentIds
<1>8. H <=> id \in HandIds
  BY DEF HandIds
<1>9. Split(Kept(outQ), HandIds, BufferIds, SentIds, gone, 1..arrived)
  BY DEF PlaceInv
<1>10. Places(id) = Cardinality(Q) + (IF H THEN 1 ELSE 0) + Cardinality(B)
                    + Cardinality(S) + (IF id \in gone THEN 1 ELSE 0)
  BY DEF Places
<1> HIDE DEF Q, H, B, S
<1>11. /\ Cardinality(Q) = IF id \in Kept(outQ) THEN 1 ELSE 0
       /\ Cardinality(B) = IF id \in BufferIds THEN 1 ELSE 0
       /\ Cardinality(S) = IF id \in SentIds THEN 1 ELSE 0
  BY <1>2, <1>3, <1>4, <1>5, <1>6, <1>7, OneElement
<1>12. /\ id \in Kept(outQ) \/ id \in HandIds \/ id \in BufferIds \/ id \in SentIds \/ id \in gone
       /\ ~(id \in Kept(outQ) /\ id \in HandIds) /\ ~(id \in Kept(outQ) /\ id \in BufferIds)
       /\ ~(id \in Kept(outQ) /\ id \in SentIds) /\ ~(id \in Kept(outQ) /\ id \in gone)
       /\ ~(id \in HandIds /\ id \in BufferIds) /\ ~(id \in HandIds /\ id \in SentIds)
       /\ ~(id \in HandIds /\ id \in gone) /\ ~(id \in BufferIds /\ id \in SentIds)
       /\ ~(id \in BufferIds /\ id \in gone) /\ ~(id \in SentIds /\ id \in gone)
  BY <1>9 DEF Split
<1> QED BY <1>8, <1>10, <1>11, <1>12

LEMMA PlaceInit == Init => PlaceInv
<1> SUFFICES ASSUME Init PROVE PlaceInv
  OBVIOUS
<1>1. Orderly(outQ) /\ Kept(outQ) = {}
  BY DEF Init, Orderly, Kept
<1>2. OneSlotEach /\ BufferIds = {}
  BY DEF Init, OneSlotEach, BufferIds, FullSlots, Full
<1>3. SentOnce /\ SentIds = {} /\ HandIds = {} /\ gone = {} /\ 1..arrived = {}
  BY DEF Init, SentOnce, SentIds, HandIds
<1> QED BY <1>1, <1>2, <1>3 DEF PlaceInv, Split

(* Every IP packet put in the output queue is in exactly one place ever    *)
(* after, for any table, buffer and cache: neither the copy that           *)
(* ARPAddBuffer makes nor ARPFlushBuffer (arp.c:383-460), with whatever    *)
(* the GNET handler does meanwhile, doubles or loses a packet; one for     *)
(* which the buffer has no slot is dropped.                                *)
THEOREM OnePlace == Spec => []PacketInOnePlace
<1>1. Init => PlaceInv
  BY PlaceInit
<1>2. IInv /\ PlaceInv /\ [Next]_vars => PlaceInv'
  BY PlaceStep
<1>3. IInv /\ PlaceInv => PacketInOnePlace
  BY PlaceInvOnePlace
<1> QED BY <1>1, <1>2, <1>3, Invariance, PTL DEF Spec
-----------------------------------------------------------------------------
(* The queue.  ArpGnet lets the GNET handler and the worker read their     *)
(* queues without fail; SimpleQueue has the signals that takes.  With one  *)
(* reader, as the work queue, the OpenFlow work queue and the output queue *)
(* have, the cond_wait that is not in a loop and the signal that is not    *)
(* repeated are both harmless.                                             *)

(* A signalled reader has something to read, and a waiting one does not.   *)
SingleInv(r) == /\ QTypeOK
                /\ reader[r] = "waiting" => queue = <<>>
                /\ reader[r] = "signalled" => queue # <<>>
                /\ reader[r] # "faulted"

(* A write keeps the invariant: it wakes the reader if the queue was       *)
(* empty, and a reader that waits has found it empty.                      *)
LEMMA WriteKeepsSingleInv ==
    ASSUME NEW r, Readers = {r}, NEW m \in Messages, MaxSize \in Nat,
           SingleInv(r), WriteQueue(m)
    PROVE  SingleInv(r)'
<1> USE DEF SingleInv, QTypeOK, ReaderState
<1>1. CASE UNCHANGED qvars
  BY <1>1 DEF qvars
<1>2. CASE /\ queue' = Append(queue, m)
           /\ IF queue = <<>> THEN SignalOne ELSE UNCHANGED reader
  <2>1. queue' \in Seq(Messages) /\ queue' # <<>>
    BY <1>2
  <2>2. reader' \in [Readers -> ReaderState] /\ reader'[r] \in {reader[r], "signalled"}
    BY <1>2 DEF SignalOne, Sleepers
  <2>3. reader'[r] # "waiting"
    <3>1. CASE queue = <<>>
      BY <3>1, <1>2 DEF SignalOne, Sleepers
    <3>2. CASE queue # <<>>
      BY <3>2, <1>2
    <3> QED BY <3>1, <3>2
  <2> QED BY <2>1, <2>2, <2>3
<1> QED BY <1>1, <1>2 DEF WriteQueue

(* So does a read, whether it blocks, returns at once or resumes.          *)
LEMMA ReadKeepsSingleInv ==
    ASSUME NEW r, Readers = {r}, SingleInv(r), ReadQueue(r) \/ ResumeRead(r)
    PROVE  SingleInv(r)'
<1> USE DEF SingleInv, QTypeOK, ReaderState
<1>1. queue # <<>> => Tail(queue) \in Seq(Messages)
  OBVIOUS
<1>2. CASE queue' = queue \/ (queue # <<>> /\ queue' = Tail(queue))
  <2>1. queue' \in Seq(Messages)
    BY <1>1, <1>2
  <2>2. CASE ReadQueue(r)
    BY <2>1, <2>2 DEF ReadQueue
  <2>3. CASE ResumeRead(r) /\ queue # <<>>
    BY <2>1, <2>3 DEF ResumeRead
  <2> QED BY <2>2, <2>3 DEF ResumeRead
<1> QED BY <1>2 DEF ReadQueue, ResumeRead

(* With a single reader, readQueue never shifts an empty list and never    *)
(* sleeps on a queue that holds a message.                                 *)
THEOREM SingleReader ==
    ASSUME NEW r, Readers = {r}, MaxSize \in Nat
    PROVE  QSpec => [](NoEmptyShift /\ NoLostWakeup)
<1>1. QInit => SingleInv(r)
  BY DEF QInit, SingleInv, QTypeOK, ReaderState
<1>2. SingleInv(r) /\ [QNext]_qvars => SingleInv(r)'
  <2> SUFFICES ASSUME SingleInv(r), [QNext]_qvars PROVE SingleInv(r)'
    OBVIOUS
  <2>1. CASE \E m \in Messages : WriteQueue(m)
    BY <2>1, WriteKeepsSingleInv
  <2>2. CASE \E s \in Readers : ReadQueue(s) \/ ResumeRead(s)
    BY <2>2, ReadKeepsSingleInv
  <2>3. CASE UNCHANGED qvars
    BY <2>3 DEF SingleInv, QTypeOK, ReaderState, qvars
  <2> QED BY <2>1, <2>2, <2>3 DEF QNext
<1>3. SingleInv(r) => NoEmptyShift /\ NoLostWakeup
  BY DEF SingleInv, QTypeOK, NoEmptyShift, NoLostWakeup
<1> QED BY <1>1, <1>2, <1>3, PTL DEF QSpec
=============================================================================
