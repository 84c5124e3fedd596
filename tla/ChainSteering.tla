---------------------------- MODULE ChainSteering ----------------------------
(***************************************************************************)
(* How the SDN controller steers traffic through service chains, for one   *)
(* switch (OvsConnection and SfcController of service_function_chaining).  *)
(* Two threads work on it without a lock: the client thread carries out    *)
(* the commands of the orchestrator, the thread of POX handles the events  *)
(* of the switch.  A step ends where a thread logs or sends.               *)
(*                                                                         *)
(* A host is known by its address and keeps its network card.  The flows   *)
(* of a pair are installed together and time out together: they are one    *)
(* list of hosts, the services on the way.                                 *)
(***************************************************************************)
EXTENDS Naturals, Sequences

CONSTANTS
    Hosts,
    Pairs,          \* records of a source and a destination
    Ids,            \* identifiers of chains
    ListsOf,        \* the lists of services each identifier may get
    None,
    MaxCommands,    \* bound on the commands of the orchestrator
    MaxFaults       \* bound on lost ARP replies and new connections

Lists == UNION {ListsOf[i] : i \in Ids}
Members(l) == {l[n] : n \in DOMAIN l}

ASSUME SteeringAssumption ==
    /\ Pairs \subseteq [src : Hosts, dst : Hosts]
    /\ DOMAIN ListsOf = Ids /\ \A i \in Ids : ListsOf[i] \subseteq Seq(Hosts) \ {<<>>}
    /\ MaxCommands \in Nat /\ MaxFaults \in Nat
    /\ None \notin Ids /\ None \notin Hosts /\ None \notin Pairs /\ None \notin Lists

VARIABLES
    nodes,       \* the hosts with a Node object
    ported,      \* those whose OVS port has been found
    asked,       \* those an ARP request is under way to
    chains,      \* availableChains
    paths,       \* servicePaths
    flows,       \* the service flows of each pair in the switch
    l2,          \* the pairs with a flow of _l2Pairs_PacketIn_handle
    learned,     \* l2_pairs_table: the hosts seen on this connection
    handler,     \* POX: the pair and list read from servicePaths, or None
    removal,     \* the client thread: the paths and the chain being removed
    commands,    \* commands so far
    faults       \* losses and new connections so far

vars == <<nodes, ported, asked, chains, paths, flows, l2, learned, handler,
          removal, commands, faults>>
books == <<nodes, asked, chains, paths>>

Removal == [ps : SUBSET Pairs, half : Pairs \cup {None}, id : Ids \cup {None}]
NoRemoval == [ps |-> {}, half |-> None, id |-> None]

TypeOK ==
    /\ nodes \subseteq Hosts /\ ported \subseteq nodes /\ asked \subseteq Hosts
    /\ chains \in [Ids -> Lists \cup {None}]
    /\ paths \in [Pairs -> Ids \cup {None}]
    /\ flows \in [Pairs -> Lists \cup {None}]
    /\ l2 \subseteq Pairs /\ learned \subseteq Hosts
    /\ handler \in [pair : Pairs, list : Lists] \cup {None}
    /\ removal \in Removal
    /\ commands \in 0..MaxCommands /\ faults \in 0..MaxFaults

Init ==
    /\ nodes = {} /\ ported = {} /\ asked = {}
    /\ chains = [i \in Ids |-> None] /\ paths = [p \in Pairs |-> None]
    /\ flows = [p \in Pairs |-> None]
    /\ l2 = {} /\ learned = {} /\ handler = None /\ removal = NoRemoval
    /\ commands = 0 /\ faults = 0

OnTheWay(p, l) == {p.src, p.dst} \cup Members(l)

(* installServiceChainFlow: nothing unless every port is known.            *)
Install(p, l, known) ==
    flows' = IF OnTheWay(p, l) \subseteq known THEN [flows EXCEPT ![p] = l] ELSE flows

(* addNode asks for the port of a host when it is new.                     *)
AddNodes(S) == /\ nodes' = nodes \cup S
               /\ asked' = asked \cup (S \ nodes)
-----------------------------------------------------------------------------
(***************************************************************************)
(* The client thread: controllerMessageHandler.  An orchestrator that is   *)
(* started again numbers its chains from 1 again.                          *)
(***************************************************************************)
Command == /\ removal = NoRemoval /\ commands < MaxCommands
           /\ commands' = commands + 1
           /\ UNCHANGED <<ported, l2, learned, handler, faults>>

AddServiceChain(i, l) ==
    /\ Command /\ chains[i] = None
    /\ AddNodes(Members(l))
    /\ chains' = [chains EXCEPT ![i] = l]
    /\ UNCHANGED <<paths, flows, removal>>

(* addServicePath; a chain not known is only logged.                       *)
AddServicePath(p, i) ==
    /\ Command
    /\ AddNodes({p.src, p.dst})
    /\ IF chains[i] = None THEN UNCHANGED <<paths, flows>>
       ELSE /\ paths' = [paths EXCEPT ![p] = i]
            /\ Install(p, chains[i], ported)
    /\ UNCHANGED <<chains, removal>>

(* removeServicePath; an unknown path raises.                              *)
RemoveServicePath(p) ==
    /\ Command
    /\ AddNodes({p.src, p.dst})
    /\ removal' = IF paths[p] = None THEN NoRemoval ELSE [NoRemoval EXCEPT !.ps = {p}]
    /\ UNCHANGED <<chains, paths, flows>>

(* Mutant: one path at most is collected.                                 *)
RemoveServiceChain_OnePath(i) ==
    /\ Command /\ chains[i] # None
    /\ \E q \in SUBSET {p \in Pairs : paths[p] = i} :
          /\ \A p \in q : q = {p}
          /\ removal' = [ps |-> q, half |-> None, id |-> i]
    /\ UNCHANGED <<books, flows>>

RemoveServiceChain(i) ==
    /\ Command /\ chains[i] # None
    /\ removal' = [ps |-> {p \in Pairs : paths[p] = i}, half |-> None, id |-> i]
    /\ UNCHANGED <<books, flows>>

(* removeServiceChainFlow, and then the path leaves the books.             *)
RemoveFlows(p) ==
    /\ p \in removal.ps /\ removal.half = None
    /\ flows' = IF OnTheWay(p, chains[paths[p]]) \subseteq ported
                THEN [flows EXCEPT ![p] = None] ELSE flows
    /\ removal' = [removal EXCEPT !.half = p]
    /\ UNCHANGED <<books, ported, l2, learned, handler, commands, faults>>

ForgetPath(p) ==
    /\ removal.half = p
    /\ paths' = [paths EXCEPT ![p] = None]
    /\ removal' = IF removal.id = None THEN NoRemoval
                  ELSE [removal EXCEPT !.half = None, !.ps = @ \ {p}]
    /\ UNCHANGED <<nodes, asked, chains, ported, flows, l2, learned, handler,
                   commands, faults>>

ForgetChain ==
    /\ removal.id # None /\ removal.ps = {}
    /\ chains' = [chains EXCEPT ![removal.id] = None]
    /\ removal' = NoRemoval
    /\ UNCHANGED <<nodes, asked, paths, ported, flows, l2, learned, handler,
                   commands, faults>>
-----------------------------------------------------------------------------
(***************************************************************************)
(* The thread of POX                                                       *)
(***************************************************************************)
Reverse(p) == [src |-> p.dst, dst |-> p.src]

(* A packet of a pair that no flow matches.  With a path the chain is read *)
(* and the flows are installed later; an unknown port of the first service *)
(* raises.  Without one the pair, and the way back, get a flow once both   *)
(* hosts have been seen.                                                   *)
PacketIn(p) ==
    /\ handler = None /\ flows[p] = None /\ p \notin l2
    /\ IF paths[p] # None
       THEN /\ handler' = IF chains[paths[p]][1] \in ported
                          THEN [pair |-> p, list |-> chains[paths[p]]] ELSE None
            /\ UNCHANGED <<l2, learned>>
       ELSE /\ learned' = learned \cup {p.src}
            /\ l2' = IF p.dst \in learned THEN l2 \cup ({p, Reverse(p)} \cap Pairs) ELSE l2
            /\ UNCHANGED handler
    /\ UNCHANGED <<books, ported, flows, removal, commands, faults>>

InstallRead ==
    /\ handler # None
    /\ Install(handler.pair, handler.list, ported)
    /\ handler' = None
    /\ UNCHANGED <<books, ported, l2, learned, removal, commands, faults>>

(* _arp_PacketIn_handle: the port of a host is where its reply came in.    *)
ArpReply(h) ==
    /\ handler = None /\ h \in asked
    /\ asked' = asked \ {h}
    /\ ported' = IF h \in nodes THEN ported \cup {h} ELSE ported
    /\ UNCHANGED <<nodes, chains, paths, flows, l2, learned, handler, removal,
                   commands, faults>>

(* _handle_ConnectionUp: nothing of the former connection is kept, but the *)
(* flows in the switch stay.                                               *)
SwitchConnects ==
    /\ handler = None /\ faults < MaxFaults /\ faults' = faults + 1
    /\ nodes' = {} /\ ported' = {} /\ asked' = {} /\ learned' = {}
    /\ chains' = [i \in Ids |-> None] /\ paths' = [p \in Pairs |-> None]
    /\ removal' = NoRemoval
    /\ UNCHANGED <<flows, l2, handler, commands>>
-----------------------------------------------------------------------------
(***************************************************************************)
(* The switch and the hosts                                                *)
(***************************************************************************)
LoseArp(h) ==
    /\ h \in asked /\ faults < MaxFaults
    /\ asked' = asked \ {h} /\ faults' = faults + 1
    /\ UNCHANGED <<nodes, ported, chains, paths, flows, l2, learned, handler,
                   removal, commands>>

(* hard_timeout 120 of the service flows, 10 of the others.                *)
(* Mutants: the flows have no timeout.                                     *)
FlowsExpire_Never(p) == flows[p] # None /\ UNCHANGED vars

FlowsExpire(p) ==
    /\ flows[p] # None /\ flows' = [flows EXCEPT ![p] = None]
    /\ UNCHANGED <<books, ported, l2, learned, handler, removal, commands, faults>>

L2Expires_Never(p) == p \in l2 /\ UNCHANGED vars

L2Expires(p) ==
    /\ p \in l2 /\ l2' = l2 \ {p}
    /\ UNCHANGED <<books, ported, flows, learned, handler, removal, commands, faults>>
-----------------------------------------------------------------------------
ClientThread == \/ \E p \in Pairs : RemoveFlows(p) \/ ForgetPath(p)
                \/ ForgetChain

Next ==
    \/ \E i \in Ids : RemoveServiceChain(i) \/ \E l \in ListsOf[i] : AddServiceChain(i, l)
    \/ \E p \in Pairs : RemoveServicePath(p) \/ \E i \in Ids : AddServicePath(p, i)
    \/ ClientThread
    \/ \E p \in Pairs : PacketIn(p) \/ FlowsExpire(p) \/ L2Expires(p)
    \/ InstallRead
    \/ \E h \in Hosts : ArpReply(h) \/ LoseArp(h)
    \/ SwitchConnects

Spec == Init /\ [][Next]_vars

(* The threads run, hosts answer and the switch expires its flows.  Every  *)
(* pair keeps sending: a packet of it is tried in one of the gaps between  *)
(* two flows, as their timeouts are shorter than the traffic lasts.        *)
FairSpec ==
    /\ Spec
    /\ WF_vars(ClientThread) /\ WF_vars(InstallRead)
    /\ \A h \in Hosts : SF_vars(ArpReply(h))
    /\ \A p \in Pairs : /\ SF_vars(PacketIn(p))
                        /\ WF_vars(FlowsExpire(p)) /\ WF_vars(L2Expires(p))
-----------------------------------------------------------------------------
(* A path never outlives its chain: a chain leaves availableChains only    *)
(* when removeServiceChain has forgotten every path through it, one by one *)
(* while packets are handled, and a new connection forgets both.  So what  *)
(* _sfc_PacketIn_handle reads of a path is a chain that can be removed.    *)
NoDanglingPath == \A p \in Pairs : paths[p] # None => chains[paths[p]] # None

(* A host that lost its only ARP exchange is never asked again: addNode    *)
(* finds its Node.                                                         *)
Unanswered(p) == \E h \in OnTheWay(p, chains[paths[p]]) : h \notin asked \cup ported

(* The flows of a path are installed in the end, through the chain the     *)
(* path has now, although they cannot be when the path is created (no port *)
(* is known yet), flows of plain forwarding carry the traffic past the     *)
(* chain, return traffic renews those, and the handler may be about to     *)
(* install an earlier chain.                                               *)
Steered == \A p \in Pairs :
    paths[p] # None ~> \/ paths[p] = None
                       \/ flows[p] = chains[paths[p]]
                       \/ Unanswered(p)

(* A removed path lets go of its traffic, although the thread of POX may   *)
(* install the flows of the path it has read after the client thread has   *)
(* removed them, and a new connection forgets the paths whose flows are in *)
(* the switch.                                                             *)
Released == \A p \in Pairs :
    (paths[p] = None /\ flows[p] # None) ~> (flows[p] = None \/ paths[p] # None)
=============================================================================
