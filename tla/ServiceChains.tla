---------------------------- MODULE ServiceChains ----------------------------
(***************************************************************************)
(* The books of service chains.  The orchestrator of the cloud             *)
(* (sfc_orchestrator.py) serves the requests of the shell and of the REST  *)
(* threads, changes its own books and then sends a command to the SDN      *)
(* controller (service_function_chaining.py), which keeps books of its own *)
(* for the switch.  Commands go one way over one TCP stream and nothing is *)
(* answered: what one recv returns is parsed as one command.               *)
(*                                                                         *)
(* A request is split where its thread may wait: at each send of a removal *)
(* and at the calls of Docker.  What runs without waiting is one step.     *)
(***************************************************************************)
EXTENDS Integers, Sequences, FiniteSets

CONSTANTS
    Functions,    \* service functions (containers), by name
    Pairs,        \* pairs of containers, source and destination of a path
    Threads,      \* the shell and the REST threads
    MaxChains,    \* bound on the chains ever created
    MaxStream,    \* bound on the commands sent and not yet read
    NoFunction

Ids == 1..MaxChains
NoId == 0

(* sfc_create_chain refuses a list with a function twice.                  *)
Lists == {l \in UNION {[1..n -> Functions] : n \in 1..Cardinality(Functions)} :
             \A i, j \in DOMAIN l : i # j => l[i] # l[j]}
Empty == <<>>
Members(l) == {l[i] : i \in DOMAIN l}

Hello == [type |-> "hello"]
Bye == [type |-> "bye"]
AddChain(i, l) == [type |-> "addchain", id |-> i, list |-> l]
DelChain(i) == [type |-> "delchain", id |-> i]
AddPath(p, i) == [type |-> "addpath", pair |-> p, id |-> i]
DelPath(p) == [type |-> "delpath", pair |-> p]
Command == {Hello, Bye}
             \cup {AddChain(i, l) : i \in Ids, l \in Lists}
             \cup {DelChain(i) : i \in Ids}
             \cup {AddPath(p, i) : p \in Pairs, i \in Ids}
             \cup {DelPath(p) : p \in Pairs}

(* What a removing thread remembers: the function to remove, the chains it *)
(* still has to remove, the chain being removed with the list it looked    *)
(* up, and that chain's paths still to remove.                             *)
Job == [at : {"idle", "chains", "paths", "delete"},
        f : Functions \cup {NoFunction}, ids : SUBSET Ids,
        id : Ids \cup {NoId}, list : Lists \cup {Empty}, ps : SUBSET Pairs]
Idle == [at |-> "idle", f |-> NoFunction, ids |-> {}, id |-> NoId,
         list |-> Empty, ps |-> {}]

ASSUME ChainsAssumption ==
    /\ MaxChains \in Nat /\ MaxStream \in Nat
    /\ IsFiniteSet(Functions) /\ NoFunction \notin Functions

VARIABLES
    services,    \* self.services: the functions in the orchestrator's books
    attached,    \* the functions and pairs whose containers the network knows
    active,      \* active_chains of each function
    chains,      \* self.chains
    nextId,      \* self.chain_index
    paths,       \* self.paths
    client,      \* self.client: "none", "open", or "broken": the peer is gone
    job,         \* the request each thread is serving
    stream,      \* the commands sent and not yet read
    up,          \* the switch is connected to the controller
    ctlChains,   \* availableChains of the OvsConnection
    ctlPaths,    \* servicePaths of the OvsConnection
    missed       \* history: some command was not carried out

orchestrator == <<services, attached, active, chains, nextId, paths, job>>
controller == <<up, ctlChains, ctlPaths>>
vars == <<orchestrator, client, stream, controller, missed>>

TypeOK ==
    /\ services \subseteq Functions
    /\ attached \subseteq Functions \cup Pairs
    /\ active \in [Functions -> Int]
    /\ chains \in [Ids -> Lists \cup {Empty}]
    /\ nextId \in 1..(MaxChains + 1)
    /\ paths \in [Pairs -> Ids \cup {NoId}]
    /\ client \in {"none", "open", "broken", "closed"}
    /\ job \in [Threads -> Job]
    /\ stream \in Seq(Command)
    /\ up \in BOOLEAN
    /\ ctlChains \in [Ids -> Lists \cup {Empty}]
    /\ ctlPaths \in [Pairs -> Ids \cup {NoId}]
    /\ missed \in BOOLEAN

Init ==
    /\ services = {} /\ attached = Pairs
    /\ active = [f \in Functions |-> 0]
    /\ chains = [i \in Ids |-> Empty] /\ nextId = 1
    /\ paths = [p \in Pairs |-> NoId]
    /\ client = "none"
    /\ job = [t \in Threads |-> Idle]
    /\ stream = <<>>
    /\ up \in BOOLEAN
    /\ ctlChains = [i \in Ids |-> Empty]
    /\ ctlPaths = [p \in Pairs |-> NoId]
    /\ missed = FALSE
-----------------------------------------------------------------------------
(***************************************************************************)
(* The orchestrator                                                        *)
(***************************************************************************)

(* client.send succeeds.  The first one after the peer is gone may: the    *)
(* command is lost then.                                                   *)
Send(c) ==
    /\ Len(stream) < MaxStream
    /\ client \in {"open", "broken"}
    /\ stream' = IF client = "open" THEN Append(stream, c) ELSE stream
    /\ missed' = (missed \/ client = "broken")
    /\ UNCHANGED client

(* client.send raises, or resolve_interface finds no interface before it:  *)
(* the books have been changed and the command is not sent.                *)
NotSent == /\ missed' = TRUE
           /\ UNCHANGED <<stream, client>>
SendRaises == client = "broken" /\ NotSent

(* open_connection.  When it fails self.client stays None.                 *)
OpenConnection ==
    /\ client = "none"
    /\ client' = "open"
    /\ stream' = Append(stream, Hello)
    /\ UNCHANGED <<orchestrator, controller, missed>>

StartServiceNode(f) ==
    /\ f \notin services \cup attached
    /\ services' = services \cup {f}
    /\ attached' = attached \cup {f}
    /\ active' = [active EXCEPT ![f] = 0]
    /\ UNCHANGED <<chains, nextId, paths, job, client, stream, controller, missed>>

(* The service whose container is an end of a path is stopped or scaled    *)
(* down: the network forgets it, the orchestrator's paths do not.          *)
EndpointStops(p) ==
    /\ p \in attached
    /\ attached' = attached \ {p}
    /\ UNCHANGED <<services, active, chains, nextId, paths, job, client,
                   stream, controller, missed>>

(* The chain is in the books before its interfaces are resolved.           *)
CreateServiceChain(l) ==
    /\ client # "none" /\ nextId \in Ids
    /\ Members(l) \subseteq services
    /\ chains' = [chains EXCEPT ![nextId] = l]
    /\ active' = [f \in Functions |->
                    IF f \in Members(l) THEN active[f] + 1 ELSE active[f]]
    /\ nextId' = nextId + 1
    /\ IF Members(l) \subseteq attached
       THEN Send(AddChain(nextId, l)) \/ SendRaises
       ELSE NotSent
    /\ UNCHANGED <<services, attached, paths, job, controller>>

(* The chain named in the request is not looked up.                        *)
CreateServicePath(p, i) ==
    /\ client # "none" /\ paths[p] = NoId
    /\ paths' = [paths EXCEPT ![p] = i]
    /\ IF p \in attached THEN Send(AddPath(p, i)) \/ SendRaises ELSE NotSent
    /\ UNCHANGED <<services, attached, active, chains, nextId, job, controller>>

(* remove_service_path; sent says whether it returns or raises.            *)
DropPath(p, sent) ==
    /\ paths' = [paths EXCEPT ![p] = NoId]
    /\ IF p \in attached
       THEN \/ sent /\ Send(DelPath(p))
            \/ ~sent /\ SendRaises
       ELSE ~sent /\ NotSent

RemoveServicePath(p) ==
    /\ client # "none" /\ paths[p] # NoId
    /\ \E sent \in BOOLEAN : DropPath(p, sent)
    /\ UNCHANGED <<services, attached, active, chains, nextId, job, controller>>

PathsOver(i) == {p \in Pairs : paths[p] = i}

(* Where a request goes on after a chain: nowhere, or to the next chain of *)
(* the function to remove.                                                 *)
After(j) == IF j.f = NoFunction THEN Idle
            ELSE [j EXCEPT !.at = "chains", !.id = NoId, !.list = Empty]

(* The end of remove_service_chain.  If another thread has removed the     *)
(* chain meanwhile, del raises after the functions are counted again.      *)
DropChain(t, j) ==
    /\ active' = [f \in Functions |->
                    IF f \in Members(j.list) THEN active[f] - 1 ELSE active[f]]
    /\ IF chains[j.id] = Empty
       THEN /\ job' = [job EXCEPT ![t] = Idle]
            /\ UNCHANGED <<chains, client, stream, missed>>
       ELSE /\ chains' = [chains EXCEPT ![j.id] = Empty]
            /\ \/ /\ Send(DelChain(j.id))
                  /\ job' = [job EXCEPT ![t] = After(j)]
               \/ /\ SendRaises
                  /\ job' = [job EXCEPT ![t] = Idle]
    /\ UNCHANGED <<services, attached, nextId, paths, controller>>

(* remove_service_chain runs up to its first send: of a path, or of the    *)
(* chain if no path uses it.                                               *)
BeginChain(t, j) ==
    IF j.ps = {} THEN DropChain(t, j)
    ELSE /\ job' = [job EXCEPT ![t] = j]
         /\ UNCHANGED <<services, attached, active, chains, nextId, paths, client,
                        stream, controller, missed>>
(* Mutant: all chains are remembered for the one looked up.                *)
Removing_Chains(j, i) == [j EXCEPT !.at = "paths", !.ids = @ \ {i}, !.id = i,
                                   !.list = chains, !.ps = PathsOver(i)]
Removing(j, i) == [j EXCEPT !.at = "paths", !.ids = @ \ {i}, !.id = i,
                            !.list = chains[i], !.ps = PathsOver(i)]

(* Without force a chain that a path uses is kept.                         *)
RemoveServiceChain(t, i, force) ==
    /\ job[t] = Idle /\ client # "none" /\ chains[i] # Empty
    /\ PathsOver(i) = {} \/ force
    /\ BeginChain(t, Removing(Idle, i))

(* Mutant: the paths are left to the removal of the chain.                 *)
DropNextPath_Silent(t, p) ==
    /\ job[t].at = "paths" /\ p \in job[t].ps
    /\ paths' = [paths EXCEPT ![p] = NoId]
    /\ job' = [job EXCEPT ![t].ps = @ \ {p}]
    /\ UNCHANGED <<services, attached, active, chains, nextId, controller, client,
                   stream, missed>>

(* Its loop over the paths; an exception ends the request.                 *)
DropNextPath(t, p) ==
    /\ job[t].at = "paths" /\ p \in job[t].ps
    /\ IF paths[p] = NoId
       THEN /\ job' = [job EXCEPT ![t].ps = @ \ {p}]
            /\ UNCHANGED <<paths, client, stream, missed>>
       ELSE \E sent \in BOOLEAN :
              /\ DropPath(p, sent)
              /\ job' = [job EXCEPT ![t] = IF sent THEN [job[t] EXCEPT !.ps = @ \ {p}]
                                           ELSE Idle]
    /\ UNCHANGED <<services, attached, active, chains, nextId, controller>>

FinishChain(t) == /\ job[t].at = "paths" /\ job[t].ps = {}
                  /\ DropChain(t, job[t])

(* remove_service_node: a function no chain uses is removed at once, one   *)
(* in use only with force, its chains first.                               *)
RemoveServiceNode(t, f, force) ==
    /\ job[t] = Idle /\ f \in services
    /\ active[f] = 0 \/ force
    /\ job' = [job EXCEPT ![t] =
                 [Idle EXCEPT !.f = f, !.at = "chains",
                    !.ids = IF active[f] = 0 THEN {}
                            ELSE {i \in Ids : f \in Members(chains[i])}]]
    /\ UNCHANGED <<services, attached, active, chains, nextId, paths, client,
                   stream, controller, missed>>

(* The chains of the function, in the order they were made.                *)
NextChain(t, i) ==
    LET j == job[t]
    IN /\ j.at = "chains" /\ i \in j.ids /\ \A k \in j.ids : i <= k
       /\ IF chains[i] # Empty THEN BeginChain(t, Removing(j, i))
          ELSE /\ job' = [job EXCEPT ![t].ids = @ \ {i}]
               /\ UNCHANGED <<services, attached, active, chains, nextId, paths,
                              client, stream, controller, missed>>

(* network.remove_container raises if the port is already gone.            *)
Detach(t) ==
    LET j == job[t]
    IN /\ j.at = "chains" /\ j.ids = {}
       /\ attached' = attached \ {j.f}
       /\ job' = [job EXCEPT ![t] = IF j.f \in attached THEN [j EXCEPT !.at = "delete"]
                                    ELSE Idle]
       /\ UNCHANGED <<services, active, chains, nextId, paths, client, stream,
                      controller, missed>>

DeleteNode(t) ==
    /\ job[t].at = "delete"
    /\ services' = services \ {job[t].f}
    /\ job' = [job EXCEPT ![t] = Idle]
    /\ UNCHANGED <<attached, active, chains, nextId, paths, client, stream,
                   controller, missed>>

(* stop: the cloud is shut down.  The plain word sent behind the farewell  *)
(* is no command.                                                          *)
Stop ==
    /\ client = "open" /\ \A t \in Threads : job[t] = Idle
    /\ client' = "closed"
    /\ stream' = Append(stream, Bye)
    /\ UNCHANGED <<orchestrator, controller, missed>>
-----------------------------------------------------------------------------
(***************************************************************************)
(* The controller                                                          *)
(***************************************************************************)

(* controllerMessageHandler for one command.  An unknown switch, a path    *)
(* over an unknown chain and the removal of an unknown path change         *)
(* nothing.                                                                *)
Carry(c) ==
    \/ /\ c.type = "addchain"
       /\ ctlChains' = [ctlChains EXCEPT ![c.id] = c.list]
       /\ UNCHANGED <<ctlPaths, missed>>
    \/ /\ c.type = "delchain"
       /\ ctlChains' = [ctlChains EXCEPT ![c.id] = Empty]
       /\ ctlPaths' = [p \in Pairs |-> IF ctlPaths[p] = c.id THEN NoId ELSE ctlPaths[p]]
       /\ UNCHANGED missed
    \/ /\ c.type = "addpath" /\ ctlChains[c.id] # Empty
       /\ ctlPaths' = [ctlPaths EXCEPT ![c.pair] = c.id]
       /\ UNCHANGED <<ctlChains, missed>>
    \/ /\ c.type = "addpath" /\ ctlChains[c.id] = Empty
       /\ missed' = TRUE
       /\ UNCHANGED <<ctlChains, ctlPaths>>
    \/ /\ c.type = "delpath"
       /\ ctlPaths' = [ctlPaths EXCEPT ![c.pair] = NoId]
       /\ UNCHANGED <<ctlChains, missed>>
    \/ /\ c.type \in {"hello", "bye"}
       /\ UNCHANGED <<ctlChains, ctlPaths, missed>>

(* Mutant: the newest command is taken first.                              *)
Receive_Newest ==
    /\ stream # <<>> /\ up
    /\ stream' = SubSeq(stream, 1, Len(stream) - 1)
    /\ Carry(stream[Len(stream)])
    /\ UNCHANGED <<orchestrator, client, up>>

(* One recv returns one command.                                           *)
Receive ==
    /\ stream # <<>>
    /\ stream' = Tail(stream)
    /\ IF up THEN Carry(Head(stream))
       ELSE missed' = TRUE /\ UNCHANGED <<ctlChains, ctlPaths>>
    /\ UNCHANGED <<orchestrator, client, up>>

(* One recv returns several commands, or cuts one: nothing can be parsed,  *)
(* and the exception is logged.                                            *)
ReceiveGarbled(n) ==
    /\ n \in 1..Len(stream)
    /\ stream' = SubSeq(stream, n + 1, Len(stream))
    /\ missed' = TRUE
    /\ UNCHANGED <<orchestrator, client, controller>>

(* Mutant: the paths are kept by the class and not by its object.          *)
SwitchConnects_SharedPaths ==
    /\ up' = TRUE /\ missed' = TRUE
    /\ ctlChains' = [i \in Ids |-> Empty]
    /\ UNCHANGED <<orchestrator, client, stream, ctlPaths>>

(* _handle_ConnectionUp makes a new OvsConnection, with empty books, also  *)
(* when the switch connects again; _handle_ConnectionDown drops it.        *)
SwitchConnects ==
    /\ up' = TRUE
    /\ missed' = (missed \/ \E i \in Ids : ctlChains[i] # Empty)
    /\ ctlChains' = [i \in Ids |-> Empty]
    /\ ctlPaths' = [p \in Pairs |-> NoId]
    /\ UNCHANGED <<orchestrator, client, stream>>

SwitchDisconnects ==
    /\ up /\ up' = FALSE
    /\ missed' = (missed \/ \E i \in Ids : ctlChains[i] # Empty)
    /\ ctlChains' = [i \in Ids |-> Empty]
    /\ ctlPaths' = [p \in Pairs |-> NoId]
    /\ UNCHANGED <<orchestrator, client, stream>>

(* The controller stops; the orchestrator keeps its socket, and            *)
(* open_connection returns at once ever after.                             *)
ControllerStops ==
    /\ client = "open"
    /\ client' = "broken" /\ up' = FALSE /\ stream' = <<>> /\ missed' = TRUE
    /\ ctlChains' = [i \in Ids |-> Empty]
    /\ ctlPaths' = [p \in Pairs |-> NoId]
    /\ UNCHANGED orchestrator
-----------------------------------------------------------------------------
Request(t) ==
    \/ \E i \in Ids, force \in BOOLEAN : RemoveServiceChain(t, i, force)
    \/ \E f \in Functions, force \in BOOLEAN : RemoveServiceNode(t, f, force)
    \/ \E p \in Pairs : DropNextPath(t, p)
    \/ FinishChain(t)
    \/ \E i \in Ids : NextChain(t, i)
    \/ Detach(t)
    \/ DeleteNode(t)

(* Requests that are one step need a free thread.                          *)
ShortRequest ==
    /\ client # "closed" /\ \E t \in Threads : job[t] = Idle
    /\ \/ OpenConnection
       \/ \E f \in Functions : StartServiceNode(f)
       \/ \E p \in Pairs : EndpointStops(p)
       \/ \E l \in Lists : CreateServiceChain(l)
       \/ \E p \in Pairs, i \in Ids : CreateServicePath(p, i)
       \/ \E p \in Pairs : RemoveServicePath(p)

Next ==
    \/ ShortRequest
    \/ \E t \in Threads : client # "closed" /\ Request(t)
    \/ Stop
    \/ Receive
    \/ \E n \in 1..MaxStream : ReceiveGarbled(n)
    \/ SwitchConnects
    \/ SwitchDisconnects
    \/ ControllerStops

Spec == Init /\ [][Next]_vars
-----------------------------------------------------------------------------
(***************************************************************************)
(* Properties                                                              *)
(***************************************************************************)

(* The last pending command about a chain or a pair.                       *)
LastAbout(S) == {i \in S : \A k \in S : k <= i}

AboutChain(i) == {n \in DOMAIN stream :
                    stream[n].type \in {"addchain", "delchain"} /\ stream[n].id = i}
AboutPair(p) == {n \in DOMAIN stream :
                    stream[n].type \in {"addpath", "delpath"} /\ stream[n].pair = p}

(* The two books of chains differ by the commands under way and by nothing *)
(* else, until a command is missed: the last one about a chain leads to    *)
(* what the orchestrator has (create_service_chain and remove_service_chain*)
(* send as they change the books, the controller applies in order).        *)
ChainsAgree ==
    ~missed => \A i \in Ids :
       /\ AboutChain(i) = {} => ctlChains[i] = chains[i]
       /\ \A n \in LastAbout(AboutChain(i)) :
             stream[n] = IF chains[i] = Empty THEN DelChain(i) ELSE AddChain(i, chains[i])

(* The same of the paths, but for one over a chain the orchestrator does   *)
(* not have: a forced removal, which removes the paths of a chain one send *)
(* at a time while other threads create paths, can leave such a path in    *)
(* the orchestrator, but never a path in the controller alone.             *)
Dangling(p) == paths[p] # NoId /\ chains[paths[p]] = Empty

PathsAgree ==
    ~missed => \A p \in {q \in Pairs : ~Dangling(q)} :
       /\ AboutPair(p) = {} => ctlPaths[p] = paths[p]
       /\ \A n \in LastAbout(AboutPair(p)) :
             stream[n] = IF paths[p] = NoId THEN DelPath(p) ELSE AddPath(p, paths[p])

(* Whatever it misses, the book of the controller keeps the promise of     *)
(* ChainBook: its paths go over chains it has.                             *)
Book == INSTANCE ChainBook WITH chains <- ctlChains, paths <- ctlPaths
ControllerKeepsBook == Book!Spec

(* A function that is removed is in no chain: remove_service_node removes  *)
(* the chains first, or refuses.                                           *)
ChainsUseServices == \A i \in Ids : Members(chains[i]) \subseteq services
=============================================================================
