---------------------------- MODULE CloudNetwork -----------------------------
(***************************************************************************)
(* The addresses of the cloud: the network drivers of network.py           *)
(* (BridgeNetwork and OpenVSwitchNetwork) under the services of cloud.py.  *)
(* The shell and the REST threads start, scale and stop services while the *)
(* listener thread of main.py follows Docker's events and containers exit. *)
(* Nothing is locked; a step ends at each call of Docker or of ovs-docker. *)
(*                                                                         *)
(* The proxy has its reserved address before this begins; the registry and *)
(* the other containers with one are like it and are left out, and so is   *)
(* the service registry.                                                   *)
(***************************************************************************)
EXTENDS Integers, Sequences, FiniteSets

CONSTANTS
    Addresses,        \* the hosts of the subnet, less the gateway, as numbers
    Names,            \* names of services
    Ports,
    Threads,          \* the shell and the REST threads
    Listener,         \* the thread that follows Docker's events
    MaxContainers,    \* bound on the containers of services ever made
    MaxServices,      \* bound on the services ever started
    MaxScale,         \* bound on the size asked for
    MaxRestarts,      \* bound on the restarts of the proxy
    Reserved,         \* the address reserved for the proxy
    None

Proxy == 0
Served == 1..MaxContainers
Containers == {Proxy} \cup Served
Objects == 1..MaxServices

ASSUME CloudAssumption ==
    /\ Addresses \subseteq Nat /\ Reserved \in Addresses /\ None \notin Nat
    /\ Listener \notin Threads
    /\ {MaxContainers, MaxServices, MaxScale, MaxRestarts} \subseteq Nat

(* Where a thread is.  lend: about to take an address for a new container; *)
(* connect, start, append: the rest of _run_container; next: before the    *)
(* next container to remove; disconnect, return, kill: remove_container    *)
(* before and after Docker's call, and _stop_container.                    *)
Job == [at : {"idle", "lend", "connect", "start", "append", "next", "disconnect",
              "return", "kill"},
        op : {"start", "grow", "shrink", "stop", "event", "none"},
        o : Objects \cup {None},                  \* the MyCloudService
        left : 0..MaxScale,                       \* containers still to start
        c : Containers \cup {None}, addr : Addresses \cup {None},
        todo : Seq(Containers)]                   \* containers still to remove
Idle == [at |-> "idle", op |-> "none", o |-> None, left |-> 0, c |-> None,
         addr |-> None, todo |-> <<>>]

Event == [kind : {"connect", "disconnect", "die"}, c : Containers]

VARIABLES
    ovs,         \* the driver: OpenVSwitchNetwork, or BridgeNetwork
    pool,        \* address_pool
    books,       \* containers of the driver: the address of each
    wire,        \* the address each container has on the network
    state,       \* of a container: "none", "created", "running", "gone"
    made,        \* containers of services made so far
    objects,     \* the MyCloudService objects: name, port and containers
    services,    \* self.services
    used,        \* self.used_ports
    job,         \* what each thread is doing
    events,      \* Docker's events not yet handled
    listening,   \* the listener thread is in its loop
    kept,        \* Docker attaches the proxy again when it restarts
    restarts     \* restarts of the proxy so far

network == <<pool, books, wire>>
docker == <<state, made, events>>
manager == <<objects, services, used>>
rest == <<ovs, listening, kept, restarts>>
vars == <<network, docker, manager, job, rest>>

TypeOK ==
    /\ ovs \in BOOLEAN /\ listening \in BOOLEAN /\ kept \in BOOLEAN
    /\ pool \subseteq Addresses
    /\ books \in [Containers -> Addresses \cup {None}]
    /\ wire \in [Containers -> Addresses \cup {None}]
    /\ state \in [Containers -> {"none", "created", "running", "gone"}]
    /\ made \in 0..MaxContainers
    /\ objects \in Seq([name : Names, port : Ports, list : Seq(Containers)])
    /\ services \in [Names -> Objects \cup {None}]
    /\ used \subseteq Ports
    /\ job \in [Threads \cup {Listener} -> Job]
    /\ events \in Seq(Event)
    /\ restarts \in 0..MaxRestarts

Init ==
    /\ ovs \in BOOLEAN
    /\ pool = Addresses \ {Reserved}
    /\ books = [c \in Containers |-> IF c = Proxy THEN Reserved ELSE None]
    /\ wire = books
    /\ state = [c \in Containers |-> IF c = Proxy THEN "running" ELSE "none"]
    /\ made = 0 /\ objects = <<>> /\ used = {}
    /\ services = [n \in Names |-> None]
    /\ job = [t \in Threads \cup {Listener} |-> Idle]
    /\ events = <<>> /\ listening = TRUE /\ kept = TRUE /\ restarts = 0

Emit(kind, c) == events' = Append(events, [kind |-> kind, c |-> c])
Becomes(t, j) == job' = [job EXCEPT ![t] = j]
-----------------------------------------------------------------------------
(***************************************************************************)
(* Requests                                                                *)
(***************************************************************************)

(* start_service: a name and a port in use are refused, but both are       *)
(* entered only when the containers have been started.                     *)
StartService(t, n, port, scale) ==
    /\ job[t] = Idle /\ services[n] = None /\ port \notin used
    /\ Len(objects) < MaxServices /\ scale \in 1..MaxScale
    /\ objects' = Append(objects, [name |-> n, port |-> port, list |-> <<>>])
    /\ Becomes(t, [Idle EXCEPT !.at = "lend", !.op = "start",
                               !.o = Len(objects) + 1, !.left = scale])
    /\ UNCHANGED <<services, used, network, docker, rest>>

StartServiceEnds(t) ==
    LET j == job[t]
    IN /\ j.at = "lend" /\ j.op = "start" /\ j.left = 0
       /\ services' = [services EXCEPT ![objects[j.o].name] = j.o]
       /\ used' = used \cup {objects[j.o].port}
       /\ Becomes(t, Idle)
       /\ UNCHANGED <<objects, network, docker, rest>>

(* scale: the containers that no longer run leave the list first.  The     *)
(* rest of it, in its order, is the one member of Running.                 *)
Elements(list) == {list[i] : i \in DOMAIN list}
Lists == UNION {[1..n -> Containers] : n \in 0..MaxContainers}
Running(list) ==
    {l \in Lists : /\ Elements(l) = {c \in Elements(list) : state[c] = "running"}
                   /\ \A h, i \in DOMAIN list, j, k \in DOMAIN l :
                         list[h] = l[j] /\ list[i] = l[k] => (h < i <=> j < k)}

ScaleService(t, n, size) ==
    /\ job[t] = Idle /\ services[n] # None /\ size \in 1..MaxScale
    /\ \E list \in Running(objects[services[n]].list) :
          /\ objects' = [objects EXCEPT ![services[n]].list = list]
          /\ Becomes(t, IF size > Len(list)
                        THEN [Idle EXCEPT !.at = "lend", !.op = "grow", !.o = services[n],
                                          !.left = size - Len(list)]
                        ELSE [Idle EXCEPT !.at = "next", !.op = "shrink", !.o = services[n],
                                          !.todo = SubSeq(list, size + 1, Len(list))])
    /\ UNCHANGED <<services, used, network, docker, rest>>

(* info counts the containers, and drops those that no longer run.         *)
ShowService(t, n) ==
    /\ job[t] = Idle /\ services[n] # None
    /\ \E list \in Running(objects[services[n]].list) :
          objects' = [objects EXCEPT ![services[n]].list = list]
    /\ UNCHANGED <<services, used, network, docker, job, rest>>

GrowEnds(t) ==
    /\ job[t].at = "lend" /\ job[t].op = "grow" /\ job[t].left = 0
    /\ Becomes(t, Idle)
    /\ UNCHANGED <<network, docker, manager, rest>>

StopService(t, n) ==
    /\ job[t] = Idle /\ services[n] # None
    /\ services' = [services EXCEPT ![n] = None]
    /\ Becomes(t, [Idle EXCEPT !.at = "next", !.op = "stop", !.o = services[n],
                               !.todo = objects[services[n]].list])
    /\ UNCHANGED <<objects, used, network, docker, rest>>

(* A port that another service has given back raises.                      *)
RemovalEnds(t) ==
    LET j == job[t]
    IN /\ j.at = "next" /\ j.todo = <<>>
       /\ \E list \in IF j.op = "stop" THEN {<<>>} ELSE Running(objects[j.o].list) :
             objects' = [objects EXCEPT ![j.o].list = list]
       /\ used' = IF j.op = "stop" THEN used \ {objects[j.o].port} ELSE used
       /\ Becomes(t, Idle)
       /\ UNCHANGED <<services, network, docker, rest>>
-----------------------------------------------------------------------------
(***************************************************************************)
(* _run_container                                                          *)
(***************************************************************************)

(* Mutant: the address is looked at and not taken.                         *)
Lend_Peeks(t) ==
    /\ job[t].at = "lend" /\ job[t].left > 0 /\ made < MaxContainers
    /\ made' = made + 1
    /\ state' = [state EXCEPT ![made + 1] = IF ovs THEN "running" ELSE "created"]
    /\ \E x \in pool :
          /\ \A y \in pool : x <= y
          /\ Becomes(t, [job[t] EXCEPT !.at = "connect", !.c = made + 1, !.addr = x])
    /\ UNCHANGED <<pool, books, wire, events, manager, rest>>

(* _create_container, and the address add_container takes: the lowest of   *)
(* the pool, or None.  With OVS the container has been started before.     *)
Lend(t) ==
    /\ job[t].at = "lend" /\ job[t].left > 0 /\ made < MaxContainers
    /\ made' = made + 1
    /\ state' = [state EXCEPT ![made + 1] = IF ovs THEN "running" ELSE "created"]
    /\ \/ /\ pool = {}
          /\ Becomes(t, [job[t] EXCEPT !.at = "connect", !.c = made + 1, !.addr = None])
          /\ UNCHANGED pool
       \/ \E x \in pool :
            /\ \A y \in pool : x <= y
            /\ pool' = pool \ {x}
            /\ Becomes(t, [job[t] EXCEPT !.at = "connect", !.c = made + 1, !.addr = x])
    /\ UNCHANGED <<books, wire, events, manager, rest>>

NextOne(j, at) == [j EXCEPT !.at = at, !.c = None, !.addr = None,
                            !.left = j.left - 1]

(* Docker's connect, or ovs-docker's add-port.                             *)
Connect(t) ==
    LET j == job[t]
    IN /\ j.at = "connect" /\ j.addr # None
       /\ wire' = [wire EXCEPT ![j.c] = j.addr]
       /\ books' = [books EXCEPT ![j.c] = j.addr]
       /\ Becomes(t, [j EXCEPT !.at = IF ovs THEN "append" ELSE "start", !.addr = None])
       /\ UNCHANGED <<pool, docker, manager, rest>>

(* It fails, always without an address, which is lost to the pool.  The    *)
(* bridge driver raises and the container is forgotten; the other returns  *)
(* the exception, so that the caller goes on.                              *)
ConnectFails(t) ==
    LET j == job[t]
    IN /\ j.at = "connect"
       /\ Becomes(t, IF ovs THEN [j EXCEPT !.at = "append", !.addr = None]
                     ELSE NextOne(j, "lend"))
       /\ UNCHANGED <<network, docker, manager, rest>>

(* The bridge driver's container starts on the network.                    *)
StartContainer(t) ==
    LET j == job[t]
    IN /\ j.at = "start"
       /\ state' = [state EXCEPT ![j.c] = "running"]
       /\ Emit("connect", j.c)
       /\ Becomes(t, [j EXCEPT !.at = "append"])
       /\ UNCHANGED <<made, network, manager, rest>>

AppendContainer(t) ==
    LET j == job[t]
    IN /\ j.at = "append"
       /\ objects' = [objects EXCEPT ![j.o].list = Append(@, j.c)]
       /\ Becomes(t, NextOne(j, "lend"))
       /\ UNCHANGED <<services, used, network, docker, rest>>
-----------------------------------------------------------------------------
(***************************************************************************)
(* remove_container and _stop_container, for requests and for the listener *)
(***************************************************************************)
NextRemoval(t) ==
    LET j == job[t]
    IN /\ j.at = "next" /\ j.todo # <<>>
       /\ Becomes(t, [j EXCEPT !.at = "disconnect", !.c = Head(j.todo), !.todo = Tail(@)])
       /\ UNCHANGED <<network, docker, manager, rest>>

(* An exception of the bridge's disconnect is ignored; del-port of a port  *)
(* that is gone raises, and the container is not stopped.                  *)
Disconnect(t) ==
    LET j == job[t]
    IN /\ j.at = "disconnect"
       /\ \/ /\ ~ovs /\ wire[j.c] # None /\ Emit("disconnect", j.c)
             /\ Becomes(t, [j EXCEPT !.at = "return"])
          \/ /\ wire[j.c] = None /\ UNCHANGED events
             /\ Becomes(t, [j EXCEPT !.at = IF ovs THEN "next" ELSE "return"])
          \/ /\ ovs /\ wire[j.c] # None /\ UNCHANGED events
             /\ Becomes(t, [j EXCEPT !.at = "return"])
       /\ wire' = [wire EXCEPT ![j.c] = None]
       /\ kept' = (kept /\ j.c # Proxy)
       /\ UNCHANGED <<pool, books, state, made, manager, ovs, listening, restarts>>

(* Mutant: what is popped goes back to the pool unseen, None too.          *)
Return_Unseen(t) ==
    LET j == job[t]
    IN /\ j.at = "return"
       /\ pool' = pool \cup {books[j.c]}
       /\ books' = [books EXCEPT ![j.c] = None]
       /\ Becomes(t, IF j.op = "event" THEN Idle ELSE [j EXCEPT !.at = "kill"])
       /\ UNCHANGED <<wire, docker, manager, rest>>

(* What one of two threads pops from the books goes back to the pool.      *)
Return(t) ==
    LET j == job[t]
    IN /\ j.at = "return"
       /\ pool' = IF books[j.c] = None THEN pool ELSE pool \cup {books[j.c]}
       /\ books' = [books EXCEPT ![j.c] = None]
       /\ Becomes(t, IF j.op = "event" THEN Idle ELSE [j EXCEPT !.at = "kill"])
       /\ UNCHANGED <<wire, docker, manager, rest>>

Kill(t) ==
    LET j == job[t]
    IN /\ j.at = "kill"
       /\ state' = [state EXCEPT ![j.c] = "gone"]
       /\ IF ovs /\ state[j.c] = "running" THEN Emit("die", j.c) ELSE UNCHANGED events
       /\ Becomes(t, [j EXCEPT !.at = "next", !.c = None])
       /\ UNCHANGED <<made, network, manager, rest>>
-----------------------------------------------------------------------------
(***************************************************************************)
(* Docker                                                                  *)
(***************************************************************************)

(* A container exits.  Docker takes it off its bridge; a port of the       *)
(* switch stays.                                                           *)
Exits(c) ==
    /\ state[c] = "running"
    /\ state' = [state EXCEPT ![c] = "gone"]
    /\ IF ovs THEN Emit("die", c) /\ UNCHANGED wire
       ELSE /\ wire' = [wire EXCEPT ![c] = None]
            /\ IF wire[c] # None THEN Emit("disconnect", c) ELSE UNCHANGED events
    /\ UNCHANGED <<pool, books, made, manager, job, rest>>

(* The proxy has a restart policy.  Docker attaches it again with its      *)
(* address unless it was disconnected meanwhile.                           *)
ProxyRestarts ==
    /\ state[Proxy] = "gone" /\ restarts < MaxRestarts
    /\ restarts' = restarts + 1
    /\ state' = [state EXCEPT ![Proxy] = "running"]
    /\ IF ~ovs /\ kept
       THEN wire' = [wire EXCEPT ![Proxy] = Reserved] /\ Emit("connect", Proxy)
       ELSE UNCHANGED <<wire, events>>
    /\ UNCHANGED <<pool, books, made, manager, job, ovs, listening, kept>>
-----------------------------------------------------------------------------
(***************************************************************************)
(* The listener thread                                                     *)
(***************************************************************************)
Next1 == listening /\ job[Listener] = Idle /\ events # <<>> /\ events' = Tail(events)

(* Mutant: only a container that still has an address is removed.          *)
HandleDisconnect_OnWire ==
    /\ Next1 /\ ~ovs /\ Head(events).kind = "disconnect"
    /\ LET c == Head(events).c
       IN Becomes(Listener, IF wire[c] = None THEN Idle
                            ELSE [Idle EXCEPT !.at = "disconnect", !.op = "event", !.c = c])
    /\ UNCHANGED <<network, state, made, manager, rest>>

(* handler_network_disconnect.                                             *)
HandleDisconnect ==
    /\ Next1 /\ ~ovs /\ Head(events).kind = "disconnect"
    /\ LET c == Head(events).c
       IN Becomes(Listener, IF books[c] = None THEN Idle
                            ELSE [Idle EXCEPT !.at = "disconnect", !.op = "event", !.c = c])
    /\ UNCHANGED <<network, state, made, manager, rest>>

(* handler_network_connect of a container that is in the books.            *)
HandleConnect ==
    /\ Next1 /\ ~ovs /\ Head(events).kind = "connect"
    /\ books[Head(events).c] # None
    /\ UNCHANGED <<network, state, made, manager, job, rest>>

(* Of one that is not: the container is gone, or is not on the network any *)
(* more, or cannot be connected again.  Each raises and ends the thread;   *)
(* an address that the container has on the network leaves the pool.       *)
ListenerRaises ==
    /\ Next1 /\ ~ovs /\ Head(events).kind = "connect"
    /\ books[Head(events).c] = None
    /\ pool' = pool \ {wire[Head(events).c]}
    /\ listening' = FALSE
    /\ UNCHANGED <<books, wire, state, made, manager, job, ovs, kept, restarts>>

(* The switch's driver never sets its flag: the loop ends at once.         *)
ListenerEnds ==
    /\ Next1 /\ ovs
    /\ listening' = FALSE
    /\ UNCHANGED <<network, state, made, manager, job, ovs, kept, restarts>>
-----------------------------------------------------------------------------
Continue(t) == \/ StartServiceEnds(t) \/ GrowEnds(t) \/ RemovalEnds(t)
               \/ Lend(t) \/ Connect(t) \/ ConnectFails(t)
               \/ StartContainer(t) \/ AppendContainer(t)
               \/ NextRemoval(t) \/ Disconnect(t) \/ Return(t) \/ Kill(t)

Request(t) ==
    \/ \E n \in Names, port \in Ports, k \in 1..MaxScale : StartService(t, n, port, k)
    \/ \E n \in Names, k \in 1..MaxScale : ScaleService(t, n, k)
    \/ \E n \in Names : ShowService(t, n) \/ StopService(t, n)

Listen == HandleDisconnect \/ HandleConnect \/ ListenerRaises \/ ListenerEnds
             \/ Disconnect(Listener) \/ Return(Listener)

Next == \/ \E t \in Threads : Request(t) \/ Continue(t)
        \/ Listen
        \/ \E c \in Containers : Exits(c)
        \/ ProxyRestarts

Spec == Init /\ [][Next]_vars
FairSpec == Spec /\ WF_vars(Listen)
-----------------------------------------------------------------------------
InHand(x) == {t \in Threads \cup {Listener} : job[t].at = "connect" /\ job[t].addr = x}
InBooks(x) == {c \in Containers : books[c] = x}
OnWire(x) == {c \in Containers : wire[c] = x}

(* An address has one holder: the pool, a request that is about to connect *)
(* a container with it, or one container in the books; and only that       *)
(* container has it on the network.  Two threads may remove the same       *)
(* container, the listener may follow a removal the shell is making, and   *)
(* a container may exit or come back meanwhile.                            *)
OneHolder == \A x \in Addresses :
    /\ \A t, u \in InHand(x) : t = u
    /\ \A c, d \in InBooks(x) : c = d
    /\ \A c \in OnWire(x) : InHand(x) = {} /\ x \notin pool /\ InBooks(x) \subseteq {c}
    /\ InHand(x) # {} => x \notin pool /\ InBooks(x) = {}
    /\ InBooks(x) # {} => x \notin pool
    /\ \A c, d \in OnWire(x) : c = d

(* The address of a container that has exited comes back while the         *)
(* listener of the bridge driver lives.                                    *)
ComesBack == \A c \in Served :
    (~ovs /\ state[c] = "gone" /\ books[c] # None) ~> (books[c] = None \/ ~listening)

(* The address reserved for the proxy is lent to no service.               *)
ReservedIsKept == \A c \in Served : books[c] # Reserved
=============================================================================
