------------------------------- MODULE Loader -------------------------------
(***************************************************************************)
(* gloader: what "-c" creates for a topology and "-d", or a creation that  *)
(* fails, takes away again.  The machine has docker networks and Open      *)
(* vSwitch bridges, tap devices of routers, containers and screens.  Each  *)
(* device has a stop script with the commands that undo its creation.      *)
(*                                                                         *)
(* One process runs at a time; a device or an interface of a router is one *)
(* step of it.  Any command may fail when it creates something.  A machine *)
(* is started in a screen, so its container comes up later and whether it  *)
(* does is not seen.  As the server does, a creation begins by removing    *)
(* the directories of routers and switches.                                *)
(***************************************************************************)
EXTENDS Naturals, Sequences, Functions

CONSTANTS
    Kind,          \* device -> "Switch", "OVS", "Router", "Mach", "Cloud", "Controller"
    Nets,          \* the subnets
    Topologies,    \* devices in the order of the file, and interfaces of each
    MaxAttempts,   \* bound on the processes
    MaxFaults,     \* bound on the commands that fail
    None

(* What the builder writes.  Names differ (findNextIndex; checkSemantics   *)
(* refuses others), and nothing is its own neighbour (validateEdge).  A    *)
(* device has one interface for each neighbour and is one of its           *)
(* neighbour's too; the compiler gives both ends of a link, and all that   *)
(* is plugged into a switch, one subnet (pass_mask).                       *)
Switches == {"Switch", "OVS"}
HasIfaces(t) == {d \in Range(t.devices) : Kind[d] \in {"Mach", "Router", "Cloud"}}
Compiled(t) ==
    /\ t.devices \in Seq(DOMAIN Kind \ {"all", "end"}) /\ IsInjective(t.devices)
    /\ t.ifaces \in [HasIfaces(t) -> Seq([to : Range(t.devices), net : Nets])]
    /\ \A d \in HasIfaces(t) : \A i \in Range(t.ifaces[d]) : i.to # d
    /\ \A d, e \in HasIfaces(t) : \A i \in Range(t.ifaces[d]), j \in Range(t.ifaces[e]) :
          /\ d = e /\ i.to = j.to => i.net = j.net
          /\ Kind[i.to] \in Switches /\ i.to = j.to => i.net = j.net
          /\ i.to = e /\ j.to = d => i.net = j.net
    /\ \A d \in HasIfaces(t) : \A i \in Range(t.ifaces[d]) :
          i.to \in HasIfaces(t) => d \in {j.to : j \in Range(t.ifaces[i.to])}

ASSUME LoaderAssumption ==
    /\ \A t \in Topologies : Compiled(t)
    /\ None \notin Nets
    /\ MaxAttempts \in Nat /\ MaxFaults \in Nat

VARIABLES
    top,           \* the topology
    networks,      \* subnet of each network or bridge, by its name
    taps,          \* where each tap is plugged in, by its number
    containers,    \* network of each machine that is up
    starting,      \* the same of those whose screen has been started
    screens,       \* of routers, controllers and clouds
    scripts,       \* of each device: what it undoes, and whether it runs
    subnetMap, nameMap, tapNames,     \* the globals of the process
    phase, todo,   \* what the process does, and what is left to do
    setup, last,   \* the setup file exists; how the last process ended
    whole,         \* history: all of it was up when the process began
    attempts, faults

maps == <<subnetMap, nameMap, tapNames>>
machine == <<networks, taps, containers, starting, screens>>
vars == <<top, machine, scripts, maps, phase, todo, setup, last, whole, attempts, faults>>

Devices == Range(top.devices)
With(f, x, y) == [z \in DOMAIN f \cup {x} |-> IF z = x THEN y ELSE f[z]]
IsSwitch(d) == Kind[d] \in Switches
Ifaces(d) == top.ifaces[d]
Names == Devices \X Devices      \* <<s, s>>: of a switch; <<r, d>>: hidden between two
HiddenName_ByRouter(r, d) == <<r, r>>
HiddenName(r, d) == <<r, d>>
Docker == {n \in DOMAIN networks : n[1] = n[2] => Kind[n[1]] = "Switch"}

TypeOK ==
    /\ top \in Topologies
    /\ DOMAIN networks \subseteq Names
    /\ DOMAIN taps \subseteq Nat /\ Range(taps) \subseteq Names \cup {None}
    /\ DOMAIN containers \cap DOMAIN starting = {}
    /\ Range(containers) \cup Range(starting) \subseteq Names
    /\ screens \cup DOMAIN scripts \subseteq Devices
    /\ \A n \in Range(subnetMap) : n \in DOMAIN networks
    /\ IsInjective(tapNames) /\ Range(tapNames) \subseteq Names
    /\ phase \in {"idle", "create", "undo", "destroy"} /\ (phase = "idle" <=> todo = <<>>)
    /\ last \in {"none", "created", "failed", "destroyed"} /\ setup \in BOOLEAN /\ whole \in BOOLEAN
    /\ attempts \in 0..MaxAttempts /\ faults \in 0..MaxFaults

Init ==
    /\ top \in Topologies
    /\ networks = <<>> /\ taps = <<>> /\ containers = <<>> /\ starting = <<>> /\ screens = {}
    /\ scripts = <<>> /\ subnetMap = <<>> /\ nameMap = <<>> /\ tapNames = <<>>
    /\ phase = "idle" /\ todo = <<>> /\ setup = FALSE /\ last = "none" /\ whole = FALSE
    /\ attempts = 0 /\ faults = 0
-----------------------------------------------------------------------------
(***************************************************************************)
(* A process                                                               *)
(***************************************************************************)

(* The order of start_GINI and of destroy_GINI.  A router is one item for  *)
(* each interface and one more; "all" is "docker rm -f" of every container.*)
Concat(seqs) == LET f[i \in 0..Len(seqs)] == IF i = 0 THEN <<>> ELSE f[i - 1] \o seqs[i]
                IN f[Len(seqs)]
Of(k) == Concat([i \in DOMAIN top.devices |->
                    LET d == top.devices[i] IN IF Kind[d] \in k THEN <<d>> ELSE <<>>])
Each(devs) == [i \in DOMAIN devs |-> <<devs[i], 1>>]
RouterItems(r) == [k \in 1..(Len(Ifaces(r)) + 1) |-> <<r, k>>]
StartPlan ==
    Each(Of(Switches)) \o Each(Of({"Controller"}))
      \o Concat([i \in DOMAIN Of({"Router"}) |-> RouterItems(Of({"Router"})[i])])
      \o Each(Of({"Mach"})) \o Each(Of({"Cloud"})) \o <<<<"end", 1>>>>
StopPlan ==
    Each(Of({"Mach"})) \o Each(Of({"Cloud"})) \o <<<<"all", 1>>>> \o Each(Of({"Router"}))
      \o Each(Of({"Controller"})) \o Each(Of(Switches)) \o <<<<"end", 1>>>>

Dev == todo[1][1]
Forget == subnetMap' = <<>> /\ nameMap' = <<>> /\ tapNames' = <<>>

(* How a step of the creation ends: the next one, or destroy_GINI.         *)
Go == todo' = Tail(todo) /\ UNCHANGED phase
Abort_Remembers == phase' = "undo" /\ todo' = StopPlan /\ UNCHANGED maps
Abort == phase' = "undo" /\ todo' = StopPlan /\ Forget

(* bad says that a command fails.                                          *)
Bad == {FALSE} \cup {b \in {TRUE} : faults < MaxFaults}
Count(bad) == faults' = faults + (IF bad THEN 1 ELSE 0)
Step == UNCHANGED <<top, setup, last, whole, attempts>>

Script(d, undo, runs) == scripts' = With(scripts, d, [undo |-> undo, runs |-> runs])

(* Created by the window only while nothing of a topology runs, and by     *)
(* gserver and gloader only while no router or controller is alive.        *)
Create ==
    /\ phase = "idle" /\ attempts < MaxAttempts /\ last # "created"
    /\ \A d \in screens : Kind[d] = "Cloud"
    /\ attempts' = attempts + 1
    /\ phase' = "create" /\ todo' = StartPlan
    /\ scripts' = Restrict(scripts, {d \in DOMAIN scripts : Kind[d] = "Mach"})
    /\ whole' = FALSE
    /\ UNCHANGED <<top, machine, maps, setup, last, faults>>

Destroy ==
    /\ phase = "idle" /\ attempts < MaxAttempts /\ setup
    /\ attempts' = attempts + 1
    /\ phase' = "destroy" /\ todo' = StopPlan /\ Forget
    /\ whole' = (last = "created" /\ starting = <<>>)
    /\ UNCHANGED <<top, machine, scripts, setup, last, faults>>

(* write_source_file is called whether the creation succeeded or not; what *)
(* the process had in memory is gone.                                      *)
End ==
    /\ todo # <<>> /\ Dev = "end"
    /\ phase' = "idle" /\ todo' = <<>> /\ Forget
    /\ setup' = TRUE
    /\ last' = CASE phase = "create" -> "created" [] phase = "undo" -> "failed"
                 [] OTHER -> "destroyed"
    /\ UNCHANGED <<top, machine, scripts, whole, attempts, faults>>
-----------------------------------------------------------------------------
(***************************************************************************)
(* start_GINI                                                              *)
(***************************************************************************)
Creating(k) == phase = "create" /\ todo # <<>> /\ Dev \in Devices /\ Kind[Dev] = k

First(at) == CHOOSE i \in at : \A j \in at : i <= j

(* find_subnet_for_switch: of the first machine or router plugged in.      *)
SubnetOf(s) ==
    LET in == Concat([i \in DOMAIN Of({"Mach"}) |-> Ifaces(Of({"Mach"})[i])]
                       \o [i \in DOMAIN Of({"Router"}) |-> Ifaces(Of({"Router"})[i])])
        at == {i \in DOMAIN in : in[i].to = s}
    IN IF at = {} THEN None ELSE in[First(at)].net

(* docker network create: refused when there is one of that name or subnet.*)
Free(name, net) == name \notin DOMAIN networks /\ net \notin {networks[n] : n \in Docker}

StartSwitch ==
    /\ Creating("Switch")
    /\ LET s == <<Dev, Dev>> net == SubnetOf(Dev) shared == net \in DOMAIN subnetMap IN
       \E bad \in Bad :
         LET new == net # None /\ ~shared /\ Free(s, net) /\ ~bad
             ok == net # None /\ (shared \/ new \/ s \in DOMAIN networks)
         IN /\ Count(bad)
            /\ networks' = IF new THEN With(networks, s, net) ELSE networks
            /\ Script(Dev, IF ok /\ ~shared THEN {<<"net", s>>} ELSE {}, ok)
            /\ IF ok
               THEN /\ Go /\ UNCHANGED tapNames
                    /\ subnetMap' = IF new THEN With(subnetMap, net, s) ELSE subnetMap
                    /\ nameMap' = IF shared THEN With(nameMap, s, subnetMap[net]) ELSE nameMap
               ELSE Abort
    /\ UNCHANGED <<taps, containers, starting, screens>> /\ Step

(* Its script runs before its bridge is there; a later command may fail.   *)
StartOVS ==
    /\ Creating("OVS")
    /\ LET s == <<Dev, Dev>> net == SubnetOf(Dev) IN
       \E bad \in Bad :
         LET new == net # None /\ s \notin DOMAIN networks
         IN /\ Count(bad)
            /\ networks' = IF new THEN With(networks, s, net) ELSE networks
            /\ Script(Dev, {<<"net", s>>}, net # None)
            /\ IF new /\ ~bad
               THEN /\ Go /\ UNCHANGED <<nameMap, tapNames>>
                    /\ subnetMap' = With(subnetMap, net, s)
               ELSE Abort
    /\ UNCHANGED <<taps, containers, starting, screens>> /\ Step

(* Fails when there is no port left.                                       *)
StartController ==
    /\ Creating("Controller")
    /\ \E bad \in Bad :
         /\ Count(bad)
         /\ IF bad THEN Abort /\ UNCHANGED screens
                   ELSE Go /\ screens' = screens \cup {Dev} /\ UNCHANGED maps
    /\ UNCHANGED <<networks, taps, containers, starting, scripts>> /\ Step

(* An interface of a router: the bridge it is for, which create_new_switch *)
(* makes when it leads to a machine, or to a router that has not made it,  *)
(* and a tap plugged into it.  A tap whose plugging in fails stays.        *)
StartInterface ==
    /\ Creating("Router") /\ todo[1][2] <= Len(Ifaces(Dev))
    /\ LET r == Dev
           k == todo[1][2]
           t == Ifaces(r)[k].to
           net == Ifaces(r)[k].net
           own == ~IsSwitch(t) /\ HiddenName(t, r) \notin DOMAIN networks
           shared == own /\ net \in DOMAIN subnetMap
           name == CASE shared -> subnetMap[net] [] own /\ ~shared -> HiddenName(r, t)
                     [] ~own /\ IsSwitch(t) -> <<t, t>> [] OTHER -> HiddenName(t, r)
           taps1 == IF <<r, t>> \in Range(tapNames) THEN tapNames ELSE Append(tapNames, <<r, t>>)
           tap == CHOOSE i \in DOMAIN taps1 : taps1[i] = <<r, t>>
           before == IF k = 1 THEN {} ELSE scripts[r].undo
       IN \E bad \in Bad, at \in {"network", "tap", "plug"} :
            LET new == own /\ Free(name, net) /\ ~(bad /\ at = "network")
                there == new \/ name \in DOMAIN networks
                added == tap \notin DOMAIN taps /\ ~(bad /\ at = "tap")
                ok == added /\ there /\ ~(bad /\ at = "plug")
            IN /\ (~bad => at = "network") /\ Count(bad)
               /\ networks' = IF new THEN With(networks, name, net) ELSE networks
               /\ taps' = IF added THEN With(taps, tap, IF ok THEN name ELSE None) ELSE taps
               /\ Script(r, before \cup {<<"net", n>> : n \in {x \in {name} : own /\ ~shared /\ there}}
                                   \cup {<<"tap", i>> : i \in {x \in {tap} : ok}}, FALSE)
               /\ IF ok
                  THEN /\ Go /\ tapNames' = taps1
                       /\ subnetMap' = IF new THEN With(subnetMap, net, name) ELSE subnetMap
                       /\ nameMap' = IF shared THEN With(nameMap, HiddenName(r, t), name) ELSE nameMap
                  ELSE Abort
    /\ UNCHANGED <<containers, starting, screens>> /\ Step

StartRouter ==
    /\ Creating("Router") /\ todo[1][2] > Len(Ifaces(Dev))
    /\ Script(Dev, IF Dev \in DOMAIN scripts THEN scripts[Dev].undo ELSE {}, TRUE)
    /\ screens' = screens \cup {Dev}
    /\ Go /\ UNCHANGED <<networks, taps, containers, starting, maps, faults>> /\ Step

(* get_switch_to_connect: the network of the first interface that leads to *)
(* a switch or a router.                                                   *)
NameOf(n) == IF n \in DOMAIN nameMap THEN nameMap[n] ELSE n
NetworkFor(d) ==
    LET at == {i \in DOMAIN Ifaces(d) : Kind[Ifaces(d)[i].to] \in Switches \cup {"Router"}}
        t == Ifaces(d)[First(at)].to
    IN IF at = {} THEN None
       ELSE IF IsSwitch(t) THEN NameOf(<<t, t>>)
       ELSE IF HiddenName(t, d) \in DOMAIN networks THEN NameOf(HiddenName(t, d)) ELSE None

StartMach ==
    /\ Creating("Mach")
    /\ LET m == Dev name == NetworkFor(m) IN
       \E bad \in Bad :
         /\ Count(bad)
         /\ IF name = None
            THEN Abort /\ UNCHANGED <<scripts, containers, starting>>
            ELSE /\ Script(m, {<<"con", m>>}, TRUE)
                 /\ IF bad
                    THEN /\ Abort /\ UNCHANGED starting
                         /\ containers' = Restrict(containers, DOMAIN containers \ {m})
                    ELSE /\ Go /\ UNCHANGED <<containers, maps>>
                         /\ starting' = IF m \in DOMAIN containers THEN starting
                                        ELSE With(starting, m, name)
    /\ UNCHANGED <<networks, taps, screens>> /\ Step

(* A cloud has no stop script; its manager uses the host's network.        *)
StartCloud ==
    /\ Creating("Cloud")
    /\ \E bad \in Bad :
         /\ Count(bad)
         /\ IF bad \/ NetworkFor(Dev) = None
            THEN Abort /\ UNCHANGED screens
            ELSE Go /\ screens' = screens \cup {Dev} /\ UNCHANGED maps
    /\ UNCHANGED <<networks, taps, containers, starting, scripts>> /\ Step

(* docker run of a machine, in its screen.                                 *)
ContainerUp(m) ==
    /\ m \in DOMAIN starting
    /\ starting' = Restrict(starting, DOMAIN starting \ {m})
    /\ containers' = IF starting[m] \in DOMAIN networks
                     THEN With(containers, m, starting[m]) ELSE containers
    /\ UNCHANGED <<top, networks, taps, screens, scripts, maps, phase, todo, setup, last,
                   whole, attempts, faults>>
-----------------------------------------------------------------------------
(***************************************************************************)
(* destroy_GINI                                                            *)
(***************************************************************************)

RunScript_Unchecked(d) ==
    LET undo == IF d \in DOMAIN scripts THEN scripts[d].undo ELSE {}
        gone(kind) == {u[2] : u \in {v \in undo : v[1] = kind}}
    IN /\ networks' = Restrict(networks, DOMAIN networks \ (gone("net") \ Range(containers)))
       /\ UNCHANGED taps
       /\ containers' = Restrict(containers, DOMAIN containers \ gone("con"))

(* The stop script of d: every command is tried.  Docker keeps a network   *)
(* that has containers.                                                    *)
RunScript(d) ==
    LET undo == IF d \in DOMAIN scripts /\ scripts[d].runs THEN scripts[d].undo ELSE {}
        gone(kind) == {u[2] : u \in {v \in undo : v[1] = kind}}
    IN /\ networks' = Restrict(networks, DOMAIN networks \ (gone("net") \ Range(containers)))
       /\ taps' = Restrict(taps, DOMAIN taps \ gone("tap"))
       /\ containers' = Restrict(containers, DOMAIN containers \ gone("con"))

StopDevice ==
    /\ phase \in {"undo", "destroy"} /\ todo # <<>> /\ Dev \in Devices
    /\ RunScript(Dev)
    /\ screens' = screens \ {Dev}
    /\ todo' = Tail(todo)
    /\ UNCHANGED <<starting, scripts, maps, phase, faults>> /\ Step

StopAll ==
    /\ phase \in {"undo", "destroy"} /\ todo # <<>> /\ Dev = "all"
    /\ containers' = <<>>
    /\ todo' = Tail(todo)
    /\ UNCHANGED <<networks, taps, starting, screens, scripts, maps, phase, faults>> /\ Step
-----------------------------------------------------------------------------
Next ==
    \/ Create \/ Destroy \/ End
    \/ StartSwitch \/ StartOVS \/ StartController \/ StartInterface \/ StartRouter
    \/ StartMach \/ StartCloud
    \/ \E m \in Devices : ContainerUp(m)
    \/ StopDevice \/ StopAll

Spec == Init /\ [][Next]_vars
-----------------------------------------------------------------------------
(* A machine or a router is in the network of its subnet, also when the    *)
(* network has the name of another switch (subnet_map, network_name_map)   *)
(* or was left by a creation that failed.                                  *)
InItsSubnet ==
    /\ \A m \in DOMAIN containers : containers[m] \in DOMAIN networks =>
          networks[containers[m]] \in {i.net : i \in Range(Ifaces(m))}
    /\ \A i \in DOMAIN taps \cap DOMAIN tapNames : taps[i] \in DOMAIN networks =>
          \E j \in Range(Ifaces(tapNames[i][1])) :
             j.to = tapNames[i][2] /\ networks[taps[i]] = j.net

Clean == /\ DOMAIN networks \cup DOMAIN taps = {}
         /\ DOMAIN containers \cup DOMAIN starting = {} /\ screens = {}

(* Destroying a topology that was created, and all of it up, leaves        *)
(* nothing behind, whatever creations failed before: the stop scripts name *)
(* everything, also what was found there, and run in an order that docker  *)
(* accepts.                                                                *)
DestroyedIsClean == phase = "idle" /\ last = "destroyed" /\ whole => Clean

(* start_GINI says so of a creation that fails: "Terminating the partially *)
(* started network (if any)".  The script of a router that could not be    *)
(* completed cannot run, and no script has a tap that was not plugged in.  *)
FailedIsClean == phase = "idle" /\ last = "failed" /\ attempts = 1 /\ starting = <<>> => Clean
=============================================================================
