------------------------------ MODULE Topology ------------------------------
(***************************************************************************)
(* The topology editor of gbuilder: devices on the canvas, connections     *)
(* between them, and the interfaces that hosts and routers get and lose as *)
(* connections come and go.  A host or router has an interface for what it *)
(* is linked to: the switch it is plugged into, or whatever is at the      *)
(* other end of a subnet.  It is kept by its target only, so two links to  *)
(* the same device share one.                                              *)
(*                                                                         *)
(* Edits are refused while a topology runs, and one thread makes them all. *)
(***************************************************************************)
EXTENDS Naturals, Sequences, Functions

CONSTANTS
    Nodes,       \* what may be on the canvas
    Type,        \* the device_type of each
    Saved,       \* the files a session may begin with: devices and edges
    MaxEdits,    \* bound on the changes of a session
    None

Switches == {d \in Nodes : Type[d] \in {"Switch", "OVSwitch"}}
Subnets == {d \in Nodes : Type[d] = "Subnet"}
Routers == {d \in Nodes : Type[d] = "Router"}
Hosts == {d \in Nodes : Type[d] \in {"Mach", "Cloud"}}
Controllers == {d \in Nodes : Type[d] = "OpenFlowController"}
Interfaceable == Routers \cup Hosts

(* What the editor draws and saves: no two links join the same two items,  *)
(* none joins an item with itself, and a subnet has at most two.          *)
Drawable(E) ==
    /\ IsInjective(E)
    /\ \A e, f \in Range(E) : e[1] # e[2] /\ ({e[1], e[2]} = {f[1], f[2]} => e = f)
    /\ \A v \in Subnets : \A e, f, g \in Range(E) :
          v \in {e[1], e[2]} /\ v \in {f[1], f[2]} /\ v \in {g[1], g[2]}
            => e = f \/ f = g \/ e = g

ASSUME TopologyAssumption ==
    /\ Nodes = Switches \cup Subnets \cup Interfaceable \cup Controllers
    /\ \A f \in Saved :
          /\ f.devices \in Seq(Nodes) /\ IsInjective(f.devices)
          /\ f.edges \in Seq(Range(f.devices) \X Range(f.devices))
          /\ Drawable(f.edges)
    /\ None \notin Nodes /\ MaxEdits \in Nat

VARIABLES
    devices,     \* the devices of the scene, in the order they were added
    edges,       \* its connections, source and destination, likewise
    interfaces,  \* the targets of each device's interfaces, in order
    edits,       \* changes so far
    shared       \* history: the pairs that two links join, or joined

editorVars == <<devices, edges, interfaces, edits, shared>>

Present == Range(devices)
Other(e, d) == IF e[1] = d THEN e[2] ELSE e[1]
Only(s, S) ==    \* the elements of s that are in S
    LET f[i \in 0..Len(s)] == IF i = 0 THEN <<>>
                             ELSE IF s[i] \in S THEN Append(f[i - 1], s[i]) ELSE f[i - 1]
    IN f[Len(s)]
Reversed(s) == [i \in 1..Len(s) |-> s[Len(s) + 1 - i]]

Links(E, d) == {e \in Range(E) : d \in {e[1], e[2]}}
At(E, d) == Only(E, Links(E, d))
Around(E, d) == LET own == At(E, d) IN [i \in DOMAIN own |-> Other(own[i], d)]
Neighbours(E, d) == {Other(e, d) : e \in Links(E, d)}

(* The pairs <<d, t>> that the links of E join: d is to have an interface  *)
(* with target t.  LinksVia counts them.                                   *)
LinksVia(E, d, t) ==
    {n \in Subnets : {d, t} \subseteq Neighbours(E, n)}
       \cup {s \in Switches \cap {t} : s \in Neighbours(E, d)}
Joined(E) == {p \in Interfaceable \X Nodes : p[1] # p[2] /\ LinksVia(E, p[1], p[2]) # {}}
JoinedTwice(E) == {p \in Joined(E) : \E v, w \in LinksVia(E, p[1], p[2]) : v # w}

EditorTypeOK ==
    /\ devices \in Seq(Nodes) /\ IsInjective(devices)
    /\ edges \in Seq(Present \X Present) /\ Drawable(edges)
    /\ interfaces \in [Nodes -> Seq(Nodes)]
    /\ \A d \in Nodes : /\ IsInjective(interfaces[d])
                        /\ d \notin Interfaceable => interfaces[d] = <<>>
    /\ edits \in 0..MaxEdits
    /\ shared \subseteq Interfaceable \X Nodes
-----------------------------------------------------------------------------
(***************************************************************************)
(* Interfaces follow connections                                           *)
(***************************************************************************)

(* What Subnet and Switch tell to the devices next to them when a          *)
(* connection e is made beside those of E, or taken from them: a switch    *)
(* tells a host or router, a subnet with two ends tells both.              *)
Told(E, e) ==
    LET Tell(d, t) == IF d \in Interfaceable THEN <<<<d, t>>>> ELSE <<>>
        Of(v) == CASE v \in Switches -> Tell(Other(e, v), v)
                   [] v \in Subnets /\ Around(E, v) # <<>> ->
                        LET x == Around(E, v)[1] y == Other(e, v)
                        IN Tell(x, y) \o Tell(y, x)
                   [] OTHER -> <<>>
    IN Of(e[1]) \o Of(e[2])

(* addInterface and removeInterface for each of them.                      *)
AddInterface_Again(I, p) == [I EXCEPT ![p[1]] = Append(@, p[2])]
AddInterface(I, p) ==
    [I EXCEPT ![p[1]] = IF p[2] \in Range(@) THEN @ ELSE Append(@, p[2])]
RemoveInterface(I, p) == [I EXCEPT ![p[1]] = Only(@, Range(@) \ {p[2]})]

AddInterfaces(I, told) ==
    LET f[i \in 0..Len(told)] == IF i = 0 THEN I ELSE AddInterface(f[i - 1], told[i])
    IN f[Len(told)]
RemoveInterfaces(I, told) ==
    LET f[i \in 0..Len(told)] == IF i = 0 THEN I ELSE RemoveInterface(f[i - 1], told[i])
    IN f[Len(told)]

(* Connection.__init__ makes a connection beside those of E.  What         *)
(* loadTopology makes is made in the order of the file.                    *)
WithLink(I, E, e) == AddInterfaces(I, Told(E, e))
NoInterfaces == [d \in Nodes |-> <<>>]
Loaded(E) ==
    LET f[i \in 0..Len(E)] ==
            IF i = 0 THEN NoInterfaces ELSE WithLink(f[i - 1], SubSeq(E, 1, i - 1), E[i])
    IN f[Len(E)]

(* Edge.delete of each connection in gone: it is taken from its ends, and  *)
(* then they are told.                                                     *)
Less(E, gone) == Only(E, Range(E) \ gone)
WithoutLink(I, E, e) == RemoveInterfaces(I, Told(E, e))
Cut_First(I, E, gone) ==
    LET f[i \in 0..Len(gone)] ==
            IF i = 0 THEN I
            ELSE WithoutLink(f[i - 1], Less(E, {gone[k] : k \in 1..(i - 1)}), gone[i])
    IN f[Len(gone)]
Cut(I, E, gone) ==
    LET f[i \in 0..Len(gone)] ==
            IF i = 0 THEN I ELSE WithoutLink(f[i - 1], Less(E, {gone[k] : k \in 1..i}), gone[i])
    IN f[Len(gone)]

Becomes(E, I) == /\ edges' = E /\ interfaces' = I
                 /\ shared' = (shared \cap Joined(E)) \cup JoinedTwice(E)
Edit == edits < MaxEdits /\ edits' = edits + 1

EditorInit ==
    /\ \E f \in Saved :
         /\ devices = f.devices /\ edges = f.edges /\ interfaces = Loaded(f.edges)
         /\ shared = JoinedTwice(f.edges)
    /\ edits = 0
-----------------------------------------------------------------------------
(***************************************************************************)
(* The actions of the user                                                 *)
(***************************************************************************)

(* connection_rule, as unordered pairs of types that allow each other.     *)
Rules == {{"Mach", "Switch"}, {"Mach", "Subnet"}, {"Mach", "OVSwitch"},
          {"Router", "Subnet"}, {"Router", "Switch"}, {"Router", "OVSwitch"},
          {"Switch"}, {"Switch", "Subnet"}, {"Switch", "OVSwitch"}, {"Switch", "Cloud"},
          {"OVSwitch"}, {"OVSwitch", "Subnet"}, {"OVSwitch", "Cloud"},
          {"OVSwitch", "OpenFlowController"}, {"Subnet", "Cloud"}}

(* validateEdge, which asks isValid both ways round.                       *)
IsValid(d, source) ==
    /\ d \in Hosts => Around(edges, d) = <<>>
    /\ d \in Subnets => /\ Len(Around(edges, d)) # 2
                        /\ source \in Switches =>
                              /\ Neighbours(edges, d) \cap Switches = {}
                              /\ Neighbours(edges, source) \cap Subnets = {}
ValidEdge(a, b) ==
    /\ a # b /\ b \notin Neighbours(edges, a)
    /\ {Type[a], Type[b]} \in Rules
    /\ IsValid(a, b) /\ IsValid(b, a)

Drop(d) ==
    /\ Edit /\ d \notin Present
    /\ devices' = Append(devices, d)
    /\ UNCHANGED <<edges, interfaces, shared>>

Connect(a, b) ==
    /\ Edit /\ {a, b} \subseteq Present /\ ValidEdge(a, b)
    /\ Becomes(Append(edges, <<a, b>>), WithLink(interfaces, edges, <<a, b>>))
    /\ UNCHANGED devices

DeleteEdge(e) ==
    /\ Edit /\ e \in Range(edges)
    /\ Becomes(Less(edges, {e}), Cut(interfaces, edges, <<e>>))
    /\ UNCHANGED devices

DeleteNode(d) ==
    /\ Edit /\ d \in Present
    /\ Becomes(Less(edges, Links(edges, d)), Cut(interfaces, edges, At(edges, d)))
    /\ devices' = Only(devices, Present \ {d})

(* Saved, closed and loaded again: the file has the items of the scene in  *)
(* the order it gives them, the topmost and so the last one first, and the *)
(* connections are made anew without a check.                              *)
Reload ==
    /\ Edit
    /\ devices' = Reversed(devices)
    /\ Becomes(Reversed(edges), Loaded(Reversed(edges)))

EditorNext ==
    \/ \E d \in Nodes : Drop(d) \/ DeleteNode(d)
    \/ \E a, b \in Nodes : Connect(a, b)
    \/ \E e \in Range(edges) : DeleteEdge(e)
    \/ Reload

EditorSpec == EditorInit /\ [][EditorNext]_editorVars
-----------------------------------------------------------------------------
(* The interfaces of a host or router follow its links, whichever end of a *)
(* subnet is connected first and whatever is deleted or loaded: there is   *)
(* none without a link, and every link has one, unless two links to the    *)
(* same device have shared it (removeInterface takes it away with the      *)
(* first of them).                                                         *)
InterfacesFollowLinks ==
    LET has == {p \in Interfaceable \X Nodes : p[2] \in Range(interfaces[p[1]])}
    IN has \subseteq Joined(edges) /\ Joined(edges) \ has \subseteq shared
=============================================================================
