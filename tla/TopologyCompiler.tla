--------------------------- MODULE TopologyCompiler ---------------------------
(***************************************************************************)
(* The compiler of gbuilder: what compiling the topology on the canvas     *)
(* gives, with addresses and routes generated.  An exception and a         *)
(* reported error both end in no file: Compiles is the absence of each.    *)
(* An address is the subnet and the device whose number makes its host     *)
(* part; a subnet is known by its device.  An interface is the device and  *)
(* the target it is kept by.                                               *)
(*                                                                         *)
(* A compilation overwrites what an earlier one left in the properties of  *)
(* the devices before it reads it, so each state is compiled afresh.       *)
(***************************************************************************)
EXTENDS Topology, SequencesExt

CONSTANTS Raised,    \* an exception
          Direct     \* the gateway of what is next to a router, 0.0.0.0

(* scene.items(): the topmost item, which is the last one added, first.    *)
Items(S) == SelectSeq(Reverse(devices), LAMBDA d : d \in S)
SwitchList == Items({s \in Switches : Type[s] = "Switch"})
                \o Items({s \in Switches : Type[s] = "OVSwitch"})
First(s) == IF s = <<>> THEN None ELSE s[1]
-----------------------------------------------------------------------------
(***************************************************************************)
(* Interfaces, as the compiler finds them                                  *)
(***************************************************************************)

(* getTarget of Subnet and of Switch.                                      *)
SubnetTarget(n, x) == First(SelectSeq(Around(edges, n), LAMBDA y : y # x))
SwitchTarget(s, x) ==
    LET n == First(SelectSeq(Around(edges, s), LAMBDA y : y # x /\ y \in Subnets))
    IN IF n = None THEN None ELSE SubnetTarget(n, s)
TargetOf(v, x) == IF v \in Subnets THEN SubnetTarget(v, x) ELSE SwitchTarget(v, x)

(* getInterface(node) and getInterface2, which may return an interface of  *)
(* another router.  More than Cardinality(Routers) calls never end.        *)
RECURSIVE Find(_, _, _)
Find(d, x, calls) ==
    IF x = None THEN IF interfaces[d] = <<>> THEN Raised ELSE <<d, interfaces[d][1]>>
    ELSE IF x \in Range(interfaces[d]) THEN <<d, x>>
    ELSE LET t == First(SelectSeq(interfaces[d], LAMBDA u :
                          \/ u \in Switches /\ SwitchTarget(u, x) = x
                          \/ u \in Routers /\ x \in Switches))
         IN CASE t = None -> None
              [] t \in Switches -> <<d, t>>
              [] OTHER -> IF calls = 0 THEN Raised ELSE Find(t, x, calls - 1)
GetInterface(d, x) == Find(d, x, Cardinality(Routers))
-----------------------------------------------------------------------------
(***************************************************************************)
(* Subnets: compile_subnet, compile_switch and switch_pass_mask            *)
(***************************************************************************)

(* The switches connected with s, and the subnet of them, if it is one.    *)
RECURSIVE Grow(_)
Grow(S) == LET T == S \cup {u \in Switches : Neighbours(edges, u) \cap S # {}}
           IN IF T = S THEN S ELSE Grow(T)
Group == [s \in Switches |-> Grow({s})]
SubnetsAt(S) == Subnets \cap UNION {Neighbours(edges, s) : s \in S}
SwitchesOK == \A s \in Switches \cap Present : Cardinality(SubnetsAt(Group[s])) = 1
SubnetOf(v) == IF v \in Subnets THEN v ELSE CHOOSE n \in SubnetsAt(Group[v]) : TRUE

(* switch_pass_mask begins at every switch once has_subnet is set, which   *)
(* no later switch clears.  One whose mask is not known yet fails.         *)
Starts == LET own == {i \in DOMAIN SwitchList : SubnetsAt({SwitchList[i]}) # {}}
          IN {i \in DOMAIN SwitchList : \E k \in own : k <= i}
MasksKnown == \A i \in Starts : \E k \in 1..i :
                 SwitchList[k] \in Group[SwitchList[i]] /\ SubnetsAt({SwitchList[k]}) # {}

(* The gateway of the switches: set by the last of a group, also when that *)
(* one is not on the subnet.                                               *)
Gateway(s) ==
    LET i == CHOOSE i \in DOMAIN SwitchList :
                /\ SwitchList[i] \in Group[s]
                /\ \A k \in DOMAIN SwitchList : SwitchList[k] \in Group[s] => k <= i
        x == SwitchTarget(SwitchList[i], None)
    IN IF x = None THEN None ELSE GetInterface(x, SwitchList[i])

(* pass_mask: the subnets written to interfaces, in order.                 *)
Passed(v) ==
    LET to == SelectSeq(Around(edges, v), LAMBDA x :
                x \in Interfaceable /\ (v \in Subnets => SubnetTarget(v, x) # None))
        at(x) == GetInterface(x, IF v \in Subnets THEN SubnetTarget(v, x) ELSE v)
    IN [i \in DOMAIN to |-> <<at(to[i]), SubnetOf(v)>>]
AllPassed == FlattenSeq([i \in DOMAIN Items(Subnets) |-> Passed(Items(Subnets)[i])])
               \o FlattenSeq([i \in DOMAIN SwitchList |-> Passed(SwitchList[i])])

(* The last value written to an interface.                                 *)
LastTo(writes, i) == First(Reverse(SelectSeq(writes, LAMBDA w : w[1] = i)))
Written(write) == IF write = None THEN None ELSE write[2]
SubnetOn == LET writes == AllPassed
            IN [i \in Interfaceable \X Nodes |-> Written(LastTo(writes, i))]
-----------------------------------------------------------------------------
(***************************************************************************)
(* Addresses: autogen_router, autogen_mach and autogen_cloud               *)
(***************************************************************************)
InterfaceVia(r, v) == GetInterface(r, TargetOf(v, r))
RouterWrites(r) == [k \in DOMAIN Around(edges, r) |->
                      <<InterfaceVia(r, Around(edges, r)[k]), r>>]
Addressed == FlattenSeq([i \in DOMAIN Items(Routers) |-> RouterWrites(Items(Routers)[i])])

(* Hosts have the address of their own interface.                          *)
Address(on, i) ==
    LET w == LastTo(Addressed, i)
    IN IF i[1] \in Hosts THEN <<on[i], i[1]>>
       ELSE IF w = None THEN None ELSE <<on[i], w[2]>>

(* Every interface written has a subnet, and so an address.                *)
InterfacesOK(on) ==
    /\ \A r \in Routers \cap Present : \A v \in Neighbours(edges, r) :
          LET i == InterfaceVia(r, v) IN i \notin {None, Raised} /\ on[i] # None
    /\ \A h \in Hosts \cap Present : \A t \in Range(interfaces[h]) : on[<<h, t>>] # None
-----------------------------------------------------------------------------
(***************************************************************************)
(* Routes                                                                  *)
(***************************************************************************)

(* visitAdjacentRouters.                                                   *)
RECURSIVE Visit(_, _, _)
Visit(a, e, from) ==
    LET y == Other(e, from)
        b == [seen |-> a.seen \cup {y},
              found |-> IF y \in Routers THEN Append(a.found, y) ELSE a.found]
    IN IF y \in a.seen THEN a
       ELSE IF y \in Interfaceable THEN b
       ELSE FoldLeft(LAMBDA c, f : IF f = e THEN c ELSE Visit(c, f, y), b, At(edges, y))

(* findAdjacentRouters and findAdjacentSubnets: routers with the interface *)
(* they are met through.                                                   *)
Through(d, t) ==
    LET leads(e) == LET v == Other(e, d)
                    IN t = IF v \in Subnets THEN SubnetTarget(v, d) ELSE v
        E == At(edges, d)
        e == First(SelectSeq(E, leads))
    IN IF e = None THEN E[Len(E)] ELSE e
Met_Default(d, t) ==
    LET met == Visit([seen |-> {}, found |-> <<>>], Through(d, t), d).found
    IN [k \in DOMAIN met |-> <<met[k], <<d, interfaces[d][1]>>>>]
Met(d, t) == LET met == Visit([seen |-> {}, found |-> <<>>], Through(d, t), d).found
             IN [k \in DOMAIN met |-> <<met[k], <<d, t>>>>]
MetAtSwitch(d, s) ==
    LET rs == SelectSeq(Around(edges, s), LAMBDA r : r # d /\ r \in Routers)
    IN [k \in DOMAIN rs |-> <<rs[k], IF s \in Range(interfaces[d]) THEN <<d, s>> ELSE None>>]
AdjacentRouters(d) ==
    LET switches == SelectSeq(Around(edges, d), LAMBDA v : v \in Switches)
    IN FlattenSeq([k \in DOMAIN interfaces[d] |-> Met(d, interfaces[d][k])])
         \o FlattenSeq([k \in DOMAIN switches |-> MetAtSwitch(d, switches[k])])
AdjacentSubnets(d) == {SubnetOf(v) : v \in Neighbours(edges, d)}

(* searchSubnet: breadth first over routers not yet found, each reached    *)
(* through the interface that began its path.                              *)
FirstOfEach(new) ==
    LET at == SelectSeq([k \in DOMAIN new |-> k], LAMBDA k :
                 \A j \in 1..(k - 1) : new[j][1] # new[k][1])
    IN [k \in DOMAIN at |-> new[at[k]]]
Via(all, out) == [k \in DOMAIN all |-> <<all[k][1], out>>]
RECURSIVE Search(_, _, _)
Search(n, queue, found) ==
    IF queue = <<>> THEN None
    ELSE LET one == Head(queue)
             Further(new) == Search(n, Tail(queue) \o Via(FirstOfEach(new), one[2]),
                                    found \cup {new[k][1] : k \in DOMAIN new})
         IN IF n \in AdjacentSubnets(one[1]) THEN one
            ELSE Further(SelectSeq(AdjacentRouters(one[1]), LAMBDA a : a[1] \notin found))
SearchFrom(n, queue) == Search(n, queue, {queue[k][1] : k \in DOMAIN queue})
SearchSubnet(d, n) == SearchFrom(n, AdjacentRouters(d))

(* addRoutingEntry: the interface and the gateway of the entry of d for n, *)
(* None for no entry.  A subnet next to d has the first interface on it,   *)
(* or without one; another is reached through what the search found.       *)
EntryHere(on, d, u) ==
    IF u = None \/ on[<<d, u>>] = None THEN Raised ELSE <<<<d, u>>, Direct>>
Hop(on, out, i) == IF i \in {None, Raised} THEN i ELSE <<out, Address(on, i)>>
Needed(i) == IF i = None THEN Raised ELSE i
EntryThrough(on, d, one, t) ==
    CASE t \in Switches /\ Type[d] = "Mach" -> Hop(on, one[2], Needed(Gateway(t)))
      [] t \in Switches /\ Type[d] # "Mach" -> Hop(on, one[2], GetInterface(one[1], t))
      [] OTHER -> Hop(on, one[2], Needed(GetInterface(t, d)))
EntryFound(on, d, one) ==
    IF one = None THEN None ELSE IF one[2] = None THEN None
    ELSE EntryThrough(on, d, one, one[2][2])
Entry(on, d, n) ==
    CASE n \notin AdjacentSubnets(d) -> EntryFound(on, d, SearchSubnet(d, n))
      [] n \in AdjacentSubnets(d) /\ d \in Hosts -> None
      [] OTHER -> EntryHere(on, d, First(SelectSeq(interfaces[d],
                                    LAMBDA v : on[<<d, v>>] \in {n, None})))

(* A host has one route for all networks, with the gateway of its first    *)
(* entry (formatRoutes).                                                   *)
Entries(on, d) ==
    LET all == [k \in DOMAIN Items(Subnets) |-> Entry(on, d, Items(Subnets)[k])]
    IN SelectSeq(all, LAMBDA e : e # None)

Compiles ==
    /\ SwitchesOK /\ MasksKnown
    /\ \E on \in {SubnetOn} :
          /\ InterfacesOK(on)
          /\ \A d \in Interfaceable \cap Present : Raised \notin Range(Entries(on, d))
-----------------------------------------------------------------------------
(***************************************************************************)
(* What the routes are for                                                 *)
(***************************************************************************)

(* The subnets that traffic of S can get to over routers.                  *)
RECURSIVE Reached(_)
Reached(S) == LET T == S \cup UNION {AdjacentSubnets(r) :
                         r \in {q \in Routers : AdjacentSubnets(q) \cap S # {}}}
              IN IF T = S THEN S ELSE Reached(T)

Holders(on, a) == {d \in Interfaceable : \E t \in Range(interfaces[d]) :
                      Address(on, <<d, t>>) = a}

(* The entry e takes traffic for n there: next to a router, or to the one  *)
(* router that has the gateway's address on the subnet of the interface,   *)
(* and from there on.                                                      *)
RECURSIVE Leads(_, _, _, _)
Leads(on, e, n, hops) ==
    /\ hops > 0
    /\ e[2] = Direct => on[e[1]] = n
    /\ e[2] # Direct =>
         /\ e[2] # None /\ e[2][1] = on[e[1]]
         /\ \E r \in Routers :
              /\ Holders(on, e[2]) = {r}
              /\ LET next == Entry(on, r, n) IN next # None /\ Leads(on, next, n, hops - 1)

(* What the routes are asked of: every subnet has two ends, one a router   *)
(* (compile_subnet warns of others), getInterface tells the connections of *)
(* a router apart, and only machines are plugged into a switch without a   *)
(* subnet of its own: a router or cloud there finds no gateway.            *)
WellDrawn ==
    /\ \A n \in Subnets \cap Present :
          Len(Around(edges, n)) = 2 /\ Neighbours(edges, n) \cap Routers # {}
    /\ \A r \in Routers : \A v, w \in Neighbours(edges, r) :
          v # w => InterfaceVia(r, v) # InterfaceVia(r, w)
    /\ \A s \in Switches : SubnetsAt({s}) = {} =>
          \A d \in Neighbours(edges, s) \cap Interfaceable : Type[d] = "Mach"

(* Routes that are generated lead where they should: a router's entry for  *)
(* every subnet it can reach, and the one route of a host, from router to  *)
(* router without a loop (addRoutingEntry, searchSubnet).                  *)
RoutesLead == Compiles /\ WellDrawn =>
    \E on \in {SubnetOn} :
       /\ \A r \in Routers \cap Present : \A n \in Reached(AdjacentSubnets(r)) :
            LET e == Entry(on, r, n)
            IN e # None /\ Leads(on, e, n, Cardinality(Routers))
       /\ \A h \in Hosts \cap Present : \A n \in Reached(AdjacentSubnets(h)) \ AdjacentSubnets(h) :
            LET all == Entries(on, h)
            IN all # <<>> /\ Leads(on, all[1], n, Cardinality(Routers) + 1)
=============================================================================
