----------------------------- MODULE LoaderProofs -----------------------------
(***************************************************************************)
(* Proofs about Loader, for any topology that the builder writes and any   *)
(* failures of commands: the types, that machines and taps are in the      *)
(* network of their subnet, and that a topology that was created is        *)
(* destroyed without a rest.  LInv is the invariant of the first two; the  *)
(* last needs SInv too, which says who undoes what is there, and with it   *)
(* the order of the plans and the numbers of the taps.                     *)
(***************************************************************************)
EXTENDS Loader, WellFoundedInduction, TLAPS

(* The interfaces a network is for: those that lead to its switch, or of   *)
(* the router it is hidden behind.  It fits the subnet they have.          *)
Hosts == {d \in Devices : Kind[d] \in {"Mach", "Router"}}
Ends(n) == IF IsSwitch(n[1])
           THEN {i \in UNION {Range(Ifaces(d)) : d \in Hosts} : i.to = n[1]}
           ELSE {i \in Range(Ifaces(n[1])) : i.to = n[2]}
Known(n) == n \in Names /\ (IsSwitch(n[1]) \/ n[1] \in HasIfaces(top))
Fits(n, net) == \E i \in Ends(n) : i.net = net
NetsOf(m) == {i.net : i \in Range(Ifaces(m))}

(* What is left to do: a sequence of items that ends with the end.         *)
Items == (Devices \cup {"all", "end"}) \X (Nat \ {0})
Ended(s) == s \in Seq(Items) /\ s # <<>> /\ s[Len(s)] = <<"end", 1>>
PlanInv ==
    /\ phase \in {"idle", "create", "undo", "destroy"}
    /\ phase = "idle" => todo = <<>>
    /\ phase # "idle" => Ended(todo)
    /\ phase # "create" => subnetMap = <<>> /\ nameMap = <<>> /\ tapNames = <<>>

(* The networks and what the maps say of them.                             *)
NetInv == \A n \in DOMAIN networks : Known(n) /\ Fits(n, networks[n])
SubnetInv == \A net \in DOMAIN subnetMap :
                subnetMap[net] \in DOMAIN networks /\ networks[subnetMap[net]] = net
NameInv == \A n \in DOMAIN nameMap :
                nameMap[n] \in DOMAIN networks /\ Fits(n, networks[nameMap[n]])
TapInv == \A i \in DOMAIN taps \cap DOMAIN tapNames :
                /\ taps[i] \in DOMAIN networks
                /\ \E j \in Range(Ifaces(tapNames[i][1])) :
                      j.to = tapNames[i][2] /\ networks[taps[i]] = j.net
MapInv == NetInv /\ SubnetInv /\ NameInv /\ TapInv

(* A machine is started in a network that fits its subnets only.           *)
PlugInv(up) == \A m \in DOMAIN up :
                  m \in Devices /\ Known(up[m]) /\ \A i \in Ends(up[m]) : i.net \in NetsOf(m)
UpInv == /\ PlugInv(containers) /\ PlugInv(starting)
         /\ DOMAIN containers \cap DOMAIN starting = {}

TapsInv == /\ DOMAIN taps \subseteq Nat /\ \A i \in DOMAIN taps : taps[i] \in Names \cup {None}
           /\ tapNames \in Seq(Names) /\ IsInjective(tapNames)
RestInv == /\ top \in Topologies
           /\ screens \subseteq Devices /\ DOMAIN scripts \subseteq Devices
           /\ last \in {"none", "created", "failed", "destroyed"}
           /\ setup \in BOOLEAN /\ whole \in BOOLEAN
           /\ attempts \in 0..MaxAttempts /\ faults \in 0..MaxFaults

LInv == PlanInv /\ MapInv /\ UpInv /\ TapsInv /\ RestInv
-----------------------------------------------------------------------------
(* Functions, and induction over numbers for a set in place of a predicate *)

LEMMA Extended ==
    ASSUME NEW f, NEW x, NEW y
    PROVE  /\ DOMAIN With(f, x, y) = {x} \cup DOMAIN f
           /\ With(f, x, y)[x] = y
           /\ \A z \in DOMAIN f : z # x => With(f, x, y)[z] = f[z]
BY DEF With

LEMMA Restricted ==
    ASSUME NEW f, NEW S
    PROVE  /\ DOMAIN Restrict(f, S) = S
           /\ \A z \in S : Restrict(f, S)[z] = f[z]
BY DEF Restrict

LEMMA EmptyDomain == DOMAIN <<>> = {}
OBVIOUS

LEMMA LeastNumber ==
    ASSUME NEW T, T \subseteq Nat, T # {}
    PROVE  \E n \in T : \A m \in T : n <= m
<1> DEFINE R == {ss \in Nat \X Nat : ss[1] < ss[2]}
<1>1. IsWellFoundedOn(OpToRel(<, Nat), Nat)
  BY NatLessThanWellFounded
<1>2. IsWellFoundedOn(R, Nat)
  BY <1>1, Zenon DEF OpToRel
<1>3. \E n \in T : \A m \in T : ~(<<m, n>> \in R)
  BY <1>2, WFMin, Zenon
<1>4. \A m, n \in Nat : <<m, n>> \in R <=> m < n
  OBVIOUS
<1> HIDE DEF R
<1>5. PICK n \in T : \A m \in T : ~(<<m, n>> \in R)
  BY <1>3
<1>6. ASSUME NEW m \in T PROVE n <= m
  <2>1. n \in Nat /\ m \in Nat
    OBVIOUS
  <2>2. ~(m < n)
    BY <1>4, <1>5, <2>1, Zenon
  <2> QED BY <2>1, <2>2
<1> QED BY <1>5, <1>6

(* A function on the positions of a sequence is a sequence.                *)
LEMMA MapType ==
    ASSUME NEW S, NEW s \in Seq(S), NEW T, NEW g \in [DOMAIN s -> T]
    PROVE  g \in Seq(T)
<1>1. DOMAIN s = 1..Len(s) /\ Len(s) \in Nat
  OBVIOUS
<1> QED BY <1>1

LEMMA Element ==
    ASSUME NEW S, NEW s \in Seq(S), NEW k \in DOMAIN s
    PROVE  s[k] \in S
OBVIOUS

LEMMA FirstIsIn ==
    ASSUME NEW at, at \subseteq Nat, at # {}
    PROVE  First(at) \in at
BY LeastNumber, Zenon DEF First

LEMMA InductionUpTo ==
    ASSUME NEW N \in Nat, NEW T, 0 \in T,
           \A n \in 1..N : n - 1 \in T => n \in T
    PROVE  0..N \subseteq T
<1> DEFINE Out == {n \in 0..N : n \notin T}
<1> SUFFICES ASSUME Out # {} PROVE FALSE
  OBVIOUS
<1>1. PICK n \in Out : \A m \in Out : n <= m
  <2>1. Out \subseteq Nat
    OBVIOUS
  <2> HIDE DEF Out
  <2> QED BY <2>1, LeastNumber
<1>2. n \in 1..N /\ n - 1 \in T
  BY <1>1
<1> QED BY <1>1, <1>2
-----------------------------------------------------------------------------
(* A concatenation: its parts can be joined one by one, and what they      *)
(* consist of, it consists of.                                             *)
Joined(seqs, f, i) == IF i = 0 THEN <<>> ELSE f[i - 1] \o seqs[i]
Joins(seqs, f, n) == [i \in 0..n |-> Joined(seqs, f, i)]

LEMMA JoinsExist ==
    ASSUME NEW seqs, NEW N \in Nat
    PROVE  \E f : f = Joins(seqs, f, N)
<1> DEFINE T == {n \in 0..N : \E f : f = Joins(seqs, f, n)}
<1>1. 0 \in T
  <2> DEFINE g == [i \in 0..0 |-> <<>>]
  <2>1. \A i \in 0..0 : <<>> = Joined(seqs, g, i)
    BY DEF Joined
  <2>2. g = Joins(seqs, g, 0)
    BY <2>1, Zenon DEF Joins
  <2>3. 0 \in 0..N
    OBVIOUS
  <2> HIDE DEF g
  <2> QED BY <2>2, <2>3
<1>2. ASSUME NEW n \in 1..N, n - 1 \in T PROVE n \in T
  <2>1. PICK f : f = Joins(seqs, f, n - 1)
    BY <1>2
  <2> DEFINE h(i) == IF i = n THEN Joined(seqs, f, n) ELSE f[i]
             g == [i \in 0..n |-> h(i)]
  <2>2. n # 0 /\ n \in 0..n /\ n \in 0..N /\ n \in Int
    OBVIOUS
  <2>3. \A i \in 0..n : g[i] = h(i)
    BY Zenon
  <2>4. \A i \in 0..n : i # n => i \in 0..(n - 1)
    BY <2>2
  <2>5. \A i \in 0..(n - 1) : f[i] = Joined(seqs, f, i)
    BY <2>1, Zenon DEF Joins
  <2>6. \A i \in 0..n : i # 0 => i - 1 \in 0..n /\ i - 1 # n
    BY <2>2
  <2> HIDE DEF g
  <2>7. \A i \in 0..n : i # 0 => g[i - 1] = f[i - 1]
    BY <2>3, <2>6, Zenon
  <2>8. \A i \in 0..n : Joined(seqs, g, i) = Joined(seqs, f, i)
    BY <2>7, Zenon DEF Joined
  <2>9. \A i \in 0..n : h(i) = Joined(seqs, g, i)
    <3> TAKE i \in 0..n
    <3>1. CASE i = n
      BY <2>8, <3>1, Zenon
    <3>2. CASE i # n
      BY <2>4, <2>5, <2>8, <3>2, Zenon
    <3> QED BY <3>1, <3>2
  <2>10. g = Joins(seqs, g, n)
    BY <2>9, Zenon DEF Joins, g
  <2> QED BY <2>2, <2>10
<1>3. N \in T
  <2> HIDE DEF T
  <2>1. 0..N \subseteq T
    BY <1>1, <1>2, InductionUpTo
  <2> QED BY <2>1
<1> QED BY <1>3, Zenon

LEMMA ConcatType ==
    ASSUME NEW S, NEW seqs \in Seq(Seq(S))
    PROVE  Concat(seqs) \in Seq(S)
<1> DEFINE N == Len(seqs)
           f == CHOOSE f : f = Joins(seqs, f, N)
           T == {n \in 0..N : f[n] \in Seq(S)}
<1>1. N \in Nat
  OBVIOUS
<1>2. f = Joins(seqs, f, N)
  BY <1>1, JoinsExist, Zenon
<1>3. Concat(seqs) = f[N]
  BY Zenon DEF Concat, Joins, Joined
<1> HIDE DEF f
<1>4. \A i \in 0..N : f[i] = Joined(seqs, f, i)
  BY <1>2, Zenon DEF Joins
<1>5. 0 \in T
  <2>1. 0 \in 0..N
    BY <1>1
  <2>2. f[0] = <<>>
    BY <1>4, <2>1, Zenon DEF Joined
  <2>3. <<>> \in Seq(S)
    OBVIOUS
  <2> QED BY <2>1, <2>2, <2>3, Zenon
<1>6. ASSUME NEW n \in 1..N, n - 1 \in T PROVE n \in T
  <2>1. n \in 0..N /\ n # 0 /\ n \in 1..Len(seqs)
    BY <1>1
  <2>2. f[n] = f[n - 1] \o seqs[n]
    BY <1>4, <2>1, Zenon DEF Joined
  <2>3. f[n - 1] \in Seq(S)
    BY <1>6
  <2>4. seqs[n] \in Seq(S)
    BY <2>1
  <2>5. f[n - 1] \o seqs[n] \in Seq(S)
    BY <2>3, <2>4
  <2> QED BY <2>1, <2>2, <2>5
<1>7. N \in T
  <2> HIDE DEF T
  <2>1. 0..N \subseteq T
    BY <1>1, <1>5, <1>6, InductionUpTo
  <2> QED BY <1>1, <2>1
<1> QED BY <1>3, <1>7
-----------------------------------------------------------------------------
(* The topology *)

LEMMA TopFacts ==
    ASSUME top \in Topologies
    PROVE  /\ top.devices \in Seq(Devices) /\ "all" \notin Devices /\ "end" \notin Devices
           /\ HasIfaces(top) = {d \in Devices : Kind[d] \in {"Mach", "Router", "Cloud"}}
           /\ \A d \in HasIfaces(top) : Ifaces(d) \in Seq([to : Devices, net : Nets])
<1>1. Compiled(top)
  BY LoaderAssumption
<1>2. top.devices \in Seq(DOMAIN Kind \ {"all", "end"})
  BY <1>1 DEF Compiled
<1>3. top.devices \in Seq(Devices) /\ "all" \notin Devices /\ "end" \notin Devices
  BY <1>2 DEF Devices, Range
<1>4. HasIfaces(top) = {d \in Devices : Kind[d] \in {"Mach", "Router", "Cloud"}}
  BY DEF HasIfaces, Devices
<1>5. \A d \in HasIfaces(top) : Ifaces(d) \in Seq([to : Devices, net : Nets])
  BY <1>1, Zenon DEF Compiled, Ifaces, Devices
<1> QED BY <1>3, <1>4, <1>5

LEMMA Interfaces ==
    ASSUME top \in Topologies, NEW d \in HasIfaces(top), NEW k \in DOMAIN Ifaces(d)
    PROVE  /\ d \in Devices
           /\ Ifaces(d)[k] \in Range(Ifaces(d))
           /\ Ifaces(d)[k].to \in Devices
<1>1. Ifaces(d) \in Seq([to : Devices, net : Nets]) /\ d \in Devices
  BY TopFacts
<1>2. Ifaces(d)[k] \in Range(Ifaces(d))
  BY Zenon DEF Range
<1>3. Ifaces(d)[k] \in [to : Devices, net : Nets]
  BY <1>1, Element
<1> QED BY <1>1, <1>2, <1>3

(* What the builder guarantees.                                            *)
LEMMA Linked ==
    ASSUME top \in Topologies
    PROVE  /\ \A d, e \in HasIfaces(top) : \A i \in Range(Ifaces(d)), j \in Range(Ifaces(e)) :
                /\ d = e /\ i.to = j.to => i.net = j.net
                /\ Kind[i.to] \in Switches /\ i.to = j.to => i.net = j.net
                /\ i.to = e /\ j.to = d => i.net = j.net
           /\ \A d \in HasIfaces(top) : \A i \in Range(Ifaces(d)) :
                /\ i.to \in HasIfaces(top) => d \in {j.to : j \in Range(Ifaces(i.to))}
                /\ i.to # d
           /\ IsInjective(top.devices)
<1>1. Compiled(top)
  BY LoaderAssumption
<1>2. \A d, e \in HasIfaces(top) : \A i \in Range(top.ifaces[d]), j \in Range(top.ifaces[e]) :
          /\ d = e /\ i.to = j.to => i.net = j.net
          /\ Kind[i.to] \in Switches /\ i.to = j.to => i.net = j.net
          /\ i.to = e /\ j.to = d => i.net = j.net
  BY ONLY <1>1 DEF Compiled
<1>3. \A d \in HasIfaces(top) : \A i \in Range(top.ifaces[d]) :
          /\ i.to \in HasIfaces(top) => d \in {j.to : j \in Range(top.ifaces[i.to])}
          /\ i.to # d
  BY ONLY <1>1 DEF Compiled
<1>4. IsInjective(top.devices)
  BY ONLY <1>1 DEF Compiled
<1>5. \A d : Ifaces(d) = top.ifaces[d]
  BY DEF Ifaces
<1> QED BY <1>2, <1>3, <1>4, <1>5

LEMMA OneNet ==
    ASSUME top \in Topologies, NEW n, Known(n), NEW i \in Ends(n), NEW j \in Ends(n)
    PROVE  i.net = j.net
<1>1. CASE IsSwitch(n[1])
  <2>1. PICK d \in Hosts, e \in Hosts : i \in Range(Ifaces(d)) /\ j \in Range(Ifaces(e))
    BY <1>1, Zenon DEF Ends
  <2>2. d \in HasIfaces(top) /\ e \in HasIfaces(top)
    BY TopFacts DEF Hosts
  <2>3. i.to = n[1] /\ j.to = n[1]
    BY <1>1, Zenon DEF Ends
  <2> QED BY <1>1, <2>1, <2>2, <2>3, Linked DEF IsSwitch
<1>2. CASE ~IsSwitch(n[1])
  <2>1. n[1] \in HasIfaces(top) /\ i \in Range(Ifaces(n[1])) /\ j \in Range(Ifaces(n[1])) /\ i.to = j.to
    BY <1>2, Zenon DEF Known, Ends
  <2> QED BY <2>1, Linked
<1> QED BY <1>1, <1>2

LEMMA FitsOne ==
    ASSUME top \in Topologies, NEW n, Known(n), NEW a, NEW b, Fits(n, a), Fits(n, b)
    PROVE  a = b
BY OneNet, Zenon DEF Fits

(* Both ends of a link are in one subnet.                                  *)
LEMMA OtherEnd ==
    ASSUME top \in Topologies, NEW d \in HasIfaces(top), NEW e \in HasIfaces(top),
           NEW i \in Range(Ifaces(d)), i.to = e
    PROVE  \E j \in Range(Ifaces(e)) : j.to = d /\ j.net = i.net
<1>1. PICK j \in Range(Ifaces(e)) : j.to = d
  BY Linked
<1>2. i.net = j.net
  BY <1>1, Linked
<1> QED BY <1>1, <1>2, Zenon

LEMMA OfType ==
    ASSUME top \in Topologies, NEW k
    PROVE  Of(k) \in Seq({d \in Devices : Kind[d] \in k})
<1> DEFINE S == {d \in Devices : Kind[d] \in k}
           part(i) == LET d == top.devices[i] IN IF Kind[d] \in k THEN <<d>> ELSE <<>>
           parts == [i \in DOMAIN top.devices |-> part(i)]
<1>1. top.devices \in Seq(Devices)
  BY TopFacts
<1>2. ASSUME NEW i \in DOMAIN top.devices PROVE part(i) \in Seq(S)
  <2>1. top.devices[i] \in Devices
    BY <1>1
  <2>2. CASE Kind[top.devices[i]] \in k
    <3>1. top.devices[i] \in S
      BY <2>1, <2>2
    <3>2. part(i) = <<top.devices[i]>>
      BY <2>2
    <3> HIDE DEF part, S
    <3> QED BY <3>1, <3>2
  <2>3. CASE Kind[top.devices[i]] \notin k
    <3>1. part(i) = <<>>
      BY <2>3
    <3> HIDE DEF part, S
    <3> QED BY <3>1
  <2> QED BY <2>2, <2>3
<1>3. parts \in Seq(Seq(S))
  <2> HIDE DEF part, S
  <2> QED BY <1>1, <1>2, MapType
<1>4. Of(k) = Concat(parts)
  BY Zenon DEF Of
<1> HIDE DEF parts, S
<1>5. Concat(parts) \in Seq(S)
  BY <1>3, ConcatType
<1> QED BY <1>4, <1>5 DEF S

(* find_subnet_for_switch finds a subnet of an interface to the switch.    *)
LEMMA SubnetFits ==
    ASSUME top \in Topologies, NEW s, IsSwitch(s), SubnetOf(s) # None
    PROVE  Fits(<<s, s>>, SubnetOf(s))
<1> DEFINE S == UNION {Range(Ifaces(d)) : d \in Hosts}
           M == Of({"Mach"})
           R == Of({"Router"})
           parts == [i \in DOMAIN M |-> Ifaces(M[i])] \o [i \in DOMAIN R |-> Ifaces(R[i])]
           in == Concat(parts)
           at == {i \in DOMAIN in : in[i].to = s}
<1>1. ASSUME NEW d \in Hosts PROVE Ifaces(d) \in Seq(S)
  <2>1. d \in HasIfaces(top)
    BY TopFacts DEF Hosts
  <2>2. Ifaces(d) \in Seq([to : Devices, net : Nets])
    BY <2>1, TopFacts
  <2>3. \A i \in DOMAIN Ifaces(d) : Ifaces(d)[i] \in Range(Ifaces(d))
    BY Zenon DEF Range
  <2>4. Range(Ifaces(d)) \subseteq S
    OBVIOUS
  <2> HIDE DEF S
  <2>5. Ifaces(d) \in [DOMAIN Ifaces(d) -> S]
    BY <2>2, <2>3, <2>4
  <2> QED BY <2>2, <2>5, MapType
<1>2. M \in Seq(Hosts) /\ R \in Seq(Hosts)
  <2>1. M \in Seq({d \in Devices : Kind[d] \in {"Mach"}}) /\ R \in Seq({d \in Devices : Kind[d] \in {"Router"}})
    BY OfType
  <2> HIDE DEF M, R
  <2> QED BY <2>1 DEF Hosts
<1>3. parts \in Seq(Seq(S))
  <2> HIDE DEF S, M, R
  <2>1. [i \in DOMAIN M |-> Ifaces(M[i])] \in Seq(Seq(S))
    <3>1. \A i \in DOMAIN M : M[i] \in Hosts
      BY <1>2
    <3> QED BY <1>1, <1>2, <3>1, MapType
  <2>2. [i \in DOMAIN R |-> Ifaces(R[i])] \in Seq(Seq(S))
    <3>1. \A i \in DOMAIN R : R[i] \in Hosts
      BY <1>2
    <3> QED BY <1>1, <1>2, <3>1, MapType
  <2> QED BY <2>1, <2>2
<1>4. in \in Seq(S)
  <2> HIDE DEF parts, S
  <2> QED BY <1>3, ConcatType
<1>5. SubnetOf(s) = IF at = {} THEN None ELSE in[First(at)].net
  BY Zenon DEF SubnetOf
<1> HIDE DEF in
<1>6. at # {} /\ at \subseteq Nat
  <2>1. at # {}
    BY <1>5, Zenon
  <2> HIDE DEF S
  <2> QED BY <1>4, <2>1
<1>7. First(at) \in at
  <2> HIDE DEF at
  <2> QED BY <1>6, FirstIsIn
<1>8. in[First(at)] \in S /\ in[First(at)].to = s
  <2> HIDE DEF S
  <2> QED BY <1>4, <1>7
<1>9. in[First(at)] \in Ends(<<s, s>>)
  BY <1>8 DEF Ends
<1> QED BY <1>5, <1>6, <1>9, Zenon DEF Fits
-----------------------------------------------------------------------------
(* The plans *)

LEMMA EachType ==
    ASSUME NEW S, NEW s \in Seq(S), S \subseteq Devices
    PROVE  Each(s) \in Seq(Items)
<1>1. \A i \in DOMAIN s : <<s[i], 1>> \in Items
  BY DEF Items
<1> HIDE DEF Items
<1> QED BY <1>1 DEF Each

LEMMA EachOf ==
    ASSUME top \in Topologies, NEW k
    PROVE  Each(Of(k)) \in Seq(Items)
<1> DEFINE S == {d \in Devices : Kind[d] \in k}
<1>1. Of(k) \in Seq(S)
  BY OfType
<1>2. S \subseteq Devices
  OBVIOUS
<1> HIDE DEF S
<1> QED BY <1>1, <1>2, EachType

LEMMA Closed ==
    ASSUME NEW s \in Seq(Items)
    PROVE  Ended(s \o <<<<"end", 1>>>>)
<1>1. <<"end", 1>> \in Items
  BY DEF Items
<1> HIDE DEF Items
<1> QED BY <1>1 DEF Ended

LEMMA StartPlanEnds ==
    ASSUME top \in Topologies
    PROVE  Ended(StartPlan)
<1> DEFINE R == Of({"Router"})
           parts == [i \in DOMAIN R |-> RouterItems(R[i])]
<1>1. R \in Seq(HasIfaces(top))
  <2>1. R \in Seq({d \in Devices : Kind[d] \in {"Router"}})
    BY OfType
  <2> HIDE DEF R
  <2> QED BY <2>1, TopFacts
<1>2. ASSUME NEW d \in HasIfaces(top) PROVE RouterItems(d) \in Seq(Items)
  <2>1. Ifaces(d) \in Seq([to : Devices, net : Nets]) /\ d \in Devices
    BY TopFacts
  <2>2. Len(Ifaces(d)) + 1 \in Nat
    BY <2>1
  <2>3. \A k \in 1..(Len(Ifaces(d)) + 1) : <<d, k>> \in Items
    BY <2>1, <2>2 DEF Items
  <2> HIDE DEF Items
  <2> QED BY <2>2, <2>3 DEF RouterItems
<1>3. parts \in Seq(Seq(Items))
  <2>1. \A i \in DOMAIN R : R[i] \in HasIfaces(top)
    BY <1>1, Element
  <2> HIDE DEF R, Items
  <2>2. parts \in [DOMAIN R -> Seq(Items)]
    BY <1>2, <2>1
  <2> HIDE DEF parts
  <2> QED BY <1>1, <2>2, MapType
<1>4. Concat(parts) \in Seq(Items)
  <2> HIDE DEF parts, Items
  <2> QED BY <1>3, ConcatType
<1> DEFINE a == Each(Of(Switches))
           b == Each(Of({"Controller"}))
           c == Concat(parts)
           d == Each(Of({"Mach"}))
           e == Each(Of({"Cloud"}))
<1>5. a \in Seq(Items) /\ b \in Seq(Items) /\ d \in Seq(Items) /\ e \in Seq(Items)
  BY EachOf
<1>6. StartPlan = a \o b \o c \o d \o e \o <<<<"end", 1>>>>
  BY Zenon DEF StartPlan
<1> HIDE DEF a, b, c, d, e, Items
<1>7. a \o b \o c \o d \o e \in Seq(Items)
  BY <1>4, <1>5 DEF c
<1> QED BY <1>6, <1>7, Closed

LEMMA StopPlanEnds ==
    ASSUME top \in Topologies
    PROVE  Ended(StopPlan)
<1> DEFINE a == Each(Of({"Mach"}))
           b == Each(Of({"Cloud"}))
           c == <<<<"all", 1>>>>
           d == Each(Of({"Router"}))
           e == Each(Of({"Controller"}))
           f == Each(Of(Switches))
<1>1. a \in Seq(Items) /\ b \in Seq(Items) /\ d \in Seq(Items) /\ e \in Seq(Items) /\ f \in Seq(Items)
  BY EachOf
<1>2. c \in Seq(Items)
  BY DEF Items
<1>3. StopPlan = a \o b \o c \o d \o e \o f \o <<<<"end", 1>>>>
  BY Zenon DEF StopPlan
<1> HIDE DEF a, b, c, d, e, f, Items
<1>4. a \o b \o c \o d \o e \o f \in Seq(Items)
  BY <1>1, <1>2
<1> QED BY <1>3, <1>4, Closed

LEMMA GoesOn ==
    ASSUME Ended(todo), Dev # "end"
    PROVE  Ended(Tail(todo))
<1> HIDE DEF Items
<1>1. todo \in Seq(Items) /\ todo # <<>> /\ todo[Len(todo)] = <<"end", 1>> /\ todo[1] # <<"end", 1>>
  BY DEF Ended, Dev
<1>2. Len(todo) \in Nat /\ Len(todo) > 1
  BY <1>1
<1>3. Tail(todo) \in Seq(Items) /\ Len(Tail(todo)) = Len(todo) - 1
  BY <1>1
<1>4. Tail(todo)[Len(Tail(todo))] = todo[Len(todo)]
  BY <1>1, <1>2
<1>5. Tail(todo) # <<>>
  <2>1. Len(Tail(todo)) # 0
    BY <1>2, <1>3
  <2>2. Len(<<>>) = 0
    OBVIOUS
  <2> QED BY <2>1, <2>2, Zenon
<1> QED BY <1>1, <1>3, <1>4, <1>5, Zenon DEF Ended
-----------------------------------------------------------------------------
(* What steps have in common *)

LEMMA SameTop ==
    ASSUME top' = top
    PROVE  /\ Devices' = Devices /\ Names' = Names /\ Items' = Items
           /\ HasIfaces(top)' = HasIfaces(top)
           /\ \A d : Ifaces(d)' = Ifaces(d)
           /\ \A n : Ends(n)' = Ends(n)
           /\ \A n : NetsOf(n)' = NetsOf(n)
           /\ \A n : Known(n)' <=> Known(n)
           /\ \A n, net : Fits(n, net)' <=> Fits(n, net)
<1>1. Devices' = Devices /\ HasIfaces(top)' = HasIfaces(top)
  BY DEF Devices, HasIfaces
<1>2. Names' = Names /\ Items' = Items /\ Hosts' = Hosts
  BY <1>1 DEF Names, Items, Hosts
<1>3. \A d : Ifaces(d)' = Ifaces(d)
  BY DEF Ifaces
<1>4. \A n : Ends(n)' = Ends(n)
  BY <1>2, <1>3, Zenon DEF Ends
<1>5. \A n : Known(n)' <=> Known(n)
  BY <1>1, <1>2, Zenon DEF Known
<1>6. \A n, net : Fits(n, net)' <=> Fits(n, net)
  BY <1>4, Zenon DEF Fits
<1>7. \A n : NetsOf(n)' = NetsOf(n)
  BY <1>3, Zenon DEF NetsOf
<1> QED BY <1>1, <1>2, <1>3, <1>4, <1>5, <1>6, <1>7, Zenon

(* No network is taken away.                                               *)
Kept == \A n \in DOMAIN networks : n \in DOMAIN networks' /\ networks'[n] = networks[n]

LEMMA Grow ==
    ASSUME NetInv, top' = top, NEW name, NEW net, NEW new \in BOOLEAN,
           networks' = IF new THEN With(networks, name, net) ELSE networks,
           new => name \notin DOMAIN networks /\ Known(name) /\ Fits(name, net)
    PROVE  /\ NetInv' /\ Kept
           /\ new => name \in DOMAIN networks' /\ networks'[name] = net
<1>1. CASE new
  <2>1. networks' = With(networks, name, net) /\ name \notin DOMAIN networks
    BY <1>1
  <2>2. /\ DOMAIN networks' = {name} \cup DOMAIN networks
        /\ networks'[name] = net
        /\ \A n \in DOMAIN networks : networks'[n] = networks[n]
    BY <2>1 DEF With
  <2>3. NetInv'
    BY <1>1, <2>2, SameTop DEF NetInv
  <2> QED BY <2>2, <2>3 DEF Kept
<1>2. CASE ~new
  BY <1>2, SameTop DEF NetInv, Kept
<1> QED BY <1>1, <1>2

LEMMA KeptSubnets ==
    ASSUME SubnetInv, Kept, NEW name, NEW net, NEW new \in BOOLEAN,
           subnetMap' = IF new THEN With(subnetMap, net, name) ELSE subnetMap,
           new => name \in DOMAIN networks' /\ networks'[name] = net
    PROVE  SubnetInv'
<1>1. CASE new
  <2>1. /\ DOMAIN subnetMap' = {net} \cup DOMAIN subnetMap
        /\ subnetMap'[net] = name
        /\ \A n \in DOMAIN subnetMap : n # net => subnetMap'[n] = subnetMap[n]
    BY <1>1 DEF With
  <2> QED BY <1>1, <2>1 DEF SubnetInv, Kept
<1>2. CASE ~new
  BY <1>2 DEF SubnetInv, Kept
<1> QED BY <1>1, <1>2

LEMMA KeptNames ==
    ASSUME NameInv, top' = top, Kept, NEW n, NEW name, NEW shared \in BOOLEAN,
           nameMap' = IF shared THEN With(nameMap, n, name) ELSE nameMap,
           shared => name \in DOMAIN networks' /\ Fits(n, networks'[name])
    PROVE  NameInv'
<1>1. CASE shared
  <2>1. /\ DOMAIN nameMap' = {n} \cup DOMAIN nameMap
        /\ nameMap'[n] = name
        /\ \A x \in DOMAIN nameMap : x # n => nameMap'[x] = nameMap[x]
    BY <1>1 DEF With
  <2> QED BY <1>1, <2>1, SameTop DEF NameInv, Kept
<1>2. CASE ~shared
  BY <1>2, SameTop DEF NameInv, Kept
<1> QED BY <1>1, <1>2

LEMMA KeptTaps ==
    ASSUME TapInv, top' = top, Kept, taps' = taps, tapNames' = tapNames
    PROVE  TapInv'
BY SameTop DEF TapInv, Kept

LEMMA Forgotten ==
    ASSUME subnetMap' = <<>>, nameMap' = <<>>, tapNames' = <<>>
    PROVE  /\ SubnetInv' /\ NameInv' /\ TapInv'
           /\ tapNames' \in Seq(Names') /\ IsInjective(tapNames')
<1>1. DOMAIN subnetMap' = {} /\ DOMAIN nameMap' = {} /\ DOMAIN tapNames' = {}
  BY EmptyDomain
<1>2. SubnetInv' /\ NameInv' /\ TapInv'
  BY <1>1 DEF SubnetInv, NameInv, TapInv
<1>3. IsInjective(tapNames')
  BY <1>1 DEF IsInjective
<1>4. tapNames' \in Seq(Names')
  OBVIOUS
<1> QED BY <1>2, <1>3, <1>4

(* How a step of the creation ends.                                        *)
LEMMA GoPlan ==
    ASSUME PlanInv, RestInv, phase = "create", Dev \in Devices, top' = top, Go
    PROVE  PlanInv'
<1>1. Ended(todo) /\ Dev # "end"
  BY TopFacts DEF PlanInv, RestInv
<1>2. Ended(Tail(todo))
  BY <1>1, GoesOn
<1>3. Ended(todo)'
  BY <1>2, SameTop, Zenon DEF Ended, Go
<1> QED BY <1>3 DEF PlanInv, Go

LEMMA AbortPlan ==
    ASSUME RestInv, top' = top, Abort
    PROVE  /\ PlanInv'
           /\ subnetMap' = <<>> /\ nameMap' = <<>> /\ tapNames' = <<>>
<1>1. Ended(StopPlan)
  BY StopPlanEnds DEF RestInv
<1>2. Ended(todo)'
  BY <1>1, SameTop, Zenon DEF Ended, Abort
<1> QED BY <1>2 DEF PlanInv, Abort, Forget

LEMMA SameUp ==
    ASSUME UpInv, UNCHANGED <<top, containers, starting>>
    PROVE  UpInv'
BY SameTop DEF UpInv, PlugInv

LEMMA SameTaps ==
    ASSUME TapsInv, top' = top, taps' = taps,
           tapNames' = tapNames \/ tapNames' = <<>>
    PROVE  TapsInv'
<1>1. CASE tapNames' = tapNames
  BY <1>1, SameTop DEF TapsInv
<1>2. CASE tapNames' = <<>>
  BY <1>2, SameTop, EmptyDomain DEF TapsInv, IsInjective
<1> QED BY <1>1, <1>2

LEMMA StepRest ==
    ASSUME RestInv, Step, Dev \in Devices, faults' \in 0..MaxFaults,
           screens' \subseteq screens \cup {Dev},
           DOMAIN scripts' \subseteq DOMAIN scripts \cup {Dev}
    PROVE  RestInv'
<1>1. top' = top /\ UNCHANGED <<setup, last, whole, attempts>>
  BY DEF Step
<1>2. Devices' = Devices
  BY <1>1, SameTop
<1> QED BY <1>1, <1>2 DEF RestInv

LEMMA Counted ==
    ASSUME RestInv, NEW bad \in Bad, Count(bad)
    PROVE  faults' \in 0..MaxFaults /\ bad \in BOOLEAN
<1>1. bad \in BOOLEAN /\ (bad => faults < MaxFaults)
  BY DEF Bad
<1> QED BY <1>1, LoaderAssumption DEF RestInv, Count

LEMMA Scripted ==
    ASSUME NEW d, NEW undo, NEW runs, Script(d, undo, runs)
    PROVE  DOMAIN scripts' = {d} \cup DOMAIN scripts
BY Extended DEF Script
-----------------------------------------------------------------------------
(* The processes *)

LEMMA Init_LInv == Init => LInv
<1> SUFFICES ASSUME Init PROVE LInv
  OBVIOUS
<1>1. DOMAIN networks = {} /\ DOMAIN taps = {} /\ DOMAIN containers = {} /\ DOMAIN starting = {}
      /\ DOMAIN scripts = {} /\ DOMAIN subnetMap = {} /\ DOMAIN nameMap = {} /\ DOMAIN tapNames = {}
  BY EmptyDomain DEF Init
<1>2. PlanInv
  BY DEF Init, PlanInv
<1>3. MapInv
  BY <1>1 DEF MapInv, NetInv, SubnetInv, NameInv, TapInv
<1>4. UpInv
  BY <1>1 DEF UpInv, PlugInv
<1>5. TapsInv
  <2>1. tapNames \in Seq(Names)
    BY DEF Init
  <2> QED BY <1>1, <2>1 DEF TapsInv, IsInjective
<1>6. RestInv
  <2>1. 0 \in 0..MaxAttempts /\ 0 \in 0..MaxFaults
    BY LoaderAssumption
  <2>2. DOMAIN scripts \subseteq Devices
    BY <1>1
  <2> QED BY <2>1, <2>2 DEF Init, RestInv
<1> QED BY <1>2, <1>3, <1>4, <1>5, <1>6 DEF LInv

LEMMA Create_LInv ==
    ASSUME LInv, Create
    PROVE  LInv'
<1> USE DEF LInv
<1>1. top' = top
  BY DEF Create
<1>2. PlanInv'
  <2>1. Ended(StartPlan)
    BY StartPlanEnds DEF RestInv
  <2>2. Ended(todo)'
    BY <1>1, <2>1, SameTop, Zenon DEF Ended, Create
  <2> QED BY <2>2 DEF PlanInv, Create, maps
<1>3. UNCHANGED <<networks, taps, containers, starting, screens, subnetMap, nameMap, tapNames>>
  BY DEF Create, machine, maps
<1>4. MapInv'
  BY <1>1, <1>3, SameTop DEF MapInv, NetInv, SubnetInv, NameInv, TapInv
<1>5. UpInv'
  BY <1>1, <1>3, SameUp
<1>6. TapsInv'
  BY <1>1, <1>3, SameTaps
<1>7. RestInv'
  <2>1. DOMAIN scripts' \subseteq DOMAIN scripts
    <3>1. scripts' = Restrict(scripts, {d \in DOMAIN scripts : Kind[d] = "Mach"})
      BY DEF Create
    <3> QED BY <3>1, Restricted
  <2>2. attempts' \in 0..MaxAttempts
    BY LoaderAssumption DEF RestInv, Create
  <2>3. whole' \in BOOLEAN /\ UNCHANGED <<setup, last, faults>>
    BY DEF Create
  <2> QED BY <1>1, <1>3, <2>1, <2>2, <2>3, SameTop DEF RestInv
<1> QED BY <1>2, <1>4, <1>5, <1>6, <1>7

LEMMA Destroy_LInv ==
    ASSUME LInv, Destroy
    PROVE  LInv'
<1> USE DEF LInv
<1>1. top' = top /\ UNCHANGED <<networks, taps, containers, starting, screens>>
  BY DEF Destroy, machine
<1>2. subnetMap' = <<>> /\ nameMap' = <<>> /\ tapNames' = <<>>
  BY DEF Destroy, Forget
<1>3. PlanInv'
  <2>1. Ended(StopPlan)
    BY StopPlanEnds DEF RestInv
  <2>2. Ended(todo)'
    BY <1>1, <2>1, SameTop, Zenon DEF Ended, Destroy
  <2> QED BY <1>2, <2>2 DEF PlanInv, Destroy
<1>4. MapInv'
  <2>1. NetInv'
    BY <1>1, SameTop DEF MapInv, NetInv
  <2> QED BY <1>2, <2>1, Forgotten DEF MapInv
<1>5. UpInv'
  BY <1>1, SameUp
<1>6. TapsInv'
  BY <1>1, <1>2, SameTaps
<1>7. RestInv'
  <2>1. attempts' \in 0..MaxAttempts
    BY LoaderAssumption DEF RestInv, Destroy
  <2>2. whole' \in BOOLEAN /\ UNCHANGED <<scripts, setup, last, faults>>
    BY DEF Destroy
  <2> QED BY <1>1, <2>1, <2>2, SameTop DEF RestInv
<1> QED BY <1>3, <1>4, <1>5, <1>6, <1>7

LEMMA End_LInv ==
    ASSUME LInv, End
    PROVE  LInv'
<1> USE DEF LInv
<1>1. top' = top /\ UNCHANGED <<networks, taps, containers, starting, screens>>
  BY DEF End, machine
<1>2. subnetMap' = <<>> /\ nameMap' = <<>> /\ tapNames' = <<>>
  BY DEF End, Forget
<1>3. PlanInv'
  BY <1>2 DEF PlanInv, End
<1>4. MapInv'
  <2>1. NetInv'
    BY <1>1, SameTop DEF MapInv, NetInv
  <2> QED BY <1>2, <2>1, Forgotten DEF MapInv
<1>5. UpInv'
  BY <1>1, SameUp
<1>6. TapsInv'
  BY <1>1, <1>2, SameTaps
<1>7. RestInv'
  <2>1. last' \in {"none", "created", "failed", "destroyed"} /\ setup' \in BOOLEAN
        /\ UNCHANGED <<scripts, whole, attempts, faults>>
    BY DEF End
  <2> QED BY <1>1, <2>1, SameTop DEF RestInv
<1> QED BY <1>3, <1>4, <1>5, <1>6, <1>7
-----------------------------------------------------------------------------
(* The steps of start_GINI *)

LEMMA CreatingFacts ==
    ASSUME LInv, NEW k, Creating(k)
    PROVE  phase = "create" /\ Dev \in Devices /\ Kind[Dev] = k
BY DEF Creating

LEMMA SwitchKnown ==
    ASSUME NEW s \in Devices, IsSwitch(s)
    PROVE  Known(<<s, s>>)
BY DEF Known, Names

LEMMA StartSwitch_LInv ==
    ASSUME LInv, StartSwitch
    PROVE  LInv'
<1> USE DEF LInv
<1> DEFINE s == <<Dev, Dev>>
           net == SubnetOf(Dev)
           shared == net \in DOMAIN subnetMap
<1>1. Dev \in Devices /\ IsSwitch(Dev) /\ phase = "create" /\ Step /\ top' = top
  BY DEF StartSwitch, Creating, IsSwitch, Switches, Step
<1>2. UNCHANGED <<taps, containers, starting, screens>>
  BY DEF StartSwitch
<1> DEFINE new(bad) == net # None /\ ~shared /\ Free(s, net) /\ ~bad
           ok(bad) == net # None /\ (shared \/ new(bad) \/ s \in DOMAIN networks)
<1>3. PICK bad \in Bad :
         /\ Count(bad)
         /\ networks' = IF new(bad) THEN With(networks, s, net) ELSE networks
         /\ Script(Dev, IF ok(bad) /\ ~shared THEN {<<"net", s>>} ELSE {}, ok(bad))
         /\ IF ok(bad)
            THEN /\ Go /\ UNCHANGED tapNames
                 /\ subnetMap' = IF new(bad) THEN With(subnetMap, net, s) ELSE subnetMap
                 /\ nameMap' = IF shared THEN With(nameMap, s, subnetMap[net]) ELSE nameMap
            ELSE Abort
  BY Zenon DEF StartSwitch
<1>4. net # None => Fits(s, net)
  BY <1>1, SubnetFits DEF RestInv
<1>5. new(bad) \in BOOLEAN /\ shared \in BOOLEAN
  OBVIOUS
<1>6. new(bad) => s \notin DOMAIN networks /\ Known(s) /\ Fits(s, net)
  BY <1>1, <1>4, SwitchKnown DEF Free
<1>7. RestInv'
  <2>1. faults' \in 0..MaxFaults
    BY <1>3, Counted
  <2>2. DOMAIN scripts' = {Dev} \cup DOMAIN scripts
    BY <1>3, Scripted
  <2>3. screens' \subseteq screens \cup {Dev}
    BY <1>2
  <2> QED BY <1>1, <2>1, <2>2, <2>3, StepRest
<1> HIDE DEF s, net, new
<1>8. NetInv' /\ Kept /\ (new(bad) => s \in DOMAIN networks' /\ networks'[s] = net)
  BY <1>1, <1>3, <1>5, <1>6, Grow DEF MapInv
<1>9. UpInv'
  BY <1>1, <1>2, SameUp
<1>10. CASE ok(bad)
  <2>1. /\ Go /\ UNCHANGED tapNames
        /\ subnetMap' = IF new(bad) THEN With(subnetMap, net, s) ELSE subnetMap
        /\ nameMap' = IF shared THEN With(nameMap, s, subnetMap[net]) ELSE nameMap
    BY <1>3, <1>10, Zenon
  <2>2. PlanInv'
    BY <1>1, <2>1, GoPlan
  <2>3. SubnetInv'
    BY <1>5, <1>8, <2>1, KeptSubnets DEF MapInv
  <2>4. shared => subnetMap[net] \in DOMAIN networks' /\ Fits(s, networks'[subnetMap[net]])
    <3>1. ok(bad) => net # None
      OBVIOUS
    <3> QED BY <1>4, <1>8, <1>10, <3>1 DEF MapInv, SubnetInv, Kept
  <2>5. NameInv'
    <3> HIDE DEF shared
    <3> QED BY <1>1, <1>5, <1>8, <2>1, <2>4, KeptNames DEF MapInv
  <2>6. TapInv'
    BY <1>1, <1>2, <1>8, <2>1, KeptTaps DEF MapInv
  <2>7. TapsInv'
    BY <1>1, <1>2, <2>1, SameTaps
  <2> QED BY <1>7, <1>8, <1>9, <2>2, <2>3, <2>5, <2>6, <2>7 DEF MapInv
<1>11. CASE ~ok(bad)
  <2>1. Abort
    BY <1>3, <1>11, Zenon
  <2>2. PlanInv' /\ subnetMap' = <<>> /\ nameMap' = <<>> /\ tapNames' = <<>>
    BY <1>1, <2>1, AbortPlan
  <2>3. SubnetInv' /\ NameInv' /\ TapInv'
    BY <2>2, Forgotten
  <2>4. TapsInv'
    BY <1>1, <1>2, <2>2, SameTaps
  <2> QED BY <1>7, <1>8, <1>9, <2>2, <2>3, <2>4 DEF MapInv
<1> QED BY <1>10, <1>11

LEMMA StartOVS_LInv ==
    ASSUME LInv, StartOVS
    PROVE  LInv'
<1> USE DEF LInv
<1> DEFINE s == <<Dev, Dev>>
           net == SubnetOf(Dev)
           new == net # None /\ s \notin DOMAIN networks
<1>1. Dev \in Devices /\ IsSwitch(Dev) /\ phase = "create" /\ Step /\ top' = top
  BY DEF StartOVS, Creating, IsSwitch, Switches, Step
<1>2. UNCHANGED <<taps, containers, starting, screens>>
  BY DEF StartOVS
<1>3. PICK bad \in Bad :
         /\ Count(bad)
         /\ networks' = IF new THEN With(networks, s, net) ELSE networks
         /\ Script(Dev, {<<"net", s>>}, net # None)
         /\ IF new /\ ~bad
            THEN /\ Go /\ UNCHANGED <<nameMap, tapNames>>
                 /\ subnetMap' = With(subnetMap, net, s)
            ELSE Abort
  BY Zenon DEF StartOVS
<1>4. new \in BOOLEAN
  OBVIOUS
<1>5. new => s \notin DOMAIN networks /\ Known(s) /\ Fits(s, net)
  BY <1>1, SubnetFits, SwitchKnown DEF RestInv
<1>6. RestInv'
  <2>1. faults' \in 0..MaxFaults
    BY <1>3, Counted
  <2>2. DOMAIN scripts' = {Dev} \cup DOMAIN scripts
    BY <1>3, Scripted
  <2>3. screens' \subseteq screens \cup {Dev}
    BY <1>2
  <2> QED BY <1>1, <2>1, <2>2, <2>3, StepRest
<1> HIDE DEF s, net, new
<1>7. NetInv' /\ Kept /\ (new => s \in DOMAIN networks' /\ networks'[s] = net)
  BY <1>1, <1>3, <1>4, <1>5, Grow DEF MapInv
<1>8. UpInv'
  BY <1>1, <1>2, SameUp
<1>9. CASE new /\ ~bad
  <2>1. /\ Go /\ UNCHANGED <<nameMap, tapNames>>
        /\ subnetMap' = With(subnetMap, net, s)
    BY <1>3, <1>9, Zenon
  <2>2. PlanInv'
    BY <1>1, <2>1, GoPlan
  <2>3. SubnetInv'
    <3>1. subnetMap' = IF new THEN With(subnetMap, net, s) ELSE subnetMap
      BY <1>9, <2>1
    <3> QED BY <1>4, <1>7, <3>1, KeptSubnets DEF MapInv
  <2>4. NameInv'
    BY <1>1, <1>7, <2>1, SameTop DEF MapInv, NameInv, Kept
  <2>5. TapInv'
    BY <1>1, <1>2, <1>7, <2>1, KeptTaps DEF MapInv
  <2>6. TapsInv'
    BY <1>1, <1>2, <2>1, SameTaps
  <2> QED BY <1>6, <1>7, <1>8, <2>2, <2>3, <2>4, <2>5, <2>6 DEF MapInv
<1>10. CASE ~(new /\ ~bad)
  <2>1. Abort
    BY <1>3, <1>10, Zenon
  <2>2. PlanInv' /\ subnetMap' = <<>> /\ nameMap' = <<>> /\ tapNames' = <<>>
    BY <1>1, <2>1, AbortPlan
  <2>3. SubnetInv' /\ NameInv' /\ TapInv'
    BY <2>2, Forgotten
  <2>4. TapsInv'
    BY <1>1, <1>2, <2>2, SameTaps
  <2> QED BY <1>6, <1>7, <1>8, <2>2, <2>3, <2>4 DEF MapInv
<1> QED BY <1>9, <1>10

(* A step that changes neither networks nor taps: it goes on, or forgets.  *)
LEMMA StillMapped ==
    ASSUME LInv, phase = "create", Dev \in Devices, UNCHANGED <<top, networks, taps>>,
           (Go /\ UNCHANGED maps) \/ Abort
    PROVE  PlanInv' /\ MapInv' /\ TapsInv'
<1> USE DEF LInv
<1>1. NetInv' /\ Kept
  BY SameTop DEF MapInv, NetInv, Kept
<1>2. CASE Go /\ UNCHANGED maps
  <2>1. PlanInv'
    BY <1>2, GoPlan
  <2>2. UNCHANGED <<subnetMap, nameMap, tapNames>>
    BY <1>2 DEF maps
  <2>3. SubnetInv' /\ NameInv' /\ TapInv'
    BY <1>1, <2>2, SameTop DEF MapInv, SubnetInv, NameInv, TapInv
  <2>4. TapsInv'
    BY <2>2, SameTaps
  <2> QED BY <1>1, <2>1, <2>3, <2>4 DEF MapInv
<1>3. CASE Abort
  <2>1. PlanInv' /\ subnetMap' = <<>> /\ nameMap' = <<>> /\ tapNames' = <<>>
    BY <1>3, AbortPlan
  <2>2. SubnetInv' /\ NameInv' /\ TapInv'
    BY <2>1, Forgotten
  <2>3. TapsInv'
    BY <2>1, SameTaps
  <2> QED BY <1>1, <2>1, <2>2, <2>3 DEF MapInv
<1> QED BY <1>2, <1>3

LEMMA StartController_LInv ==
    ASSUME LInv, StartController
    PROVE  LInv'
<1>1. Dev \in Devices /\ phase = "create" /\ Step /\ top' = top
  BY DEF StartController, Creating, Step
<1>2. UNCHANGED <<networks, taps, containers, starting, scripts>>
  BY DEF StartController
<1>3. PICK bad \in Bad :
         /\ Count(bad)
         /\ IF bad THEN Abort /\ UNCHANGED screens
                   ELSE Go /\ screens' = screens \cup {Dev} /\ UNCHANGED maps
  BY DEF StartController
<1>4. PlanInv' /\ MapInv' /\ TapsInv'
  <2>1. (Go /\ UNCHANGED maps) \/ Abort
    BY <1>3
  <2> QED BY <1>1, <1>2, <2>1, StillMapped
<1>5. UpInv'
  BY <1>1, <1>2, SameUp DEF LInv
<1>6. RestInv'
  <2>1. faults' \in 0..MaxFaults
    BY <1>3, Counted DEF LInv
  <2>2. screens' \subseteq screens \cup {Dev}
    BY <1>3
  <2> QED BY <1>1, <1>2, <2>1, <2>2, StepRest DEF LInv
<1> QED BY <1>4, <1>5, <1>6 DEF LInv

LEMMA StartRouter_LInv ==
    ASSUME LInv, StartRouter
    PROVE  LInv'
<1>1. Dev \in Devices /\ phase = "create" /\ Step /\ top' = top
  BY DEF StartRouter, Creating, Step
<1>2. UNCHANGED <<networks, taps, containers, starting>> /\ Go /\ UNCHANGED maps
  BY DEF StartRouter
<1>3. PlanInv' /\ MapInv' /\ TapsInv'
  BY <1>1, <1>2, StillMapped
<1>4. UpInv'
  BY <1>1, <1>2, SameUp DEF LInv
<1>5. RestInv'
  <2>1. faults' \in 0..MaxFaults
    BY DEF StartRouter, LInv, RestInv
  <2>2. screens' \subseteq screens \cup {Dev}
    BY DEF StartRouter
  <2>3. DOMAIN scripts' = {Dev} \cup DOMAIN scripts
    BY Scripted DEF StartRouter
  <2> QED BY <1>1, <2>1, <2>2, <2>3, StepRest DEF LInv
<1> QED BY <1>3, <1>4, <1>5 DEF LInv

LEMMA StartCloud_LInv ==
    ASSUME LInv, StartCloud
    PROVE  LInv'
<1>1. Dev \in Devices /\ phase = "create" /\ Step /\ top' = top
  BY DEF StartCloud, Creating, Step
<1>2. UNCHANGED <<networks, taps, containers, starting, scripts>>
  BY DEF StartCloud
<1>3. PICK bad \in Bad :
         /\ Count(bad)
         /\ IF bad \/ NetworkFor(Dev) = None
            THEN Abort /\ UNCHANGED screens
            ELSE Go /\ screens' = screens \cup {Dev} /\ UNCHANGED maps
  BY DEF StartCloud
<1>4. PlanInv' /\ MapInv' /\ TapsInv'
  <2>1. (Go /\ UNCHANGED maps) \/ Abort
    BY <1>3
  <2> QED BY <1>1, <1>2, <2>1, StillMapped
<1>5. UpInv'
  BY <1>1, <1>2, SameUp DEF LInv
<1>6. RestInv'
  <2>1. faults' \in 0..MaxFaults
    BY <1>3, Counted DEF LInv
  <2>2. screens' \subseteq screens \cup {Dev}
    BY <1>3
  <2> QED BY <1>1, <1>2, <2>1, <2>2, StepRest DEF LInv
<1> QED BY <1>4, <1>5, <1>6 DEF LInv

(* A network known by a name, perhaps of another switch, is in the subnets *)
(* of what the name stands for.                                            *)
LEMMA NamedNet ==
    ASSUME LInv, NEW n, Known(n), NEW N, \A i \in Ends(n) : i.net \in N
    PROVE  Known(NameOf(n)) /\ \A i \in Ends(NameOf(n)) : i.net \in N
<1>1. CASE n \in DOMAIN nameMap
  <2>1. NameOf(n) = nameMap[n]
    BY <1>1 DEF NameOf
  <2>2. NameOf(n) \in DOMAIN networks /\ Fits(n, networks[NameOf(n)])
    BY <1>1, <2>1, Zenon DEF LInv, MapInv, NameInv
  <2>3. Known(NameOf(n)) /\ Fits(NameOf(n), networks[NameOf(n)])
    BY <2>2, Zenon DEF LInv, MapInv, NetInv
  <2>4. networks[NameOf(n)] \in N
    BY <2>2, Zenon DEF Fits
  <2>5. \A i \in Ends(NameOf(n)) : i.net = networks[NameOf(n)]
    <3>1. PICK j \in Ends(NameOf(n)) : j.net = networks[NameOf(n)]
      BY <2>3, Zenon DEF Fits
    <3> QED BY <2>3, <3>1, OneNet DEF LInv, RestInv
  <2> QED BY <2>3, <2>4, <2>5
<1>2. CASE n \notin DOMAIN nameMap
  BY <1>2 DEF NameOf
<1> QED BY <1>1, <1>2

(* get_switch_to_connect finds a network that fits the machine.            *)
LEMMA NetworkFits ==
    ASSUME LInv, NEW m \in Devices, Kind[m] = "Mach", NetworkFor(m) # None
    PROVE  Known(NetworkFor(m)) /\ \A i \in Ends(NetworkFor(m)) : i.net \in NetsOf(m)
<1> DEFINE at == {i \in DOMAIN Ifaces(m) : Kind[Ifaces(m)[i].to] \in Switches \cup {"Router"}}
           own == Ifaces(m)[First(at)]
           t == own.to
<1>1. top \in Topologies /\ m \in HasIfaces(top) /\ m \in Hosts
  BY TopFacts DEF LInv, RestInv, Hosts
<1>2. NetworkFor(m) = IF at = {} THEN None
                      ELSE IF IsSwitch(t) THEN NameOf(<<t, t>>)
                      ELSE IF HiddenName(t, m) \in DOMAIN networks THEN NameOf(HiddenName(t, m))
                      ELSE None
  BY Zenon DEF NetworkFor
<1>3. own \in Range(Ifaces(m)) /\ t \in Devices
  <2>1. at # {}
    BY <1>2, Zenon
  <2>2. at \subseteq Nat
    <3>1. Ifaces(m) \in Seq([to : Devices, net : Nets])
      BY <1>1, TopFacts
    <3> QED BY <3>1
  <2>3. First(at) \in at
    <3> HIDE DEF at
    <3> QED BY <2>1, <2>2, FirstIsIn
  <2>4. First(at) \in DOMAIN Ifaces(m)
    BY <2>3
  <2> QED BY <1>1, <2>4, Interfaces
<1>4. own.net \in NetsOf(m)
  BY <1>3, Zenon DEF NetsOf
<1>5. CASE IsSwitch(t)
  <2>1. Known(<<t, t>>)
    BY <1>3, <1>5, SwitchKnown
  <2>2. own \in Ends(<<t, t>>)
    <3> HIDE DEF own
    <3> QED BY <1>1, <1>3, <1>5 DEF Ends
  <2>3. \A i \in Ends(<<t, t>>) : i.net \in NetsOf(m)
    <3>1. \A i \in Ends(<<t, t>>) : i.net = own.net
      BY <1>1, <2>1, <2>2, OneNet
    <3> QED BY <1>4, <3>1
  <2>4. NetworkFor(m) = NameOf(<<t, t>>)
    BY <1>2, <1>5, ZenonT(60)
  <2> HIDE DEF t
  <2> QED BY <2>1, <2>3, <2>4, NamedNet
<1>6. CASE ~IsSwitch(t)
  <2>1. HiddenName(t, m) \in DOMAIN networks /\ NetworkFor(m) = NameOf(HiddenName(t, m))
    BY <1>2, <1>6, Zenon
  <2> DEFINE n == <<t, m>>
  <2>2. n = HiddenName(t, m)
    BY DEF HiddenName
  <2>3. Known(n)
    BY <2>1, <2>2, Zenon DEF LInv, MapInv, NetInv
  <2>4. t \in HasIfaces(top) /\ Ends(n) = {i \in Range(Ifaces(t)) : i.to = m}
    <3> HIDE DEF t
    <3> QED BY <1>6, <2>3 DEF Known, Ends
  <2>5. \A i \in Ends(n) : i.net \in NetsOf(m)
    <3>1. ASSUME NEW i \in Ends(n) PROVE i.net \in NetsOf(m)
      <4>1. i \in Range(Ifaces(t)) /\ i.to = m
        BY <2>4, <3>1
      <4> HIDE DEF t
      <4>2. PICK j \in Range(Ifaces(m)) : j.to = t /\ j.net = i.net
        BY <1>1, <2>4, <4>1, OtherEnd
      <4>3. j.net \in NetsOf(m)
        BY Zenon DEF NetsOf
      <4> QED BY <4>2, <4>3, Zenon
    <3> QED BY <3>1
  <2> HIDE DEF n
  <2> QED BY <2>1, <2>2, <2>3, <2>5, NamedNet
<1> QED BY <1>5, <1>6

LEMMA StartMach_LInv ==
    ASSUME LInv, StartMach
    PROVE  LInv'
<1> DEFINE m == Dev
           name == NetworkFor(m)
<1>1. m \in Devices /\ Kind[m] = "Mach" /\ phase = "create" /\ Step /\ top' = top
  BY DEF StartMach, Creating, Step
<1>2. UNCHANGED <<networks, taps, screens>>
  BY DEF StartMach
<1>3. PICK bad \in Bad :
         /\ Count(bad)
         /\ IF name = None
            THEN Abort /\ UNCHANGED <<scripts, containers, starting>>
            ELSE /\ Script(m, {<<"con", m>>}, TRUE)
                 /\ IF bad
                    THEN /\ Abort /\ UNCHANGED starting
                         /\ containers' = Restrict(containers, DOMAIN containers \ {m})
                    ELSE /\ Go /\ UNCHANGED <<containers, maps>>
                         /\ starting' = IF m \in DOMAIN containers THEN starting
                                        ELSE With(starting, m, name)
  BY Zenon DEF StartMach
<1>4. name # None => Known(name) /\ \A i \in Ends(name) : i.net \in NetsOf(m)
  BY <1>1, NetworkFits
<1> HIDE DEF name
<1>5. PlanInv' /\ MapInv' /\ TapsInv'
  <2>1. (Go /\ UNCHANGED maps) \/ Abort
    BY <1>3
  <2> QED BY <1>1, <1>2, <2>1, StillMapped
<1>6. UpInv'
  <2>1. CASE UNCHANGED <<containers, starting>>
    BY <1>1, <2>1, SameUp DEF LInv
  <2>2. CASE UNCHANGED starting /\ containers' = Restrict(containers, DOMAIN containers \ {m})
    <3>1. /\ DOMAIN containers' \subseteq DOMAIN containers
          /\ \A x \in DOMAIN containers' : containers'[x] = containers[x]
      <4> HIDE DEF m
      <4> QED BY <2>2 DEF Restrict
    <3> QED BY <1>1, <2>2, <3>1, SameTop, ZenonT(60) DEF LInv, UpInv, PlugInv
  <2>3. CASE /\ UNCHANGED containers /\ m \notin DOMAIN containers
             /\ name # None /\ starting' = With(starting, m, name)
    <3>1. /\ DOMAIN starting' = {m} \cup DOMAIN starting
          /\ starting'[m] = name
          /\ \A x \in DOMAIN starting : x # m => starting'[x] = starting[x]
      <4> HIDE DEF m
      <4> QED BY <2>3 DEF With
    <3>2. PlugInv(starting)'
      BY <1>1, <1>4, <2>3, <3>1, SameTop DEF LInv, UpInv, PlugInv
    <3>3. PlugInv(containers)'
      BY <1>1, <2>3, SameTop DEF LInv, UpInv, PlugInv
    <3>4. DOMAIN containers' \cap DOMAIN starting' = {}
      BY <2>3, <3>1 DEF LInv, UpInv
    <3> QED BY <3>2, <3>3, <3>4 DEF UpInv
  <2> QED BY <1>3, <2>1, <2>2, <2>3
<1>7. RestInv'
  <2>1. faults' \in 0..MaxFaults
    BY <1>3, Counted DEF LInv
  <2>2. DOMAIN scripts' \subseteq DOMAIN scripts \cup {Dev}
    BY <1>3, Scripted
  <2> QED BY <1>1, <1>2, <2>1, <2>2, StepRest DEF LInv
<1> QED BY <1>5, <1>6, <1>7 DEF LInv

LEMMA ContainerUp_LInv ==
    ASSUME LInv, NEW m \in Devices, ContainerUp(m)
    PROVE  LInv'
<1>1. UNCHANGED <<top, networks, taps, screens, scripts, subnetMap, nameMap, tapNames,
                  phase, todo, setup, last, whole, attempts, faults>>
  BY DEF ContainerUp, maps
<1>2. PlanInv'
  <2>1. Ended(todo)' <=> Ended(todo)
    BY <1>1, SameTop, Zenon DEF Ended
  <2> QED BY <1>1, <2>1 DEF LInv, PlanInv
<1>3. MapInv'
  BY <1>1, SameTop DEF LInv, MapInv, NetInv, SubnetInv, NameInv, TapInv
<1>4. TapsInv'
  BY <1>1, SameTaps DEF LInv
<1>5. RestInv'
  BY <1>1, SameTop DEF LInv, RestInv
<1>6. UpInv'
  <2>1. /\ m \in DOMAIN starting
        /\ starting' = Restrict(starting, DOMAIN starting \ {m})
        /\ containers' = containers \/ containers' = With(containers, m, starting[m])
    BY DEF ContainerUp
  <2>2. /\ DOMAIN starting' = DOMAIN starting \ {m}
        /\ \A x \in DOMAIN starting' : starting'[x] = starting[x]
    BY <2>1 DEF Restrict
  <2>3. PlugInv(starting)'
    BY <1>1, <2>2, SameTop DEF LInv, UpInv, PlugInv
  <2>4. CASE containers' = containers
    BY <1>1, <2>2, <2>3, <2>4, SameTop DEF LInv, UpInv, PlugInv
  <2>5. CASE containers' = With(containers, m, starting[m])
    <3>1. /\ DOMAIN containers' = {m} \cup DOMAIN containers
          /\ containers'[m] = starting[m]
          /\ \A x \in DOMAIN containers : x # m => containers'[x] = containers[x]
      BY <2>5 DEF With
    <3>2. PlugInv(containers)'
      BY <1>1, <2>1, <3>1, SameTop DEF LInv, UpInv, PlugInv
    <3> QED BY <2>2, <2>3, <3>1, <3>2 DEF LInv, UpInv
  <2> QED BY <2>1, <2>4, <2>5
<1> QED BY <1>2, <1>3, <1>4, <1>5, <1>6 DEF LInv

(* The number of a tap.                                                    *)
TapsWith(n) == IF n \in Range(tapNames) THEN tapNames ELSE Append(tapNames, n)
TapOf(n) == CHOOSE i \in DOMAIN TapsWith(n) : TapsWith(n)[i] = n

LEMMA TapNumber ==
    ASSUME TapsInv, NEW n \in Names
    PROVE  /\ TapsWith(n) \in Seq(Names) /\ IsInjective(TapsWith(n))
           /\ TapOf(n) \in Nat /\ TapOf(n) \in DOMAIN TapsWith(n) /\ TapsWith(n)[TapOf(n)] = n
           /\ \A i \in DOMAIN TapsWith(n) : i # TapOf(n) =>
                  i \in DOMAIN tapNames /\ TapsWith(n)[i] = tapNames[i]
<1> DEFINE taps1 == TapsWith(n)
           tap == TapOf(n)
<1>0. /\ n \in Range(tapNames) => taps1 = tapNames
      /\ n \notin Range(tapNames) => taps1 = Append(tapNames, n)
      /\ tap = CHOOSE i \in DOMAIN taps1 : taps1[i] = n
  BY Zenon DEF TapsWith, TapOf
<1> HIDE DEF taps1, tap
<1>1. tapNames \in Seq(Names) /\ IsInjective(tapNames)
  BY DEF TapsInv
<1>2. taps1 \in Seq(Names) /\ IsInjective(taps1) /\ (\E i \in DOMAIN taps1 : taps1[i] = n)
  <2>1. CASE n \in Range(tapNames)
    <3>1. taps1 = tapNames
      BY <1>0, <2>1
    <3>2. \E i \in DOMAIN taps1 : taps1[i] = n
      BY <2>1, <3>1, Zenon DEF Range
    <3> QED BY <1>1, <3>1, <3>2
  <2>2. CASE n \notin Range(tapNames)
    <3>1. taps1 = Append(tapNames, n)
      BY <1>0, <2>2
    <3>2. /\ taps1 \in Seq(Names) /\ DOMAIN taps1 = 1..(Len(tapNames) + 1)
          /\ DOMAIN tapNames = 1..Len(tapNames) /\ Len(tapNames) \in Nat
          /\ taps1[Len(tapNames) + 1] = n
          /\ \A i \in 1..Len(tapNames) : taps1[i] = tapNames[i]
      BY <1>1, <3>1
    <3>3. \A i \in DOMAIN tapNames : tapNames[i] # n
      BY <2>2, Zenon DEF Range
    <3>4. \A i \in DOMAIN taps1 : i \in DOMAIN tapNames \/ i = Len(tapNames) + 1
      BY <3>2
    <3>5. IsInjective(taps1)
      <4>1. ASSUME NEW i \in DOMAIN taps1, NEW j \in DOMAIN taps1, taps1[i] = taps1[j] PROVE i = j
        <5>1. \A a, b \in DOMAIN tapNames : tapNames[a] = tapNames[b] => a = b
          BY <1>1 DEF IsInjective
        <5> QED BY <3>2, <3>3, <3>4, <4>1, <5>1
      <4> QED BY <4>1 DEF IsInjective
    <3>6. Len(tapNames) + 1 \in DOMAIN taps1
      BY <3>2
    <3> QED BY <3>2, <3>5, <3>6
  <2> QED BY <2>1, <2>2
<1>3. tap \in DOMAIN taps1 /\ taps1[tap] = n
  BY <1>0, <1>2, Zenon
<1>4. tap \in Nat
  BY <1>2, <1>3
<1>5. ASSUME NEW i \in DOMAIN taps1, i # tap
      PROVE  i \in DOMAIN tapNames /\ taps1[i] = tapNames[i]
  <2>1. CASE n \in Range(tapNames)
    BY <1>0, <1>5, <2>1
  <2>2. CASE n \notin Range(tapNames)
    <3>1. taps1 = Append(tapNames, n)
      BY <1>0, <2>2
    <3>2. taps1[i] # n
      BY <1>2, <1>3, <1>5 DEF IsInjective
    <3> QED BY <1>1, <3>1, <3>2
  <2> QED BY <2>1, <2>2
<1> QED BY <1>2, <1>3, <1>4, <1>5 DEF taps1, tap

(* The network an interface of a router is plugged into has its subnet.    *)
LEMMA InterfaceNet ==
    ASSUME LInv, NEW r \in Devices, Kind[r] = "Router", NEW j \in Range(Ifaces(r)), j.to \in Devices,
           NEW name, name \in DOMAIN networks,
           \/ name = <<r, j.to>>
           \/ IsSwitch(j.to) /\ name = <<j.to, j.to>>
           \/ ~IsSwitch(j.to) /\ name = <<j.to, r>>
    PROVE  networks[name] = j.net
<1>1. top \in Topologies /\ r \in HasIfaces(top) /\ r \in Hosts
  BY TopFacts DEF LInv, RestInv, Hosts
<1>2. Known(name) /\ Fits(name, networks[name])
  BY DEF LInv, MapInv, NetInv
<1>3. Fits(name, j.net)
  <2>1. CASE name = <<r, j.to>>
    <3>1. ~IsSwitch(r)
      BY DEF IsSwitch, Switches
    <3>2. j \in Ends(name)
      BY <2>1, <3>1 DEF Ends
    <3> QED BY <3>2 DEF Fits
  <2>2. CASE IsSwitch(j.to) /\ name = <<j.to, j.to>>
    <3>1. j \in Ends(name)
      BY <1>1, <2>2 DEF Ends
    <3> QED BY <3>1 DEF Fits
  <2>3. CASE ~IsSwitch(j.to) /\ name = <<j.to, r>>
    <3>1. j.to \in HasIfaces(top)
      BY <1>2, <2>3 DEF Known
    <3>2. PICK i \in Range(Ifaces(j.to)) : i.to = r /\ i.net = j.net
      BY <1>1, <3>1, OtherEnd
    <3>3. i \in Ends(name)
      BY <2>3, <3>2 DEF Ends
    <3> QED BY <3>2, <3>3 DEF Fits
  <2> QED BY <2>1, <2>2, <2>3
<1> QED BY <1>1, <1>2, <1>3, FitsOne

LEMMA StartInterface_LInv ==
    ASSUME LInv, StartInterface
    PROVE  LInv'
<1> DEFINE r == Dev
           k == todo[1][2]
           t == Ifaces(r)[k].to
           net == Ifaces(r)[k].net
           own == ~IsSwitch(t) /\ HiddenName(t, r) \notin DOMAIN networks
           shared == own /\ net \in DOMAIN subnetMap
           name == CASE shared -> subnetMap[net] [] own /\ ~shared -> HiddenName(r, t)
                     [] ~own /\ IsSwitch(t) -> <<t, t>> [] OTHER -> HiddenName(t, r)
           taps1 == IF <<r, t>> \in Range(tapNames) THEN tapNames ELSE Append(tapNames, <<r, t>>)
           tap == CHOOSE i \in DOMAIN taps1 : taps1[i] = <<r, t>>
           before == IF k = 1 THEN {} ELSE scripts[r].undo
           new(bad, at) == own /\ Free(name, net) /\ ~(bad /\ at = "network")
           there(bad, at) == new(bad, at) \/ name \in DOMAIN networks
           added(bad, at) == tap \notin DOMAIN taps /\ ~(bad /\ at = "tap")
           ok(bad, at) == added(bad, at) /\ there(bad, at) /\ ~(bad /\ at = "plug")
           undo(bad, at) == before \cup {<<"net", n>> : n \in {x \in {name} : own /\ ~shared /\ there(bad, at)}}
                                   \cup {<<"tap", i>> : i \in {x \in {tap} : ok(bad, at)}}
<1>1. r \in Devices /\ Kind[r] = "Router" /\ phase = "create" /\ Step /\ top' = top
  BY ZenonT(60) DEF StartInterface, Creating, Step
<1>2. UNCHANGED <<containers, starting, screens>>
  BY DEF StartInterface
<1>3. PICK bad \in Bad, at \in {"network", "tap", "plug"} :
         /\ Count(bad)
         /\ networks' = IF new(bad, at) THEN With(networks, name, net) ELSE networks
         /\ taps' = IF added(bad, at) THEN With(taps, tap, IF ok(bad, at) THEN name ELSE None) ELSE taps
         /\ Script(r, undo(bad, at), FALSE)
         /\ IF ok(bad, at)
            THEN /\ Go /\ tapNames' = taps1
                 /\ subnetMap' = IF new(bad, at) THEN With(subnetMap, net, name) ELSE subnetMap
                 /\ nameMap' = IF shared THEN With(nameMap, HiddenName(r, t), name) ELSE nameMap
            ELSE Abort
  BY ZenonT(120) DEF StartInterface
<1> HIDE DEF before, undo
<1>4. Ifaces(r)[k] \in Range(Ifaces(r)) /\ t \in Devices /\ r \in HasIfaces(top)
  <2>1. top \in Topologies /\ r \in HasIfaces(top)
    BY <1>1, TopFacts DEF LInv, RestInv
  <2>2. Ended(todo)
    BY <1>1 DEF LInv, PlanInv
  <2>3. k \in Nat \ {0}
    <3>1. todo \in Seq(Items) /\ todo # <<>>
      BY <2>2 DEF Ended
    <3>2. todo[1] \in Items
      <4> HIDE DEF Items
      <4> QED BY <3>1
    <3> QED BY <3>2 DEF Items
  <2>4. Ifaces(r) \in Seq([to : Devices, net : Nets])
    BY <2>1, TopFacts
  <2>5. k <= Len(Ifaces(r))
    BY Zenon DEF StartInterface
  <2>6. k \in DOMAIN Ifaces(r)
    <3> HIDE DEF r, k
    <3> QED BY <2>3, <2>4, <2>5
  <2> HIDE DEF k
  <2> QED BY <2>1, <2>6, Interfaces
<1> DEFINE j == Ifaces(r)[k]
<1>5. j.to = t /\ j.net = net
  OBVIOUS
<1> HIDE DEF j, t, net, k
<1>6. ~IsSwitch(r) /\ j \in Ends(<<r, t>>)
  BY <1>1, <1>4, <1>5 DEF IsSwitch, Switches, Ends, j
<1>7. /\ shared => net \in DOMAIN subnetMap /\ name = subnetMap[net]
      /\ own /\ ~shared => name = <<r, t>>
      /\ ~own /\ IsSwitch(t) => name = <<t, t>>
      /\ ~own /\ ~IsSwitch(t) => name = <<t, r>>
      /\ shared => own
  BY DEF HiddenName
<1> HIDE DEF own, shared, name, taps1, tap
<1>8. shared => name \in DOMAIN networks /\ networks[name] = net
  BY <1>7 DEF LInv, MapInv, SubnetInv
<1>9. name \in DOMAIN networks => networks[name] = net
  <2>1. CASE shared
    BY <1>8, <2>1
  <2>2. CASE ~shared
    <3>1. \/ name = <<r, j.to>>
          \/ IsSwitch(j.to) /\ name = <<j.to, j.to>>
          \/ ~IsSwitch(j.to) /\ name = <<j.to, r>>
      BY <1>5, <1>7, <2>2
    <3> HIDE DEF r
    <3> QED BY <1>1, <1>4, <1>5, <3>1, InterfaceNet DEF j
  <2> QED BY <2>1, <2>2
<1>10. new(bad, at) \in BOOLEAN /\ ok(bad, at) \in BOOLEAN /\ added(bad, at) \in BOOLEAN /\ shared \in BOOLEAN
  BY DEF shared
<1>11. new(bad, at) => name \notin DOMAIN networks /\ Known(name) /\ Fits(name, net)
  <2>1. ASSUME new(bad, at) PROVE name \notin DOMAIN networks /\ Known(name) /\ Fits(name, net)
    <3>1. own /\ name \notin DOMAIN networks
      BY <2>1 DEF Free
    <3>2. name = <<r, t>>
      BY <1>7, <1>8, <3>1
    <3>3. Known(name)
      BY <1>1, <1>4, <3>2 DEF Known, Names
    <3>4. Fits(name, net)
      BY <1>5, <1>6, <3>2, Zenon DEF Fits
    <3> QED BY <3>1, <3>3, <3>4
  <2> QED BY <2>1
<1>12. ok(bad, at) => there(bad, at) /\ added(bad, at)
  OBVIOUS
<1>13. there(bad, at) => new(bad, at) \/ name \in DOMAIN networks
  OBVIOUS
<1> HIDE DEF new, there, added, ok
<1>14. NetInv' /\ Kept /\ (new(bad, at) => name \in DOMAIN networks' /\ networks'[name] = net)
  BY <1>1, <1>3, <1>10, <1>11, Grow DEF LInv, MapInv
<1>15. ok(bad, at) => name \in DOMAIN networks' /\ networks'[name] = net
  BY <1>9, <1>12, <1>13, <1>14 DEF Kept
<1>16. <<r, t>> \in Names
  BY <1>1, <1>4 DEF Names
<1>17. /\ taps1 \in Seq(Names) /\ IsInjective(taps1)
       /\ tap \in Nat /\ tap \in DOMAIN taps1 /\ taps1[tap] = <<r, t>>
       /\ \A i \in DOMAIN taps1 : i # tap => i \in DOMAIN tapNames /\ taps1[i] = tapNames[i]
  <2> DEFINE n == <<r, t>>
  <2>1. taps1 = TapsWith(n)
    BY Zenon DEF taps1, TapsWith
  <2>2. tap = TapOf(n)
    BY <2>1, Zenon DEF tap, TapOf
  <2>3. TapsInv /\ n \in Names
    BY <1>16 DEF LInv
  <2> HIDE DEF n
  <2>4. /\ taps1 \in Seq(Names) /\ IsInjective(taps1)
        /\ tap \in Nat /\ tap \in DOMAIN taps1 /\ taps1[tap] = n
        /\ \A i \in DOMAIN taps1 : i # tap => i \in DOMAIN tapNames /\ taps1[i] = tapNames[i]
    BY <2>1, <2>2, <2>3, TapNumber, Zenon
  <2> QED BY <2>4 DEF n
<1>18. ok(bad, at) => name \in Names
  BY <1>1, <1>14, <1>15, SameTop DEF NetInv, Known
<1>19. /\ DOMAIN taps' \subseteq Nat /\ \A i \in DOMAIN taps' : taps'[i] \in Names \cup {None}
       /\ ok(bad, at) => /\ DOMAIN taps' = {tap} \cup DOMAIN taps /\ taps'[tap] = name
                         /\ \A i \in DOMAIN taps : i # tap => taps'[i] = taps[i]
  <2>1. DOMAIN taps \subseteq Nat /\ \A i \in DOMAIN taps : taps[i] \in Names \cup {None}
    BY DEF LInv, TapsInv
  <2>2. CASE added(bad, at)
    <3> DEFINE v == IF ok(bad, at) THEN name ELSE None
    <3>1. taps' = With(taps, tap, v)
      BY <1>3, <2>2
    <3>2. v \in Names \cup {None} /\ (ok(bad, at) => v = name)
      BY <1>18
    <3> HIDE DEF v
    <3>3. /\ DOMAIN taps' = {tap} \cup DOMAIN taps /\ taps'[tap] = v
          /\ \A i \in DOMAIN taps : i # tap => taps'[i] = taps[i]
      BY <3>1 DEF With
    <3> QED BY <1>17, <2>1, <3>2, <3>3
  <2>3. CASE ~added(bad, at)
    BY <1>3, <1>12, <2>1, <2>3
  <2> QED BY <2>2, <2>3
<1>20. RestInv'
  <2>1. faults' \in 0..MaxFaults
    BY <1>3, Counted DEF LInv
  <2>2. DOMAIN scripts' = {Dev} \cup DOMAIN scripts
    BY <1>3, Scripted
  <2> QED BY <1>1, <1>2, <2>1, <2>2, StepRest DEF LInv
<1>21. UpInv'
  BY <1>1, <1>2, SameUp DEF LInv
<1>22. CASE ok(bad, at)
  <2>1. /\ Go /\ tapNames' = taps1
        /\ subnetMap' = IF new(bad, at) THEN With(subnetMap, net, name) ELSE subnetMap
        /\ nameMap' = IF shared THEN With(nameMap, HiddenName(r, t), name) ELSE nameMap
    BY <1>3, <1>22, Zenon
  <2>2. PlanInv'
    BY <1>1, <2>1, GoPlan DEF LInv
  <2>3. SubnetInv'
    BY <1>10, <1>14, <2>1, KeptSubnets DEF LInv, MapInv
  <2>4. NameInv'
    <3>1. Fits(HiddenName(r, t), networks'[name])
      BY <1>5, <1>6, <1>15, <1>22, Zenon DEF Fits, HiddenName
    <3> QED BY <1>1, <1>10, <1>14, <1>15, <1>22, <2>1, <3>1, KeptNames DEF LInv, MapInv
  <2>5. TapInv'
    <3>1. ASSUME NEW i \in DOMAIN taps' \cap DOMAIN tapNames'
          PROVE  /\ taps'[i] \in DOMAIN networks'
                 /\ \E u \in Range(Ifaces(tapNames'[i][1])) :
                       u.to = tapNames'[i][2] /\ networks'[taps'[i]] = u.net
      <4>1. CASE i = tap
        <5>1. tapNames'[i] = <<r, t>> /\ taps'[i] = name
          BY <1>17, <1>19, <1>22, <2>1, <4>1
        <5>2. tapNames'[i][1] = r /\ tapNames'[i][2] = t
          BY <5>1
        <5> QED BY <1>4, <1>5, <1>15, <1>22, <5>1, <5>2 DEF j
      <4>2. CASE i # tap
        <5>1. i \in DOMAIN taps \cap DOMAIN tapNames
          BY <1>17, <1>19, <1>22, <2>1, <3>1, <4>2
        <5>2. taps'[i] = taps[i] /\ tapNames'[i] = tapNames[i]
          BY <1>17, <1>19, <1>22, <2>1, <3>1, <4>2, <5>1
        <5> QED BY <1>14, <5>1, <5>2 DEF LInv, MapInv, TapInv, Kept
      <4> QED BY <4>1, <4>2
    <3> QED BY <1>1, <3>1, SameTop DEF TapInv
  <2>6. TapsInv'
    BY <1>1, <1>17, <1>19, <2>1, SameTop DEF TapsInv
  <2> QED BY <1>14, <1>20, <1>21, <2>2, <2>3, <2>4, <2>5, <2>6 DEF LInv, MapInv
<1>23. CASE ~ok(bad, at)
  <2>1. Abort
    BY <1>3, <1>23, Zenon
  <2>2. PlanInv' /\ subnetMap' = <<>> /\ nameMap' = <<>> /\ tapNames' = <<>>
    BY <1>1, <2>1, AbortPlan DEF LInv
  <2>3. /\ SubnetInv' /\ NameInv' /\ TapInv'
        /\ tapNames' \in Seq(Names') /\ IsInjective(tapNames')
    BY <2>2, Forgotten
  <2>4. TapsInv'
    BY <1>1, <1>19, <2>3, SameTop DEF TapsInv
  <2> QED BY <1>14, <1>20, <1>21, <2>2, <2>3, <2>4 DEF LInv, MapInv
<1> QED BY <1>22, <1>23
-----------------------------------------------------------------------------
(* The steps of destroy_GINI: what is left only shrinks, and nothing is in *)
(* the maps.                                                               *)
LEMMA Shrink ==
    ASSUME LInv, phase \in {"undo", "destroy"}, todo # <<>>, Dev # "end",
           todo' = Tail(todo), UNCHANGED <<top, starting, scripts, maps, phase, faults>>, Step,
           screens' \subseteq screens,
           DOMAIN networks' \subseteq DOMAIN networks,
           \A n \in DOMAIN networks' : networks'[n] = networks[n],
           DOMAIN taps' \subseteq DOMAIN taps,
           \A i \in DOMAIN taps' : taps'[i] = taps[i],
           DOMAIN containers' \subseteq DOMAIN containers,
           \A m \in DOMAIN containers' : containers'[m] = containers[m]
    PROVE  LInv'
<1>1. subnetMap' = <<>> /\ nameMap' = <<>> /\ tapNames' = <<>> /\ tapNames' = tapNames
  BY DEF LInv, PlanInv, maps
<1>2. PlanInv'
  <2>1. Ended(todo)
    BY DEF LInv, PlanInv
  <2>2. Ended(Tail(todo))
    BY <2>1, GoesOn
  <2>3. Ended(todo)'
    BY <2>2, SameTop, Zenon DEF Ended
  <2> QED BY <1>1, <2>3 DEF LInv, PlanInv
<1>3. MapInv'
  <2>1. NetInv'
    BY SameTop DEF LInv, MapInv, NetInv
  <2>2. SubnetInv' /\ NameInv' /\ TapInv'
    BY <1>1, Forgotten
  <2> QED BY <2>1, <2>2 DEF MapInv
<1>4. UpInv'
  BY SameTop DEF LInv, UpInv, PlugInv
<1>5. TapsInv'
  BY <1>1, SameTop DEF LInv, TapsInv
<1>6. RestInv'
  BY SameTop DEF LInv, RestInv, Step
<1> QED BY <1>2, <1>3, <1>4, <1>5, <1>6 DEF LInv

LEMMA StopDevice_LInv ==
    ASSUME LInv, StopDevice
    PROVE  LInv'
<1>1. /\ phase \in {"undo", "destroy"} /\ todo # <<>> /\ Dev \in Devices
      /\ todo' = Tail(todo) /\ UNCHANGED <<starting, scripts, maps, phase, faults>> /\ Step
      /\ screens' \subseteq screens /\ RunScript(Dev)
  BY DEF StopDevice
<1>2. top' = top
  BY <1>1 DEF Step
<1>3. Dev # "end"
  BY <1>1, TopFacts DEF LInv, RestInv
<1> DEFINE undo == IF Dev \in DOMAIN scripts /\ scripts[Dev].runs THEN scripts[Dev].undo ELSE {}
           gone(kind) == {u[2] : u \in {v \in undo : v[1] = kind}}
<1>4. /\ networks' = Restrict(networks, DOMAIN networks \ (gone("net") \ Range(containers)))
      /\ taps' = Restrict(taps, DOMAIN taps \ gone("tap"))
      /\ containers' = Restrict(containers, DOMAIN containers \ gone("con"))
  BY <1>1, Zenon DEF RunScript
<1> HIDE DEF gone
<1>5. /\ DOMAIN networks' \subseteq DOMAIN networks
      /\ \A n \in DOMAIN networks' : networks'[n] = networks[n]
      /\ DOMAIN taps' \subseteq DOMAIN taps
      /\ \A i \in DOMAIN taps' : taps'[i] = taps[i]
      /\ DOMAIN containers' \subseteq DOMAIN containers
      /\ \A m \in DOMAIN containers' : containers'[m] = containers[m]
  BY <1>4 DEF Restrict
<1> QED BY <1>1, <1>2, <1>3, <1>5, Shrink

LEMMA StopAll_LInv ==
    ASSUME LInv, StopAll
    PROVE  LInv'
<1>1. /\ phase \in {"undo", "destroy"} /\ todo # <<>> /\ Dev = "all" /\ containers' = <<>>
      /\ todo' = Tail(todo) /\ Step
      /\ UNCHANGED <<networks, taps, starting, screens, scripts, maps, phase, faults>>
  BY DEF StopAll
<1>2. top' = top /\ DOMAIN containers' = {} /\ Dev # "end"
  BY <1>1, EmptyDomain DEF Step
<1> QED BY <1>1, <1>2, Shrink

LEMMA Stutter_LInv ==
    ASSUME LInv, UNCHANGED vars
    PROVE  LInv'
<1>1. UNCHANGED <<top, networks, taps, containers, starting, screens, scripts, subnetMap, nameMap,
                  tapNames, phase, todo, setup, last, whole, attempts, faults>>
  BY DEF vars, machine, maps
<1>2. PlanInv'
  <2>1. Ended(todo)' <=> Ended(todo)
    BY <1>1, SameTop, Zenon DEF Ended
  <2> QED BY <1>1, <2>1 DEF LInv, PlanInv
<1>3. MapInv'
  BY <1>1, SameTop DEF LInv, MapInv, NetInv, SubnetInv, NameInv, TapInv
<1>4. UpInv'
  BY <1>1, SameUp DEF LInv
<1>5. TapsInv'
  BY <1>1, SameTaps DEF LInv
<1>6. RestInv'
  BY <1>1, SameTop DEF LInv, RestInv
<1> QED BY <1>2, <1>3, <1>4, <1>5, <1>6 DEF LInv

LEMMA Next_LInv == LInv /\ [Next]_vars => LInv'
<1> SUFFICES ASSUME LInv, [Next]_vars PROVE LInv'
  OBVIOUS
<1>1. CASE Create \/ Destroy \/ End
  BY <1>1, Create_LInv, Destroy_LInv, End_LInv
<1>2. CASE StartSwitch \/ StartOVS \/ StartController \/ StartInterface
  BY <1>2, StartSwitch_LInv, StartOVS_LInv, StartController_LInv, StartInterface_LInv
<1>3. CASE StartRouter \/ StartMach \/ StartCloud
  BY <1>3, StartRouter_LInv, StartMach_LInv, StartCloud_LInv
<1>4. CASE (\E m \in Devices : ContainerUp(m)) \/ StopDevice \/ StopAll
  BY <1>4, ContainerUp_LInv, StopDevice_LInv, StopAll_LInv
<1>5. CASE UNCHANGED vars
  BY <1>5, Stutter_LInv
<1> QED BY <1>1, <1>2, <1>3, <1>4, <1>5, Zenon DEF Next

LEMMA LInvTypes == LInv => TypeOK
<1> SUFFICES ASSUME LInv PROVE TypeOK
  OBVIOUS
<1>1. DOMAIN networks \subseteq Names
  BY DEF LInv, MapInv, NetInv, Known
<1>2. DOMAIN taps \subseteq Nat /\ Range(taps) \subseteq Names \cup {None}
  BY DEF LInv, TapsInv, Range
<1>3. DOMAIN containers \cap DOMAIN starting = {}
  BY DEF LInv, UpInv
<1>4. Range(containers) \cup Range(starting) \subseteq Names
  BY DEF LInv, UpInv, PlugInv, Known, Range
<1>5. \A n \in Range(subnetMap) : n \in DOMAIN networks
  BY DEF LInv, MapInv, SubnetInv, Range
<1>6. IsInjective(tapNames) /\ Range(tapNames) \subseteq Names
  <2>1. tapNames \in Seq(Names) /\ IsInjective(tapNames)
    BY DEF LInv, TapsInv
  <2>2. \A i \in DOMAIN tapNames : tapNames[i] \in Names
    BY <2>1, Element
  <2> QED BY <2>1, <2>2 DEF Range
<1>7. phase \in {"idle", "create", "undo", "destroy"} /\ (phase = "idle" <=> todo = <<>>)
  BY DEF LInv, PlanInv, Ended
<1>8. RestInv
  BY DEF LInv
<1> QED BY <1>1, <1>2, <1>3, <1>4, <1>5, <1>6, <1>7, <1>8 DEF TypeOK, RestInv

LEMMA LInvSubnets == LInv => InItsSubnet
<1> SUFFICES ASSUME LInv PROVE InItsSubnet
  OBVIOUS
<1>1. ASSUME NEW m \in DOMAIN containers, containers[m] \in DOMAIN networks
      PROVE  networks[containers[m]] \in NetsOf(m)
  <2>1. Fits(containers[m], networks[containers[m]])
    BY <1>1, Zenon DEF LInv, MapInv, NetInv
  <2>2. \A i \in Ends(containers[m]) : i.net \in NetsOf(m)
    BY <1>1, Zenon DEF LInv, UpInv, PlugInv
  <2> QED BY <2>1, <2>2, Zenon DEF Fits
<1>2. ASSUME NEW i \in DOMAIN taps \cap DOMAIN tapNames
      PROVE  \E j \in Range(Ifaces(tapNames[i][1])) :
                j.to = tapNames[i][2] /\ networks[taps[i]] = j.net
  BY <1>2, Zenon DEF LInv, MapInv, TapInv
<1> QED BY <1>1, <1>2, Zenon DEF InItsSubnet, NetsOf
-----------------------------------------------------------------------------
(* The order of a sequence: x comes before y.                              *)
Before(s, x, y) == \E j, k \in DOMAIN s : j < k /\ s[j] = x /\ s[k] = y

LEMMA Alone ==
    ASSUME NEW e
    PROVE  Range(<<e>>) = {e} /\ \A x, y : ~Before(<<e>>, x, y)
<1>1. DOMAIN <<e>> = {1} /\ <<e>>[1] = e
  OBVIOUS
<1>2. Range(<<e>>) = {e}
  BY <1>1 DEF Range
<1>3. \A x, y : ~Before(<<e>>, x, y)
  BY <1>1 DEF Before
<1> QED BY <1>2, <1>3

LEMMA Empty == Range(<<>>) = {} /\ \A x, y : ~Before(<<>>, x, y)
BY EmptyDomain DEF Range, Before

LEMMA JoinedOrder ==
    ASSUME NEW S, NEW a \in Seq(S), NEW b \in Seq(S)
    PROVE  /\ Range(a \o b) = Range(a) \cup Range(b)
           /\ \A x, y : Before(a \o b, x, y) <=>
                \/ Before(a, x, y) \/ Before(b, x, y)
                \/ x \in Range(a) /\ y \in Range(b)
<1> DEFINE c == a \o b
           n == Len(a)
           m == Len(b)
<1>1. n \in Nat /\ m \in Nat /\ DOMAIN a = 1..n /\ DOMAIN b = 1..m /\ DOMAIN c = 1..(n + m)
  OBVIOUS
<1>2. /\ \A j \in 1..n : j \in 1..(n + m) /\ c[j] = a[j]
      /\ \A j \in 1..m : n + j \in 1..(n + m) /\ c[n + j] = b[j]
  OBVIOUS
<1>3. \A j \in 1..(n + m) : j \in 1..n \/ (j - n \in 1..m /\ j = n + (j - n))
  BY <1>1
<1> HIDE DEF c, n, m
<1>4. Range(c) = Range(a) \cup Range(b)
  <2>1. ASSUME NEW x \in Range(c) PROVE x \in Range(a) \cup Range(b)
    <3>1. PICK j \in 1..(n + m) : c[j] = x
      BY <1>1 DEF Range
    <3>2. CASE j \in 1..n
      BY <1>1, <1>2, <3>1, <3>2 DEF Range
    <3>3. CASE j - n \in 1..m /\ j = n + (j - n)
      BY <1>1, <1>2, <3>1, <3>3 DEF Range
    <3> QED BY <1>3, <3>2, <3>3
  <2>2. Range(a) \cup Range(b) \subseteq Range(c)
    BY <1>1, <1>2 DEF Range
  <2> QED BY <2>1, <2>2
<1>5. ASSUME NEW x, NEW y, Before(c, x, y)
      PROVE  Before(a, x, y) \/ Before(b, x, y) \/ (x \in Range(a) /\ y \in Range(b))
  <2>1. PICK j \in 1..(n + m), k \in 1..(n + m) : j < k /\ c[j] = x /\ c[k] = y
    BY <1>1, <1>5 DEF Before
  <2>2. CASE j \in 1..n /\ k \in 1..n
    BY <1>1, <1>2, <2>1, <2>2 DEF Before
  <2>3. CASE j \in 1..n /\ k - n \in 1..m /\ k = n + (k - n)
    BY <1>1, <1>2, <2>1, <2>3 DEF Range
  <2>4. CASE j - n \in 1..m /\ j = n + (j - n) /\ k - n \in 1..m /\ k = n + (k - n)
    <3>1. b[j - n] = x /\ b[k - n] = y /\ j - n < k - n
      BY <1>1, <1>2, <2>1, <2>4
    <3> QED BY <1>1, <2>4, <3>1 DEF Before
  <2>5. CASE j - n \in 1..m /\ j = n + (j - n) /\ k \in 1..n
    BY <1>1, <2>1, <2>5
  <2> QED BY <1>3, <2>2, <2>3, <2>4, <2>5
<1>6. ASSUME NEW x, NEW y, Before(a, x, y) PROVE Before(c, x, y)
  BY <1>1, <1>2, <1>6 DEF Before
<1>7. ASSUME NEW x, NEW y, Before(b, x, y) PROVE Before(c, x, y)
  <2>1. PICK j \in 1..m, k \in 1..m : j < k /\ b[j] = x /\ b[k] = y
    BY <1>1, <1>7 DEF Before
  <2>2. n + j < n + k
    BY <1>1, <2>1
  <2> QED BY <1>1, <1>2, <2>1, <2>2 DEF Before
<1>8. ASSUME NEW x \in Range(a), NEW y \in Range(b) PROVE Before(c, x, y)
  <2>1. PICK j \in 1..n, k \in 1..m : a[j] = x /\ b[k] = y
    BY <1>1 DEF Range
  <2>2. j < n + k
    BY <1>1, <2>1
  <2> QED BY <1>1, <1>2, <2>1, <2>2 DEF Before
<1> QED BY <1>4, <1>5, <1>6, <1>7, <1>8 DEF c

LEMMA TailOrder ==
    ASSUME NEW S, NEW s \in Seq(S), s # <<>>
    PROVE  /\ Range(s) = {s[1]} \cup Range(Tail(s))
           /\ \A x, y : Before(s, x, y) <=>
                Before(Tail(s), x, y) \/ (x = s[1] /\ y \in Range(Tail(s)))
<1>1. Tail(s) \in Seq(S) /\ <<s[1]>> \in Seq(S) /\ s = <<s[1]>> \o Tail(s)
  OBVIOUS
<1> DEFINE one == <<s[1]>>
           rest == Tail(s)
<1>2. Range(one) = {s[1]} /\ \A x, y : ~Before(one, x, y)
  BY Alone
<1> HIDE DEF one, rest
<1>3. one \in Seq(S) /\ rest \in Seq(S) /\ s = one \o rest
  BY <1>1 DEF one, rest
<1>4. /\ Range(s) = Range(one) \cup Range(rest)
      /\ \A x, y : Before(s, x, y) <=>
           \/ Before(one, x, y) \/ Before(rest, x, y)
           \/ x \in Range(one) /\ y \in Range(rest)
  <2>1. /\ Range(one \o rest) = Range(one) \cup Range(rest)
        /\ \A x, y : Before(one \o rest, x, y) <=>
             \/ Before(one, x, y) \/ Before(rest, x, y)
             \/ x \in Range(one) /\ y \in Range(rest)
    BY <1>3, JoinedOrder
  <2> QED BY <1>3, <2>1
<1>5. /\ Range(s) = {s[1]} \cup Range(rest)
      /\ \A x, y : Before(s, x, y) <=> Before(rest, x, y) \/ (x = s[1] /\ y \in Range(rest))
  BY <1>2, <1>4
<1> QED BY <1>5 DEF rest
-----------------------------------------------------------------------------
(* The same of a concatenation of sequences.                               *)
Parts(f, seqs, n, S) ==
    /\ f[0] = <<>> /\ f[n] = Concat(seqs)
    /\ \A i \in 1..n : f[i] = f[i - 1] \o seqs[i]
    /\ \A i \in 0..n : f[i] \in Seq(S)

LEMMA Prefixes ==
    ASSUME NEW S, NEW seqs \in Seq(Seq(S))
    PROVE  \E f : Parts(f, seqs, Len(seqs), S)
<1> DEFINE N == Len(seqs)
           f == CHOOSE f : f = Joins(seqs, f, N)
           T == {n \in 0..N : f[n] \in Seq(S)}
<1>1. N \in Nat
  OBVIOUS
<1>2. f = Joins(seqs, f, N)
  BY <1>1, JoinsExist, Zenon
<1>3. Concat(seqs) = f[N]
  BY Zenon DEF Concat, Joins, Joined
<1> HIDE DEF f
<1>4. \A i \in 0..N : f[i] = Joined(seqs, f, i)
  BY <1>2, Zenon DEF Joins
<1>5. f[0] = <<>>
  <2>1. 0 \in 0..N
    BY <1>1
  <2> QED BY <1>4, <2>1, Zenon DEF Joined
<1>6. \A i \in 1..N : f[i] = f[i - 1] \o seqs[i]
  <2>1. \A i \in 1..N : i \in 0..N /\ i # 0
    BY <1>1
  <2> QED BY <1>4, <2>1, Zenon DEF Joined
<1>7. 0 \in T
  <2>1. 0 \in 0..N /\ <<>> \in Seq(S)
    BY <1>1
  <2> QED BY <1>5, <2>1, Zenon
<1>8. ASSUME NEW n \in 1..N, n - 1 \in T PROVE n \in T
  <2>1. n \in 0..N /\ seqs[n] \in Seq(S) /\ f[n - 1] \in Seq(S)
    BY <1>1, <1>8
  <2>2. f[n - 1] \o seqs[n] \in Seq(S)
    BY <2>1
  <2> QED BY <1>6, <2>1, <2>2
<1>9. 0..N \subseteq T
  <2> HIDE DEF T
  <2> QED BY <1>1, <1>7, <1>8, InductionUpTo
<1> HIDE DEF N
<1>10. \A i \in 0..N : f[i] \in Seq(S)
  BY <1>9
<1> QED BY <1>3, <1>5, <1>6, <1>10, Zenon DEF N, Parts

LEMMA ConcatOrder ==
    ASSUME NEW S, NEW seqs \in Seq(Seq(S))
    PROVE  /\ Range(Concat(seqs)) = UNION {Range(seqs[i]) : i \in DOMAIN seqs}
           /\ \A x, y : Before(Concat(seqs), x, y) <=>
                \/ \E i \in DOMAIN seqs : Before(seqs[i], x, y)
                \/ \E i, j \in DOMAIN seqs : i < j /\ x \in Range(seqs[i]) /\ y \in Range(seqs[j])
<1> DEFINE N == Len(seqs)
<1>1. N \in Nat /\ DOMAIN seqs = 1..N /\ \A i \in 1..N : seqs[i] \in Seq(S)
  OBVIOUS
<1>2. PICK f : Parts(f, seqs, N, S)
  BY Prefixes, Zenon
<1> HIDE DEF N
<1> DEFINE In(n) == \A x : x \in Range(f[n]) <=> \E i \in 1..n : x \in Range(seqs[i])
           Ord(n) == \A x, y : Before(f[n], x, y) <=>
                       \/ \E i \in 1..n : Before(seqs[i], x, y)
                       \/ \E i, j \in 1..n : i < j /\ x \in Range(seqs[i]) /\ y \in Range(seqs[j])
           T == {n \in 0..N : In(n) /\ Ord(n)}
<1>3. 0 \in T
  <2>1. In(0) /\ Ord(0)
    BY <1>2, Empty DEF Parts
  <2> HIDE DEF In, Ord
  <2> QED BY <1>1, <2>1
<1>4. ASSUME NEW n \in 1..N, n - 1 \in T PROVE n \in T
  <2>1. n \in 0..N /\ n \in Nat /\ In(n - 1) /\ Ord(n - 1) /\ n - 1 \in 0..N
    BY <1>1, <1>4
  <2>2. /\ Range(f[n]) = Range(f[n - 1]) \cup Range(seqs[n])
        /\ \A x, y : Before(f[n], x, y) <=>
             \/ Before(f[n - 1], x, y) \/ Before(seqs[n], x, y)
             \/ x \in Range(f[n - 1]) /\ y \in Range(seqs[n])
    <3>1. f[n - 1] \in Seq(S) /\ seqs[n] \in Seq(S) /\ f[n] = f[n - 1] \o seqs[n]
      BY <1>1, <1>2, <2>1 DEF Parts
    <3> QED BY <3>1, JoinedOrder
  <2>3. /\ \A i \in 1..n : i \in 1..(n - 1) \/ i = n
        /\ \A i \in 1..(n - 1) : i \in 1..n /\ i < n
        /\ n \in 1..n /\ \A i, j \in 1..n : i < j => i \in 1..(n - 1)
    BY <2>1
  <2>4. In(n)
    BY <2>1, <2>2, <2>3
  <2>5. Ord(n)
    <3>1. ASSUME NEW x, NEW y, Before(f[n], x, y)
          PROVE  \/ \E i \in 1..n : Before(seqs[i], x, y)
                 \/ \E i, j \in 1..n : i < j /\ x \in Range(seqs[i]) /\ y \in Range(seqs[j])
      <4>1. CASE Before(f[n - 1], x, y)
        BY <2>1, <2>3, <4>1
      <4>2. CASE Before(seqs[n], x, y)
        BY <2>3, <4>2
      <4>3. CASE x \in Range(f[n - 1]) /\ y \in Range(seqs[n])
        BY <2>1, <2>3, <4>3
      <4> QED BY <2>2, <3>1, <4>1, <4>2, <4>3
    <3>2. ASSUME NEW x, NEW y, NEW i \in 1..n, Before(seqs[i], x, y)
          PROVE  Before(f[n], x, y)
      BY <2>1, <2>2, <2>3, <3>2
    <3>3. ASSUME NEW x, NEW y, NEW i \in 1..n, NEW j \in 1..n, i < j,
                 x \in Range(seqs[i]), y \in Range(seqs[j])
          PROVE  Before(f[n], x, y)
      <4>1. i \in 1..(n - 1) /\ x \in Range(f[n - 1])
        BY <2>1, <2>3, <3>3
      <4> QED BY <2>1, <2>2, <2>3, <3>3, <4>1
    <3> QED BY <3>1, <3>2, <3>3
  <2> HIDE DEF In, Ord
  <2> QED BY <2>1, <2>4, <2>5
<1>5. In(N) /\ Ord(N)
  <2>1. 0..N \subseteq T
    <3> HIDE DEF T
    <3> QED BY <1>1, <1>3, <1>4, InductionUpTo
  <2>2. N \in 0..N
    BY <1>1
  <2> HIDE DEF In, Ord
  <2> QED BY <2>1, <2>2
<1> QED BY <1>1, <1>2, <1>5 DEF Parts

LEMMA ConcatLength ==
    ASSUME NEW S, NEW seqs \in Seq(Seq(S)), seqs # <<>>
    PROVE  Len(Concat(seqs)) = Len(seqs[1]) + Len(Concat(Tail(seqs)))
<1> DEFINE N == Len(seqs)
           rest == Tail(seqs)
<1>1. N \in Nat /\ N >= 1 /\ DOMAIN seqs = 1..N /\ \A i \in 1..N : seqs[i] \in Seq(S)
  OBVIOUS
<1>2. rest \in Seq(Seq(S)) /\ Len(rest) = N - 1 /\ \A i \in 1..(N - 1) : rest[i] = seqs[i + 1]
  OBVIOUS
<1>3. PICK f : Parts(f, seqs, N, S)
  BY Prefixes, Zenon
<1> HIDE DEF N, rest
<1>4. PICK g : Parts(g, rest, N - 1, S)
  <2>1. \E g : Parts(g, rest, Len(rest), S)
    BY <1>2, Prefixes
  <2> QED BY <1>2, <2>1
<1>0. \A a, b \in Seq(S) : Len(a \o b) = Len(a) + Len(b)
  OBVIOUS
<1> DEFINE Same(n) == Len(f[n + 1]) = Len(seqs[1]) + Len(g[n])
           T == {n \in 0..(N - 1) : Same(n)}
<1>5. 0 \in T
  <2>1. 1 \in 1..N /\ 0 \in 0..(N - 1) /\ 0 \in 0..N
    BY <1>1
  <2>2. f[1] = f[1 - 1] \o seqs[1] /\ seqs[1] \in Seq(S) /\ 1 - 1 = 0
    BY <1>1, <1>3, <2>1 DEF Parts
  <2>3. f[0] = <<>> /\ g[0] = <<>> /\ <<>> \in Seq(S) /\ Len(<<>>) = 0 /\ Len(seqs[1]) \in Nat
    BY <1>3, <1>4, <2>2 DEF Parts
  <2>4. Len(f[1]) = Len(seqs[1]) + Len(g[0])
    <3>1. f[1] = <<>> \o seqs[1]
      BY <2>2, <2>3
    <3>2. Len(f[1]) = 0 + Len(seqs[1])
      BY <1>0, <2>2, <2>3, <3>1
    <3> QED BY <2>3, <3>2
  <2>5. Same(0)
    <3>1. 0 + 1 = 1
      OBVIOUS
    <3> QED BY <2>4, <3>1
  <2> HIDE DEF Same
  <2> QED BY <2>1, <2>5
<1>6. ASSUME NEW n \in 1..(N - 1), n - 1 \in T PROVE n \in T
  <2>1. n \in Nat /\ n + 1 \in 1..N /\ n \in 0..N /\ n - 1 \in 0..(N - 1) /\ n \in 0..(N - 1)
    BY <1>1
  <2>2. f[n + 1] = f[n] \o seqs[n + 1] /\ g[n] = g[n - 1] \o seqs[n + 1]
    <3>1. (n + 1) - 1 = n
      BY <2>1
    <3> QED BY <1>2, <1>3, <1>4, <2>1, <3>1 DEF Parts
  <2>3. f[n] \in Seq(S) /\ g[n - 1] \in Seq(S)
    BY <1>3, <1>4, <2>1 DEF Parts
  <2>4. seqs[n + 1] \in Seq(S) /\ seqs[1] \in Seq(S) /\ Len(seqs[1]) \in Nat
    <3>1. 1 \in 1..N
      BY <1>1
    <3>2. seqs[n + 1] \in Seq(S) /\ seqs[1] \in Seq(S)
      BY <1>1, <2>1, <3>1
    <3> QED BY <3>2
  <2>5. Len(f[n]) = Len(seqs[1]) + Len(g[n - 1])
    <3>1. (n - 1) + 1 = n
      BY <2>1
    <3> QED BY <1>6, <3>1
  <2>6. Len(f[n + 1]) = Len(seqs[1]) + Len(g[n])
    <3>1. Len(f[n + 1]) = Len(f[n]) + Len(seqs[n + 1]) /\ Len(g[n]) = Len(g[n - 1]) + Len(seqs[n + 1])
      BY <1>0, <2>2, <2>3, <2>4
    <3>2. Len(g[n - 1]) \in Nat /\ Len(seqs[n + 1]) \in Nat
      BY <2>3, <2>4
    <3>3. \A a, b, c \in Nat : (a + b) + c = a + (b + c)
      OBVIOUS
    <3>4. (Len(seqs[1]) + Len(g[n - 1])) + Len(seqs[n + 1]) = Len(seqs[1]) + (Len(g[n - 1]) + Len(seqs[n + 1]))
      BY <2>4, <3>2, <3>3, Zenon
    <3>5. Len(f[n]) + Len(seqs[n + 1]) = Len(seqs[1]) + Len(g[n])
      BY <2>5, <3>1, <3>4
    <3> QED BY <3>1, <3>5
  <2>7. Same(n)
    BY <2>6
  <2> HIDE DEF Same
  <2> QED BY <2>1, <2>7
<1>7. N - 1 \in T
  <2>1. 0..(N - 1) \subseteq T
    <3> HIDE DEF T
    <3>1. N - 1 \in Nat
      BY <1>1
    <3> QED BY <1>5, <1>6, <3>1, InductionUpTo
  <2> HIDE DEF T
  <2> QED BY <1>1, <2>1
<1>8. (N - 1) + 1 = N
  BY <1>1
<1> QED BY <1>3, <1>4, <1>7, <1>8 DEF rest, Parts
-----------------------------------------------------------------------------
(* The order of the plans *)

LEMMA OfOrder ==
    ASSUME top \in Topologies, NEW k
    PROVE  /\ Range(Of(k)) = {d \in Devices : Kind[d] \in k}
           /\ \A x, y : Before(Of(k), x, y) => Before(top.devices, x, y)
<1> DEFINE S == {d \in Devices : Kind[d] \in k}
           part(i) == LET d == top.devices[i] IN IF Kind[d] \in k THEN <<d>> ELSE <<>>
           parts == [i \in DOMAIN top.devices |-> part(i)]
<1>1. top.devices \in Seq(Devices)
  BY TopFacts
<1>2. ASSUME NEW i \in DOMAIN top.devices
      PROVE  /\ part(i) \in Seq(S)
             /\ \A x : x \in Range(part(i)) <=> x = top.devices[i] /\ x \in S
             /\ \A x, y : ~Before(part(i), x, y)
  <2>1. top.devices[i] \in Devices
    BY <1>1
  <2>2. CASE Kind[top.devices[i]] \in k
    <3>1. top.devices[i] \in S
      BY <2>1, <2>2
    <3>2. part(i) = <<top.devices[i]>>
      BY <2>2
    <3> HIDE DEF part, S
    <3>3. part(i) \in Seq(S)
      BY <3>1, <3>2
    <3> QED BY <3>1, <3>2, <3>3, Alone
  <2>3. CASE Kind[top.devices[i]] \notin k
    <3>1. part(i) = <<>> /\ top.devices[i] \notin S
      BY <2>3
    <3> HIDE DEF part, S
    <3>2. part(i) \in Seq(S)
      BY <3>1
    <3> QED BY <3>1, <3>2, Empty
  <2> QED BY <2>2, <2>3
<1>3. Of(k) = Concat(parts)
  BY Zenon DEF Of
<1>4. \A i \in DOMAIN top.devices : parts[i] = part(i)
  BY Zenon
<1>5. DOMAIN parts = DOMAIN top.devices
  OBVIOUS
<1> HIDE DEF part, S
<1>6. parts \in Seq(Seq(S))
  <2>1. parts \in [DOMAIN top.devices -> Seq(S)]
    BY <1>2
  <2> HIDE DEF parts
  <2> QED BY <1>1, <2>1, MapType
<1> HIDE DEF parts
<1>7. /\ Range(Concat(parts)) = UNION {Range(parts[i]) : i \in DOMAIN parts}
      /\ \A x, y : Before(Concat(parts), x, y) <=>
           \/ \E i \in DOMAIN parts : Before(parts[i], x, y)
           \/ \E i, j \in DOMAIN parts : i < j /\ x \in Range(parts[i]) /\ y \in Range(parts[j])
  BY <1>6, ConcatOrder
<1>8. Range(Of(k)) = S
  <2>1. \A x \in S : \E i \in DOMAIN top.devices : top.devices[i] = x
    BY DEF S, Devices, Range
  <2>2. ASSUME NEW x PROVE x \in UNION {Range(parts[i]) : i \in DOMAIN parts} <=> x \in S
    BY <1>2, <1>4, <1>5, <2>1
  <2> QED BY <1>3, <1>7, <2>2
<1>9. ASSUME NEW x, NEW y, Before(Of(k), x, y)
      PROVE  Before(top.devices, x, y)
  <2>1. PICK i \in DOMAIN parts, j \in DOMAIN parts : i < j /\ x \in Range(parts[i]) /\ y \in Range(parts[j])
    BY <1>2, <1>3, <1>4, <1>5, <1>7, <1>9
  <2>2. top.devices[i] = x /\ top.devices[j] = y
    BY <1>2, <1>4, <1>5, <2>1
  <2> QED BY <1>5, <2>1, <2>2 DEF Before
<1> QED BY <1>8, <1>9 DEF S

LEMMA OnlyOnce ==
    ASSUME top \in Topologies, NEW d, NEW e, Before(top.devices, d, e)
    PROVE  d # e /\ ~Before(top.devices, e, d)
<1>1. IsInjective(top.devices)
  BY Linked
<1>2. DOMAIN top.devices \subseteq Nat
  <2>1. top.devices \in Seq(Devices)
    BY TopFacts
  <2> QED BY <2>1
<1>3. \A i, j \in DOMAIN top.devices : top.devices[i] = top.devices[j] => i = j
  BY <1>1 DEF IsInjective
<1>4. PICK i \in DOMAIN top.devices, j \in DOMAIN top.devices :
         i < j /\ top.devices[i] = d /\ top.devices[j] = e
  BY DEF Before
<1>5. d # e
  BY <1>2, <1>3, <1>4
<1>6. ASSUME Before(top.devices, e, d) PROVE FALSE
  <2>1. PICK m \in DOMAIN top.devices, n \in DOMAIN top.devices :
           m < n /\ top.devices[m] = e /\ top.devices[n] = d
    BY <1>6 DEF Before
  <2>2. m = j /\ n = i
    BY <1>3, <1>4, <2>1
  <2> QED BY <1>2, <1>4, <2>1, <2>2
<1> QED BY <1>5, <1>6

(* x may come before y in what is left of a creation.                      *)
InOrder(x, y) ==
    /\ x[1] = y[1] => x[2] < y[2]
    /\ x[1] # "end"
    /\ y[1] \in Devices /\ IsSwitch(y[1]) =>
          x[1] \in Devices /\ IsSwitch(x[1]) /\ Before(top.devices, x[1], y[1])
Part(s, K) ==
    /\ s \in Seq(Items)
    /\ \A x \in Range(s) : x[1] \in Devices /\ Kind[x[1]] \in K
    /\ \A x, y : Before(s, x, y) => InOrder(x, y)

LEMMA PartsJoin ==
    ASSUME top \in Topologies, NEW K, NEW L, NEW a, NEW b, Part(a, K), Part(b, L),
           K \cap L = {}, L \cap Switches = {}
    PROVE  Part(a \o b, K \cup L)
<1> HIDE DEF Items
<1>1. a \in Seq(Items) /\ b \in Seq(Items) /\ a \o b \in Seq(Items)
  BY DEF Part
<1>2. /\ Range(a \o b) = Range(a) \cup Range(b)
      /\ \A x, y : Before(a \o b, x, y) <=>
           \/ Before(a, x, y) \/ Before(b, x, y)
           \/ x \in Range(a) /\ y \in Range(b)
  BY <1>1, JoinedOrder
<1>3. ASSUME NEW x \in Range(a), NEW y \in Range(b) PROVE InOrder(x, y)
  <2>1. x[1] # y[1] /\ x[1] # "end"
    BY TopFacts DEF Part
  <2>2. ~IsSwitch(y[1])
    BY DEF Part, IsSwitch
  <2> QED BY <2>1, <2>2 DEF InOrder
<1> QED BY <1>1, <1>2, <1>3 DEF Part

LEMMA EachPart ==
    ASSUME top \in Topologies, NEW K, K \subseteq Switches \/ K \cap Switches = {}
    PROVE  /\ Part(Each(Of(K)), K)
           /\ \A d \in Devices : Kind[d] \in K => <<d, 1>> \in Range(Each(Of(K)))
<1> DEFINE s == Of(K)
           e == Each(s)
<1>1. s \in Seq({d \in Devices : Kind[d] \in K})
  BY OfType
<1>2. /\ Range(s) = {d \in Devices : Kind[d] \in K}
      /\ \A x, y : Before(s, x, y) => Before(top.devices, x, y)
  BY OfOrder
<1>3. e \in Seq(Items)
  BY EachOf
<1> HIDE DEF s
<1>4. DOMAIN e = DOMAIN s /\ \A i \in DOMAIN s : e[i] = <<s[i], 1>>
  BY DEF Each
<1> HIDE DEF e
<1>5. ASSUME NEW x \in Range(e) PROVE x[1] \in Devices /\ Kind[x[1]] \in K
  <2>1. PICK i \in DOMAIN s : x = <<s[i], 1>>
    BY <1>4 DEF Range
  <2>2. s[i] \in Range(s)
    BY DEF Range
  <2> QED BY <1>2, <2>1, <2>2
<1>6. ASSUME NEW x, NEW y, Before(e, x, y) PROVE InOrder(x, y)
  <2>1. PICK i \in DOMAIN s, j \in DOMAIN s : i < j /\ x = <<s[i], 1>> /\ y = <<s[j], 1>>
    BY <1>4, <1>6 DEF Before
  <2>2. Before(s, s[i], s[j])
    BY <2>1 DEF Before
  <2>3. Before(top.devices, x[1], y[1]) /\ x[1] # y[1]
    BY <1>2, <2>1, <2>2, OnlyOnce
  <2>4. s[i] \in Range(s) /\ s[j] \in Range(s)
    BY DEF Range
  <2>5. x[1] \in Devices /\ Kind[x[1]] \in K /\ Kind[y[1]] \in K /\ x[1] # "end"
    BY <1>2, <2>1, <2>4, TopFacts
  <2>6. IsSwitch(y[1]) => IsSwitch(x[1])
    BY <2>5 DEF IsSwitch
  <2> QED BY <2>3, <2>5, <2>6 DEF InOrder
<1>7. ASSUME NEW d \in Devices, Kind[d] \in K PROVE <<d, 1>> \in Range(e)
  <2>1. PICK i \in DOMAIN s : s[i] = d
    BY <1>2, <1>7 DEF Range
  <2> QED BY <1>4, <2>1 DEF Range
<1> QED BY <1>3, <1>5, <1>6, <1>7 DEF Part, e, s

LEMMA RouterPart ==
    ASSUME top \in Topologies
    PROVE  LET c == Concat([i \in DOMAIN Of({"Router"}) |-> RouterItems(Of({"Router"})[i])])
           IN /\ Part(c, {"Router"})
              /\ \A r \in Devices : Kind[r] = "Router" =>
                   \A k \in 1..(Len(Ifaces(r)) + 1) : <<r, k>> \in Range(c)
<1> DEFINE R == Of({"Router"})
           parts == [i \in DOMAIN R |-> RouterItems(R[i])]
<1>1. /\ Range(R) = {d \in Devices : Kind[d] \in {"Router"}}
      /\ \A x, y : Before(R, x, y) => Before(top.devices, x, y)
  BY OfOrder
<1>2. R \in Seq({d \in Devices : Kind[d] \in {"Router"}})
  BY OfType
<1>3. DOMAIN parts = DOMAIN R /\ \A i \in DOMAIN R : parts[i] = RouterItems(R[i])
  OBVIOUS
<1> HIDE DEF R
<1>4. \A i \in DOMAIN R : R[i] \in Range(R)
  BY DEF Range
<1>5. ASSUME NEW d \in Range(R)
      PROVE  /\ RouterItems(d) \in Seq(Items)
             /\ Len(Ifaces(d)) \in Nat /\ d \in Devices /\ Kind[d] = "Router"
             /\ \A k \in 1..(Len(Ifaces(d)) + 1) : <<d, k>> \in Range(RouterItems(d))
             /\ \A x \in Range(RouterItems(d)) : x[1] = d
             /\ \A x, y : Before(RouterItems(d), x, y) => x[1] = d /\ y[1] = d /\ x[2] < y[2]
  <2>1. d \in Devices /\ Kind[d] = "Router" /\ d \in HasIfaces(top)
    BY <1>1, TopFacts
  <2>2. Ifaces(d) \in Seq([to : Devices, net : Nets])
    BY <2>1, TopFacts
  <2>3. Len(Ifaces(d)) \in Nat
    BY <2>2
  <2> DEFINE n == Len(Ifaces(d)) + 1
  <2>4. n \in Nat /\ RouterItems(d) = [k \in 1..n |-> <<d, k>>]
    BY <2>3 DEF RouterItems
  <2>5. \A k \in 1..n : <<d, k>> \in Items
    BY <2>1, <2>4 DEF Items
  <2> HIDE DEF n, Items
  <2>6. RouterItems(d) \in Seq(Items)
    BY <2>4, <2>5
  <2>7. DOMAIN RouterItems(d) = 1..n /\ \A k \in 1..n : RouterItems(d)[k] = <<d, k>>
    BY <2>4
  <2>8. \A k \in 1..n : <<d, k>> \in Range(RouterItems(d))
    BY <2>7 DEF Range
  <2>9. \A x \in Range(RouterItems(d)) : x[1] = d
    BY <2>7 DEF Range
  <2>10. \A x, y : Before(RouterItems(d), x, y) => x[1] = d /\ y[1] = d /\ x[2] < y[2]
    BY <2>7 DEF Before
  <2> QED BY <2>1, <2>3, <2>6, <2>8, <2>9, <2>10 DEF n
<1> HIDE DEF parts, Items
<1>6. parts \in Seq(Seq(Items))
  <2>1. parts \in [DOMAIN R -> Seq(Items)]
    BY <1>3, <1>4, <1>5 DEF parts
  <2> QED BY <1>2, <2>1, MapType
<1> DEFINE c == Concat(parts)
<1>7. /\ Range(c) = UNION {Range(parts[i]) : i \in DOMAIN parts}
      /\ \A x, y : Before(c, x, y) <=>
           \/ \E i \in DOMAIN parts : Before(parts[i], x, y)
           \/ \E i, j \in DOMAIN parts : i < j /\ x \in Range(parts[i]) /\ y \in Range(parts[j])
  BY <1>6, ConcatOrder
<1>8. c \in Seq(Items)
  BY <1>6, ConcatType
<1> HIDE DEF c
<1>9. \A x \in Range(c) : x[1] \in Devices /\ Kind[x[1]] \in {"Router"}
  BY <1>3, <1>4, <1>5, <1>7
<1>10. ASSUME NEW x, NEW y, Before(c, x, y) PROVE InOrder(x, y)
  <2>1. CASE \E i \in DOMAIN parts : Before(parts[i], x, y)
    <3>1. PICK i \in DOMAIN R : Before(RouterItems(R[i]), x, y)
      BY <1>3, <2>1
    <3>2. x[1] = R[i] /\ y[1] = R[i] /\ x[2] < y[2] /\ R[i] \in Devices /\ Kind[R[i]] = "Router"
      BY <1>4, <1>5, <3>1
    <3> QED BY <3>2, TopFacts DEF InOrder, IsSwitch, Switches
  <2>2. CASE \E i, j \in DOMAIN parts : i < j /\ x \in Range(parts[i]) /\ y \in Range(parts[j])
    <3>1. PICK i \in DOMAIN R, j \in DOMAIN R :
             i < j /\ x \in Range(RouterItems(R[i])) /\ y \in Range(RouterItems(R[j]))
      BY <1>3, <2>2
    <3>2. x[1] = R[i] /\ y[1] = R[j] /\ R[i] \in Devices /\ R[j] \in Devices /\ Kind[R[j]] = "Router"
      BY <1>4, <1>5, <3>1
    <3>3. Before(R, R[i], R[j])
      BY <3>1 DEF Before
    <3>4. x[1] # y[1]
      BY <1>1, <3>2, <3>3, OnlyOnce
    <3> QED BY <3>2, <3>4, TopFacts DEF InOrder, IsSwitch, Switches
  <2> QED BY <1>7, <1>10, <2>1, <2>2
<1>11. ASSUME NEW r \in Devices, Kind[r] = "Router", NEW k \in 1..(Len(Ifaces(r)) + 1)
       PROVE  <<r, k>> \in Range(c)
  <2>1. r \in Range(R)
    BY <1>1, <1>11
  <2>2. PICK i \in DOMAIN R : R[i] = r
    BY <2>1 DEF Range
  <2>3. <<r, k>> \in Range(parts[i])
    BY <1>3, <1>5, <2>1, <2>2
  <2> QED BY <1>3, <1>7, <2>3
<1> QED BY <1>8, <1>9, <1>10, <1>11 DEF Part, c, parts, R

(* What is left of a creation, and of the end of a process.                *)
Ordered(s) ==
    /\ s \in Seq(Items)
    /\ \A x, y : Before(s, x, y) => InOrder(x, y)
    /\ \A r \in {d \in Devices : Kind[d] = "Router"} : \A k \in 1..Len(Ifaces(r)) :
          <<r, k>> \in Range(s) => <<r, Len(Ifaces(r)) + 1>> \in Range(s)

LEMMA StartPlanOrder ==
    ASSUME top \in Topologies
    PROVE  /\ Ordered(StartPlan)
           /\ \A d \in Devices : Kind[d] \in Switches \cup {"Controller", "Mach", "Cloud"} =>
                <<d, 1>> \in Range(StartPlan)
           /\ \A r \in Devices : Kind[r] = "Router" =>
                \A k \in 1..(Len(Ifaces(r)) + 1) : <<r, k>> \in Range(StartPlan)
<1> DEFINE a == Each(Of(Switches))
           b == Each(Of({"Controller"}))
           c == Concat([i \in DOMAIN Of({"Router"}) |-> RouterItems(Of({"Router"})[i])])
           d == Each(Of({"Mach"}))
           e == Each(Of({"Cloud"}))
           z == <<<<"end", 1>>>>
<1>1. /\ Part(a, Switches) /\ \A x \in Devices : Kind[x] \in Switches => <<x, 1>> \in Range(a)
  BY EachPart
<1>2. /\ Part(b, {"Controller"}) /\ \A x \in Devices : Kind[x] = "Controller" => <<x, 1>> \in Range(b)
  BY EachPart DEF Switches
<1>3. /\ Part(d, {"Mach"}) /\ \A x \in Devices : Kind[x] = "Mach" => <<x, 1>> \in Range(d)
  BY EachPart DEF Switches
<1>4. /\ Part(e, {"Cloud"}) /\ \A x \in Devices : Kind[x] = "Cloud" => <<x, 1>> \in Range(e)
  BY EachPart DEF Switches
<1>5. /\ Part(c, {"Router"})
      /\ \A r \in Devices : Kind[r] = "Router" => \A k \in 1..(Len(Ifaces(r)) + 1) : <<r, k>> \in Range(c)
  BY RouterPart
<1>6. StartPlan = a \o b \o c \o d \o e \o z
  BY Zenon DEF StartPlan
<1>7. z \in Seq(Items) /\ Range(z) = {<<"end", 1>>} /\ \A x, y : ~Before(z, x, y)
  BY Alone DEF Items
<1> HIDE DEF a, b, c, d, e, z, Items
<1> DEFINE ab == a \o b
           abc == ab \o c
           abcd == abc \o d
           most == abcd \o e
<1>8. Part(ab, Switches \cup {"Controller"})
  BY <1>1, <1>2, PartsJoin DEF Switches
<1>9. Part(abc, Switches \cup {"Controller"} \cup {"Router"})
  <2> HIDE DEF ab
  <2> QED BY <1>5, <1>8, PartsJoin DEF Switches
<1>10. Part(abcd, Switches \cup {"Controller"} \cup {"Router"} \cup {"Mach"})
  <2> HIDE DEF abc
  <2> QED BY <1>3, <1>9, PartsJoin DEF Switches
<1>11. Part(most, Switches \cup {"Controller"} \cup {"Router"} \cup {"Mach"} \cup {"Cloud"})
  <2> HIDE DEF abcd
  <2> QED BY <1>4, <1>10, PartsJoin DEF Switches
<1>12. /\ a \in Seq(Items) /\ b \in Seq(Items) /\ c \in Seq(Items) /\ d \in Seq(Items) /\ e \in Seq(Items)
       /\ ab \in Seq(Items) /\ abc \in Seq(Items) /\ abcd \in Seq(Items) /\ most \in Seq(Items)
  <2> HIDE DEF ab, abc, abcd, most
  <2> QED BY <1>1, <1>2, <1>3, <1>4, <1>5, <1>8, <1>9, <1>10, <1>11 DEF Part
<1>13. Range(most) = Range(a) \cup Range(b) \cup Range(c) \cup Range(d) \cup Range(e)
  <2>1. Range(ab) = Range(a) \cup Range(b)
    BY <1>12, JoinedOrder
  <2>2. Range(abc) = Range(ab) \cup Range(c)
    <3> HIDE DEF ab
    <3> QED BY <1>12, JoinedOrder
  <2>3. Range(abcd) = Range(abc) \cup Range(d)
    <3> HIDE DEF abc
    <3> QED BY <1>12, JoinedOrder
  <2>4. Range(most) = Range(abcd) \cup Range(e)
    <3> HIDE DEF abcd
    <3> QED BY <1>12, JoinedOrder
  <2> HIDE DEF ab, abc, abcd, most
  <2> QED BY <2>1, <2>2, <2>3, <2>4
<1>14. StartPlan = most \o z
  BY <1>6
<1> HIDE DEF ab, abc, abcd, most
<1>15. /\ Range(StartPlan) = Range(most) \cup Range(z)
       /\ \A x, y : Before(StartPlan, x, y) <=>
            Before(most, x, y) \/ Before(z, x, y) \/ (x \in Range(most) /\ y \in Range(z))
       /\ StartPlan \in Seq(Items)
  <2>1. /\ Range(most \o z) = Range(most) \cup Range(z)
        /\ \A x, y : Before(most \o z, x, y) <=>
             Before(most, x, y) \/ Before(z, x, y) \/ (x \in Range(most) /\ y \in Range(z))
    BY <1>7, <1>12, JoinedOrder
  <2>2. most \o z \in Seq(Items)
    BY <1>7, <1>12
  <2> QED BY <1>14, <2>1, <2>2
<1>16. ASSUME NEW x, NEW y, Before(StartPlan, x, y) PROVE InOrder(x, y)
  <2>1. CASE Before(most, x, y)
    BY <1>11, <2>1 DEF Part
  <2>2. CASE x \in Range(most) /\ y \in Range(z)
    <3>1. x[1] \in Devices /\ y[1] = "end" /\ "end" \notin Devices
      BY <1>7, <1>11, <2>2, TopFacts DEF Part
    <3> QED BY <3>1 DEF InOrder
  <2> QED BY <1>7, <1>15, <1>16, <2>1, <2>2
<1>17. \A r \in Devices : Kind[r] = "Router" =>
          \A k \in 1..(Len(Ifaces(r)) + 1) : <<r, k>> \in Range(StartPlan)
  BY <1>5, <1>13, <1>15
<1>18. \A r \in Devices : Kind[r] = "Router" => <<r, Len(Ifaces(r)) + 1>> \in Range(StartPlan)
  <2>1. ASSUME NEW r \in Devices, Kind[r] = "Router" PROVE Len(Ifaces(r)) + 1 \in 1..(Len(Ifaces(r)) + 1)
    <3>1. Ifaces(r) \in Seq([to : Devices, net : Nets])
      BY <2>1, TopFacts
    <3>2. Len(Ifaces(r)) \in Nat
      BY <3>1
    <3> QED BY <3>2
  <2> QED BY <1>17, <2>1
<1> QED BY <1>1, <1>2, <1>3, <1>4, <1>13, <1>15, <1>16, <1>17, <1>18 DEF Ordered

EndLast(s) == \A x, y : Before(s, x, y) => x[1] # "end"

LEMMA StopPlanOrder ==
    ASSUME top \in Topologies
    PROVE  /\ StopPlan \in Seq(Items) /\ EndLast(StopPlan)
           /\ \A d \in Devices : Kind[d] \in Switches \cup {"Router", "Controller", "Mach", "Cloud"} =>
                <<d, 1>> \in Range(StopPlan)
           /\ <<"all", 1>> \in Range(StopPlan)
           /\ \A d \in Devices : Kind[d] \in Switches \cup {"Router"} =>
                Before(StopPlan, <<"all", 1>>, <<d, 1>>)
<1> DEFINE a == Each(Of({"Mach"}))
           b == Each(Of({"Cloud"}))
           c == <<<<"all", 1>>>>
           d == Each(Of({"Router"}))
           e == Each(Of({"Controller"}))
           f == Each(Of(Switches))
           z == <<<<"end", 1>>>>
<1>1. /\ Part(a, {"Mach"}) /\ \A x \in Devices : Kind[x] = "Mach" => <<x, 1>> \in Range(a)
  BY EachPart DEF Switches
<1>2. /\ Part(b, {"Cloud"}) /\ \A x \in Devices : Kind[x] = "Cloud" => <<x, 1>> \in Range(b)
  BY EachPart DEF Switches
<1>3. /\ Part(d, {"Router"}) /\ \A x \in Devices : Kind[x] = "Router" => <<x, 1>> \in Range(d)
  BY EachPart DEF Switches
<1>4. /\ Part(e, {"Controller"}) /\ \A x \in Devices : Kind[x] = "Controller" => <<x, 1>> \in Range(e)
  BY EachPart DEF Switches
<1>5. /\ Part(f, Switches) /\ \A x \in Devices : Kind[x] \in Switches => <<x, 1>> \in Range(f)
  BY EachPart
<1>6. /\ c \in Seq(Items) /\ Range(c) = {<<"all", 1>>} /\ \A x, y : ~Before(c, x, y)
      /\ z \in Seq(Items) /\ Range(z) = {<<"end", 1>>} /\ \A x, y : ~Before(z, x, y)
  BY Alone DEF Items
<1>7. StopPlan = a \o b \o c \o d \o e \o f \o z
  BY Zenon DEF StopPlan
<1> HIDE DEF a, b, c, d, e, f, z, Items
<1> DEFINE ab == a \o b
           abc == ab \o c
           abcd == abc \o d
           abcde == abcd \o e
           most == abcde \o f
           Joins2(u, v, w) == /\ Range(w) = Range(u) \cup Range(v)
                              /\ \A x, y : Before(w, x, y) <=>
                                   Before(u, x, y) \/ Before(v, x, y) \/ (x \in Range(u) /\ y \in Range(v))
<1>8. /\ a \in Seq(Items) /\ b \in Seq(Items) /\ d \in Seq(Items) /\ e \in Seq(Items) /\ f \in Seq(Items)
  BY <1>1, <1>2, <1>3, <1>4, <1>5 DEF Part
<1>9. /\ ab \in Seq(Items) /\ abc \in Seq(Items) /\ abcd \in Seq(Items) /\ abcde \in Seq(Items)
      /\ most \in Seq(Items)
  BY <1>6, <1>8
<1>10. Joins2(a, b, ab)
  BY <1>8, JoinedOrder
<1>11. Joins2(ab, c, abc)
  <2> HIDE DEF ab
  <2> QED BY <1>6, <1>9, JoinedOrder
<1>12. Joins2(abc, d, abcd)
  <2> HIDE DEF abc
  <2> QED BY <1>8, <1>9, JoinedOrder
<1>13. Joins2(abcd, e, abcde)
  <2> HIDE DEF abcd
  <2> QED BY <1>8, <1>9, JoinedOrder
<1>14. Joins2(abcde, f, most)
  <2> HIDE DEF abcde
  <2> QED BY <1>8, <1>9, JoinedOrder
<1>15. Joins2(most, z, StopPlan) /\ StopPlan \in Seq(Items)
  <2>1. StopPlan = most \o z
    BY <1>7
  <2> HIDE DEF most
  <2>2. most \o z \in Seq(Items) /\ Joins2(most, z, most \o z)
    BY <1>6, <1>9, JoinedOrder
  <2> HIDE DEF Joins2
  <2> QED BY <2>1, <2>2
<1> HIDE DEF ab, abc, abcd, abcde, most
<1>16. ASSUME NEW x \in Range(most) PROVE x[1] # "end"
  <2>1. \A y \in Range(a) \cup Range(b) \cup Range(d) \cup Range(e) \cup Range(f) : y[1] \in Devices
    BY <1>1, <1>2, <1>3, <1>4, <1>5 DEF Part
  <2>2. x = <<"all", 1>> \/ x[1] \in Devices
    BY <1>6, <1>10, <1>11, <1>12, <1>13, <1>14, <2>1
  <2>3. <<"all", 1>>[1] # "end" /\ "end" \notin Devices
    BY TopFacts
  <2> QED BY <2>2, <2>3
<1>17. ASSUME NEW x, NEW y, Before(StopPlan, x, y) PROVE x[1] # "end"
  <2>1. x \in Range(most)
    <3>1. \A s : Before(s, x, y) => x \in Range(s)
      BY DEF Before, Range
    <3> QED BY <1>6, <1>15, <1>17, <3>1
  <2> QED BY <1>16, <2>1
<1>18. <<"all", 1>> \in Range(abc)
  BY <1>6, <1>11
<1>19. ASSUME NEW x \in Range(d) \cup Range(f) PROVE Before(StopPlan, <<"all", 1>>, x)
  <2>1. CASE x \in Range(d)
    BY <1>12, <1>13, <1>14, <1>15, <1>18, <2>1
  <2>2. CASE x \in Range(f)
    BY <1>12, <1>13, <1>14, <1>15, <1>18, <2>2
  <2> QED BY <2>1, <2>2
<1>20. /\ Range(a) \cup Range(b) \cup Range(d) \cup Range(e) \cup Range(f) \subseteq Range(StopPlan)
       /\ <<"all", 1>> \in Range(StopPlan)
  BY <1>10, <1>11, <1>12, <1>13, <1>14, <1>15, <1>18
<1> QED BY <1>1, <1>2, <1>3, <1>4, <1>5, <1>15, <1>17, <1>19, <1>20 DEF EndLast

LEMMA OrderedTail ==
    ASSUME top \in Topologies, NEW s, Ordered(s), s # <<>>
    PROVE  Ordered(Tail(s))
<1> HIDE DEF Items
<1>1. s \in Seq(Items) /\ Tail(s) \in Seq(Items)
  BY DEF Ordered
<1>2. /\ Range(s) = {s[1]} \cup Range(Tail(s))
      /\ \A x, y : Before(s, x, y) <=> Before(Tail(s), x, y) \/ (x = s[1] /\ y \in Range(Tail(s)))
  BY <1>1, TailOrder
<1>3. ASSUME NEW r \in Devices, NEW k \in 1..Len(Ifaces(r)),
             Kind[r] = "Router", <<r, k>> \in Range(Tail(s))
      PROVE  <<r, Len(Ifaces(r)) + 1>> \in Range(Tail(s))
  <2> DEFINE last1 == <<r, Len(Ifaces(r)) + 1>>
  <2>1. last1 \in Range(s)
    BY <1>2, <1>3 DEF Ordered
  <2>2. ASSUME last1 = s[1] PROVE FALSE
    <3>1. InOrder(last1, <<r, k>>)
      BY <1>2, <1>3, <2>2 DEF Ordered
    <3>2. Len(Ifaces(r)) + 1 < k
      BY <3>1 DEF InOrder
    <3>3. Len(Ifaces(r)) \in Nat
      <4>1. Ifaces(r) \in Seq([to : Devices, net : Nets])
        BY <1>3, TopFacts
      <4> QED BY <4>1
    <3> QED BY <3>2, <3>3
  <2> QED BY <1>2, <2>1, <2>2
<1> QED BY <1>1, <1>2, <1>3 DEF Ordered

(* Where the end is the first item, it is all that is left.                *)
LEMMA EndIsAll ==
    ASSUME NEW s, s \in Seq(Items), s # <<>>, EndLast(s), s[1][1] = "end"
    PROVE  Range(s) = {s[1]} /\ Tail(s) = <<>>
<1> HIDE DEF Items
<1>1. /\ Range(s) = {s[1]} \cup Range(Tail(s))
      /\ \A x, y : Before(s, x, y) <=> Before(Tail(s), x, y) \/ (x = s[1] /\ y \in Range(Tail(s)))
  BY TailOrder
<1>2. Range(Tail(s)) = {}
  BY <1>1 DEF EndLast
<1>3. Tail(s) = <<>>
  <2>1. Tail(s) \in Seq(Items)
    OBVIOUS
  <2>2. \A i \in DOMAIN Tail(s) : FALSE
    BY <1>2 DEF Range
  <2> QED BY <2>1, <2>2
<1> QED BY <1>1, <1>2, <1>3
-----------------------------------------------------------------------------
(* The interfaces of routers that are still to be made, one tap each.      *)
IsIface(x) == x[1] \in Devices /\ Kind[x[1]] = "Router" /\ x[2] <= Len(Ifaces(x[1]))
TapItems(s) == Concat([i \in DOMAIN s |-> IF IsIface(s[i]) THEN <<s[i]>> ELSE <<>>])

LEMMA TapItemsTail ==
    ASSUME NEW s, s \in Seq(Items), s # <<>>
    PROVE  /\ Len(TapItems(Tail(s))) \in Nat
           /\ IsIface(s[1]) => Len(TapItems(s)) = 1 + Len(TapItems(Tail(s)))
           /\ ~IsIface(s[1]) => Len(TapItems(s)) = Len(TapItems(Tail(s)))
<1> HIDE DEF Items
<1> DEFINE part(x) == IF IsIface(x) THEN <<x>> ELSE <<>>
           parts(t) == [i \in DOMAIN t |-> part(t[i])]
<1>1. ASSUME NEW x \in Items PROVE part(x) \in Seq(Items) /\ Len(part(x)) = IF IsIface(x) THEN 1 ELSE 0
  BY <1>1
<1>2. \A t : TapItems(t) = Concat(parts(t))
  BY DEF TapItems
<1> HIDE DEF part
<1>3. ASSUME NEW t \in Seq(Items) PROVE parts(t) \in Seq(Seq(Items))
  <2>1. parts(t) \in [DOMAIN t -> Seq(Items)]
    BY <1>1
  <2> HIDE DEF parts
  <2> QED BY <2>1, MapType
<1>4. parts(s) # <<>> /\ parts(s)[1] = part(s[1]) /\ Tail(parts(s)) = parts(Tail(s))
  OBVIOUS
<1>5. Tail(s) \in Seq(Items) /\ s[1] \in Items
  OBVIOUS
<1> HIDE DEF parts
<1>6. Len(Concat(parts(s))) = Len(parts(s)[1]) + Len(Concat(Tail(parts(s))))
  BY <1>3, <1>4, ConcatLength
<1>7. Len(TapItems(Tail(s))) \in Nat
  <2>1. Concat(parts(Tail(s))) \in Seq(Items)
    BY <1>3, <1>5, ConcatType
  <2> QED BY <1>2, <2>1
<1>8. Len(TapItems(s)) = Len(part(s[1])) + Len(TapItems(Tail(s)))
  BY <1>2, <1>4, <1>6, Zenon
<1>9. Len(part(s[1])) = IF IsIface(s[1]) THEN 1 ELSE 0
  BY <1>1, <1>5
<1> HIDE DEF IsIface, TapItems
<1>10. CASE IsIface(s[1])
  BY <1>7, <1>8, <1>9, <1>10
<1>11. CASE ~IsIface(s[1])
  BY <1>7, <1>8, <1>9, <1>11
<1> QED BY <1>7, <1>10, <1>11

LEMMA NoTapItems == TapItems(<<>>) = <<>>
<1> DEFINE none == [i \in DOMAIN <<>> |-> IF IsIface(<<>>[i]) THEN <<<<>>[i]>> ELSE <<>>]
<1>1. none = <<>>
  BY EmptyDomain
<1>2. TapItems(<<>>) = Concat(none)
  BY Zenon DEF TapItems
<1> HIDE DEF none
<1>3. <<>> \in Seq(Seq({})) /\ Len(<<>>) = 0
  OBVIOUS
<1>4. PICK f : Parts(f, <<>>, Len(<<>>), {})
  BY <1>3, Prefixes
<1> QED BY <1>1, <1>2, <1>3, <1>4 DEF Parts

LEMMA SamePlans ==
    ASSUME top' = top
    PROVE  /\ \A k : Of(k)' = Of(k)
           /\ \A s : SubnetOf(s)' = SubnetOf(s)
           /\ StartPlan' = StartPlan /\ StopPlan' = StopPlan
           /\ \A x : IsIface(x)' <=> IsIface(x)
           /\ \A s : TapItems(s)' = TapItems(s)
           /\ \A s : Ordered(s)' <=> Ordered(s)
<1>1. \A d : Ifaces(d)' = Ifaces(d)
  BY DEF Ifaces
<1>2. Devices' = Devices /\ Items' = Items
  BY SameTop
<1>3. \A k : Of(k)' = Of(k)
  BY Zenon DEF Of
<1>4. \A d : RouterItems(d)' = RouterItems(d)
  BY <1>1, Zenon DEF RouterItems
<1>5. \A s : SubnetOf(s)' = SubnetOf(s)
  BY <1>1, <1>3, Zenon DEF SubnetOf
<1>6. StartPlan' = StartPlan
  BY <1>3, <1>4, Zenon DEF StartPlan
<1>7. StopPlan' = StopPlan
  BY <1>3, Zenon DEF StopPlan
<1>8. \A x : IsIface(x)' <=> IsIface(x)
  BY <1>1, <1>2, Zenon DEF IsIface
<1>9. \A s : TapItems(s)' = TapItems(s)
  BY <1>8, Zenon DEF TapItems
<1>10. \A x, y : InOrder(x, y)' <=> InOrder(x, y)
  BY <1>2, Zenon DEF InOrder
<1>11. \A s : Ordered(s)' <=> Ordered(s)
  BY <1>1, <1>2, <1>10, Zenon DEF Ordered
<1> QED BY <1>3, <1>5, <1>6, <1>7, <1>8, <1>9, <1>11

-----------------------------------------------------------------------------
(* A network belongs to its switch, or to the router that makes it, which  *)
(* is not one that the other end of the link has made.  One that is not of *)
(* an OVS has its subnet before each OVS of that subnet is started.        *)
OwnedBy(n, net) ==
    IF IsSwitch(n[1])
    THEN n[2] = n[1] /\ net = SubnetOf(n[1])
    ELSE /\ Kind[n[1]] = "Router" /\ n[2] # n[1] /\ ~IsSwitch(n[2])
         /\ \E k \in DOMAIN Ifaces(n[1]) : Ifaces(n[1])[k].to = n[2]
NotShared(n, net) ==
    Kind[n[1]] # "OVS" =>
       \A o \in Devices : Kind[o] = "OVS" /\ SubnetOf(o) = net =>
          IsSwitch(n[1]) /\ ~Before(top.devices, o, n[1])
OneWay(n) == ~IsSwitch(n[1]) => <<n[2], n[1]>> \notin DOMAIN networks
OwnerInv == \A n \in DOMAIN networks :
               OwnedBy(n, networks[n]) /\ NotShared(n, networks[n]) /\ OneWay(n)
NumberInv == \A i \in DOMAIN taps : i \in 1..Len(TapItems(StartPlan))
ScreenInv == \A d \in screens : Kind[d] \in {"Router", "Controller", "Cloud"}

(* A stop script undoes u, or will once its router is complete; an item    *)
(* that is left to do makes network n, or finds it.                        *)
UndoneBy(d, u) ==
    /\ Kind[d] \in Switches \cup {"Router"} /\ u \in scripts[d].undo
    /\ scripts[d].runs \/ (Kind[d] = "Router" /\ <<d, Len(Ifaces(d)) + 1>> \in Range(todo))
Undone(u) == \E d \in DOMAIN scripts : UndoneBy(d, u)
Makes(x, n) ==
    /\ x[1] = n[1]
    /\ IF IsSwitch(n[1]) THEN x[2] = 1 ELSE IsIface(x) /\ Ifaces(x[1])[x[2]].to = n[2]
Ahead(n) ==
    /\ \E x \in Range(todo) : Makes(x, n)
    /\ Kind[n[1]] # "OVS" => networks[n] \notin DOMAIN subnetMap

(* While a topology is created.                                            *)
Fresh == \A d \in DOMAIN scripts : \A x \in Range(todo) :
            x[1] = d => Kind[d] = "Mach" \/ (Kind[d] = "Router" /\ x[2] # 1)
BridgeInv == \A o \in Devices :
                Kind[o] = "OVS" /\ <<o, 1>> \notin Range(todo) => SubnetOf(o) \in DOMAIN subnetMap
CoverInv == \A n \in DOMAIN networks : Undone(<<"net", n>>) \/ Ahead(n)
TapCount == Len(tapNames) + Len(TapItems(todo)) = Len(TapItems(StartPlan))
TapCover == \A i \in DOMAIN tapNames : i \in DOMAIN taps /\ Undone(<<"tap", i>>)
Building == Ordered(todo) /\ Fresh /\ BridgeInv /\ CoverInv /\ TapCount /\ TapCover
CreateInv == phase = "create" => Building

(* A topology that was created has a script for everything.                *)
CreatedInv == phase = "idle" /\ last = "created" =>
                 /\ \A n \in DOMAIN networks : Undone(<<"net", n>>)
                 /\ \A i \in DOMAIN taps : Undone(<<"tap", i>>)

(* While all of it is destroyed: what is there is still to be undone, and  *)
(* the networks after the containers are gone.                             *)
Up == DOMAIN containers # {}
Undoes(d, u) == scripts[d].runs /\ u \in scripts[d].undo /\ <<d, 1>> \in Range(todo)
Leaving ==
    /\ todo \in Seq(Items) /\ EndLast(todo) /\ DOMAIN starting = {}
    /\ Up => <<"all", 1>> \in Range(todo)
    /\ \A n \in DOMAIN networks : \E d \in DOMAIN scripts :
          /\ Undoes(d, <<"net", n>>)
          /\ Up => Before(todo, <<"all", 1>>, <<d, 1>>)
    /\ \A i \in DOMAIN taps : \E d \in DOMAIN scripts : Undoes(d, <<"tap", i>>)
    /\ \A d \in screens : <<d, 1>> \in Range(todo)
DestroyInv == phase = "destroy" /\ whole => Leaving

SInv == /\ OwnerInv /\ NumberInv /\ ScreenInv
        /\ CreateInv /\ CreatedInv /\ DestroyInv /\ DestroyedIsClean
-----------------------------------------------------------------------------
LEMMA SameNames ==
    ASSUME top' = top
    PROVE  /\ \A n, net : OwnedBy(n, net)' <=> OwnedBy(n, net)
           /\ \A n, net : NotShared(n, net)' <=> NotShared(n, net)
           /\ \A x, n : Makes(x, n)' <=> Makes(x, n)
<1>1. /\ Devices' = Devices /\ \A d : Ifaces(d)' = Ifaces(d)
      /\ \A s : SubnetOf(s)' = SubnetOf(s)
      /\ \A x : IsIface(x)' <=> IsIface(x)
  BY SameTop, SamePlans
<1>2. \A n, net : OwnedBy(n, net)' <=> OwnedBy(n, net)
  BY <1>1, Zenon DEF OwnedBy
<1>3. \A n, net : NotShared(n, net)' <=> NotShared(n, net)
  BY <1>1, Zenon DEF NotShared
<1>4. \A x, n : Makes(x, n)' <=> Makes(x, n)
  BY <1>1, Zenon DEF Makes
<1> QED BY <1>2, <1>3, <1>4

(* A step that makes no network.                                           *)
LEMMA OwnersKept ==
    ASSUME OwnerInv, top' = top, DOMAIN networks' \subseteq DOMAIN networks,
           \A n \in DOMAIN networks' : networks'[n] = networks[n]
    PROVE  OwnerInv'
BY SameNames, Zenon DEF OwnerInv, OneWay

LEMMA OwnersGrow ==
    ASSUME NetInv, OwnerInv, top' = top, NEW name, NEW net, NEW new \in BOOLEAN,
           networks' = IF new THEN With(networks, name, net) ELSE networks,
           new => /\ name \in Names /\ OwnedBy(name, net) /\ NotShared(name, net)
                  /\ OneWay(name)
    PROVE  OwnerInv'
<1>1. CASE ~new
  BY <1>1, OwnersKept
<1>2. CASE new
  <2>1. /\ DOMAIN networks' = {name} \cup DOMAIN networks
        /\ networks'[name] = net
        /\ \A n \in DOMAIN networks : n # name => networks'[n] = networks[n]
    <3>1. networks' = With(networks, name, net)
      BY <1>2
    <3> QED BY <3>1 DEF With
  <2>2. name = <<name[1], name[2]>> /\ \A n \in DOMAIN networks : n = <<n[1], n[2]>>
    BY <1>2 DEF Names, NetInv, Known
  <2>3. \A n \in DOMAIN networks : OwnedBy(n, networks[n]) /\ NotShared(n, networks[n]) /\ OneWay(n)
    BY DEF OwnerInv
  <2>4. \A n \in DOMAIN networks' : OwnedBy(n, networks'[n]) /\ NotShared(n, networks'[n])
    BY <1>2, <2>1, <2>3, Zenon
  <2>5. ASSUME NEW n \in DOMAIN networks', ~IsSwitch(n[1])
        PROVE  <<n[2], n[1]>> \notin DOMAIN networks'
    <3>1. n[2] # n[1] /\ ~IsSwitch(n[2])
      BY <2>4, <2>5, Zenon DEF OwnedBy
    <3>2. CASE n = name
      <4>1. <<n[2], n[1]>> # name
        BY <2>2, <3>1, <3>2
      <4> QED BY <1>2, <2>1, <2>5, <3>2, <4>1 DEF OneWay
    <3>3. CASE n # name
      <4>1. n \in DOMAIN networks
        BY <2>1, <3>3
      <4>2. <<n[2], n[1]>> \notin DOMAIN networks
        BY <2>3, <2>5, <4>1 DEF OneWay
      <4>3. ASSUME <<n[2], n[1]>> = name PROVE FALSE
        <5>1. name[1] = n[2] /\ name[2] = n[1]
          BY <4>3
        <5>2. <<name[2], name[1]>> = n
          BY <2>2, <4>1, <5>1
        <5> QED BY <1>2, <3>1, <4>1, <5>1, <5>2 DEF OneWay
      <4> QED BY <2>1, <4>2, <4>3
    <3> QED BY <3>2, <3>3
  <2> QED BY <2>4, <2>5, SameNames, Zenon DEF OwnerInv, OneWay
<1> QED BY <1>1, <1>2

(* A step into "undo" has these to keep, and no more.                      *)
LEMMA AbortKeeps ==
    ASSUME Abort, OwnerInv', NumberInv', ScreenInv'
    PROVE  SInv'
BY DEF Abort, SInv, CreateInv, CreatedInv, DestroyInv, DestroyedIsClean

LEMMA GoKeeps ==
    ASSUME Go, phase = "create", OwnerInv', NumberInv', ScreenInv', Building'
    PROVE  SInv'
BY DEF Go, SInv, CreateInv, CreatedInv, DestroyInv, DestroyedIsClean
-----------------------------------------------------------------------------
(* A step of a creation that goes on.                                      *)
Going == /\ LInv /\ SInv /\ phase = "create" /\ todo # <<>> /\ Dev \in Devices
         /\ Go /\ top' = top

LEMMA GoneOn ==
    ASSUME Going
    PROVE  /\ Building /\ Ordered(todo)' /\ todo' = Tail(todo)
           /\ todo[1] \in Items /\ todo[1] \in Range(todo)
           /\ \A x \in Range(todo) : x # todo[1] => x \in Range(todo')
           /\ \A x \in Range(todo') : /\ x \in Range(todo) /\ x \in Items
                                     /\ InOrder(todo[1], x) /\ x # todo[1]
<1> HIDE DEF Items
<1>1. Building /\ top \in Topologies
  BY DEF Going, SInv, CreateInv, LInv, RestInv
<1>2. todo' = Tail(todo)
  BY DEF Going, Go
<1>3. Ordered(todo)'
  <2>1. Ordered(Tail(todo))
    BY <1>1, OrderedTail DEF Going, Building
  <2>2. Ordered(todo') <=> Ordered(Tail(todo))
    BY <1>2
  <2>3. Ordered(todo)' <=> Ordered(todo')
    BY SameTop, SamePlans, Zenon DEF Going, Ordered
  <2> QED BY <2>1, <2>2, <2>3
<1>4. todo \in Seq(Items) /\ todo # <<>> /\ todo' \in Seq(Items)
  BY <1>1, <1>2 DEF Going, Building, Ordered
<1>5. todo[1] \in Items /\ todo[1] \in Range(todo) /\ \A x \in Range(todo') : x \in Items
  BY <1>4 DEF Range
<1>6. /\ Range(todo) = {todo[1]} \cup Range(todo')
      /\ \A x \in Range(todo') : Before(todo, todo[1], x)
  BY <1>2, <1>4, TailOrder
<1>7. \A x \in Range(todo') : InOrder(todo[1], x)
  BY <1>1, <1>6 DEF Building, Ordered
<1>8. ~InOrder(todo[1], todo[1])
  <2>1. todo[1][2] \in Nat
    BY <1>5 DEF Items
  <2> QED BY <2>1 DEF InOrder
<1> QED BY <1>1, <1>2, <1>3, <1>5, <1>6, <1>7, <1>8, Zenon

(* What a script undoes, it still does: none is written twice, but those   *)
(* of routers, which grow.                                                 *)
Rescripted == 
    \/ UNCHANGED scripts /\ Kind[Dev] # "Router"
    \/ \E undo, runs :
         /\ Script(Dev, undo, runs) /\ Kind[Dev] \in Switches \cup {"Router", "Mach"}
         /\ Kind[Dev] = "Router" =>
               /\ Dev \in DOMAIN scripts /\ todo[1][2] # 1 => scripts[Dev].undo \subseteq undo
               /\ runs \/ <<Dev, Len(Ifaces(Dev)) + 1>> \in Range(todo')

LEMMA UndoneKept ==
    ASSUME Going, Rescripted, NEW u, Undone(u)
    PROVE  Undone(u)'
<1>1. /\ Building /\ todo[1] \in Range(todo)
      /\ \A x \in Range(todo) : x # todo[1] => x \in Range(todo')
  BY GoneOn
<1>2. PICK d \in DOMAIN scripts : UndoneBy(d, u)
  BY DEF Undone
<1>3. Ifaces(d)' = Ifaces(d)
  BY SameTop DEF Going
<1>4. CASE d # Dev
  <2>1. d \in DOMAIN scripts' /\ scripts'[d] = scripts[d]
    <3>1. CASE UNCHANGED scripts
      BY <3>1
    <3>2. CASE \E undo, runs : Script(Dev, undo, runs)
      <4>1. PICK undo, runs : scripts' = With(scripts, Dev, [undo |-> undo, runs |-> runs])
        BY <3>2 DEF Script
      <4> QED BY <1>4, <4>1 DEF With
    <3> QED BY <3>1, <3>2 DEF Rescripted
  <2>2. ASSUME <<d, Len(Ifaces(d)) + 1>> \in Range(todo)
        PROVE  <<d, Len(Ifaces(d)) + 1>> \in Range(todo')
    <3>1. <<d, Len(Ifaces(d)) + 1>> # todo[1]
      BY <1>4 DEF Dev
    <3> QED BY <1>1, <2>2, <3>1
  <2> QED BY <1>2, <1>3, <2>1, <2>2 DEF Undone, UndoneBy
<1>5. CASE d = Dev
  <2>1. Kind[d] = "Router" /\ todo[1][2] # 1
    <3>1. Kind[d] = "Mach" \/ (Kind[d] = "Router" /\ todo[1][2] # 1)
      BY <1>1, <1>5 DEF Building, Fresh, Dev
    <3> QED BY <1>2, <3>1 DEF UndoneBy, Switches
  <2>2. PICK undo, runs :
           /\ Script(Dev, undo, runs)
           /\ scripts[Dev].undo \subseteq undo
           /\ runs \/ <<Dev, Len(Ifaces(Dev)) + 1>> \in Range(todo')
    BY <1>5, <2>1, Zenon DEF Rescripted
  <2>3. d \in DOMAIN scripts' /\ scripts'[d] = [undo |-> undo, runs |-> runs]
    <3>1. scripts' = With(scripts, d, [undo |-> undo, runs |-> runs])
      BY <1>5, <2>2 DEF Script
    <3> QED BY <3>1 DEF With
  <2> QED BY <1>2, <1>3, <1>5, <2>1, <2>2, <2>3 DEF Undone, UndoneBy
<1> QED BY <1>4, <1>5

LEMMA StillFresh ==
    ASSUME Going, Rescripted
    PROVE  Fresh'
<1>1. ASSUME NEW d \in DOMAIN scripts', NEW x \in Range(todo'), x[1] = d
      PROVE  Kind[d] = "Mach" \/ (Kind[d] = "Router" /\ x[2] # 1)
  <2>1. /\ Building /\ x \in Range(todo) /\ InOrder(todo[1], x) /\ x \in Items /\ todo[1] \in Items
    BY <1>1, GoneOn
  <2>2. CASE d \in DOMAIN scripts
    BY <1>1, <2>1, <2>2 DEF Building, Fresh
  <2>3. CASE d \notin DOMAIN scripts
    <3>1. d = Dev /\ Kind[d] \in Switches \cup {"Router", "Mach"}
      <4>1. PICK undo, runs :
               /\ scripts' = With(scripts, Dev, [undo |-> undo, runs |-> runs])
               /\ Kind[Dev] \in Switches \cup {"Router", "Mach"}
        BY <1>1, <2>3 DEF Rescripted, Script
      <4> QED BY <1>1, <2>3, <4>1 DEF With
    <3>2. x[2] # 1
      <4>1. todo[1][2] < x[2] /\ todo[1][2] \in Nat \ {0} /\ x[2] \in Nat
        BY <1>1, <2>1, <3>1 DEF InOrder, Dev, Items
      <4> QED BY <4>1
    <3>3. Kind[d] \notin Switches
      <4>1. top \in Topologies /\ d \in Devices
        BY <3>1 DEF Going, LInv, RestInv
      <4>2. Kind[d] \in Switches => Before(top.devices, d, d)
        BY <1>1, <2>1, <3>1, <4>1 DEF InOrder, Dev, IsSwitch
      <4> QED BY <4>1, <4>2, OnlyOnce
    <3> QED BY <3>1, <3>2, <3>3
  <2> QED BY <2>2, <2>3
<1> QED BY <1>1 DEF Fresh

LEMMA StillCovered ==
    ASSUME Going, Rescripted, NEW name, NEW net, NEW new \in BOOLEAN,
           networks' = IF new THEN With(networks, name, net) ELSE networks,
           new => name \notin DOMAIN networks /\ Undone(<<"net", name>>)',
           \A n \in DOMAIN networks : Ahead(n) =>
              /\ Makes(todo[1], n) => Undone(<<"net", n>>)'
              /\ ~Makes(todo[1], n) /\ Kind[n[1]] # "OVS" => networks[n] \notin DOMAIN subnetMap'
    PROVE  CoverInv'
<1>1. /\ DOMAIN networks' \subseteq {name} \cup DOMAIN networks
      /\ name \in DOMAIN networks' => new \/ name \in DOMAIN networks
      /\ \A n \in DOMAIN networks : networks'[n] = networks[n]
  <2>1. CASE new
    <3>1. networks' = With(networks, name, net) /\ name \notin DOMAIN networks
      BY <2>1
    <3> QED BY <2>1, <3>1 DEF With
  <2>2. CASE ~new
    BY <2>2
  <2> QED BY <2>1, <2>2
<1>2. /\ Building
      /\ \A x \in Range(todo) : x # todo[1] => x \in Range(todo')
  BY GoneOn
<1>3. ASSUME NEW n \in DOMAIN networks PROVE Undone(<<"net", n>>)' \/ Ahead(n)'
  <2>1. CASE Undone(<<"net", n>>)
    <3>1. \A u : Undone(u) => Undone(u)'
      BY UndoneKept
    <3> QED BY <2>1, <3>1
  <2>2. CASE Ahead(n)
    <3>1. CASE Makes(todo[1], n)
      BY <2>2, <3>1
    <3>2. CASE ~Makes(todo[1], n)
      <4>1. PICK x \in Range(todo') : Makes(x, n)
        BY <1>2, <2>2, <3>2 DEF Ahead
      <4>2. Makes(x, n)'
        BY <4>1, SameNames DEF Going
      <4>3. Kind[n[1]] # "OVS" => networks'[n] \notin DOMAIN subnetMap'
        BY <1>1, <2>2, <3>2
      <4> QED BY <4>2, <4>3 DEF Ahead
    <3> QED BY <3>1, <3>2
  <2> QED BY <1>2, <2>1, <2>2 DEF Building, CoverInv
<1>4. ASSUME NEW n \in DOMAIN networks' PROVE Undone(<<"net", n>>)' \/ Ahead(n)'
  <2>1. CASE n \in DOMAIN networks
    BY <1>3, <2>1
  <2>2. CASE n \notin DOMAIN networks
    BY <1>1, <2>2
  <2> QED BY <2>1, <2>2
<1> QED BY <1>4 DEF CoverInv

LEMMA StillBridged ==
    ASSUME Going, DOMAIN subnetMap \subseteq DOMAIN subnetMap',
           Kind[Dev] = "OVS" => SubnetOf(Dev) \in DOMAIN subnetMap'
    PROVE  BridgeInv'
<1>1. ASSUME NEW o \in Devices, Kind[o] = "OVS", <<o, 1>> \notin Range(todo')
      PROVE  SubnetOf(o) \in DOMAIN subnetMap'
  <2>1. Building /\ \A x \in Range(todo) : x # todo[1] => x \in Range(todo')
    BY GoneOn
  <2>2. CASE <<o, 1>> = todo[1]
    <3>1. o = Dev
      BY <2>2 DEF Dev
    <3> QED BY <1>1, <3>1
  <2>3. CASE <<o, 1>> # todo[1]
    BY <1>1, <2>1, <2>3 DEF Building, BridgeInv
  <2> QED BY <2>2, <2>3
<1>2. Devices' = Devices /\ \A s : SubnetOf(s)' = SubnetOf(s)
  BY SameTop, SamePlans DEF Going
<1> QED BY <1>1, <1>2 DEF BridgeInv

LEMMA ItemsLeft ==
    ASSUME Going
    PROVE  /\ Len(TapItems(todo)') \in Nat /\ Len(tapNames) \in Nat
           /\ Len(TapItems(StartPlan)') = Len(TapItems(StartPlan))
           /\ Len(tapNames) + Len(TapItems(todo)) = Len(TapItems(StartPlan))
           /\ IsIface(todo[1]) => Len(TapItems(todo)) = 1 + Len(TapItems(todo)')
           /\ ~IsIface(todo[1]) => Len(TapItems(todo)) = Len(TapItems(todo)')
<1>1. Building /\ todo' = Tail(todo)
  BY GoneOn
<1>2. \A s : TapItems(s)' = TapItems(s)
  BY SamePlans DEF Going
<1>3. TapItems(todo)' = TapItems(Tail(todo))
  <2>1. TapItems(todo)' = TapItems(todo')
    BY SamePlans, SameTop, Zenon DEF Going, TapItems
  <2> QED BY <1>1, <2>1
<1>4. TapItems(StartPlan)' = TapItems(StartPlan)
  <2>1. StartPlan' = StartPlan
    BY SamePlans DEF Going
  <2>2. TapItems(StartPlan)' = TapItems(StartPlan')
    BY SamePlans, SameTop, Zenon DEF Going, TapItems
  <2> QED BY <2>1, <2>2
<1>5. todo \in Seq(Items) /\ todo # <<>>
  BY <1>1 DEF Going, Building, Ordered
<1>6. /\ Len(TapItems(Tail(todo))) \in Nat
      /\ IsIface(todo[1]) => Len(TapItems(todo)) = 1 + Len(TapItems(Tail(todo)))
      /\ ~IsIface(todo[1]) => Len(TapItems(todo)) = Len(TapItems(Tail(todo)))
  BY <1>5, TapItemsTail
<1>7. Len(tapNames) \in Nat
  <2>1. tapNames \in Seq(Names)
    BY DEF Going, LInv, TapsInv
  <2> QED BY <2>1
<1> QED BY <1>1, <1>3, <1>4, <1>6, <1>7, Zenon DEF Building, TapCount

(* A step that makes neither a network nor a tap.                          *)
LEMMA PlainStep ==
    ASSUME Going, Rescripted, Kind[Dev] \in {"Router", "Controller", "Mach", "Cloud"}, ~IsIface(todo[1]),
           UNCHANGED <<networks, taps, subnetMap, tapNames>>,
           screens' \subseteq screens \cup {d \in {Dev} : Kind[d] # "Mach"}
    PROVE  SInv'
<1>1. Building /\ Ordered(todo)' /\ todo' = Tail(todo)
  BY GoneOn
<1>2. Fresh'
  BY StillFresh
<1>3. BridgeInv'
  BY StillBridged DEF Switches
<1>4. CoverInv'
  <2>1. \A n \in DOMAIN networks : ~Makes(todo[1], n)
    BY DEF Makes, IsSwitch, Switches, Dev
  <2>2. networks' = IF FALSE THEN With(networks, None, None) ELSE networks
    OBVIOUS
  <2>3. \A n \in DOMAIN networks : Ahead(n) =>
          /\ Makes(todo[1], n) => Undone(<<"net", n>>)'
          /\ ~Makes(todo[1], n) /\ Kind[n[1]] # "OVS" => networks[n] \notin DOMAIN subnetMap'
    BY <2>1 DEF Ahead
  <2> QED BY <2>2, <2>3, StillCovered
<1>5. TapCount'
  BY ItemsLeft DEF TapCount
<1>6. TapCover'
  BY <1>1, UndoneKept DEF TapCover, Building
<1>7. Building'
  BY <1>1, <1>2, <1>3, <1>4, <1>5, <1>6 DEF Building
<1>8. OwnerInv'
  BY OwnersKept DEF Going, SInv
<1>9. NumberInv'
  BY ItemsLeft DEF Going, SInv, NumberInv
<1>10. ScreenInv'
  BY DEF Going, SInv, ScreenInv
<1> QED BY <1>7, <1>8, <1>9, <1>10, GoKeeps DEF Going

LEMMA NoIface ==
    ASSUME Dev \in Devices, Kind[Dev] # "Router"
    PROVE  ~IsIface(todo[1])
BY DEF IsIface, Dev

(* A step that fails, where nothing was made.                              *)
LEMMA PlainAbort ==
    ASSUME LInv, SInv, Abort, top' = top, UNCHANGED <<networks, taps, screens>>
    PROVE  SInv'
<1>1. OwnerInv'
  BY OwnersKept DEF SInv
<1>2. NumberInv'
  <2>1. TapItems(StartPlan)' = TapItems(StartPlan)
    <3>1. StartPlan' = StartPlan
      BY SamePlans
    <3>2. TapItems(StartPlan)' = TapItems(StartPlan')
      BY SamePlans, SameTop, Zenon DEF TapItems
    <3> QED BY <3>1, <3>2
  <2> QED BY <2>1 DEF SInv, NumberInv
<1>3. ScreenInv'
  BY DEF SInv, ScreenInv
<1> QED BY <1>1, <1>2, <1>3, AbortKeeps

LEMMA StartController_SInv ==
    ASSUME LInv, SInv, StartController
    PROVE  SInv'
<1>1. Dev \in Devices /\ todo # <<>> /\ Kind[Dev] = "Controller" /\ phase = "create" /\ top' = top
  BY DEF StartController, Creating, Step
<1>2. UNCHANGED <<networks, taps, scripts>>
  BY DEF StartController
<1>3. PICK bad \in Bad : IF bad THEN Abort /\ UNCHANGED screens
                               ELSE Go /\ screens' = screens \cup {Dev} /\ UNCHANGED maps
  BY DEF StartController
<1>4. CASE Abort /\ UNCHANGED screens
  BY <1>1, <1>2, <1>4, PlainAbort
<1>5. CASE Go /\ screens' = screens \cup {Dev} /\ UNCHANGED maps
  <2>1. Going /\ ~IsIface(todo[1])
    BY <1>1, <1>5, NoIface DEF Going
  <2>2. Rescripted
    BY <1>1, <1>2 DEF Rescripted
  <2>3. UNCHANGED <<subnetMap, tapNames>>
    BY <1>5 DEF maps
  <2> QED BY <1>1, <1>2, <1>5, <2>1, <2>2, <2>3, PlainStep
<1> QED BY <1>3, <1>4, <1>5

LEMMA StartCloud_SInv ==
    ASSUME LInv, SInv, StartCloud
    PROVE  SInv'
<1>1. Dev \in Devices /\ todo # <<>> /\ Kind[Dev] = "Cloud" /\ phase = "create" /\ top' = top
  BY DEF StartCloud, Creating, Step
<1>2. UNCHANGED <<networks, taps, scripts>>
  BY DEF StartCloud
<1>3. (Abort /\ UNCHANGED screens) \/ (Go /\ screens' = screens \cup {Dev} /\ UNCHANGED maps)
  BY DEF StartCloud
<1>4. CASE Abort /\ UNCHANGED screens
  BY <1>1, <1>2, <1>4, PlainAbort
<1>5. CASE Go /\ screens' = screens \cup {Dev} /\ UNCHANGED maps
  <2>1. Going /\ ~IsIface(todo[1])
    BY <1>1, <1>5, NoIface DEF Going
  <2>2. Rescripted
    BY <1>1, <1>2 DEF Rescripted
  <2>3. UNCHANGED <<subnetMap, tapNames>>
    BY <1>5 DEF maps
  <2> QED BY <1>1, <1>2, <1>5, <2>1, <2>2, <2>3, PlainStep
<1> QED BY <1>3, <1>4, <1>5

LEMMA StartMach_SInv ==
    ASSUME LInv, SInv, StartMach
    PROVE  SInv'
<1>1. Dev \in Devices /\ todo # <<>> /\ Kind[Dev] = "Mach" /\ phase = "create" /\ top' = top
  BY DEF StartMach, Creating, Step
<1>2. UNCHANGED <<networks, taps, screens>>
  BY DEF StartMach
<1>3. Abort \/ (Script(Dev, {<<"con", Dev>>}, TRUE) /\ Go /\ UNCHANGED maps)
  BY Zenon DEF StartMach
<1>4. CASE Abort
  BY <1>1, <1>2, <1>4, PlainAbort
<1>5. CASE Script(Dev, {<<"con", Dev>>}, TRUE) /\ Go /\ UNCHANGED maps
  <2>1. Going /\ ~IsIface(todo[1])
    BY <1>1, <1>5, NoIface DEF Going
  <2>2. Rescripted
    BY <1>1, <1>5, Zenon DEF Rescripted
  <2>3. UNCHANGED <<subnetMap, tapNames>>
    BY <1>5 DEF maps
  <2> QED BY <1>1, <1>2, <2>1, <2>2, <2>3, PlainStep
<1> QED BY <1>3, <1>4, <1>5

LEMMA StartRouter_SInv ==
    ASSUME LInv, SInv, StartRouter
    PROVE  SInv'
<1>1. /\ Dev \in Devices /\ todo # <<>> /\ Kind[Dev] = "Router" /\ phase = "create" /\ top' = top
      /\ todo[1][2] > Len(Ifaces(Dev)) /\ screens' = screens \cup {Dev}
  BY DEF StartRouter, Creating, Step
<1>2. UNCHANGED <<networks, taps>> /\ Go /\ UNCHANGED maps
  BY DEF StartRouter
<1>3. Going
  BY <1>1, <1>2 DEF Going
<1>4. ~IsIface(todo[1])
  <2>1. todo[1][2] \in Nat
    BY <1>3, GoneOn DEF Items
  <2>2. Len(Ifaces(Dev)) \in Nat
    <3>1. top \in Topologies /\ Dev \in HasIfaces(top)
      BY <1>1, TopFacts DEF LInv, RestInv
    <3>2. Ifaces(Dev) \in Seq([to : Devices, net : Nets])
      BY <3>1, TopFacts
    <3> QED BY <3>2
  <2> QED BY <1>1, <2>1, <2>2 DEF IsIface, Dev
<1>5. Rescripted
  <2> DEFINE undo == IF Dev \in DOMAIN scripts THEN scripts[Dev].undo ELSE {}
  <2>1. Script(Dev, undo, TRUE) /\ (Dev \in DOMAIN scripts => scripts[Dev].undo \subseteq undo)
    BY DEF StartRouter
  <2> HIDE DEF undo
  <2> QED BY <1>1, <2>1, Zenon DEF Rescripted
<1>6. UNCHANGED <<subnetMap, tapNames>>
  BY <1>2 DEF maps
<1> QED BY <1>1, <1>2, <1>3, <1>4, <1>5, <1>6, PlainStep

(* A switch or a bridge.                                                   *)
LEMMA BridgeTaps ==
    ASSUME Going, Rescripted, ~IsIface(todo[1]), UNCHANGED <<taps, tapNames, screens>>
    PROVE  TapCount' /\ TapCover' /\ NumberInv' /\ ScreenInv' /\ Fresh' /\ Ordered(todo)'
<1>1. Building /\ Ordered(todo)' /\ Fresh'
  BY GoneOn, StillFresh
<1>2. TapCount'
  BY ItemsLeft DEF TapCount
<1>3. TapCover'
  BY <1>1, UndoneKept DEF TapCover, Building
<1>4. NumberInv'
  BY ItemsLeft DEF Going, SInv, NumberInv
<1>5. ScreenInv'
  BY DEF Going, SInv, ScreenInv
<1> QED BY <1>1, <1>2, <1>3, <1>4, <1>5

LEMMA SamePlanItems ==
    ASSUME top' = top
    PROVE  TapItems(StartPlan)' = TapItems(StartPlan)
<1>1. StartPlan' = StartPlan
  BY SamePlans
<1>2. TapItems(StartPlan)' = TapItems(StartPlan')
  BY SamePlans, SameTop, Zenon DEF TapItems
<1> QED BY <1>1, <1>2

(* What the script of a device says it undoes, is undone.                  *)
LEMMA ScriptUndoes ==
    ASSUME NEW d, NEW undo, Script(d, undo, TRUE), Kind[d] \in Switches \cup {"Router"}
    PROVE  \A u \in undo : Undone(u)'
<1>1. scripts' = With(scripts, d, [undo |-> undo, runs |-> TRUE])
  BY DEF Script
<1>2. d \in DOMAIN scripts' /\ scripts'[d] = [undo |-> undo, runs |-> TRUE]
  BY <1>1 DEF With
<1> QED BY <1>2 DEF Undone, UndoneBy

LEMMA StartSwitch_SInv ==
    ASSUME LInv, SInv, StartSwitch
    PROVE  SInv'
<1>0. PICK dev, net : dev = Dev /\ net = SubnetOf(Dev)
  OBVIOUS
<1> DEFINE s == <<dev, dev>>
           shared == net \in DOMAIN subnetMap
           new(bad) == net # None /\ ~shared /\ Free(s, net) /\ ~bad
           ok(bad) == net # None /\ (shared \/ new(bad) \/ s \in DOMAIN networks)
<1>1. dev = Dev /\ Dev \in Devices /\ todo # <<>> /\ Kind[Dev] = "Switch" /\ IsSwitch(Dev) /\ phase = "create" /\ top' = top
  BY <1>0 DEF StartSwitch, Creating, Step, IsSwitch, Switches
<1>2. UNCHANGED <<taps, screens>>
  BY DEF StartSwitch
<1>3. PICK bad \in Bad :
         /\ networks' = IF new(bad) THEN With(networks, s, net) ELSE networks
         /\ Script(Dev, IF ok(bad) /\ ~shared THEN {<<"net", s>>} ELSE {}, ok(bad))
         /\ IF ok(bad)
            THEN /\ Go /\ UNCHANGED tapNames
                 /\ subnetMap' = IF new(bad) THEN With(subnetMap, net, s) ELSE subnetMap
                 /\ nameMap' = IF shared THEN With(nameMap, s, subnetMap[net]) ELSE nameMap
            ELSE Abort
  BY <1>0, Zenon DEF StartSwitch
<1>4. new(bad) \in BOOLEAN /\ (new(bad) => ok(bad) /\ ~shared /\ Free(s, net))
  OBVIOUS
<1>5. /\ s \in Names /\ s[1] = Dev /\ s[2] = Dev
      /\ s \notin DOMAIN networks \/ networks[s] = net
      /\ \A n \in DOMAIN networks : n[1] = Dev => n = s
  <2>1. \A n \in DOMAIN networks : n = <<n[1], n[2]>>
    BY DEF LInv, MapInv, NetInv, Known, Names
  <2>2. \A n \in DOMAIN networks : OwnedBy(n, networks[n])
    BY DEF SInv, OwnerInv
  <2> QED BY <1>0, <1>1, <2>1, <2>2 DEF OwnedBy, Names
<1>6. ok(bad) => ok(bad) = TRUE
  OBVIOUS
<1> HIDE DEF s, new, ok
<1>7. CASE ~ok(bad)
  BY <1>1, <1>2, <1>3, <1>4, <1>7, PlainAbort
<1>8. CASE ok(bad)
  <2>1. /\ Go /\ UNCHANGED tapNames
        /\ subnetMap' = IF new(bad) THEN With(subnetMap, net, s) ELSE subnetMap
        /\ Script(Dev, IF shared THEN {} ELSE {<<"net", s>>}, TRUE)
    BY <1>3, <1>6, <1>8, Zenon
  <2>2. Going
    BY <1>1, <2>1 DEF Going
  <2>3. Rescripted
    BY <1>1, <2>1, Zenon DEF Rescripted, Switches
  <2>4. ~IsIface(todo[1])
    BY <1>1, NoIface
  <2>5. TapCount' /\ TapCover' /\ NumberInv' /\ ScreenInv' /\ Fresh' /\ Ordered(todo)'
    BY <1>2, <2>1, <2>2, <2>3, <2>4, BridgeTaps
  <2>6. DOMAIN subnetMap' = DOMAIN subnetMap \cup (IF new(bad) THEN {net} ELSE {})
    <3>1. CASE new(bad)
      <4>1. subnetMap' = With(subnetMap, net, s)
        BY <2>1, <3>1
      <4> QED BY <3>1, <4>1 DEF With
    <3> QED BY <2>1, <3>1
  <2>7. BridgeInv'
    BY <1>0, <1>1, <2>2, <2>6, StillBridged
  <2>8. ~shared => Undone(<<"net", s>>)'
    <3>1. ASSUME ~shared PROVE Undone(<<"net", s>>)'
      <4>1. Script(Dev, {<<"net", s>>}, TRUE)
        BY <2>1, <3>1
      <4> QED BY <1>1, <4>1, ScriptUndoes DEF Switches
    <3> QED BY <3>1
  <2>9. CoverInv'
    <3>1. new(bad) => s \notin DOMAIN networks /\ Undone(<<"net", s>>)'
      BY <1>4, <2>8 DEF Free
    <3>2. ASSUME NEW n \in DOMAIN networks, Ahead(n), Makes(todo[1], n)
          PROVE  Undone(<<"net", n>>)'
      <4>1. n = s
        BY <1>5, <3>2 DEF Makes, Dev
      <4>2. ~shared
        BY <1>1, <1>5, <3>2, <4>1 DEF Ahead
      <4> QED BY <2>8, <4>1, <4>2
    <3>3. ASSUME NEW n \in DOMAIN networks, Ahead(n), Kind[n[1]] # "OVS"
          PROVE  networks[n] \notin DOMAIN subnetMap'
      <4>1. networks[n] \notin DOMAIN subnetMap
        BY <3>3 DEF Ahead
      <4>2. CASE new(bad)
        <5>1. n \in Docker
          BY <3>3 DEF Docker, SInv, OwnerInv, OwnedBy, IsSwitch, Switches
        <5> QED BY <1>4, <2>6, <4>1, <4>2, <5>1 DEF Free
      <4> QED BY <2>6, <4>1, <4>2
    <3> QED BY <1>3, <1>4, <2>2, <2>3, <3>1, <3>2, <3>3, StillCovered
  <2>10. OwnerInv'
    <3>1. ASSUME new(bad) PROVE OwnedBy(s, net) /\ NotShared(s, net) /\ OneWay(s)
      <4>1. OwnedBy(s, net) /\ OneWay(s)
        BY <1>0, <1>1, <1>5 DEF OwnedBy, OneWay
      <4>2. ASSUME NEW o \in Devices, Kind[o] = "OVS", SubnetOf(o) = net
            PROVE  ~Before(top.devices, o, Dev)
        <5>1. <<o, 1>> \in Range(todo)
          BY <1>4, <3>1, <4>2, GoneOn, <2>2 DEF Building, BridgeInv
        <5>2. <<o, 1>> # todo[1]
          BY <1>1, <4>2 DEF Dev
        <5>3. InOrder(todo[1], <<o, 1>>)
          BY <2>2, <5>1, <5>2, GoneOn
        <5>4. Before(top.devices, Dev, o)
          BY <4>2, <5>3 DEF InOrder, Dev, IsSwitch, Switches
        <5> QED BY <5>4, OnlyOnce DEF LInv, RestInv
      <4> QED BY <1>1, <1>5, <4>1, <4>2 DEF NotShared
    <3> QED BY <1>1, <1>3, <1>4, <1>5, <3>1, OwnersGrow DEF LInv, MapInv, SInv
  <2>11. Building'
    BY <2>5, <2>7, <2>9 DEF Building
  <2> QED BY <1>1, <2>1, <2>5, <2>10, <2>11, GoKeeps
<1> QED BY <1>7, <1>8

LEMMA StartOVS_SInv ==
    ASSUME LInv, SInv, StartOVS
    PROVE  SInv'
<1>0. PICK dev, net : dev = Dev /\ net = SubnetOf(Dev)
  OBVIOUS
<1> DEFINE s == <<dev, dev>>
           new == net # None /\ s \notin DOMAIN networks
<1>1. /\ dev = Dev /\ Dev \in Devices /\ todo # <<>> /\ Kind[Dev] = "OVS" /\ IsSwitch(Dev)
      /\ phase = "create" /\ top' = top
  BY <1>0 DEF StartOVS, Creating, Step, IsSwitch, Switches
<1>2. UNCHANGED <<taps, screens>>
  BY DEF StartOVS
<1>3. PICK bad \in Bad :
         /\ networks' = IF new THEN With(networks, s, net) ELSE networks
         /\ Script(Dev, {<<"net", s>>}, net # None)
         /\ IF new /\ ~bad
            THEN /\ Go /\ UNCHANGED <<nameMap, tapNames>>
                 /\ subnetMap' = With(subnetMap, net, s)
            ELSE Abort
  BY <1>0, Zenon DEF StartOVS
<1>4. new \in BOOLEAN /\ (new => s \notin DOMAIN networks) /\ (new => (net # None) = TRUE)
  OBVIOUS
<1>5. s \in Names /\ s[1] = Dev /\ s[2] = Dev
  BY <1>1 DEF Names
<1>6. new => OwnedBy(s, net) /\ NotShared(s, net) /\ OneWay(s)
  BY <1>0, <1>1, <1>5 DEF OwnedBy, OneWay, NotShared
<1>7. OwnerInv'
  <2> HIDE DEF s, new
  <2> QED BY <1>1, <1>3, <1>4, <1>5, <1>6, OwnersGrow DEF LInv, MapInv, SInv
<1> HIDE DEF s, new
<1>8. CASE ~(new /\ ~bad)
  <2>1. Abort
    BY <1>3, <1>8, Zenon
  <2>2. NumberInv'
    BY <1>1, <1>2, SamePlanItems DEF SInv, NumberInv
  <2>3. ScreenInv'
    BY <1>2 DEF SInv, ScreenInv
  <2> QED BY <1>7, <2>1, <2>2, <2>3, AbortKeeps
<1>9. CASE new /\ ~bad
  <2>1. /\ Go /\ UNCHANGED tapNames
        /\ subnetMap' = With(subnetMap, net, s)
        /\ Script(Dev, {<<"net", s>>}, TRUE)
    BY <1>3, <1>4, <1>9, Zenon
  <2>2. Going
    BY <1>1, <2>1 DEF Going
  <2>3. Rescripted
    BY <1>1, <2>1, Zenon DEF Rescripted, Switches
  <2>4. ~IsIface(todo[1])
    BY <1>1, NoIface
  <2>5. TapCount' /\ TapCover' /\ NumberInv' /\ ScreenInv' /\ Fresh' /\ Ordered(todo)'
    BY <1>2, <2>1, <2>2, <2>3, <2>4, BridgeTaps
  <2>6. DOMAIN subnetMap' = DOMAIN subnetMap \cup {net}
    BY <2>1 DEF With
  <2>7. BridgeInv'
    BY <1>0, <1>1, <2>2, <2>6, StillBridged
  <2>8. Undone(<<"net", s>>)'
    BY <1>1, <2>1, ScriptUndoes DEF Switches
  <2>9. CoverInv'
    <3>1. \A n \in DOMAIN networks : ~Makes(todo[1], n)
      <4>1. ASSUME NEW n \in DOMAIN networks, Makes(todo[1], n) PROVE n = s
        <5>1. n = <<n[1], n[2]>> /\ OwnedBy(n, networks[n])
          BY DEF LInv, MapInv, NetInv, Known, Names, SInv, OwnerInv
        <5>2. n[1] = Dev /\ n[2] = Dev
          BY <1>1, <4>1, <5>1 DEF Makes, OwnedBy, Dev
        <5> QED BY <1>0, <5>1, <5>2 DEF s
      <4> QED BY <1>4, <1>9, <4>1
    <3>2. ASSUME NEW n \in DOMAIN networks, Ahead(n), Kind[n[1]] # "OVS"
          PROVE  networks[n] \notin DOMAIN subnetMap'
      <4>1. networks[n] \notin DOMAIN subnetMap
        BY <3>2 DEF Ahead
      <4>2. ASSUME networks[n] = net PROVE FALSE
        <5>1. IsSwitch(n[1]) /\ ~Before(top.devices, Dev, n[1])
          BY <1>0, <1>1, <3>2, <4>2 DEF SInv, OwnerInv, NotShared
        <5>2. PICK x \in Range(todo) : Makes(x, n)
          BY <3>2 DEF Ahead
        <5>3. x[1] = n[1] /\ n[1] # Dev /\ n[1] \in Devices
          BY <1>1, <3>2, <5>2 DEF Makes, LInv, MapInv, NetInv, Known, Names
        <5>4. InOrder(todo[1], x)
          BY <2>2, <5>3, GoneOn DEF Dev
        <5>5. Before(top.devices, Dev, n[1])
          BY <5>1, <5>3, <5>4 DEF InOrder, Dev
        <5> QED BY <5>1, <5>5
      <4> QED BY <2>6, <4>1, <4>2
    <3> QED BY <1>3, <1>4, <2>2, <2>3, <2>8, <3>1, <3>2, StillCovered
  <2>10. Building'
    BY <2>5, <2>7, <2>9 DEF Building
  <2> QED BY <1>1, <1>7, <2>1, <2>5, <2>10, GoKeeps
<1> QED BY <1>8, <1>9
-----------------------------------------------------------------------------
(* An interface of a router.                                               *)
LEMMA RoomForTap ==
    ASSUME LInv, SInv, phase = "create", todo # <<>>, IsIface(todo[1])
    PROVE  /\ Len(tapNames) \in Nat /\ Len(TapItems(StartPlan)) \in Nat
           /\ Len(tapNames) + 1 <= Len(TapItems(StartPlan))
<1>1. Building
  BY DEF SInv, CreateInv
<1>2. todo \in Seq(Items)
  BY <1>1 DEF Building, Ordered
<1>3. /\ Len(TapItems(Tail(todo))) \in Nat
      /\ Len(TapItems(todo)) = 1 + Len(TapItems(Tail(todo)))
  BY <1>2, TapItemsTail
<1>4. Len(tapNames) \in Nat
  <2>1. tapNames \in Seq(Names)
    BY DEF LInv, TapsInv
  <2> QED BY <2>1
<1>5. Len(TapItems(StartPlan)) = Len(tapNames) + (1 + Len(TapItems(Tail(todo))))
  BY <1>1, <1>3 DEF Building, TapCount
<1> QED BY <1>3, <1>4, <1>5

LEMMA TapRange ==
    ASSUME TapsInv, NEW n \in Names
    PROVE  /\ n \in Range(tapNames) => TapOf(n) \in DOMAIN tapNames
           /\ n \notin Range(tapNames) =>
                 /\ TapsWith(n) = Append(tapNames, n)
                 /\ DOMAIN Append(tapNames, n) = DOMAIN tapNames \cup {TapOf(n)}
                 /\ Len(Append(tapNames, n)) = Len(tapNames) + 1
           /\ TapOf(n) \in 1..(Len(tapNames) + 1)
<1>1. /\ TapsWith(n) \in Seq(Names) /\ TapOf(n) \in DOMAIN TapsWith(n) /\ TapsWith(n)[TapOf(n)] = n
      /\ \A i \in DOMAIN TapsWith(n) : i # TapOf(n) => i \in DOMAIN tapNames
  BY TapNumber
<1>2. tapNames \in Seq(Names) /\ Len(tapNames) \in Nat /\ DOMAIN tapNames = 1..Len(tapNames)
  <2>1. tapNames \in Seq(Names)
    BY DEF TapsInv
  <2> QED BY <2>1
<1>3. CASE n \in Range(tapNames)
  <2>1. TapsWith(n) = tapNames
    BY <1>3 DEF TapsWith
  <2>2. TapOf(n) \in DOMAIN tapNames
    BY <1>1, <2>1, Zenon
  <2>3. TapOf(n) \in 1..(Len(tapNames) + 1)
    BY <1>2, <2>2
  <2> QED BY <1>3, <2>2, <2>3
<1>4. CASE n \notin Range(tapNames)
  <2>1. TapsWith(n) = Append(tapNames, n)
    BY <1>4 DEF TapsWith
  <2>2. /\ DOMAIN Append(tapNames, n) = 1..(Len(tapNames) + 1)
        /\ Len(Append(tapNames, n)) = Len(tapNames) + 1
    BY <1>2
  <2>3. TapOf(n) \notin DOMAIN tapNames
    <3>1. ASSUME TapOf(n) \in DOMAIN tapNames PROVE FALSE
      <4>1. tapNames[TapOf(n)] = n
        BY <1>1, <1>2, <2>1, <3>1
      <4> QED BY <1>4, <3>1, <4>1 DEF Range
    <3> QED BY <3>1
  <2>4. DOMAIN Append(tapNames, n) = DOMAIN tapNames \cup {TapOf(n)}
    BY <1>1, <1>2, <2>1, <2>2, <2>3
  <2> QED BY <1>1, <1>4, <2>1, <2>2, <2>4
<1> QED BY <1>3, <1>4

LEMMA RouterUndoes ==
    ASSUME NEW r, NEW undo, Script(r, undo, FALSE), Kind[r] = "Router", top' = top,
           <<r, Len(Ifaces(r)) + 1>> \in Range(todo')
    PROVE  \A u \in undo : Undone(u)'
<1>1. scripts' = With(scripts, r, [undo |-> undo, runs |-> FALSE])
  BY DEF Script
<1>2. r \in DOMAIN scripts' /\ scripts'[r] = [undo |-> undo, runs |-> FALSE]
  BY <1>1 DEF With
<1>3. Ifaces(r)' = Ifaces(r)
  BY SameTop
<1> QED BY <1>2, <1>3 DEF Undone, UndoneBy

(* The step for interface k of router r, j, in terms of what it makes.     *)
InterfaceStep(r, k, j, name, tap, undo, new, added, ok) ==
    /\ networks' = IF new THEN With(networks, name, j.net) ELSE networks
    /\ new => /\ name = <<r, j.to>> /\ ~IsSwitch(j.to) /\ <<j.to, r>> \notin DOMAIN networks
              /\ j.net \notin DOMAIN subnetMap /\ Free(name, j.net)
    /\ tap = TapOf(<<r, j.to>>)
    /\ taps' = IF added THEN With(taps, tap, IF ok THEN name ELSE None) ELSE taps
    /\ (ok => added) /\ (added => tap \notin DOMAIN taps)
    /\ Script(r, undo, FALSE)
    /\ k # 1 => scripts[r].undo \subseteq undo
    /\ ok => /\ <<"tap", tap>> \in undo
             /\ new => <<"net", name>> \in undo
             /\ /\ ~IsSwitch(j.to) /\ <<j.to, r>> \notin DOMAIN networks
                /\ <<r, j.to>> \in DOMAIN networks /\ j.net \notin DOMAIN subnetMap
                => <<"net", <<r, j.to>>>> \in undo
             /\ Go /\ tapNames' = TapsWith(<<r, j.to>>)
             /\ subnetMap' = IF new THEN With(subnetMap, j.net, name) ELSE subnetMap
    /\ ~ok => Abort

LEMMA InterfaceStepped ==
    ASSUME LInv, StartInterface
    PROVE  \E name, tap, undo : \E new, added, ok \in BOOLEAN :
              InterfaceStep(Dev, todo[1][2], Ifaces(Dev)[todo[1][2]], name, tap, undo, new, added, ok)
<1> DEFINE r == Dev
           k == todo[1][2]
           t == Ifaces(r)[k].to
           net == Ifaces(r)[k].net
           own == ~IsSwitch(t) /\ HiddenName(t, r) \notin DOMAIN networks
           shared == own /\ net \in DOMAIN subnetMap
           name == CASE shared -> subnetMap[net] [] own /\ ~shared -> HiddenName(r, t)
                     [] ~own /\ IsSwitch(t) -> <<t, t>> [] OTHER -> HiddenName(t, r)
           taps1 == IF <<r, t>> \in Range(tapNames) THEN tapNames ELSE Append(tapNames, <<r, t>>)
           tap == CHOOSE i \in DOMAIN taps1 : taps1[i] = <<r, t>>
           before == IF k = 1 THEN {} ELSE scripts[r].undo
           new(bad, at) == own /\ Free(name, net) /\ ~(bad /\ at = "network")
           there(bad, at) == new(bad, at) \/ name \in DOMAIN networks
           added(bad, at) == tap \notin DOMAIN taps /\ ~(bad /\ at = "tap")
           ok(bad, at) == added(bad, at) /\ there(bad, at) /\ ~(bad /\ at = "plug")
           undo(bad, at) == before \cup {<<"net", n>> : n \in {x \in {name} : own /\ ~shared /\ there(bad, at)}}
                                   \cup {<<"tap", i>> : i \in {x \in {tap} : ok(bad, at)}}
<1>1. PICK bad \in Bad, at \in {"network", "tap", "plug"} :
         /\ networks' = IF new(bad, at) THEN With(networks, name, net) ELSE networks
         /\ taps' = IF added(bad, at) THEN With(taps, tap, IF ok(bad, at) THEN name ELSE None) ELSE taps
         /\ Script(r, undo(bad, at), FALSE)
         /\ IF ok(bad, at)
            THEN /\ Go /\ tapNames' = taps1
                 /\ subnetMap' = IF new(bad, at) THEN With(subnetMap, net, name) ELSE subnetMap
            ELSE Abort
  BY ZenonT(120) DEF StartInterface
<1>2. /\ shared => net \in DOMAIN subnetMap /\ name = subnetMap[net]
      /\ own /\ ~shared => name = <<r, t>>
      /\ own <=> ~IsSwitch(t) /\ <<t, r>> \notin DOMAIN networks
      /\ shared <=> own /\ net \in DOMAIN subnetMap
  BY DEF HiddenName
<1>3. taps1 = TapsWith(<<r, t>>) /\ tap = TapOf(<<r, t>>)
  BY Zenon DEF TapsWith, TapOf
<1>4. /\ k # 1 => scripts[r].undo \subseteq undo(bad, at)
      /\ own /\ ~shared /\ there(bad, at) => <<"net", name>> \in undo(bad, at)
      /\ ok(bad, at) => <<"tap", tap>> \in undo(bad, at)
  <2> HIDE DEF own, shared, name, taps1, tap, there, ok
  <2> QED OBVIOUS
<1>5. /\ new(bad, at) => own /\ Free(name, net)
      /\ there(bad, at) <=> new(bad, at) \/ name \in DOMAIN networks
      /\ ok(bad, at) => added(bad, at) /\ there(bad, at)
      /\ added(bad, at) => tap \notin DOMAIN taps
      /\ new(bad, at) \in BOOLEAN /\ added(bad, at) \in BOOLEAN /\ ok(bad, at) \in BOOLEAN
  OBVIOUS
<1> DEFINE j == Ifaces(r)[k]
<1>6. j.to = t /\ j.net = net
  OBVIOUS
<1> HIDE DEF own, shared, name, taps1, tap, before, new, there, added, ok, undo, j, t, net, k, r
<1>7. shared => name \in DOMAIN networks
  BY <1>2 DEF LInv, MapInv, SubnetInv
<1>8. new(bad, at) => own /\ ~shared /\ name = <<r, t>> /\ Free(name, net)
  BY <1>2, <1>5, <1>7 DEF Free
<1>9. InterfaceStep(r, k, j, name, tap, undo(bad, at), new(bad, at), added(bad, at), ok(bad, at))
  <2>1. new(bad, at) => /\ name = <<r, j.to>> /\ ~IsSwitch(j.to) /\ <<j.to, r>> \notin DOMAIN networks
                        /\ j.net \notin DOMAIN subnetMap /\ Free(name, j.net)
    BY <1>2, <1>6, <1>8
  <2>2. tap = TapOf(<<r, j.to>>)
    BY <1>3, <1>6
  <2>3. ok(bad, at) /\ new(bad, at) => <<"net", name>> \in undo(bad, at)
    BY <1>4, <1>5, <1>8
  <2>4. ASSUME ok(bad, at), ~IsSwitch(j.to), <<j.to, r>> \notin DOMAIN networks,
               <<r, j.to>> \in DOMAIN networks, j.net \notin DOMAIN subnetMap
        PROVE  <<"net", <<r, j.to>>>> \in undo(bad, at)
    <3>1. own /\ ~shared /\ name = <<r, t>>
      BY <1>2, <1>6, <2>4
    <3> QED BY <1>4, <1>5, <1>6, <2>4, <3>1
  <2>5. /\ networks' = IF new(bad, at) THEN With(networks, name, j.net) ELSE networks
        /\ taps' = IF added(bad, at) THEN With(taps, tap, IF ok(bad, at) THEN name ELSE None) ELSE taps
        /\ Script(r, undo(bad, at), FALSE)
    BY <1>1, <1>6
  <2>6. ok(bad, at) => /\ Go /\ tapNames' = TapsWith(<<r, j.to>>)
                       /\ subnetMap' = IF new(bad, at) THEN With(subnetMap, j.net, name) ELSE subnetMap
    <3>1. TapsWith(<<r, j.to>>) = taps1
      BY <1>3, <1>6
    <3> QED BY <1>1, <1>6, <3>1
  <2>7. ~ok(bad, at) => Abort
    BY <1>1
  <2> QED BY <1>4, <1>5, <2>1, <2>2, <2>3, <2>4, <2>5, <2>6, <2>7, Zenon DEF InterfaceStep
<1> QED
  BY <1>5, <1>9, Zenon DEF j, k, r

LEMMA HeadFirst ==
    ASSUME Building, todo # <<>>, NEW x \in Range(todo), x # todo[1]
    PROVE  InOrder(todo[1], x)
<1>1. todo \in Seq(Items)
  BY DEF Building, Ordered
<1> HIDE DEF Items
<1>2. /\ Range(todo) = {todo[1]} \cup Range(Tail(todo))
      /\ \A y \in Range(Tail(todo)) : Before(todo, todo[1], y)
  BY <1>1, TailOrder
<1> QED BY <1>2 DEF Building, Ordered

LEMMA StartInterface_SInv ==
    ASSUME LInv, SInv, StartInterface
    PROVE  SInv'
<1>0. PICK r, k, j : r = Dev /\ k = todo[1][2] /\ j = Ifaces(r)[k]
  OBVIOUS
<1>1. PICK name, tap, undo :
         \E new, added, ok \in BOOLEAN :
            InterfaceStep(Dev, todo[1][2], Ifaces(Dev)[todo[1][2]], name, tap, undo, new, added, ok)
  BY InterfaceStepped, Zenon
<1>2. PICK new \in BOOLEAN, added \in BOOLEAN, ok \in BOOLEAN :
         InterfaceStep(r, k, j, name, tap, undo, new, added, ok)
  <2>1. PICK new \in BOOLEAN, added \in BOOLEAN, ok \in BOOLEAN :
           InterfaceStep(Dev, todo[1][2], Ifaces(Dev)[todo[1][2]], name, tap, undo, new, added, ok)
    BY <1>1, Zenon
  <2>2. InterfaceStep(r, k, j, name, tap, undo, new, added, ok)
    BY <1>0, <2>1, ZenonT(60) DEF InterfaceStep
  <2> QED BY <2>2
<1>3. /\ r \in Devices /\ todo # <<>> /\ Kind[r] = "Router" /\ phase = "create" /\ top' = top
      /\ k <= Len(Ifaces(r)) /\ UNCHANGED screens
  BY <1>0, ZenonT(60) DEF StartInterface, Creating, Step
<1>4. top \in Topologies /\ r \in HasIfaces(top)
  BY <1>3, TopFacts DEF LInv, RestInv
<1>5. /\ Building /\ todo[1] \in Items /\ todo[1] = <<r, k>> /\ k \in Nat \ {0} /\ todo[1] \in Range(todo)
  <2>1. Building
    BY <1>3 DEF SInv, CreateInv
  <2>2. todo[1] \in Items /\ todo[1] \in Range(todo)
    <3>1. todo \in Seq(Items) /\ todo # <<>>
      BY <1>3, <2>1 DEF Building, Ordered
    <3> HIDE DEF Items
    <3> QED BY <3>1 DEF Range
  <2> QED BY <1>0, <2>1, <2>2 DEF Items, Dev
<1>6. k \in DOMAIN Ifaces(r) /\ Len(Ifaces(r)) \in Nat /\ k \in 1..Len(Ifaces(r))
  <2>1. Ifaces(r) \in Seq([to : Devices, net : Nets])
    BY <1>4, TopFacts
  <2> QED BY <1>3, <1>5, <2>1
<1>7. j \in Range(Ifaces(r)) /\ j.to \in Devices /\ j.to # r
  BY <1>0, <1>4, <1>6, Interfaces, Linked
<1>8. IsIface(todo[1]) /\ <<r, j.to>> \in Names
  BY <1>3, <1>5, <1>7 DEF IsIface, Names
<1>9. OwnerInv'
  <2>1. ASSUME new
        PROVE  name \in Names /\ OwnedBy(name, j.net) /\ NotShared(name, j.net) /\ OneWay(name)
    <3>1. /\ name = <<r, j.to>> /\ ~IsSwitch(j.to) /\ <<j.to, r>> \notin DOMAIN networks
          /\ j.net \notin DOMAIN subnetMap
      BY <1>2, <2>1, Zenon DEF InterfaceStep
    <3>2. name[1] = r /\ name[2] = j.to /\ ~IsSwitch(r)
      BY <1>3, <3>1 DEF IsSwitch, Switches
    <3>3. OwnedBy(name, j.net)
      BY <1>0, <1>3, <1>6, <1>7, <3>1, <3>2 DEF OwnedBy
    <3>4. ASSUME NEW o \in Devices, Kind[o] = "OVS", SubnetOf(o) = j.net PROVE FALSE
      <4>1. <<o, 1>> \in Range(todo)
        BY <1>5, <3>1, <3>4 DEF Building, BridgeInv
      <4>2. InOrder(todo[1], <<o, 1>>)
        BY <1>3, <1>5, <3>4, <4>1, HeadFirst
      <4>3. IsSwitch(r)
        BY <1>5, <3>4, <4>2 DEF InOrder, IsSwitch, Switches
      <4> QED BY <3>2, <4>3
    <3>5. NotShared(name, j.net)
      BY <3>4 DEF NotShared
    <3>6. OneWay(name)
      BY <3>1, <3>2 DEF OneWay
    <3> QED BY <1>8, <3>1, <3>3, <3>5, <3>6
  <2>2. networks' = IF new THEN With(networks, name, j.net) ELSE networks
    BY <1>2, Zenon DEF InterfaceStep
  <2> QED BY <1>2, <1>3, <2>1, <2>2, OwnersGrow DEF LInv, MapInv, SInv
<1>10. tap \in 1..(Len(tapNames) + 1) /\ tap = TapOf(<<r, j.to>>)
  <2>1. TapsInv
    BY DEF LInv
  <2>2. tap = TapOf(<<r, j.to>>)
    BY <1>2, Zenon DEF InterfaceStep
  <2> QED BY <1>8, <2>1, <2>2, TapRange
<1>11. NumberInv'
  <2>1. tap \in 1..Len(TapItems(StartPlan))
    BY <1>3, <1>8, <1>10, RoomForTap
  <2>2. DOMAIN taps' \subseteq DOMAIN taps \cup {tap}
    <3>1. taps' = IF added THEN With(taps, tap, IF ok THEN name ELSE None) ELSE taps
      BY <1>2, Zenon DEF InterfaceStep
    <3> DEFINE v == IF ok THEN name ELSE None
    <3>2. taps' = With(taps, tap, v) \/ taps' = taps
      BY <3>1, Zenon
    <3> HIDE DEF v
    <3> QED BY <3>2 DEF With
  <2>3. Len(TapItems(StartPlan))' = Len(TapItems(StartPlan))
    BY <1>3, SamePlanItems
  <2> QED BY <2>1, <2>2, <2>3 DEF NumberInv, SInv
<1>12. ScreenInv'
  BY <1>3 DEF SInv, ScreenInv
<1>13. CASE ~ok
  <2>1. Abort
    BY <1>2, <1>13 DEF InterfaceStep
  <2> QED BY <1>9, <1>11, <1>12, <2>1, AbortKeeps
<1>14. CASE ok
  <2>1. /\ Go /\ tapNames' = TapsWith(<<r, j.to>>)
        /\ subnetMap' = IF new THEN With(subnetMap, j.net, name) ELSE subnetMap
        /\ <<"tap", tap>> \in undo /\ added
        /\ Script(r, undo, FALSE)
        /\ k # 1 => scripts[r].undo \subseteq undo
        /\ networks' = IF new THEN With(networks, name, j.net) ELSE networks
        /\ tap \notin DOMAIN taps /\ taps' = With(taps, tap, name)
    BY <1>2, <1>14, Zenon DEF InterfaceStep
  <2>2. /\ new => /\ name = <<r, j.to>> /\ j.net \notin DOMAIN subnetMap /\ Free(name, j.net)
                  /\ <<"net", name>> \in undo
        /\ /\ ~IsSwitch(j.to) /\ <<j.to, r>> \notin DOMAIN networks
           /\ <<r, j.to>> \in DOMAIN networks /\ j.net \notin DOMAIN subnetMap
           => <<"net", <<r, j.to>>>> \in undo
    BY <1>2, <1>14, Zenon DEF InterfaceStep
  <2>3. Going
    BY <1>0, <1>3, <2>1 DEF Going
  <2>4. <<r, Len(Ifaces(r)) + 1>> \in Range(todo')
    <3>1. <<r, Len(Ifaces(r)) + 1>> \in Range(todo)
      BY <1>3, <1>5, <1>6 DEF Building, Ordered
    <3>2. <<r, Len(Ifaces(r)) + 1>> # todo[1]
      BY <1>5, <1>6
    <3> QED BY <2>3, <3>1, <3>2, GoneOn
  <2>5. Rescripted
    <3>1. Script(Dev, undo, FALSE) /\ <<Dev, Len(Ifaces(Dev)) + 1>> \in Range(todo')
      BY <1>0, <2>1, <2>4, Zenon DEF Script
    <3>2. todo[1][2] # 1 => scripts[Dev].undo \subseteq undo
      BY <1>0, <2>1
    <3>3. Kind[Dev] \in Switches \cup {"Router", "Mach"}
      BY <1>0, <1>3
    <3> QED BY <3>1, <3>2, <3>3, Zenon DEF Rescripted
  <2>6. \A u \in undo : Undone(u)'
    BY <1>3, <2>1, <2>4, RouterUndoes
  <2>7. Ordered(todo)' /\ Fresh'
    BY <2>3, <2>5, GoneOn, StillFresh
  <2>8. DOMAIN subnetMap' = DOMAIN subnetMap \cup (IF new THEN {j.net} ELSE {})
    <3>1. CASE new
      <4>1. subnetMap' = With(subnetMap, j.net, name)
        BY <2>1, <3>1
      <4> QED BY <3>1, <4>1 DEF With
    <3> QED BY <2>1, <3>1
  <2>9. BridgeInv'
    BY <1>0, <1>3, <2>3, <2>8, StillBridged
  <2>10. CoverInv'
    <3>1. new => name \notin DOMAIN networks /\ Undone(<<"net", name>>)'
      BY <2>2, <2>6 DEF Free
    <3>2. ASSUME NEW n \in DOMAIN networks, Ahead(n), Makes(todo[1], n)
          PROVE  Undone(<<"net", n>>)'
      <4>1. n = <<n[1], n[2]>> /\ OwnedBy(n, networks[n]) /\ OneWay(n)
        BY DEF LInv, MapInv, NetInv, Known, Names, SInv, OwnerInv
      <4>2. n[1] = r /\ ~IsSwitch(n[1])
        BY <1>3, <1>5, <3>2 DEF Makes, IsSwitch, Switches
      <4>3. n[2] = j.to
        BY <1>0, <1>5, <3>2, <4>2 DEF Makes
      <4>4. ~IsSwitch(j.to) /\ <<j.to, r>> \notin DOMAIN networks /\ <<r, j.to>> \in DOMAIN networks
        BY <4>1, <4>2, <4>3 DEF OwnedBy, OneWay
      <4>5. networks[n] = j.net
        BY <1>3, <1>7, <4>1, <4>2, <4>3, InterfaceNet
      <4>6. j.net \notin DOMAIN subnetMap
        BY <1>3, <3>2, <4>2, <4>5 DEF Ahead
      <4>7. <<"net", <<r, j.to>>>> \in undo
        BY <2>2, <4>4, <4>6
      <4> QED BY <2>6, <4>1, <4>2, <4>3, <4>7
    <3>3. ASSUME NEW n \in DOMAIN networks, Ahead(n), Kind[n[1]] # "OVS"
          PROVE  networks[n] \notin DOMAIN subnetMap'
      <4>1. networks[n] \notin DOMAIN subnetMap
        BY <3>3 DEF Ahead
      <4>2. CASE new
        <5>1. n \in Docker
          BY <3>3 DEF Docker, SInv, OwnerInv, OwnedBy, IsSwitch, Switches
        <5> QED BY <2>2, <2>8, <4>1, <4>2, <5>1 DEF Free
      <4> QED BY <2>8, <4>1, <4>2
    <3> QED BY <1>2, <2>1, <2>3, <2>5, <3>1, <3>2, <3>3, StillCovered
  <2>11. <<r, j.to>> \notin Range(tapNames)
    <3>1. ASSUME <<r, j.to>> \in Range(tapNames) PROVE FALSE
      <4>1. tap \in DOMAIN tapNames
        BY <1>8, <1>10, <3>1, TapRange DEF LInv
      <4>2. tap \in DOMAIN taps
        BY <1>5, <4>1 DEF Building, TapCover
      <4> QED BY <2>1, <4>2
    <3> QED BY <3>1
  <2>12. Len(tapNames') = Len(tapNames) + 1 /\ DOMAIN tapNames' = DOMAIN tapNames \cup {tap}
    <3>1. tapNames' = Append(tapNames, <<r, j.to>>)
      BY <1>8, <2>1, <2>11, TapRange DEF LInv
    <3>2. /\ Len(Append(tapNames, <<r, j.to>>)) = Len(tapNames) + 1
          /\ DOMAIN Append(tapNames, <<r, j.to>>) = DOMAIN tapNames \cup {tap}
      BY <1>8, <1>10, <2>11, TapRange DEF LInv
    <3> QED BY <3>1, <3>2
  <2>13. TapCount'
    BY <1>8, <2>3, <2>12, ItemsLeft DEF TapCount
  <2>14. TapCover'
    <3>1. DOMAIN taps' = DOMAIN taps \cup {tap}
      BY <2>1 DEF With
    <3>2. \A i \in DOMAIN tapNames : Undone(<<"tap", i>>)'
      BY <1>5, <2>3, <2>5, UndoneKept DEF Building, TapCover
    <3>3. Undone(<<"tap", tap>>)'
      BY <2>1, <2>6
    <3> QED BY <1>5, <2>12, <3>1, <3>2, <3>3 DEF Building, TapCover
  <2>15. Building'
    BY <2>7, <2>9, <2>10, <2>13, <2>14 DEF Building
  <2> QED BY <1>3, <1>9, <1>11, <1>12, <2>1, <2>15, GoKeeps
<1> QED BY <1>13, <1>14
-----------------------------------------------------------------------------
(* The processes, and destroy_GINI.                                        *)
LEMMA Init_SInv == Init => SInv
<1> SUFFICES ASSUME Init PROVE SInv
  OBVIOUS
<1>1. DOMAIN networks = {} /\ DOMAIN taps = {} /\ screens = {} /\ phase = "idle" /\ last = "none"
  BY EmptyDomain DEF Init
<1> QED BY <1>1 DEF SInv, OwnerInv, NumberInv, ScreenInv, CreateInv, CreatedInv, DestroyInv, DestroyedIsClean

(* A step that changes none of what there is.                              *)
LEMMA SameState ==
    ASSUME SInv, top' = top, UNCHANGED <<networks, taps, screens>>
    PROVE  OwnerInv' /\ NumberInv' /\ ScreenInv'
<1>1. OwnerInv'
  BY OwnersKept DEF SInv
<1>2. NumberInv'
  BY SamePlanItems DEF SInv, NumberInv
<1>3. ScreenInv'
  BY DEF SInv, ScreenInv
<1> QED BY <1>1, <1>2, <1>3

LEMMA Create_SInv ==
    ASSUME LInv, SInv, Create
    PROVE  SInv'
<1>1. /\ top' = top /\ UNCHANGED <<networks, taps, screens, subnetMap, nameMap, tapNames>>
      /\ phase = "idle" /\ phase' = "create" /\ todo' = StartPlan
      /\ scripts' = Restrict(scripts, {d \in DOMAIN scripts : Kind[d] = "Mach"})
  BY DEF Create, machine, maps
<1>2. subnetMap = <<>> /\ tapNames = <<>> /\ DOMAIN subnetMap = {} /\ DOMAIN tapNames = {}
  BY <1>1, EmptyDomain DEF LInv, PlanInv
<1>3. top \in Topologies
  BY DEF LInv, RestInv
<1>4. /\ Ordered(StartPlan)
      /\ \A d \in Devices : IsSwitch(d) => <<d, 1>> \in Range(StartPlan)
      /\ \A r \in Devices : Kind[r] = "Router" =>
           \A k \in 1..(Len(Ifaces(r)) + 1) : <<r, k>> \in Range(StartPlan)
  BY <1>3, StartPlanOrder DEF IsSwitch
<1>5. Ordered(todo)'
  <2>1. Ordered(todo') <=> Ordered(StartPlan)
    BY <1>1
  <2>2. Ordered(todo)' <=> Ordered(todo')
    BY <1>1, SameTop, SamePlans, Zenon DEF Ordered
  <2> QED BY <1>4, <2>1, <2>2
<1>6. Fresh'
  <2>1. \A d \in DOMAIN scripts' : Kind[d] = "Mach"
    BY <1>1 DEF Restrict
  <2> QED BY <2>1 DEF Fresh
<1>7. BridgeInv'
  <2>1. \A o \in Devices : Kind[o] = "OVS" => <<o, 1>> \in Range(todo')
    BY <1>1, <1>4 DEF IsSwitch, Switches
  <2> QED BY <1>1, <2>1, SameTop DEF BridgeInv
<1>8. CoverInv'
  <2>1. ASSUME NEW n \in DOMAIN networks PROVE \E x \in Range(todo') : Makes(x, n)
    <3>1. n[1] \in Devices /\ OwnedBy(n, networks[n])
      BY DEF LInv, MapInv, NetInv, Known, Names, SInv, OwnerInv
    <3>2. CASE IsSwitch(n[1])
      BY <1>1, <1>4, <3>1, <3>2 DEF Makes
    <3>3. CASE ~IsSwitch(n[1])
      <4>1. Kind[n[1]] = "Router" /\ \E k \in DOMAIN Ifaces(n[1]) : Ifaces(n[1])[k].to = n[2]
        BY <3>1, <3>3 DEF OwnedBy
      <4>2. PICK k \in DOMAIN Ifaces(n[1]) : Ifaces(n[1])[k].to = n[2]
        BY <4>1
      <4>3. k \in 1..(Len(Ifaces(n[1])) + 1) /\ k <= Len(Ifaces(n[1]))
        <5>1. Ifaces(n[1]) \in Seq([to : Devices, net : Nets])
          BY <1>3, <3>1, <4>1, TopFacts
        <5> QED BY <5>1
      <4>4. <<n[1], k>> \in Range(todo')
        BY <1>1, <1>4, <3>1, <4>1, <4>3
      <4>5. Makes(<<n[1], k>>, n)
        BY <3>1, <3>3, <4>1, <4>2, <4>3 DEF Makes, IsIface
      <4> QED BY <4>4, <4>5
    <3> QED BY <3>2, <3>3
  <2>2. \A x, n : Makes(x, n)' <=> Makes(x, n)
    BY <1>1, SameNames
  <2>3. ASSUME NEW n \in DOMAIN networks PROVE Ahead(n)'
    BY <1>1, <1>2, <2>1, <2>2 DEF Ahead
  <2> QED BY <1>1, <2>3 DEF CoverInv
<1>9. TapCount'
  <2>1. TapItems(todo)' = TapItems(StartPlan)
    <3>1. TapItems(todo)' = TapItems(todo')
      BY <1>1, SamePlans, SameTop, Zenon DEF TapItems
    <3> QED BY <1>1, <3>1
  <2>2. TapItems(StartPlan)' = TapItems(StartPlan)
    BY <1>1, SamePlanItems
  <2>3. Len(tapNames') = 0
    BY <1>1, <1>2
  <2>4. Len(TapItems(StartPlan)) \in Nat
    <3>1. StartPlan \in Seq(Items) /\ StartPlan # <<>>
      BY <1>3, StartPlanEnds DEF Ended
    <3>2. /\ Len(TapItems(Tail(StartPlan))) \in Nat
          /\ \/ Len(TapItems(StartPlan)) = 1 + Len(TapItems(Tail(StartPlan)))
             \/ Len(TapItems(StartPlan)) = Len(TapItems(Tail(StartPlan)))
      BY <3>1, TapItemsTail, Zenon
    <3> QED BY <3>2
  <2> QED BY <2>1, <2>2, <2>3, <2>4 DEF TapCount
<1>10. TapCover'
  BY <1>1, <1>2 DEF TapCover
<1>11. Building'
  BY <1>5, <1>6, <1>7, <1>8, <1>9, <1>10 DEF Building
<1>12. OwnerInv' /\ NumberInv' /\ ScreenInv'
  BY <1>1, SameState
<1> QED BY <1>1, <1>11, <1>12 DEF SInv, CreateInv, CreatedInv, DestroyInv, DestroyedIsClean

(* A step that changes nothing of this, or starts a container.             *)
LEMMA Untouched ==
    ASSUME SInv,
           UNCHANGED <<top, networks, taps, screens, scripts, subnetMap, nameMap, tapNames,
                       phase, todo, last, whole>>,
           DOMAIN starting # {} \/ UNCHANGED <<containers, starting>>
    PROVE  SInv'
<1>1. top' = top
  OBVIOUS
<1>2. OwnerInv' /\ NumberInv' /\ ScreenInv'
  BY SameState
<1>3. /\ \A d : Ifaces(d)' = Ifaces(d)
      /\ \A s : SubnetOf(s)' = SubnetOf(s)
      /\ \A s : Ordered(s)' <=> Ordered(s)
      /\ \A s : TapItems(s)' = TapItems(s)
      /\ \A x, n : Makes(x, n)' <=> Makes(x, n)
      /\ TapItems(StartPlan)' = TapItems(StartPlan)
      /\ Devices' = Devices /\ Items' = Items
  BY <1>1, SameTop, SamePlans, SameNames, SamePlanItems
<1>4. \A u : Undone(u)' <=> Undone(u)
  BY <1>3 DEF Undone, UndoneBy
<1>5. Building => Building'
  <2>1. Ordered(todo)' <=> Ordered(todo)
    BY <1>3, Zenon DEF Ordered
  <2>2. TapItems(todo)' = TapItems(todo)
    BY <1>3, Zenon DEF TapItems
  <2>3. Fresh' <=> Fresh
    BY DEF Fresh
  <2>4. BridgeInv' <=> BridgeInv
    BY <1>3 DEF BridgeInv
  <2>5. \A n : Ahead(n)' <=> Ahead(n)
    BY <1>3 DEF Ahead
  <2>6. CoverInv' <=> CoverInv
    BY <1>4, <2>5 DEF CoverInv
  <2>7. TapCount' <=> TapCount
    BY <1>3, <2>2 DEF TapCount
  <2>8. TapCover' <=> TapCover
    BY <1>4 DEF TapCover
  <2> QED BY <2>1, <2>3, <2>4, <2>6, <2>7, <2>8 DEF Building
<1>6. CreatedInv'
  BY <1>4 DEF SInv, CreatedInv
<1>7. DestroyInv'
  <2>1. CASE DOMAIN starting # {}
    BY <2>1 DEF SInv, DestroyInv, Leaving
  <2>2. CASE UNCHANGED <<containers, starting>>
    <3>1. todo \in Seq(Items) => todo' \in Seq(Items')
      BY <1>3
    <3>2. Leaving => Leaving'
      BY <2>2, <3>1 DEF Leaving, EndLast, Up, Undoes
    <3> QED BY <3>2 DEF SInv, DestroyInv
  <2> QED BY <2>1, <2>2
<1>8. DestroyedIsClean'
  BY DEF SInv, DestroyedIsClean, Clean
<1> QED BY <1>2, <1>5, <1>6, <1>7, <1>8 DEF SInv, CreateInv

LEMMA ContainerUp_SInv ==
    ASSUME SInv, NEW m \in Devices, ContainerUp(m)
    PROVE  SInv'
BY Untouched DEF ContainerUp, maps

LEMMA Stutter_SInv ==
    ASSUME SInv, UNCHANGED vars
    PROVE  SInv'
BY Untouched DEF vars, machine, maps

LEMMA Destroy_SInv ==
    ASSUME LInv, SInv, Destroy
    PROVE  SInv'
<1>1. /\ top' = top /\ UNCHANGED <<networks, taps, containers, starting, screens, scripts>>
      /\ phase = "idle" /\ phase' = "destroy" /\ todo' = StopPlan
      /\ whole' = (last = "created" /\ starting = <<>>)
  BY DEF Destroy, machine
<1>2. OwnerInv' /\ NumberInv' /\ ScreenInv'
  BY <1>1, SameState
<1>3. /\ StopPlan \in Seq(Items) /\ EndLast(StopPlan)
      /\ \A d \in Devices : Kind[d] \in Switches \cup {"Router", "Controller", "Mach", "Cloud"} =>
           <<d, 1>> \in Range(StopPlan)
      /\ <<"all", 1>> \in Range(StopPlan)
      /\ \A d \in Devices : Kind[d] \in Switches \cup {"Router"} =>
           Before(StopPlan, <<"all", 1>>, <<d, 1>>)
  BY StopPlanOrder DEF LInv, RestInv
<1>4. ASSUME whole' PROVE Leaving'
  <2>1. last = "created" /\ DOMAIN starting = {} /\ todo = <<>>
    BY <1>1, <1>4, EmptyDomain DEF LInv, PlanInv
  <2>2. /\ \A n \in DOMAIN networks : Undone(<<"net", n>>)
        /\ \A i \in DOMAIN taps : Undone(<<"tap", i>>)
    BY <1>1, <2>1 DEF SInv, CreatedInv
  <2>3. ASSUME NEW u, Undone(u)
        PROVE  \E d \in DOMAIN scripts :
                 /\ scripts[d].runs /\ u \in scripts[d].undo
                 /\ d \in Devices /\ Kind[d] \in Switches \cup {"Router"}
    <3>1. PICK d \in DOMAIN scripts : UndoneBy(d, u)
      BY <2>3 DEF Undone
    <3>2. <<d, Len(Ifaces(d)) + 1>> \notin Range(todo)
      BY <2>1, Empty
    <3>3. d \in Devices
      BY DEF LInv, RestInv
    <3> QED BY <3>1, <3>2, <3>3 DEF UndoneBy
  <2>4. \A u : Undone(u) => \E d \in DOMAIN scripts' :
           Undoes(d, u)' /\ Before(todo', <<"all", 1>>, <<d, 1>>)
    BY <1>1, <1>3, <2>3 DEF Undoes
  <2>5. \A d \in screens' : <<d, 1>> \in Range(todo')
    BY <1>1, <1>3 DEF SInv, ScreenInv, LInv, RestInv
  <2>6. todo' \in Seq(Items') /\ EndLast(todo')
    BY <1>1, <1>3, SameTop
  <2> QED BY <1>1, <1>3, <2>1, <2>2, <2>4, <2>5, <2>6 DEF Leaving, EndLast
<1> QED BY <1>1, <1>2, <1>4 DEF SInv, CreateInv, CreatedInv, DestroyInv, DestroyedIsClean

LEMMA End_SInv ==
    ASSUME LInv, SInv, End
    PROVE  SInv'
<1>1. /\ top' = top /\ UNCHANGED <<networks, taps, containers, starting, screens, scripts, whole>>
      /\ todo # <<>> /\ todo[1][1] = "end" /\ phase' = "idle" /\ todo' = <<>>
      /\ last' = "created" => phase = "create"
      /\ last' = "destroyed" => phase \notin {"create", "undo"}
  BY DEF End, machine, Dev
<1>2. OwnerInv' /\ NumberInv' /\ ScreenInv'
  BY <1>1, SameState
<1>3. "end" \notin Devices /\ "all" # "end" /\ DOMAIN scripts \subseteq Devices /\ screens \subseteq Devices
  BY TopFacts DEF LInv, RestInv
<1>4. ASSUME phase = "create", last' = "created" PROVE CreatedInv'
  <2>1. Building
    BY <1>4 DEF SInv, CreateInv
  <2>2. todo \in Seq(Items) /\ EndLast(todo)
    BY <2>1 DEF Building, Ordered, EndLast, InOrder
  <2>3. Range(todo) = {todo[1]} /\ Tail(todo) = <<>>
    BY <1>1, <2>2, EndIsAll
  <2>4. ASSUME NEW u, Undone(u) PROVE Undone(u)'
    <3>1. PICK d \in DOMAIN scripts : UndoneBy(d, u)
      BY <2>4 DEF Undone
    <3>2. <<d, Len(Ifaces(d)) + 1>> \notin Range(todo)
      BY <1>1, <1>3, <2>3
    <3> QED BY <1>1, <3>1, <3>2 DEF Undone, UndoneBy
  <2>5. ASSUME NEW n \in DOMAIN networks PROVE Undone(<<"net", n>>)'
    <3>1. n[1] \in Devices
      BY DEF LInv, MapInv, NetInv, Known, Names
    <3>2. ~Ahead(n)
      BY <1>1, <1>3, <2>3, <3>1 DEF Ahead, Makes
    <3> QED BY <2>1, <2>4, <3>2 DEF Building, CoverInv
  <2>6. ASSUME NEW i \in DOMAIN taps PROVE Undone(<<"tap", i>>)'
    <3>1. ~IsIface(todo[1])
      BY <1>1, <1>3 DEF IsIface
    <3>2. Len(TapItems(todo)) = 0
      <4>1. Len(TapItems(todo)) = Len(TapItems(<<>>))
        BY <1>1, <2>2, <2>3, <3>1, TapItemsTail
      <4>2. Len(TapItems(<<>>)) = 0
        BY NoTapItems
      <4> QED BY <4>1, <4>2
    <3>3. tapNames \in Seq(Names)
      BY DEF LInv, TapsInv
    <3>4. DOMAIN tapNames = 1..Len(TapItems(StartPlan))
      <4>1. Len(tapNames) \in Nat /\ DOMAIN tapNames = 1..Len(tapNames)
        BY <3>3
      <4> QED BY <2>1, <3>2, <4>1 DEF Building, TapCount
    <3>5. i \in DOMAIN tapNames
      BY <3>4 DEF SInv, NumberInv
    <3> QED BY <2>1, <2>4, <3>5 DEF Building, TapCover
  <2> QED BY <1>1, <2>5, <2>6 DEF CreatedInv
<1>5. ASSUME whole', last' = "destroyed" PROVE Clean'
  <2>1. phase = "destroy" /\ Leaving
    BY <1>1, <1>5 DEF LInv, PlanInv, SInv, DestroyInv
  <2>2. Range(todo) = {todo[1]}
    BY <1>1, <2>1, EndIsAll DEF Leaving
  <2>3. \A d \in Devices \cup {"all"} : <<d, 1>> \notin Range(todo)
    BY <1>1, <1>3, <2>2
  <2>4. DOMAIN networks = {} /\ DOMAIN taps = {} /\ DOMAIN containers = {} /\ screens = {}
    BY <1>3, <2>1, <2>3 DEF Leaving, Undoes, Up
  <2> QED BY <1>1, <2>1, <2>4 DEF Clean, Leaving
<1> QED BY <1>1, <1>2, <1>4, <1>5 DEF SInv, CreateInv, CreatedInv, DestroyInv, DestroyedIsClean

(* A step of destroy_GINI: what is left of it.                             *)
LEMMA StopGoesOn ==
    ASSUME LInv, SInv, phase \in {"undo", "destroy"}, todo # <<>>, todo' = Tail(todo), top' = top,
           Dev # "end",
           UNCHANGED <<starting, scripts, phase, last, whole>>, screens' \subseteq screens \ {Dev},
           DOMAIN networks' \subseteq DOMAIN networks,
           \A n \in DOMAIN networks' : networks'[n] = networks[n],
           DOMAIN taps' \subseteq DOMAIN taps,
           Up' => Up /\ Dev # "all",
           \A n \in DOMAIN networks' : \A d \in DOMAIN scripts :
              Undoes(d, <<"net", n>>) /\ Dev = d => Up,
           \A i \in DOMAIN taps' : \A d \in DOMAIN scripts : Undoes(d, <<"tap", i>>) => Dev # d
    PROVE  SInv'
<1>1. OwnerInv'
  BY OwnersKept DEF SInv
<1>2. NumberInv'
  BY SamePlanItems DEF SInv, NumberInv
<1>3. ScreenInv'
  BY DEF SInv, ScreenInv
<1>4. ASSUME phase = "destroy", whole PROVE Leaving'
  <2>1. Leaving
    BY <1>4 DEF SInv, DestroyInv
  <2>2. /\ Range(todo) = {todo[1]} \cup Range(todo')
        /\ \A x, y : Before(todo, x, y) <=> Before(todo', x, y) \/ (x = todo[1] /\ y \in Range(todo'))
    BY <2>1, TailOrder DEF Leaving
  <2>3. \A x \in Range(todo) : x[1] # Dev => x \in Range(todo')
    BY <2>2 DEF Dev
  <2>4. ASSUME NEW x, NEW y, Before(todo, x, y)
        PROVE  y \in Range(todo') /\ (x[1] # Dev => Before(todo', x, y))
    <3>1. CASE Before(todo', x, y)
      BY <3>1 DEF Before, Range
    <3>2. CASE x = todo[1] /\ y \in Range(todo')
      BY <3>2 DEF Dev
    <3> QED BY <2>2, <2>4, <3>1, <3>2
  <2>5. todo' \in Seq(Items') /\ EndLast(todo')
    <3>1. todo' \in Seq(Items)
      <4> HIDE DEF Items
      <4> QED BY <2>1 DEF Leaving
    <3>2. EndLast(todo')
      BY <2>1, <2>2 DEF Leaving, EndLast
    <3> QED BY <3>1, <3>2, SameTop
  <2>6. Up' => <<"all", 1>> \in Range(todo')
    BY <2>1, <2>3 DEF Leaving
  <2>7. ASSUME NEW n \in DOMAIN networks'
        PROVE  \E d \in DOMAIN scripts' :
                  /\ Undoes(d, <<"net", n>>)'
                  /\ Up' => Before(todo', <<"all", 1>>, <<d, 1>>)
    <3>1. PICK d \in DOMAIN scripts :
             Undoes(d, <<"net", n>>) /\ (Up => Before(todo, <<"all", 1>>, <<d, 1>>))
      BY <2>1, <2>7 DEF Leaving
    <3>2. <<d, 1>> \in Range(todo')
      <4>1. CASE Dev = d
        BY <2>4, <2>7, <3>1, <4>1
      <4>2. CASE Dev # d
        BY <2>3, <3>1, <4>2 DEF Undoes
      <4> QED BY <4>1, <4>2
    <3>3. Undoes(d, <<"net", n>>)'
      BY <3>1, <3>2 DEF Undoes
    <3>4. Up' => Before(todo', <<"all", 1>>, <<d, 1>>)
      BY <2>4, <3>1
    <3> QED BY <3>3, <3>4
  <2>8. ASSUME NEW i \in DOMAIN taps'
        PROVE  \E d \in DOMAIN scripts' : Undoes(d, <<"tap", i>>)'
    <3>1. PICK d \in DOMAIN scripts : Undoes(d, <<"tap", i>>)
      BY <2>1, <2>8 DEF Leaving
    <3>2. <<d, 1>> \in Range(todo')
      BY <2>3, <2>8, <3>1 DEF Undoes
    <3> QED BY <3>1, <3>2 DEF Undoes
  <2>9. \A d \in screens' : <<d, 1>> \in Range(todo')
    BY <2>1, <2>3 DEF Leaving
  <2> QED BY <2>1, <2>5, <2>6, <2>7, <2>8, <2>9 DEF Leaving, EndLast
<1> QED BY <1>1, <1>2, <1>3, <1>4 DEF SInv, CreateInv, CreatedInv, DestroyInv, DestroyedIsClean

LEMMA StopDevice_SInv ==
    ASSUME LInv, SInv, StopDevice
    PROVE  SInv'
<1>1. /\ phase \in {"undo", "destroy"} /\ todo # <<>> /\ Dev \in Devices
      /\ todo' = Tail(todo) /\ UNCHANGED <<starting, scripts, phase>>
      /\ screens' = screens \ {Dev} /\ RunScript(Dev)
      /\ top' = top /\ UNCHANGED <<last, whole>>
  BY DEF StopDevice, Step
<1>2. Dev # "end" /\ Dev # "all"
  BY <1>1, TopFacts DEF LInv, RestInv
<1> DEFINE undo == IF Dev \in DOMAIN scripts /\ scripts[Dev].runs THEN scripts[Dev].undo ELSE {}
           gone(kind) == {u[2] : u \in {v \in undo : v[1] = kind}}
<1>3. /\ networks' = Restrict(networks, DOMAIN networks \ (gone("net") \ Range(containers)))
      /\ taps' = Restrict(taps, DOMAIN taps \ gone("tap"))
      /\ containers' = Restrict(containers, DOMAIN containers \ gone("con"))
  BY <1>1, Zenon DEF RunScript
<1>4. /\ \A n : <<"net", n>> \in undo => n \in gone("net")
      /\ \A i : <<"tap", i>> \in undo => i \in gone("tap")
  <2> HIDE DEF undo
  <2>1. ASSUME NEW k, NEW n, <<k, n>> \in undo PROVE n \in gone(k)
    <3>1. <<k, n>> \in {v \in undo : v[1] = k} /\ <<k, n>>[2] = n
      BY <2>1
    <3> QED BY <3>1
  <2> QED BY <2>1
<1> HIDE DEF gone
<1>5. /\ DOMAIN networks' = DOMAIN networks \ (gone("net") \ Range(containers))
      /\ \A n \in DOMAIN networks' : networks'[n] = networks[n]
      /\ DOMAIN taps' = DOMAIN taps \ gone("tap")
      /\ DOMAIN containers' \subseteq DOMAIN containers
  BY <1>3 DEF Restrict
<1>6. Up' => Up
  BY <1>5 DEF Up
<1>7. ASSUME NEW n \in DOMAIN networks', NEW d \in DOMAIN scripts,
             Undoes(d, <<"net", n>>), Dev = d
      PROVE  Up
  <2>1. n \in gone("net")
    BY <1>4, <1>7 DEF Undoes
  <2>2. n \in Range(containers)
    BY <1>5, <1>7, <2>1
  <2> QED BY <2>2 DEF Up, Range
<1>8. ASSUME NEW i \in DOMAIN taps', NEW d \in DOMAIN scripts,
             Undoes(d, <<"tap", i>>), Dev = d
      PROVE  FALSE
  <2>1. i \in gone("tap")
    BY <1>4, <1>8 DEF Undoes
  <2> QED BY <1>5, <1>8, <2>1
<1> QED BY <1>1, <1>2, <1>5, <1>6, <1>7, <1>8, StopGoesOn

LEMMA StopAll_SInv ==
    ASSUME LInv, SInv, StopAll
    PROVE  SInv'
<1>1. /\ phase \in {"undo", "destroy"} /\ todo # <<>> /\ Dev = "all" /\ containers' = <<>>
      /\ todo' = Tail(todo) /\ top' = top /\ UNCHANGED <<last, whole>>
      /\ UNCHANGED <<networks, taps, starting, screens, scripts, phase>>
  BY DEF StopAll, Step
<1>2. ~Up'
  BY <1>1, EmptyDomain DEF Up
<1>3. Dev \notin Devices /\ screens \subseteq Devices /\ DOMAIN scripts \subseteq Devices
  BY <1>1, TopFacts DEF LInv, RestInv
<1> QED BY <1>1, <1>2, <1>3, StopGoesOn

LEMMA Next_SInv == LInv /\ SInv /\ [Next]_vars => SInv'
<1> SUFFICES ASSUME LInv, SInv, [Next]_vars PROVE SInv'
  OBVIOUS
<1>1. CASE Create \/ Destroy \/ End
  BY <1>1, Create_SInv, Destroy_SInv, End_SInv
<1>2. CASE StartSwitch \/ StartOVS \/ StartController \/ StartInterface
  BY <1>2, StartSwitch_SInv, StartOVS_SInv, StartController_SInv, StartInterface_SInv
<1>3. CASE StartRouter \/ StartMach \/ StartCloud
  BY <1>3, StartRouter_SInv, StartMach_SInv, StartCloud_SInv
<1>4. CASE (\E m \in Devices : ContainerUp(m)) \/ StopDevice \/ StopAll
  BY <1>4, ContainerUp_SInv, StopDevice_SInv, StopAll_SInv
<1>5. CASE UNCHANGED vars
  BY <1>5, Stutter_SInv
<1> QED BY <1>1, <1>2, <1>3, <1>4, <1>5, Zenon DEF Next
-----------------------------------------------------------------------------
(* Whatever commands fail, the loader's maps and what it has started stay  *)
(* well-formed: subnet_map only names networks that exist, and no two      *)
(* routers' interfaces get one tap number.                                 *)
THEOREM TypeCorrect == Spec => []TypeOK
BY Init_LInv, Next_LInv, LInvTypes, PTL DEF Spec

(* A machine that is up and a tap that is plugged in are in a network of   *)
(* their own subnet, for every topology that the builder writes, also when *)
(* switches of a subnet share a network or one was left by a creation that *)
(* failed: get_switch_to_connect and create_new_switch confuse no names.   *)
THEOREM OwnSubnet == Spec => []InItsSubnet
BY Init_LInv, Next_LInv, LInvSubnets, PTL DEF Spec

(* Destroying a topology that was created, and all of it up, leaves no     *)
(* network, tap, container or screen behind, for every topology that the   *)
(* builder writes and whatever commands failed in earlier creations: the   *)
(* stop scripts and the order of destroy_GINI take away all that start_GINI *)
(* made or found.                                                          *)
THEOREM DestroyedClean == Spec => []DestroyedIsClean
<1>1. LInv /\ SInv => DestroyedIsClean
  BY DEF SInv
<1> QED BY <1>1, Init_LInv, Init_SInv, Next_LInv, Next_SInv, PTL DEF Spec
=============================================================================
