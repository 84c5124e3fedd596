------------------------- MODULE CloudNetworkProofs -------------------------
(***************************************************************************)
(* Proofs about CloudNetwork, for any subnet, services, threads and        *)
(* bounds: the types, and that an address has one holder.                  *)
(***************************************************************************)
EXTENDS CloudNetwork, TLAPS

Everyone == Threads \cup {Listener}

(* The containers that _run_container has connected, or has given up: the  *)
(* others are known to the thread that makes them and to nobody else.      *)
Old == {c \in Containers :
          c <= made /\ \A t \in Everyone : job[t].at = "connect" => job[t].c # c}

(* What a thread may be doing, with the containers old, made of them and   *)
(* n services.                                                             *)
Fitting(old, m, n) ==
    {j \in Job :
       /\ j.at = "connect" => j.c \in 1..m
       /\ j.at \in {"start", "append", "disconnect", "return", "kill"} => j.c \in old
       /\ j.at \in {"lend", "connect", "start", "append"} => j.o \in 1..n
       /\ j.at \in {"connect", "start", "append"} => j.left > 0
       /\ j.todo \in Seq(old)}

Service(old) == [name : Names, port : Ports, list : Seq(old)]

JobInv == /\ made \in 0..MaxContainers
          /\ job \in [Everyone -> Fitting(Old, made, Len(objects))]
          /\ \A t, u \in Everyone :
                job[t].at = "connect" /\ job[u].at = "connect" /\ job[t].c = job[u].c => t = u
ObjectsInv == /\ objects \in Seq(Service(Old))
              /\ Len(objects) <= MaxServices
              /\ services \in [Names -> Objects \cup {None}]
              /\ \A n \in Names : services[n] # None => services[n] \in 1..Len(objects)
              /\ used \subseteq Ports
DockerInv == /\ state \in [Containers -> {"none", "created", "running", "gone"}]
             /\ events \in Seq(Event)
             /\ ~ovs => \A i \in 1..Len(events) : events[i].c \in Old
             /\ \A c \in Containers : wire[c] # None => c \in Old
RestInv == /\ ovs \in BOOLEAN /\ listening \in BOOLEAN /\ kept \in BOOLEAN
           /\ pool \subseteq Addresses
           /\ books \in [Containers -> Addresses \cup {None}]
           /\ wire \in [Containers -> Addresses \cup {None}]
           /\ restarts \in 0..MaxRestarts

TInv == JobInv /\ ObjectsInv /\ DockerInv /\ RestInv

(* An address about to go back to the pool is on the network no more, and  *)
(* Docker does not bring it back; while it may, nobody else gets it.       *)
ReturnInv == \A t \in Everyone :
    job[t].at = "return" => wire[job[t].c] = None /\ (job[t].c = Proxy => ~kept)
KeptInv == kept => /\ Reserved \notin pool
                   /\ InHand(Reserved) = {}
                   /\ InBooks(Reserved) \subseteq {Proxy}
                   /\ OnWire(Reserved) \subseteq {Proxy}

IInv == TInv /\ OneHolder /\ ReturnInv /\ KeptInv
-----------------------------------------------------------------------------
(* Lists                                                                   *)

LEMMA Wider == ASSUME NEW S, NEW R, S \subseteq R PROVE Seq(S) \subseteq Seq(R)
OBVIOUS

LEMMA NoItems == ASSUME NEW S PROVE <<>> \in Seq(S)
OBVIOUS

LEMMA Appended ==
    ASSUME NEW S, NEW q \in Seq(S), NEW e \in S
    PROVE  /\ Append(q, e) \in Seq(S) /\ Len(Append(q, e)) = Len(q) + 1
           /\ \A i \in 1..Len(Append(q, e)) : Append(q, e)[i] = IF i <= Len(q) THEN q[i] ELSE e
OBVIOUS

LEMMA HeadTail ==
    ASSUME NEW S, NEW q \in Seq(S), q # <<>>
    PROVE  /\ Head(q) \in S /\ Head(q) = q[1] /\ 1 \in 1..Len(q)
           /\ Tail(q) \in Seq(S)
           /\ \A i \in 1..Len(Tail(q)) : Tail(q)[i] = q[i + 1] /\ i + 1 \in 1..Len(q)
OBVIOUS

LEMMA Item == ASSUME NEW S, NEW q \in Seq(S), NEW i \in 1..Len(q) PROVE q[i] \in S
OBVIOUS

LEMMA Cut ==
    ASSUME NEW S, NEW q \in Seq(S), NEW n \in 1..Len(q) \cup {Len(q) + 1}
    PROVE  SubSeq(q, n, Len(q)) \in Seq(S)
OBVIOUS

(* What is left of a list has containers of the list only.                 *)
LEMMA RunningList ==
    ASSUME NEW S, NEW q \in Seq(S), NEW l \in Running(q)
    PROVE  l \in Seq(S) /\ Len(l) \in Nat
<1>1. PICK n \in 0..MaxContainers : l \in [1..n -> Containers]
  BY DEF Running, Lists
<1>2. n \in Nat
  BY CloudAssumption
<1>3. \A i \in 1..n : l[i] \in S
  <2> TAKE i \in 1..n
  <2>1. l[i] \in Elements(l)
    BY <1>1 DEF Elements
  <2>2. l[i] \in Elements(q)
    BY <2>1 DEF Running
  <2> QED BY <2>2 DEF Elements
<1>4. l \in [1..n -> S]
  BY <1>1, <1>3
<1> QED BY <1>2, <1>4
-----------------------------------------------------------------------------
(* The parts of a step                                                     *)

LEMMA Numbers ==
    /\ Addresses \subseteq Nat /\ None \notin Nat /\ Listener \notin Threads
    /\ MaxContainers \in Nat /\ MaxServices \in Nat /\ MaxScale \in Nat
    /\ Proxy \in Containers /\ Containers \subseteq Nat
BY CloudAssumption DEF Containers, Proxy, Served

LEMMA FitsMore ==
    ASSUME NEW S, NEW R, S \subseteq R, NEW m \in Nat, NEW n \in Nat,
           NEW k \in Nat, NEW l \in Nat, m <= n, k <= l
    PROVE  Fitting(S, m, k) \subseteq Fitting(R, n, l)
<1>1. Seq(S) \subseteq Seq(R)
  BY Wider
<1> QED BY <1>1 DEF Fitting

LEMMA ServesMore ==
    ASSUME NEW S, NEW R, S \subseteq R
    PROVE  Seq(Service(S)) \subseteq Seq(Service(R))
<1>1. Service(S) \subseteq Service(R)
  BY Wider DEF Service
<1> QED BY <1>1, Wider

LEMMA IdleFits ==
    ASSUME NEW S, NEW m, NEW n
    PROVE  Idle \in Fitting(S, m, n) /\ Idle.at = "idle"
<1>1. <<>> \in Seq(S) /\ <<>> \in Seq(Containers)
  BY NoItems
<1>2. 0 \in 0..MaxScale
  BY Numbers
<1> QED BY <1>1, <1>2 DEF Idle, Fitting, Job

(* A step of a thread that is not about to connect an old container: what  *)
(* was old stays old, and everything fits as it did.                       *)
LEMMA OldStays ==
    ASSUME JobInv, NEW t \in Everyone, NEW j, Becomes(t, j), made' \in Nat, made <= made',
           j.at = "connect" => j.c \notin Old
    PROVE  Old \subseteq Old'
<1>1. job \in [Everyone -> Fitting(Old, made, Len(objects))] /\ made \in Nat
  BY Numbers DEF JobInv
<1>2. \A u \in Everyone : job'[u] = IF u = t THEN j ELSE job[u]
  BY <1>1 DEF Becomes
<1> SUFFICES ASSUME NEW c \in Old
             PROVE  c <= made' /\ \A u \in Everyone : job'[u].at = "connect" => job'[u].c # c
  BY DEF Old
<1>3. c \in Nat /\ c <= made /\ \A u \in Everyone : job[u].at = "connect" => job[u].c # c
  BY Numbers DEF Old
<1> QED BY <1>1, <1>2, <1>3

LEMMA JobStep ==
    ASSUME JobInv, ObjectsInv, NEW t \in Everyone, NEW j, Becomes(t, j),
           made' \in 0..MaxContainers, made <= made', Len(objects') \in Nat,
           Len(objects) <= Len(objects'), Old \subseteq Old',
           j \in Fitting(Old', made', Len(objects')),
           \A u \in Everyone : j.at = "connect" /\ job[u].at = "connect" /\ u # t
                                 => j.c # job[u].c
    PROVE  JobInv'
<1>1. made \in Nat /\ made' \in Nat /\ Len(objects) \in Nat
  BY Numbers DEF JobInv, ObjectsInv
<1>2. Fitting(Old, made, Len(objects)) \subseteq Fitting(Old', made', Len(objects'))
  BY <1>1, FitsMore
<1>3. job' = [job EXCEPT ![t] = j]
  BY DEF Becomes
<1>4. job' \in [Everyone -> Fitting(Old', made', Len(objects'))]
  BY <1>2, <1>3 DEF JobInv
<1>5. \A u \in Everyone : job'[u] = IF u = t THEN j ELSE job[u]
  BY <1>3 DEF JobInv
<1>6. \A u, v \in Everyone :
         job'[u].at = "connect" /\ job'[v].at = "connect" /\ job'[u].c = job'[v].c => u = v
  BY <1>5 DEF JobInv
<1> QED BY <1>4, <1>6 DEF JobInv

LEMMA JobOf ==
    ASSUME JobInv, NEW t \in Everyone
    PROVE  job[t] \in Fitting(Old, made, Len(objects)) /\ job[t] \in Job
BY DEF JobInv, Fitting

(* What is left alone stays right while the old containers stay old.       *)
LEMMA Untouched ==
    ASSUME TInv, Old \subseteq Old'
    PROVE  /\ UNCHANGED manager => ObjectsInv'
           /\ UNCHANGED <<state, events, wire, ovs>> => DockerInv'
           /\ UNCHANGED <<network, rest>> => RestInv'
<1>1. Seq(Service(Old)) \subseteq Seq(Service(Old'))
  BY ServesMore
<1>2. UNCHANGED manager => ObjectsInv'
  BY <1>1 DEF TInv, ObjectsInv, manager
<1>3. UNCHANGED <<state, events, wire, ovs>> => DockerInv'
  BY DEF TInv, DockerInv
<1>4. UNCHANGED <<network, rest>> => RestInv'
  BY DEF TInv, RestInv, network, rest
<1> QED BY <1>2, <1>3, <1>4

LEMMA SameJobs ==
    ASSUME JobInv, UNCHANGED <<job, made>>
    PROVE  /\ Old' = Old /\ (Len(objects') = Len(objects) => JobInv')
<1>1. Old' = Old
  BY DEF Old
<1> QED BY <1>1 DEF JobInv

(* Docker reports an old container.                                        *)
LEMMA Reported ==
    ASSUME DockerInv, NEW k \in {"connect", "disconnect", "die"}, NEW c \in Containers,
           Emit(k, c), Old \subseteq Old', UNCHANGED ovs, ovs \/ c \in Old'
    PROVE  /\ events' \in Seq(Event)
           /\ ~ovs' => \A i \in 1..Len(events') : events'[i].c \in Old'
<1> DEFINE e == [kind |-> k, c |-> c]
<1>1. e \in Event /\ e.c = c
  BY DEF Event
<1>2. events \in Seq(Event)
  BY DEF DockerInv
<1>3. events' = Append(events, e)
  BY DEF Emit
<1> HIDE DEF e
<1>4. /\ events' \in Seq(Event) /\ Len(events') = Len(events) + 1
      /\ \A i \in 1..Len(events') : events'[i] = IF i <= Len(events) THEN events[i] ELSE e
  BY <1>1, <1>2, <1>3, Appended
<1>5. ASSUME ~ovs', NEW i \in 1..Len(events') PROVE events'[i].c \in Old'
  <2>1. CASE i <= Len(events)
    BY <2>1, <1>2, <1>4, <1>5 DEF DockerInv
  <2>2. CASE ~(i <= Len(events))
    BY <2>2, <1>1, <1>4, <1>5
  <2> QED BY <2>1, <2>2
<1> QED BY <1>4, <1>5

(* An object's list is replaced.                                           *)
LEMMA NewList ==
    ASSUME ObjectsInv, Old \subseteq Old', NEW o, NEW l \in Seq(Old'),
           objects' = [objects EXCEPT ![o].list = l]
    PROVE  objects' \in Seq(Service(Old')) /\ Len(objects') = Len(objects)
<1>1. objects \in Seq(Service(Old'))
  BY ServesMore DEF ObjectsInv
<1>2. objects \in [1..Len(objects) -> Service(Old')] /\ Len(objects) \in Nat
  BY <1>1
<1>3. \A r \in Service(Old') : [r EXCEPT !.list = l] \in Service(Old')
  BY DEF Service
<1>4. objects' \in [1..Len(objects) -> Service(Old')]
  <2>1. CASE o \in 1..Len(objects)
    <3>1. objects[o] \in Service(Old')
      BY <1>2, <2>1
    <3> QED BY <1>2, <1>3, <3>1
  <2>2. CASE o \notin 1..Len(objects)
    BY <1>2, <2>2
  <2> QED BY <2>1, <2>2
<1>5. ASSUME NEW S, NEW n \in Nat, NEW f \in [1..n -> S]
      PROVE  f \in Seq(S) /\ Len(f) = n
  OBVIOUS
<1> QED BY <1>2, <1>4, <1>5
-----------------------------------------------------------------------------
(* The requests                                                            *)

(* A request, or the end of one, that only the manager's books notice.     *)
LEMMA ManagerStep ==
    ASSUME TInv, NEW t \in Everyone, NEW j, Becomes(t, j), j.at # "connect",
           j \in Fitting(Old', made', Len(objects')),
           objects' \in Seq(Service(Old')), Len(objects) <= Len(objects'),
           Len(objects') <= MaxServices, services' \in [Names -> Objects \cup {None}],
           \A n \in Names : services'[n] # None => services'[n] \in 1..Len(objects'),
           used' \subseteq Ports, UNCHANGED <<network, docker, rest>>
    PROVE  TInv'
<1>1. made' = made /\ made \in 0..MaxContainers /\ made \in Nat
  BY Numbers DEF docker, TInv, JobInv
<1>2. Old \subseteq Old'
  BY <1>1, OldStays DEF TInv
<1>3. JobInv'
  BY <1>1, <1>2, JobStep DEF TInv
<1>4. ObjectsInv'
  BY DEF ObjectsInv
<1>5. DockerInv' /\ RestInv'
  BY <1>2, Untouched DEF docker, network, rest
<1> QED BY <1>3, <1>4, <1>5 DEF TInv

LEMMA OldKept ==
    ASSUME TInv, NEW t \in Everyone, NEW j, Becomes(t, j), j.at # "connect", made' = made
    PROVE  Old \subseteq Old'
<1>1. made \in Nat
  BY Numbers DEF TInv, JobInv
<1> QED BY <1>1, OldStays DEF TInv

LEMMA StartServiceInv ==
    ASSUME TInv, NEW t \in Threads, NEW n \in Names, NEW p \in Ports, NEW k \in 1..MaxScale,
           StartService(t, n, p, k)
    PROVE  TInv'
<1> DEFINE j == [Idle EXCEPT !.at = "lend", !.op = "start", !.o = Len(objects) + 1, !.left = k]
           s == [name |-> n, port |-> p, list |-> <<>>]
<1>1. Becomes(t, j) /\ objects' = Append(objects, s) /\ Len(objects) < MaxServices
  BY DEF StartService
<1>2. Old \subseteq Old' /\ made' = made
  BY <1>1, OldKept DEF StartService, Everyone, docker, Idle
<1>3. s \in Service(Old') /\ objects \in Seq(Service(Old'))
  BY <1>2, NoItems, ServesMore DEF Service, TInv, ObjectsInv
<1>4. objects' \in Seq(Service(Old')) /\ Len(objects') = Len(objects) + 1 /\ Len(objects) \in Nat
  BY <1>1, <1>3, Appended
<1>5. j \in Fitting(Old', made', Len(objects'))
  <2>1. <<>> \in Seq(Old') /\ <<>> \in Seq(Containers)
    BY NoItems
  <2>2. Len(objects) + 1 \in Objects /\ k \in 0..MaxScale
    BY <1>1, <1>4, Numbers DEF Objects
  <2>3. Len(objects) + 1 \in 1..Len(objects')
    BY <1>4
  <2> HIDE <1>1, <1>3, <1>4
  <2> QED BY <2>1, <2>2, <2>3 DEF Fitting, Job, Idle
<1>6. j.at # "connect"
  BY DEF Idle
<1>7. /\ Len(objects) <= Len(objects') /\ Len(objects') <= MaxServices
      /\ services' \in [Names -> Objects \cup {None}]
      /\ \A m \in Names : services'[m] # None => services'[m] \in 1..Len(objects')
      /\ used' \subseteq Ports /\ UNCHANGED <<network, docker, rest>>
  BY <1>1, <1>4, Numbers DEF TInv, ObjectsInv, StartService
<1> HIDE DEF j
<1> QED BY <1>1, <1>4, <1>5, <1>6, <1>7, ManagerStep DEF Everyone

(* Whoever ends is idle.                                                   *)
LEMMA Ends ==
    ASSUME TInv, NEW t \in Threads, Becomes(t, Idle), UNCHANGED <<network, docker, rest>>,
           objects' \in Seq(Service(Old')), Len(objects') = Len(objects),
           services' \in [Names -> Objects \cup {None}],
           \A n \in Names : services'[n] # None => services'[n] \in 1..Len(objects),
           used' \subseteq Ports
    PROVE  TInv'
<1>1. Len(objects) \in Nat /\ Len(objects) <= MaxServices
  BY DEF TInv, ObjectsInv
<1>2. Idle \in Fitting(Old', made', Len(objects')) /\ Idle.at # "connect"
  BY IdleFits
<1> QED BY <1>1, <1>2, ManagerStep DEF Everyone

LEMMA StartServiceEndsInv ==
    ASSUME TInv, NEW t \in Threads, StartServiceEnds(t)
    PROVE  TInv'
<1>1. job[t] \in Fitting(Old, made, Len(objects)) /\ job[t] \in Job
  BY JobOf DEF TInv, Everyone
<1>2. job[t].o \in 1..Len(objects) /\ job[t].o \in Objects
  BY <1>1, Numbers DEF StartServiceEnds, Fitting, Job, Objects, TInv, ObjectsInv
<1>3. objects[job[t].o] \in Service(Old)
  BY <1>2 DEF TInv, ObjectsInv
<1>4. services' \in [Names -> Objects \cup {None}] /\ used' \subseteq Ports
  BY <1>2, <1>3 DEF StartServiceEnds, Service, TInv, ObjectsInv
<1>5. \A n \in Names : services'[n] # None => services'[n] \in 1..Len(objects)
  BY <1>2, <1>3 DEF StartServiceEnds, Service, TInv, ObjectsInv
<1>6. Becomes(t, Idle) /\ UNCHANGED <<objects, network, docker, rest>>
  BY DEF StartServiceEnds
<1>7. Old \subseteq Old'
  BY <1>6, IdleFits, OldKept DEF Everyone, docker
<1>8. objects' \in Seq(Service(Old'))
  BY <1>6, <1>7, ServesMore DEF TInv, ObjectsInv
<1> QED BY <1>4, <1>5, <1>6, <1>8, Ends

(* The list of a service, before and after it has been looked through.     *)
LEMMA ListOf ==
    ASSUME TInv, NEW n \in Names, services[n] # None
    PROVE  /\ services[n] \in 1..Len(objects) /\ services[n] \in Objects
           /\ objects[services[n]].list \in Seq(Old)
           /\ \A l \in Running(objects[services[n]].list) : l \in Seq(Old) /\ Len(l) \in Nat
<1>1. services[n] \in 1..Len(objects) /\ services[n] \in Objects
  BY DEF TInv, ObjectsInv
<1>2. objects[services[n]] \in Service(Old)
  BY <1>1, Item DEF TInv, ObjectsInv
<1>3. objects[services[n]].list \in Seq(Old)
  BY <1>2 DEF Service
<1> QED BY <1>1, <1>3, RunningList

LEMMA ScaleServiceInv ==
    ASSUME TInv, NEW t \in Threads, NEW n \in Names, NEW k \in 1..MaxScale,
           ScaleService(t, n, k)
    PROVE  TInv'
<1>1. services[n] # None /\ UNCHANGED <<services, used, network, docker, rest>>
  BY DEF ScaleService
<1> DEFINE o == services[n]
           grow(list) == [Idle EXCEPT !.at = "lend", !.op = "grow", !.o = o,
                                      !.left = k - Len(list)]
           shrink(list) == [Idle EXCEPT !.at = "next", !.op = "shrink", !.o = o,
                                        !.todo = SubSeq(list, k + 1, Len(list))]
<1>2. PICK list \in Running(objects[o].list) :
         /\ objects' = [objects EXCEPT ![o].list = list]
         /\ Becomes(t, IF k > Len(list) THEN grow(list) ELSE shrink(list))
  BY DEF ScaleService
<1> DEFINE j == IF k > Len(list) THEN grow(list) ELSE shrink(list)
<1>3. o \in 1..Len(objects) /\ o \in Objects /\ list \in Seq(Old) /\ Len(list) \in Nat
  BY <1>1, ListOf
<1>4. j.at # "connect"
  BY DEF Idle
<1>5. Old \subseteq Old' /\ made' = made
  <2> HIDE DEF j
  <2> QED BY <1>1, <1>2, <1>4, OldKept DEF Everyone, docker, j
<1>6. list \in Seq(Old')
  BY <1>3, <1>5, Wider
<1>7. objects' \in Seq(Service(Old')) /\ Len(objects') = Len(objects)
  BY <1>2, <1>5, <1>6, NewList DEF TInv
<1>8. j \in Fitting(Old', made', Len(objects'))
  <2>1. <<>> \in Seq(Old') /\ <<>> \in Seq(Containers)
    BY NoItems
  <2>2. CASE k > Len(list)
    <3>1. k - Len(list) \in 0..MaxScale
      BY <1>3, <2>2, Numbers
    <3> QED BY <1>3, <1>7, <2>1, <2>2, <3>1 DEF Fitting, Job, Idle
  <2>3. CASE ~(k > Len(list))
    <3>1. k + 1 \in 1..Len(list) \cup {Len(list) + 1}
      BY <1>3, <2>3
    <3>2. Old' \subseteq Containers
      BY DEF Old
    <3>3. list \in Seq(Containers)
      BY <1>6, <3>2, Wider
    <3>4. SubSeq(list, k + 1, Len(list)) \in Seq(Old')
      BY <1>6, <3>1, Cut
    <3>5. SubSeq(list, k + 1, Len(list)) \in Seq(Containers)
      BY <3>1, <3>3, Cut
    <3>6. 0 \in 0..MaxScale
      BY Numbers
    <3> QED BY <1>3, <2>3, <3>4, <3>5, <3>6 DEF Fitting, Job, Idle
  <2> QED BY <2>2, <2>3
<1>9. Becomes(t, j)
  BY <1>2
<1>10. /\ Len(objects) <= Len(objects') /\ Len(objects') <= MaxServices
       /\ services' \in [Names -> Objects \cup {None}]
       /\ \A m \in Names : services'[m] # None => services'[m] \in 1..Len(objects')
       /\ used' \subseteq Ports /\ UNCHANGED <<network, docker, rest>>
  BY <1>1, <1>7 DEF TInv, ObjectsInv
<1> HIDE DEF j
<1> QED BY <1>4, <1>7, <1>8, <1>9, <1>10, ManagerStep DEF Everyone

LEMMA ShowServiceInv ==
    ASSUME TInv, NEW t \in Threads, NEW n \in Names, ShowService(t, n)
    PROVE  TInv'
<1>1. services[n] # None /\ UNCHANGED <<services, used, network, docker, job, rest>>
  BY DEF ShowService
<1>2. PICK list \in Running(objects[services[n]].list) :
         objects' = [objects EXCEPT ![services[n]].list = list]
  BY DEF ShowService
<1>3. list \in Seq(Old)
  BY <1>1, ListOf
<1>4. Old' = Old
  BY <1>1 DEF Old, docker
<1>5. objects' \in Seq(Service(Old')) /\ Len(objects') = Len(objects)
  BY <1>2, <1>3, <1>4, NewList DEF TInv
<1>6. JobInv'
  BY <1>1, <1>5, SameJobs DEF TInv, docker
<1>7. ObjectsInv'
  BY <1>1, <1>5 DEF TInv, ObjectsInv
<1>8. DockerInv' /\ RestInv'
  BY <1>1, <1>4, Untouched DEF docker, network, rest
<1> QED BY <1>6, <1>7, <1>8 DEF TInv

LEMMA GrowEndsInv ==
    ASSUME TInv, NEW t \in Threads, GrowEnds(t)
    PROVE  TInv'
<1>1. Becomes(t, Idle) /\ UNCHANGED <<network, docker, manager, rest>>
  BY DEF GrowEnds
<1>2. Old \subseteq Old'
  BY <1>1, IdleFits, OldKept DEF Everyone, docker
<1>3. objects' \in Seq(Service(Old'))
  BY <1>1, <1>2, ServesMore DEF TInv, ObjectsInv, manager
<1> QED BY <1>1, <1>3, Ends DEF TInv, ObjectsInv, manager

LEMMA StopServiceInv ==
    ASSUME TInv, NEW t \in Threads, NEW n \in Names, StopService(t, n)
    PROVE  TInv'
<1> DEFINE j == [Idle EXCEPT !.at = "next", !.op = "stop", !.o = services[n],
                             !.todo = objects[services[n]].list]
<1>1. /\ services[n] # None /\ services' = [services EXCEPT ![n] = None]
      /\ Becomes(t, j) /\ UNCHANGED <<objects, used, network, docker, rest>>
  BY DEF StopService
<1>2. j.at # "connect"
  BY DEF Idle
<1>3. Old \subseteq Old'
  <2> HIDE DEF j
  <2> QED BY <1>1, <1>2, OldKept DEF Everyone, docker
<1>4. j \in Fitting(Old', made', Len(objects'))
  <2>1. Old \subseteq Containers
    BY DEF Old
  <2>2. services[n] \in Objects /\ objects[services[n]].list \in Seq(Old)
    BY <1>1, ListOf
  <2>3. /\ objects[services[n]].list \in Seq(Old')
        /\ objects[services[n]].list \in Seq(Containers)
    BY <1>3, <2>1, <2>2, Wider
  <2>4. 0 \in 0..MaxScale
    BY Numbers
  <2> QED BY <2>2, <2>3, <2>4 DEF Fitting, Job, Idle
<1>5. objects' \in Seq(Service(Old')) /\ Len(objects') = Len(objects) /\ Len(objects) \in Nat
  BY <1>1, <1>3, ServesMore DEF TInv, ObjectsInv
<1>6. /\ services' \in [Names -> Objects \cup {None}]
      /\ \A m \in Names : services'[m] # None => services'[m] \in 1..Len(objects')
      /\ used' \subseteq Ports /\ Len(objects') <= MaxServices
  BY <1>1, <1>5 DEF TInv, ObjectsInv
<1> HIDE DEF j
<1> QED BY <1>1, <1>2, <1>4, <1>5, <1>6, ManagerStep DEF Everyone

LEMMA RemovalEndsInv ==
    ASSUME TInv, NEW t \in Threads, RemovalEnds(t)
    PROVE  TInv'
<1> DEFINE o == job[t].o
<1>1. Becomes(t, Idle) /\ UNCHANGED <<services, network, docker, rest>>
  BY DEF RemovalEnds
<1>2. PICK list \in IF job[t].op = "stop" THEN {<<>>} ELSE Running(objects[o].list) :
         objects' = [objects EXCEPT ![o].list = list]
  BY DEF RemovalEnds
<1>3. Old \subseteq Old'
  BY <1>1, IdleFits, OldKept DEF Everyone, docker
<1>4. objects' \in Seq(Service(Old')) /\ Len(objects') = Len(objects)
  <2>1. CASE o \in 1..Len(objects)
    <3>0. objects[o] \in Service(Old)
      BY <2>1, Item DEF TInv, ObjectsInv
    <3>1. objects[o].list \in Seq(Old)
      BY <3>0 DEF Service
    <3>2. list \in Seq(Old)
      BY <1>2, <3>1, NoItems, RunningList
    <3>3. list \in Seq(Old')
      BY <1>3, <3>2, Wider
    <3> QED BY <1>2, <1>3, <3>3, NewList DEF TInv
  <2>2. CASE o \notin 1..Len(objects)
    <3>1. objects \in [1..Len(objects) -> Service(Old)]
      BY DEF TInv, ObjectsInv
    <3>2. objects' = objects
      BY <1>2, <2>2, <3>1
    <3> QED BY <1>3, <3>2, ServesMore DEF TInv, ObjectsInv
  <2> QED BY <2>1, <2>2
<1>5. used' \subseteq Ports
  BY DEF RemovalEnds, TInv, ObjectsInv
<1> QED BY <1>1, <1>4, <1>5, Ends DEF TInv, ObjectsInv
-----------------------------------------------------------------------------
(* _run_container                                                          *)

LEMMA LendInv ==
    ASSUME TInv, NEW t \in Threads, Lend(t)
    PROVE  TInv'
<1>1. PICK x \in Addresses \cup {None} :
         /\ Becomes(t, [job[t] EXCEPT !.at = "connect", !.c = made + 1, !.addr = x])
         /\ pool' = pool \ {x}
  <2>1. CASE pool = {}
    BY <2>1 DEF Lend
  <2>2. CASE pool # {}
    BY <2>2 DEF Lend, TInv, RestInv
  <2> QED BY <2>1, <2>2
<1> DEFINE j == [job[t] EXCEPT !.at = "connect", !.c = made + 1, !.addr = x]
<1>2. /\ job[t].at = "lend" /\ job[t].left > 0 /\ made < MaxContainers /\ made' = made + 1
      /\ UNCHANGED <<books, wire, events, manager, rest>>
  BY DEF Lend
<1>3. made \in Nat /\ made + 1 \in 0..MaxContainers /\ made + 1 \in Containers /\ made + 1 \in 1..(made + 1)
  BY <1>2, Numbers DEF TInv, JobInv, Containers, Served
<1>4. job[t] \in Fitting(Old, made, Len(objects)) /\ job[t] \in Job
  BY JobOf DEF TInv, Everyone
<1>5. j \in Job /\ j.at = "connect" /\ j.c = made + 1 /\ j.o = job[t].o /\ j.left = job[t].left
      /\ j.todo = job[t].todo
  BY <1>3, <1>4 DEF Job
<1>6. Becomes(t, j)
  BY <1>1
<1> HIDE DEF j
<1>7. made + 1 \notin Old
  BY <1>3 DEF Old
<1>8. Old \subseteq Old'
  BY <1>2, <1>3, <1>5, <1>6, <1>7, OldStays DEF TInv, Everyone
<1>9. j \in Fitting(Old', made', Len(objects'))
  <2>1. Seq(Old) \subseteq Seq(Old')
    BY <1>8, Wider
  <2>2. objects' = objects
    BY <1>2 DEF manager
  <2> QED BY <1>2, <1>3, <1>4, <1>5, <2>1, <2>2 DEF Fitting
<1>10. \A u \in Everyone : job[u].at = "connect" => job[u].c # made + 1
  <2> TAKE u \in Everyone
  <2>1. job[u] \in Fitting(Old, made, Len(objects))
    BY JobOf DEF TInv
  <2>2. job[u].at = "connect" => job[u].c \in 1..made
    BY <2>1 DEF Fitting
  <2> QED BY <1>3, <2>2
<1>11. JobInv'
  <2>1. Len(objects') = Len(objects) /\ Len(objects) \in Nat
    BY <1>2 DEF manager, TInv, ObjectsInv
  <2> QED BY <1>2, <1>3, <1>5, <1>6, <1>8, <1>9, <1>10, <2>1, JobStep DEF TInv, Everyone
<1>12. ObjectsInv'
  BY <1>2, <1>8, Untouched
<1>13. DockerInv'
  <2>1. state' \in [Containers -> {"none", "created", "running", "gone"}]
    BY DEF Lend, TInv, DockerInv
  <2> QED BY <1>2, <1>8, <2>1 DEF TInv, DockerInv, rest
<1>14. RestInv'
  BY <1>1, <1>2 DEF TInv, RestInv, rest
<1> QED BY <1>11, <1>12, <1>13, <1>14 DEF TInv

(* A thread that stays within what it knows: its next job is not a connect *)
(* and fits.                                                               *)
LEMMA JobGoes ==
    ASSUME TInv, NEW t \in Everyone, NEW j, Becomes(t, j), j.at # "connect",
           UNCHANGED made, Len(objects') = Len(objects),
           j \in Fitting(Old', made, Len(objects))
    PROVE  Old \subseteq Old' /\ JobInv'
<1>1. Old \subseteq Old'
  BY OldKept
<1>2. made \in 0..MaxContainers /\ made <= made' /\ Len(objects) \in Nat
  BY Numbers DEF TInv, JobInv, ObjectsInv
<1> QED BY <1>1, <1>2, JobStep DEF TInv

(* A container that is connected, or given up, is old from then on.        *)
LEMMA BecomesOld ==
    ASSUME TInv, NEW t \in Everyone, NEW j, Becomes(t, j), j.at # "connect",
           job[t].at = "connect", UNCHANGED made
    PROVE  job[t].c \in Old' /\ job[t].c \in Containers
<1>1. job[t] \in Fitting(Old, made, Len(objects))
  BY JobOf DEF TInv
<1>2. job[t].c \in 1..made
  BY <1>1 DEF Fitting
<1>3. job[t].c \in Containers /\ job[t].c <= made
  BY <1>2, Numbers DEF TInv, JobInv, Containers, Served
<1>4. \A u \in Everyone : job'[u] = IF u = t THEN j ELSE job[u]
  BY DEF Becomes, TInv, JobInv
<1>5. \A u \in Everyone : job'[u].at = "connect" => job'[u].c # job[t].c
  BY <1>4 DEF TInv, JobInv
<1> QED BY <1>3, <1>5 DEF Old

LEMMA ConnectInv ==
    ASSUME TInv, NEW t \in Threads, Connect(t)
    PROVE  TInv'
<1> DEFINE c == job[t].c
           j == [job[t] EXCEPT !.at = IF ovs THEN "append" ELSE "start", !.addr = None]
<1>1. /\ job[t].at = "connect" /\ job[t].addr # None /\ Becomes(t, j)
      /\ wire' = [wire EXCEPT ![c] = job[t].addr] /\ books' = [books EXCEPT ![c] = job[t].addr]
      /\ UNCHANGED <<pool, docker, manager, rest>>
  BY DEF Connect
<1>2. job[t] \in Fitting(Old, made, Len(objects)) /\ job[t] \in Job
  BY JobOf DEF TInv, Everyone
<1>3. /\ j \in Job /\ j.at \in {"append", "start"} /\ j.c = c /\ j.o = job[t].o
      /\ j.left = job[t].left /\ j.todo = job[t].todo
  BY <1>2 DEF Job
<1> HIDE DEF j
<1>4. c \in Old' /\ c \in Containers /\ Old \subseteq Old'
  BY <1>1, <1>3, BecomesOld, OldKept DEF Everyone, docker
<1>5. j \in Fitting(Old', made, Len(objects))
  <2>1. Seq(Old) \subseteq Seq(Old')
    BY <1>4, Wider
  <2> QED BY <1>1, <1>2, <1>3, <1>4, <2>1 DEF Fitting
<1>6. JobInv'
  BY <1>1, <1>3, <1>5, JobGoes DEF Everyone, docker, manager
<1>7. ObjectsInv'
  BY <1>1, <1>4, Untouched
<1>8. DockerInv'
  <2>1. \A d \in Containers : wire'[d] # None => d \in Old'
    BY <1>1, <1>4 DEF TInv, DockerInv, RestInv
  <2> QED BY <1>1, <1>4, <2>1 DEF TInv, DockerInv, docker, rest
<1>9. RestInv'
  BY <1>1, <1>2 DEF TInv, RestInv, rest, Job
<1> QED BY <1>6, <1>7, <1>8, <1>9 DEF TInv

LEMMA ConnectFailsInv ==
    ASSUME TInv, NEW t \in Threads, ConnectFails(t)
    PROVE  TInv'
<1> DEFINE c == job[t].c
           j == IF ovs THEN [job[t] EXCEPT !.at = "append", !.addr = None]
                ELSE NextOne(job[t], "lend")
<1>1. /\ job[t].at = "connect" /\ Becomes(t, j)
      /\ UNCHANGED <<network, docker, manager, rest>>
  BY DEF ConnectFails
<1>2. job[t] \in Fitting(Old, made, Len(objects)) /\ job[t] \in Job
  BY JobOf DEF TInv, Everyone
<1>3. job[t].left > 0 /\ job[t].left \in 0..MaxScale
  BY <1>1, <1>2 DEF Fitting, Job
<1>4. /\ j \in Job /\ j.o = job[t].o /\ j.todo = job[t].todo
      /\ j.at = "lend" \/ (j.at = "append" /\ j.c = c /\ j.left = job[t].left)
  <2>1. CASE ovs
    BY <1>2, <2>1 DEF Job
  <2>2. CASE ~ovs
    <3>1. job[t].left - 1 \in 0..MaxScale
      BY <1>3, Numbers
    <3> QED BY <1>2, <2>2, <3>1 DEF Job, NextOne
  <2> QED BY <2>1, <2>2
<1> HIDE DEF j
<1>5. c \in Old' /\ c \in Containers /\ Old \subseteq Old'
  BY <1>1, <1>4, BecomesOld, OldKept DEF Everyone, docker
<1>6. j \in Fitting(Old', made, Len(objects))
  <2>1. Seq(Old) \subseteq Seq(Old')
    BY <1>5, Wider
  <2> QED BY <1>1, <1>2, <1>3, <1>4, <1>5, <2>1 DEF Fitting
<1>7. JobInv'
  BY <1>1, <1>4, <1>6, JobGoes DEF Everyone, docker, manager
<1> QED BY <1>1, <1>5, <1>7, Untouched DEF TInv, network, docker, rest

LEMMA StartContainerInv ==
    ASSUME TInv, NEW t \in Threads, StartContainer(t)
    PROVE  TInv'
<1> DEFINE c == job[t].c
           j == [job[t] EXCEPT !.at = "append"]
<1>1. /\ job[t].at = "start" /\ Becomes(t, j) /\ Emit("connect", c)
      /\ state' = [state EXCEPT ![c] = "running"]
      /\ UNCHANGED <<made, network, manager, rest>>
  BY DEF StartContainer
<1>2. job[t] \in Fitting(Old, made, Len(objects)) /\ job[t] \in Job
  BY JobOf DEF TInv, Everyone
<1>3. /\ j \in Job /\ j.at = "append" /\ j.c = c /\ j.o = job[t].o
      /\ j.left = job[t].left /\ j.todo = job[t].todo
  BY <1>2 DEF Job
<1> HIDE DEF j
<1>4. Old \subseteq Old' /\ c \in Old
  BY <1>1, <1>2, <1>3, OldKept DEF Everyone, Fitting
<1>5. j \in Fitting(Old', made, Len(objects))
  <2>1. Seq(Old) \subseteq Seq(Old')
    BY <1>4, Wider
  <2> QED BY <1>1, <1>2, <1>3, <1>4, <2>1 DEF Fitting
<1>6. JobInv'
  BY <1>1, <1>3, <1>5, JobGoes DEF Everyone, manager
<1>7. DockerInv'
  <2>1. c \in Containers
    BY <1>4 DEF Old
  <2>2. /\ events' \in Seq(Event)
        /\ ~ovs' => \A i \in 1..Len(events') : events'[i].c \in Old'
    BY <1>1, <1>4, <2>1, Reported DEF TInv, rest
  <2> QED BY <1>1, <1>4, <2>1, <2>2 DEF TInv, DockerInv, network
<1> QED BY <1>1, <1>4, <1>6, <1>7, Untouched DEF TInv

LEMMA AppendContainerInv ==
    ASSUME TInv, NEW t \in Threads, AppendContainer(t)
    PROVE  TInv'
<1> DEFINE c == job[t].c
           o == job[t].o
           j == NextOne(job[t], "lend")
<1>1. /\ job[t].at = "append" /\ Becomes(t, j)
      /\ objects' = [objects EXCEPT ![o].list = Append(objects[o].list, c)]
      /\ UNCHANGED <<services, used, network, docker, rest>>
  BY DEF AppendContainer
<1>2. job[t] \in Fitting(Old, made, Len(objects)) /\ job[t] \in Job
  BY JobOf DEF TInv, Everyone
<1>3. job[t].left > 0 /\ job[t].left \in 0..MaxScale /\ c \in Old /\ o \in 1..Len(objects)
  BY <1>1, <1>2 DEF Fitting, Job
<1>4. j \in Job /\ j.o = o /\ j.todo = job[t].todo /\ j.at = "lend"
  <2>1. job[t].left - 1 \in 0..MaxScale
    BY <1>3, Numbers
  <2> QED BY <1>2, <2>1 DEF Job, NextOne
<1> HIDE DEF j
<1>5. Old \subseteq Old'
  BY <1>1, <1>4, OldKept DEF Everyone, docker
<1>6. j \in Fitting(Old', made, Len(objects))
  <2>1. Seq(Old) \subseteq Seq(Old')
    BY <1>5, Wider
  <2> QED BY <1>2, <1>3, <1>4, <2>1 DEF Fitting
<1>7. objects' \in Seq(Service(Old')) /\ Len(objects') = Len(objects)
  <2>1. objects[o] \in Service(Old)
    BY <1>3, Item DEF TInv, ObjectsInv
  <2>2. objects[o].list \in Seq(Old)
    BY <2>1 DEF Service
  <2>3. Append(objects[o].list, c) \in Seq(Old')
    BY <1>3, <1>5, <2>2, Appended, Wider
  <2> QED BY <1>1, <1>5, <2>3, NewList DEF TInv
<1>8. JobInv'
  BY <1>1, <1>4, <1>6, <1>7, JobGoes DEF Everyone, docker
<1>9. ObjectsInv'
  BY <1>1, <1>7 DEF TInv, ObjectsInv
<1> QED BY <1>1, <1>5, <1>8, <1>9, Untouched DEF TInv, network, docker, rest
-----------------------------------------------------------------------------
(* remove_container and _stop_container                                    *)

LEMMA NextRemovalInv ==
    ASSUME TInv, NEW t \in Threads, NextRemoval(t)
    PROVE  TInv'
<1> DEFINE j == [job[t] EXCEPT !.at = "disconnect", !.c = Head(job[t].todo),
                               !.todo = Tail(job[t].todo)]
<1>1. /\ job[t].at = "next" /\ job[t].todo # <<>> /\ Becomes(t, j)
      /\ UNCHANGED <<network, docker, manager, rest>>
  BY DEF NextRemoval
<1>2. job[t] \in Fitting(Old, made, Len(objects)) /\ job[t] \in Job
  BY JobOf DEF TInv, Everyone
<1>3. /\ Head(job[t].todo) \in Old /\ Tail(job[t].todo) \in Seq(Old)
      /\ Tail(job[t].todo) \in Seq(Containers) /\ Old \subseteq Containers
  <2>1. job[t].todo \in Seq(Old) /\ job[t].todo \in Seq(Containers)
    BY <1>2 DEF Fitting, Job
  <2> QED BY <1>1, <2>1, HeadTail DEF Old
<1>4. /\ j \in Job /\ j.at = "disconnect" /\ j.c = Head(job[t].todo)
      /\ j.todo = Tail(job[t].todo)
  BY <1>2, <1>3 DEF Job
<1> HIDE DEF j
<1>5. Old \subseteq Old'
  BY <1>1, <1>4, OldKept DEF Everyone, docker
<1>6. j \in Fitting(Old', made, Len(objects))
  <2>1. Seq(Old) \subseteq Seq(Old')
    BY <1>5, Wider
  <2> QED BY <1>3, <1>4, <1>5, <2>1 DEF Fitting
<1>7. JobInv'
  BY <1>1, <1>4, <1>6, JobGoes DEF Everyone, docker, manager
<1> QED BY <1>1, <1>5, <1>7, Untouched DEF TInv, network, docker, rest

(* A thread that goes from one stage of a removal to another.              *)
LEMMA RemovalGoes ==
    ASSUME TInv, NEW t \in Everyone, NEW a \in {"next", "disconnect", "return", "kill"},
           job[t].at \in {"disconnect", "return", "kill"}, NEW x \in {job[t].c, None},
           x = None => a = "next",
           Becomes(t, [job[t] EXCEPT !.at = a, !.c = x]), UNCHANGED <<made, manager>>
    PROVE  /\ Old \subseteq Old' /\ JobInv' /\ ObjectsInv'
           /\ job[t].c \in Old' /\ job[t].c \in Containers
<1> DEFINE j == [job[t] EXCEPT !.at = a, !.c = x]
<1>1. job[t] \in Fitting(Old, made, Len(objects)) /\ job[t] \in Job
  BY JobOf DEF TInv
<1>2. job[t].c \in Old /\ job[t].c \in Containers
  BY <1>1 DEF Fitting, Old
<1>3. j \in Job /\ j.at = a /\ j.c = x /\ j.todo = job[t].todo
  BY <1>1, <1>2 DEF Job
<1>4. Becomes(t, j)
  OBVIOUS
<1> HIDE DEF j
<1>5. Old \subseteq Old'
  BY <1>3, <1>4, OldKept
<1>6. j \in Fitting(Old', made, Len(objects))
  <2>1. Seq(Old) \subseteq Seq(Old')
    BY <1>5, Wider
  <2>2. None \notin Old
    BY Numbers DEF Old
  <2> QED BY <1>1, <1>2, <1>3, <1>5, <2>1, <2>2 DEF Fitting
<1>7. JobInv'
  BY <1>3, <1>4, <1>6, JobGoes DEF manager
<1>8. ObjectsInv'
  BY <1>5, Untouched
<1> QED BY <1>2, <1>5, <1>7, <1>8

LEMMA DisconnectInv ==
    ASSUME TInv, NEW t \in Everyone, Disconnect(t)
    PROVE  TInv'
<1> DEFINE c == job[t].c
<1>1. /\ job[t].at = "disconnect" /\ wire' = [wire EXCEPT ![c] = None]
      /\ UNCHANGED <<pool, books, state, made, manager, ovs, listening, restarts>>
      /\ kept' = (kept /\ c # Proxy)
  BY DEF Disconnect
<1>2. PICK a \in {"next", "return"} :
         /\ Becomes(t, [job[t] EXCEPT !.at = a])
         /\ UNCHANGED events \/ (~ovs /\ Emit("disconnect", c))
  BY DEF Disconnect
<1>3. job[t] \in Job
  BY JobOf DEF TInv
<1>4. [job[t] EXCEPT !.at = a] = [job[t] EXCEPT !.at = a, !.c = job[t].c]
  BY <1>3 DEF Job
<1>5. Old \subseteq Old' /\ JobInv' /\ ObjectsInv' /\ c \in Old' /\ c \in Containers
  <2>1. c # None
    <3>1. job[t] \in Fitting(Old, made, Len(objects))
      BY JobOf DEF TInv
    <3> QED BY <1>1, <3>1, Numbers DEF Fitting, Old
  <2> QED BY <1>1, <1>2, <1>4, <2>1, RemovalGoes, Zenon
<1>6. DockerInv'
  <2>1. /\ events' \in Seq(Event)
        /\ ~ovs' => \A i \in 1..Len(events') : events'[i].c \in Old'
    <3>1. CASE UNCHANGED events
      BY <1>1, <1>5, <3>1 DEF TInv, DockerInv
    <3>2. CASE Emit("disconnect", c)
      BY <1>1, <1>5, <3>2, Reported DEF TInv
    <3> QED BY <1>2, <3>1, <3>2
  <2> QED BY <1>1, <1>5, <2>1 DEF TInv, DockerInv, RestInv
<1>7. RestInv'
  BY <1>1 DEF TInv, RestInv
<1> QED BY <1>5, <1>6, <1>7 DEF TInv

LEMMA ReturnStepInv ==
    ASSUME TInv, NEW t \in Everyone, Return(t)
    PROVE  TInv'
<1> DEFINE c == job[t].c
<1>1. /\ job[t].at = "return" /\ books' = [books EXCEPT ![c] = None]
      /\ pool' = IF books[c] = None THEN pool ELSE pool \cup {books[c]}
      /\ UNCHANGED <<wire, docker, manager, rest>>
      /\ Becomes(t, IF job[t].op = "event" THEN Idle ELSE [job[t] EXCEPT !.at = "kill"])
  BY DEF Return
<1>2. job[t] \in Fitting(Old, made, Len(objects)) /\ job[t] \in Job
  BY JobOf DEF TInv
<1>3. c \in Containers /\ c # None
  BY <1>1, <1>2, Numbers DEF Fitting, Old
<1>4. Old \subseteq Old' /\ JobInv' /\ ObjectsInv'
  <2>1. CASE job[t].op = "event"
    <3>1. Becomes(t, Idle) /\ Idle.at # "connect" /\ Idle \in Fitting(Old', made, Len(objects))
      BY <1>1, <2>1, IdleFits
    <3>2. Old \subseteq Old' /\ JobInv'
      BY <1>1, <3>1, JobGoes DEF docker, manager
    <3> QED BY <1>1, <3>2, Untouched
  <2>2. CASE job[t].op # "event"
    <3>1. [job[t] EXCEPT !.at = "kill"] = [job[t] EXCEPT !.at = "kill", !.c = job[t].c]
      BY <1>2 DEF Job
    <3> QED BY <1>1, <1>3, <2>2, <3>1, RemovalGoes, Zenon DEF docker
  <2> QED BY <2>1, <2>2
<1>5. DockerInv'
  BY <1>1, <1>4, Untouched DEF docker, rest
<1>6. RestInv'
  BY <1>1, <1>3 DEF TInv, RestInv, rest
<1> QED BY <1>4, <1>5, <1>6 DEF TInv

LEMMA KillInv ==
    ASSUME TInv, NEW t \in Threads, Kill(t)
    PROVE  TInv'
<1> DEFINE c == job[t].c
<1>1. /\ job[t].at = "kill" /\ state' = [state EXCEPT ![c] = "gone"]
      /\ UNCHANGED <<made, network, manager, rest>>
      /\ UNCHANGED events \/ (ovs /\ Emit("die", c))
      /\ Becomes(t, [job[t] EXCEPT !.at = "next", !.c = None])
  BY DEF Kill
<1>2. Old \subseteq Old' /\ JobInv' /\ ObjectsInv' /\ c \in Old' /\ c \in Containers
  BY <1>1, RemovalGoes, Zenon DEF Everyone
<1>3. DockerInv'
  <2>1. /\ events' \in Seq(Event)
        /\ ~ovs' => \A i \in 1..Len(events') : events'[i].c \in Old'
    <3>1. CASE UNCHANGED events
      BY <1>1, <1>2, <3>1 DEF TInv, DockerInv, rest
    <3>2. CASE Emit("die", c)
      BY <1>1, <1>2, <3>2, Reported DEF TInv, rest
    <3> QED BY <1>1, <3>1, <3>2
  <2> QED BY <1>1, <1>2, <2>1 DEF TInv, DockerInv, network
<1> QED BY <1>1, <1>2, <1>3, Untouched DEF TInv
-----------------------------------------------------------------------------
(* Docker and the listener                                                 *)

LEMMA ExitsInv ==
    ASSUME TInv, NEW c \in Containers, Exits(c)
    PROVE  TInv'
<1>1. /\ state' = [state EXCEPT ![c] = "gone"] /\ UNCHANGED <<pool, books, made, manager, job, rest>>
      /\ \/ UNCHANGED events
         \/ (ovs /\ Emit("die", c))
         \/ (wire[c] # None /\ Emit("disconnect", c))
      /\ wire' = wire \/ wire' = [wire EXCEPT ![c] = None]
  BY DEF Exits
<1>2. Old' = Old /\ JobInv'
  BY <1>1, SameJobs DEF TInv, manager
<1>3. ObjectsInv'
  BY <1>1, <1>2, Untouched
<1>4. DockerInv'
  <2>1. /\ events' \in Seq(Event)
        /\ ~ovs' => \A i \in 1..Len(events') : events'[i].c \in Old'
    <3>1. CASE UNCHANGED events
      BY <1>1, <1>2, <3>1 DEF TInv, DockerInv, rest
    <3>2. CASE ovs /\ Emit("die", c)
      BY <1>1, <1>2, <3>2, Reported DEF TInv, rest
    <3>3. CASE wire[c] # None /\ Emit("disconnect", c)
      <4>1. c \in Old'
        BY <1>2, <3>3 DEF TInv, DockerInv
      <4> QED BY <1>1, <1>2, <3>3, <4>1, Reported DEF TInv, rest
    <3> QED BY <1>1, <3>1, <3>2, <3>3
  <2> QED BY <1>1, <1>2, <2>1 DEF TInv, DockerInv, RestInv
<1>5. RestInv'
  BY <1>1 DEF TInv, RestInv, rest
<1> QED BY <1>2, <1>3, <1>4, <1>5 DEF TInv

LEMMA ProxyIsOld == ASSUME TInv PROVE Proxy \in Old
<1>1. Proxy \in Containers /\ made \in Nat
  BY Numbers DEF TInv, JobInv
<1>2. \A t \in Everyone : job[t].at = "connect" => job[t].c # Proxy
  <2> TAKE t \in Everyone
  <2>1. job[t] \in Fitting(Old, made, Len(objects))
    BY JobOf DEF TInv
  <2> QED BY <1>1, <2>1 DEF Fitting, Proxy
<1> QED BY <1>1, <1>2 DEF Old, Proxy

LEMMA ProxyRestartsInv ==
    ASSUME TInv, ProxyRestarts
    PROVE  TInv'
<1>1. /\ state' = [state EXCEPT ![Proxy] = "running"]
      /\ UNCHANGED <<pool, books, made, manager, job, ovs, listening, kept>>
      /\ restarts < MaxRestarts /\ restarts' = restarts + 1
      /\ \/ wire' = [wire EXCEPT ![Proxy] = Reserved] /\ Emit("connect", Proxy)
         \/ UNCHANGED <<wire, events>>
  BY DEF ProxyRestarts
<1>2. Old' = Old /\ JobInv'
  BY <1>1, SameJobs DEF TInv, manager
<1>3. ObjectsInv'
  BY <1>1, <1>2, Untouched
<1>4. Proxy \in Old /\ Proxy \in Containers
  BY ProxyIsOld, Numbers
<1>5. DockerInv'
  <2>1. CASE UNCHANGED <<wire, events>>
    BY <1>1, <1>2, <2>1, Numbers DEF TInv, DockerInv
  <2>2. CASE wire' = [wire EXCEPT ![Proxy] = Reserved] /\ Emit("connect", Proxy)
    <3>1. /\ events' \in Seq(Event)
          /\ ~ovs' => \A i \in 1..Len(events') : events'[i].c \in Old'
      BY <1>1, <1>2, <1>4, <2>2, Reported DEF TInv
    <3> QED BY <1>1, <1>2, <1>4, <2>2, <3>1 DEF TInv, DockerInv, RestInv
  <2> QED BY <1>1, <2>1, <2>2
<1>6. RestInv'
  BY <1>1, <1>4, CloudAssumption DEF TInv, RestInv
<1> QED BY <1>2, <1>3, <1>5, <1>6 DEF TInv

(* The first event leaves the others.                                      *)
LEMMA Handled ==
    ASSUME TInv, Next1, Old \subseteq Old', UNCHANGED <<state, wire, ovs>>
    PROVE  /\ DockerInv' /\ Head(events) \in Event
           /\ ~ovs => Head(events).c \in Old
<1>1. events \in Seq(Event) /\ events # <<>> /\ events' = Tail(events)
  BY DEF TInv, DockerInv, Next1
<1>2. /\ Head(events) \in Event /\ Head(events) = events[1] /\ 1 \in 1..Len(events)
      /\ events' \in Seq(Event)
      /\ \A i \in 1..Len(events') : events'[i] = events[i + 1] /\ i + 1 \in 1..Len(events)
  BY <1>1, HeadTail
<1> QED BY <1>2 DEF TInv, DockerInv

LEMMA HandleDisconnectInv ==
    ASSUME TInv, HandleDisconnect
    PROVE  TInv'
<1> DEFINE c == Head(events).c
           d == [Idle EXCEPT !.at = "disconnect", !.op = "event", !.c = c]
           j == IF books[c] = None THEN Idle ELSE d
<1>1. /\ Next1 /\ ~ovs /\ Becomes(Listener, j)
      /\ UNCHANGED <<network, state, made, manager, rest>>
  BY DEF HandleDisconnect
<1>2. j.at # "connect" /\ Listener \in Everyone
  BY DEF Idle, Everyone
<1>3. Old \subseteq Old'
  <2> HIDE DEF j
  <2> QED BY <1>1, <1>2, OldKept
<1>4. DockerInv' /\ c \in Old
  BY <1>1, <1>3, Handled DEF network, rest
<1>5. j \in Fitting(Old', made, Len(objects))
  <2>1. <<>> \in Seq(Old') /\ <<>> \in Seq(Containers)
    BY NoItems
  <2>2. c \in Old' /\ c \in Containers /\ 0 \in 0..MaxScale
    BY <1>3, <1>4, Numbers DEF Old
  <2>3. d \in Fitting(Old', made, Len(objects))
    BY <2>1, <2>2 DEF Fitting, Job, Idle
  <2> QED BY <2>3, IdleFits
<1> HIDE DEF j
<1>6. JobInv'
  BY <1>1, <1>2, <1>5, JobGoes DEF manager
<1> QED BY <1>1, <1>3, <1>4, <1>6, Untouched DEF TInv

LEMMA HandleConnectInv ==
    ASSUME TInv, HandleConnect
    PROVE  TInv'
<1>1. Next1 /\ UNCHANGED <<network, state, made, manager, job, rest>>
  BY DEF HandleConnect
<1>2. Old' = Old /\ JobInv'
  BY <1>1, SameJobs DEF TInv, manager
<1> QED BY <1>1, <1>2, Handled, Untouched DEF TInv, network, rest

LEMMA ListenerRaisesInv ==
    ASSUME TInv, ListenerRaises
    PROVE  TInv'
<1>1. /\ Next1 /\ UNCHANGED <<books, wire, state, made, manager, job, ovs, kept, restarts>>
      /\ pool' \subseteq pool /\ listening' = FALSE
  BY DEF ListenerRaises
<1>2. Old' = Old /\ JobInv'
  BY <1>1, SameJobs DEF TInv, manager
<1>3. RestInv'
  BY <1>1 DEF TInv, RestInv
<1> QED BY <1>1, <1>2, <1>3, Handled, Untouched DEF TInv

LEMMA ListenerEndsInv ==
    ASSUME TInv, ListenerEnds
    PROVE  TInv'
<1>1. /\ Next1 /\ listening' = FALSE
      /\ UNCHANGED <<network, state, made, manager, job, ovs, kept, restarts>>
  BY DEF ListenerEnds
<1>2. Old' = Old /\ JobInv'
  BY <1>1, SameJobs DEF TInv, manager
<1>3. RestInv'
  BY <1>1 DEF TInv, RestInv, network
<1> QED BY <1>1, <1>2, <1>3, Handled, Untouched DEF TInv, network
-----------------------------------------------------------------------------
(* Types                                                                   *)

LEMMA InitTypes == Init => TInv
<1> SUFFICES ASSUME Init PROVE TInv
  OBVIOUS
<1>1. job = [t \in Everyone |-> Idle] /\ made = 0 /\ objects = <<>> /\ events = <<>>
  BY DEF Init, Everyone
<1>2. Proxy \in Old
  BY <1>1, Numbers DEF Old, Idle, Proxy
<1>3. Idle \in Fitting(Old, made, Len(objects)) /\ Idle.at # "connect"
  BY IdleFits
<1>4. JobInv
  BY <1>1, <1>3, Numbers DEF JobInv
<1>5. objects \in Seq(Service(Old)) /\ Len(objects) = 0 /\ events \in Seq(Event)
      /\ Len(events) = 0
  BY <1>1, NoItems
<1>6. ObjectsInv
  BY <1>5, Numbers DEF Init, ObjectsInv
<1>7. /\ books = [c \in Containers |-> IF c = Proxy THEN Reserved ELSE None]
      /\ wire = books
  BY DEF Init
<1>8. DockerInv
  <2>1. state \in [Containers -> {"none", "created", "running", "gone"}]
    BY DEF Init
  <2>2. \A c \in Containers : wire[c] # None => c \in Old
    BY <1>2, <1>7
  <2> QED BY <1>5, <2>1, <2>2 DEF DockerInv
<1>9. RestInv
  BY <1>7, CloudAssumption DEF Init, RestInv
<1> QED BY <1>4, <1>6, <1>8, <1>9 DEF TInv

LEMMA StepTypes == TInv /\ [Next]_vars => TInv'
<1> SUFFICES ASSUME TInv, [Next]_vars PROVE TInv'
  OBVIOUS
<1>1. ASSUME NEW t \in Threads, Request(t) PROVE TInv'
  <2>1. ASSUME NEW n \in Names, NEW p \in Ports, NEW k \in 1..MaxScale,
               StartService(t, n, p, k)
        PROVE  TInv'
    BY <2>1, StartServiceInv
  <2>2. ASSUME NEW n \in Names, NEW k \in 1..MaxScale, ScaleService(t, n, k) PROVE TInv'
    BY <2>2, ScaleServiceInv
  <2>3. ASSUME NEW n \in Names, ShowService(t, n) PROVE TInv'
    BY <2>3, ShowServiceInv
  <2>4. ASSUME NEW n \in Names, StopService(t, n) PROVE TInv'
    BY <2>4, StopServiceInv
  <2> QED BY <1>1, <2>1, <2>2, <2>3, <2>4 DEF Request
<1>2. ASSUME NEW t \in Threads, Continue(t) PROVE TInv'
  <2>1. t \in Everyone
    BY DEF Everyone
  <2> QED BY <1>2, <2>1, StartServiceEndsInv, GrowEndsInv, RemovalEndsInv, LendInv, ConnectInv,
             ConnectFailsInv, StartContainerInv, AppendContainerInv, NextRemovalInv,
             DisconnectInv, ReturnStepInv, KillInv DEF Continue
<1>3. CASE Listen
  <2>1. Listener \in Everyone
    BY DEF Everyone
  <2> QED BY <1>3, <2>1, HandleDisconnectInv, HandleConnectInv, ListenerRaisesInv,
             ListenerEndsInv, DisconnectInv, ReturnStepInv DEF Listen
<1>4. ASSUME NEW c \in Containers, Exits(c) PROVE TInv'
  BY <1>4, ExitsInv
<1>5. CASE ProxyRestarts
  BY <1>5, ProxyRestartsInv
<1>6. CASE UNCHANGED vars
  <2>1. UNCHANGED <<job, made, state, events, wire, ovs>> /\ UNCHANGED manager
        /\ UNCHANGED <<network, rest>>
    BY <1>6 DEF vars, docker, network, rest
  <2>2. Old' = Old /\ JobInv'
    BY <2>1, SameJobs DEF TInv, manager
  <2> QED BY <2>1, <2>2, Untouched DEF TInv
<1> QED BY <1>1, <1>2, <1>3, <1>4, <1>5, <1>6 DEF Next

LEMMA Types == TInv => TypeOK
<1> SUFFICES ASSUME TInv PROVE TypeOK
  OBVIOUS
<1>1. Old \subseteq Containers
  BY DEF Old
<1>2. Service(Old) \subseteq Service(Containers)
  BY <1>1, Wider DEF Service
<1>3. objects \in Seq(Service(Containers))
  BY <1>2, Wider DEF TInv, ObjectsInv
<1>4. job \in [Threads \cup {Listener} -> Job]
  BY DEF TInv, JobInv, Fitting, Everyone
<1> QED BY <1>3, <1>4 DEF TypeOK, Service, TInv, JobInv, ObjectsInv, DockerInv, RestInv

(* The addresses, the services, the requests and the events keep their     *)
(* types: no removal brings None to the pool, and no request names a       *)
(* container or a service that was not made.                               *)
THEOREM TypeCorrect == Spec => []TypeOK
<1>1. TInv /\ [Next]_vars => TInv'
  BY StepTypes
<1> QED BY <1>1, InitTypes, Types, PTL DEF Spec
-----------------------------------------------------------------------------
(* One holder                                                              *)

HInv == OneHolder /\ ReturnInv /\ KeptInv

(* What a step without an address does: it lends none and gives none back. *)
Quiet == /\ pool' \subseteq pool /\ UNCHANGED books /\ UNCHANGED kept
         /\ \A c \in Containers : wire'[c] \in {wire[c], None}
         /\ \A t \in Everyone : job'[t].at = "connect" => job'[t] = job[t]
         /\ \A t \in Everyone : job'[t].at = "return" => job'[t] = job[t]

LEMMA QuietKeeps ==
    ASSUME IInv, Quiet
    PROVE  HInv'
<1>1. None \notin Addresses /\ Reserved \in Addresses
  BY CloudAssumption
<1>2. ASSUME NEW x \in Addresses
      PROVE  /\ InHand(x)' \subseteq InHand(x) /\ InBooks(x)' = InBooks(x)
             /\ OnWire(x)' \subseteq OnWire(x)
  <2>1. InHand(x)' \subseteq InHand(x)
    BY DEF InHand, Quiet, Everyone
  <2>2. InBooks(x)' = InBooks(x)
    BY DEF InBooks, Quiet
  <2>3. OnWire(x)' \subseteq OnWire(x)
    BY <1>1 DEF OnWire, Quiet
  <2> QED BY <2>1, <2>2, <2>3
<1>3. pool' \subseteq pool
  BY DEF Quiet
<1>4. OneHolder'
  <2> SUFFICES ASSUME NEW x \in Addresses
               PROVE  /\ \A t, u \in InHand(x)' : t = u
                      /\ \A c, d \in InBooks(x)' : c = d
                      /\ \A c \in OnWire(x)' :
                            InHand(x)' = {} /\ x \notin pool' /\ InBooks(x)' \subseteq {c}
                      /\ InHand(x)' # {} => x \notin pool' /\ InBooks(x)' = {}
                      /\ InBooks(x)' # {} => x \notin pool'
                      /\ \A c, d \in OnWire(x)' : c = d
    BY DEF OneHolder
  <2> QED BY <1>2, <1>3 DEF IInv, OneHolder
<1>5. KeptInv'
  <2>1. kept' = kept
    BY DEF Quiet
  <2> QED BY <1>1, <1>2, <1>3, <2>1 DEF IInv, KeptInv
<1>6. ReturnInv'
  <2> SUFFICES ASSUME NEW t \in Everyone, job'[t].at = "return"
               PROVE  wire'[job'[t].c] = None /\ (job'[t].c = Proxy => ~kept')
    BY DEF ReturnInv
  <2>1. job'[t] = job[t] /\ kept' = kept
    BY DEF Quiet
  <2>2. job[t].c \in Containers
    BY <2>1, JobOf DEF IInv, TInv, Fitting, Old
  <2>3. wire[job[t].c] = None /\ (job[t].c = Proxy => ~kept)
    BY <2>1 DEF IInv, ReturnInv
  <2> QED BY <2>1, <2>2, <2>3 DEF Quiet
<1> QED BY <1>4, <1>5, <1>6 DEF HInv

(* A thread takes up a job without an address.                             *)
LEMMA QuietJob ==
    ASSUME IInv, NEW t \in Everyone, NEW j, Becomes(t, j), j.at \notin {"connect", "return"},
           pool' \subseteq pool, UNCHANGED <<books, kept, wire>>
    PROVE  HInv'
<1>1. \A u \in Everyone : job'[u] = IF u = t THEN j ELSE job[u]
  BY DEF Becomes, IInv, TInv, JobInv
<1>2. Quiet
  BY <1>1 DEF Quiet
<1> QED BY <1>2, QuietKeeps

LEMMA QuietSame ==
    ASSUME IInv, UNCHANGED <<job, books, kept>>, pool' \subseteq pool,
           \A c \in Containers : wire'[c] \in {wire[c], None}
    PROVE  HInv'
BY QuietKeeps DEF Quiet

LEMMA LendHolder ==
    ASSUME IInv, NEW t \in Threads, Lend(t)
    PROVE  HInv'
<1>1. PICK x \in Addresses \cup {None} :
         /\ Becomes(t, [job[t] EXCEPT !.at = "connect", !.c = made + 1, !.addr = x])
         /\ pool' = pool \ {x} /\ (x # None => x \in pool)
  <2>1. CASE pool = {}
    BY <2>1 DEF Lend
  <2>2. CASE pool # {}
    BY <2>2 DEF Lend, IInv, TInv, RestInv
  <2> QED BY <2>1, <2>2
<1> DEFINE j == [job[t] EXCEPT !.at = "connect", !.c = made + 1, !.addr = x]
<1>2. t \in Everyone /\ UNCHANGED <<books, wire, kept>>
  BY DEF Lend, rest, Everyone
<1>3. job[t] \in Job
  BY <1>2, JobOf DEF IInv, TInv
<1>4. j.at = "connect" /\ j.addr = x
  BY <1>3 DEF Job
<1>5. Becomes(t, j)
  BY <1>1
<1> HIDE DEF j
<1>6. \A u \in Everyone : job'[u] = IF u = t THEN j ELSE job[u]
  BY <1>5 DEF Becomes, IInv, TInv, JobInv
<1>7. ASSUME NEW y \in Addresses
      PROVE  /\ InHand(y)' \subseteq IF y = x THEN InHand(y) \cup {t} ELSE InHand(y)
             /\ InBooks(y)' = InBooks(y) /\ OnWire(y)' = OnWire(y)
  <2>1. InHand(y)' \subseteq IF y = x THEN InHand(y) \cup {t} ELSE InHand(y)
    BY <1>4, <1>6 DEF InHand, Everyone
  <2> QED BY <1>2, <2>1 DEF InBooks, OnWire
<1>8. OneHolder'
  <2> SUFFICES ASSUME NEW y \in Addresses
               PROVE  /\ \A u, v \in InHand(y)' : u = v
                      /\ \A c, d \in InBooks(y)' : c = d
                      /\ \A c \in OnWire(y)' :
                            InHand(y)' = {} /\ y \notin pool' /\ InBooks(y)' \subseteq {c}
                      /\ InHand(y)' # {} => y \notin pool' /\ InBooks(y)' = {}
                      /\ InBooks(y)' # {} => y \notin pool'
                      /\ \A c, d \in OnWire(y)' : c = d
    BY DEF OneHolder
  <2>1. CASE y = x
    <3>1. y \in pool
      BY <1>1, <2>1, Numbers
    <3>2. InHand(y) = {} /\ InBooks(y) = {} /\ OnWire(y) = {}
      BY <3>1 DEF IInv, OneHolder
    <3> QED BY <1>1, <1>7, <2>1, <3>2
  <2>2. CASE y # x
    BY <1>1, <1>7, <2>2 DEF IInv, OneHolder
  <2> QED BY <2>1, <2>2
<1>9. KeptInv'
  <2> SUFFICES ASSUME kept
               PROVE  /\ Reserved \notin pool' /\ InHand(Reserved)' = {}
                      /\ InBooks(Reserved)' \subseteq {Proxy} /\ OnWire(Reserved)' \subseteq {Proxy}
    BY <1>2 DEF KeptInv
  <2>1. Reserved \in Addresses /\ Reserved # None /\ Reserved \notin pool
    BY CloudAssumption DEF IInv, KeptInv
  <2>2. x # Reserved
    BY <1>1, <2>1
  <2> QED BY <1>1, <1>7, <2>1, <2>2 DEF IInv, KeptInv
<1>10. ReturnInv'
  BY <1>2, <1>4, <1>6 DEF IInv, ReturnInv
<1> QED BY <1>8, <1>9, <1>10 DEF HInv

LEMMA ConnectHolder ==
    ASSUME IInv, NEW t \in Threads, Connect(t)
    PROVE  HInv'
<1> DEFINE c == job[t].c
           x == job[t].addr
           j == [job[t] EXCEPT !.at = IF ovs THEN "append" ELSE "start", !.addr = None]
<1>1. /\ job[t].at = "connect" /\ x # None /\ Becomes(t, j)
      /\ wire' = [wire EXCEPT ![c] = x] /\ books' = [books EXCEPT ![c] = x]
      /\ UNCHANGED <<pool, kept>>
  BY DEF Connect, rest
<1>2. t \in Everyone /\ job[t] \in Fitting(Old, made, Len(objects)) /\ job[t] \in Job
  BY JobOf DEF IInv, TInv, Everyone
<1>3. x \in Addresses /\ c \notin Old /\ c \in Containers /\ c # Proxy
  <2>1. c \in 1..made
    BY <1>1, <1>2 DEF Fitting
  <2>2. c \notin Old
    BY <1>1, <1>2 DEF Old
  <2> QED BY <1>1, <1>2, <2>1, <2>2, Numbers DEF Job, Containers, Served, Proxy, IInv, TInv, JobInv
<1>4. j.at \in {"append", "start"}
  BY <1>2 DEF Job
<1> HIDE DEF j
<1>5. \A u \in Everyone : job'[u] = IF u = t THEN j ELSE job[u]
  BY <1>1 DEF Becomes, IInv, TInv, JobInv
<1>6. t \in InHand(x)
  BY <1>1, <1>2 DEF InHand, Everyone
<1>7. ASSUME NEW y \in Addresses
      PROVE  /\ InHand(y)' \subseteq InHand(y) \ {t}
             /\ InBooks(y)' \subseteq IF y = x THEN InBooks(y) \cup {c} ELSE InBooks(y)
             /\ OnWire(y)' \subseteq IF y = x THEN OnWire(y) \cup {c} ELSE OnWire(y)
  <2>1. InHand(y)' \subseteq InHand(y) \ {t}
    BY <1>4, <1>5 DEF InHand, Everyone
  <2>2. InBooks(y)' \subseteq IF y = x THEN InBooks(y) \cup {c} ELSE InBooks(y)
    BY <1>1, <1>3 DEF InBooks, IInv, TInv, RestInv
  <2>3. OnWire(y)' \subseteq IF y = x THEN OnWire(y) \cup {c} ELSE OnWire(y)
    BY <1>1, <1>3 DEF OnWire, IInv, TInv, RestInv
  <2> QED BY <2>1, <2>2, <2>3
<1>8. OneHolder'
  <2> SUFFICES ASSUME NEW y \in Addresses
               PROVE  /\ \A u, v \in InHand(y)' : u = v
                      /\ \A d, e \in InBooks(y)' : d = e
                      /\ \A d \in OnWire(y)' :
                            InHand(y)' = {} /\ y \notin pool' /\ InBooks(y)' \subseteq {d}
                      /\ InHand(y)' # {} => y \notin pool' /\ InBooks(y)' = {}
                      /\ InBooks(y)' # {} => y \notin pool'
                      /\ \A d, e \in OnWire(y)' : d = e
    BY DEF OneHolder
  <2>1. CASE y = x
    <3>1. InHand(y) = {t} /\ InBooks(y) = {} /\ OnWire(y) = {} /\ y \notin pool
      BY <1>6, <2>1 DEF IInv, OneHolder
    <3>2. InHand(y)' = {} /\ InBooks(y)' \subseteq {c} /\ OnWire(y)' \subseteq {c} /\ y \notin pool'
      BY <1>1, <1>7, <2>1, <3>1
    <3> HIDE DEF c, x
    <3> QED BY <3>2
  <2>2. CASE y # x
    BY <1>1, <1>7, <2>2 DEF IInv, OneHolder
  <2> QED BY <2>1, <2>2
<1>9. KeptInv'
  <2> SUFFICES ASSUME kept
               PROVE  /\ Reserved \notin pool' /\ InHand(Reserved)' = {}
                      /\ InBooks(Reserved)' \subseteq {Proxy} /\ OnWire(Reserved)' \subseteq {Proxy}
    BY <1>1 DEF KeptInv
  <2>1. Reserved \in Addresses /\ Reserved \notin pool /\ InHand(Reserved) = {}
    BY CloudAssumption DEF IInv, KeptInv
  <2>2. x # Reserved
    BY <1>6, <2>1
  <2> QED BY <1>1, <1>7, <2>1, <2>2 DEF IInv, KeptInv
<1>10. ReturnInv'
  <2> SUFFICES ASSUME NEW u \in Everyone, job'[u].at = "return"
               PROVE  wire'[job'[u].c] = None /\ (job'[u].c = Proxy => ~kept')
    BY DEF ReturnInv
  <2>1. job'[u] = job[u]
    BY <1>4, <1>5
  <2>2. job[u].c \in Old
    BY <2>1, JobOf DEF IInv, TInv, Fitting
  <2>3. job[u].c # c
    BY <1>3, <2>2
  <2>4. wire[job[u].c] = None /\ (job[u].c = Proxy => ~kept)
    BY <2>1 DEF IInv, ReturnInv
  <2>5. job[u].c \in Containers
    BY <2>2 DEF Old
  <2> QED BY <1>1, <2>1, <2>3, <2>4, <2>5 DEF IInv, TInv, RestInv
<1> QED BY <1>8, <1>9, <1>10 DEF HInv

LEMMA DisconnectHolder ==
    ASSUME IInv, NEW t \in Everyone, Disconnect(t)
    PROVE  HInv'
<1> DEFINE c == job[t].c
<1>1. /\ job[t].at = "disconnect" /\ wire' = [wire EXCEPT ![c] = None]
      /\ UNCHANGED <<pool, books>> /\ kept' = (kept /\ c # Proxy)
  BY DEF Disconnect
<1>2. PICK a \in {"next", "return"} : Becomes(t, [job[t] EXCEPT !.at = a])
  BY DEF Disconnect
<1>3. job[t] \in Job /\ c \in Containers
  BY <1>1, JobOf DEF IInv, TInv, Fitting, Old
<1>4. \A u \in Everyone : IF u = t THEN job'[u].at = a /\ job'[u].c = c ELSE job'[u] = job[u]
  BY <1>2, <1>3 DEF Becomes, IInv, TInv, JobInv, Job
<1>5. \A d \in Containers : wire'[d] = IF d = c THEN None ELSE wire[d]
  BY <1>1 DEF IInv, TInv, RestInv
<1>6. None \notin Addresses /\ Reserved \in Addresses
  BY CloudAssumption
<1>7. ASSUME NEW y \in Addresses
      PROVE  /\ InHand(y)' \subseteq InHand(y) /\ InBooks(y)' = InBooks(y)
             /\ OnWire(y)' \subseteq OnWire(y)
  <2>1. InHand(y)' \subseteq InHand(y)
    BY <1>4 DEF InHand, Everyone
  <2>2. InBooks(y)' = InBooks(y)
    BY <1>1 DEF InBooks
  <2>3. OnWire(y)' \subseteq OnWire(y)
    BY <1>5, <1>6 DEF OnWire
  <2> QED BY <2>1, <2>2, <2>3
<1>8. OneHolder'
  <2> SUFFICES ASSUME NEW x \in Addresses
               PROVE  /\ \A u, v \in InHand(x)' : u = v
                      /\ \A d, e \in InBooks(x)' : d = e
                      /\ \A d \in OnWire(x)' :
                            InHand(x)' = {} /\ x \notin pool' /\ InBooks(x)' \subseteq {d}
                      /\ InHand(x)' # {} => x \notin pool' /\ InBooks(x)' = {}
                      /\ InBooks(x)' # {} => x \notin pool'
                      /\ \A d, e \in OnWire(x)' : d = e
    BY DEF OneHolder
  <2> QED BY <1>1, <1>7 DEF IInv, OneHolder
<1>9. KeptInv'
  BY <1>1, <1>6, <1>7 DEF IInv, KeptInv
<1>10. ReturnInv'
  <2> SUFFICES ASSUME NEW u \in Everyone, job'[u].at = "return"
               PROVE  wire'[job'[u].c] = None /\ (job'[u].c = Proxy => ~kept')
    BY DEF ReturnInv
  <2>1. CASE u = t
    BY <1>1, <1>3, <1>4, <1>5, <2>1
  <2>2. CASE u # t
    <3>1. job'[u] = job[u]
      BY <1>4, <2>2
    <3>2. job[u].c \in Containers
      BY <3>1, JobOf DEF IInv, TInv, Fitting, Old
    <3>3. wire[job[u].c] = None /\ (job[u].c = Proxy => ~kept)
      BY <3>1 DEF IInv, ReturnInv
    <3> QED BY <1>1, <1>5, <3>1, <3>2, <3>3
  <2> QED BY <2>1, <2>2
<1> QED BY <1>8, <1>9, <1>10 DEF HInv

(* The address of a container that is on the network no more has no other  *)
(* holder, and is not the one Docker keeps for the proxy.                  *)
LEMMA ReturnHolder ==
    ASSUME IInv, NEW t \in Everyone, Return(t)
    PROVE  HInv'
<1> DEFINE c == job[t].c
           x == books[c]
<1>1. /\ job[t].at = "return" /\ books' = [books EXCEPT ![c] = None]
      /\ pool' = IF x = None THEN pool ELSE pool \cup {x}
      /\ UNCHANGED <<wire, kept>>
      /\ Becomes(t, IF job[t].op = "event" THEN Idle ELSE [job[t] EXCEPT !.at = "kill"])
  BY DEF Return, rest
<1>2. job[t] \in Job /\ c \in Containers
  BY <1>1, JobOf DEF IInv, TInv, Fitting, Old
<1>3. \A u \in Everyone : IF u = t THEN job'[u].at \notin {"connect", "return"}
                                   ELSE job'[u] = job[u]
  BY <1>1, <1>2 DEF Becomes, IInv, TInv, JobInv, Job, Idle
<1>4. \A d \in Containers : books'[d] = IF d = c THEN None ELSE books[d]
  BY <1>1 DEF IInv, TInv, RestInv
<1>5. None \notin Addresses /\ Reserved \in Addresses
  BY CloudAssumption
<1>6. ASSUME NEW y \in Addresses
      PROVE  /\ InHand(y)' \subseteq InHand(y) /\ InBooks(y)' \subseteq InBooks(y) \ {c}
             /\ OnWire(y)' = OnWire(y)
  <2>1. InHand(y)' \subseteq InHand(y)
    BY <1>3 DEF InHand, Everyone
  <2>2. InBooks(y)' \subseteq InBooks(y) \ {c}
    BY <1>4, <1>5 DEF InBooks
  <2>3. OnWire(y)' = OnWire(y)
    BY <1>1 DEF OnWire
  <2> QED BY <2>1, <2>2, <2>3
<1>7. wire[c] = None /\ (c = Proxy => ~kept)
  BY <1>1 DEF IInv, ReturnInv
<1>8. OneHolder'
  <2> SUFFICES ASSUME NEW y \in Addresses
               PROVE  /\ \A u, v \in InHand(y)' : u = v
                      /\ \A d, e \in InBooks(y)' : d = e
                      /\ \A d \in OnWire(y)' :
                            InHand(y)' = {} /\ y \notin pool' /\ InBooks(y)' \subseteq {d}
                      /\ InHand(y)' # {} => y \notin pool' /\ InBooks(y)' = {}
                      /\ InBooks(y)' # {} => y \notin pool'
                      /\ \A d, e \in OnWire(y)' : d = e
    BY DEF OneHolder
  <2>1. CASE y = x
    <3>1. c \in InBooks(y)
      BY <1>2, <2>1 DEF InBooks
    <3>2. InBooks(y) = {c} /\ InHand(y) = {}
      BY <3>1 DEF IInv, OneHolder
    <3>3. OnWire(y) = {}
      <4>1. \A d \in OnWire(y) : InBooks(y) \subseteq {d}
        BY DEF IInv, OneHolder
      <4>2. c \notin OnWire(y)
        BY <1>5, <1>7 DEF OnWire
      <4> QED BY <3>1, <4>1, <4>2
    <3>4. InHand(y)' = {} /\ InBooks(y)' = {} /\ OnWire(y)' = {}
      BY <1>6, <3>2, <3>3
    <3> HIDE DEF c, x
    <3> QED BY <3>4
  <2>2. CASE y # x
    <3>1. y \in pool' => y \in pool
      BY <1>1, <2>2
    <3> HIDE DEF c, x
    <3> QED BY <1>6, <3>1 DEF IInv, OneHolder
  <2> QED BY <2>1, <2>2
<1>9. KeptInv'
  <2> SUFFICES ASSUME kept
               PROVE  /\ Reserved \notin pool' /\ InHand(Reserved)' = {}
                      /\ InBooks(Reserved)' \subseteq {Proxy} /\ OnWire(Reserved)' \subseteq {Proxy}
    BY <1>1 DEF KeptInv
  <2>1. x # Reserved
    BY <1>2, <1>7 DEF IInv, KeptInv, InBooks
  <2> QED BY <1>1, <1>5, <1>6, <2>1 DEF IInv, KeptInv
<1>10. ReturnInv'
  BY <1>1, <1>3 DEF IInv, ReturnInv
<1> QED BY <1>8, <1>9, <1>10 DEF HInv

LEMMA ProxyHolder ==
    ASSUME IInv, ProxyRestarts
    PROVE  HInv'
<1>1. UNCHANGED <<pool, books, job, kept>>
  BY DEF ProxyRestarts
<1>2. CASE UNCHANGED wire
  BY <1>1, <1>2, QuietSame
<1>3. CASE kept /\ wire' = [wire EXCEPT ![Proxy] = Reserved]
  <2>1. /\ Reserved \in Addresses /\ Reserved \notin pool /\ InHand(Reserved) = {}
        /\ InBooks(Reserved) \subseteq {Proxy} /\ OnWire(Reserved) \subseteq {Proxy}
    BY <1>3, CloudAssumption DEF IInv, KeptInv
  <2>2. ASSUME NEW y \in Addresses
        PROVE  /\ InHand(y)' = InHand(y) /\ InBooks(y)' = InBooks(y)
               /\ OnWire(y)' \subseteq IF y = Reserved THEN {Proxy} ELSE OnWire(y)
    <3>1. OnWire(y)' \subseteq IF y = Reserved THEN {Proxy} ELSE OnWire(y)
      BY <1>3, <2>1 DEF OnWire, IInv, TInv, RestInv
    <3> QED BY <1>1, <3>1 DEF InHand, InBooks
  <2>3. OneHolder'
    <3> SUFFICES ASSUME NEW y \in Addresses
                 PROVE  /\ \A u, v \in InHand(y)' : u = v
                        /\ \A d, e \in InBooks(y)' : d = e
                        /\ \A d \in OnWire(y)' :
                              InHand(y)' = {} /\ y \notin pool' /\ InBooks(y)' \subseteq {d}
                        /\ InHand(y)' # {} => y \notin pool' /\ InBooks(y)' = {}
                        /\ InBooks(y)' # {} => y \notin pool'
                        /\ \A d, e \in OnWire(y)' : d = e
      BY DEF OneHolder
    <3>1. CASE y = Reserved
      BY <1>1, <2>1, <2>2, <3>1
    <3>2. CASE y # Reserved
      BY <1>1, <2>2, <3>2 DEF IInv, OneHolder
    <3> QED BY <3>1, <3>2
  <2>4. KeptInv'
    BY <1>1, <2>1, <2>2 DEF KeptInv
  <2>5. ReturnInv'
    <3> SUFFICES ASSUME NEW t \in Everyone, job[t].at = "return"
                 PROVE  wire'[job[t].c] = None /\ (job[t].c = Proxy => ~kept)
      BY <1>1 DEF ReturnInv
    <3>1. wire[job[t].c] = None /\ job[t].c # Proxy
      BY <1>3 DEF IInv, ReturnInv
    <3> QED BY <1>3, <3>1 DEF IInv, TInv, RestInv
  <2> QED BY <2>3, <2>4, <2>5 DEF HInv
<1> QED BY <1>2, <1>3 DEF ProxyRestarts

LEMMA InitHolder == Init => HInv
<1> SUFFICES ASSUME Init PROVE HInv
  OBVIOUS
<1>1. /\ pool = Addresses \ {Reserved} /\ wire = books
      /\ books = [c \in Containers |-> IF c = Proxy THEN Reserved ELSE None]
      /\ \A t \in Everyone : job[t].at = "idle"
  BY DEF Init, Idle, Everyone
<1>2. None \notin Addresses /\ Reserved \in Addresses
  BY CloudAssumption
<1>3. ASSUME NEW x \in Addresses
      PROVE  /\ InHand(x) = {} /\ OnWire(x) = InBooks(x)
             /\ InBooks(x) \subseteq IF x = Reserved THEN {Proxy} ELSE {}
  BY <1>1, <1>2 DEF InHand, OnWire, InBooks, Everyone
<1>4. OneHolder
  <2> SUFFICES ASSUME NEW y \in Addresses
               PROVE  /\ \A u, v \in InHand(y) : u = v
                      /\ \A d, e \in InBooks(y) : d = e
                      /\ \A d \in OnWire(y) :
                            InHand(y) = {} /\ y \notin pool /\ InBooks(y) \subseteq {d}
                      /\ InHand(y) # {} => y \notin pool /\ InBooks(y) = {}
                      /\ InBooks(y) # {} => y \notin pool
                      /\ \A d, e \in OnWire(y) : d = e
    BY DEF OneHolder
  <2> QED BY <1>1, <1>3
<1>5. KeptInv
  BY <1>1, <1>2, <1>3 DEF KeptInv
<1>6. ReturnInv
  BY <1>1 DEF ReturnInv
<1> QED BY <1>4, <1>5, <1>6 DEF HInv

LEMMA StepHolder == IInv /\ [Next]_vars => HInv'
<1> SUFFICES ASSUME IInv, [Next]_vars PROVE HInv'
  OBVIOUS
<1>1. ASSUME NEW t \in Threads, Request(t) \/ Continue(t) PROVE HInv'
  <2>1. t \in Everyone
    BY DEF Everyone
  <2>2. ASSUME NEW j, Becomes(t, j), j.at \notin {"connect", "return"},
               UNCHANGED <<network, rest>>
        PROVE  HInv'
    BY <2>1, <2>2, QuietJob DEF network, rest
  <2>3. job[t] \in Job
    BY <2>1, JobOf DEF IInv, TInv
  <2>4. ASSUME NEW n \in Names, NEW p \in Ports, NEW k \in 1..MaxScale,
               StartService(t, n, p, k)
        PROVE  HInv'
    <3> DEFINE j == [Idle EXCEPT !.at = "lend", !.op = "start",
                                 !.o = Len(objects) + 1, !.left = k]
    <3>1. j.at \notin {"connect", "return"}
      BY DEF Idle
    <3>2. Becomes(t, j) /\ UNCHANGED <<network, rest>>
      BY <2>4 DEF StartService
    <3> HIDE DEF j
    <3> QED BY <2>2, <3>1, <3>2
  <2>5. ASSUME NEW n \in Names, NEW k \in 1..MaxScale, ScaleService(t, n, k) PROVE HInv'
    <3>1. PICK list \in Running(objects[services[n]].list) :
             Becomes(t, IF k > Len(list)
                        THEN [Idle EXCEPT !.at = "lend", !.op = "grow", !.o = services[n],
                                          !.left = k - Len(list)]
                        ELSE [Idle EXCEPT !.at = "next", !.op = "shrink", !.o = services[n],
                                          !.todo = SubSeq(list, k + 1, Len(list))])
      BY <2>5 DEF ScaleService
    <3> DEFINE j == IF k > Len(list)
                    THEN [Idle EXCEPT !.at = "lend", !.op = "grow", !.o = services[n],
                                      !.left = k - Len(list)]
                    ELSE [Idle EXCEPT !.at = "next", !.op = "shrink", !.o = services[n],
                                      !.todo = SubSeq(list, k + 1, Len(list))]
    <3>2. j.at \notin {"connect", "return"}
      BY DEF Idle
    <3>3. Becomes(t, j) /\ UNCHANGED <<network, rest>>
      BY <2>5, <3>1 DEF ScaleService
    <3> HIDE DEF j
    <3> QED BY <2>2, <3>2, <3>3
  <2>6. ASSUME NEW n \in Names, ShowService(t, n) PROVE HInv'
    BY <2>6, QuietSame DEF ShowService, network, rest
  <2>7. ASSUME NEW n \in Names, StopService(t, n) PROVE HInv'
    <3> DEFINE j == [Idle EXCEPT !.at = "next", !.op = "stop", !.o = services[n],
                                 !.todo = objects[services[n]].list]
    <3>1. j.at \notin {"connect", "return"}
      BY DEF Idle
    <3>2. Becomes(t, j) /\ UNCHANGED <<network, rest>>
      BY <2>7 DEF StopService
    <3> HIDE DEF j
    <3> QED BY <2>2, <3>1, <3>2
  <2>8. CASE Becomes(t, Idle) /\ UNCHANGED <<network, rest>>
    BY <2>2, <2>8 DEF Idle
  <2>9. CASE StartServiceEnds(t) \/ GrowEnds(t) \/ RemovalEnds(t)
    BY <2>8, <2>9 DEF StartServiceEnds, GrowEnds, RemovalEnds
  <2>10. CASE ConnectFails(t) \/ StartContainer(t) \/ AppendContainer(t)
    <3> DEFINE s == [job[t] EXCEPT !.at = "append"]
               f == [job[t] EXCEPT !.at = "append", !.addr = None]
               g == NextOne(job[t], "lend")
    <3>1. /\ s.at \notin {"connect", "return"} /\ f.at \notin {"connect", "return"}
          /\ g.at \notin {"connect", "return"}
      BY <2>3 DEF Job, NextOne
    <3>2. Becomes(t, s) \/ Becomes(t, f) \/ Becomes(t, g)
      BY <2>10 DEF ConnectFails, StartContainer, AppendContainer
    <3>3. UNCHANGED <<network, rest>>
      BY <2>10 DEF ConnectFails, StartContainer, AppendContainer
    <3> HIDE DEF s, f, g
    <3> QED BY <2>2, <3>1, <3>2, <3>3
  <2>11. CASE NextRemoval(t) \/ Kill(t)
    <3> DEFINE r == [job[t] EXCEPT !.at = "disconnect", !.c = Head(job[t].todo),
                                   !.todo = Tail(job[t].todo)]
               l == [job[t] EXCEPT !.at = "next", !.c = None]
    <3>1. r.at \notin {"connect", "return"} /\ l.at \notin {"connect", "return"}
      BY <2>3 DEF Job
    <3>2. Becomes(t, r) \/ Becomes(t, l)
      BY <2>11 DEF NextRemoval, Kill
    <3>3. UNCHANGED <<network, rest>>
      BY <2>11 DEF NextRemoval, Kill
    <3> HIDE DEF r, l
    <3> QED BY <2>2, <3>1, <3>2, <3>3
  <2>12. CASE Lend(t) \/ Connect(t) \/ Disconnect(t) \/ Return(t)
    BY <2>1, <2>12, LendHolder, ConnectHolder, DisconnectHolder, ReturnHolder
  <2> QED BY <1>1, <2>4, <2>5, <2>6, <2>7, <2>9, <2>10, <2>11, <2>12 DEF Request, Continue
<1>2. CASE Listen
  <2>1. Listener \in Everyone
    BY DEF Everyone
  <2>2. CASE HandleDisconnect
    <3> DEFINE d == [Idle EXCEPT !.at = "disconnect", !.op = "event", !.c = Head(events).c]
    <3>1. d.at \notin {"connect", "return"} /\ Idle.at \notin {"connect", "return"}
      BY DEF Idle
    <3>2. Becomes(Listener, Idle) \/ Becomes(Listener, d)
      BY <2>2 DEF HandleDisconnect
    <3>3. UNCHANGED <<network, rest>>
      BY <2>2 DEF HandleDisconnect
    <3> HIDE DEF d
    <3> QED BY <2>1, <3>1, <3>2, <3>3, QuietJob DEF network, rest
  <2>3. CASE HandleConnect
    BY <2>3, QuietSame DEF HandleConnect, network, rest
  <2>4. CASE ListenerRaises
    BY <2>4, QuietSame DEF ListenerRaises
  <2>5. CASE ListenerEnds
    BY <2>5, QuietSame DEF ListenerEnds, network
  <2> QED BY <1>2, <2>1, <2>2, <2>3, <2>4, <2>5, DisconnectHolder, ReturnHolder DEF Listen
<1>3. ASSUME NEW c \in Containers, Exits(c) PROVE HInv'
  <2>1. UNCHANGED <<job, books, kept, pool>>
    BY <1>3 DEF Exits, rest
  <2>2. \A d \in Containers : wire'[d] \in {wire[d], None}
    BY <1>3 DEF Exits, IInv, TInv, RestInv
  <2> QED BY <2>1, <2>2, QuietSame
<1>4. CASE ProxyRestarts
  BY <1>4, ProxyHolder
<1>5. CASE UNCHANGED vars
  BY <1>5, QuietSame DEF vars, network, rest
<1> QED BY <1>1, <1>2, <1>3, <1>4, <1>5 DEF Next

(* An address has one holder at a time, the pool, a request or a container,*)
(* whatever requests, exits, restarts of the proxy and events interleave,  *)
(* on either driver.                                                       *)
THEOREM Holder == Spec => []OneHolder
<1>1. Init => IInv
  BY InitTypes, InitHolder DEF IInv, HInv
<1>2. IInv /\ [Next]_vars => IInv'
  BY StepTypes, StepHolder DEF IInv, HInv
<1>3. IInv => OneHolder
  BY DEF IInv
<1> QED BY <1>1, <1>2, <1>3, PTL DEF Spec
=============================================================================
