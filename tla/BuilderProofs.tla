---------------------------- MODULE BuilderProofs ----------------------------
(***************************************************************************)
(* Proofs about the two halves of gbuilder, for any devices and bounds.    *)
(*                                                                         *)
(* Session: the types, and that what init found out serves the start that  *)
(* came with it.  It rests on how commands lie in the stream to the        *)
(* server: the window sends init and start together, so that a start       *)
(* follows each init that the server has yet to read (Paired).             *)
(*                                                                         *)
(* Topology: the types, and that interfaces follow links.  It rests on     *)
(* what a connection tells its ends: exactly the pairs of devices that it  *)
(* joins and that were not joined in that way before (ToldIs), by which    *)
(* loading, connecting and cutting keep the interfaces in step.            *)
(***************************************************************************)
EXTENDS Session, Topology, FiniteSetTheorems, WellFoundedInduction, TLAPS

WindowInv ==
    /\ running \in BOOLEAN /\ recovery \in BOOLEAN /\ refreshing \in BOOLEAN
    /\ paused \in BOOLEAN /\ ticking \in BOOLEAN
    /\ light \in [Devices -> Statuses \cup {"none"}]
LinkInv == /\ link \in {"none", "live", "broken"} /\ up \in BOOLEAN
           /\ link = "live" => up
           /\ toServer \in Seq(Commands) /\ toClient \in Seq(Devices \X Statuses)
ServerInv == /\ detected \in BOOLEAN /\ timer \in BOOLEAN
             /\ status \in Reports \cup {NoReport}
ManagerInv == going \in BOOLEAN /\ listed \in Reports /\ thread \in {"off", "top", "listed"}
MachineInv == alive \subseteq Devices /\ jobs \in Seq(Jobs) /\ setup \in BOOLEAN
BoundsInv == clicks \in 0..MaxClicks /\ faults \in 0..MaxFaults

TInv == WindowInv /\ LinkInv /\ ServerInv /\ ManagerInv /\ MachineInv /\ BoundsInv

linkVars == <<link, up, toServer, toClient>>
serverVars == <<detected, timer, status>>

(* What a step leaves alone keeps its part.                                *)
LEMMA Unchanged ==
    ASSUME TInv
    PROVE  /\ UNCHANGED window => WindowInv'
           /\ UNCHANGED linkVars => LinkInv'
           /\ UNCHANGED serverVars => ServerInv'
           /\ UNCHANGED manager => ManagerInv'
           /\ UNCHANGED machine => MachineInv'
           /\ UNCHANGED bounds => BoundsInv'
BY DEF TInv, WindowInv, LinkInv, ServerInv, ManagerInv, MachineInv, BoundsInv,
       window, linkVars, serverVars, manager, machine, bounds
-----------------------------------------------------------------------------
(* Sequences.                                                              *)

LEMMA EmptySeq == ASSUME NEW S PROVE <<>> \in Seq(S)
OBVIOUS

LEMMA HeadTail ==
    ASSUME NEW S, NEW q \in Seq(S), q # <<>>
    PROVE  Head(q) \in S /\ Tail(q) \in Seq(S)
OBVIOUS

LEMMA Appended ==
    ASSUME NEW S, NEW q \in Seq(S), NEW e \in S
    PROVE  Append(q, e) \in Seq(S)
OBVIOUS

LEMMA JoinedList ==
    ASSUME NEW S, NEW p \in Seq(S), NEW q \in Seq(S)
    PROVE  p \o q \in Seq(S)
OBVIOUS

LEMMA Removed ==
    ASSUME NEW S, NEW q \in Seq(S), NEW i \in DOMAIN q
    PROVE  RemoveAt(q, i) \in Seq(S)
<1>1. i \in 1..Len(q)
  OBVIOUS
<1>2. SubSeq(q, 1, i - 1) \in Seq(S)
  BY <1>1
<1>3. SubSeq(q, i + 1, Len(q)) \in Seq(S)
  BY <1>1
<1> QED BY <1>2, <1>3, JoinedList DEF RemoveAt

LEMMA Replaced ==
    ASSUME NEW S, NEW q \in Seq(S), NEW i \in DOMAIN q, NEW e \in S
    PROVE  [q EXCEPT ![i] = e] \in Seq(S)
OBVIOUS

(* The known devices in some order, each with its status.                  *)
LEMMA StatusList ==
    ASSUME NEW r \in Reports
    PROVE  LET known == SetToSeq(DOMAIN r) IN
           [k \in DOMAIN known |-> <<known[k], r[known[k]]>>] \in Seq(Devices \X Statuses)
<1> DEFINE D == DOMAIN r
           n == Cardinality(D)
<1>1. D \subseteq Devices /\ r \in [D -> Statuses]
  BY DEF Reports
<1>2. IsFiniteSet(D)
  BY <1>1, SessionAssumption, FS_Subset
<1>3. n \in Nat /\ ExistsBijection(1..n, D)
  BY <1>2, FS_CardinalityType
<1>4. \E f \in [1..n -> D] : IsInjective(f)
  BY <1>3 DEF ExistsBijection, Bijection, Injection
<1>5. SetToSeq(D) \in [1..n -> D]
  BY <1>4 DEF SetToSeq
<1> DEFINE known == SetToSeq(D)
           list == [k \in DOMAIN known |-> <<known[k], r[known[k]]>>]
<1> HIDE DEF known
<1>6. known \in [1..n -> D]
  BY <1>5 DEF known
<1> HIDE DEF n, D
<1>7. ASSUME NEW k \in 1..n PROVE <<known[k], r[known[k]]>> \in Devices \X Statuses
  <2>1. known[k] \in D
    BY ONLY <1>6, k \in 1..n
  <2> QED BY ONLY <1>1, <2>1
<1>8. list \in [1..n -> Devices \X Statuses]
  BY ONLY <1>6, <1>7
<1>9. list \in Seq(Devices \X Statuses)
  <2> HIDE DEF list
  <2> QED BY ONLY <1>3, <1>8
<1> QED BY <1>9, Zenon DEF known, D
-----------------------------------------------------------------------------
(* The window.                                                             *)

LEMMA SendInv ==
    ASSUME TInv, up, NEW cmds \in Seq(Commands), Send(cmds), UNCHANGED <<up, toClient>>
    PROVE  LinkInv'
<1>1. toServer \o cmds \in Seq(Commands)
  BY JoinedList DEF TInv, LinkInv
<1> QED BY <1>1 DEF Send, TInv, LinkInv

LEMMA ClickInv == ASSUME TInv, Click PROVE BoundsInv'
BY SessionAssumption DEF Click, TInv, BoundsInv

LEMMA FaultInv == ASSUME TInv, Fault PROVE BoundsInv'
BY SessionAssumption DEF Fault, TInv, BoundsInv

LEMMA WindowStep ==
    ASSUME TInv, User \/ StartClient \/ Refresh \/ Receive \/ DisplayError
    PROVE  TInv'
<1>1. CASE StartServer
  <2>1. LinkInv' /\ BoundsInv'
    BY <1>1, ClickInv DEF StartServer, TInv, LinkInv
  <2> QED BY <1>1, <2>1, Unchanged DEF StartServer, TInv, serverVars
<1>2. CASE Run
  <2>1. <<"init", "start">> \in Seq(Commands)
    BY DEF Commands
  <2>2. LinkInv' /\ BoundsInv'
    BY <1>2, <2>1, SendInv, ClickInv DEF Run, server
  <2>3. WindowInv'
    BY <1>2 DEF Run, TInv, WindowInv
  <2> QED BY <1>2, <2>2, <2>3, Unchanged DEF Run, TInv, server, serverVars, manager
<1>3. CASE Stop
  <2>1. <<"stop">> \in Seq(Commands)
    BY DEF Commands
  <2>2. LinkInv' /\ BoundsInv'
    BY <1>3, <2>1, SendInv, ClickInv DEF Stop, server
  <2>3. WindowInv'
    BY <1>3 DEF Stop, Stopped, TInv, WindowInv
  <2> QED BY <1>3, <2>2, <2>3, Unchanged DEF Stop, TInv, server, serverVars, manager
<1>4. CASE StartClient
  <2>1. LinkInv'
    BY <1>4 DEF StartClient, server, TInv, LinkInv
  <2> QED BY <1>4, <2>1, Unchanged DEF StartClient, TInv, server, serverVars, manager
<1>5. CASE Refresh
  <2>1. WindowInv'
    BY <1>5 DEF Refresh, Stopped, TInv, WindowInv
  <2> QED BY <1>5, <2>1, Unchanged DEF Refresh, TInv, server, serverVars, linkVars, manager
<1>6. CASE Receive
  <2> DEFINE m == Head(toClient)
             ends == m[2] = "" /\ light[m[1]] # ""
  <2>1. m \in Devices \X Statuses /\ Tail(toClient) \in Seq(Devices \X Statuses)
    BY <1>6, HeadTail, Zenon DEF Receive, TInv, LinkInv
  <2>2. light' \in [Devices -> Statuses \cup {"none"}]
    BY <1>6, <2>1 DEF Receive, TInv, WindowInv
  <2>3. refreshing' \in BOOLEAN /\ paused' \in BOOLEAN
    <3>1. refreshing' = (refreshing /\ ~ends) /\ paused' = (paused /\ ~ends)
      BY <1>6, Zenon DEF Receive
    <3> HIDE DEF ends
    <3> QED BY <3>1, Zenon
  <2>4. LinkInv'
    BY <1>6, <2>1 DEF Receive, server, TInv, LinkInv
  <2>5. WindowInv'
    BY <1>6, <2>2, <2>3 DEF Receive, TInv, WindowInv
  <2> QED BY <1>6, <2>4, <2>5, Unchanged DEF Receive, TInv, server, serverVars, manager
<1>7. CASE DisplayError
  <2>1. recovery' \in BOOLEAN /\ paused' \in BOOLEAN
    <3>1. recovery' = (recovery \/ running) /\ paused' = (paused \/ running)
      BY <1>7 DEF DisplayError
    <3> QED BY <3>1, Zenon
  <2>2. WindowInv' /\ LinkInv'
    BY <1>7, <2>1 DEF DisplayError, server, TInv, WindowInv, LinkInv
  <2> QED BY <1>7, <2>2, Unchanged DEF DisplayError, TInv, server, serverVars, manager
<1> QED BY <1>1, <1>2, <1>3, <1>4, <1>5, <1>6, <1>7 DEF User
-----------------------------------------------------------------------------
(* The server and its task manager.                                        *)

LEMMA SpawnInv ==
    ASSUME TInv, NEW op \in {"create", "destroy"}, Spawn(op), UNCHANGED <<alive, setup>>
    PROVE  MachineInv'
<1>1. [op |-> op, at |-> "begin", todo |-> Devices] \in Jobs
  BY DEF Jobs
<1> QED BY <1>1, Appended DEF Spawn, TInv, MachineInv

LEMMA HandleInv ==
    ASSUME TInv, Handle
    PROVE  TInv'
<1>1. LinkInv'
  <2>1. Tail(toServer) \in Seq(Commands)
    BY HeadTail, Zenon DEF Handle, TInv, LinkInv
  <2> QED BY <2>1 DEF Handle, TInv, LinkInv
<1>2. ServerInv' /\ ManagerInv' /\ MachineInv'
  <2>0. status' = status
    BY DEF Handle
  <2>1. CASE HandleInit
    <3>1. detected' \in BOOLEAN
      <4>1. detected' = (detected \/ Seen \cap alive # {})
        BY <2>1 DEF HandleInit
      <4> QED BY <4>1, Zenon
    <3> QED BY <2>0, <2>1, <3>1, Unchanged DEF HandleInit, TInv, ServerInv
  <2>2. CASE HandleStart
    <3>1. MachineInv'
      BY <2>2, SpawnInv, Unchanged DEF HandleStart, machine
    <3>2. <<>> \in Reports
      <4>1. <<>> \in [{} -> Statuses]
        OBVIOUS
      <4> QED BY <4>1 DEF Reports
    <3>3. ManagerInv'
      BY <2>2, <3>2, Unchanged DEF HandleStart, ManagerInv
    <3> QED BY <2>0, <2>2, <3>1, <3>3 DEF HandleStart, TInv, ServerInv
  <2>3. CASE HandleStop
    BY <2>0, <2>3, SpawnInv, Unchanged DEF HandleStop, serverVars
  <2> QED BY <2>1, <2>2, <2>3 DEF Handle
<1> QED BY <1>1, <1>2, Unchanged DEF Handle, TInv

LEMMA ServerStep ==
    ASSUME TInv, Report \/ List \/ ReportStatus \/ Die
    PROVE  TInv'
<1>1. CASE Report
  <2>1. status \in Reports
    BY <1>1 DEF Report, TInv, ServerInv
  <2> DEFINE known == SetToSeq(DOMAIN status)
             news == [k \in DOMAIN known |-> <<known[k], status[known[k]]>>]
  <2>2. news \in Seq(Devices \X Statuses)
    BY <2>1, StatusList
  <2>3. toClient' = toClient \o news \/ toClient' = toClient
    BY <1>1, Zenon DEF Report
  <2> HIDE DEF news
  <2>4. toClient' \in Seq(Devices \X Statuses)
    BY <2>2, <2>3, JoinedList DEF TInv, LinkInv
  <2>5. LinkInv'
    BY <1>1, <2>4 DEF Report, TInv, LinkInv
  <2>6. timer' \in BOOLEAN
    <3>1. timer' = ("" \notin Range(status))
      BY <1>1 DEF Report
    <3> QED BY <3>1, Zenon
  <2>7. [d \in DOMAIN status |-> ""] \in Reports
    BY <2>1 DEF Reports, Statuses
  <2>8. ServerInv' /\ ManagerInv'
    BY <1>1, <2>6, <2>7 DEF Report, TInv, ServerInv, ManagerInv
  <2> QED BY <1>1, <2>5, <2>8, Unchanged DEF Report, TInv
<1>2. CASE List
  <2>1. [d \in DOMAIN listed \cup alive |-> IF d \in alive THEN "up" ELSE "dead"] \in Reports
    <3>1. DOMAIN listed \cup alive \in SUBSET Devices
      BY DEF TInv, ManagerInv, MachineInv, Reports
    <3>2. [d \in DOMAIN listed \cup alive |-> IF d \in alive THEN "up" ELSE "dead"]
            \in [DOMAIN listed \cup alive -> Statuses]
      BY DEF Statuses
    <3> QED BY <3>1, <3>2 DEF Reports
  <2>2. ManagerInv'
    BY <1>2, <2>1 DEF List, TInv, ManagerInv
  <2> QED BY <1>2, <2>2, Unchanged DEF List, TInv, linkVars, serverVars
<1>3. CASE ReportStatus
  <2>1. ServerInv' /\ ManagerInv'
    BY <1>3 DEF ReportStatus, TInv, ServerInv, ManagerInv
  <2> QED BY <1>3, <2>1, Unchanged DEF ReportStatus, TInv, linkVars
<1>4. CASE Die
  <2>1. <<>> \in Reports
    <3>1. <<>> \in [{} -> Statuses]
      OBVIOUS
    <3> QED BY <3>1 DEF Reports
  <2>2. <<>> \in Seq(Commands)
    OBVIOUS
  <2>3. LinkInv' /\ ServerInv' /\ ManagerInv' /\ BoundsInv'
    BY <1>4, <2>1, <2>2, FaultInv DEF Die, TInv, LinkInv, ServerInv, ManagerInv
  <2> QED BY <1>4, <2>3, Unchanged DEF Die, TInv
<1> QED BY <1>1, <1>2, <1>3, <1>4

LEMMA MachineStep ==
    ASSUME TInv, GLoader \/ \E d \in Devices : DeviceDies(d)
    PROVE  TInv'
<1>1. ASSUME NEW i \in DOMAIN jobs, Work(i) PROVE TInv'
  <2>1. jobs[i] \in Jobs
    BY DEF TInv, MachineInv
  <2>2. \E j \in Jobs : jobs' = [jobs EXCEPT ![i] = j]
    <3>1. CASE jobs' = [jobs EXCEPT ![i].at = "work"]
      <4>1. [jobs[i] EXCEPT !.at = "work"] \in Jobs
        BY <2>1 DEF Jobs
      <4> QED BY <3>1, <4>1
    <3>2. ASSUME NEW d \in jobs[i].todo, jobs' = [jobs EXCEPT ![i].todo = @ \ {d}]
          PROVE  \E j \in Jobs : jobs' = [jobs EXCEPT ![i] = j]
      <4>1. [jobs[i] EXCEPT !.todo = @ \ {d}] \in Jobs
        BY <2>1 DEF Jobs
      <4> QED BY <3>2, <4>1
    <3> QED BY <1>1, <3>1, <3>2 DEF Work
  <2>3. alive' \subseteq Devices
    BY <1>1, <2>1 DEF Work, TInv, MachineInv, Jobs
  <2>4. MachineInv'
    BY <1>1, <2>2, <2>3, Replaced DEF Work, TInv, MachineInv
  <2> QED BY <1>1, <2>4, Unchanged DEF Work, TInv, server, linkVars, serverVars, manager
<1>2. ASSUME NEW i \in DOMAIN jobs, Finish(i) PROVE TInv'
  <2>1. jobs' \in Seq(Jobs)
    BY <1>2, Removed DEF Finish, TInv, MachineInv
  <2>2. setup' \in BOOLEAN
    <3>1. setup' = setup \/ setup' = (setup \/ jobs[i].op = "create")
      BY <1>2, Zenon DEF Finish
    <3> QED BY <3>1, Zenon DEF TInv, MachineInv
  <2>3. MachineInv'
    BY <1>2, <2>1, <2>2 DEF Finish, TInv, MachineInv
  <2> QED BY <1>2, <2>3, Unchanged DEF Finish, TInv, server, linkVars, serverVars, manager
<1>3. ASSUME NEW d \in Devices, DeviceDies(d) PROVE TInv'
  <2>1. MachineInv' /\ BoundsInv'
    BY <1>3, FaultInv DEF DeviceDies, TInv, MachineInv
  <2> QED BY <1>3, <2>1, Unchanged DEF DeviceDies, TInv, server, linkVars, serverVars, manager
<1> QED BY <1>1, <1>2, <1>3 DEF GLoader

LEMMA TypeInit == Init => TInv
<1> SUFFICES ASSUME Init PROVE TInv
  OBVIOUS
<1>1. <<>> \in Reports
  <2>1. <<>> \in [{} -> Statuses]
    OBVIOUS
  <2> QED BY <2>1 DEF Reports
<1>2. WindowInv
  BY DEF Init, WindowInv
<1>3. LinkInv
  BY EmptySeq DEF Init, LinkInv
<1>4. ServerInv /\ ManagerInv
  BY <1>1 DEF Init, ServerInv, ManagerInv
<1>5. MachineInv
  BY EmptySeq DEF Init, MachineInv
<1>6. BoundsInv
  BY SessionAssumption DEF Init, BoundsInv
<1> QED BY <1>2, <1>3, <1>4, <1>5, <1>6 DEF TInv

LEMMA TypeStep == TInv /\ [Next]_vars => TInv'
<1> SUFFICES ASSUME TInv, [Next]_vars PROVE TInv'
  OBVIOUS
<1>1. CASE UNCHANGED vars
  BY <1>1, Unchanged DEF vars, TInv, server, linkVars, serverVars, manager
<1> QED BY <1>1, WindowStep, HandleInv, ServerStep, MachineStep DEF Next

LEMMA TypeInvariance == Spec => []TInv
BY TypeInit, TypeStep, PTL DEF Spec

(* The window, the server, its task manager and the gloader processes keep *)
(* the types of what they hold and send, whoever dies when.                *)
THEOREM TypeCorrect == Spec => []TypeOK
<1>1. TInv => TypeOK
  <2> SUFFICES ASSUME TInv PROVE TypeOK
    OBVIOUS
  <2>1. WindowInv /\ LinkInv /\ ServerInv /\ ManagerInv /\ MachineInv /\ BoundsInv
    BY DEF TInv
  <2>2. /\ running \in BOOLEAN /\ recovery \in BOOLEAN /\ refreshing \in BOOLEAN
        /\ paused \in BOOLEAN /\ ticking \in BOOLEAN
        /\ light \in [Devices -> Statuses \cup {"none"}]
    BY <2>1, Zenon DEF WindowInv
  <2>3. /\ link \in {"none", "live", "broken"} /\ up \in BOOLEAN
        /\ toServer \in Seq(Commands) /\ toClient \in Seq(Devices \X Statuses)
    BY <2>1, Zenon DEF LinkInv
  <2>4. link = "live" => up
    BY <2>1, Zenon DEF LinkInv
  <2>5. detected \in BOOLEAN /\ timer \in BOOLEAN /\ status \in Reports \cup {NoReport}
    BY <2>1, Zenon DEF ServerInv
  <2>6. going \in BOOLEAN /\ listed \in Reports /\ thread \in {"off", "top", "listed"}
    BY <2>1, Zenon DEF ManagerInv
  <2>7. alive \subseteq Devices /\ jobs \in Seq(Jobs) /\ setup \in BOOLEAN
    BY <2>1, Zenon DEF MachineInv
  <2>8. clicks \in 0..MaxClicks /\ faults \in 0..MaxFaults
    BY <2>1, Zenon DEF BoundsInv
  <2> QED BY <2>2, <2>3, <2>4, <2>5, <2>6, <2>7, <2>8, Zenon DEF TypeOK
<1> QED BY <1>1, TypeInvariance, PTL
-----------------------------------------------------------------------------
(* The starts that the server has yet to read.                             *)

Starts(q) == \E k \in 1..Len(q) : q[k] = "start"
Paired(q) == \A k \in 1..Len(q) : q[k] = "init" => k + 1 \in 1..Len(q) /\ q[k + 1] = "start"
UsedInv == Paired(toServer) /\ (detected => Starts(toServer))

LEMMA TailItems ==
    ASSUME NEW S, NEW q \in Seq(S), q # <<>>
    PROVE  /\ 1 \in 1..Len(q) /\ q[1] = Head(q)
           /\ \A k \in 1..Len(q) : k # 1 => k - 1 \in 1..Len(Tail(q)) /\ Tail(q)[k - 1] = q[k]
           /\ \A k \in 1..Len(Tail(q)) : k + 1 \in 1..Len(q) /\ Tail(q)[k] = q[k + 1]
OBVIOUS

LEMMA PairedTail ==
    ASSUME NEW q \in Seq(Commands), q # <<>>, Paired(q)
    PROVE  /\ Paired(Tail(q))
           /\ Head(q) = "init" => Starts(Tail(q))
           /\ Starts(q) /\ Head(q) # "start" => Starts(Tail(q))
<1>1. \A k \in 1..Len(Tail(q)) : k + 1 \in 1..Len(q) /\ Tail(q)[k] = q[k + 1]
  BY TailItems
<1>2. 1 \in 1..Len(q) /\ q[1] = Head(q)
  BY TailItems
<1>3. \A k \in 1..Len(q) : k # 1 => k - 1 \in 1..Len(Tail(q)) /\ Tail(q)[k - 1] = q[k]
  BY TailItems
<1>4. Paired(Tail(q))
  <2> SUFFICES ASSUME NEW k \in 1..Len(Tail(q)), Tail(q)[k] = "init"
               PROVE  k + 1 \in 1..Len(Tail(q)) /\ Tail(q)[k + 1] = "start"
    BY DEF Paired
  <2>1. (k + 1) + 1 \in 1..Len(q) /\ q[(k + 1) + 1] = "start"
    BY <1>1 DEF Paired
  <2>2. /\ ((k + 1) + 1) - 1 \in 1..Len(Tail(q))
        /\ Tail(q)[((k + 1) + 1) - 1] = q[(k + 1) + 1]
    BY <1>3, <2>1
  <2>3. ((k + 1) + 1) - 1 = k + 1
    OBVIOUS
  <2> QED BY <2>1, <2>2, <2>3
<1>5. ASSUME Head(q) = "init" PROVE Starts(Tail(q))
  <2>1. 1 + 1 \in 1..Len(q) /\ q[1 + 1] = "start"
    BY <1>2, <1>5 DEF Paired
  <2>2. (1 + 1) - 1 \in 1..Len(Tail(q)) /\ Tail(q)[(1 + 1) - 1] = "start"
    BY <1>3, <2>1
  <2> QED BY <2>2 DEF Starts
<1>6. ASSUME Starts(q), Head(q) # "start" PROVE Starts(Tail(q))
  <2>1. PICK k \in 1..Len(q) : q[k] = "start"
    BY <1>6 DEF Starts
  <2>2. k # 1
    BY <1>2, <1>6, <2>1
  <2> QED BY <1>3, <2>1, <2>2 DEF Starts
<1> QED BY <1>4, <1>5, <1>6

(* What the window sends keeps the pairs.                                  *)
LEMMA JoinItems ==
    ASSUME NEW S, NEW p \in Seq(S), NEW q \in Seq(S)
    PROVE  /\ Len(p \o q) = Len(p) + Len(q)
           /\ \A k \in 1..Len(p) : (p \o q)[k] = p[k]
           /\ \A k \in 1..Len(q) : (p \o q)[Len(p) + k] = q[k]
OBVIOUS

LEMMA PairedSend ==
    ASSUME NEW q \in Seq(Commands), NEW cmds \in {<<"init", "start">>, <<"stop">>}, Paired(q)
    PROVE  Paired(q \o cmds) /\ (Starts(q) => Starts(q \o cmds))
<1>1. cmds \in Seq(Commands) /\ Paired(cmds)
  <2>1. CASE cmds = <<"init", "start">>
    BY <2>1 DEF Commands, Paired
  <2>2. CASE cmds = <<"stop">>
    BY <2>2 DEF Commands, Paired
  <2> QED BY <2>1, <2>2
<1>2. /\ Len(q \o cmds) = Len(q) + Len(cmds)
      /\ \A k \in 1..Len(q) : (q \o cmds)[k] = q[k]
      /\ \A k \in 1..Len(cmds) : (q \o cmds)[Len(q) + k] = cmds[k]
  BY <1>1, JoinItems
<1>3. Len(q) \in Nat /\ Len(cmds) \in Nat
  BY <1>1
<1>4. Paired(q \o cmds)
  <2> SUFFICES ASSUME NEW k \in 1..Len(q \o cmds), (q \o cmds)[k] = "init"
               PROVE  k + 1 \in 1..Len(q \o cmds) /\ (q \o cmds)[k + 1] = "start"
    BY DEF Paired
  <2>1. CASE k \in 1..Len(q)
    <3>1. k + 1 \in 1..Len(q) /\ q[k + 1] = "start"
      BY <1>2, <2>1 DEF Paired
    <3> QED BY <1>2, <1>3, <3>1
  <2>2. CASE k \notin 1..Len(q)
    <3>1. PICK j \in 1..Len(cmds) : k = Len(q) + j
      <4>1. k - Len(q) \in 1..Len(cmds) /\ k = Len(q) + (k - Len(q))
        BY <1>2, <1>3, <2>2
      <4> QED BY <4>1
    <3>2. j + 1 \in 1..Len(cmds) /\ cmds[j + 1] = "start"
      BY <1>1, <1>2, <3>1 DEF Paired
    <3>3. k + 1 = Len(q) + (j + 1) /\ k + 1 \in 1..(Len(q) + Len(cmds))
      BY <1>3, <3>1, <3>2
    <3> QED BY <1>2, <3>2, <3>3
  <2> QED BY <2>1, <2>2
<1>5. ASSUME Starts(q) PROVE Starts(q \o cmds)
  <2>1. PICK k \in 1..Len(q) : q[k] = "start"
    BY <1>5 DEF Starts
  <2>2. k \in 1..Len(q \o cmds)
    BY <1>2, <1>3
  <2> QED BY <1>2, <2>1, <2>2 DEF Starts
<1> QED BY <1>4, <1>5

LEMMA UsedStep == TInv /\ UsedInv /\ [Next]_vars => UsedInv'
<1> SUFFICES ASSUME TInv, UsedInv, [Next]_vars PROVE UsedInv'
  OBVIOUS
<1>1. toServer \in Seq(Commands)
  BY DEF TInv, LinkInv
<1>2. ASSUME UNCHANGED <<toServer, detected>> PROVE UsedInv'
  BY <1>2 DEF UsedInv, Paired, Starts
<1>3. CASE Run \/ Stop
  <2>1. PICK cmds \in {<<"init", "start">>, <<"stop">>} : Send(cmds)
    BY <1>3 DEF Run, Stop
  <2>2. detected' = detected
    BY <1>3 DEF Run, Stop, server
  <2>3. toServer' = toServer \/ toServer' = toServer \o cmds
    BY <2>1 DEF Send
  <2>4. Paired(toServer \o cmds) /\ (Starts(toServer) => Starts(toServer \o cmds))
    BY <1>1, PairedSend DEF UsedInv
  <2>5. CASE toServer' = toServer \o cmds
    BY <2>2, <2>4, <2>5 DEF UsedInv, Paired, Starts
  <2> QED BY <1>2, <2>2, <2>3, <2>5
<1>4. CASE Handle
  <2>1. toServer # <<>> /\ toServer' = Tail(toServer)
    BY <1>4 DEF Handle
  <2>2. /\ Paired(Tail(toServer))
        /\ Head(toServer) = "init" => Starts(Tail(toServer))
        /\ Starts(toServer) /\ Head(toServer) # "start" => Starts(Tail(toServer))
    BY <1>1, <2>1, PairedTail DEF UsedInv
  <2>3. detected' => Starts(Tail(toServer))
    <3>1. CASE HandleInit
      BY <2>2, <3>1 DEF HandleInit
    <3>2. CASE HandleStart
      BY <3>2 DEF HandleStart
    <3>3. CASE HandleStop
      BY <2>2, <3>3 DEF HandleStop, UsedInv
    <3> QED BY <1>4, <3>1, <3>2, <3>3 DEF Handle
  <2> QED BY <2>1, <2>2, <2>3 DEF UsedInv, Paired, Starts
<1>5. CASE Die
  BY <1>5 DEF Die, UsedInv, Paired, Starts
<1>6. CASE StartServer \/ StartClient \/ Refresh \/ Receive \/ DisplayError
  BY <1>2, <1>6 DEF StartServer, StartClient, Refresh, Receive, DisplayError, server
<1>7. CASE Report \/ List \/ ReportStatus
  BY <1>2, <1>7 DEF Report, List, ReportStatus
<1>8. CASE GLoader
  BY <1>2, <1>8 DEF GLoader, Work, Finish, server
<1>9. CASE \E d \in Devices : DeviceDies(d)
  BY <1>2, <1>9 DEF DeviceDies, server
<1>10. CASE UNCHANGED vars
  BY <1>2, <1>10 DEF vars, server
<1> QED BY <1>3, <1>4, <1>5, <1>6, <1>7, <1>8, <1>9, <1>10 DEF Next, User

(* The server swallows at most the start that came with the init that      *)
(* found the topology running (ReceiveInitStartCommand sets "recovery",    *)
(* ReceiveStartCommand clears it): no later start, for another topology,   *)
(* is taken for a recovery, whatever dies in between.                      *)
THEOREM RecoveryIsUsed == Spec => []RecoveryUsed
<1>1. Init => UsedInv
  BY DEF Init, UsedInv, Paired, Starts
<1>2. TInv /\ UsedInv => RecoveryUsed
  <2> SUFFICES ASSUME TInv, UsedInv, detected PROVE "start" \in Range(toServer)
    BY DEF RecoveryUsed
  <2>1. PICK k \in 1..Len(toServer) : toServer[k] = "start"
    BY DEF UsedInv, Starts
  <2>2. DOMAIN toServer = 1..Len(toServer)
    BY DEF TInv, LinkInv
  <2> QED BY <2>1, <2>2 DEF Range
<1> QED BY <1>1, <1>2, UsedStep, TypeInvariance, PTL DEF Spec
-----------------------------------------------------------------------------
(* Counting to a number.                                                   *)
LEMMA LeastNumber ==
    ASSUME NEW T, T \subseteq Nat, T # {}
    PROVE  \E n \in T : \A m \in T : n <= m
<1> DEFINE R == {ss \in Nat \X Nat : ss[1] < ss[2]}
<1>1. IsWellFoundedOn(OpToRel(<, Nat), Nat)
  BY NatLessThanWellFounded
<1>2. IsWellFoundedOn(R, Nat)
  BY <1>1, Zenon DEF OpToRel
<1>3. \E n \in T : \A m \in T : ~(<<m, n>> \in R)
  BY <1>2, WFMin, Zenon
<1>4. \A m, n \in Nat : <<m, n>> \in R <=> m < n
  OBVIOUS
<1> HIDE DEF R
<1>5. PICK n \in T : \A m \in T : ~(<<m, n>> \in R)
  BY <1>3
<1>6. ASSUME NEW m \in T PROVE n <= m
  <2>1. n \in Nat /\ m \in Nat
    OBVIOUS
  <2>2. ~(m < n)
    BY <1>4, <1>5, <2>1, Zenon
  <2> QED BY <2>1, <2>2
<1> QED BY <1>5, <1>6

LEMMA InductionUpTo ==
    ASSUME NEW N \in Nat, NEW T, 0 \in T,
           \A n \in 1..N : n - 1 \in T => n \in T
    PROVE  0..N \subseteq T
<1> DEFINE Out == {n \in 0..N : n \notin T}
<1> SUFFICES ASSUME Out # {} PROVE FALSE
  OBVIOUS
<1>1. PICK n \in Out : \A m \in Out : n <= m
  <2>1. Out \subseteq Nat
    OBVIOUS
  <2> HIDE DEF Out
  <2> QED BY <2>1, LeastNumber
<1>2. n \in 1..N /\ n - 1 \in T
  BY <1>1
<1> QED BY <1>1, <1>2

(* What is built in N steps, each from what the one before it left, can be *)
(* built.                                                                  *)
Steps(f, X, N, b, step) ==
    /\ f \in [0..N -> X] /\ f[0] = b
    /\ \A i \in 1..N : f[i] = step[i][f[i - 1]]

LEMMA Chain ==
    ASSUME NEW X, NEW N \in Nat, NEW b \in X, NEW step \in [1..N -> [X -> X]]
    PROVE  \E f : Steps(f, X, N, b, step)
<1> DEFINE Built(f, n) == /\ f \in [0..N -> X] /\ f[0] = b
                          /\ \A i \in 1..n : f[i] = step[i][f[i - 1]]
           T == {n \in 0..N : \E f : Built(f, n)}
<1>1. 0 \in T
  <2> DEFINE g == [i \in 0..N |-> b]
  <2>1. Built(g, 0)
    OBVIOUS
  <2>2. 0 \in 0..N
    OBVIOUS
  <2> HIDE DEF g, Built
  <2> QED BY <2>1, <2>2
<1>2. ASSUME NEW n \in 1..N, n - 1 \in T PROVE n \in T
  <2>1. PICK f : Built(f, n - 1)
    BY <1>2
  <2>2. f[n - 1] \in X /\ n - 1 \in 0..N /\ n \in 0..N
    BY <2>1
  <2>3. step[n][f[n - 1]] \in X
    BY <2>2
  <2> DEFINE g == [f EXCEPT ![n] = step[n][f[n - 1]]]
  <2>4. g \in [0..N -> X] /\ g[0] = b
    BY <2>1, <2>2, <2>3
  <2>5. \A i \in 1..n : g[i - 1] = f[i - 1]
    BY <2>1
  <2>6. \A i \in 1..(n - 1) : g[i] = f[i] /\ f[i] = step[i][f[i - 1]]
    BY <2>1
  <2>7. g[n] = step[n][f[n - 1]]
    BY <2>1, <2>2
  <2>8. \A i \in 1..n : g[i] = step[i][g[i - 1]]
    <3> HIDE DEF g
    <3> TAKE i \in 1..n
    <3>1. CASE i = n
      BY <2>5, <2>7, <3>1
    <3>2. CASE i # n
      <4>1. i \in 1..(n - 1)
        BY <3>2
      <4> QED BY <2>5, <2>6, <4>1
    <3> QED BY <3>1, <3>2
  <2>9. Built(g, n)
    BY <2>4, <2>8
  <2> QED BY <2>2, <2>9
<1>3. N \in T
  <2> HIDE DEF T
  <2>1. 0..N \subseteq T
    BY <1>1, <1>2, InductionUpTo
  <2> QED BY <2>1
<1> QED BY <1>3 DEF Steps
-----------------------------------------------------------------------------
(* The elements of a sequence that are in S.                               *)
Kept(s, S, f, i) == IF i = 0 THEN <<>>
                    ELSE IF s[i] \in S THEN Append(f[i - 1], s[i]) ELSE f[i - 1]

LEMMA OnlyBuilt ==
    ASSUME NEW A, NEW s \in Seq(A), NEW S
    PROVE  \E f : /\ f = [i \in 0..Len(s) |-> Kept(s, S, f, i)]
                  /\ Only(s, S) = f[Len(s)]
<1> DEFINE N == Len(s)
           X == Seq(A)
           step == [i \in 1..N |-> [q \in X |-> IF s[i] \in S THEN Append(q, s[i]) ELSE q]]
<1>1. N \in Nat /\ <<>> \in X
  OBVIOUS
<1>2. step \in [1..N -> [X -> X]]
  OBVIOUS
<1>3. PICK f : Steps(f, X, N, <<>>, step)
  <2> HIDE DEF step, X, N
  <2> QED BY <1>1, <1>2, Chain, Zenon
<1>4. \A i \in 0..N : f[i] = Kept(s, S, f, i)
  <2> TAKE i \in 0..N
  <2>1. CASE i = 0
    BY <1>3, <2>1 DEF Kept, Steps
  <2>2. CASE i # 0
    <3>1. i \in 1..N /\ i - 1 \in 0..N
      BY <1>1, <2>2
    <3>2. f[i - 1] \in X
      BY <1>3, <3>1 DEF Steps
    <3>3. step[i][f[i - 1]] = IF s[i] \in S THEN Append(f[i - 1], s[i]) ELSE f[i - 1]
      BY <3>1, <3>2
    <3> QED BY <1>3, <2>2, <3>1, <3>3 DEF Kept, Steps
  <2> QED BY <2>1, <2>2
<1>5. f = [i \in 0..N |-> Kept(s, S, f, i)]
  BY <1>3, <1>4 DEF Steps
<1> DEFINE g == CHOOSE g : g = [i \in 0..N |-> Kept(s, S, g, i)]
<1>6. g = [i \in 0..N |-> Kept(s, S, g, i)]
  <2> HIDE DEF N
  <2> QED BY <1>5, Zenon
<1>7. Only(s, S) = g[N]
  BY Zenon DEF Only, Kept
<1> HIDE DEF g
<1> QED BY <1>6, <1>7, Zenon

LEMMA OnlyIs ==
    ASSUME NEW A, NEW s \in Seq(A), NEW S
    PROVE  /\ Only(s, S) \in Seq(A)
           /\ Range(Only(s, S)) = Range(s) \cap S
           /\ IsInjective(s) => IsInjective(Only(s, S))
<1> DEFINE N == Len(s)
           Upto(n) == {s[k] : k \in 1..n}
<1>1. PICK f : f = [i \in 0..N |-> Kept(s, S, f, i)] /\ Only(s, S) = f[N]
  BY OnlyBuilt
<1>2. N \in Nat
  OBVIOUS
<1>3. f[0] = <<>>
  <2>1. 0 \in 0..N
    BY <1>2
  <2>2. f[0] = Kept(s, S, f, 0)
    BY <1>1, <2>1, Zenon
  <2> QED BY <2>2 DEF Kept
<1>4. \A i \in 1..N : f[i] = IF s[i] \in S THEN Append(f[i - 1], s[i]) ELSE f[i - 1]
  <2> TAKE i \in 1..N
  <2>1. i \in 0..N /\ i # 0
    OBVIOUS
  <2>2. f[i] = Kept(s, S, f, i)
    BY <1>1, <2>1, Zenon
  <2> QED BY <2>1, <2>2 DEF Kept
<1> DEFINE Fine(q, n) == /\ q \in Seq(A)
                         /\ \A x : (\E k \in 1..Len(q) : q[k] = x) <=> x \in Upto(n) \cap S
                         /\ IsInjective(s) => IsInjective(q)
           T == {n \in 0..N : Fine(f[n], n)}
<1>5. 0 \in T
  <2>1. Fine(<<>>, 0)
    BY DEF IsInjective
  <2>2. 0 \in 0..N
    BY <1>2
  <2> HIDE DEF Fine
  <2> QED BY <1>3, <2>1, <2>2
<1>6. ASSUME NEW n \in 1..N, n - 1 \in T PROVE n \in T
  <2>1. Fine(f[n - 1], n - 1) /\ s[n] \in A /\ n \in 0..N
    BY <1>6
  <2>2. Upto(n) = Upto(n - 1) \cup {s[n]}
    OBVIOUS
  <2>3. IsInjective(s) => s[n] \notin Upto(n - 1)
    BY DEF IsInjective
  <2>4. ASSUME NEW q, Fine(q, n - 1), s[n] \in S PROVE Fine(Append(q, s[n]), n)
    <3> DEFINE r == Append(q, s[n])
    <3>1. r \in Seq(A) /\ Len(r) = Len(q) + 1 /\ r[Len(q) + 1] = s[n]
      BY <2>1, <2>4
    <3>2. \A k \in 1..Len(q) : r[k] = q[k]
      BY <2>4
    <3>3. \A x : (\E k \in 1..Len(r) : r[k] = x) <=> x \in Upto(n) \cap S
      <4> HIDE DEF r, Upto
      <4>1. Len(q) \in Nat
        BY <2>4
      <4>2. 1..Len(r) = 1..Len(q) \cup {Len(q) + 1}
        BY <3>1, <4>1
      <4> QED BY <2>2, <2>4, <3>1, <3>2, <4>2
    <3>4. IsInjective(s) => IsInjective(r)
      <4> HIDE DEF Upto
      <4>1. ASSUME IsInjective(s), NEW k \in 1..Len(q) PROVE q[k] # s[n]
        BY <2>3, <2>4, <4>1
      <4>2. DOMAIN r = 1..(Len(q) + 1) /\ DOMAIN q = 1..Len(q) /\ Len(q) \in Nat
        BY <2>4, <3>1
      <4> HIDE DEF r
      <4> QED BY <2>4, <3>1, <3>2, <4>1, <4>2 DEF IsInjective
    <3> QED BY <3>1, <3>3, <3>4
  <2>5. ASSUME NEW q, Fine(q, n - 1), s[n] \notin S PROVE Fine(q, n)
    <3> HIDE DEF Upto
    <3> QED BY <2>2, <2>5
  <2> HIDE DEF Fine
  <2>6. Fine(f[n], n)
    BY <1>4, <2>1, <2>4, <2>5
  <2> QED BY <2>1, <2>6
<1>7. N \in T
  <2> HIDE DEF T
  <2>1. 0..N \subseteq T
    BY <1>2, <1>5, <1>6, InductionUpTo
  <2> QED BY <1>2, <2>1
<1>8. Range(s) = Upto(N)
  BY DEF Range
<1>9. Range(f[N]) = {f[N][k] : k \in 1..Len(f[N])}
  BY <1>7 DEF Range
<1> QED BY <1>1, <1>7, <1>8, <1>9
-----------------------------------------------------------------------------
(* Interfaces: what each device has is a list of different targets, and    *)
(* only hosts and routers have any.                                        *)
Neat == {I \in [Nodes -> Seq(Nodes)] :
           \A d \in Nodes : IsInjective(I[d]) /\ (d \notin Interfaceable => I[d] = <<>>)}
Has(I, d, t) == t \in Range(I[d])
Adding(I, told, f, i) == IF i = 0 THEN I ELSE AddInterface(f[i - 1], told[i])
Removing(I, told, f, i) == IF i = 0 THEN I ELSE RemoveInterface(f[i - 1], told[i])

LEMMA InterfaceableNodes == Interfaceable \subseteq Nodes
BY DEF Interfaceable, Routers, Hosts

LEMMA WithLast ==
    ASSUME NEW A, NEW s \in Seq(A), NEW x \in A
    PROVE  /\ Append(s, x) \in Seq(A)
           /\ Range(Append(s, x)) = Range(s) \cup {x}
           /\ IsInjective(s) /\ x \notin Range(s) => IsInjective(Append(s, x))
<1> DEFINE r == Append(s, x)
<1>1. r \in Seq(A) /\ Len(r) = Len(s) + 1 /\ r[Len(s) + 1] = x
  OBVIOUS
<1>2. \A k \in 1..Len(s) : r[k] = s[k]
  OBVIOUS
<1>3. DOMAIN r = 1..(Len(s) + 1) /\ DOMAIN s = 1..Len(s) /\ Len(s) \in Nat
  BY <1>1
<1> HIDE DEF r
<1>4. Range(r) = Range(s) \cup {x}
  <2>1. 1..(Len(s) + 1) = 1..Len(s) \cup {Len(s) + 1}
    BY <1>3
  <2> QED BY <1>1, <1>2, <1>3, <2>1 DEF Range
<1>5. ASSUME IsInjective(s), x \notin Range(s) PROVE IsInjective(r)
  <2>1. \A k \in 1..Len(s) : s[k] # x
    BY <1>3, <1>5 DEF Range
  <2> QED BY <1>1, <1>2, <1>3, <1>5, <2>1 DEF IsInjective
<1> QED BY <1>1, <1>4, <1>5 DEF r

LEMMA AddOne ==
    ASSUME NEW I \in Neat, NEW p \in Interfaceable \X Nodes
    PROVE  /\ AddInterface(I, p) \in Neat
           /\ \A d \in Interfaceable, t \in Nodes :
                 Has(AddInterface(I, p), d, t) <=> Has(I, d, t) \/ p = <<d, t>>
<1> PICK c \in Interfaceable, u \in Nodes : p = <<c, u>>
  OBVIOUS
<1> DEFINE s == I[c]
           r == IF u \in Range(s) THEN s ELSE Append(s, u)
           J == AddInterface(I, p)
<1>1. c \in Nodes /\ I \in [Nodes -> Seq(Nodes)] /\ s \in Seq(Nodes) /\ IsInjective(s)
  BY InterfaceableNodes DEF Neat
<1>2. r \in Seq(Nodes) /\ Range(r) = Range(s) \cup {u} /\ IsInjective(r)
  BY <1>1, WithLast
<1>3. J = [I EXCEPT ![c] = r]
  BY DEF AddInterface
<1> HIDE DEF r, J
<1>4. J \in [Nodes -> Seq(Nodes)] /\ J[c] = r /\ \A d \in Nodes : d # c => J[d] = I[d]
  BY <1>1, <1>2, <1>3
<1> HIDE DEF s
<1>5. J \in Neat
  BY <1>2, <1>4 DEF Neat
<1>6. ASSUME NEW d \in Interfaceable, NEW t \in Nodes
      PROVE  Has(J, d, t) <=> Has(I, d, t) \/ p = <<d, t>>
  <2>1. CASE d = c
    BY <1>2, <1>4, <2>1 DEF Has, s
  <2>2. CASE d # c
    BY <1>4, <2>2, InterfaceableNodes DEF Has
  <2> QED BY <2>1, <2>2
<1> QED BY <1>5, <1>6 DEF J

LEMMA RemoveOne ==
    ASSUME NEW I \in Neat, NEW p \in Interfaceable \X Nodes
    PROVE  /\ RemoveInterface(I, p) \in Neat
           /\ \A d \in Interfaceable, t \in Nodes :
                 Has(RemoveInterface(I, p), d, t) <=> Has(I, d, t) /\ p # <<d, t>>
<1> PICK c \in Interfaceable, u \in Nodes : p = <<c, u>>
  OBVIOUS
<1> DEFINE s == I[c]
           r == Only(s, Range(s) \ {u})
           J == RemoveInterface(I, p)
<1>1. c \in Nodes /\ I \in [Nodes -> Seq(Nodes)] /\ s \in Seq(Nodes) /\ IsInjective(s)
  BY InterfaceableNodes DEF Neat
<1>2. r \in Seq(Nodes) /\ Range(r) = Range(s) \ {u} /\ IsInjective(r)
  <2>1. Range(s) \cap (Range(s) \ {u}) = Range(s) \ {u}
    OBVIOUS
  <2> HIDE DEF s
  <2> QED BY <1>1, <2>1, OnlyIs, Zenon
<1>3. J = [I EXCEPT ![c] = r]
  BY DEF RemoveInterface
<1> HIDE DEF r, J
<1>4. J \in [Nodes -> Seq(Nodes)] /\ J[c] = r /\ \A d \in Nodes : d # c => J[d] = I[d]
  BY <1>1, <1>2, <1>3
<1> HIDE DEF s
<1>5. J \in Neat
  BY <1>2, <1>4 DEF Neat
<1>6. ASSUME NEW d \in Interfaceable, NEW t \in Nodes
      PROVE  Has(J, d, t) <=> Has(I, d, t) /\ p # <<d, t>>
  <2>1. CASE d = c
    BY <1>2, <1>4, <2>1 DEF Has, s
  <2>2. CASE d # c
    BY <1>4, <2>2, InterfaceableNodes DEF Has
  <2> QED BY <2>1, <2>2
<1> QED BY <1>5, <1>6 DEF J

LEMMA AddInterfaceBuilt ==
    ASSUME NEW I \in Neat, NEW told \in Seq(Interfaceable \X Nodes)
    PROVE  \E f : /\ f = [i \in 0..Len(told) |-> Adding(I, told, f, i)]
                  /\ AddInterfaces(I, told) = f[Len(told)]
<1> DEFINE N == Len(told)
           step == [i \in 1..N |-> [J \in Neat |-> AddInterface(J, told[i])]]
<1>1. N \in Nat /\ \A i \in 1..N : told[i] \in Interfaceable \X Nodes
  OBVIOUS
<1>2. step \in [1..N -> [Neat -> Neat]]
  <2>1. \A i \in 1..N : \A J \in Neat : AddInterface(J, told[i]) \in Neat
    BY <1>1, AddOne, Zenon
  <2> HIDE DEF N
  <2> QED BY <2>1
<1>3. PICK f : Steps(f, Neat, N, I, step)
  <2> HIDE DEF step, N
  <2> QED BY <1>1, <1>2, Chain, Zenon
<1>4. \A i \in 0..N : f[i] = Adding(I, told, f, i)
  <2> HIDE DEF N
  <2> TAKE i \in 0..N
  <2>1. CASE i = 0
    BY <1>3, <2>1 DEF Adding, Steps
  <2>2. CASE i # 0
    <3>1. i \in 1..N /\ i - 1 \in 0..N
      BY <1>1, <2>2
    <3>2. f[i - 1] \in Neat /\ f[i] = step[i][f[i - 1]]
      BY <1>3, <3>1, Zenon DEF Steps
    <3>3. step[i][f[i - 1]] = AddInterface(f[i - 1], told[i])
      BY <3>1, <3>2, Zenon
    <3> QED BY <2>2, <3>2, <3>3, Zenon DEF Adding
  <2> QED BY <2>1, <2>2
<1>5. f = [i \in 0..N |-> Adding(I, told, f, i)]
  BY <1>3, <1>4, Zenon DEF Steps
<1> DEFINE g == CHOOSE g : g = [i \in 0..N |-> Adding(I, told, g, i)]
<1>6. g = [i \in 0..N |-> Adding(I, told, g, i)]
  <2> HIDE DEF N
  <2> QED BY <1>5, Zenon
<1>7. AddInterfaces(I, told) = g[N]
  BY Zenon DEF AddInterfaces, Adding
<1> HIDE DEF g
<1> QED BY <1>6, <1>7, Zenon

LEMMA AddInterfacesIs ==
    ASSUME NEW I \in Neat, NEW told \in Seq(Interfaceable \X Nodes)
    PROVE  /\ AddInterfaces(I, told) \in Neat
           /\ \A d \in Interfaceable, t \in Nodes :
                 Has(AddInterfaces(I, told), d, t) <=> Has(I, d, t) \/ <<d, t>> \in Range(told)
<1> DEFINE N == Len(told)
           Upto(n) == {told[k] : k \in 1..n}
           Fine(J, n) == /\ J \in Neat
                         /\ \A d \in Interfaceable, t \in Nodes :
                               Has(J, d, t) <=> Has(I, d, t) \/ <<d, t>> \in Upto(n)
<1>1. PICK f : f = [i \in 0..N |-> Adding(I, told, f, i)] /\ AddInterfaces(I, told) = f[N]
  BY AddInterfaceBuilt
<1>2. N \in Nat
  OBVIOUS
<1>3. f[0] = I
  <2>1. 0 \in 0..N
    BY <1>2
  <2>2. f[0] = Adding(I, told, f, 0)
    BY <1>1, <2>1, Zenon
  <2> QED BY <2>2 DEF Adding
<1>4. \A i \in 1..N : f[i] = AddInterface(f[i - 1], told[i])
  <2> TAKE i \in 1..N
  <2>1. i \in 0..N /\ i # 0
    OBVIOUS
  <2>2. f[i] = Adding(I, told, f, i)
    BY <1>1, <2>1, Zenon
  <2> QED BY <2>1, <2>2, Zenon DEF Adding
<1> DEFINE T == {n \in 0..N : Fine(f[n], n)}
<1>5. 0 \in T
  <2>1. Fine(I, 0)
    <3>1. Upto(0) = {}
      OBVIOUS
    <3> HIDE DEF Upto
    <3> QED BY <3>1
  <2>2. 0 \in 0..N
    BY <1>2
  <2> HIDE DEF Fine
  <2> QED BY <1>3, <2>1, <2>2
<1>6. ASSUME NEW n \in 1..N, n - 1 \in T PROVE n \in T
  <2>1. Fine(f[n - 1], n - 1) /\ told[n] \in Interfaceable \X Nodes /\ n \in 0..N
    <3>1. Fine(f[n - 1], n - 1)
      BY <1>6, Zenon
    <3> HIDE DEF Fine
    <3> QED BY <3>1
  <2>2. Upto(n) = Upto(n - 1) \cup {told[n]}
    OBVIOUS
  <2> HIDE DEF Upto
  <2>3. AddInterface(f[n - 1], told[n]) \in Neat
    BY <2>1, AddOne, ZenonT(60)
  <2>4. \A d \in Interfaceable, t \in Nodes :
          Has(AddInterface(f[n - 1], told[n]), d, t) <=> Has(f[n - 1], d, t) \/ told[n] = <<d, t>>
    BY <2>1, AddOne, ZenonT(60)
  <2>5. Fine(AddInterface(f[n - 1], told[n]), n)
    BY <2>1, <2>2, <2>3, <2>4, Zenon
  <2>6. Fine(f[n], n)
    BY <1>4, <2>5, Zenon
  <2> QED BY <2>1, <2>6
<1>7. N \in T
  <2> HIDE DEF T
  <2>1. 0..N \subseteq T
    BY <1>2, <1>5, <1>6, InductionUpTo
  <2> QED BY <1>2, <2>1
<1>8. Range(told) = Upto(N)
  BY DEF Range
<1>9. Fine(f[N], N)
  BY <1>7, Zenon
<1> HIDE DEF Upto, N
<1> QED BY <1>1, <1>8, <1>9, Zenon

LEMMA RemoveInterfaceBuilt ==
    ASSUME NEW I \in Neat, NEW told \in Seq(Interfaceable \X Nodes)
    PROVE  \E f : /\ f = [i \in 0..Len(told) |-> Removing(I, told, f, i)]
                  /\ RemoveInterfaces(I, told) = f[Len(told)]
<1> DEFINE N == Len(told)
           step == [i \in 1..N |-> [J \in Neat |-> RemoveInterface(J, told[i])]]
<1>1. N \in Nat /\ \A i \in 1..N : told[i] \in Interfaceable \X Nodes
  OBVIOUS
<1>2. step \in [1..N -> [Neat -> Neat]]
  <2>1. \A i \in 1..N : \A J \in Neat : RemoveInterface(J, told[i]) \in Neat
    BY <1>1, RemoveOne, Zenon
  <2> HIDE DEF N
  <2> QED BY <2>1
<1>3. PICK f : Steps(f, Neat, N, I, step)
  <2> HIDE DEF step, N
  <2> QED BY <1>1, <1>2, Chain, Zenon
<1>4. \A i \in 0..N : f[i] = Removing(I, told, f, i)
  <2> HIDE DEF N
  <2> TAKE i \in 0..N
  <2>1. CASE i = 0
    BY <1>3, <2>1 DEF Removing, Steps
  <2>2. CASE i # 0
    <3>1. i \in 1..N /\ i - 1 \in 0..N
      BY <1>1, <2>2
    <3>2. f[i - 1] \in Neat /\ f[i] = step[i][f[i - 1]]
      BY <1>3, <3>1, Zenon DEF Steps
    <3>3. step[i][f[i - 1]] = RemoveInterface(f[i - 1], told[i])
      BY <3>1, <3>2, Zenon
    <3> QED BY <2>2, <3>2, <3>3, Zenon DEF Removing
  <2> QED BY <2>1, <2>2
<1>5. f = [i \in 0..N |-> Removing(I, told, f, i)]
  BY <1>3, <1>4, Zenon DEF Steps
<1> DEFINE g == CHOOSE g : g = [i \in 0..N |-> Removing(I, told, g, i)]
<1>6. g = [i \in 0..N |-> Removing(I, told, g, i)]
  <2> HIDE DEF N
  <2> QED BY <1>5, Zenon
<1>7. RemoveInterfaces(I, told) = g[N]
  BY Zenon DEF RemoveInterfaces, Removing
<1> HIDE DEF g
<1> QED BY <1>6, <1>7, Zenon

LEMMA RemoveInterfacesIs ==
    ASSUME NEW I \in Neat, NEW told \in Seq(Interfaceable \X Nodes)
    PROVE  /\ RemoveInterfaces(I, told) \in Neat
           /\ \A d \in Interfaceable, t \in Nodes :
                 Has(RemoveInterfaces(I, told), d, t) <=> Has(I, d, t) /\ ~(<<d, t>> \in Range(told))
<1> DEFINE N == Len(told)
           Upto(n) == {told[k] : k \in 1..n}
           Fine(J, n) == /\ J \in Neat
                         /\ \A d \in Interfaceable, t \in Nodes :
                               Has(J, d, t) <=> Has(I, d, t) /\ ~(<<d, t>> \in Upto(n))
<1>1. PICK f : f = [i \in 0..N |-> Removing(I, told, f, i)] /\ RemoveInterfaces(I, told) = f[N]
  BY RemoveInterfaceBuilt
<1>2. N \in Nat
  OBVIOUS
<1>3. f[0] = I
  <2>1. 0 \in 0..N
    BY <1>2
  <2>2. f[0] = Removing(I, told, f, 0)
    BY <1>1, <2>1, Zenon
  <2> QED BY <2>2 DEF Removing
<1>4. \A i \in 1..N : f[i] = RemoveInterface(f[i - 1], told[i])
  <2> TAKE i \in 1..N
  <2>1. i \in 0..N /\ i # 0
    OBVIOUS
  <2>2. f[i] = Removing(I, told, f, i)
    BY <1>1, <2>1, Zenon
  <2> QED BY <2>1, <2>2, Zenon DEF Removing
<1> DEFINE T == {n \in 0..N : Fine(f[n], n)}
<1>5. 0 \in T
  <2>1. Fine(I, 0)
    <3>1. Upto(0) = {}
      OBVIOUS
    <3> HIDE DEF Upto
    <3> QED BY <3>1
  <2>2. 0 \in 0..N
    BY <1>2
  <2> HIDE DEF Fine
  <2> QED BY <1>3, <2>1, <2>2
<1>6. ASSUME NEW n \in 1..N, n - 1 \in T PROVE n \in T
  <2>1. Fine(f[n - 1], n - 1) /\ told[n] \in Interfaceable \X Nodes /\ n \in 0..N
    <3>1. Fine(f[n - 1], n - 1)
      BY <1>6, Zenon
    <3> HIDE DEF Fine
    <3> QED BY <3>1
  <2>2. Upto(n) = Upto(n - 1) \cup {told[n]}
    OBVIOUS
  <2> HIDE DEF Upto
  <2>3. RemoveInterface(f[n - 1], told[n]) \in Neat
    BY <2>1, RemoveOne, Zenon
  <2>4. \A d \in Interfaceable, t \in Nodes :
          Has(RemoveInterface(f[n - 1], told[n]), d, t) <=> Has(f[n - 1], d, t) /\ told[n] # <<d, t>>
    BY <2>1, RemoveOne, Zenon
  <2>5. Fine(RemoveInterface(f[n - 1], told[n]), n)
    BY <2>1, <2>2, <2>3, <2>4, Zenon
  <2>6. Fine(f[n], n)
    BY <1>4, <2>5, Zenon
  <2> QED BY <2>1, <2>6
<1>7. N \in T
  <2> HIDE DEF T
  <2>1. 0..N \subseteq T
    BY <1>2, <1>5, <1>6, InductionUpTo
  <2> QED BY <1>2, <2>1
<1>8. Range(told) = Upto(N)
  BY DEF Range
<1>9. Fine(f[N], N)
  BY <1>7, Zenon
<1> HIDE DEF Upto, N
<1> QED BY <1>1, <1>8, <1>9, Zenon
-----------------------------------------------------------------------------
(* Links as a set R of pairs: what they join, and twice.                   *)
Tied(R, a, b) == <<a, b>> \in R \/ <<b, a>> \in R
Via(R, d, t) == {n \in Subnets : Tied(R, n, d) /\ Tied(R, n, t)}
                  \cup {n \in Switches : n = t /\ Tied(R, d, n)}
JoinedBy(R, d, t) == d # t /\ Via(R, d, t) # {}
TwiceBy(R, d, t) == d # t /\ \E v, w \in Via(R, d, t) : v # w
Simple(R) ==
    /\ R \subseteq Nodes \X Nodes
    /\ \A e, f \in R : e[1] # e[2] /\ ({e[1], e[2]} = {f[1], f[2]} => e = f)
    /\ \A v \in Subnets : \A e, f, g \in R :
          v \in {e[1], e[2]} /\ v \in {f[1], f[2]} /\ v \in {g[1], g[2]}
            => e = f \/ f = g \/ e = g

LEMMA KindsDiffer ==
    /\ Switches \cap Subnets = {} /\ Interfaceable \cap Subnets = {}
    /\ Interfaceable \cap Switches = {}
    /\ Switches \subseteq Nodes /\ Subnets \subseteq Nodes
BY DEF Switches, Subnets, Interfaceable, Routers, Hosts

LEMMA NeighboursAre ==
    ASSUME NEW E, Range(E) \subseteq Nodes \X Nodes, NEW d, NEW y
    PROVE  y \in Neighbours(E, d) <=> Tied(Range(E), d, y)
<1>1. ASSUME y \in Neighbours(E, d) PROVE Tied(Range(E), d, y)
  <2>1. PICK e \in Range(E) : d \in {e[1], e[2]} /\ y = Other(e, d)
    BY <1>1 DEF Neighbours, Links
  <2>2. e = <<e[1], e[2]>>
    BY <2>1
  <2> QED BY <2>1, <2>2 DEF Other, Tied
<1>2. ASSUME Tied(Range(E), d, y) PROVE y \in Neighbours(E, d)
  <2>1. PICK e \in Range(E) : e = <<d, y>> \/ e = <<y, d>>
    BY <1>2 DEF Tied
  <2>2. d \in {e[1], e[2]} /\ y = Other(e, d)
    BY <2>1 DEF Other
  <2> QED BY <2>1, <2>2 DEF Neighbours, Links
<1> QED BY <1>1, <1>2

LEMMA ViaIs ==
    ASSUME NEW E, Range(E) \subseteq Nodes \X Nodes, NEW d, NEW t
    PROVE  LinksVia(E, d, t) = Via(Range(E), d, t)
<1>1. \A a, b : b \in Neighbours(E, a) <=> Tied(Range(E), a, b)
  BY NeighboursAre
<1> QED BY <1>1 DEF LinksVia, Via

LEMMA JoinedIs ==
    ASSUME NEW E, Range(E) \subseteq Nodes \X Nodes
    PROVE  /\ \A d, t : <<d, t>> \in Joined(E)
                          <=> d \in Interfaceable /\ t \in Nodes /\ JoinedBy(Range(E), d, t)
           /\ \A d, t : <<d, t>> \in JoinedTwice(E)
                          <=> d \in Interfaceable /\ t \in Nodes /\ TwiceBy(Range(E), d, t)
           /\ Joined(E) \subseteq Interfaceable \X Nodes /\ JoinedTwice(E) \subseteq Joined(E)
<1>1. \A d, t : LinksVia(E, d, t) = Via(Range(E), d, t)
  BY ViaIs
<1>2. ASSUME NEW d, NEW t
      PROVE  <<d, t>> \in Joined(E)
               <=> d \in Interfaceable /\ t \in Nodes /\ JoinedBy(Range(E), d, t)
  BY <1>1 DEF Joined, JoinedBy
<1>3. ASSUME NEW d, NEW t
      PROVE  <<d, t>> \in JoinedTwice(E)
               <=> d \in Interfaceable /\ t \in Nodes /\ TwiceBy(Range(E), d, t)
  <2>1. <<d, t>> \in JoinedTwice(E)
          <=> <<d, t>> \in Joined(E) /\ \E v, w \in Via(Range(E), d, t) : v # w
    BY <1>1 DEF JoinedTwice
  <2> QED BY <1>2, <2>1 DEF JoinedBy, TwiceBy
<1>4. Joined(E) \subseteq Interfaceable \X Nodes /\ JoinedTwice(E) \subseteq Joined(E)
  BY DEF Joined, JoinedTwice
<1> QED BY <1>2, <1>3, <1>4

(* A subnet that has had at most one link tells its other neighbour.       *)
LEMMA AroundSubnet ==
    ASSUME NEW E \in Seq(Nodes \X Nodes), NEW e \in Nodes \X Nodes, e \notin Range(E),
           Simple(Range(E) \cup {e}), NEW v \in Subnets, v \in {e[1], e[2]}
    PROVE  /\ Around(E, v) = <<>> => \A y : ~Tied(Range(E), v, y)
           /\ Around(E, v) # <<>> => \A y : Tied(Range(E), v, y) <=> y = Around(E, v)[1]
<1> DEFINE own == At(E, v)
           L == Links(E, v)
<1>1. own \in Seq(Nodes \X Nodes) /\ Range(own) = L
  <2>1. Range(E) \cap L = L
    BY DEF Links
  <2> HIDE DEF L
  <2> QED BY <2>1, OnlyIs DEF At, L
<1>2. \A f, g \in L : f = g
  <2> TAKE f, g \in L
  <2>1. f \in Range(E) /\ g \in Range(E) /\ v \in {f[1], f[2]} /\ v \in {g[1], g[2]}
    BY DEF Links
  <2>2. f # e /\ g # e
    BY <2>1
  <2> QED BY <2>1, <2>2 DEF Simple
<1>3. Range(E) \subseteq Nodes \X Nodes
  BY DEF Range
<1>4. \A y : Tied(Range(E), v, y) <=> \E f \in L : y = Other(f, v)
  <2>1. \A y : Tied(Range(E), v, y) <=> y \in Neighbours(E, v)
    BY <1>3, NeighboursAre
  <2> QED BY <2>1 DEF Neighbours
<1>5. Around(E, v) = [i \in DOMAIN own |-> Other(own[i], v)]
  BY DEF Around
<1> HIDE DEF own, L
<1>6. CASE L = {}
  <2>1. own = <<>>
    <3>1. 1 \in DOMAIN own => own[1] \in Range(own)
      BY DEF Range
    <3>2. Len(own) = 0
      BY <1>1, <1>6, <3>1
    <3> QED BY <1>1, <3>2
  <2>2. Around(E, v) = <<>>
    BY <1>5, <2>1
  <2> QED BY <1>4, <1>6, <2>2
<1>7. CASE L # {}
  <2>1. 1 \in DOMAIN own
    BY <1>1, <1>7 DEF Range
  <2>2. own[1] \in L
    BY <1>1, <2>1 DEF Range
  <2>3. Around(E, v)[1] = Other(own[1], v) /\ Around(E, v) # <<>>
    BY <1>5, <2>1
  <2> QED BY <1>2, <1>4, <2>2, <2>3
<1> QED BY <1>6, <1>7

(* Whom e tells: the pairs that it joins, in another way than before.      *)
Tells(d, t) == IF d \in Interfaceable THEN <<<<d, t>>>> ELSE <<>>
TellsOf(E, e, v) ==
    CASE v \in Switches -> Tells(Other(e, v), v)
      [] v \in Subnets /\ Around(E, v) # <<>> ->
           LET x == Around(E, v)[1] y == Other(e, v) IN Tells(x, y) \o Tells(y, x)
      [] OTHER -> <<>>

LEMMA TellsIs ==
    ASSUME NEW d \in Nodes, NEW t \in Nodes
    PROVE  /\ Tells(d, t) \in Seq(Interfaceable \X Nodes)
           /\ \A c, u : <<c, u>> \in Range(Tells(d, t))
                          <=> c = d /\ u = t /\ d \in Interfaceable
<1>1. CASE d \in Interfaceable
  <2>1. Tells(d, t) = <<<<d, t>>>>
    BY <1>1 DEF Tells
  <2>2. Range(<<<<d, t>>>>) = {<<d, t>>}
    BY DEF Range
  <2> QED BY <1>1, <2>1, <2>2
<1>2. CASE d \notin Interfaceable
  BY <1>2 DEF Tells, Range
<1> QED BY <1>1, <1>2

LEMMA RangeOfBoth ==
    ASSUME NEW A, NEW s \in Seq(A), NEW r \in Seq(A)
    PROVE  s \o r \in Seq(A) /\ Range(s \o r) = Range(s) \cup Range(r)
<1> DEFINE q == s \o r
<1>1. q \in Seq(A) /\ Len(q) = Len(s) + Len(r) /\ Len(s) \in Nat /\ Len(r) \in Nat
  OBVIOUS
<1>2. \A k \in 1..Len(s) : q[k] = s[k] /\ k \in 1..Len(q)
  OBVIOUS
<1>3. \A k \in 1..Len(r) : q[Len(s) + k] = r[k] /\ Len(s) + k \in 1..Len(q)
  OBVIOUS
<1>4. \A k \in 1..Len(q) : k \in 1..Len(s) \/ \E j \in 1..Len(r) : k = Len(s) + j
  <2> HIDE DEF q
  <2> TAKE k \in 1..Len(q)
  <2>1. CASE k <= Len(s)
    BY <1>1, <2>1
  <2>2. CASE k > Len(s)
    <3>1. k - Len(s) \in 1..Len(r) /\ k = Len(s) + (k - Len(s))
      BY <1>1, <2>2
    <3> QED BY <3>1
  <2> QED BY <1>1, <2>1, <2>2
<1>5. DOMAIN q = 1..Len(q) /\ DOMAIN s = 1..Len(s) /\ DOMAIN r = 1..Len(r)
  BY <1>1
<1> HIDE DEF q
<1>6. Range(q) \subseteq Range(s) \cup Range(r)
  <2> SUFFICES ASSUME NEW k \in 1..Len(q) PROVE q[k] \in Range(s) \cup Range(r)
    BY <1>5, Zenon DEF Range
  <2>1. CASE k \in 1..Len(s)
    BY <1>2, <1>5, <2>1, Zenon DEF Range
  <2>2. ASSUME NEW j \in 1..Len(r), k = Len(s) + j PROVE q[k] \in Range(s) \cup Range(r)
    BY <1>3, <1>5, <2>2, Zenon DEF Range
  <2> QED BY <1>4, <2>1, <2>2, Zenon
<1>7. Range(s) \subseteq Range(q)
  BY <1>2, <1>5, Zenon DEF Range
<1>8. Range(r) \subseteq Range(q)
  BY <1>3, <1>5, Zenon DEF Range
<1> QED BY <1>1, <1>6, <1>7, <1>8 DEF q

LEMMA TellsOfIs ==
    ASSUME NEW E \in Seq(Nodes \X Nodes), NEW e \in Nodes \X Nodes, e \notin Range(E),
           Simple(Range(E) \cup {e}), NEW v \in Nodes, v \in {e[1], e[2]}
    PROVE  /\ TellsOf(E, e, v) \in Seq(Interfaceable \X Nodes)
           /\ \A d, t : <<d, t>> \in Range(TellsOf(E, e, v))
                <=> /\ d \in Interfaceable /\ t \in Nodes
                    /\ \/ v \in Switches /\ t = v /\ d = Other(e, v)
                       \/ /\ v \in Subnets
                          /\ \/ d = Other(e, v) /\ Tied(Range(E), v, t)
                             \/ t = Other(e, v) /\ Tied(Range(E), v, d)
<1> DEFINE R == Range(E)
           y == Other(e, v)
<1>1. y \in Nodes /\ R \subseteq Nodes \X Nodes
  BY DEF Other, Range
<1>2. CASE v \in Switches
  <2>1. TellsOf(E, e, v) = Tells(y, v) /\ v \notin Subnets
    BY <1>2, KindsDiffer DEF TellsOf
  <2> HIDE DEF y
  <2>2. /\ Tells(y, v) \in Seq(Interfaceable \X Nodes)
        /\ \A d, t : <<d, t>> \in Range(Tells(y, v)) <=> d = y /\ t = v /\ y \in Interfaceable
    BY <1>1, TellsIs, Zenon
  <2>3. \A d, t : <<d, t>> \in Range(TellsOf(E, e, v)) <=> d = y /\ t = v /\ y \in Interfaceable
    BY <2>1, <2>2, Zenon
  <2> QED BY <1>2, <2>1, <2>2, <2>3, Zenon DEF y
<1>3. CASE v \in Subnets /\ Around(E, v) # <<>>
  <2> DEFINE x == Around(E, v)[1]
  <2>1. v \notin Switches
    BY <1>3, KindsDiffer
  <2>2. TellsOf(E, e, v) = Tells(x, y) \o Tells(y, x)
    BY <1>3, <2>1 DEF TellsOf
  <2>3. \A z : Tied(R, v, z) <=> z = x
    BY <1>3, AroundSubnet
  <2> HIDE DEF x, y
  <2>4. x \in Nodes
    <3>1. Tied(R, v, x)
      BY <2>3
    <3> HIDE DEF R
    <3>2. <<v, x>> \in Nodes \X Nodes \/ <<x, v>> \in Nodes \X Nodes
      BY <1>1, <3>1, Zenon DEF Tied
    <3> QED BY <3>2
  <2>5. Tells(x, y) \in Seq(Interfaceable \X Nodes) /\ Tells(y, x) \in Seq(Interfaceable \X Nodes)
    BY <1>1, <2>4, TellsIs
  <2>6. /\ TellsOf(E, e, v) \in Seq(Interfaceable \X Nodes)
        /\ Range(TellsOf(E, e, v)) = Range(Tells(x, y)) \cup Range(Tells(y, x))
    BY <2>2, <2>5, RangeOfBoth
  <2>7. \A d, t : <<d, t>> \in Range(TellsOf(E, e, v))
          <=> (d = x /\ t = y /\ x \in Interfaceable) \/ (d = y /\ t = x /\ y \in Interfaceable)
    BY <1>1, <2>4, <2>6, TellsIs
  <2> HIDE DEF R
  <2> QED BY <1>1, <1>3, <2>1, <2>3, <2>4, <2>6, <2>7 DEF R, y
<1>4. CASE v \in Subnets /\ Around(E, v) = <<>>
  <2>1. v \notin Switches
    BY <1>4, KindsDiffer
  <2>2. TellsOf(E, e, v) = <<>>
    BY <1>4, <2>1 DEF TellsOf
  <2>3. \A z : ~Tied(R, v, z)
    BY <1>4, AroundSubnet
  <2>4. Range(<<>>) = {}
    BY DEF Range
  <2> QED BY <2>1, <2>2, <2>3, <2>4
<1>5. CASE v \notin Subnets /\ v \notin Switches
  <2>1. TellsOf(E, e, v) = <<>>
    BY <1>5 DEF TellsOf
  <2>2. Range(<<>>) = {}
    BY DEF Range
  <2> QED BY <1>5, <2>1, <2>2
<1> QED BY <1>2, <1>3, <1>4, <1>5

LEMMA TiedBoth == \A R, a, b : Tied(R, a, b) <=> Tied(R, b, a)
BY DEF Tied

LEMMA TiedNew ==
    ASSUME NEW R, NEW e \in Nodes \X Nodes, NEW Q, Q = R \cup {e}, Simple(Q), e \notin R
    PROVE  /\ \A a, b : Tied(R, a, b) => Tied(Q, a, b)
           /\ \A a, b : Tied(Q, a, b)
                <=> Tied(R, a, b) \/ (a \in {e[1], e[2]} /\ b = Other(e, a))
           /\ \A v \in {e[1], e[2]} : Other(e, v) # v /\ ~Tied(R, v, Other(e, v))
<1>1. e = <<e[1], e[2]>> /\ e[1] # e[2]
  BY DEF Simple
<1>2. \A a, b : Tied(R, a, b) => Tied(Q, a, b)
  BY DEF Tied
<1>3. \A a, b : (a \in {e[1], e[2]} /\ b = Other(e, a)) <=> (e = <<a, b>> \/ e = <<b, a>>)
  BY <1>1 DEF Other
<1>4. \A a, b : Tied(Q, a, b)
                <=> Tied(R, a, b) \/ (a \in {e[1], e[2]} /\ b = Other(e, a))
  BY <1>3 DEF Tied
<1>5. ASSUME NEW v \in {e[1], e[2]} PROVE Other(e, v) # v /\ ~Tied(R, v, Other(e, v))
  <2>1. Other(e, v) # v /\ {v, Other(e, v)} = {e[1], e[2]}
    BY <1>1 DEF Other
  <2> DEFINE w == Other(e, v)
  <2> HIDE DEF w
  <2>2. ASSUME NEW f \in R, f = <<v, w>> \/ f = <<w, v>> PROVE FALSE
    <3>1. {f[1], f[2]} = {e[1], e[2]}
      BY <2>1, <2>2 DEF w
    <3>2. f = e
      BY <3>1 DEF Simple
    <3> QED BY <3>2
  <2>3. ~Tied(R, v, w)
    BY <2>2, Zenon DEF Tied
  <2> QED BY <2>1, <2>3 DEF w
<1> QED BY <1>2, <1>4, <1>5

LEMMA ToldIs ==
    ASSUME NEW E \in Seq(Nodes \X Nodes), NEW e \in Nodes \X Nodes, e \notin Range(E),
           Simple(Range(E) \cup {e})
    PROVE  /\ Told(E, e) \in Seq(Interfaceable \X Nodes)
           /\ \A d, t : <<d, t>> \in Range(Told(E, e))
                <=> /\ d \in Interfaceable /\ t \in Nodes /\ d # t
                    /\ \E v \in Via(Range(E) \cup {e}, d, t) : v \notin Via(Range(E), d, t)
<1> DEFINE R == Range(E)
           Q == R \cup {e}
           New(v, d, t) == \/ v \in Switches /\ t = v /\ d = Other(e, v)
                           \/ /\ v \in Subnets
                              /\ \/ d = Other(e, v) /\ Tied(R, v, t)
                                 \/ t = Other(e, v) /\ Tied(R, v, d)
<1>1. Told(E, e) = TellsOf(E, e, e[1]) \o TellsOf(E, e, e[2])
  BY Zenon DEF Told, TellsOf, Tells
<1>2. e[1] \in Nodes /\ e[2] \in Nodes
  OBVIOUS
<1>3. \A v \in {e[1], e[2]} :
        /\ TellsOf(E, e, v) \in Seq(Interfaceable \X Nodes)
        /\ \A d, t : <<d, t>> \in Range(TellsOf(E, e, v))
                <=> d \in Interfaceable /\ t \in Nodes /\ New(v, d, t)
  BY <1>2, TellsOfIs
<1>4. /\ Told(E, e) \in Seq(Interfaceable \X Nodes)
      /\ Range(Told(E, e)) = Range(TellsOf(E, e, e[1])) \cup Range(TellsOf(E, e, e[2]))
  BY <1>1, <1>3, RangeOfBoth
<1>5. \A d, t : <<d, t>> \in Range(Told(E, e))
        <=> d \in Interfaceable /\ t \in Nodes /\ \E v \in {e[1], e[2]} : New(v, d, t)
  BY <1>3, <1>4
<1>6. /\ \A a, b : Tied(Q, a, b) <=> Tied(R, a, b) \/ (a \in {e[1], e[2]} /\ b = Other(e, a))
      /\ \A v \in {e[1], e[2]} : Other(e, v) # v /\ ~Tied(R, v, Other(e, v))
  <2>1. e \notin R /\ Simple(Q) /\ Q = R \cup {e}
    OBVIOUS
  <2> HIDE DEF R, Q
  <2> QED BY <2>1, TiedNew
<1>7. /\ \A a, b : Tied(R, a, b) <=> Tied(R, b, a)
      /\ \A a, b : Tied(Q, a, b) <=> Tied(Q, b, a)
  BY TiedBoth, Zenon
<1> HIDE DEF R, Q
<1>8. ASSUME NEW v \in {e[1], e[2]}, NEW d, NEW t, New(v, d, t)
      PROVE  d # t /\ v \in Via(Q, d, t) /\ v \notin Via(R, d, t)
  <2>1. CASE v \in Switches /\ t = v /\ d = Other(e, v)
    BY <1>6, <1>7, <2>1, KindsDiffer DEF Via
  <2>2. CASE v \in Subnets /\ d = Other(e, v) /\ Tied(R, v, t)
    BY <1>6, <1>7, <2>2, KindsDiffer DEF Via
  <2>3. CASE v \in Subnets /\ t = Other(e, v) /\ Tied(R, v, d)
    BY <1>6, <1>7, <2>3, KindsDiffer DEF Via
  <2> QED BY <1>8, <2>1, <2>2, <2>3
<1>9. ASSUME NEW d, NEW t, d # t, NEW v \in Via(Q, d, t), v \notin Via(R, d, t)
      PROVE  v \in {e[1], e[2]} /\ New(v, d, t)
  <2>1. CASE v \in Subnets /\ Tied(Q, v, d) /\ Tied(Q, v, t)
    <3>1. ~Tied(R, v, d) \/ ~Tied(R, v, t)
      BY <1>9, <2>1 DEF Via
    <3> QED BY <1>6, <1>9, <2>1, <3>1
  <2>2. CASE v \in Switches /\ v = t /\ Tied(Q, d, v)
    <3>1. ~Tied(R, v, d)
      BY <1>7, <1>9, <2>2 DEF Via
    <3>2. Tied(Q, v, d)
      BY <1>7, <2>2
    <3> QED BY <1>6, <2>2, <3>1, <3>2
  <2> QED BY <1>9, <2>1, <2>2 DEF Via
<1> HIDE DEF New
<1>10. \A d, t : (\E v \in {e[1], e[2]} : New(v, d, t))
          <=> d # t /\ \E v \in Via(Q, d, t) : v \notin Via(R, d, t)
  BY <1>8, <1>9, ZenonT(60)
<1>11. ASSUME NEW d, NEW t
       PROVE  <<d, t>> \in Range(Told(E, e))
                <=> /\ d \in Interfaceable /\ t \in Nodes /\ d # t
                    /\ \E v \in Via(Q, d, t) : v \notin Via(R, d, t)
  BY <1>5, <1>10, ZenonT(60)
<1> QED BY <1>4, <1>11, Zenon DEF R, Q

(* With a link more, what it tells is joined as well; what it tells and    *)
(* was joined without it is joined twice.                                  *)
LEMMA SimpleIs ==
    ASSUME NEW E \in Seq(Nodes \X Nodes), Drawable(E)
    PROVE  Simple(Range(E)) /\ IsInjective(E)
<1>1. Range(E) \subseteq Nodes \X Nodes
  BY DEF Range
<1> QED BY <1>1, Zenon DEF Drawable, Simple

LEMMA SimplePart ==
    ASSUME NEW R, NEW Q, Simple(Q), R \subseteq Q
    PROVE  Simple(R)
BY DEF Simple

LEMMA ViaGrows ==
    ASSUME NEW R, NEW Q, R \subseteq Q, NEW d, NEW t
    PROVE  Via(R, d, t) \subseteq Via(Q, d, t)
BY DEF Via, Tied

LEMMA LinkJoins ==
    ASSUME NEW E \in Seq(Nodes \X Nodes), NEW e \in Nodes \X Nodes, e \notin Range(E),
           NEW Q, Q = Range(E) \cup {e}, Simple(Q)
    PROVE  /\ Told(E, e) \in Seq(Interfaceable \X Nodes)
           /\ \A d \in Interfaceable, t \in Nodes :
                /\ JoinedBy(Q, d, t) <=> JoinedBy(Range(E), d, t) \/ <<d, t>> \in Range(Told(E, e))
                /\ <<d, t>> \in Range(Told(E, e)) /\ JoinedBy(Range(E), d, t) => TwiceBy(Q, d, t)
                /\ TwiceBy(Range(E), d, t) => TwiceBy(Q, d, t)
<1> DEFINE R == Range(E)
<1>1. /\ Told(E, e) \in Seq(Interfaceable \X Nodes)
      /\ \A d, t : <<d, t>> \in Range(Told(E, e))
           <=> /\ d \in Interfaceable /\ t \in Nodes /\ d # t
               /\ \E v \in Via(Q, d, t) : v \notin Via(R, d, t)
  BY ToldIs
<1>2. \A d, t : Via(R, d, t) \subseteq Via(Q, d, t)
  BY ViaGrows
<1> HIDE DEF R
<1>3. ASSUME NEW d \in Interfaceable, NEW t \in Nodes
      PROVE  /\ JoinedBy(Q, d, t) <=> JoinedBy(R, d, t) \/ <<d, t>> \in Range(Told(E, e))
             /\ <<d, t>> \in Range(Told(E, e)) /\ JoinedBy(R, d, t) => TwiceBy(Q, d, t)
             /\ TwiceBy(R, d, t) => TwiceBy(Q, d, t)
  <2>1. <<d, t>> \in Range(Told(E, e))
          <=> d # t /\ \E v \in Via(Q, d, t) : v \notin Via(R, d, t)
    BY <1>1
  <2>2. Via(R, d, t) \subseteq Via(Q, d, t)
    BY <1>2
  <2> QED BY <2>1, <2>2 DEF JoinedBy, TwiceBy
<1> QED BY <1>1, <1>3 DEF R
-----------------------------------------------------------------------------
(* What is made of a file has the interfaces that its links join, and no   *)
(* others.                                                                 *)
Made(E, f, i) == IF i = 0 THEN NoInterfaces ELSE WithLink(f[i - 1], SubSeq(E, 1, i - 1), E[i])

LEMMA NoneNeat ==
    NoInterfaces \in Neat /\ \A d \in Nodes : \A t : ~Has(NoInterfaces, d, t)
<1>1. <<>> \in Seq(Nodes) /\ IsInjective(<<>>) /\ Range(<<>>) = {}
  BY DEF IsInjective, Range
<1> QED BY <1>1 DEF NoInterfaces, Neat, Has

LEMMA Prefix ==
    ASSUME NEW E \in Seq(Nodes \X Nodes), Drawable(E), NEW i \in 1..Len(E)
    PROVE  /\ SubSeq(E, 1, i - 1) \in Seq(Nodes \X Nodes)
           /\ Range(SubSeq(E, 1, i - 1)) = {E[k] : k \in 1..(i - 1)}
           /\ E[i] \in Nodes \X Nodes /\ E[i] \notin {E[k] : k \in 1..(i - 1)}
           /\ Simple({E[k] : k \in 1..i})
           /\ {E[k] : k \in 1..i} = {E[k] : k \in 1..(i - 1)} \cup {E[i]}
<1> DEFINE s == SubSeq(E, 1, i - 1)
<1>1. s \in Seq(Nodes \X Nodes) /\ Len(s) = i - 1 /\ \A k \in 1..(i - 1) : s[k] = E[k]
  OBVIOUS
<1>2. Range(s) = {E[k] : k \in 1..(i - 1)}
  <2>1. DOMAIN s = 1..(i - 1)
    BY <1>1
  <2> HIDE DEF s
  <2> QED BY <1>1, <2>1 DEF Range
<1>3. Simple(Range(E)) /\ IsInjective(E)
  BY SimpleIs
<1>4. E[i] \in Nodes \X Nodes /\ E[i] \notin {E[k] : k \in 1..(i - 1)}
  BY <1>3 DEF IsInjective
<1>5. {E[k] : k \in 1..i} \subseteq Range(E)
  BY DEF Range
<1>6. Simple({E[k] : k \in 1..i})
  <2> DEFINE U == {E[k] : k \in 1..i}
  <2>1. U \subseteq Range(E)
    BY <1>5
  <2> HIDE DEF U
  <2>2. Simple(U)
    BY <1>3, <2>1, SimplePart
  <2> QED BY <2>2 DEF U
<1>7. {E[k] : k \in 1..i} = {E[k] : k \in 1..(i - 1)} \cup {E[i]}
  OBVIOUS
<1> QED BY <1>1, <1>2, <1>4, <1>6, <1>7

LEMMA LinkStep ==
    ASSUME NEW E \in Seq(Nodes \X Nodes), Drawable(E), NEW i \in 1..Len(E), NEW J \in Neat
    PROVE  /\ WithLink(J, SubSeq(E, 1, i - 1), E[i]) \in Neat
           /\ \A d \in Interfaceable, t \in Nodes :
                (Has(J, d, t) <=> JoinedBy({E[k] : k \in 1..(i - 1)}, d, t))
                  => (Has(WithLink(J, SubSeq(E, 1, i - 1), E[i]), d, t)
                        <=> JoinedBy({E[k] : k \in 1..i}, d, t))
<1> DEFINE s == SubSeq(E, 1, i - 1)
           e == E[i]
           Q == {E[k] : k \in 1..i}
           R == {E[k] : k \in 1..(i - 1)}
<1>1. /\ s \in Seq(Nodes \X Nodes) /\ e \in Nodes \X Nodes /\ e \notin R /\ Range(s) = R
      /\ Q = R \cup {e} /\ Simple(Q)
  BY Prefix
<1> HIDE DEF s, e, Q, R
<1>2. /\ Told(s, e) \in Seq(Interfaceable \X Nodes)
      /\ \A d \in Interfaceable, t \in Nodes :
            JoinedBy(Q, d, t) <=> JoinedBy(R, d, t) \/ <<d, t>> \in Range(Told(s, e))
  BY <1>1, LinkJoins
<1>3. /\ WithLink(J, s, e) \in Neat
      /\ \A d \in Interfaceable, t \in Nodes :
            Has(WithLink(J, s, e), d, t) <=> Has(J, d, t) \/ <<d, t>> \in Range(Told(s, e))
  BY <1>2, AddInterfacesIs, Zenon DEF WithLink
<1>4. \A d \in Interfaceable, t \in Nodes :
        (Has(J, d, t) <=> JoinedBy(R, d, t)) => (Has(WithLink(J, s, e), d, t) <=> JoinedBy(Q, d, t))
  BY <1>2, <1>3, Zenon
<1> QED BY <1>3, <1>4, Zenon DEF s, e, Q, R

LEMMA LoadBuilt ==
    ASSUME NEW E \in Seq(Nodes \X Nodes), Drawable(E)
    PROVE  \E f : /\ f = [i \in 0..Len(E) |-> Made(E, f, i)]
                  /\ Loaded(E) = f[Len(E)]
<1> DEFINE N == Len(E)
           step == [i \in 1..N |-> [J \in Neat |-> WithLink(J, SubSeq(E, 1, i - 1), E[i])]]
<1>1. N \in Nat
  OBVIOUS
<1>2. step \in [1..N -> [Neat -> Neat]]
  <2>1. \A i \in 1..N : \A J \in Neat : WithLink(J, SubSeq(E, 1, i - 1), E[i]) \in Neat
    BY LinkStep, Zenon
  <2> HIDE DEF N
  <2> QED BY <2>1
<1>3. NoInterfaces \in Neat
  BY NoneNeat
<1>4. PICK f : Steps(f, Neat, N, NoInterfaces, step)
  <2> HIDE DEF step, N
  <2> QED BY <1>1, <1>2, <1>3, Chain, Zenon
<1>5. \A i \in 0..N : f[i] = Made(E, f, i)
  <2> HIDE DEF N
  <2> TAKE i \in 0..N
  <2>1. CASE i = 0
    BY <1>4, <2>1 DEF Made, Steps
  <2>2. CASE i # 0
    <3>1. i \in 1..N /\ i - 1 \in 0..N
      BY <1>1, <2>2
    <3>2. f[i - 1] \in Neat /\ f[i] = step[i][f[i - 1]]
      BY <1>4, <3>1, Zenon DEF Steps
    <3>3. step[i][f[i - 1]] = WithLink(f[i - 1], SubSeq(E, 1, i - 1), E[i])
      BY <3>1, <3>2, Zenon
    <3> QED BY <2>2, <3>2, <3>3, Zenon DEF Made
  <2> QED BY <2>1, <2>2
<1>6. f = [i \in 0..N |-> Made(E, f, i)]
  BY <1>4, <1>5, Zenon DEF Steps
<1> DEFINE g == CHOOSE g : g = [i \in 0..N |-> Made(E, g, i)]
<1>7. g = [i \in 0..N |-> Made(E, g, i)]
  <2> HIDE DEF N
  <2> QED BY <1>6, Zenon
<1>8. Loaded(E) = g[N]
  BY Zenon DEF Loaded, Made
<1> HIDE DEF g
<1> QED BY <1>7, <1>8, Zenon

LEMMA LoadedIs ==
    ASSUME NEW E \in Seq(Nodes \X Nodes), Drawable(E)
    PROVE  /\ Loaded(E) \in Neat
           /\ \A d \in Interfaceable, t \in Nodes :
                Has(Loaded(E), d, t) <=> JoinedBy(Range(E), d, t)
<1> DEFINE N == Len(E)
           Upto(n) == {E[k] : k \in 1..n}
           Fine(J, n) == /\ J \in Neat
                         /\ \A d \in Interfaceable, t \in Nodes :
                               Has(J, d, t) <=> JoinedBy(Upto(n), d, t)
<1>1. PICK f : f = [i \in 0..N |-> Made(E, f, i)] /\ Loaded(E) = f[N]
  BY LoadBuilt
<1>2. N \in Nat
  OBVIOUS
<1>3. f[0] = NoInterfaces
  <2>1. 0 \in 0..N
    BY <1>2
  <2>2. f[0] = Made(E, f, 0)
    BY <1>1, <2>1, Zenon
  <2> QED BY <2>2 DEF Made
<1>4. \A i \in 1..N : f[i] = WithLink(f[i - 1], SubSeq(E, 1, i - 1), E[i])
  <2> TAKE i \in 1..N
  <2>1. i \in 0..N /\ i # 0
    OBVIOUS
  <2>2. f[i] = Made(E, f, i)
    BY <1>1, <2>1, Zenon
  <2> QED BY <2>1, <2>2, Zenon DEF Made
<1> DEFINE T == {n \in 0..N : Fine(f[n], n)}
<1>5. 0 \in T
  <2>1. Upto(0) = {}
    OBVIOUS
  <2>2. \A d, t : ~JoinedBy({}, d, t)
    BY DEF JoinedBy, Via, Tied
  <2> HIDE DEF Upto
  <2>3. Fine(NoInterfaces, 0)
    BY <2>1, <2>2, NoneNeat, InterfaceableNodes
  <2>4. 0 \in 0..N
    BY <1>2
  <2> HIDE DEF Fine
  <2> QED BY <1>3, <2>3, <2>4
<1>6. ASSUME NEW n \in 1..N, n - 1 \in T PROVE n \in T
  <2>1. Fine(f[n - 1], n - 1)
    BY <1>6, Zenon
  <2>2. n \in 0..N
    OBVIOUS
  <2>3. Fine(WithLink(f[n - 1], SubSeq(E, 1, n - 1), E[n]), n)
    BY <2>1, LinkStep, Zenon
  <2>4. Fine(f[n], n)
    BY <1>4, <2>3, Zenon
  <2> QED BY <2>2, <2>4
<1>7. N \in T
  <2> HIDE DEF T
  <2>1. 0..N \subseteq T
    BY <1>2, <1>5, <1>6, InductionUpTo
  <2> QED BY <1>2, <2>1
<1>8. Range(E) = Upto(N)
  BY DEF Range
<1>9. Fine(f[N], N)
  BY <1>7, Zenon
<1> HIDE DEF Upto, N
<1> QED BY <1>1, <1>8, <1>9, Zenon
-----------------------------------------------------------------------------
(* What is cut leaves the interfaces of the links that are left, unless    *)
(* two links to the same device shared one.                                *)
Left(E, gone, i) == Range(E) \ {gone[k] : k \in 1..i}
Undone(I, E, gone, f, i) ==
    IF i = 0 THEN I ELSE WithoutLink(f[i - 1], Less(E, {gone[k] : k \in 1..i}), gone[i])

LEMMA LessIs ==
    ASSUME NEW A, NEW E \in Seq(A), NEW S
    PROVE  /\ Less(E, S) \in Seq(A) /\ Range(Less(E, S)) = Range(E) \ S
           /\ IsInjective(E) => IsInjective(Less(E, S))
<1>1. Range(E) \cap (Range(E) \ S) = Range(E) \ S
  OBVIOUS
<1> QED BY <1>1, OnlyIs, Zenon DEF Less

LEMMA CutStep ==
    ASSUME NEW E \in Seq(Nodes \X Nodes), Drawable(E), NEW gone \in Seq(Range(E)),
           IsInjective(gone), NEW i \in 1..Len(gone), NEW J \in Neat
    PROVE  /\ WithoutLink(J, Less(E, {gone[k] : k \in 1..i}), gone[i]) \in Neat
           /\ \A d \in Interfaceable, t \in Nodes :
                LET K == WithoutLink(J, Less(E, {gone[k] : k \in 1..i}), gone[i])
                    R == Left(E, gone, i) Q == Left(E, gone, i - 1)
                IN  /\ Has(K, d, t) => Has(J, d, t)
                    /\ JoinedBy(R, d, t) => JoinedBy(Q, d, t)
                    /\ TwiceBy(R, d, t) => TwiceBy(Q, d, t)
                    /\ Has(K, d, t) /\ JoinedBy(Q, d, t) => JoinedBy(R, d, t)
                    /\ Has(J, d, t) /\ JoinedBy(R, d, t) /\ ~Has(K, d, t) => TwiceBy(Q, d, t)
<1> DEFINE S == {gone[k] : k \in 1..i}
           F == Less(E, S)
           e == gone[i]
           R == Left(E, gone, i)
           Q == Left(E, gone, i - 1)
           K == WithoutLink(J, F, e)
<1>1. F \in Seq(Nodes \X Nodes) /\ Range(F) = R
  <2> HIDE DEF S
  <2>1. Range(F) = Range(E) \ S
    BY LessIs
  <2> QED BY <2>1, LessIs DEF Left, S
<1>2. Simple(Range(E)) /\ e \in Range(E) /\ e \in S
  BY SimpleIs
<1>3. Range(E) \subseteq Nodes \X Nodes
  BY DEF Range
<1>4. e \notin {gone[k] : k \in 1..(i - 1)}
  BY DEF IsInjective
<1>5. S = {gone[k] : k \in 1..(i - 1)} \cup {e}
  OBVIOUS
<1>6. Q = R \cup {e} /\ e \notin R /\ Q \subseteq Range(E)
  BY <1>2, <1>4, <1>5 DEF Left
<1> HIDE DEF S, F, e, R, Q
<1>7. Simple(Q) /\ e \in Nodes \X Nodes
  BY <1>2, <1>3, <1>6, SimplePart
<1>8. /\ Told(F, e) \in Seq(Interfaceable \X Nodes)
      /\ \A d \in Interfaceable, t \in Nodes :
            /\ JoinedBy(Q, d, t) <=> JoinedBy(R, d, t) \/ <<d, t>> \in Range(Told(F, e))
            /\ <<d, t>> \in Range(Told(F, e)) /\ JoinedBy(R, d, t) => TwiceBy(Q, d, t)
            /\ TwiceBy(R, d, t) => TwiceBy(Q, d, t)
  BY <1>1, <1>6, <1>7, LinkJoins
<1>9. /\ K \in Neat
      /\ \A d \in Interfaceable, t \in Nodes :
            Has(K, d, t) <=> Has(J, d, t) /\ ~(<<d, t>> \in Range(Told(F, e)))
  BY <1>8, RemoveInterfacesIs, Zenon DEF WithoutLink
<1> HIDE DEF K
<1>10. ASSUME NEW d \in Interfaceable, NEW t \in Nodes
       PROVE  /\ Has(K, d, t) => Has(J, d, t)
              /\ JoinedBy(R, d, t) => JoinedBy(Q, d, t)
              /\ TwiceBy(R, d, t) => TwiceBy(Q, d, t)
              /\ Has(K, d, t) /\ JoinedBy(Q, d, t) => JoinedBy(R, d, t)
              /\ Has(J, d, t) /\ JoinedBy(R, d, t) /\ ~Has(K, d, t) => TwiceBy(Q, d, t)
  BY <1>8, <1>9, Zenon
<1> QED BY <1>9, <1>10, Zenon DEF K, F, S, e, R, Q

LEMMA CutBuilt ==
    ASSUME NEW E \in Seq(Nodes \X Nodes), Drawable(E), NEW gone \in Seq(Range(E)),
           IsInjective(gone), NEW I \in Neat
    PROVE  \E f : /\ f = [i \in 0..Len(gone) |-> Undone(I, E, gone, f, i)]
                  /\ Cut(I, E, gone) = f[Len(gone)]
<1> DEFINE N == Len(gone)
           step == [i \in 1..N |-> [J \in Neat |-> WithoutLink(J, Less(E, {gone[k] : k \in 1..i}), gone[i])]]
<1>1. N \in Nat
  OBVIOUS
<1>2. step \in [1..N -> [Neat -> Neat]]
  <2>1. \A i \in 1..N : \A J \in Neat : WithoutLink(J, Less(E, {gone[k] : k \in 1..i}), gone[i]) \in Neat
    BY CutStep, Zenon
  <2> HIDE DEF N
  <2> QED BY <2>1
<1>3. I \in Neat
  OBVIOUS
<1>4. PICK f : Steps(f, Neat, N, I, step)
  <2> HIDE DEF step, N
  <2> QED BY <1>1, <1>2, <1>3, Chain, Zenon
<1>5. \A i \in 0..N : f[i] = Undone(I, E, gone, f, i)
  <2> HIDE DEF N
  <2> TAKE i \in 0..N
  <2>1. CASE i = 0
    BY <1>4, <2>1 DEF Undone, Steps
  <2>2. CASE i # 0
    <3>1. i \in 1..N /\ i - 1 \in 0..N
      BY <1>1, <2>2
    <3>2. f[i - 1] \in Neat /\ f[i] = step[i][f[i - 1]]
      BY <1>4, <3>1, Zenon DEF Steps
    <3>3. step[i][f[i - 1]] = WithoutLink(f[i - 1], Less(E, {gone[k] : k \in 1..i}), gone[i])
      BY <3>1, <3>2, Zenon
    <3> QED BY <2>2, <3>2, <3>3, Zenon DEF Undone
  <2> QED BY <2>1, <2>2
<1>6. f = [i \in 0..N |-> Undone(I, E, gone, f, i)]
  BY <1>4, <1>5, Zenon DEF Steps
<1> DEFINE g == CHOOSE g : g = [i \in 0..N |-> Undone(I, E, gone, g, i)]
<1>7. g = [i \in 0..N |-> Undone(I, E, gone, g, i)]
  <2> HIDE DEF N
  <2> QED BY <1>6, Zenon
<1>8. Cut(I, E, gone) = g[N]
  BY Zenon DEF Cut, Undone
<1> HIDE DEF g
<1> QED BY <1>7, <1>8, Zenon

LEMMA CutIs ==
    ASSUME NEW E \in Seq(Nodes \X Nodes), Drawable(E), NEW gone \in Seq(Range(E)),
           IsInjective(gone), NEW I \in Neat, NEW sh,
           \A d \in Interfaceable, t \in Nodes :
              /\ Has(I, d, t) => JoinedBy(Range(E), d, t)
              /\ JoinedBy(Range(E), d, t) /\ ~Has(I, d, t) => <<d, t>> \in sh
              /\ TwiceBy(Range(E), d, t) => <<d, t>> \in sh
    PROVE  /\ Cut(I, E, gone) \in Neat
           /\ \A d \in Interfaceable, t \in Nodes :
              /\ Has(Cut(I, E, gone), d, t) => JoinedBy(Range(E) \ Range(gone), d, t)
              /\ JoinedBy(Range(E) \ Range(gone), d, t) /\ ~Has(Cut(I, E, gone), d, t)
                   => <<d, t>> \in sh
<1> DEFINE N == Len(gone)
           Fine(J, n) == /\ J \in Neat
                         /\ \A d \in Interfaceable, t \in Nodes :
                              /\ Has(J, d, t) => JoinedBy(Left(E, gone, n), d, t)
                              /\ JoinedBy(Left(E, gone, n), d, t) /\ ~Has(J, d, t)
                                   => <<d, t>> \in sh
                              /\ TwiceBy(Left(E, gone, n), d, t) => <<d, t>> \in sh
<1>1. PICK f : f = [i \in 0..N |-> Undone(I, E, gone, f, i)] /\ Cut(I, E, gone) = f[N]
  BY CutBuilt
<1>2. N \in Nat
  OBVIOUS
<1>3. f[0] = I
  <2>1. 0 \in 0..N
    BY <1>2
  <2>2. f[0] = Undone(I, E, gone, f, 0)
    BY <1>1, <2>1, Zenon
  <2> QED BY <2>2 DEF Undone
<1>4. \A i \in 1..N : f[i] = WithoutLink(f[i - 1], Less(E, {gone[k] : k \in 1..i}), gone[i])
  <2> TAKE i \in 1..N
  <2>1. i \in 0..N /\ i # 0
    OBVIOUS
  <2>2. f[i] = Undone(I, E, gone, f, i)
    BY <1>1, <2>1, Zenon
  <2> QED BY <2>1, <2>2, Zenon DEF Undone
<1> DEFINE T == {n \in 0..N : Fine(f[n], n)}
<1>5. 0 \in T
  <2>1. Left(E, gone, 0) = Range(E)
    BY DEF Left
  <2>2. Fine(I, 0)
    BY <2>1, Zenon
  <2>3. 0 \in 0..N
    BY <1>2
  <2> HIDE DEF Fine
  <2> QED BY <1>3, <2>2, <2>3
<1>6. ASSUME NEW n \in 1..N, n - 1 \in T PROVE n \in T
  <2> DEFINE J == f[n - 1]
             K == WithoutLink(J, Less(E, {gone[k] : k \in 1..n}), gone[n])
  <2>1. Fine(J, n - 1)
    BY <1>6, Zenon
  <2>2. n \in 0..N
    OBVIOUS
  <2>3. /\ K \in Neat
        /\ \A d \in Interfaceable, t \in Nodes :
             /\ Has(K, d, t) => Has(J, d, t)
             /\ JoinedBy(Left(E, gone, n), d, t) => JoinedBy(Left(E, gone, n - 1), d, t)
             /\ TwiceBy(Left(E, gone, n), d, t) => TwiceBy(Left(E, gone, n - 1), d, t)
             /\ Has(K, d, t) /\ JoinedBy(Left(E, gone, n - 1), d, t)
                  => JoinedBy(Left(E, gone, n), d, t)
             /\ Has(J, d, t) /\ JoinedBy(Left(E, gone, n), d, t) /\ ~Has(K, d, t)
                  => TwiceBy(Left(E, gone, n - 1), d, t)
    BY <2>1, CutStep, Zenon
  <2> HIDE DEF J, K
  <2>4. ASSUME NEW d \in Interfaceable, NEW t \in Nodes
        PROVE  /\ Has(K, d, t) => JoinedBy(Left(E, gone, n), d, t)
               /\ JoinedBy(Left(E, gone, n), d, t) /\ ~Has(K, d, t) => <<d, t>> \in sh
               /\ TwiceBy(Left(E, gone, n), d, t) => <<d, t>> \in sh
    BY <2>1, <2>3, Zenon
  <2>5. Fine(K, n)
    BY <2>3, <2>4, Zenon
  <2>6. Fine(f[n], n)
    BY <1>4, <2>5, Zenon DEF K, J
  <2> QED BY <2>2, <2>6
<1>7. N \in T
  <2> HIDE DEF T
  <2>1. 0..N \subseteq T
    BY <1>2, <1>5, <1>6, InductionUpTo
  <2> QED BY <1>2, <2>1
<1>8. Range(E) \ Range(gone) = Left(E, gone, N)
  BY DEF Range, Left
<1>9. Fine(f[N], N)
  BY <1>7, Zenon
<1> HIDE DEF N
<1> QED BY <1>1, <1>8, <1>9, Zenon
-----------------------------------------------------------------------------
(* The editor.                                                             *)
Follows(I, R, sh) ==
    \A d \in Interfaceable, t \in Nodes :
       /\ Has(I, d, t) => JoinedBy(R, d, t)
       /\ JoinedBy(R, d, t) /\ ~Has(I, d, t) => <<d, t>> \in sh

EditorInv == EditorTypeOK /\ InterfacesFollowLinks /\ JoinedTwice(edges) \subseteq shared

LEMMA SeqSub ==
    ASSUME NEW A, NEW B, NEW s \in Seq(A), Range(s) \subseteq B
    PROVE  s \in Seq(B)
<1>1. \A k \in 1..Len(s) : s[k] \in B
  BY DEF Range
<1> QED BY <1>1

LEMMA RangeIn ==
    ASSUME NEW A, NEW s \in Seq(A)
    PROVE  Range(s) \subseteq A /\ s \in Seq(Range(s))
<1>1. \A k \in 1..Len(s) : s[k] \in A /\ s[k] \in Range(s)
  BY DEF Range
<1>2. Range(s) \subseteq A
  BY DEF Range
<1> QED BY <1>1, <1>2

LEMMA ReversedIs ==
    ASSUME NEW A, NEW s \in Seq(A)
    PROVE  /\ Reversed(s) \in Seq(A) /\ Range(Reversed(s)) = Range(s)
           /\ IsInjective(s) => IsInjective(Reversed(s))
<1> DEFINE r == Reversed(s)
           N == Len(s)
<1>1. N \in Nat /\ DOMAIN s = 1..N /\ \A k \in 1..N : s[k] \in A
  OBVIOUS
<1>2. r = [k \in 1..N |-> s[N + 1 - k]]
  BY DEF Reversed
<1> HIDE DEF r, N
<1>3. \A k \in 1..N : N + 1 - k \in 1..N /\ N + 1 - (N + 1 - k) = k
  BY <1>1
<1>4. DOMAIN r = 1..N /\ \A k \in 1..N : r[k] = s[N + 1 - k]
  BY <1>2
<1>5. r \in Seq(A)
  BY <1>1, <1>2, <1>3
<1>6. \A k \in 1..N : s[k] = r[N + 1 - k]
  BY <1>3, <1>4
<1>7. Range(r) = Range(s)
  <2>1. Range(s) = {s[k] : k \in 1..N} /\ Range(r) = {r[k] : k \in 1..N}
    BY <1>1, <1>4 DEF Range
  <2>2. \A k \in 1..N : r[k] \in {s[j] : j \in 1..N}
    BY <1>3, <1>4
  <2>3. \A k \in 1..N : s[k] \in {r[j] : j \in 1..N}
    BY <1>3, <1>6
  <2> QED BY <2>1, <2>2, <2>3, Zenon
<1>8. ASSUME IsInjective(s), NEW j \in 1..N, NEW k \in 1..N, r[j] = r[k] PROVE j = k
  <2>1. PICK x \in 1..N, y \in 1..N : x = N + 1 - j /\ y = N + 1 - k
    BY <1>3
  <2>2. s[x] = s[y]
    BY <1>4, <1>8, <2>1
  <2>3. x = y
    BY <1>1, <1>8, <2>2, Zenon DEF IsInjective
  <2> QED BY <1>1, <2>1, <2>3
<1>9. IsInjective(s) => IsInjective(r)
  BY <1>4, <1>8, Zenon DEF IsInjective
<1> QED BY <1>5, <1>7, <1>9 DEF r

LEMMA Simpler ==
    ASSUME NEW E \in Seq(Nodes \X Nodes), IsInjective(E), Simple(Range(E))
    PROVE  Drawable(E)
BY Zenon DEF Drawable, Simple

LEMMA TypeFacts ==
    ASSUME EditorTypeOK
    PROVE  /\ devices \in Seq(Nodes) /\ IsInjective(devices) /\ Present \subseteq Nodes
           /\ edges \in Seq(Present \X Present) /\ edges \in Seq(Nodes \X Nodes)
           /\ Drawable(edges) /\ Range(edges) \subseteq Nodes \X Nodes
           /\ Range(edges) \subseteq Present \X Present
           /\ interfaces \in Neat
<1>1. devices \in Seq(Nodes) /\ IsInjective(devices) /\ Present \subseteq Nodes
  BY RangeIn DEF EditorTypeOK, Present
<1>2. edges \in Seq(Present \X Present) /\ Drawable(edges) /\ Range(edges) \subseteq Present \X Present
  BY RangeIn DEF EditorTypeOK
<1>3. Range(edges) \subseteq Nodes \X Nodes
  BY <1>1, <1>2
<1>4. edges \in Seq(Nodes \X Nodes)
  BY <1>2, <1>3, SeqSub
<1>5. interfaces \in Neat
  BY DEF EditorTypeOK, Neat
<1> QED BY <1>1, <1>2, <1>3, <1>4, <1>5

LEMMA FollowFacts ==
    ASSUME EditorInv
    PROVE  \A d \in Interfaceable, t \in Nodes :
              /\ Has(interfaces, d, t) => JoinedBy(Range(edges), d, t)
              /\ JoinedBy(Range(edges), d, t) /\ ~Has(interfaces, d, t) => <<d, t>> \in shared
              /\ TwiceBy(Range(edges), d, t) => <<d, t>> \in shared
<1> TAKE d \in Interfaceable, t \in Nodes
<1>1. Range(edges) \subseteq Nodes \X Nodes
  BY TypeFacts DEF EditorInv
<1>2. /\ <<d, t>> \in Joined(edges) <=> JoinedBy(Range(edges), d, t)
      /\ <<d, t>> \in JoinedTwice(edges) <=> TwiceBy(Range(edges), d, t)
  BY <1>1, JoinedIs
<1> DEFINE has == {p \in Interfaceable \X Nodes : p[2] \in Range(interfaces[p[1]])}
<1>3. has \subseteq Joined(edges) /\ Joined(edges) \ has \subseteq shared
  BY Zenon DEF EditorInv, InterfacesFollowLinks
<1>4. <<d, t>> \in has <=> Has(interfaces, d, t)
  BY DEF Has
<1> HIDE DEF has
<1> QED BY <1>2, <1>3, <1>4, Zenon DEF EditorInv

(* What the editor becomes with links E and interfaces I that follow them. *)
LEMMA Becoming ==
    ASSUME NEW E \in Seq(Nodes \X Nodes), Drawable(E), NEW I \in Neat,
           Becomes(E, I), Follows(I, Range(E), shared), shared \subseteq Interfaceable \X Nodes
    PROVE  /\ edges' = E /\ interfaces' \in Neat
           /\ InterfacesFollowLinks' /\ JoinedTwice(edges') \subseteq shared'
           /\ shared' \subseteq Interfaceable \X Nodes
<1>1. edges' = E /\ interfaces' = I /\ shared' = (shared \cap Joined(E)) \cup JoinedTwice(E)
  BY DEF Becomes
<1>2. Range(E) \subseteq Nodes \X Nodes
  BY RangeIn
<1> DEFINE has == {p \in Interfaceable \X Nodes : p[2] \in Range(I[p[1]])}
<1>3. ASSUME NEW d \in Interfaceable, NEW t \in Nodes
      PROVE  /\ <<d, t>> \in has => <<d, t>> \in Joined(E)
             /\ <<d, t>> \in Joined(E) /\ <<d, t>> \notin has => <<d, t>> \in shared
  <2>1. <<d, t>> \in Joined(E) <=> JoinedBy(Range(E), d, t)
    BY <1>2, JoinedIs
  <2>2. <<d, t>> \in has <=> Has(I, d, t)
    BY DEF Has
  <2> HIDE DEF has
  <2> QED BY <2>1, <2>2, Zenon DEF Follows
<1>4. Joined(E) \subseteq Interfaceable \X Nodes /\ JoinedTwice(E) \subseteq Joined(E)
  BY <1>2, JoinedIs
<1>5. has \subseteq Interfaceable \X Nodes
  OBVIOUS
<1>6. has \subseteq Joined(E) /\ Joined(E) \ has \subseteq shared'
  <2> HIDE DEF has
  <2>1. \A p \in Interfaceable \X Nodes : \E d \in Interfaceable, t \in Nodes : p = <<d, t>>
    OBVIOUS
  <2>2. \A p \in Interfaceable \X Nodes :
          /\ p \in has => p \in Joined(E)
          /\ p \in Joined(E) /\ p \notin has => p \in shared
    <3> TAKE p \in Interfaceable \X Nodes
    <3>1. PICK d \in Interfaceable, t \in Nodes : p = <<d, t>>
      BY <2>1
    <3>2. /\ <<d, t>> \in has => <<d, t>> \in Joined(E)
          /\ <<d, t>> \in Joined(E) /\ <<d, t>> \notin has => <<d, t>> \in shared
      BY <1>3
    <3> QED BY <3>1, <3>2
  <2>3. has \subseteq Joined(E)
    BY <1>5, <2>2, Zenon
  <2>4. Joined(E) \ has \subseteq shared \cap Joined(E)
    BY <1>4, <2>2, Zenon
  <2> QED BY <1>1, <2>3, <2>4
<1>7. InterfacesFollowLinks'
  BY <1>1, <1>6 DEF InterfacesFollowLinks
<1>8. JoinedTwice(edges') \subseteq shared' /\ shared' \subseteq Interfaceable \X Nodes
  BY <1>1, <1>4
<1> QED BY <1>1, <1>7, <1>8

LEMMA Typed ==
    ASSUME devices' \in Seq(Nodes), IsInjective(devices'),
           edges' \in Seq(Range(devices') \X Range(devices')), Drawable(edges'),
           interfaces' \in Neat, edits' \in 0..MaxEdits, shared' \subseteq Interfaceable \X Nodes
    PROVE  EditorTypeOK'
BY DEF EditorTypeOK, Present, Neat

LEMMA EditCounts ==
    ASSUME EditorTypeOK, Edit
    PROVE  edits' \in 0..MaxEdits
BY TopologyAssumption DEF EditorTypeOK, Edit

LEMMA InitEditor == EditorInit => EditorInv
<1> SUFFICES ASSUME EditorInit PROVE EditorInv
  OBVIOUS
<1>1. PICK f \in Saved : /\ devices = f.devices /\ edges = f.edges
                         /\ interfaces = Loaded(f.edges) /\ shared = JoinedTwice(f.edges)
  BY DEF EditorInit
<1>2. /\ devices \in Seq(Nodes) /\ IsInjective(devices)
      /\ edges \in Seq(Present \X Present) /\ Drawable(edges) /\ MaxEdits \in Nat
  BY <1>1, TopologyAssumption, Zenon DEF Present
<1>3. Present \subseteq Nodes /\ Range(edges) \subseteq Present \X Present
  BY <1>2, RangeIn DEF Present
<1>4. edges \in Seq(Nodes \X Nodes) /\ Range(edges) \subseteq Nodes \X Nodes
  BY <1>2, <1>3, SeqSub
<1>5. /\ interfaces \in Neat
      /\ \A d \in Interfaceable, t \in Nodes : Has(interfaces, d, t) <=> JoinedBy(Range(edges), d, t)
  BY <1>1, <1>2, <1>4, LoadedIs, Zenon
<1>6. Joined(edges) \subseteq Interfaceable \X Nodes /\ shared \subseteq Joined(edges)
  BY <1>1, <1>4, JoinedIs
<1>7. EditorTypeOK
  BY <1>2, <1>5, <1>6 DEF EditorTypeOK, EditorInit, Neat
<1> DEFINE has == {p \in Interfaceable \X Nodes : p[2] \in Range(interfaces[p[1]])}
<1>8. has = Joined(edges)
  <2>1. ASSUME NEW d \in Interfaceable, NEW t \in Nodes
        PROVE  <<d, t>> \in has <=> <<d, t>> \in Joined(edges)
    <3>1. <<d, t>> \in has <=> Has(interfaces, d, t)
      BY DEF Has
    <3>2. <<d, t>> \in Joined(edges) <=> JoinedBy(Range(edges), d, t)
      BY <1>4, JoinedIs
    <3> QED BY <1>5, <3>1, <3>2
  <2>2. has \subseteq Interfaceable \X Nodes
    OBVIOUS
  <2> HIDE DEF has
  <2> QED BY <1>6, <2>1, <2>2
<1>9. InterfacesFollowLinks
  BY <1>8 DEF InterfacesFollowLinks
<1> QED BY <1>1, <1>7, <1>9 DEF EditorInv

LEMMA DropStep ==
    ASSUME EditorInv, NEW d \in Nodes, Drop(d)
    PROVE  EditorInv'
<1>1. EditorTypeOK /\ shared \subseteq Interfaceable \X Nodes
  BY DEF EditorInv, EditorTypeOK
<1>2. /\ devices' = Append(devices, d) /\ d \notin Range(devices) /\ Edit
      /\ edges' = edges /\ interfaces' = interfaces /\ shared' = shared
  BY DEF Drop, Present
<1>3. /\ devices' \in Seq(Nodes) /\ IsInjective(devices')
      /\ Range(devices') = Range(devices) \cup {d}
  BY <1>1, <1>2, TypeFacts, WithLast
<1>4. Range(edges) \subseteq Range(devices') \X Range(devices')
  BY <1>1, <1>3, TypeFacts DEF Present
<1>5. edges' \in Seq(Range(devices') \X Range(devices')) /\ Drawable(edges') /\ interfaces' \in Neat
  BY <1>1, <1>2, <1>4, SeqSub, TypeFacts
<1>6. EditorTypeOK'
  BY <1>1, <1>2, <1>3, <1>5, EditCounts, Typed
<1>7. InterfacesFollowLinks'
  BY <1>2 DEF EditorInv, InterfacesFollowLinks
<1> QED BY <1>2, <1>6, <1>7 DEF EditorInv

(* Of a subnet that has room for a link there is one at most.              *)
LEMMA Room ==
    ASSUME NEW E \in Seq(Nodes \X Nodes), Drawable(E), NEW v \in Subnets,
           Len(Around(E, v)) # 2, NEW e \in Links(E, v), NEW f \in Links(E, v)
    PROVE  e = f
<1> DEFINE own == At(E, v)
<1>1. own \in Seq(Nodes \X Nodes) /\ Range(own) = Links(E, v) /\ IsInjective(own)
  <2> DEFINE L == Links(E, v)
  <2>1. Range(E) \cap L = L
    BY DEF Links
  <2> HIDE DEF L
  <2>2. IsInjective(E)
    BY DEF Drawable
  <2>3. At(E, v) = Only(E, L)
    BY DEF At, L
  <2>4. /\ own \in Seq(Nodes \X Nodes) /\ Range(own) = Range(E) \cap L
        /\ IsInjective(E) => IsInjective(own)
    BY <2>3, OnlyIs
  <2> QED BY <2>1, <2>2, <2>4 DEF L
<1>2. Around(E, v) = [i \in DOMAIN own |-> Other(own[i], v)]
  BY DEF Around
<1> HIDE DEF own
<1>3. Len(Around(E, v)) = Len(own)
  BY <1>1, <1>2
<1>4. \A a, b, c \in Links(E, v) : a = b \/ b = c \/ a = c
  BY Zenon DEF Drawable, Links
<1>5. DOMAIN own = 1..Len(own) /\ Len(own) \in Nat /\ \A k \in 1..Len(own) : own[k] \in Links(E, v)
  BY <1>1 DEF Range
<1>6. Len(own) < 2
  <2>1. CASE Len(own) >= 3
    <3>1. 1 \in 1..Len(own) /\ 2 \in 1..Len(own) /\ 3 \in 1..Len(own)
      BY <1>5, <2>1
    <3>2. own[1] # own[2] /\ own[2] # own[3] /\ own[1] # own[3]
      BY <1>1, <1>5, <3>1, SMTT(30) DEF IsInjective
    <3> QED BY <1>4, <1>5, <3>1, <3>2
  <2> QED BY <1>3, <1>5, <2>1
<1>7. PICK j \in 1..Len(own), k \in 1..Len(own) : own[j] = e /\ own[k] = f
  BY <1>1, <1>5 DEF Range
<1> QED BY <1>5, <1>6, <1>7

LEMMA Connected ==
    ASSUME EditorTypeOK, NEW a \in Present, NEW b \in Present, ValidEdge(a, b)
    PROVE  LET E == Append(edges, <<a, b>>)
           IN  /\ E \in Seq(Present \X Present) /\ E \in Seq(Nodes \X Nodes) /\ Drawable(E)
               /\ Range(E) = Range(edges) \cup {<<a, b>>} /\ <<a, b>> \notin Range(edges)
<1> DEFINE e == <<a, b>>
           E == Append(edges, e)
           R == Range(edges)
           Q == R \cup {e}
<1>1. /\ edges \in Seq(Present \X Present) /\ Drawable(edges) /\ R \subseteq Nodes \X Nodes
      /\ edges \in Seq(Nodes \X Nodes) /\ a \in Nodes /\ b \in Nodes
  BY TypeFacts
<1>2. a # b /\ ~Tied(R, a, b)
  BY <1>1, NeighboursAre DEF ValidEdge
<1>3. e \notin R /\ <<b, a>> \notin R
  BY <1>2 DEF Tied
<1>4. /\ E \in Seq(Present \X Present) /\ E \in Seq(Nodes \X Nodes) /\ Range(E) = Q
      /\ IsInjective(E)
  <2>1. e \in Present \X Present /\ e \in Nodes \X Nodes
    BY <1>1
  <2>2. IsInjective(edges)
    BY <1>1 DEF Drawable
  <2> HIDE DEF e
  <2>3. E \in Seq(Present \X Present) /\ Range(E) = Q
    BY <1>1, <2>1, WithLast
  <2>4. E \in Seq(Nodes \X Nodes) /\ (IsInjective(edges) /\ e \notin R => IsInjective(E))
    BY <1>1, <2>1, WithLast
  <2> QED BY <1>3, <2>2, <2>3, <2>4
<1>5. \A f, g \in Q : f[1] # f[2] /\ ({f[1], f[2]} = {g[1], g[2]} => f = g)
  <2>1. \A f, g \in R : f[1] # f[2] /\ ({f[1], f[2]} = {g[1], g[2]} => f = g)
    BY <1>1, Zenon DEF Drawable
  <2>2. ASSUME NEW f \in R, {f[1], f[2]} = {a, b} PROVE FALSE
    <3>1. f = <<f[1], f[2]>>
      BY <1>1
    <3>2. f = <<a, b>> \/ f = <<b, a>>
      BY <1>2, <2>2, <3>1
    <3> QED BY <1>3, <3>2
  <2> TAKE f, g \in Q
  <2>3. e[1] = a /\ e[2] = b
    OBVIOUS
  <2> HIDE DEF R, e
  <2>4. CASE f \in R /\ g \in R
    BY <2>1, <2>4
  <2>5. CASE f = e /\ g \in R
    BY <1>2, <2>2, <2>3, <2>5
  <2>6. CASE f \in R /\ g = e
    BY <2>1, <2>2, <2>3, <2>6
  <2>7. CASE f = e /\ g = e
    BY <1>2, <2>3, <2>7
  <2> QED BY <2>4, <2>5, <2>6, <2>7
<1>6. ASSUME NEW v \in Subnets, NEW f \in Q, NEW g \in Q, NEW h \in Q,
             v \in {f[1], f[2]}, v \in {g[1], g[2]}, v \in {h[1], h[2]}
      PROVE  f = g \/ g = h \/ f = h
  <2>1. CASE f \in R /\ g \in R /\ h \in R
    BY <1>1, <1>6, <2>1, Zenon DEF Drawable
  <2>2. ASSUME v \in {a, b}, NEW x \in R, NEW y \in R, v \in {x[1], x[2]}, v \in {y[1], y[2]}
        PROVE  x = y
    <3>1. Len(Around(edges, v)) # 2
      BY <2>2 DEF ValidEdge, IsValid
    <3>2. x \in Links(edges, v) /\ y \in Links(edges, v)
      BY <2>2 DEF Links
    <3> QED BY <1>1, <3>1, <3>2, Room
  <2>3. e[1] = a /\ e[2] = b
    OBVIOUS
  <2> HIDE DEF R, e
  <2>4. CASE f = e
    BY <1>6, <2>2, <2>3, <2>4
  <2>5. CASE g = e
    BY <1>6, <2>2, <2>3, <2>5
  <2>6. CASE h = e
    BY <1>6, <2>2, <2>3, <2>6
  <2> QED BY <2>1, <2>4, <2>5, <2>6
<1>7. Q \subseteq Nodes \X Nodes
  BY <1>1
<1>8. Simple(Q)
  <2> HIDE DEF Q
  <2> QED BY <1>5, <1>6, <1>7, Zenon DEF Simple
<1>9. Drawable(E)
  BY <1>4, <1>8, Simpler
<1> QED BY <1>3, <1>4, <1>9

LEMMA ConnectStep ==
    ASSUME EditorInv, NEW a \in Nodes, NEW b \in Nodes, Connect(a, b)
    PROVE  EditorInv'
<1> DEFINE e == <<a, b>>
           E == Append(edges, e)
           I == WithLink(interfaces, edges, e)
<1>1. EditorTypeOK /\ shared \subseteq Interfaceable \X Nodes
  BY DEF EditorInv, EditorTypeOK
<1>2. /\ a \in Present /\ b \in Present /\ ValidEdge(a, b) /\ Edit /\ Becomes(E, I)
      /\ devices' = devices
  BY DEF Connect
<1>3. /\ E \in Seq(Present \X Present) /\ E \in Seq(Nodes \X Nodes) /\ Drawable(E)
      /\ Range(E) = Range(edges) \cup {e} /\ e \notin Range(edges) /\ e \in Nodes \X Nodes
  BY <1>1, <1>2, Connected
<1> HIDE DEF e, E
<1>4. edges \in Seq(Nodes \X Nodes) /\ interfaces \in Neat
  BY <1>1, TypeFacts
<1>5. Simple(Range(E))
  BY <1>3, SimpleIs
<1>6. /\ Told(edges, e) \in Seq(Interfaceable \X Nodes)
      /\ \A d \in Interfaceable, t \in Nodes :
            JoinedBy(Range(E), d, t)
              <=> JoinedBy(Range(edges), d, t) \/ <<d, t>> \in Range(Told(edges, e))
  BY <1>3, <1>4, <1>5, LinkJoins
<1>7. /\ I \in Neat
      /\ \A d \in Interfaceable, t \in Nodes :
            Has(I, d, t) <=> Has(interfaces, d, t) \/ <<d, t>> \in Range(Told(edges, e))
  BY <1>4, <1>6, AddInterfacesIs, Zenon DEF WithLink
<1> HIDE DEF I
<1>8. Follows(I, Range(E), shared)
  BY <1>6, <1>7, FollowFacts, Zenon DEF Follows
<1>9. /\ edges' = E /\ interfaces' \in Neat
      /\ InterfacesFollowLinks' /\ JoinedTwice(edges') \subseteq shared'
      /\ shared' \subseteq Interfaceable \X Nodes
  BY <1>1, <1>2, <1>3, <1>7, <1>8, Becoming
<1>10. devices' \in Seq(Nodes) /\ IsInjective(devices') /\ Range(devices') = Present
  BY <1>1, <1>2, TypeFacts DEF Present
<1>11. edits' \in 0..MaxEdits
  BY <1>1, <1>2, EditCounts
<1>12. EditorTypeOK'
  BY <1>3, <1>9, <1>10, <1>11, Typed
<1> QED BY <1>9, <1>12 DEF EditorInv

(* The connections in gone are deleted, and devices with no others go.     *)
LEMMA CutKeeps ==
    ASSUME EditorInv, NEW gone \in Seq(Range(edges)), IsInjective(gone), Edit,
           Becomes(Less(edges, Range(gone)), Cut(interfaces, edges, gone)),
           devices' \in Seq(Nodes), IsInjective(devices'),
           Range(edges) \ Range(gone) \subseteq Range(devices') \X Range(devices')
    PROVE  EditorInv'
<1> DEFINE E == Less(edges, Range(gone))
           I == Cut(interfaces, edges, gone)
<1>1. EditorTypeOK /\ shared \subseteq Interfaceable \X Nodes
  BY DEF EditorInv, EditorTypeOK
<1>2. edges \in Seq(Nodes \X Nodes) /\ interfaces \in Neat /\ Drawable(edges)
  BY <1>1, TypeFacts
<1>3. Simple(Range(edges)) /\ IsInjective(edges)
  BY <1>2, SimpleIs
<1>4. /\ E \in Seq(Nodes \X Nodes) /\ Range(E) = Range(edges) \ Range(gone)
      /\ IsInjective(edges) => IsInjective(E)
  BY <1>2, LessIs
<1>5. /\ I \in Neat
      /\ \A d \in Interfaceable, t \in Nodes :
           /\ Has(I, d, t) => JoinedBy(Range(edges) \ Range(gone), d, t)
           /\ JoinedBy(Range(edges) \ Range(gone), d, t) /\ ~Has(I, d, t) => <<d, t>> \in shared
  <2>1. \A d \in Interfaceable, t \in Nodes :
              /\ Has(interfaces, d, t) => JoinedBy(Range(edges), d, t)
              /\ JoinedBy(Range(edges), d, t) /\ ~Has(interfaces, d, t) => <<d, t>> \in shared
              /\ TwiceBy(Range(edges), d, t) => <<d, t>> \in shared
    BY FollowFacts
  <2> QED BY <1>2, <2>1, CutIs
<1> HIDE DEF E, I
<1>6. Simple(Range(E))
  <2>1. Range(E) \subseteq Range(edges)
    BY <1>4
  <2> QED BY <1>3, <2>1, SimplePart
<1>7. Drawable(E)
  BY <1>3, <1>4, <1>6, Simpler
<1>8. Follows(I, Range(E), shared)
  BY <1>4, <1>5, Zenon DEF Follows
<1>9. /\ edges' = E /\ interfaces' \in Neat
      /\ InterfacesFollowLinks' /\ JoinedTwice(edges') \subseteq shared'
      /\ shared' \subseteq Interfaceable \X Nodes
  BY <1>1, <1>4, <1>5, <1>7, <1>8, Becoming DEF E, I
<1>10. E \in Seq(Range(devices') \X Range(devices'))
  BY <1>4, SeqSub
<1>11. edits' \in 0..MaxEdits
  BY <1>1, EditCounts
<1>12. EditorTypeOK'
  BY <1>7, <1>9, <1>10, <1>11, Typed
<1> QED BY <1>9, <1>12 DEF EditorInv

LEMMA DeleteEdgeStep ==
    ASSUME EditorInv, NEW e \in Range(edges), DeleteEdge(e)
    PROVE  EditorInv'
<1>1. EditorTypeOK
  BY DEF EditorInv
<1>2. Becomes(Less(edges, {e}), Cut(interfaces, edges, <<e>>)) /\ devices' = devices /\ Edit
  BY DEF DeleteEdge
<1>3. <<e>> \in Seq(Range(edges)) /\ IsInjective(<<e>>) /\ Range(<<e>>) = {e}
  BY DEF IsInjective, Range
<1>4. /\ devices' \in Seq(Nodes) /\ IsInjective(devices')
      /\ Range(edges) \subseteq Range(devices') \X Range(devices')
  BY <1>1, <1>2, TypeFacts DEF Present
<1> DEFINE gone == <<e>>
<1> HIDE DEF gone
<1>5. /\ gone \in Seq(Range(edges)) /\ IsInjective(gone)
      /\ Becomes(Less(edges, Range(gone)), Cut(interfaces, edges, gone))
      /\ Range(edges) \ Range(gone) \subseteq Range(devices') \X Range(devices')
  <2>1. Becomes(Less(edges, Range(gone)), Cut(interfaces, edges, gone))
    BY <1>2, <1>3, Zenon DEF gone
  <2> QED BY <1>3, <1>4, <2>1 DEF gone
<1> QED BY <1>2, <1>4, <1>5, CutKeeps

LEMMA DeleteNodeStep ==
    ASSUME EditorInv, NEW d \in Nodes, DeleteNode(d)
    PROVE  EditorInv'
<1> DEFINE gone == At(edges, d)
           L == Links(edges, d)
<1>1. EditorTypeOK
  BY DEF EditorInv
<1>2. Becomes(Less(edges, L), Cut(interfaces, edges, gone)) /\ Edit
      /\ devices' = Only(devices, Present \ {d})
  BY Zenon DEF DeleteNode
<1>3. /\ edges \in Seq(Nodes \X Nodes) /\ Drawable(edges) /\ devices \in Seq(Nodes)
      /\ IsInjective(devices) /\ Range(edges) \subseteq Present \X Present
  BY <1>1, TypeFacts
<1>4. edges \in Seq(Range(edges)) /\ IsInjective(edges)
  BY <1>3, RangeIn DEF Drawable
<1>5. L \subseteq Range(edges) /\ \A e \in Range(edges) \ L : d \notin {e[1], e[2]}
  BY DEF Links
<1>6. gone \in Seq(Range(edges)) /\ IsInjective(gone) /\ Range(gone) = L
  <2>1. gone = Only(edges, L)
    BY DEF At
  <2> HIDE DEF gone, L
  <2>2. /\ gone \in Seq(Range(edges)) /\ Range(gone) = Range(edges) \cap L
        /\ IsInjective(edges) => IsInjective(gone)
    BY <1>4, <2>1, OnlyIs
  <2> QED BY <1>4, <1>5, <2>2
<1>7. /\ devices' \in Seq(Nodes) /\ IsInjective(devices')
      /\ Range(devices') = Present \ {d}
  <2> DEFINE S == Present \ {d}
  <2>1. Range(devices) \cap S = S
    BY DEF Present
  <2>2. devices' = Only(devices, S)
    BY <1>2
  <2> HIDE DEF S
  <2>3. /\ devices' \in Seq(Nodes) /\ Range(devices') = Range(devices) \cap S
        /\ IsInjective(devices) => IsInjective(devices')
    BY <1>3, <2>2, OnlyIs
  <2> QED BY <1>3, <2>1, <2>3 DEF S
<1> HIDE DEF gone, L
<1>8. Range(edges) \ Range(gone) \subseteq Range(devices') \X Range(devices')
  BY <1>3, <1>5, <1>6, <1>7
<1>9. Becomes(Less(edges, Range(gone)), Cut(interfaces, edges, gone))
  BY <1>2, <1>6, Zenon
<1> QED BY <1>2, <1>6, <1>7, <1>8, <1>9, CutKeeps

LEMMA ReloadStep ==
    ASSUME EditorInv, Reload
    PROVE  EditorInv'
<1> DEFINE E == Reversed(edges)
           I == Loaded(E)
<1>1. EditorTypeOK /\ shared \subseteq Interfaceable \X Nodes
  BY DEF EditorInv, EditorTypeOK
<1>2. devices' = Reversed(devices) /\ Becomes(E, I) /\ Edit
  BY Zenon DEF Reload
<1>3. /\ edges \in Seq(Nodes \X Nodes) /\ edges \in Seq(Present \X Present)
      /\ Drawable(edges) /\ devices \in Seq(Nodes) /\ IsInjective(devices)
  BY <1>1, TypeFacts
<1>4. Simple(Range(edges)) /\ IsInjective(edges)
  BY <1>3, SimpleIs
<1>5. /\ E \in Seq(Nodes \X Nodes) /\ Range(E) = Range(edges)
      /\ IsInjective(edges) => IsInjective(E)
  BY <1>3, ReversedIs
<1>6. E \in Seq(Present \X Present)
  BY <1>3, ReversedIs
<1>7. /\ devices' \in Seq(Nodes) /\ IsInjective(devices') /\ Range(devices') = Present
  BY <1>2, <1>3, ReversedIs DEF Present
<1> HIDE DEF E
<1>8. Simple(Range(E)) /\ IsInjective(E)
  BY <1>4, <1>5
<1>9. Drawable(E)
  BY <1>5, <1>8, Simpler
<1>10. I \in Neat /\ \A d \in Interfaceable, t \in Nodes : Has(I, d, t) <=> JoinedBy(Range(E), d, t)
  BY <1>5, <1>9, LoadedIs, Zenon
<1> HIDE DEF I
<1>11. Follows(I, Range(E), shared)
  BY <1>10, Zenon DEF Follows
<1>12. /\ edges' = E /\ interfaces' \in Neat
       /\ InterfacesFollowLinks' /\ JoinedTwice(edges') \subseteq shared'
       /\ shared' \subseteq Interfaceable \X Nodes
  BY <1>1, <1>2, <1>5, <1>9, <1>10, <1>11, Becoming
<1>13. edits' \in 0..MaxEdits
  BY <1>1, <1>2, EditCounts
<1>14. EditorTypeOK'
  BY <1>6, <1>7, <1>9, <1>12, <1>13, Typed
<1> QED BY <1>12, <1>14 DEF EditorInv

LEMMA EditorStep == EditorInv /\ [EditorNext]_editorVars => EditorInv'
<1> SUFFICES ASSUME EditorInv, [EditorNext]_editorVars PROVE EditorInv'
  OBVIOUS
<1>1. ASSUME NEW d \in Nodes, Drop(d) PROVE EditorInv'
  BY <1>1, DropStep
<1>2. ASSUME NEW d \in Nodes, DeleteNode(d) PROVE EditorInv'
  BY <1>2, DeleteNodeStep
<1>3. ASSUME NEW a \in Nodes, NEW b \in Nodes, Connect(a, b) PROVE EditorInv'
  BY <1>3, ConnectStep
<1>4. ASSUME NEW e \in Range(edges), DeleteEdge(e) PROVE EditorInv'
  BY <1>4, DeleteEdgeStep
<1>5. CASE Reload
  BY <1>5, ReloadStep
<1>6. CASE UNCHANGED editorVars
  BY <1>6 DEF editorVars, EditorInv, EditorTypeOK, InterfacesFollowLinks, Present
<1> QED BY <1>1, <1>2, <1>3, <1>4, <1>5, <1>6, Zenon DEF EditorNext

LEMMA EditorInvariant == EditorSpec => []EditorInv
BY InitEditor, EditorStep, PTL DEF EditorSpec

(* What is on the canvas is what the editor draws: no item twice, no two   *)
(* links between the same two, at most two at a subnet, and interfaces     *)
(* with different targets at hosts and routers only.                       *)
THEOREM EditorTypes == EditorSpec => []EditorTypeOK
<1>1. EditorInv => EditorTypeOK
  BY DEF EditorInv
<1> QED BY <1>1, EditorInvariant, PTL

(* Whatever is dropped, connected, deleted and loaded, in whatever order,  *)
(* each host and router has the interfaces that its links call for, and    *)
(* lacks one only where two links to the same device shared it.            *)
THEOREM InterfacesFollow == EditorSpec => []InterfacesFollowLinks
<1>1. EditorInv => InterfacesFollowLinks
  BY DEF EditorInv
<1> QED BY <1>1, EditorInvariant, PTL
=============================================================================
