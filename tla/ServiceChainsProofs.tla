------------------------- MODULE ServiceChainsProofs -------------------------
(***************************************************************************)
(* Proofs about ServiceChains, for any functions, pairs, threads and       *)
(* bounds: the types, that the controller's book implements ChainBook, and *)
(* that the two books of chains differ by the commands under way only.     *)
(***************************************************************************)
EXTENDS ServiceChains, TLAPS

(* The type invariant in three parts, by who writes them.  A thread that   *)
(* removes a chain knows which.                                            *)
ReqInv == /\ services \subseteq Functions
          /\ attached \subseteq Functions \cup Pairs
          /\ active \in [Functions -> Int]
          /\ chains \in [Ids -> Lists \cup {Empty}]
          /\ nextId \in 1..(MaxChains + 1)
          /\ paths \in [Pairs -> Ids \cup {NoId}]
JobInv == /\ job \in [Threads -> Job]
          /\ \A t \in Threads : job[t].at = "paths" => job[t].id \in Ids
LinkInv == /\ client \in {"none", "open", "broken", "closed"}
           /\ stream \in Seq(Command)
           /\ missed \in BOOLEAN
CtlInv == /\ up \in BOOLEAN
          /\ ctlChains \in [Ids -> Lists \cup {Empty}]
          /\ ctlPaths \in [Pairs -> Ids \cup {NoId}]

TInv == ReqInv /\ JobInv /\ LinkInv /\ CtlInv

reqVars == <<services, attached, active, chains, nextId, paths>>
linkVars == <<client, stream, missed>>
-----------------------------------------------------------------------------
(* Commands and lists                                                      *)

LEMMA EmptyIsNoList == Empty \notin Lists
BY DEF Empty, Lists

LEMMA Commands ==
    /\ Hello \in Command /\ Bye \in Command
    /\ \A i \in Ids : DelChain(i) \in Command
    /\ \A i \in Ids, l \in Lists : AddChain(i, l) \in Command
    /\ \A p \in Pairs : DelPath(p) \in Command
    /\ \A p \in Pairs, i \in Ids : AddPath(p, i) \in Command
BY DEF Command

LEMMA Fields ==
    ASSUME NEW c \in Command
    PROVE  /\ c.type \in {"hello", "bye", "addchain", "delchain", "addpath", "delpath"}
           /\ c.type = "addchain" => c.id \in Ids /\ c.list \in Lists
           /\ c.type = "delchain" => c.id \in Ids
           /\ c.type = "addpath" => c.id \in Ids /\ c.pair \in Pairs
           /\ c.type = "delpath" => c.pair \in Pairs
BY DEF Command, Hello, Bye, AddChain, DelChain, AddPath, DelPath

LEMMA HeadTail ==
    ASSUME NEW S, NEW q \in Seq(S), q # <<>>
    PROVE  Head(q) \in S /\ Tail(q) \in Seq(S)
OBVIOUS

LEMMA Appended ==
    ASSUME NEW S, NEW q \in Seq(S), NEW e \in S
    PROVE  Append(q, e) \in Seq(S)
OBVIOUS

LEMMA NoCommands == ASSUME NEW S PROVE <<>> \in Seq(S)
OBVIOUS

LEMMA Rest ==
    ASSUME NEW S, NEW q \in Seq(S), NEW n \in 1..Len(q)
    PROVE  SubSeq(q, n + 1, Len(q)) \in Seq(S)
OBVIOUS
-----------------------------------------------------------------------------
(* The parts of a step                                                     *)

(* Whoever sends, the stream stays a stream of commands.                   *)
LEMMA SendInv ==
    ASSUME LinkInv, NEW c \in Command, Send(c)
    PROVE  LinkInv'
<1>1. Append(stream, c) \in Seq(Command)
  BY Appended DEF LinkInv
<1>2. stream' \in Seq(Command)
  BY <1>1 DEF Send, LinkInv
<1> QED BY <1>2 DEF Send, LinkInv

LEMMA NotSentInv ==
    ASSUME LinkInv, NotSent
    PROVE  LinkInv'
BY DEF NotSent, LinkInv

LEMMA Unchanged ==
    ASSUME TInv
    PROVE  /\ UNCHANGED reqVars => ReqInv'
           /\ UNCHANGED job => JobInv'
           /\ UNCHANGED linkVars => LinkInv'
           /\ UNCHANGED controller => CtlInv'
BY DEF TInv, ReqInv, JobInv, LinkInv, CtlInv, reqVars, linkVars, controller

LEMMA IdleJob == Idle \in Job
BY DEF Idle, Job

(* A job that is put in a thread's place.                                  *)
LEMMA JobSet ==
    ASSUME TInv, NEW t \in Threads, NEW j \in Job, j.at = "paths" => j.id \in Ids,
           job' = [job EXCEPT ![t] = j]
    PROVE  JobInv'
BY DEF TInv, JobInv

LEMMA JobIdle ==
    ASSUME TInv, NEW t \in Threads, job' = [job EXCEPT ![t] = Idle]
    PROVE  JobInv'
BY IdleJob, JobSet DEF Idle

LEMMA JobOf ==
    ASSUME TInv, NEW t \in Threads
    PROVE  job[t] \in Job /\ (job[t].at = "paths" => job[t].id \in Ids)
BY DEF TInv, JobInv

LEMMA DropPathInv ==
    ASSUME TInv, NEW p \in Pairs, NEW sent \in BOOLEAN, DropPath(p, sent)
    PROVE  /\ LinkInv' /\ paths' \in [Pairs -> Ids \cup {NoId}]
<1>1. DelPath(p) \in Command
  BY Commands
<1>2. LinkInv'
  <2>1. CASE Send(DelPath(p))
    BY <1>1, <2>1, SendInv DEF TInv
  <2>2. CASE NotSent
    BY <2>2, NotSentInv DEF TInv
  <2> QED BY <2>1, <2>2 DEF DropPath, SendRaises
<1>3. paths' \in [Pairs -> Ids \cup {NoId}]
  BY DEF DropPath, TInv, ReqInv
<1> QED BY <1>2, <1>3

LEMMA AfterJob ==
    ASSUME NEW j \in Job
    PROVE  After(j) \in Job /\ After(j).at # "paths"
BY IdleJob DEF After, Job, Idle

LEMMA DropChainInv ==
    ASSUME TInv, NEW t \in Threads, NEW j \in Job, j.id \in Ids, DropChain(t, j)
    PROVE  TInv'
<1>1. active' \in [Functions -> Int]
  BY DEF DropChain, TInv, ReqInv
<1>2. chains' \in [Ids -> Lists \cup {Empty}]
  BY DEF DropChain, TInv, ReqInv
<1>3. ReqInv'
  BY <1>1, <1>2 DEF DropChain, TInv, ReqInv
<1>4. CtlInv'
  BY Unchanged DEF DropChain
<1>5. DelChain(j.id) \in Command
  BY Commands
<1>6. LinkInv' /\ JobInv'
  <2>1. CASE chains[j.id] = Empty
    BY <2>1, JobIdle, Unchanged DEF DropChain, linkVars
  <2>2. CASE chains[j.id] # Empty /\ Send(DelChain(j.id)) /\ job' = [job EXCEPT ![t] = After(j)]
    BY <1>5, <2>2, SendInv, AfterJob, JobSet DEF TInv
  <2>3. CASE chains[j.id] # Empty /\ SendRaises /\ job' = [job EXCEPT ![t] = Idle]
    BY <2>3, NotSentInv, JobIdle DEF TInv, SendRaises
  <2> QED BY <2>1, <2>2, <2>3 DEF DropChain
<1> QED BY <1>3, <1>4, <1>6 DEF TInv

LEMMA RemovingJob ==
    ASSUME TInv, NEW j \in Job, NEW i \in Ids
    PROVE  Removing(j, i) \in Job /\ Removing(j, i).id = i
<1>1. chains[i] \in Lists \cup {Empty} /\ PathsOver(i) \subseteq Pairs
  BY DEF TInv, ReqInv, PathsOver
<1> QED BY <1>1 DEF Removing, Job

LEMMA BeginChainInv ==
    ASSUME TInv, NEW t \in Threads, NEW j \in Job, j.id \in Ids, BeginChain(t, j)
    PROVE  TInv'
<1>1. CASE j.ps = {}
  BY <1>1, DropChainInv DEF BeginChain
<1>2. CASE j.ps # {}
  <2>1. JobInv'
    BY <1>2, JobSet DEF BeginChain
  <2>2. ReqInv' /\ LinkInv' /\ CtlInv'
    BY <1>2, Unchanged DEF BeginChain, reqVars, linkVars
  <2> QED BY <2>1, <2>2 DEF TInv
<1> QED BY <1>1, <1>2
-----------------------------------------------------------------------------
LEMMA ShortRequestInv ==
    ASSUME TInv, ShortRequest
    PROVE  TInv'
<1>1. CASE OpenConnection
  <2>1. Append(stream, Hello) \in Seq(Command)
    BY Commands, Appended DEF TInv, LinkInv
  <2>2. LinkInv'
    BY <1>1, <2>1 DEF OpenConnection, TInv, LinkInv
  <2> QED BY <1>1, <2>2, Unchanged DEF OpenConnection, orchestrator, reqVars, TInv
<1>2. ASSUME NEW f \in Functions, StartServiceNode(f) PROVE TInv'
  <2>1. ReqInv'
    BY <1>2 DEF StartServiceNode, TInv, ReqInv
  <2> QED BY <1>2, <2>1, Unchanged DEF StartServiceNode, linkVars, TInv
<1>3. ASSUME NEW p \in Pairs, EndpointStops(p) PROVE TInv'
  <2>1. ReqInv'
    BY <1>3 DEF EndpointStops, TInv, ReqInv
  <2> QED BY <1>3, <2>1, Unchanged DEF EndpointStops, linkVars, TInv
<1>4. ASSUME NEW l \in Lists, CreateServiceChain(l) PROVE TInv'
  <2>1. nextId \in Ids /\ nextId' \in 1..(MaxChains + 1)
    BY <1>4, ChainsAssumption DEF CreateServiceChain, Ids
  <2>2. ReqInv'
    <3>1. active' \in [Functions -> Int]
      BY <1>4 DEF CreateServiceChain, TInv, ReqInv
    <3>2. chains' \in [Ids -> Lists \cup {Empty}]
      BY <1>4 DEF CreateServiceChain, TInv, ReqInv
    <3> QED BY <1>4, <2>1, <3>1, <3>2 DEF CreateServiceChain, TInv, ReqInv
  <2>3. LinkInv'
    <3>1. AddChain(nextId, l) \in Command
      BY <2>1, Commands
    <3>2. CASE Send(AddChain(nextId, l))
      BY <3>1, <3>2, SendInv DEF TInv
    <3>3. CASE NotSent
      BY <3>3, NotSentInv DEF TInv
    <3> QED BY <1>4, <3>2, <3>3 DEF CreateServiceChain, SendRaises
  <2> QED BY <1>4, <2>2, <2>3, Unchanged DEF CreateServiceChain, TInv
<1>5. ASSUME NEW p \in Pairs, NEW i \in Ids, CreateServicePath(p, i) PROVE TInv'
  <2>1. ReqInv'
    BY <1>5 DEF CreateServicePath, TInv, ReqInv
  <2>2. LinkInv'
    <3>1. AddPath(p, i) \in Command
      BY Commands
    <3>2. CASE Send(AddPath(p, i))
      BY <3>1, <3>2, SendInv DEF TInv
    <3>3. CASE NotSent
      BY <3>3, NotSentInv DEF TInv
    <3> QED BY <1>5, <3>2, <3>3 DEF CreateServicePath, SendRaises
  <2> QED BY <1>5, <2>1, <2>2, Unchanged DEF CreateServicePath, TInv
<1>6. ASSUME NEW p \in Pairs, RemoveServicePath(p) PROVE TInv'
  <2>1. LinkInv' /\ paths' \in [Pairs -> Ids \cup {NoId}]
    BY <1>6, DropPathInv DEF RemoveServicePath
  <2>2. ReqInv'
    BY <1>6, <2>1 DEF RemoveServicePath, TInv, ReqInv
  <2> QED BY <1>6, <2>1, <2>2, Unchanged DEF RemoveServicePath, TInv
<1> QED BY <1>1, <1>2, <1>3, <1>4, <1>5, <1>6 DEF ShortRequest

LEMMA RequestInv ==
    ASSUME TInv, NEW t \in Threads, Request(t)
    PROVE  TInv'
<1> DEFINE j == job[t]
<1>0. j \in Job /\ (j.at = "paths" => j.id \in Ids)
  BY JobOf
<1>1. ASSUME NEW i \in Ids, NEW force \in BOOLEAN, RemoveServiceChain(t, i, force)
      PROVE  TInv'
  BY <1>1, IdleJob, RemovingJob, BeginChainInv DEF RemoveServiceChain
<1>2. ASSUME NEW f \in Functions, NEW force \in BOOLEAN, RemoveServiceNode(t, f, force)
      PROVE  TInv'
  <2>1. PICK k \in SUBSET Ids :
          job' = [job EXCEPT ![t] = [Idle EXCEPT !.f = f, !.at = "chains", !.ids = k]]
    <3>1. {i \in Ids : f \in Members(chains[i])} \in SUBSET Ids
      OBVIOUS
    <3> QED BY <1>2, <3>1 DEF RemoveServiceNode
  <2>2. [Idle EXCEPT !.f = f, !.at = "chains", !.ids = k] \in Job
    BY DEF Idle, Job
  <2>3. JobInv'
    BY <2>1, <2>2, JobSet DEF Idle
  <2> QED BY <1>2, <2>3, Unchanged DEF RemoveServiceNode, reqVars, linkVars, TInv
<1>3. ASSUME NEW p \in Pairs, DropNextPath(t, p) PROVE TInv'
  <2>1. [j EXCEPT !.ps = @ \ {p}] \in Job /\ [j EXCEPT !.ps = @ \ {p}].id = j.id
    BY <1>0 DEF Job
  <2>2. job' = [job EXCEPT ![t] = [j EXCEPT !.ps = @ \ {p}]] \/ job' = [job EXCEPT ![t] = Idle]
    BY <1>3 DEF DropNextPath
  <2>3. j.id \in Ids
    BY <1>0, <1>3 DEF DropNextPath
  <2>4. JobInv'
    BY <2>1, <2>2, <2>3, JobSet, JobIdle
  <2>5. LinkInv' /\ paths' \in [Pairs -> Ids \cup {NoId}]
    <3>1. CASE paths[p] = NoId
      BY <1>3, <3>1, Unchanged DEF DropNextPath, linkVars, TInv, ReqInv
    <3>2. CASE paths[p] # NoId
      BY <1>3, <3>2, DropPathInv DEF DropNextPath
    <3> QED BY <3>1, <3>2
  <2>6. ReqInv'
    BY <1>3, <2>5 DEF DropNextPath, TInv, ReqInv
  <2> QED BY <1>3, <2>4, <2>5, <2>6, Unchanged DEF DropNextPath, TInv
<1>4. CASE FinishChain(t)
  BY <1>0, <1>4, DropChainInv DEF FinishChain
<1>5. ASSUME NEW i \in Ids, NextChain(t, i) PROVE TInv'
  <2>1. CASE chains[i] # Empty
    BY <1>0, <1>5, <2>1, RemovingJob, BeginChainInv DEF NextChain
  <2>2. CASE chains[i] = Empty
    <3>1. [j EXCEPT !.ids = @ \ {i}] \in Job /\ [j EXCEPT !.ids = @ \ {i}].at = "chains"
      BY <1>0, <1>5 DEF Job, NextChain
    <3>2. JobInv'
      BY <1>5, <2>2, <3>1, JobSet DEF NextChain
    <3> QED BY <1>5, <2>2, <3>2, Unchanged DEF NextChain, reqVars, linkVars, TInv
  <2> QED BY <2>1, <2>2
<1>6. CASE Detach(t)
  <2>1. [j EXCEPT !.at = "delete"] \in Job /\ [j EXCEPT !.at = "delete"].at = "delete"
    BY <1>0 DEF Job
  <2>2. JobInv'
    BY <1>6, <2>1, JobSet, JobIdle DEF Detach
  <2>3. ReqInv'
    BY <1>6 DEF Detach, TInv, ReqInv
  <2> QED BY <1>6, <2>2, <2>3, Unchanged DEF Detach, linkVars, TInv
<1>7. CASE DeleteNode(t)
  <2>1. JobInv'
    BY <1>7, JobIdle DEF DeleteNode
  <2>2. ReqInv'
    BY <1>7 DEF DeleteNode, TInv, ReqInv
  <2> QED BY <1>7, <2>1, <2>2, Unchanged DEF DeleteNode, linkVars, TInv
<1> QED BY <1>1, <1>2, <1>3, <1>4, <1>5, <1>6, <1>7 DEF Request
-----------------------------------------------------------------------------
(* Carrying out a command is a step of ChainBook, or changes no book.      *)
bookVars == <<ctlChains, ctlPaths>>

LEMMA Forgets ==
    ASSUME ctlChains' = [i \in Ids |-> Empty], ctlPaths' = [p \in Pairs |-> NoId],
           TInv
    PROVE  Book!Next /\ ctlChains' \in [Ids -> Lists \cup {Empty}]
           /\ ctlPaths' \in [Pairs -> Ids \cup {NoId}]
BY DEF Book!Next, Book!Forget

LEMMA CarryInv ==
    ASSUME TInv, NEW c \in Command, Carry(c)
    PROVE  /\ Book!Next \/ UNCHANGED bookVars
           /\ ctlChains' \in [Ids -> Lists \cup {Empty}]
           /\ ctlPaths' \in [Pairs -> Ids \cup {NoId}]
           /\ missed' \in BOOLEAN
<1> USE DEF TInv, CtlInv, LinkInv
<1>1. CASE c.type = "addchain"
  <2>1. c.id \in Ids /\ c.list \in Lists
    BY <1>1, Fields
  <2>2. ctlChains' = [ctlChains EXCEPT ![c.id] = c.list] /\ UNCHANGED <<ctlPaths, missed>>
    BY <1>1 DEF Carry
  <2>3. Book!AddChain(c.id, c.list)
    BY <2>2 DEF Book!AddChain
  <2> QED BY <2>1, <2>2, <2>3 DEF Book!Next
<1>2. CASE c.type = "delchain"
  <2>1. c.id \in Ids
    BY <1>2, Fields
  <2>2. /\ ctlChains' = [ctlChains EXCEPT ![c.id] = Empty]
        /\ ctlPaths' = [p \in Pairs |-> IF ctlPaths[p] = c.id THEN NoId ELSE ctlPaths[p]]
        /\ UNCHANGED missed
    BY <1>2 DEF Carry
  <2>3. Book!RemoveChain(c.id)
    BY <2>2 DEF Book!RemoveChain
  <2> QED BY <2>1, <2>2, <2>3 DEF Book!Next
<1>3. CASE c.type = "addpath" /\ ctlChains[c.id] # Empty
  <2>1. c.id \in Ids /\ c.pair \in Pairs
    BY <1>3, Fields
  <2>2. ctlPaths' = [ctlPaths EXCEPT ![c.pair] = c.id] /\ UNCHANGED <<ctlChains, missed>>
    BY <1>3 DEF Carry
  <2>3. Book!AddPath(c.pair, c.id)
    BY <1>3, <2>2 DEF Book!AddPath
  <2> QED BY <2>1, <2>2, <2>3 DEF Book!Next
<1>4. CASE c.type = "addpath" /\ ctlChains[c.id] = Empty
  BY <1>4 DEF Carry, bookVars
<1>5. CASE c.type = "delpath"
  <2>1. c.pair \in Pairs
    BY <1>5, Fields
  <2>2. ctlPaths' = [ctlPaths EXCEPT ![c.pair] = NoId] /\ UNCHANGED <<ctlChains, missed>>
    BY <1>5 DEF Carry
  <2>3. Book!RemovePath(c.pair)
    BY <2>2 DEF Book!RemovePath
  <2> QED BY <2>1, <2>2, <2>3 DEF Book!Next
<1>6. CASE c.type \in {"hello", "bye"}
  BY <1>6 DEF Carry, bookVars
<1> QED BY <1>1, <1>2, <1>3, <1>4, <1>5, <1>6, Fields

(* The steps of the controller.                                            *)
ControllerStep == \/ Receive \/ (\E n \in 1..MaxStream : ReceiveGarbled(n))
                  \/ SwitchConnects \/ SwitchDisconnects \/ ControllerStops

LEMMA ControllerInv ==
    ASSUME TInv, ControllerStep
    PROVE  TInv' /\ (Book!Next \/ UNCHANGED bookVars)
<1>0. UNCHANGED orchestrator
  BY DEF ControllerStep, Receive, ReceiveGarbled, SwitchConnects, SwitchDisconnects,
         ControllerStops
<1>1. ReqInv' /\ JobInv'
  BY <1>0, Unchanged DEF orchestrator, reqVars
<1>2. CASE Receive
  <2>1. Head(stream) \in Command /\ Tail(stream) \in Seq(Command)
    BY <1>2, HeadTail DEF Receive, TInv, LinkInv
  <2>2. CASE up
    <3>1. Carry(Head(stream))
      BY <1>2, <2>2 DEF Receive
    <3>2. /\ Book!Next \/ UNCHANGED bookVars
          /\ ctlChains' \in [Ids -> Lists \cup {Empty}]
          /\ ctlPaths' \in [Pairs -> Ids \cup {NoId}]
          /\ missed' \in BOOLEAN
      BY <2>1, <3>1, CarryInv
    <3>3. stream' = Tail(stream) /\ UNCHANGED <<client, up>>
      BY <1>2 DEF Receive
    <3>4. LinkInv' /\ CtlInv'
      BY <2>1, <3>2, <3>3 DEF TInv, LinkInv, CtlInv
    <3> QED BY <1>1, <3>2, <3>4 DEF TInv
  <2>3. CASE ~up
    BY <1>1, <1>2, <2>1, <2>3 DEF Receive, TInv, LinkInv, CtlInv, bookVars
  <2> QED BY <2>2, <2>3
<1>3. ASSUME NEW n \in 1..MaxStream, ReceiveGarbled(n)
      PROVE  TInv' /\ UNCHANGED bookVars
  <2>1. stream' \in Seq(Command)
    BY <1>3, Rest DEF ReceiveGarbled, TInv, LinkInv
  <2> QED BY <1>1, <1>3, <2>1, Unchanged
          DEF ReceiveGarbled, TInv, LinkInv, CtlInv, controller, bookVars
<1>4. CASE SwitchConnects \/ SwitchDisconnects \/ ControllerStops
  <2>1. ctlChains' = [i \in Ids |-> Empty] /\ ctlPaths' = [p \in Pairs |-> NoId]
    BY <1>4 DEF SwitchConnects, SwitchDisconnects, ControllerStops
  <2>2. up' \in BOOLEAN
    BY <1>4 DEF SwitchConnects, SwitchDisconnects, ControllerStops
  <2>3. missed' \in BOOLEAN
    <3>1. ASSUME missed' = (missed \/ \E i \in Ids : ctlChains[i] # Empty)
          PROVE  missed' \in BOOLEAN
      BY <3>1, Zenon
    <3> QED BY <1>4, <3>1 DEF SwitchConnects, SwitchDisconnects, ControllerStops
  <2>4. /\ client' \in {"none", "open", "broken", "closed"}
        /\ stream' \in Seq(Command)
    BY <1>4, NoCommands DEF SwitchConnects, SwitchDisconnects, ControllerStops, TInv, LinkInv
  <2> QED BY <1>1, <2>1, <2>2, <2>3, <2>4, Forgets DEF TInv, LinkInv, CtlInv
<1> QED BY <1>2, <1>3, <1>4 DEF ControllerStep

(* The steps of the orchestrator leave the controller alone.               *)
OrchestratorStep == \/ ShortRequest
                    \/ \E t \in Threads : client # "closed" /\ Request(t)
                    \/ Stop

LEMMA DropChainLeaves ==
    ASSUME NEW t, NEW j, DropChain(t, j) PROVE UNCHANGED controller
BY DEF DropChain

LEMMA BeginChainLeaves ==
    ASSUME NEW t, NEW j, BeginChain(t, j) PROVE UNCHANGED controller
BY DropChainLeaves DEF BeginChain

LEMMA RequestLeaves ==
    ASSUME NEW t, Request(t) PROVE UNCHANGED controller
BY DropChainLeaves, BeginChainLeaves
   DEF Request, RemoveServiceChain, RemoveServiceNode, DropNextPath, FinishChain,
       NextChain, Detach, DeleteNode

LEMMA OrchestratorInv ==
    ASSUME TInv, OrchestratorStep
    PROVE  TInv' /\ UNCHANGED controller
<1>1. UNCHANGED controller
  BY RequestLeaves
     DEF OrchestratorStep, ShortRequest, OpenConnection, StartServiceNode,
         EndpointStops, CreateServiceChain, CreateServicePath, RemoveServicePath, Stop
<1>2. CASE Stop
  <2>1. Append(stream, Bye) \in Seq(Command)
    BY Commands, Appended DEF TInv, LinkInv
  <2>2. LinkInv'
    BY <1>2, <2>1 DEF Stop, TInv, LinkInv
  <2> QED BY <1>2, <2>2, Unchanged DEF Stop, orchestrator, reqVars, TInv
<1> QED BY <1>1, <1>2, ShortRequestInv, RequestInv DEF OrchestratorStep
-----------------------------------------------------------------------------
LEMMA InitInv == Init => TInv
<1> SUFFICES ASSUME Init PROVE TInv
  OBVIOUS
<1>1. ReqInv
  BY ChainsAssumption DEF Init, ReqInv, NoId
<1>2. JobInv
  BY IdleJob DEF Init, JobInv, Idle
<1>3. LinkInv
  BY NoCommands DEF Init, LinkInv
<1>4. CtlInv
  BY DEF Init, CtlInv
<1> QED BY <1>1, <1>2, <1>3, <1>4 DEF TInv

LEMMA NextIs == Next <=> (OrchestratorStep \/ ControllerStep)
BY DEF Next, OrchestratorStep, ControllerStep

LEMMA StepInv == TInv /\ [Next]_vars => TInv'
<1> SUFFICES ASSUME TInv, [Next]_vars PROVE TInv'
  OBVIOUS
<1>1. CASE UNCHANGED vars
  BY <1>1, Unchanged DEF vars, orchestrator, reqVars, linkVars, controller, TInv
<1> QED BY <1>1, NextIs, OrchestratorInv, ControllerInv

LEMMA Inductive == Spec => []TInv
BY InitInv, StepInv, PTL DEF Spec

(* The books, the requests under way, the stream of commands and the       *)
(* controller's books keep their types.                                    *)
THEOREM TypeCorrect == Spec => []TypeOK
<1>1. TInv => TypeOK
  BY DEF TInv, ReqInv, JobInv, LinkInv, CtlInv, TypeOK
<1> QED BY Inductive, <1>1, PTL

(* Whatever commands are lost, garbled or missed, the book of the          *)
(* controller is a ChainBook: every step of the system is one of its steps *)
(* or leaves it alone.                                                     *)
THEOREM KeepsBook == Spec => ControllerKeepsBook
<1>1. Init => Book!Init
  BY DEF Init, Book!Init
<1>2. TInv /\ [Next]_vars => [Book!Next]_<<ctlChains, ctlPaths>>
  <2> SUFFICES ASSUME TInv, [Next]_vars PROVE Book!Next \/ UNCHANGED bookVars
    BY DEF bookVars
  <2>1. CASE UNCHANGED vars
    BY <2>1 DEF vars, controller, bookVars
  <2>2. CASE OrchestratorStep
    BY <2>2, OrchestratorInv DEF controller, bookVars
  <2> QED BY <2>1, <2>2, NextIs, ControllerInv
<1> QED BY <1>1, <1>2, Inductive, PTL DEF Spec, ControllerKeepsBook, Book!Spec
-----------------------------------------------------------------------------
(***************************************************************************)
(* Agreement.  As long as no command is missed a step of the orchestrator  *)
(* has one of six effects on the books and the stream, and a step of the   *)
(* controller one of two; what a step does to requests does not matter.    *)
(***************************************************************************)
books == <<chains, nextId, paths>>
Sends(c) == stream' = Append(stream, c)

Rests == UNCHANGED <<books, stream>>
Greets == (Sends(Hello) \/ Sends(Bye)) /\ UNCHANGED books
AddsChain == \E l \in Lists :
    /\ nextId \in Ids /\ Sends(AddChain(nextId, l))
    /\ chains' = [chains EXCEPT ![nextId] = l] /\ nextId' = nextId + 1
    /\ UNCHANGED paths
RemovesChain == \E i \in Ids :
    /\ chains[i] # Empty /\ Sends(DelChain(i))
    /\ chains' = [chains EXCEPT ![i] = Empty]
    /\ UNCHANGED <<nextId, paths>>
AddsPath == \E p \in Pairs, i \in Ids :
    /\ Sends(AddPath(p, i))
    /\ paths' = [paths EXCEPT ![p] = i]
    /\ UNCHANGED <<chains, nextId>>
RemovesPath == \E p \in Pairs :
    /\ Sends(DelPath(p))
    /\ paths' = [paths EXCEPT ![p] = NoId]
    /\ UNCHANGED <<chains, nextId>>

Effect == \/ Rests \/ Greets \/ AddsChain \/ RemovesChain \/ AddsPath \/ RemovesPath

Carries == /\ stream # <<>> /\ stream' = Tail(stream) /\ Carry(Head(stream))
           /\ UNCHANGED books
Renews == /\ \A i \in Ids : ctlChains[i] = Empty
          /\ ctlChains' = [i \in Ids |-> Empty]
          /\ ctlPaths' = [p \in Pairs |-> NoId]
          /\ UNCHANGED <<books, stream>>

LEMMA NothingMissed ==
    ASSUME NEW c, Send(c), ~missed'
    PROVE  ~missed /\ Sends(c)
BY DEF Send, Sends

LEMMA NotSentMisses == NotSent => missed'
BY DEF NotSent

LEMMA DropChainEffect ==
    ASSUME TInv, NEW t, NEW j \in Job, j.id \in Ids, DropChain(t, j), ~missed'
    PROVE  ~missed /\ (Rests \/ RemovesChain)
<1>1. CASE chains[j.id] = Empty
  BY <1>1 DEF DropChain, Rests, books
<1>2. CASE chains[j.id] # Empty
  <2>1. Send(DelChain(j.id)) /\ chains' = [chains EXCEPT ![j.id] = Empty]
    BY <1>2, NotSentMisses DEF DropChain, SendRaises
  <2>2. UNCHANGED <<nextId, paths>>
    BY DEF DropChain
  <2> QED BY <1>2, <2>1, <2>2, NothingMissed DEF RemovesChain
<1> QED BY <1>1, <1>2

LEMMA BeginChainEffect ==
    ASSUME TInv, NEW t, NEW j \in Job, j.id \in Ids, BeginChain(t, j), ~missed'
    PROVE  ~missed /\ (Rests \/ RemovesChain)
<1>1. CASE j.ps = {}
  BY <1>1, DropChainEffect DEF BeginChain
<1>2. CASE j.ps # {}
  BY <1>2 DEF BeginChain, Rests, books
<1> QED BY <1>1, <1>2

LEMMA DropPathEffect ==
    ASSUME NEW p \in Pairs, NEW sent, DropPath(p, sent), ~missed'
    PROVE  /\ ~missed /\ Sends(DelPath(p))
           /\ paths' = [paths EXCEPT ![p] = NoId]
<1>1. Send(DelPath(p))
  BY NotSentMisses DEF DropPath, SendRaises
<1> QED BY <1>1, NothingMissed DEF DropPath

LEMMA RequestEffect ==
    ASSUME TInv, NEW t \in Threads, Request(t), ~missed'
    PROVE  ~missed /\ Effect
<1>0. job[t] \in Job /\ (job[t].at = "paths" => job[t].id \in Ids)
  BY JobOf
<1>1. ASSUME NEW i \in Ids, NEW force \in BOOLEAN, RemoveServiceChain(t, i, force)
      PROVE  ~missed /\ (Rests \/ RemovesChain)
  BY <1>1, IdleJob, RemovingJob, BeginChainEffect DEF RemoveServiceChain
<1>2. ASSUME NEW p \in Pairs, DropNextPath(t, p)
      PROVE  ~missed /\ (Rests \/ RemovesPath)
  <2>1. CASE paths[p] = NoId
    BY <1>2, <2>1 DEF DropNextPath, Rests, books
  <2>2. CASE paths[p] # NoId
    <3>1. PICK sent \in BOOLEAN : DropPath(p, sent)
      BY <1>2, <2>2 DEF DropNextPath
    <3>2. UNCHANGED <<chains, nextId>>
      BY <1>2 DEF DropNextPath
    <3> QED BY <3>1, <3>2, DropPathEffect DEF RemovesPath
  <2> QED BY <2>1, <2>2
<1>3. CASE FinishChain(t)
  BY <1>0, <1>3, DropChainEffect DEF FinishChain, Effect
<1>4. ASSUME NEW i \in Ids, NextChain(t, i)
      PROVE  ~missed /\ (Rests \/ RemovesChain)
  <2>1. CASE chains[i] # Empty
    BY <1>0, <1>4, <2>1, RemovingJob, BeginChainEffect DEF NextChain
  <2>2. CASE chains[i] = Empty
    BY <1>4, <2>2 DEF NextChain, Rests, books
  <2> QED BY <2>1, <2>2
<1>5. ASSUME NEW f \in Functions, NEW force \in BOOLEAN, RemoveServiceNode(t, f, force)
      PROVE  ~missed /\ Rests
  BY <1>5 DEF RemoveServiceNode, Rests, books
<1>6. CASE Detach(t)
  BY <1>6 DEF Detach, Effect, Rests, books
<1>7. CASE DeleteNode(t)
  BY <1>7 DEF DeleteNode, Effect, Rests, books
<1> QED BY <1>1, <1>2, <1>3, <1>4, <1>5, <1>6, <1>7 DEF Request, Effect

LEMMA OrchestratorEffect ==
    ASSUME TInv, OrchestratorStep, ~missed'
    PROVE  ~missed /\ Effect
<1>1. CASE OpenConnection \/ Stop
  BY <1>1 DEF OpenConnection, Stop, orchestrator, Effect, Greets, Sends, books
<1>2. ASSUME (\E f \in Functions : StartServiceNode(f)) \/ (\E p \in Pairs : EndpointStops(p))
      PROVE  ~missed /\ Effect
  BY <1>2 DEF StartServiceNode, EndpointStops, Effect, Rests, books
<1>3. ASSUME NEW l \in Lists, CreateServiceChain(l)
      PROVE  ~missed /\ AddsChain
  <2>1. Send(AddChain(nextId, l))
    BY <1>3, NotSentMisses DEF CreateServiceChain, SendRaises
  <2>2. /\ nextId \in Ids /\ chains' = [chains EXCEPT ![nextId] = l]
        /\ nextId' = nextId + 1 /\ UNCHANGED paths
    BY <1>3 DEF CreateServiceChain
  <2> QED BY <2>1, <2>2, NothingMissed DEF AddsChain
<1>4. ASSUME NEW p \in Pairs, NEW i \in Ids, CreateServicePath(p, i)
      PROVE  ~missed /\ AddsPath
  <2>1. Send(AddPath(p, i))
    BY <1>4, NotSentMisses DEF CreateServicePath, SendRaises
  <2>2. paths' = [paths EXCEPT ![p] = i] /\ UNCHANGED <<chains, nextId>>
    BY <1>4 DEF CreateServicePath
  <2> QED BY <2>1, <2>2, NothingMissed DEF AddsPath
<1>5. ASSUME NEW p \in Pairs, RemoveServicePath(p)
      PROVE  ~missed /\ RemovesPath
  <2>1. PICK sent \in BOOLEAN : DropPath(p, sent)
    BY <1>5 DEF RemoveServicePath
  <2>2. UNCHANGED <<chains, nextId>>
    BY <1>5 DEF RemoveServicePath
  <2> QED BY <2>1, <2>2, DropPathEffect DEF RemovesPath
<1>6. ASSUME NEW t \in Threads, Request(t)
      PROVE  ~missed /\ Effect
  BY <1>6, RequestEffect
<1> QED BY <1>1, <1>2, <1>3, <1>4, <1>5, <1>6 DEF OrchestratorStep, ShortRequest, Effect

LEMMA ControllerEffect ==
    ASSUME TInv, ControllerStep, ~missed'
    PROVE  ~missed /\ (Carries \/ Renews)
<1>1. CASE Receive
  <2>1. up
    BY <1>1 DEF Receive
  <2>2. Carries
    BY <1>1, <2>1 DEF Receive, Carries, orchestrator, books
  <2>3. ~missed
    BY <1>1, <2>1 DEF Receive, Carry
  <2> QED BY <2>2, <2>3
<1>2. CASE SwitchConnects \/ SwitchDisconnects
  <2>1. missed' = (missed \/ \E i \in Ids : ctlChains[i] # Empty)
    BY <1>2, Zenon DEF SwitchConnects, SwitchDisconnects
  <2>2. ~missed /\ \A i \in Ids : ctlChains[i] = Empty
    BY <2>1, Zenon
  <2> QED BY <1>2, <2>2 DEF SwitchConnects, SwitchDisconnects, Renews, orchestrator, books
<1> QED BY <1>1, <1>2 DEF ControllerStep, ReceiveGarbled, ControllerStops
-----------------------------------------------------------------------------
(***************************************************************************)
(* What is due: in a stream s with commands A about one thing, the last of *)
(* them is d, or there is none and the two books x and y say the same.     *)
(***************************************************************************)
Due(s, A, d, x, y) ==
    /\ (\A n \in DOMAIN s : s[n] \notin A) => x = y
    /\ \A n \in DOMAIN s : s[n] \in A /\ (\A k \in DOMAIN s : s[k] \in A => k <= n)
          => s[n] = d

LEMMA DueAppendOther ==
    ASSUME NEW s \in Seq(Command), NEW A, NEW d, NEW x, NEW y, NEW c \in Command,
           Due(s, A, d, x, y), c \notin A
    PROVE  Due(Append(s, c), A, d, x, y)
<1> DEFINE q == Append(s, c)
<1>1. Len(q) = Len(s) + 1 /\ DOMAIN q = 1..(Len(s) + 1) /\ DOMAIN s = 1..Len(s)
      /\ Len(s) \in Nat
  OBVIOUS
<1>2. q[Len(s) + 1] = c /\ \A n \in DOMAIN s : q[n] = s[n]
  OBVIOUS
<1> HIDE DEF q
<1>3. (\A n \in DOMAIN q : q[n] \notin A) => x = y
  BY <1>1, <1>2 DEF Due
<1>4. ASSUME NEW n \in DOMAIN q, q[n] \in A, \A k \in DOMAIN q : q[k] \in A => k <= n
      PROVE  q[n] = d
  <2>1. n \in DOMAIN s
    BY <1>1, <1>2, <1>4
  <2> QED BY <1>1, <1>2, <1>4, <2>1 DEF Due
<1> QED BY <1>3, <1>4 DEF Due, q

LEMMA DueAppend ==
    ASSUME NEW s \in Seq(Command), NEW A, NEW d \in Command, NEW x, NEW y, d \in A
    PROVE  Due(Append(s, d), A, d, x, y)
<1> DEFINE q == Append(s, d)
<1>1. DOMAIN q = 1..(Len(s) + 1) /\ Len(s) \in Nat /\ q[Len(s) + 1] = d
  OBVIOUS
<1> HIDE DEF q
<1>2. Len(s) + 1 \in DOMAIN q
  BY <1>1
<1>3. ASSUME NEW n \in DOMAIN q, q[n] \in A, \A k \in DOMAIN q : q[k] \in A => k <= n
      PROVE  q[n] = d
  <2>1. n = Len(s) + 1
    BY <1>1, <1>2, <1>3
  <2> QED BY <1>1, <2>1
<1> QED BY <1>1, <1>2, <1>3 DEF Due, q

(* What is received changes the one book x to z, which must be right if    *)
(* the command was the last.                                               *)
LEMMA DueTail ==
    ASSUME NEW s \in Seq(Command), s # <<>>, NEW A, NEW d, NEW x, NEW y, NEW z,
           Due(s, A, d, x, y),
           Head(s) \in A /\ Head(s) = d => z = y,
           Head(s) \notin A /\ x = y => z = y
    PROVE  Due(Tail(s), A, d, z, y)
<1> DEFINE q == Tail(s)
<1>1. DOMAIN q = 1..(Len(s) - 1) /\ DOMAIN s = 1..Len(s) /\ Len(s) \in Nat /\ Len(s) > 0
  OBVIOUS
<1>2. s[1] = Head(s) /\ \A n \in DOMAIN q : q[n] = s[n + 1]
  OBVIOUS
<1> HIDE DEF q
<1>3. \A n \in DOMAIN s : n # 1 => n - 1 \in DOMAIN q /\ q[n - 1] = s[n]
  BY <1>1, <1>2
<1>4. ASSUME \A n \in DOMAIN q : q[n] \notin A PROVE z = y
  <2>1. \A n \in DOMAIN s : n # 1 => s[n] \notin A
    BY <1>3, <1>4
  <2>2. CASE s[1] \in A
    <3>1. \A k \in DOMAIN s : s[k] \in A => k <= 1
      BY <1>1, <2>1
    <3>2. s[1] = d
      BY <1>1, <2>2, <3>1 DEF Due
    <3> QED BY <1>2, <2>2, <3>2
  <2>3. CASE s[1] \notin A
    BY <1>2, <2>1, <2>3 DEF Due
  <2> QED BY <2>2, <2>3
<1>5. ASSUME NEW n \in DOMAIN q, q[n] \in A, \A k \in DOMAIN q : q[k] \in A => k <= n
      PROVE  q[n] = d
  <2>1. n + 1 \in DOMAIN s /\ s[n + 1] = q[n]
    BY <1>1, <1>2
  <2>2. \A k \in DOMAIN s : s[k] \in A => k <= n + 1
    BY <1>1, <1>3, <1>5
  <2> QED BY <1>5, <2>1, <2>2 DEF Due
<1> QED BY <1>4, <1>5 DEF Due, q
-----------------------------------------------------------------------------
(***************************************************************************)
(* The invariant of agreement, as long as nothing is missed.               *)
(***************************************************************************)
OfChain(i) == {c \in Command : c.type \in {"addchain", "delchain"} /\ c.id = i}
OfPair(p) == {c \in Command : c.type \in {"addpath", "delpath"} /\ c.pair = p}
ChainDue(i, l) == IF l = Empty THEN DelChain(i) ELSE AddChain(i, l)
PathDue(p, i) == IF i = NoId THEN DelPath(p) ELSE AddPath(p, i)

(* Identifiers are not used twice: nothing is known of those to come, and  *)
(* a chain whose removal is under way is gone.                             *)
Fresh == /\ \A i \in Ids : i >= nextId => chains[i] = Empty /\ ctlChains[i] = Empty
         /\ \A n \in DOMAIN stream :
               /\ stream[n].type \in {"addchain", "delchain"} => stream[n].id < nextId
               /\ stream[n].type = "delchain" => chains[stream[n].id] = Empty
Consistent == \A p \in Pairs : ctlPaths[p] # NoId => ctlChains[ctlPaths[p]] # Empty

ChainsDue == \A i \in Ids :
    Due(stream, OfChain(i), ChainDue(i, chains[i]), ctlChains[i], chains[i])

(* A path over a chain that was removed is lost to sight; one over a chain *)
(* to come is not.                                                         *)
Lost(p) == paths[p] # NoId /\ paths[p] < nextId /\ chains[paths[p]] = Empty
PathsDue == \A p \in Pairs : ~Lost(p) =>
    Due(stream, OfPair(p), PathDue(p, paths[p]), ctlPaths[p], paths[p])

Agreement == Fresh /\ Consistent /\ ChainsDue /\ PathsDue
AInv == ~missed => Agreement

LEMMA About ==
    /\ \A i, j \in Ids : i # j => DelChain(i) \notin OfChain(j)
    /\ \A i \in Ids : DelChain(i) \in OfChain(i)
    /\ \A i, j \in Ids, l \in Lists : i # j => AddChain(i, l) \notin OfChain(j)
    /\ \A i \in Ids, l \in Lists : AddChain(i, l) \in OfChain(i)
    /\ \A i \in Ids, p \in Pairs : /\ DelPath(p) \notin OfChain(i)
                                 /\ DelChain(i) \notin OfPair(p)
    /\ \A i, j \in Ids, p \in Pairs : AddPath(p, j) \notin OfChain(i)
    /\ \A i \in Ids, l \in Lists, p \in Pairs : AddChain(i, l) \notin OfPair(p)
    /\ \A p, q \in Pairs : p # q => DelPath(p) \notin OfPair(q)
    /\ \A p \in Pairs : DelPath(p) \in OfPair(p)
    /\ \A p, q \in Pairs, i \in Ids : p # q => AddPath(p, i) \notin OfPair(q)
    /\ \A p \in Pairs, i \in Ids : AddPath(p, i) \in OfPair(p)
    /\ \A i \in Ids : Hello \notin OfChain(i) /\ Bye \notin OfChain(i)
    /\ \A p \in Pairs : Hello \notin OfPair(p) /\ Bye \notin OfPair(p)
BY Commands DEF OfChain, OfPair, Hello, Bye, AddChain, DelChain, AddPath, DelPath

LEMMA IdFacts ==
    /\ Ids \subseteq Nat /\ NoId \notin Ids
    /\ TInv => nextId \in Nat
BY ChainsAssumption DEF Ids, NoId, TInv, ReqInv

LEMMA AInit == Init => AInv
<1> SUFFICES ASSUME Init PROVE Agreement
  BY DEF AInv
<1>1. Fresh
  BY DEF Init, Fresh
<1>2. Consistent
  BY DEF Init, Consistent
<1>3. \A A, d, x : Due(stream, A, d, x, x)
  BY DEF Init, Due
<1>4. ChainsDue
  BY <1>3 DEF Init, ChainsDue
<1>5. PathsDue
  BY <1>3 DEF Init, PathsDue
<1> QED BY <1>1, <1>2, <1>4, <1>5 DEF Agreement
-----------------------------------------------------------------------------
LEMMA Later == ASSUME NEW a \in Nat, NEW b \in Nat, NEW c \in Nat, a < b, c >= b
               PROVE  a < c
OBVIOUS

LEMMA Next1 == ASSUME NEW a \in Nat, NEW b \in Nat
               PROVE  (a >= b + 1 => a >= b /\ a # b) /\ (a < b => a < b + 1)
OBVIOUS

(* What is appended to the stream keeps identifiers fresh, if it does.     *)
LEMMA FreshAppend ==
    ASSUME TInv, Fresh, NEW c \in Command, Sends(c),
           nextId' \in Nat, nextId' >= nextId,
           \A i \in Ids : i < nextId /\ chains[i] = Empty => chains'[i] = Empty,
           \A i \in Ids : i >= nextId' => chains'[i] = Empty,
           c.type \in {"addchain", "delchain"} => c.id < nextId',
           c.type = "delchain" => chains'[c.id] = Empty,
           UNCHANGED ctlChains
    PROVE  Fresh'
<1>1. stream \in Seq(Command)
  BY DEF TInv, LinkInv
<1>0. nextId \in Nat /\ Ids \subseteq Nat
  BY IdFacts
<1>2. ASSUME NEW i \in Ids, i >= nextId'
      PROVE  chains'[i] = Empty /\ ctlChains'[i] = Empty
  <2>1. i >= nextId
    BY ONLY <1>0, <1>2, nextId' \in Nat, nextId' >= nextId, SMT
  <2> QED BY <1>2, <2>1 DEF Fresh
<1>3. ASSUME NEW n \in DOMAIN stream', stream'[n].type \in {"addchain", "delchain"}
      PROVE  /\ stream'[n].id < nextId'
             /\ stream'[n].type = "delchain" => chains'[stream'[n].id] = Empty
  <2>1. CASE n \in DOMAIN stream
    <3>1. stream'[n] = stream[n] /\ stream[n] \in Command
      BY <1>1, <2>1 DEF Sends
    <3>2. stream[n].id \in Ids
      BY <1>3, <3>1, Fields
    <3>3. stream[n].id < nextId /\ (stream[n].type = "delchain" => chains[stream[n].id] = Empty)
      BY <1>3, <2>1, <3>1 DEF Fresh
    <3>4. stream[n].type = "delchain" => chains'[stream[n].id] = Empty
      BY <3>2, <3>3
    <3>5. stream[n].id < nextId'
      BY <1>0, <3>2, <3>3, Later
    <3> QED BY <3>1, <3>4, <3>5
  <2>2. CASE n \notin DOMAIN stream
    <3>1. stream'[n] = c
      BY <1>1, <2>2 DEF Sends
    <3> QED BY <1>3, <3>1
  <2> QED BY <2>1, <2>2
<1> QED BY <1>2, <1>3 DEF Fresh

(* A command sent leaves what it is not about.                             *)
LEMMA ChainStays ==
    ASSUME TInv, ChainsDue, NEW c \in Command, Sends(c), NEW i \in Ids,
           c \notin OfChain(i), chains'[i] = chains[i], UNCHANGED ctlChains
    PROVE  Due(stream', OfChain(i), ChainDue(i, chains'[i]), ctlChains'[i], chains'[i])
<1>1. stream \in Seq(Command)
  BY DEF TInv, LinkInv
<1> QED BY <1>1, DueAppendOther DEF ChainsDue, Sends

LEMMA PathStays ==
    ASSUME TInv, PathsDue, NEW c \in Command, Sends(c), NEW p \in Pairs, ~Lost(p),
           c \notin OfPair(p), paths'[p] = paths[p], UNCHANGED ctlPaths
    PROVE  Due(stream', OfPair(p), PathDue(p, paths'[p]), ctlPaths'[p], paths'[p])
<1>1. stream \in Seq(Command)
  BY DEF TInv, LinkInv
<1> QED BY <1>1, DueAppendOther DEF PathsDue, Sends
-----------------------------------------------------------------------------
(* One lemma for each effect.                                              *)

LEMMA RestsAgree ==
    ASSUME Agreement, Rests, UNCHANGED bookVars
    PROVE  Agreement'
BY DEF Rests, books, bookVars, Agreement, Fresh, Consistent, ChainsDue, PathsDue, Lost

LEMMA GreetsAgree ==
    ASSUME TInv, Agreement, Greets, UNCHANGED bookVars
    PROVE  Agreement'
<1>1. PICK c \in {Hello, Bye} : Sends(c)
  BY DEF Greets
<1>2. /\ c \in Command /\ c.type \notin {"addchain", "delchain"}
      /\ \A i \in Ids : c \notin OfChain(i)
      /\ \A p \in Pairs : c \notin OfPair(p)
  BY Commands, About DEF Hello, Bye
<1>3. UNCHANGED <<chains, nextId, paths, ctlChains, ctlPaths>>
  BY DEF Greets, books, bookVars
<1>4. Fresh'
  <2>1. nextId' \in Nat /\ nextId' >= nextId
    BY <1>3, IdFacts
  <2>2. Fresh /\ \A i \in Ids : i >= nextId' => chains'[i] = Empty
    BY <1>3 DEF Agreement, Fresh
  <2> QED BY <1>1, <1>2, <1>3, <2>1, <2>2, FreshAppend
<1>5. ChainsDue'
  BY <1>1, <1>2, <1>3, ChainStays DEF Agreement, ChainsDue
<1>6. PathsDue'
  BY <1>1, <1>2, <1>3, PathStays DEF Agreement, PathsDue, Lost
<1> QED BY <1>3, <1>4, <1>5, <1>6 DEF Agreement, Consistent

LEMMA AddsChainAgrees ==
    ASSUME TInv, Agreement, AddsChain, UNCHANGED bookVars
    PROVE  Agreement'
<1>1. PICK l \in Lists :
        /\ nextId \in Ids /\ Sends(AddChain(nextId, l))
        /\ chains' = [chains EXCEPT ![nextId] = l] /\ nextId' = nextId + 1
        /\ UNCHANGED paths
  BY DEF AddsChain
<1> DEFINE c == AddChain(nextId, l)
<1>2. c \in Command /\ c.type = "addchain" /\ c.id = nextId
  BY <1>1, Commands DEF AddChain
<1>3. nextId \in Nat /\ Ids \subseteq Nat /\ l # Empty /\ stream \in Seq(Command)
  BY <1>1, IdFacts, EmptyIsNoList DEF TInv, LinkInv
<1>4. /\ chains'[nextId] = l
      /\ \A i \in Ids : i # nextId => chains'[i] = chains[i]
      /\ UNCHANGED <<paths, ctlChains, ctlPaths>>
  BY <1>1 DEF TInv, ReqInv, bookVars
<1>5. Fresh'
  <2>1. \A i \in Ids : i < nextId /\ chains[i] = Empty => chains'[i] = Empty
    BY <1>3, <1>4
  <2>2. ASSUME NEW i \in Ids, i >= nextId' PROVE chains'[i] = Empty
    <3>1. i >= nextId /\ i # nextId
      BY <1>1, <1>3, <2>2, Next1
    <3> QED BY <1>4, <3>1 DEF Agreement, Fresh
  <2>3. nextId' \in Nat /\ nextId' >= nextId /\ nextId < nextId'
    BY <1>1, <1>3
  <2> QED BY <1>1, <1>2, <1>4, <2>1, <2>2, <2>3, FreshAppend DEF Agreement
<1>6. ASSUME NEW i \in Ids
      PROVE  Due(stream', OfChain(i), ChainDue(i, chains'[i]), ctlChains'[i], chains'[i])
  <2>1. CASE i = nextId
    <3>1. ChainDue(i, chains'[i]) = c /\ c \in OfChain(i)
      BY <1>1, <1>3, <1>4, <2>1, About DEF ChainDue
    <3>2. stream' = Append(stream, c)
      BY <1>1 DEF Sends
    <3> HIDE DEF c
    <3> QED BY <1>2, <1>3, <3>1, <3>2, DueAppend
  <2>2. CASE i # nextId
    BY <1>1, <1>2, <1>4, <2>2, About, ChainStays DEF Agreement
  <2> QED BY <2>1, <2>2
<1>7. ASSUME NEW p \in Pairs, ~Lost(p)'
      PROVE  Due(stream', OfPair(p), PathDue(p, paths'[p]), ctlPaths'[p], paths'[p])
  <2>1. ASSUME Lost(p) PROVE FALSE
    <3>1. paths[p] \in Ids /\ paths[p] < nextId /\ chains[paths[p]] = Empty
      BY <2>1 DEF TInv, ReqInv, Lost
    <3>2. paths[p] # nextId
      BY <1>3, <3>1, SMT
    <3>3. paths[p] < nextId'
      BY <1>1, <1>3, <3>1, Next1
    <3> QED BY <1>4, <1>7, <2>1, <3>1, <3>2, <3>3 DEF Lost
  <2>2. c \notin OfPair(p)
    BY <1>1, About
  <2> QED BY <1>1, <1>2, <1>4, <2>1, <2>2, PathStays DEF Agreement
<1> QED BY <1>4, <1>5, <1>6, <1>7 DEF Agreement, ChainsDue, PathsDue, Consistent

LEMMA RemovesChainAgrees ==
    ASSUME TInv, Agreement, RemovesChain, UNCHANGED bookVars
    PROVE  Agreement'
<1>1. PICK d \in Ids :
        /\ chains[d] # Empty /\ Sends(DelChain(d))
        /\ chains' = [chains EXCEPT ![d] = Empty]
        /\ UNCHANGED <<nextId, paths>>
  BY DEF RemovesChain
<1> DEFINE c == DelChain(d)
<1>2. c \in Command /\ c.type = "delchain" /\ c.id = d
  BY <1>1, Commands DEF DelChain
<1>3. nextId \in Nat /\ Ids \subseteq Nat /\ stream \in Seq(Command)
  BY IdFacts DEF TInv, LinkInv
<1>4. /\ chains'[d] = Empty
      /\ \A i \in Ids : i # d => chains'[i] = chains[i]
      /\ UNCHANGED <<nextId, paths, ctlChains, ctlPaths>>
  BY <1>1 DEF TInv, ReqInv, bookVars
<1>5. d < nextId
  BY <1>1, <1>3 DEF Agreement, Fresh
<1>6. Fresh'
  <2>1. \A i \in Ids : chains[i] = Empty => chains'[i] = Empty
    BY <1>4
  <2>2. \A i \in Ids : i >= nextId' => chains'[i] = Empty
    BY <1>4, <2>1 DEF Agreement, Fresh
  <2> QED BY <1>1, <1>2, <1>3, <1>4, <1>5, <2>1, <2>2, FreshAppend DEF Agreement
<1>7. ASSUME NEW i \in Ids
      PROVE  Due(stream', OfChain(i), ChainDue(i, chains'[i]), ctlChains'[i], chains'[i])
  <2>1. CASE i = d
    <3>1. ChainDue(i, chains'[i]) = c /\ c \in OfChain(i)
      BY <1>4, <2>1, About DEF ChainDue
    <3>2. stream' = Append(stream, c)
      BY <1>1 DEF Sends
    <3> HIDE DEF c
    <3> QED BY <1>2, <1>3, <3>1, <3>2, DueAppend
  <2>2. CASE i # d
    BY <1>1, <1>2, <1>4, <2>2, About, ChainStays DEF Agreement
  <2> QED BY <2>1, <2>2
<1>8. ASSUME NEW p \in Pairs, ~Lost(p)'
      PROVE  Due(stream', OfPair(p), PathDue(p, paths'[p]), ctlPaths'[p], paths'[p])
  <2>1. ~Lost(p)
    <3>1. paths[p] \in Ids \/ paths[p] = NoId
      BY DEF TInv, ReqInv
    <3> QED BY <1>4, <1>5, <1>8, <3>1 DEF Lost
  <2>2. c \notin OfPair(p)
    BY About
  <2> QED BY <1>1, <1>2, <1>4, <2>1, <2>2, PathStays DEF Agreement
<1> QED BY <1>4, <1>6, <1>7, <1>8 DEF Agreement, ChainsDue, PathsDue, Consistent

(* A path is added or removed: its command is due, whether it was lost or  *)
(* not.                                                                    *)
LEMMA PathAgrees ==
    ASSUME TInv, Agreement, UNCHANGED bookVars, UNCHANGED <<chains, nextId>>,
           NEW q \in Pairs, NEW i \in Ids \cup {NoId},
           Sends(PathDue(q, i)), paths' = [paths EXCEPT ![q] = i]
    PROVE  Agreement'
<1> DEFINE c == PathDue(q, i)
<1>1. /\ c \in Command /\ c.type \notin {"addchain", "delchain"} /\ c \in OfPair(q)
      /\ \A k \in Ids : c \notin OfChain(k)
      /\ \A p \in Pairs : p # q => c \notin OfPair(p)
  <2>1. CASE i = NoId
    BY <2>1, Commands, About DEF PathDue, DelPath
  <2>2. CASE i # NoId
    BY <2>2, Commands, About DEF PathDue, AddPath
  <2> QED BY <2>1, <2>2
<1>2. stream \in Seq(Command) /\ nextId \in Nat /\ Ids \subseteq Nat
  BY IdFacts DEF TInv, LinkInv
<1>3. /\ paths'[q] = i /\ \A p \in Pairs : p # q => paths'[p] = paths[p]
      /\ UNCHANGED <<chains, nextId, ctlChains, ctlPaths>>
  BY DEF TInv, ReqInv, bookVars
<1>4. Sends(c)
  OBVIOUS
<1> HIDE DEF c
<1>5. Fresh'
  BY <1>1, <1>2, <1>3, <1>4, FreshAppend DEF Agreement, Fresh
<1>6. ChainsDue'
  BY <1>1, <1>3, <1>4, ChainStays DEF Agreement, ChainsDue
<1>7. ASSUME NEW p \in Pairs, ~Lost(p)'
      PROVE  Due(stream', OfPair(p), PathDue(p, paths'[p]), ctlPaths'[p], paths'[p])
  <2>1. CASE p = q
    <3>1. PathDue(p, paths'[p]) = c
      BY <1>3, <2>1 DEF c
    <3>2. stream' = Append(stream, c)
      BY <1>4 DEF Sends
    <3> QED BY <1>1, <1>2, <2>1, <3>1, <3>2, DueAppend
  <2>2. CASE p # q
    <3>1. ~Lost(p)
      BY <1>3, <1>7, <2>2 DEF Lost
    <3> QED BY <1>1, <1>3, <1>4, <2>2, <3>1, PathStays DEF Agreement
  <2> QED BY <2>1, <2>2
<1> QED BY <1>3, <1>5, <1>6, <1>7 DEF Agreement, PathsDue, Consistent

LEMMA EffectAgrees ==
    ASSUME TInv, Agreement, Effect, UNCHANGED bookVars
    PROVE  Agreement'
<1>1. CASE AddsPath
  <2>1. PICK p \in Pairs, i \in Ids :
          Sends(AddPath(p, i)) /\ paths' = [paths EXCEPT ![p] = i] /\ UNCHANGED <<chains, nextId>>
    BY <1>1 DEF AddsPath
  <2>2. PathDue(p, i) = AddPath(p, i)
    BY IdFacts DEF PathDue
  <2> QED BY <2>1, <2>2, PathAgrees
<1>2. CASE RemovesPath
  <2>1. PICK p \in Pairs :
          Sends(DelPath(p)) /\ paths' = [paths EXCEPT ![p] = NoId] /\ UNCHANGED <<chains, nextId>>
    BY <1>2 DEF RemovesPath
  <2>2. PathDue(p, NoId) = DelPath(p)
    BY DEF PathDue
  <2> QED BY <2>1, <2>2, PathAgrees
<1> QED BY <1>1, <1>2, RestsAgree, GreetsAgree, AddsChainAgrees, RemovesChainAgrees DEF Effect

LEMMA RenewsAgrees ==
    ASSUME TInv, Agreement, Renews
    PROVE  Agreement'
<1>1. \A i \in Ids : ctlChains'[i] = ctlChains[i]
  BY DEF Renews
<1>2. \A p \in Pairs : ctlPaths[p] = NoId
  BY DEF Agreement, Consistent, TInv, CtlInv, Renews
<1>3. \A p \in Pairs : ctlPaths'[p] = ctlPaths[p]
  BY <1>2 DEF Renews
<1>4. UNCHANGED <<chains, nextId, paths, stream>>
  BY DEF Renews, books
<1>5. Consistent'
  BY <1>2, <1>3 DEF Consistent
<1> QED BY <1>1, <1>3, <1>4, <1>5 DEF Agreement, Fresh, ChainsDue, PathsDue, Lost

(* A command is carried out: what it is about agrees, the removal of a     *)
(* chain takes only lost paths, and nothing new comes into the stream.     *)
LEMMA CarriesAgrees ==
    ASSUME TInv, Agreement, Carries, ~missed'
    PROVE  Agreement'
<1> DEFINE h == Head(stream)
<1>1. /\ stream \in Seq(Command) /\ stream # <<>> /\ stream' = Tail(stream)
      /\ UNCHANGED <<chains, nextId, paths>>
  BY DEF Carries, books, TInv, LinkInv
<1>2. h \in Command /\ h = stream[1] /\ 1 \in DOMAIN stream
  BY <1>1
<1>3. Carry(h)
  BY DEF Carries
<1> HIDE DEF h
<1>4. /\ \A i \in Ids : chains[i] \in Lists \cup {Empty}
      /\ \A p \in Pairs : paths[p] \in Ids \cup {NoId}
      /\ ctlChains \in [Ids -> Lists \cup {Empty}] /\ ctlPaths \in [Pairs -> Ids \cup {NoId}]
  BY DEF TInv, ReqInv, CtlInv
<1>5. /\ h.type = "addchain" => /\ h.id \in Ids /\ h.list \in Lists /\ h.id < nextId
                                /\ ctlChains' = [ctlChains EXCEPT ![h.id] = h.list]
                                /\ UNCHANGED ctlPaths
      /\ h.type = "delchain" =>
            /\ h.id \in Ids /\ chains[h.id] = Empty /\ h.id < nextId
            /\ ctlChains' = [ctlChains EXCEPT ![h.id] = Empty]
            /\ ctlPaths' = [p \in Pairs |-> IF ctlPaths[p] = h.id THEN NoId ELSE ctlPaths[p]]
      /\ h.type = "addpath" => /\ h.id \in Ids /\ h.pair \in Pairs /\ ctlChains[h.id] # Empty
                               /\ ctlPaths' = [ctlPaths EXCEPT ![h.pair] = h.id]
                               /\ UNCHANGED ctlChains
      /\ h.type = "delpath" => /\ h.pair \in Pairs /\ ctlPaths' = [ctlPaths EXCEPT ![h.pair] = NoId]
                               /\ UNCHANGED ctlChains
      /\ h.type \in {"hello", "bye"} => UNCHANGED <<ctlChains, ctlPaths>>
  <2>1. /\ h.type \in {"addchain", "delchain"} => h.id < nextId
        /\ h.type = "delchain" => chains[h.id] = Empty
    BY <1>2 DEF Agreement, Fresh
  <2> QED BY <1>2, <1>3, <2>1, Fields DEF Carry
<1>6. h.type \in {"hello", "bye", "addchain", "delchain", "addpath", "delpath"}
  BY <1>2, Fields
<1>7. nextId \in Nat /\ Ids \subseteq Nat /\ NoId \notin Ids
  BY IdFacts
<1>8. Fresh'
  <2>1. ASSUME NEW i \in Ids, i >= nextId'
        PROVE  chains'[i] = Empty /\ ctlChains'[i] = Empty
    <3>1. i >= nextId
      BY <1>1, <2>1
    <3>2. chains[i] = Empty /\ ctlChains[i] = Empty
      BY <3>1 DEF Agreement, Fresh
    <3>3. h.type \in {"addchain", "delchain"} => h.id # i
      BY <1>5, <1>7, <3>1
    <3> QED BY <1>1, <1>4, <1>5, <1>6, <3>2, <3>3
  <2>2. ASSUME NEW n \in DOMAIN stream'
        PROVE  n + 1 \in DOMAIN stream /\ stream'[n] = stream[n + 1]
    BY <1>1, <2>2
  <2> QED BY <1>1, <2>1, <2>2 DEF Agreement, Fresh
<1>9. Consistent'
  <2>1. ASSUME NEW p \in Pairs, ctlPaths'[p] # NoId PROVE ctlChains'[ctlPaths'[p]] # Empty
    <3>1. ctlPaths[p] \in Ids \cup {NoId} /\ (ctlPaths[p] # NoId => ctlChains[ctlPaths[p]] # Empty)
      BY <1>4 DEF Agreement, Consistent
    <3>2. CASE h.type = "addchain"
      BY <1>4, <1>5, <2>1, <3>1, <3>2, EmptyIsNoList
    <3>3. CASE h.type = "delchain"
      BY <1>4, <1>5, <2>1, <3>1, <3>3
    <3>4. CASE h.type = "addpath"
      BY <1>4, <1>5, <2>1, <3>1, <3>4
    <3>5. CASE h.type \in {"delpath", "hello", "bye"}
      BY <1>4, <1>5, <2>1, <3>1, <3>5
    <3> QED BY <1>6, <3>2, <3>3, <3>4, <3>5
  <2> QED BY <2>1 DEF Consistent
<1>10. ASSUME NEW i \in Ids
       PROVE  Due(stream', OfChain(i), ChainDue(i, chains'[i]), ctlChains'[i], chains'[i])
  <2>1. Due(stream, OfChain(i), ChainDue(i, chains[i]), ctlChains[i], chains[i])
    BY DEF Agreement, ChainsDue
  <2>2. ASSUME h \in OfChain(i), h = ChainDue(i, chains[i])
        PROVE  ctlChains'[i] = chains[i]
    <3>1. CASE chains[i] = Empty
      BY <1>4, <1>5, <2>2, <3>1 DEF ChainDue, DelChain
    <3>2. CASE chains[i] # Empty
      BY <1>4, <1>5, <2>2, <3>2 DEF ChainDue, AddChain
    <3> QED BY <3>1, <3>2
  <2>3. ASSUME h \notin OfChain(i) PROVE ctlChains'[i] = ctlChains[i]
    BY <1>2, <1>4, <1>5, <1>6, <2>3 DEF OfChain
  <2> QED BY <1>1, <2>1, <2>2, <2>3, DueTail DEF h
<1>11. ASSUME NEW p \in Pairs, ~Lost(p)'
       PROVE  Due(stream', OfPair(p), PathDue(p, paths'[p]), ctlPaths'[p], paths'[p])
  <2>0. ~Lost(p)
    BY <1>1, <1>11 DEF Lost
  <2>1. Due(stream, OfPair(p), PathDue(p, paths[p]), ctlPaths[p], paths[p])
    BY <2>0 DEF Agreement, PathsDue
  <2>2. ASSUME h \in OfPair(p), h = PathDue(p, paths[p])
        PROVE  ctlPaths'[p] = paths[p]
    <3>1. CASE paths[p] = NoId
      BY <1>4, <1>5, <2>2, <3>1 DEF PathDue, DelPath
    <3>2. CASE paths[p] # NoId
      BY <1>4, <1>5, <2>2, <3>2 DEF PathDue, AddPath
    <3> QED BY <3>1, <3>2
  <2>3. ASSUME h \notin OfPair(p), ctlPaths[p] = paths[p] PROVE ctlPaths'[p] = paths[p]
    <3>1. CASE h.type = "delchain"
      <4>1. paths[p] # h.id
        BY <1>5, <1>7, <2>0, <3>1 DEF Lost
      <4> QED BY <1>5, <2>3, <3>1, <4>1
    <3>2. CASE h.type # "delchain"
      BY <1>2, <1>4, <1>5, <1>6, <2>3, <3>2 DEF OfPair
    <3> QED BY <3>1, <3>2
  <2> QED BY <1>1, <2>1, <2>2, <2>3, DueTail DEF h
<1> QED BY <1>1, <1>8, <1>9, <1>10, <1>11 DEF Agreement, ChainsDue, PathsDue

LEMMA AStep == TInv /\ AInv /\ [Next]_vars => AInv'
<1> SUFFICES ASSUME TInv, AInv, [Next]_vars, ~missed' PROVE Agreement'
  BY DEF AInv
<1>1. CASE UNCHANGED vars
  BY <1>1, RestsAgree DEF vars, orchestrator, controller, AInv, Rests, books, bookVars
<1>2. CASE OrchestratorStep
  <2>1. ~missed /\ Effect /\ UNCHANGED bookVars
    BY <1>2, OrchestratorEffect, OrchestratorInv DEF controller, bookVars
  <2> QED BY <2>1, EffectAgrees DEF AInv
<1>3. CASE ControllerStep
  BY <1>3, ControllerEffect, CarriesAgrees, RenewsAgrees DEF AInv
<1> QED BY <1>1, <1>2, <1>3, NextIs

LEMMA AInductive == Spec => []AInv
<1>1. TInv /\ AInv /\ [Next]_vars => AInv'
  BY AStep
<1> QED BY Inductive, AInit, <1>1, PTL DEF Spec

LEMMA DueMeans ==
    ASSUME NEW A, NEW d, NEW x, NEW y, Due(stream, A, d, x, y),
           NEW S, S = {n \in DOMAIN stream : stream[n] \in A}
    PROVE  (S = {} => x = y) /\ \A n \in LastAbout(S) : stream[n] = d
BY DEF Due, LastAbout

(* The two books of chains differ by the commands under way only.          *)
THEOREM Chains == Spec => []ChainsAgree
<1>1. TInv /\ AInv => ChainsAgree
  <2> SUFFICES ASSUME TInv, AInv, ~missed, NEW i \in Ids
               PROVE  /\ AboutChain(i) = {} => ctlChains[i] = chains[i]
                      /\ \A n \in LastAbout(AboutChain(i)) : stream[n] = ChainDue(i, chains[i])
    BY DEF ChainsAgree, ChainDue
  <2>1. AboutChain(i) = {n \in DOMAIN stream : stream[n] \in OfChain(i)}
    BY DEF AboutChain, OfChain, TInv, LinkInv
  <2>2. Due(stream, OfChain(i), ChainDue(i, chains[i]), ctlChains[i], chains[i])
    BY DEF AInv, Agreement, ChainsDue
  <2> QED BY <2>1, <2>2, DueMeans
<1> QED BY Inductive, AInductive, <1>1, PTL

(* The same of the paths that are not over a chain that is not there.      *)
THEOREM Paths == Spec => []PathsAgree
<1>1. TInv /\ AInv => PathsAgree
  <2> SUFFICES ASSUME TInv, AInv, ~missed, NEW p \in Pairs, ~Dangling(p)
               PROVE  /\ AboutPair(p) = {} => ctlPaths[p] = paths[p]
                      /\ \A n \in LastAbout(AboutPair(p)) : stream[n] = PathDue(p, paths[p])
    BY DEF PathsAgree, PathDue
  <2>1. AboutPair(p) = {n \in DOMAIN stream : stream[n] \in OfPair(p)}
    BY DEF AboutPair, OfPair, TInv, LinkInv
  <2>2. Due(stream, OfPair(p), PathDue(p, paths[p]), ctlPaths[p], paths[p])
    BY DEF AInv, Agreement, PathsDue, Dangling, Lost
  <2> QED BY <2>1, <2>2, DueMeans
<1> QED BY Inductive, AInductive, <1>1, PTL
=============================================================================
