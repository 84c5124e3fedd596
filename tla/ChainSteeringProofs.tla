------------------------- MODULE ChainSteeringProofs -------------------------
(***************************************************************************)
(* Proofs about ChainSteering, for any hosts, pairs, chains and bounds: the *)
(* types, and that a path never outlives its chain.                        *)
(***************************************************************************)
EXTENDS ChainSteering, TLAPS

(* The two books agree, and a chain that is being removed has no path left *)
(* but those the client thread is going to forget.                         *)
Planned == removal.id # None => \A p \in Pairs : paths[p] = removal.id => p \in removal.ps

SInv == TypeOK /\ NoDanglingPath /\ Planned

(* What nothing but a command or a removal writes.                         *)
bookVars == <<chains, paths, removal>>
-----------------------------------------------------------------------------
LEMMA MemberOfLists ==
    ASSUME NEW i \in Ids, NEW l \in ListsOf[i]
    PROVE  l \in Lists /\ l # None /\ Members(l) \subseteq Hosts
<1>1. l \in Lists
  BY DEF Lists
<1>2. l # None
  BY <1>1, SteeringAssumption
<1>3. l \in Seq(Hosts)
  BY SteeringAssumption
<1> QED BY <1>1, <1>2, <1>3 DEF Members

LEMMA PairHosts ==
    ASSUME NEW p \in Pairs
    PROVE  p.src \in Hosts /\ p.dst \in Hosts
BY SteeringAssumption

LEMMA NoRemovalIsOne == NoRemoval \in Removal /\ NoRemoval.id = None /\ NoRemoval.half = None
BY DEF NoRemoval, Removal

LEMMA Init_SInv == Init => SInv
<1> SUFFICES ASSUME Init PROVE SInv
  OBVIOUS
<1>1. TypeOK
  BY NoRemovalIsOne, SteeringAssumption DEF Init, TypeOK
<1>2. NoDanglingPath
  BY DEF Init, NoDanglingPath
<1>3. Planned
  BY NoRemovalIsOne DEF Init, Planned
<1> QED BY <1>1, <1>2, <1>3 DEF SInv
-----------------------------------------------------------------------------
(* The installation of a list keeps the type of the flows.                 *)
LEMMA InstallType ==
    ASSUME flows \in [Pairs -> Lists \cup {None}], NEW p, NEW l \in Lists, NEW known,
           Install(p, l, known)
    PROVE  flows' \in [Pairs -> Lists \cup {None}]
BY DEF Install

(* A step that leaves the books and the removal alone keeps what relates   *)
(* them.                                                                   *)
LEMMA SameBooks ==
    ASSUME NoDanglingPath, Planned, UNCHANGED bookVars
    PROVE  NoDanglingPath' /\ Planned'
BY DEF NoDanglingPath, Planned, bookVars

LEMMA Command_Type ==
    ASSUME TypeOK, Command
    PROVE  /\ commands' \in 0..MaxCommands /\ ported' \subseteq nodes /\ ported' = ported
           /\ l2' \subseteq Pairs /\ learned' \subseteq Hosts /\ faults' \in 0..MaxFaults
           /\ handler' \in [pair : Pairs, list : Lists] \cup {None}
BY SteeringAssumption DEF TypeOK, Command

LEMMA AddServiceChain_SInv ==
    ASSUME SInv, NEW i \in Ids, NEW l \in ListsOf[i], AddServiceChain(i, l)
    PROVE  SInv'
<1> USE DEF SInv
<1>1. l \in Lists /\ l # None /\ Members(l) \subseteq Hosts
  BY MemberOfLists
<1>2. TypeOK'
  BY <1>1, Command_Type DEF TypeOK, AddServiceChain, AddNodes
<1>3. NoDanglingPath' /\ Planned'
  BY <1>1, NoRemovalIsOne DEF TypeOK, AddServiceChain, NoDanglingPath, Planned, Command
<1> QED BY <1>2, <1>3

LEMMA AddServicePath_SInv ==
    ASSUME SInv, NEW p \in Pairs, NEW i \in Ids, AddServicePath(p, i)
    PROVE  SInv'
<1> USE DEF SInv
<1>1. i # None
  BY SteeringAssumption
<1>2. /\ nodes \subseteq nodes' /\ nodes' \subseteq Hosts /\ asked' \subseteq Hosts
      /\ chains' = chains /\ removal' = removal
  BY PairHosts DEF TypeOK, AddServicePath, AddNodes
<1>3. /\ paths' \in [Pairs -> Ids \cup {None}]
      /\ flows' \in [Pairs -> Lists \cup {None}]
  <2>1. CASE chains[i] = None
    BY <2>1 DEF TypeOK, AddServicePath
  <2>2. CASE chains[i] # None
    <3>1. chains[i] \in Lists /\ Install(p, chains[i], ported)
      BY <2>2 DEF TypeOK, AddServicePath
    <3>2. flows' \in [Pairs -> Lists \cup {None}]
      BY <3>1, InstallType DEF TypeOK
    <3> QED BY <2>2, <3>2 DEF TypeOK, AddServicePath
  <2> QED BY <2>1, <2>2
<1>4. TypeOK'
  BY <1>2, <1>3, Command_Type DEF TypeOK, AddServicePath
<1>5. NoDanglingPath'
  BY <1>1, <1>2 DEF TypeOK, AddServicePath, NoDanglingPath
<1>6. Planned'
  BY <1>2, NoRemovalIsOne DEF AddServicePath, Planned, Command
<1> QED BY <1>4, <1>5, <1>6

LEMMA RemoveServicePath_SInv ==
    ASSUME SInv, NEW p \in Pairs, RemoveServicePath(p)
    PROVE  SInv'
<1> USE DEF SInv
<1>1. /\ nodes \subseteq nodes' /\ nodes' \subseteq Hosts /\ asked' \subseteq Hosts
  BY PairHosts DEF TypeOK, RemoveServicePath, AddNodes
<1>2. removal' \in Removal /\ removal'.id = None
  BY NoRemovalIsOne DEF RemoveServicePath, NoRemoval, Removal
<1>3. TypeOK'
  BY <1>1, <1>2, Command_Type DEF TypeOK, RemoveServicePath
<1>4. NoDanglingPath' /\ Planned'
  BY <1>2 DEF RemoveServicePath, NoDanglingPath, Planned
<1> QED BY <1>3, <1>4

LEMMA RemoveServiceChain_SInv ==
    ASSUME SInv, NEW i \in Ids, RemoveServiceChain(i)
    PROVE  SInv'
<1> USE DEF SInv
<1>1. /\ removal' \in Removal /\ removal'.id = i
      /\ removal'.ps = {p \in Pairs : paths[p] = i}
  BY DEF RemoveServiceChain, Removal
<1>2. TypeOK'
  BY <1>1, Command_Type DEF TypeOK, RemoveServiceChain, books
<1>3. NoDanglingPath' /\ Planned'
  BY <1>1 DEF RemoveServiceChain, NoDanglingPath, Planned, books
<1> QED BY <1>2, <1>3

LEMMA RemoveFlows_SInv ==
    ASSUME SInv, NEW p \in Pairs, RemoveFlows(p)
    PROVE  SInv'
<1> USE DEF SInv
<1>1. removal' \in Removal /\ removal'.id = removal.id /\ removal'.ps = removal.ps
  BY DEF RemoveFlows, Removal, TypeOK
<1>2. flows' \in [Pairs -> Lists \cup {None}]
  BY DEF RemoveFlows, TypeOK
<1>3. TypeOK'
  BY <1>1, <1>2 DEF TypeOK, RemoveFlows, books
<1>4. NoDanglingPath' /\ Planned'
  BY <1>1 DEF RemoveFlows, NoDanglingPath, Planned, books
<1> QED BY <1>3, <1>4

LEMMA ForgetPath_SInv ==
    ASSUME SInv, NEW p \in Pairs, ForgetPath(p)
    PROVE  SInv'
<1> USE DEF SInv
<1>1. /\ removal' \in Removal
      /\ removal.id = None => removal'.id = None
      /\ removal.id # None => removal'.id = removal.id /\ removal'.ps = removal.ps \ {p}
  BY NoRemovalIsOne DEF ForgetPath, Removal, TypeOK
<1>2. TypeOK'
  BY <1>1 DEF TypeOK, ForgetPath
<1>3. NoDanglingPath'
  BY DEF ForgetPath, NoDanglingPath, TypeOK
<1>4. Planned'
  BY <1>1 DEF ForgetPath, Planned, TypeOK
<1> QED BY <1>2, <1>3, <1>4

LEMMA ForgetChain_SInv ==
    ASSUME SInv, ForgetChain
    PROVE  SInv'
<1> USE DEF SInv
<1>1. removal' \in Removal /\ removal'.id = None
  BY NoRemovalIsOne DEF ForgetChain
<1>2. TypeOK'
  BY <1>1 DEF TypeOK, ForgetChain
<1>3. NoDanglingPath'
  BY DEF ForgetChain, NoDanglingPath, Planned, TypeOK
<1>4. Planned'
  BY <1>1 DEF Planned
<1> QED BY <1>2, <1>3, <1>4

(* A list that is read belongs to a chain: no path outlives its chain.     *)
LEMMA PacketIn_SInv ==
    ASSUME SInv, NEW p \in Pairs, PacketIn(p)
    PROVE  SInv'
<1> USE DEF SInv
<1>1. handler' \in [pair : Pairs, list : Lists] \cup {None}
  <2>1. CASE paths[p] # None
    <3>1. chains[paths[p]] \in Lists
      BY <2>1 DEF TypeOK, NoDanglingPath
    <3> QED BY <2>1, <3>1 DEF PacketIn
  <2>2. CASE paths[p] = None
    BY <2>2 DEF PacketIn, TypeOK
  <2> QED BY <2>1, <2>2
<1>2. l2' \subseteq Pairs /\ learned' \subseteq Hosts
  BY PairHosts DEF PacketIn, TypeOK
<1>3. TypeOK'
  BY <1>1, <1>2 DEF TypeOK, PacketIn, books
<1>4. NoDanglingPath' /\ Planned'
  BY SameBooks DEF PacketIn, books, bookVars
<1> QED BY <1>3, <1>4

LEMMA InstallRead_SInv ==
    ASSUME SInv, InstallRead
    PROVE  SInv'
<1> USE DEF SInv
<1>1. flows' \in [Pairs -> Lists \cup {None}]
  <2>1. handler.list \in Lists /\ Install(handler.pair, handler.list, ported)
    BY DEF InstallRead, TypeOK
  <2> QED BY <2>1, InstallType DEF TypeOK
<1>2. TypeOK'
  BY <1>1 DEF TypeOK, InstallRead, books
<1>3. NoDanglingPath' /\ Planned'
  BY SameBooks DEF InstallRead, books, bookVars
<1> QED BY <1>2, <1>3

LEMMA Network_SInv ==
    ASSUME SInv,
           \/ \E h \in Hosts : ArpReply(h) \/ LoseArp(h)
           \/ \E p \in Pairs : FlowsExpire(p) \/ L2Expires(p)
    PROVE  SInv'
<1> USE DEF SInv
<1>1. ASSUME NEW h \in Hosts, ArpReply(h) PROVE SInv'
  <2>1. TypeOK'
    BY <1>1 DEF TypeOK, ArpReply
  <2> QED BY <1>1, <2>1, SameBooks DEF ArpReply, bookVars
<1>2. ASSUME NEW h \in Hosts, LoseArp(h) PROVE SInv'
  <2>1. TypeOK'
    BY <1>2, SteeringAssumption DEF TypeOK, LoseArp
  <2> QED BY <1>2, <2>1, SameBooks DEF LoseArp, bookVars
<1>3. ASSUME NEW p \in Pairs, FlowsExpire(p) PROVE SInv'
  <2>1. TypeOK'
    BY <1>3 DEF TypeOK, FlowsExpire, books
  <2> QED BY <1>3, <2>1, SameBooks DEF FlowsExpire, books, bookVars
<1>4. ASSUME NEW p \in Pairs, L2Expires(p) PROVE SInv'
  <2>1. TypeOK'
    BY <1>4 DEF TypeOK, L2Expires, books
  <2> QED BY <1>4, <2>1, SameBooks DEF L2Expires, books, bookVars
<1> QED BY <1>1, <1>2, <1>3, <1>4

LEMMA SwitchConnects_SInv ==
    ASSUME SInv, SwitchConnects
    PROVE  SInv'
<1> USE DEF SInv
<1>1. removal' \in Removal /\ removal'.id = None
  BY NoRemovalIsOne DEF SwitchConnects
<1>2. TypeOK'
  BY <1>1, SteeringAssumption DEF TypeOK, SwitchConnects
<1>3. NoDanglingPath' /\ Planned'
  BY <1>1 DEF SwitchConnects, NoDanglingPath, Planned
<1> QED BY <1>2, <1>3
-----------------------------------------------------------------------------
LEMMA Next_SInv == SInv /\ [Next]_vars => SInv'
<1> SUFFICES ASSUME SInv, [Next]_vars PROVE SInv'
  OBVIOUS
<1>1. CASE \E i \in Ids : RemoveServiceChain(i) \/ \E l \in ListsOf[i] : AddServiceChain(i, l)
  BY <1>1, RemoveServiceChain_SInv, AddServiceChain_SInv
<1>2. CASE \E p \in Pairs : RemoveServicePath(p) \/ \E i \in Ids : AddServicePath(p, i)
  BY <1>2, RemoveServicePath_SInv, AddServicePath_SInv
<1>3. CASE ClientThread
  BY <1>3, RemoveFlows_SInv, ForgetPath_SInv, ForgetChain_SInv DEF ClientThread
<1>4. CASE \E p \in Pairs : PacketIn(p) \/ FlowsExpire(p) \/ L2Expires(p)
  BY <1>4, PacketIn_SInv, Network_SInv
<1>5. CASE InstallRead
  BY <1>5, InstallRead_SInv
<1>6. CASE \E h \in Hosts : ArpReply(h) \/ LoseArp(h)
  BY <1>6, Network_SInv
<1>7. CASE SwitchConnects
  BY <1>7, SwitchConnects_SInv
<1>8. CASE UNCHANGED vars
  <2>1. TypeOK'
    BY <1>8 DEF SInv, TypeOK, vars
  <2> QED BY <1>8, <2>1, SameBooks DEF SInv, vars, bookVars
<1> QED BY <1>1, <1>2, <1>3, <1>4, <1>5, <1>6, <1>7, <1>8 DEF Next

(* Whatever the orchestrator commands while packets come in, ARP replies   *)
(* are lost and the switch connects again, the books keep their types.     *)
THEOREM TypeCorrect == Spec => []TypeOK
<1>1. SInv => TypeOK
  BY DEF SInv
<1> QED BY <1>1, Init_SInv, Next_SInv, PTL DEF Spec

(* removeServiceChain takes its paths one at a time and the thread of POX  *)
(* reads servicePaths in between: no path is left without a chain.         *)
THEOREM PathHasChain == Spec => []NoDanglingPath
<1>1. SInv => NoDanglingPath
  BY DEF SInv
<1> QED BY <1>1, Init_SInv, Next_SInv, PTL DEF Spec
=============================================================================
