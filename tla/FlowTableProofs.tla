--------------------------- MODULE FlowTableProofs ---------------------------
(***************************************************************************)
(* Proofs about FlowTable, for any size of the table, any fields and any   *)
(* flow modifications: the types, that active_count covers the active      *)
(* entries, that the lookup picks a flow of the highest priority and falls *)
(* back to NORMAL, that a checked ADD is disjoint from its priority's      *)
(* flows, that removals are reported, and what a DELETE removes in terms   *)
(* of packets.                                                             *)
(***************************************************************************)
EXTENDS FlowTable, FiniteSetTheorems, WellFoundedInduction, TLAPS

Table == [Slots -> Entries \cup {Empty}]

IInv == TypeOK /\ CountCovers
-----------------------------------------------------------------------------
(* Operators.                                                              *)

LEMMA NetworkOrderType ==
    ASSUME NEW p \in UInt16 PROVE NetworkOrder(p) \in UInt16
<1>1. MaxUInt16 \in Int
  BY DEF MaxUInt16
<1>2. p \in Int /\ 0 <= p /\ p <= MaxUInt16
  BY <1>1 DEF UInt16
<1>3. MaxUInt16 = 65535
  BY DEF MaxUInt16
<1>4. p \div 256 \in Int /\ 0 <= p \div 256 /\ p \div 256 <= 255
  BY ONLY <1>2, <1>3
<1>5. p % 256 \in Int /\ 0 <= p % 256 /\ p % 256 <= 255
  BY ONLY <1>2
<1>6. PICK low \in Int : low = (p % 256) * 256
  BY ONLY <1>5
<1>7. PICK high \in Int : high = p \div 256
  BY ONLY <1>4
<1>8. NetworkOrder(p) = low + high
  BY <1>6, <1>7, Zenon DEF NetworkOrder
<1>9. 0 <= low /\ low <= 65280
  BY ONLY <1>5, <1>6
<1>10. 0 <= high /\ high <= 255
  BY ONLY <1>4, <1>7
<1>11. low + high \in Int /\ 0 <= low + high /\ low + high <= MaxUInt16
  BY ONLY <1>3, <1>9, <1>10
<1>12. low + high \in UInt16
  BY ONLY <1>1, <1>11 DEF UInt16
<1> QED BY <1>8, <1>12, Zenon

LEMMA FlowModFacts ==
    ASSUME NEW fm \in FlowMods
    PROVE  fm \in FlowModType /\ EntryOf(fm) \in Entries /\ EntryOf(fm) # Empty
<1>1. fm \in FlowModType
  BY FlowTableAssumption
<1>2. NetworkOrder(fm.priority) \in UInt16
  BY <1>1, NetworkOrderType DEF FlowModType
<1>3. 0 \in Ages
  BY FlowTableAssumption DEF Ages
<1>4. EntryOf(fm) \in Entries
  BY <1>1, <1>2, <1>3 DEF FlowModType, EntryOf, Entries
<1> QED BY <1>1, <1>4, FlowTableAssumption

(* The fields that find_overlapping compares tell the packets apart: if it *)
(* finds no overlap, no packet matches both.                               *)
LEMMA OverlappingSound ==
    ASSUME NEW m \in Matches, NEW e \in Matches, NEW p \in Packets,
           MatchPacket(m, p), MatchPacket(e, p)
    PROVE  Overlapping(m, e)
<1>1. m.in_port \in {Any, p.in_port} /\ e.in_port \in {Any, p.in_port}
  BY DEF MatchPacket
<1>2. m.dl_type \in {Any, p.dl_type} /\ e.dl_type \in {Any, p.dl_type}
  BY DEF MatchPacket
<1> QED BY <1>1, <1>2 DEF Overlapping

(* The slots are finitely many, and so are the active ones.                *)
LEMMA ActiveFinite ==
    /\ IsFiniteSet(Slots)
    /\ \A S \in SUBSET Slots : IsFiniteSet(S) /\ Cardinality(S) \in Nat
<1>1. IsFiniteSet(Slots)
  BY FlowTableAssumption, FS_Interval DEF Slots
<1> QED BY <1>1, FS_Subset, FS_CardinalityType

LEMMA ActiveMonotone ==
    ASSUME NEW S \in SUBSET Slots, NEW T \in SUBSET Slots, S \subseteq T
    PROVE  Cardinality(S) <= Cardinality(T)
BY ActiveFinite, FS_Subset
-----------------------------------------------------------------------------
(* Types.                                                                  *)

LEMMA ModifyType ==
    ASSUME NEW fm \in FlowMods, NEW S \in SUBSET Slots, NEW table \in Table,
           ModifyEntries(fm, S, table)
    PROVE  entries' \in Table /\ refused' \in BOOLEAN /\ sent' \subseteq Removals
<1>1. EntryOf(fm) \in Entries /\ fm.invalid \in BOOLEAN
  BY FlowModFacts DEF FlowModType
<1> QED BY <1>1 DEF ModifyEntries, Table

LEMMA DeleteType ==
    ASSUME TypeOK, NEW S \in SUBSET Active, NEW reason \in [Slots -> Reasons],
           DeleteEntries(S, reason)
    PROVE  /\ entries' \in Table /\ refused' \in BOOLEAN /\ sent' \subseteq Removals
           /\ active_count' \in Int
<1>1. entries' \in Table /\ refused' \in BOOLEAN
  BY DEF DeleteEntries, TypeOK, Table
<1>2. Cardinality(S) \in Nat
  BY ActiveFinite DEF Active
<1>3. active_count' \in Int
  BY <1>2 DEF DeleteEntries, TypeOK
<1>4. \A i \in S : i \in Slots /\ entries[i] \in Entries
  BY DEF Active, TypeOK
<1>5. \A i \in S : [match |-> entries[i].match, priority |-> entries[i].priority,
                    reason |-> reason[i]] \in Removals
  <2> SUFFICES ASSUME NEW i \in S
               PROVE [match |-> entries[i].match, priority |-> entries[i].priority,
                      reason |-> reason[i]] \in Removals
    OBVIOUS
  <2>1. entries[i].match \in Matches /\ entries[i].priority \in UInt16
    BY <1>4 DEF Entries
  <2>2. reason[i] \in Reasons
    BY <1>4
  <2> QED BY <2>1, <2>2 DEF Removals
<1>6. sent' \subseteq Removals
  BY <1>5 DEF DeleteEntries
<1> QED BY <1>1, <1>3, <1>6

LEMMA AddType ==
    ASSUME TypeOK, NEW fm \in FlowMods, Add(fm)
    PROVE  /\ entries' \in Table /\ refused' \in BOOLEAN /\ sent' \subseteq Removals
           /\ active_count' \in Int
<1>1. CASE Reject
  BY <1>1 DEF Reject, TypeOK, Table
<1>2. CASE \E i \in Lowest(IdenticalEntries(fm)) :
              /\ ModifyEntries(fm, {i}, [entries EXCEPT ![i] = Empty])
              /\ UNCHANGED active_count
  <2>1. PICK i \in Slots : /\ ModifyEntries(fm, {i}, [entries EXCEPT ![i] = Empty])
                           /\ UNCHANGED active_count
    BY <1>2 DEF Lowest, IdenticalEntries, Active
  <2>2. [entries EXCEPT ![i] = Empty] \in Table
    BY DEF TypeOK, Table
  <2> QED BY <2>1, <2>2, ModifyType DEF TypeOK
<1>3. CASE \E i \in Lowest(Slots \ Active) :
              /\ ModifyEntries(fm, {i}, entries)
              /\ active_count' = active_count + 1
  <2>1. PICK i \in Slots : /\ ModifyEntries(fm, {i}, entries)
                           /\ active_count' = active_count + 1
    BY <1>3 DEF Lowest
  <2> QED BY <2>1, ModifyType DEF TypeOK, Table
<1> QED BY <1>1, <1>2, <1>3 DEF Add

LEMMA RecvType ==
    ASSUME TypeOK, NEW fm \in FlowMods, RecvFlowMod(fm)
    PROVE  TypeOK'
<1>1. CASE Add(fm)
  BY <1>1, AddType DEF RecvFlowMod, TypeOK, Table
<1>2. CASE Edit(fm)
  <2>1. CASE ModifyEntries(fm, MatchingEntries(fm.match, NoPort), entries)
             /\ UNCHANGED active_count
    <3>1. MatchingEntries(fm.match, NoPort) \in SUBSET Slots /\ entries \in Table
      BY DEF MatchingEntries, Active, TypeOK, Table
    <3> QED BY <2>1, <3>1, ModifyType DEF RecvFlowMod, TypeOK, Table
  <2> QED BY <1>1, <1>2, <2>1 DEF Edit
<1>3. CASE EditStrict(fm)
  <2>1. ASSUME NEW i \in IdenticalEntries(fm), ModifyEntries(fm, {i}, entries),
               UNCHANGED active_count
        PROVE  TypeOK'
    <3>1. {i} \in SUBSET Slots /\ entries \in Table
      BY DEF IdenticalEntries, Active, TypeOK, Table
    <3> QED BY <2>1, <3>1, ModifyType DEF RecvFlowMod, TypeOK, Table
  <2> QED BY <1>1, <1>3, <2>1 DEF EditStrict, Lowest
<1>4. ByDelete \in [Slots -> Reasons]
  BY DEF ByDelete, Reasons
<1>5. CASE Delete(fm)
  <2>1. MatchingEntries(fm.match, fm.out_port) \in SUBSET Active
    BY DEF MatchingEntries
  <2> QED BY <1>4, <1>5, <2>1, DeleteType DEF Delete, RecvFlowMod, TypeOK, Table
<1>6. CASE DeleteStrict(fm)
  <2>1. Lowest(IdenticalEntries(fm)) \in SUBSET Active
    BY DEF Lowest, IdenticalEntries
  <2> QED BY <1>4, <1>6, <2>1, DeleteType DEF DeleteStrict, RecvFlowMod, TypeOK, Table
<1>7. CASE Reject
  BY <1>7 DEF Reject, RecvFlowMod, TypeOK
<1> QED BY <1>1, <1>2, <1>3, <1>5, <1>6, <1>7 DEF RecvFlowMod

LEMMA ExpiredType ==
    /\ {i \in Active : IdleExpired(entries[i]) \/ HardExpired(entries[i])} \in SUBSET Active
    /\ ByTimeout \in [Slots -> Reasons]
BY DEF ByTimeout, Reasons

(* The lookup and the clock write ages only.                               *)
LEMMA AgesType ==
    ASSUME TypeOK, (\E p \in Packets : Lookup(p)) \/ Tick
    PROVE  TypeOK' /\ Active' = Active
<1>1. \A i \in Active : i \in Slots /\ entries[i] \in Entries
  BY DEF Active, TypeOK
<1>2. 0 \in Ages /\ \A a \in Ages : Older(a) \in Ages
  BY FlowTableAssumption DEF Ages, Older
<1>3. \A i \in Active : /\ [entries[i] EXCEPT !.unmatched = 0] \in Entries
                        /\ [entries[i] EXCEPT !.unmatched = Older(@),
                                              !.unmodified = Older(@)] \in Entries
  BY <1>1, <1>2 DEF Entries
<1>4. /\ entries' \in Table /\ refused' \in BOOLEAN /\ sent' \subseteq Removals
      /\ active_count' \in Int /\ conn' \in BOOLEAN
      /\ \A i \in Slots : entries'[i] \in Entries <=> i \in Active
  <2>1. CASE \E p \in Packets : Lookup(p)
    <3>1. PICK p \in Packets : Lookup(p)
      BY <2>1
    <3>2. entries' = [i \in Slots |-> IF i \in Active /\ i = EntryForPacket(p)
                                      THEN [entries[i] EXCEPT !.unmatched = 0]
                                      ELSE entries[i]]
      BY <3>1, Zenon DEF Lookup
    <3>3. ASSUME NEW i \in Slots
          PROVE  /\ entries'[i] \in Entries \cup {Empty}
                 /\ entries'[i] \in Entries <=> i \in Active
      <4>1. entries[i] \in Entries \cup {Empty} /\ (entries[i] \in Entries <=> i \in Active)
        BY FlowTableAssumption DEF TypeOK, Active
      <4>2. entries'[i] = IF i \in Active /\ i = EntryForPacket(p)
                          THEN [entries[i] EXCEPT !.unmatched = 0]
                          ELSE entries[i]
        BY <3>2, Zenon
      <4> QED BY <1>3, <4>1, <4>2, Zenon
    <3>4. entries' \in Table
      BY <3>2, <3>3, Zenon DEF Table
    <3>5. /\ refused' \in BOOLEAN /\ sent' \subseteq Removals
          /\ active_count' \in Int /\ conn' \in BOOLEAN
      BY <3>1 DEF Lookup, TypeOK
    <3> QED BY <3>3, <3>4, <3>5
  <2>2. CASE Tick
    BY <1>1, <1>3, <2>2, FlowTableAssumption DEF Tick, TypeOK, Table, Active
  <2> QED BY <2>1, <2>2
<1>5. Active' = Active
  BY <1>4, FlowTableAssumption DEF Active, Table
<1> QED BY <1>4, <1>5 DEF TypeOK, Table

LEMMA InitType == Init => TypeOK
<1> SUFFICES ASSUME Init PROVE TypeOK
  OBVIOUS
<1>1. DefaultFlow.match \in Matches /\ DefaultFlow.priority \in UInt16
  BY DEF DefaultFlow, Matches, UInt16, MaxUInt16
<1>2. NetworkOrder(DefaultFlow.priority) \in UInt16
  BY <1>1, NetworkOrderType
<1>3. EntryOf(DefaultFlow) \in Entries
  <2>1. 0 \in Ages /\ 0 \in Timeouts
    BY FlowTableAssumption DEF Ages, Timeouts
  <2> QED BY <1>1, <1>2, <2>1 DEF EntryOf, Entries, DefaultFlow
<1>4. entries \in [Slots -> Entries \cup {Empty}]
  BY <1>3 DEF Init
<1>5. active_count \in Int
  BY DEF Init
<1>6. conn \in BOOLEAN /\ refused \in BOOLEAN /\ sent \subseteq Removals
  BY Zenon DEF Init
<1> QED BY <1>4, <1>5, <1>6, Zenon DEF TypeOK

LEMMA TypeStep == TypeOK /\ [Next]_vars => TypeOK'
<1> SUFFICES ASSUME TypeOK, [Next]_vars PROVE TypeOK'
  OBVIOUS
<1>1. CASE \E fm \in FlowMods : RecvFlowMod(fm)
  BY <1>1, RecvType
<1>2. CASE (\E p \in Packets : Lookup(p)) \/ Tick
  BY <1>2, AgesType
<1>3. CASE TimeoutScan
  BY <1>3, ExpiredType, DeleteType DEF TimeoutScan, TypeOK, Table
<1>4. CASE ConnChange
  BY <1>4 DEF ConnChange, TypeOK
<1>5. CASE UNCHANGED vars
  BY <1>5 DEF vars, TypeOK
<1> QED BY <1>1, <1>2, <1>3, <1>4, <1>5 DEF Next

(* The table, the count and the messages keep their types, whatever the    *)
(* controller sends.                                                       *)
THEOREM TypeCorrect == Spec => []TypeOK
BY InitType, TypeStep, PTL DEF Spec
-----------------------------------------------------------------------------
(* The count.                                                              *)

(* A modification of one slot activates at most that slot; of active ones, *)
(* none.                                                                   *)
LEMMA ModifyActive ==
    ASSUME NEW fm \in FlowMods, NEW S \in SUBSET Slots, NEW table \in Table,
           \A i \in Slots : table[i] # Empty => i \in Active,
           ModifyEntries(fm, S, table)
    PROVE  Active' \subseteq Active \cup S
BY DEF ModifyEntries, Active

LEMMA AddCount ==
    ASSUME IInv, NEW fm \in FlowMods, Add(fm)
    PROVE  CountCovers'
<1> USE DEF IInv
<1>1. CASE Reject
  BY <1>1 DEF Reject, CountCovers, Active
<1>2. ASSUME NEW i \in IdenticalEntries(fm), UNCHANGED active_count,
             ModifyEntries(fm, {i}, [entries EXCEPT ![i] = Empty])
      PROVE  CountCovers'
  <2>1. i \in Active /\ i \in Slots
    BY DEF IdenticalEntries, Active
  <2>2. [entries EXCEPT ![i] = Empty] \in Table
    BY DEF TypeOK, Table
  <2>3. \A j \in Slots : [entries EXCEPT ![i] = Empty][j] # Empty => j \in Active
    BY DEF TypeOK, Active
  <2>4. Active' \subseteq Active
    BY <1>2, <2>1, <2>2, <2>3, ModifyActive
  <2>5. Cardinality(Active') <= Cardinality(Active)
    BY <2>4, ActiveMonotone DEF Active
  <2> QED BY <1>2, <2>5, ActiveFinite DEF CountCovers, TypeOK, Active
<1>3. ASSUME NEW i \in Slots \ Active, active_count' = active_count + 1,
             ModifyEntries(fm, {i}, entries)
      PROVE  CountCovers'
  <2>1. entries \in Table /\ \A j \in Slots : entries[j] # Empty => j \in Active
    BY DEF TypeOK, Table, Active
  <2>2. Active' \subseteq Active \cup {i}
    BY <1>3, <2>1, ModifyActive
  <2>3. /\ Active \in SUBSET Slots /\ Active' \in SUBSET Slots
        /\ (Active \cup {i}) \in SUBSET Slots
    BY DEF Active
  <2>4. Cardinality(Active') <= Cardinality(Active \cup {i})
    BY <2>2, <2>3, ActiveMonotone
  <2>5. Cardinality(Active \cup {i}) = Cardinality(Active) + 1
    BY <2>3, ActiveFinite, FS_AddElement
  <2>6. Cardinality(Active) <= active_count /\ active_count \in Int
    BY DEF CountCovers, TypeOK
  <2>7. Cardinality(Active') \in Nat /\ Cardinality(Active) \in Nat
    BY <2>3, ActiveFinite
  <2>8. Cardinality(Active') <= active_count'
    BY <1>3, <2>4, <2>5, <2>6, <2>7
  <2> QED BY <2>8 DEF CountCovers
<1> QED BY <1>1, <1>2, <1>3 DEF Add, Lowest

LEMMA ModifyCount ==
    ASSUME IInv, NEW fm \in FlowMods, NEW S \in SUBSET Active,
           ModifyEntries(fm, S, entries), UNCHANGED active_count
    PROVE  CountCovers'
<1>1. Active' \subseteq Active
  BY ModifyActive DEF IInv, TypeOK, Table, Active
<1>2. Active \in SUBSET Slots /\ Active' \in SUBSET Slots
  BY DEF Active
<1>3. Cardinality(Active') <= Cardinality(Active)
  BY <1>1, <1>2, ActiveMonotone
<1>4. Cardinality(Active) \in Nat /\ Cardinality(Active') \in Nat
  BY <1>2, ActiveFinite
<1>5. Cardinality(Active) <= active_count /\ active_count \in Int
  BY DEF IInv, CountCovers, TypeOK
<1>6. Cardinality(Active') <= active_count'
  BY <1>3, <1>4, <1>5
<1> QED BY <1>6 DEF CountCovers

LEMMA DeleteCount ==
    ASSUME IInv, NEW S \in SUBSET Active, NEW reason, DeleteEntries(S, reason)
    PROVE  CountCovers'
<1>1. Active' = Active \ S
  BY DEF DeleteEntries, Active
<1>2. Active \in SUBSET Slots /\ S \in SUBSET Slots /\ Active' \in SUBSET Slots
  BY DEF Active
<1>3. Active \cap S = S
  OBVIOUS
<1>4. Cardinality(Active') = Cardinality(Active) - Cardinality(S)
  BY <1>1, <1>2, <1>3, ActiveFinite, FS_Difference
<1>5. Cardinality(Active) \in Nat /\ Cardinality(S) \in Nat
  BY <1>2, ActiveFinite
<1>6. Cardinality(Active) <= active_count /\ active_count \in Int
  BY DEF IInv, CountCovers, TypeOK
<1>7. active_count' = active_count - Cardinality(S)
  BY DEF DeleteEntries
<1>8. Cardinality(Active') <= active_count'
  BY <1>4, <1>5, <1>6, <1>7
<1> QED BY <1>8 DEF CountCovers

LEMMA CountStep == IInv /\ [Next]_vars => CountCovers'
<1> SUFFICES ASSUME IInv, [Next]_vars PROVE CountCovers'
  OBVIOUS
<1>1. ASSUME NEW fm \in FlowMods, RecvFlowMod(fm) PROVE CountCovers'
  <2>1. CASE Add(fm)
    BY <2>1, AddCount
  <2>2. CASE Edit(fm)
    <3>1. MatchingEntries(fm.match, NoPort) \in SUBSET Active
      BY DEF MatchingEntries
    <3> QED BY <2>1, <2>2, <3>1, ModifyCount DEF Edit
  <2>3. CASE EditStrict(fm)
    <3>1. \A i \in Lowest(IdenticalEntries(fm)) : {i} \in SUBSET Active
      BY DEF Lowest, IdenticalEntries
    <3> QED BY <2>1, <2>3, <3>1, ModifyCount DEF EditStrict
  <2>4. CASE Delete(fm)
    <3>1. MatchingEntries(fm.match, fm.out_port) \in SUBSET Active
      BY DEF MatchingEntries
    <3> QED BY <2>4, <3>1, DeleteCount DEF Delete
  <2>5. CASE DeleteStrict(fm)
    <3>1. Lowest(IdenticalEntries(fm)) \in SUBSET Active
      BY DEF Lowest, IdenticalEntries
    <3> QED BY <2>5, <3>1, DeleteCount DEF DeleteStrict
  <2>6. CASE Reject
    BY <2>6 DEF IInv, Reject, CountCovers, Active
  <2> QED BY <1>1, <2>1, <2>2, <2>3, <2>4, <2>5, <2>6 DEF RecvFlowMod
<1>2. CASE (\E p \in Packets : Lookup(p)) \/ Tick
  <2>1. Active' = Active
    BY <1>2, AgesType DEF IInv
  <2>2. active_count' = active_count
    BY <1>2 DEF Lookup, Tick
  <2> QED BY <2>1, <2>2 DEF IInv, CountCovers
<1>3. CASE TimeoutScan
  BY <1>3, ExpiredType, DeleteCount DEF TimeoutScan
<1>4. CASE ConnChange \/ UNCHANGED vars
  BY <1>4 DEF ConnChange, vars, IInv, CountCovers, Active
<1> QED BY <1>1, <1>2, <1>3, <1>4 DEF Next

LEMMA InitCount == Init => CountCovers
<1> SUFFICES ASSUME Init PROVE CountCovers
  OBVIOUS
<1>1. Active \subseteq {1}
  BY DEF Init, Active
<1>2. IsFiniteSet({1}) /\ Cardinality({1}) = 1
  BY FS_Singleton
<1>3. Cardinality(Active) <= 1
  BY <1>1, <1>2, FS_Subset
<1> QED BY <1>3 DEF Init, CountCovers

LEMMA Inductive == Spec => []IInv
<1>1. Init => IInv
  BY InitType, InitCount DEF IInv
<1>2. IInv /\ [Next]_vars => IInv'
  BY TypeStep, CountStep DEF IInv
<1> QED BY <1>1, <1>2, PTL DEF Spec

(* active_count is at least the number of active entries, so it never      *)
(* wraps below zero.                                                       *)
THEOREM CountCorrect == Spec => []CountCovers
<1>1. IInv => CountCovers
  BY DEF IInv
<1> QED BY <1>1, Inductive, PTL
-----------------------------------------------------------------------------
(* Checked additions.                                                      *)

(* Only Add fills a slot that was empty.                                   *)
LEMMA OnlyAddFills ==
    ASSUME IInv, [Next]_vars, NEW i \in Slots, i \in Active', i \notin Active
    PROVE  \E fm \in FlowMods : Add(fm)
<1>1. ASSUME NEW S \in SUBSET Active, NEW fm \in FlowMods,
             ModifyEntries(fm, S, entries)
      PROVE  FALSE
  BY <1>1, ModifyActive DEF IInv, TypeOK, Table, Active
<1>2. ASSUME NEW S, NEW reason, DeleteEntries(S, reason)
      PROVE  FALSE
  BY <1>2 DEF DeleteEntries, Active
<1>3. ASSUME NEW fm \in FlowMods, RecvFlowMod(fm)
      PROVE  Add(fm)
  <2>1. CASE Edit(fm)
    <3>1. MatchingEntries(fm.match, NoPort) \in SUBSET Active
      BY DEF MatchingEntries
    <3> QED BY <1>1, <2>1, <3>1 DEF Edit
  <2>2. CASE EditStrict(fm)
    <3>1. \A k \in Lowest(IdenticalEntries(fm)) : {k} \in SUBSET Active
      BY DEF Lowest, IdenticalEntries
    <3> QED BY <1>1, <2>2, <3>1 DEF EditStrict
  <2>3. CASE Delete(fm) \/ DeleteStrict(fm)
    BY <1>2, <2>3 DEF Delete, DeleteStrict
  <2>4. CASE Reject
    BY <2>4 DEF Reject, Active
  <2> QED BY <1>3, <2>1, <2>2, <2>3, <2>4 DEF RecvFlowMod
<1>4. CASE (\E p \in Packets : Lookup(p)) \/ Tick
  BY <1>4, AgesType DEF IInv
<1>5. CASE TimeoutScan
  BY <1>2, <1>5 DEF TimeoutScan
<1>6. CASE ConnChange \/ UNCHANGED vars
  BY <1>6 DEF ConnChange, vars, Active
<1> QED BY <1>3, <1>4, <1>5, <1>6 DEF Next

LEMMA AddDisjoint ==
    ASSUME IInv, IInv', NEW fm \in FlowMods, Add(fm)
    PROVE  AddedIsDisjoint
<1> SUFFICES ASSUME NEW i \in Slots, NEW j \in Slots,
                    i \in Active', i \notin Active, j \in Active', i # j,
                    "CHECK_OVERLAP" \in entries'[i].flags,
                    entries'[j].priority = entries'[i].priority,
                    NEW p \in Packets,
                    MatchPacket(entries'[i].match, p),
                    MatchPacket(entries'[j].match, p)
             PROVE  FALSE
  BY DEF AddedIsDisjoint
(* The slot was filled by the disjunct of Add that takes a free one.       *)
<1>1. /\ ModifyEntries(fm, {i}, entries)
      /\ ~("CHECK_OVERLAP" \in fm.flags /\ OverlappingEntries(fm) # {})
  <2>1. ~Reject
    BY DEF Reject, Active
  <2>2. ASSUME NEW k \in IdenticalEntries(fm),
               ModifyEntries(fm, {k}, [entries EXCEPT ![k] = Empty])
        PROVE  FALSE
    <3>1. k \in Active /\ k \in Slots
      BY DEF IdenticalEntries, Active
    <3>2. /\ [entries EXCEPT ![k] = Empty] \in Table
          /\ \A l \in Slots : [entries EXCEPT ![k] = Empty][l] # Empty => l \in Active
      BY <3>1 DEF IInv, TypeOK, Table, Active
    <3>3. Active' \subseteq Active \cup {k}
      BY <2>2, <3>1, <3>2, ModifyActive
    <3> QED BY <3>1, <3>3
  <2>3. PICK k \in Slots : /\ ModifyEntries(fm, {k}, entries)
                           /\ ~("CHECK_OVERLAP" \in fm.flags
                                /\ OverlappingEntries(fm) # {})
    BY <2>1, <2>2 DEF Add, Lowest
  <2>4. Active' \subseteq Active \cup {k}
    BY <2>3, ModifyActive DEF IInv, TypeOK, Table, Active
  <2> QED BY <2>3, <2>4
<1>2. entries'[i] = EntryOf(fm) /\ entries'[j] = entries[j] /\ j \in Active
  BY <1>1 DEF ModifyEntries, Active, IInv, TypeOK
<1>3. /\ "CHECK_OVERLAP" \in fm.flags
      /\ entries[j].priority = NetworkOrder(fm.priority)
      /\ MatchPacket(fm.match, p) /\ MatchPacket(entries[j].match, p)
  BY <1>2 DEF EntryOf
<1>4. fm.match \in Matches /\ entries[j].match \in Matches
  <2>1. entries[j] \in Entries
    BY <1>2 DEF IInv, TypeOK, Active
  <2> QED BY <2>1, FlowModFacts DEF FlowModType, Entries
<1>5. Overlapping(fm.match, entries[j].match)
  BY <1>3, <1>4, OverlappingSound
<1> QED BY <1>1, <1>2, <1>3, <1>5 DEF OverlappingEntries

(* An ADD with CHECK_OVERLAP that the table accepts shares no packet with  *)
(* the flows of its priority, whatever the fields and the flows.           *)
THEOREM CheckedAdd == Spec => CheckedAddIsDisjoint
<1>1. IInv /\ IInv' /\ [Next]_vars => AddedIsDisjoint
  <2> SUFFICES ASSUME IInv, IInv', [Next]_vars PROVE AddedIsDisjoint
    OBVIOUS
  <2>1. CASE \E fm \in FlowMods : Add(fm)
    BY <2>1, AddDisjoint
  <2>2. CASE ~\E fm \in FlowMods : Add(fm)
    <3>1. \A i \in Slots : i \in Active' => i \in Active
      BY <2>2, OnlyAddFills
    <3> QED BY <3>1 DEF AddedIsDisjoint
  <2> QED BY <2>1, <2>2
<1>2. IInv /\ IInv' /\ [Next]_vars => [AddedIsDisjoint]_vars
  BY <1>1
<1> QED BY <1>2, Inductive, PTL DEF Spec, CheckedAddIsDisjoint
-----------------------------------------------------------------------------
(* Removals and their reports.                                             *)

(* Writing entries, accepted, takes none out of the table.                 *)
LEMMA ModifyReported ==
    ASSUME NEW fm \in FlowMods, NEW S \in SUBSET Slots, NEW table,
           \A i \in Slots \ S : table[i] = entries[i],
           ModifyEntries(fm, S, table)
    PROVE  RemovalReported
<1>1. sent' = {} /\ refused' = fm.invalid /\ EntryOf(fm) # Empty
  BY FlowModFacts DEF ModifyEntries
<1>2. ASSUME NEW i \in Active, entries'[i] = Empty, ~refused' PROVE FALSE
  <2>1. i \in Slots /\ entries[i] # Empty /\ ~fm.invalid
    BY <1>1, <1>2 DEF Active
  <2>2. entries'[i] = IF i \in S THEN EntryOf(fm) ELSE table[i]
    BY <2>1 DEF ModifyEntries
  <2> QED BY <1>1, <1>2, <2>1, <2>2
<1> QED BY <1>1, <1>2 DEF RemovalReported

(* What is taken out is reported with the reason given for its slot.       *)
LEMMA DeleteReported ==
    ASSUME NEW S \in SUBSET Active, NEW reason, DeleteEntries(S, reason),
           \A i \in S : \/ reason[i] = "DELETE"
                        \/ reason[i] = "IDLE_TIMEOUT" /\ IdleExpired(entries[i])
                        \/ reason[i] = "HARD_TIMEOUT" /\ HardExpired(entries[i])
                                                      /\ ~IdleExpired(entries[i])
    PROVE  RemovalReported
<1> DEFINE told(i) == [match |-> entries[i].match, priority |-> entries[i].priority,
                       reason |-> reason[i]]
<1>1. sent' = {told(i) : i \in {k \in S : conn /\ "SEND_FLOW_REM" \in entries[k].flags}}
  BY DEF DeleteEntries
<1>2. \A i \in Active : i \in Slots /\ (entries'[i] = Empty <=> i \in S)
  BY DEF DeleteEntries, Active
<1>3. ASSUME NEW i \in Active, entries'[i] = Empty, conn,
             "SEND_FLOW_REM" \in entries[i].flags
      PROVE  \E m \in sent' : /\ m.match = entries[i].match
                              /\ m.priority = entries[i].priority
  <2>1. told(i) \in sent'
    BY <1>1, <1>2, <1>3
  <2> QED BY <2>1
<1>4. ASSUME NEW m \in sent', m.reason # "DELETE"
      PROVE  \E i \in Active :
                /\ entries[i].match = m.match /\ entries'[i] = Empty
                /\ IF m.reason = "IDLE_TIMEOUT" THEN IdleExpired(entries[i])
                   ELSE HardExpired(entries[i]) /\ ~IdleExpired(entries[i])
  <2>1. PICK i \in S : m = told(i)
    BY <1>1
  <2>2. m.match = entries[i].match /\ m.reason = reason[i]
    BY <2>1
  <2>3. i \in Active /\ entries'[i] = Empty
    BY <1>2
  <2>4. IF m.reason = "IDLE_TIMEOUT" THEN IdleExpired(entries[i])
        ELSE HardExpired(entries[i]) /\ ~IdleExpired(entries[i])
    BY <1>4, <2>2
  <2> QED BY <2>2, <2>3, <2>4
<1> QED BY <1>3, <1>4 DEF RemovalReported

LEMMA AddReported ==
    ASSUME NEW fm \in FlowMods, Add(fm), TypeOK
    PROVE  RemovalReported
<1>1. CASE Reject
  BY <1>1 DEF Reject, RemovalReported
<1>2. ASSUME NEW i \in Slots, ModifyEntries(fm, {i}, [entries EXCEPT ![i] = Empty])
      PROVE  RemovalReported
  <2>1. \A k \in Slots \ {i} : [entries EXCEPT ![i] = Empty][k] = entries[k]
    BY DEF TypeOK
  <2> QED BY <1>2, <2>1, ModifyReported
<1>3. ASSUME NEW i \in Slots, ModifyEntries(fm, {i}, entries)
      PROVE  RemovalReported
  BY <1>3, ModifyReported
<1> QED BY <1>1, <1>2, <1>3 DEF Add, Lowest, IdenticalEntries, Active

(* With the controller connected, no flow that asks for it leaves the      *)
(* table unreported, by its command or by a timeout, and a timeout is      *)
(* reported only of a flow past it, for any flows and commands             *)
(* (openflow_flowtable_delete_entry_at_index and its callers): the message *)
(* is made before the entry is cleared.                                    *)
THEOREM Reported == Spec => RemovalsReported
<1>1. TypeOK /\ [Next]_vars => [RemovalReported]_vars
  <2> SUFFICES ASSUME TypeOK, Next PROVE RemovalReported
    OBVIOUS
  <2>1. ASSUME NEW fm \in FlowMods, RecvFlowMod(fm) PROVE RemovalReported
    <3>1. CASE Add(fm)
      BY <3>1, AddReported
    <3>2. ASSUME NEW S \in SUBSET Slots, ModifyEntries(fm, S, entries)
          PROVE  RemovalReported
      BY <3>2, ModifyReported
    <3>3. CASE Edit(fm)
      <4>1. MatchingEntries(fm.match, NoPort) \in SUBSET Slots
        BY DEF MatchingEntries, Active
      <4> QED BY <3>1, <3>2, <3>3, <4>1 DEF Edit
    <3>4. CASE EditStrict(fm)
      <4>1. \A k \in Lowest(IdenticalEntries(fm)) : {k} \in SUBSET Slots
        BY DEF Lowest, IdenticalEntries, Active
      <4> QED BY <3>1, <3>2, <3>4, <4>1 DEF EditStrict
    <3>5. CASE Delete(fm) \/ DeleteStrict(fm)
      <4>1. /\ MatchingEntries(fm.match, fm.out_port) \in SUBSET Active
            /\ Lowest(IdenticalEntries(fm)) \in SUBSET Active
        BY DEF MatchingEntries, Lowest, IdenticalEntries
      <4>2. \A i \in Active : ByDelete[i] = "DELETE"
        BY DEF ByDelete, Active
      <4> QED BY <3>5, <4>1, <4>2, DeleteReported DEF Delete, DeleteStrict
    <3>6. CASE Reject
      BY <3>6 DEF Reject, RemovalReported
    <3> QED BY <2>1, <3>1, <3>3, <3>4, <3>5, <3>6 DEF RecvFlowMod
  <2>2. CASE TimeoutScan
    <3> DEFINE S == {i \in Active : IdleExpired(entries[i]) \/ HardExpired(entries[i])}
    <3>1. DeleteEntries(S, ByTimeout) /\ S \in SUBSET Active
      BY <2>2 DEF TimeoutScan
    <3>2. \A i \in S : \/ ByTimeout[i] = "IDLE_TIMEOUT" /\ IdleExpired(entries[i])
                       \/ ByTimeout[i] = "HARD_TIMEOUT" /\ HardExpired(entries[i])
                                                        /\ ~IdleExpired(entries[i])
      BY DEF ByTimeout, Active
    <3> QED BY <3>1, <3>2, DeleteReported
  <2>3. CASE (\E p \in Packets : Lookup(p)) \/ Tick
    <3>1. sent' = {}
      BY <2>3 DEF Lookup, Tick
    <3>2. Active' = Active
      BY <2>3, AgesType
    <3>3. \A i \in Active : entries'[i] # Empty
      BY <3>2 DEF Active
    <3> QED BY <3>1, <3>3 DEF RemovalReported
  <2>4. CASE ConnChange
    BY <2>4 DEF ConnChange, RemovalReported, Active
  <2> QED BY <2>1, <2>2, <2>3, <2>4 DEF Next
<1> QED BY <1>1, TypeCorrect, PTL DEF Spec, RemovalsReported
-----------------------------------------------------------------------------
(* What a query matches.                                                   *)

(* There are two values for each field, or a single one would do what a    *)
(* wildcard does.                                                          *)
Varied == /\ \E a, b \in Ports : a # b
          /\ \E a, b \in DlTypes : a # b
          /\ \E a, b \in Protos : a # b

(* A packet that the match m lets through, with other fields as wanted.    *)
LEMMA SomePacket ==
    ASSUME NEW m \in Matches, NEW a \in Ports, NEW b \in DlTypes, NEW c \in Protos,
           m.in_port \in {Any, a}, m.dl_type \in {Any, b}, m.nw_proto \in {Any, c}
    PROVE  \E p \in Packets : /\ p = [in_port |-> a, dl_type |-> b, nw_proto |-> c]
                              /\ MatchPacket(m, p)
<1> DEFINE p == [in_port |-> a, dl_type |-> b, nw_proto |-> c]
<1>1. p \in Packets
  BY DEF Packets
<1>2. p.in_port = a /\ p.dl_type = b /\ p.nw_proto = c
  OBVIOUS
<1>3. MatchPacket(m, p)
  BY <1>2 DEF MatchPacket
<1> QED BY <1>1, <1>3

LEMMA MatchingSubsumes ==
    ASSUME Varied, NEW q \in Matches, NEW m \in Matches
    PROVE  Matching(q, m) <=> \A p \in Packets : MatchPacket(m, p) => MatchPacket(q, p)
<1>1. Any \notin Ports /\ Any \notin DlTypes /\ Any \notin Protos /\ L3Types \subseteq DlTypes
  BY FlowTableAssumption
<1>2. ASSUME Matching(q, m), NEW p \in Packets, MatchPacket(m, p)
      PROVE  MatchPacket(q, p)
  <2>1. q.in_port \in {Any, p.in_port} /\ q.dl_type \in {Any, p.dl_type}
    BY <1>1, <1>2 DEF Matching, MatchPacket, Matches, Packets
  <2>2. ASSUME q.dl_type \in L3Types PROVE q.nw_proto \in {Any, p.nw_proto}
    <3>1. q.dl_type # Any /\ m.dl_type = q.dl_type
      BY <1>1, <1>2, <2>2 DEF Matching
    <3> QED BY <1>2, <2>2, <3>1 DEF Matching, MatchPacket
  <2> QED BY <2>1, <2>2 DEF MatchPacket
<1>3. ASSUME \A p \in Packets : MatchPacket(m, p) => MatchPacket(q, p)
      PROVE  Matching(q, m)
  <2>1. PICK a \in Ports : m.in_port \in {Any, a} /\ (m.in_port = Any => q.in_port # a)
    BY <1>1 DEF Varied, Matches
  <2>2. PICK b \in DlTypes : m.dl_type \in {Any, b} /\ (m.dl_type = Any => q.dl_type # b)
    BY <1>1 DEF Varied, Matches
  <2>3. PICK c \in Protos : m.nw_proto \in {Any, c} /\ (m.nw_proto = Any => q.nw_proto # c)
    BY <1>1 DEF Varied, Matches
  <2> DEFINE p == [in_port |-> a, dl_type |-> b, nw_proto |-> c]
  <2>4. p \in Packets /\ MatchPacket(m, p)
    BY <2>1, <2>2, <2>3, SomePacket
  <2>5. MatchPacket(q, p) /\ p.in_port = a /\ p.dl_type = b /\ p.nw_proto = c
    BY <1>3, <2>4
  <2> HIDE DEF p
  <2>6. q.in_port # Any => m.in_port = q.in_port
    BY <2>1, <2>5 DEF MatchPacket
  <2>7. q.dl_type # Any => m.dl_type = q.dl_type
    BY <2>2, <2>5 DEF MatchPacket
  <2>8. q.nw_proto # Any /\ q.dl_type \in L3Types => m.nw_proto = q.nw_proto
    BY <2>3, <2>5 DEF MatchPacket
  <2> QED BY <2>6, <2>7, <2>8 DEF Matching
<1> QED BY <1>2, <1>3

(* Where fields have more than one value, DELETE removes the flows all of  *)
(* whose packets its query matches, and only those: the comparison field   *)
(* by field of openflow_flowtable_find_matching_entry, with the fields it  *)
(* skips under other frame types, is the inclusion of sets of packets.     *)
THEOREM DeleteSubsumed ==
    ASSUME Varied PROVE Spec => DeleteRemovesSubsumed
<1>1. TypeOK => RemovesSubsumed
  <2> SUFFICES ASSUME TypeOK, NEW fm \in FlowMods, fm.out_port = NoPort, Delete(fm),
                      NEW i \in Active
               PROVE  entries'[i] = Empty
                      <=> \A p \in Packets : MatchPacket(entries[i].match, p)
                                             => MatchPacket(fm.match, p)
    BY DEF RemovesSubsumed
  <2>1. i \in Slots /\ entries[i] # Empty /\ entries[i] \in Entries
    BY DEF Active, TypeOK
  <2>2. entries'[i] = Empty <=> Matching(fm.match, entries[i].match)
    BY <2>1 DEF Delete, DeleteEntries, MatchingEntries
  <2>3. entries[i].match \in Matches /\ fm.match \in Matches
    BY <2>1, FlowModFacts DEF Entries, FlowModType
  <2> QED BY <2>2, <2>3, MatchingSubsumes
<1>2. TypeOK => [RemovesSubsumed]_vars
  BY <1>1
<1> QED BY <1>2, TypeCorrect, PTL DEF Spec, DeleteRemovesSubsumed
-----------------------------------------------------------------------------
(* The loop of the lookup: its rounds are well defined, by induction.  The *)
(* induction is over a set, in place of a predicate.                       *)

LEMMA LeastNumber ==
    ASSUME NEW T, T \subseteq Nat, T # {}
    PROVE  \E n \in T : \A m \in T : n <= m
<1> DEFINE R == {ss \in Nat \X Nat : ss[1] < ss[2]}
<1>1. IsWellFoundedOn(OpToRel(<, Nat), Nat)
  BY NatLessThanWellFounded
<1>2. IsWellFoundedOn(R, Nat)
  BY <1>1, Zenon DEF OpToRel
<1>3. \E n \in T : \A m \in T : ~(<<m, n>> \in R)
  BY <1>2, WFMin, Zenon
<1>4. \A m, n \in Nat : <<m, n>> \in R <=> m < n
  OBVIOUS
<1> HIDE DEF R
<1>5. PICK n \in T : \A m \in T : ~(<<m, n>> \in R)
  BY <1>3
<1>6. ASSUME NEW m \in T PROVE n <= m
  <2>1. n \in Nat /\ m \in Nat
    OBVIOUS
  <2>2. ~(m < n)
    BY <1>4, <1>5, <2>1, Zenon
  <2> QED BY <2>1, <2>2
<1> QED BY <1>5, <1>6

(* Induction up to N, for a set in place of a predicate.                   *)
LEMMA InductionUpTo ==
    ASSUME NEW N \in Nat, NEW T, 0 \in T,
           \A n \in 1..N : n - 1 \in T => n \in T
    PROVE  0..N \subseteq T
<1> DEFINE Out == {n \in 0..N : n \notin T}
<1> SUFFICES ASSUME Out # {} PROVE FALSE
  OBVIOUS
<1>1. PICK n \in Out : \A m \in Out : n <= m
  <2>1. Out \subseteq Nat
    OBVIOUS
  <2> HIDE DEF Out
  <2> QED BY <2>1, LeastNumber
<1>2. n \in 1..N /\ n - 1 \in T
  BY <1>1
<1> QED BY <1>1, <1>2

(* The loop is defined: it can be run up to each entry.                    *)
Round(p, f, i) == IF i = 0 THEN NothingFound ELSE Examine(p, f[i - 1], i)
Rounds(p, f, n) == [i \in 0..n |-> Round(p, f, i)]

LEMMA FoundDef ==
    ASSUME NEW p
    PROVE  Found(p) = Rounds(p, Found(p), MaxEntries)
<1> DEFINE T == {n \in 0..MaxEntries : \E f : f = Rounds(p, f, n)}
<1>1. 0 \in T
  <2> DEFINE g == [i \in 0..0 |-> NothingFound]
  <2>1. \A i \in 0..0 : NothingFound = Round(p, g, i)
    BY DEF Round
  <2>2. g = Rounds(p, g, 0)
    BY <2>1, Zenon DEF Rounds
  <2>3. 0 \in 0..MaxEntries
    BY FlowTableAssumption
  <2> HIDE DEF g
  <2> QED BY <2>2, <2>3
<1>2. ASSUME NEW n \in 1..MaxEntries, n - 1 \in T PROVE n \in T
  <2>1. PICK f : f = Rounds(p, f, n - 1)
    BY <1>2
  <2> DEFINE h(i) == IF i = n THEN Round(p, f, n) ELSE f[i]
             g == [i \in 0..n |-> h(i)]
  <2>2. n # 0 /\ n \in 0..n /\ n \in 0..MaxEntries /\ n \in Int
    OBVIOUS
  <2>3. \A i \in 0..n : g[i] = h(i)
    BY Zenon
  <2>4. \A i \in 0..n : i # n => i \in 0..(n - 1)
    BY <2>2
  <2>5. \A i \in 0..(n - 1) : f[i] = Round(p, f, i)
    BY <2>1, Zenon DEF Rounds
  <2>6. \A i \in 0..n : i # 0 => i - 1 \in 0..n /\ i - 1 # n
    BY <2>2
  <2> HIDE DEF g
  <2>7. \A i \in 0..n : i # 0 => g[i - 1] = f[i - 1]
    BY <2>3, <2>6, Zenon
  <2>8. \A i \in 0..n : Round(p, g, i) = Round(p, f, i)
    BY <2>7, Zenon DEF Round
  <2>9. \A i \in 0..n : h(i) = Round(p, g, i)
    <3> TAKE i \in 0..n
    <3>1. CASE i = n
      BY <2>8, <3>1, Zenon
    <3>2. CASE i # n
      BY <2>4, <2>5, <2>8, <3>2, Zenon
    <3> QED BY <3>1, <3>2
  <2>10. g = Rounds(p, g, n)
    BY <2>9, Zenon DEF Rounds, g
  <2> QED BY <2>2, <2>10
<1>3. MaxEntries \in T
  <2> HIDE DEF T
  <2>1. 0..MaxEntries \subseteq T
    BY <1>1, <1>2, InductionUpTo, FlowTableAssumption
  <2> QED BY <2>1, FlowTableAssumption
<1>4. \E f : f = Rounds(p, f, MaxEntries)
  BY <1>3, Zenon
<1>5. Found(p) = CHOOSE f : f = Rounds(p, f, MaxEntries)
  BY Zenon DEF Found, Rounds, Round
<1> QED BY <1>4, <1>5, Zenon
-----------------------------------------------------------------------------
(* What the loop has found after n rounds.                                 *)

Hit(p, i) == i \in Active /\ MatchPacket(entries[i].match, p)
ExactHit(p, i) == Hit(p, i) /\ Exact(entries[i].match)

Finds == [entry : 0..MaxEntries, priority : UInt16, exact : BOOLEAN]

(* An exact match ends the search at the first; until then, the last of    *)
(* the matching entries with the highest priority.                         *)
FoundFirst(p, f, n) ==
    /\ ExactHit(p, f.entry)
    /\ \A j \in 1..n : ExactHit(p, j) => f.entry <= j
FoundBest(p, f, n) ==
    /\ Hit(p, f.entry) /\ f.priority = entries[f.entry].priority
    /\ \A j \in 1..n : Hit(p, j) =>
          /\ entries[j].priority <= f.priority
          /\ entries[j].priority = f.priority => j <= f.entry
AfterRounds(p, f, n) ==
    /\ f \in Finds /\ f.entry <= n
    /\ f.exact => FoundFirst(p, f, n)
    /\ ~f.exact => /\ \A j \in 1..n : ~ExactHit(p, j)
                   /\ \/ /\ f.entry = 0 /\ f.priority = 0
                         /\ \A j \in 1..n : ~Hit(p, j)
                      \/ f.entry # 0 /\ FoundBest(p, f, n)

LEMMA NextRound ==
    ASSUME TypeOK, NEW p \in Packets, NEW f, NEW n \in Slots,
           AfterRounds(p, f, n - 1)
    PROVE  AfterRounds(p, Examine(p, f, n), n)
<1> DEFINE e == entries[n]
           g == Examine(p, f, n)
<1>1. n \in Int /\ 1 <= n /\ n <= MaxEntries /\ MaxEntries \in Int
  BY FlowTableAssumption DEF Slots
<1>2. /\ f \in Finds /\ f.entry \in Int /\ 0 <= f.entry /\ f.entry <= n - 1
      /\ f.priority \in Int /\ 0 <= f.priority
  <2>1. f \in Finds /\ f.entry <= n - 1
    BY DEF AfterRounds
  <2> QED BY <2>1 DEF Finds, UInt16
<1>3. \A j \in 1..n : j \in 1..(n - 1) \/ j = n
  BY <1>1
<1>4. \A j \in 1..(n - 1) : j \in Int /\ j < n
  BY <1>1
<1>5. CASE f.exact \/ ~Hit(p, n)
  <2>1. g = f
    BY <1>5, Zenon DEF Examine, Hit
  <2>2. CASE f.exact
    <3>1. FoundFirst(p, f, n - 1)
      BY <2>2 DEF AfterRounds
    <3>2. FoundFirst(p, f, n)
      BY <1>1, <1>2, <1>3, <3>1 DEF FoundFirst
    <3> QED BY <1>1, <1>2, <2>1, <2>2, <3>2 DEF AfterRounds
  <2>3. CASE ~f.exact
    <3>1. ~Hit(p, n) /\ ~ExactHit(p, n)
      BY <1>5, <2>3 DEF ExactHit
    <3>2. \A j \in 1..n : ~ExactHit(p, j)
      BY <1>3, <2>3, <3>1 DEF AfterRounds
    <3>3. CASE /\ f.entry = 0 /\ f.priority = 0
               /\ \A j \in 1..(n - 1) : ~Hit(p, j)
      <4>1. \A j \in 1..n : ~Hit(p, j)
        BY <1>3, <3>1, <3>3, Zenon
      <4> QED BY <1>1, <1>2, <2>1, <2>3, <3>2, <3>3, <4>1 DEF AfterRounds
    <3>4. CASE f.entry # 0 /\ FoundBest(p, f, n - 1)
      <4>1. FoundBest(p, f, n)
        BY <1>3, <3>1, <3>4, Zenon DEF FoundBest
      <4> QED BY <1>1, <1>2, <2>1, <2>3, <3>2, <3>4, <4>1 DEF AfterRounds
    <3> QED BY <2>3, <3>3, <3>4, Zenon DEF AfterRounds
  <2> QED BY <2>2, <2>3
<1>6. CASE ~f.exact /\ Hit(p, n)
  <2>1. e \in Entries /\ e.priority \in UInt16 /\ e.priority \in Int /\ 0 <= e.priority
    <3>1. e \in Entries
      BY <1>6 DEF Hit, Active, TypeOK
    <3>2. e.priority \in UInt16
      BY <3>1 DEF Entries
    <3> QED BY <3>1, <3>2 DEF UInt16
  <2>2. \A j \in 1..(n - 1) : ~ExactHit(p, j)
    BY <1>6 DEF AfterRounds
  <2>3. n \in 0..MaxEntries
    BY <1>1
  <2>4. CASE Exact(e.match)
    <3>1. g = [f EXCEPT !.entry = n, !.exact = TRUE]
      BY <1>6, <2>4, Zenon DEF Examine, Hit
    <3>2. g \in Finds /\ g.entry = n /\ g.exact
      BY <1>2, <2>3, <3>1 DEF Finds
    <3>3. ExactHit(p, n)
      BY <1>6, <2>4, Zenon DEF ExactHit
    <3>4. \A j \in 1..n : ExactHit(p, j) => n <= j
      BY <1>1, <1>3, <2>2
    <3> HIDE DEF g
    <3>5. FoundFirst(p, g, n)
      BY <3>2, <3>3, <3>4, Zenon DEF FoundFirst
    <3>6. g.entry <= n
      BY <1>1, <3>2
    <3>7. AfterRounds(p, g, n)
      BY <3>2, <3>5, <3>6, Zenon DEF AfterRounds
    <3> QED BY <3>7 DEF g
  <2>5. CASE ~Exact(e.match)
    <3>1. g = IF e.priority >= f.priority
              THEN [f EXCEPT !.entry = n, !.priority = e.priority] ELSE f
      BY <1>6, <2>5, Zenon DEF Examine, Hit
    <3>2. \A j \in 1..n : ~ExactHit(p, j)
      BY <1>3, <2>2, <2>5, Zenon DEF ExactHit
    <3>3. \/ f.entry = 0 /\ f.priority = 0 /\ \A j \in 1..(n - 1) : ~Hit(p, j)
          \/ f.entry # 0 /\ FoundBest(p, f, n - 1)
      BY <1>6, Zenon DEF AfterRounds
    <3>4. CASE e.priority >= f.priority
      <4>1. g = [f EXCEPT !.entry = n, !.priority = e.priority]
        BY <3>1, <3>4, Zenon
      <4>2. /\ g \in Finds /\ g.entry = n /\ g.priority = e.priority
            /\ ~g.exact
        BY <1>2, <1>6, <2>1, <2>3, <4>1 DEF Finds
      <4>3. ASSUME NEW j \in 1..n, Hit(p, j)
            PROVE  entries[j].priority <= e.priority /\ j <= n
        <5>1. CASE j = n
          BY <1>1, <2>1, <5>1
        <5>2. CASE j \in 1..(n - 1)
          <6>1. FoundBest(p, f, n - 1)
            BY <3>3, <4>3, <5>2, Zenon
          <6>2. entries[j].priority <= f.priority
            BY <4>3, <5>2, <6>1, Zenon DEF FoundBest
          <6>3. entries[j] \in Entries
            BY <4>3 DEF Hit, Active, TypeOK
          <6>4. entries[j].priority \in Int
            BY <6>3 DEF Entries, UInt16
          <6> QED BY ONLY <1>1, <1>2, <1>4, <2>1, <3>4, <5>2, <6>2, <6>4
        <5> QED BY <1>3, <5>1, <5>2, Zenon
      <4> HIDE DEF g
      <4>4. FoundBest(p, g, n)
        BY <1>6, <4>2, <4>3, Zenon DEF FoundBest
      <4>5. g.entry <= n /\ g.entry # 0
        BY <1>1, <4>2
      <4>6. AfterRounds(p, g, n)
        BY <3>2, <4>2, <4>4, <4>5, Zenon DEF AfterRounds
      <4> QED BY <4>6 DEF g
    <3>5. CASE ~(e.priority >= f.priority)
      <4>1. g = f
        BY <3>1, <3>5, Zenon
      <4>2. f.entry # 0 /\ FoundBest(p, f, n - 1)
        BY <1>2, <2>1, <3>3, <3>5
      <4>3. e.priority <= f.priority /\ e.priority # f.priority
        BY <1>2, <2>1, <3>5
      <4> HIDE DEF g
      <4>4. FoundBest(p, f, n)
        BY <1>3, <4>2, <4>3, Zenon DEF FoundBest
      <4>5. f.entry <= n
        BY <1>1, <1>2
      <4>6. AfterRounds(p, g, n)
        BY <1>2, <1>6, <3>2, <4>1, <4>2, <4>4, <4>5, Zenon DEF AfterRounds
      <4> QED BY <4>6 DEF g
    <3> QED BY <3>4, <3>5
  <2> QED BY <2>4, <2>5
<1> QED BY <1>5, <1>6

LEMMA LoopFinds ==
    ASSUME TypeOK, NEW p \in Packets
    PROVE  AfterRounds(p, Found(p)[MaxEntries], MaxEntries)
<1> DEFINE T == {n \in 0..MaxEntries : AfterRounds(p, Found(p)[n], n)}
<1>1. MaxEntries \in Nat /\ 0 \in 0..MaxEntries /\ MaxEntries \in 0..MaxEntries
  BY FlowTableAssumption
<1>2. \A n \in 0..MaxEntries : Found(p)[n] = Round(p, Found(p), n)
  BY FoundDef, Zenon DEF Rounds
<1>3. 0 \in T
  <2>1. Found(p)[0] = NothingFound
    BY <1>1, <1>2, Zenon DEF Round
  <2>2. NothingFound \in Finds /\ NothingFound.entry = 0
        /\ NothingFound.priority = 0 /\ ~NothingFound.exact
    BY <1>1 DEF NothingFound, Finds, UInt16, MaxUInt16
  <2>3. \A j \in 1..0 : FALSE
    OBVIOUS
  <2>4. AfterRounds(p, NothingFound, 0)
    BY <2>2, <2>3 DEF AfterRounds
  <2> QED BY <1>1, <2>1, <2>4
<1>4. ASSUME NEW n \in 1..MaxEntries, n - 1 \in T PROVE n \in T
  <2>1. n \in 0..MaxEntries /\ n # 0 /\ n \in Slots
    BY DEF Slots
  <2>2. AfterRounds(p, Found(p)[n - 1], n - 1)
    BY <1>4
  <2>3. Found(p)[n] = Examine(p, Found(p)[n - 1], n)
    BY <1>2, <2>1, Zenon DEF Round
  <2>4. AfterRounds(p, Examine(p, Found(p)[n - 1], n), n)
    BY <2>1, <2>2, NextRound
  <2> QED BY <2>1, <2>3, <2>4
<1> HIDE DEF T
<1>5. 0..MaxEntries \subseteq T
  BY <1>1, <1>3, <1>4, InductionUpTo
<1> QED BY <1>1, <1>5 DEF T

LEMMA Picks == TypeOK => LookupPicks
<1> SUFFICES ASSUME TypeOK, NEW p \in Packets
             PROVE  LET hits == {i \in Active : MatchPacket(entries[i].match, p)}
                        exact == {i \in hits : Exact(entries[i].match)}
                        best == {i \in hits : \A j \in hits :
                                    entries[j].priority <= entries[i].priority}
                        i == EntryForPacket(p)
                    IN /\ i = 0 <=> hits = {}
                       /\ exact # {} => i \in Lowest(exact)
                       /\ exact = {} /\ hits # {} => i \in best /\ \A j \in best : j <= i
  BY DEF LookupPicks
<1> DEFINE f == Found(p)[MaxEntries]
           hits == {i \in Active : MatchPacket(entries[i].match, p)}
           exact == {i \in hits : Exact(entries[i].match)}
           best == {i \in hits : \A j \in hits :
                       entries[j].priority <= entries[i].priority}
           picked(i) == /\ i = 0 <=> hits = {}
                        /\ exact # {} => i \in Lowest(exact)
                        /\ exact = {} /\ hits # {}
                           => i \in best /\ \A j \in best : j <= i
<1> SUFFICES picked(EntryForPacket(p))
  OBVIOUS
<1>1. AfterRounds(p, f, MaxEntries)
  BY LoopFinds
<1>2. EntryForPacket(p) = f.entry
  BY DEF EntryForPacket
<1>3. \A i : (i \in hits <=> Hit(p, i)) /\ (i \in exact <=> ExactHit(p, i))
  BY DEF Hit, ExactHit
<1>4. \A i : Hit(p, i) => i \in 1..MaxEntries /\ entries[i].priority \in Int
  <2> SUFFICES ASSUME NEW i, Hit(p, i) 
               PROVE  i \in 1..MaxEntries /\ entries[i].priority \in Int
    OBVIOUS
  <2>1. i \in Slots /\ entries[i] \in Entries
    BY DEF Hit, Active, TypeOK
  <2> QED BY <2>1 DEF Slots, Entries, UInt16
<1>5. \A i : ExactHit(p, i) => Hit(p, i)
  BY DEF ExactHit
<1>6. MaxEntries \in Nat /\ ~(0 \in 1..MaxEntries)
  BY FlowTableAssumption
<1>9. SUFFICES picked(f.entry)
  BY <1>2, Zenon
<1> HIDE DEF f, hits, exact
<1>7. CASE f.exact
  <2>1. ExactHit(p, f.entry) /\ \A j \in 1..MaxEntries : ExactHit(p, j) => f.entry <= j
    BY <1>1, <1>7, Zenon DEF AfterRounds, FoundFirst
  <2>2. f.entry # 0 /\ f.entry \in exact /\ exact # {} /\ hits # {}
    BY <1>3, <1>4, <1>5, <1>6, <2>1, Zenon
  <2>3. f.entry \in Lowest(exact)
    BY <1>3, <1>4, <1>5, <2>1, <2>2, Zenon DEF Lowest
  <2> QED BY <2>2, <2>3
<1>8. CASE ~f.exact
  <2>1. \A j \in 1..MaxEntries : ~ExactHit(p, j)
    BY <1>1, <1>8, Zenon DEF AfterRounds
  <2>2. exact = {}
    BY <1>3, <1>4, <1>5, <2>1, Zenon
  <2>3. CASE f.entry = 0 /\ \A j \in 1..MaxEntries : ~Hit(p, j)
    <3>1. hits = {}
      BY <1>3, <1>4, <2>3, Zenon
    <3> QED BY <2>2, <2>3, <3>1
  <2>4. CASE f.entry # 0 /\ FoundBest(p, f, MaxEntries)
    <3>1. /\ Hit(p, f.entry) /\ f.priority = entries[f.entry].priority
          /\ \A j \in 1..MaxEntries : Hit(p, j) =>
                /\ entries[j].priority <= f.priority
                /\ entries[j].priority = f.priority => j <= f.entry
      BY <2>4, Zenon DEF FoundBest
    <3>2. f.entry \in hits /\ hits # {}
      BY <1>3, <3>1, Zenon
    <3>3. \A j \in hits : /\ entries[j].priority <= entries[f.entry].priority
                          /\ entries[j].priority = entries[f.entry].priority
                             => j <= f.entry
      BY <1>3, <1>4, <3>1, Zenon
    <3>4. \A j \in hits : entries[j].priority \in Int
      BY <1>3, <1>4, Zenon
    <3>5. ASSUME NEW j \in best PROVE j <= f.entry
      <4>1. entries[j].priority = entries[f.entry].priority
        BY <3>2, <3>3, <3>4
      <4> QED BY <3>3, <4>1
    <3>6. f.entry \in best
      BY <3>2, <3>3
    <3> HIDE DEF best
    <3> QED BY <2>2, <2>4, <3>2, <3>5, <3>6
  <2> QED BY <1>1, <1>8, <2>3, <2>4, Zenon DEF AfterRounds
<1> QED BY <1>7, <1>8

(* The loop of openflow_flowtable_get_entry_for_packet finds the first     *)
(* exact match, else the last of the matching entries with the highest     *)
(* stored priority, and nothing only where nothing matches, for any packet *)
(* and a table of any size the controller can fill.                        *)
THEOREM LookupCorrect == Spec => []LookupPicks
BY TypeCorrect, Picks, PTL
-----------------------------------------------------------------------------
(* The flow to the normal routing.                                         *)

(* The controller adds and modifies no flow for every packet with the      *)
(* lowest priority: only the router does.                                  *)
Fills == {"ADD", "MODIFY", "MODIFY_STRICT"}
OnlyOurs ==
    \A fm \in FlowMods :
        fm.command \in Fills /\ fm.match = DefaultFlow.match => fm.priority # 0

(* An entry that looks like the router's own flow is in its place.         *)
Ours(e) == e.match = DefaultFlow.match /\ e.priority = 0
OursFirst == \A i \in Active : Ours(entries[i]) => i = 1

LEMMA NetworkOrderZero ==
    ASSUME NEW p \in UInt16 PROVE NetworkOrder(p) = 0 <=> p = 0
<1>1. p \in Int /\ 0 <= p
  BY DEF UInt16
<1>2. p % 256 \in Int /\ 0 <= p % 256 /\ p \div 256 \in Int /\ 0 <= p \div 256
  BY ONLY <1>1
<1>3. PICK low \in Int : low = p % 256
  BY ONLY <1>2
<1>4. PICK high \in Int : high = p \div 256
  BY ONLY <1>2
<1>5. NetworkOrder(p) = low * 256 + high
  BY <1>3, <1>4, Zenon DEF NetworkOrder
<1>6. 0 <= low /\ 0 <= high
  BY ONLY <1>2, <1>3, <1>4
<1>7. p = 256 * high + low
  BY ONLY <1>1, <1>3, <1>4
<1>8. low * 256 + high = 0 <=> p = 0
  BY ONLY <1>1, <1>3, <1>4, <1>6, <1>7
<1> QED BY <1>5, <1>8, Zenon

(* Writing flows of the controller does not make one.                      *)
LEMMA ModifyOurs ==
    ASSUME OnlyOurs, OursFirst, NEW fm \in FlowMods, fm.command \in Fills,
           NEW S \in SUBSET Slots, NEW table,
           \A i \in Slots : table[i] # Empty => table[i] = entries[i],
           ModifyEntries(fm, S, table)
    PROVE  OursFirst'
<1>1. ~Ours(EntryOf(fm))
  <2>1. EntryOf(fm).match = fm.match
        /\ EntryOf(fm).priority = NetworkOrder(fm.priority)
    BY DEF EntryOf
  <2>2. fm.priority \in UInt16
    BY FlowModFacts DEF FlowModType
  <2> QED BY <2>1, <2>2, NetworkOrderZero, Zenon DEF Ours, OnlyOurs
<1>2. ASSUME NEW i \in Active', Ours(entries'[i]) PROVE i = 1
  <2>1. i \in Slots /\ entries'[i] # Empty
    BY DEF Active
  <2>2. entries'[i] = table[i] \/ entries'[i] = EntryOf(fm)
    BY <2>1 DEF ModifyEntries
  <2>3. entries'[i] = entries[i]
    BY <1>1, <1>2, <2>1, <2>2, Zenon
  <2>4. i \in Active
    BY <2>1, <2>3, Zenon DEF Active
  <2> QED BY <1>2, <2>3, <2>4, Zenon DEF OursFirst
<1> QED BY <1>2 DEF OursFirst

(* Nor does a step that writes ages or empties entries.                    *)
LEMMA OthersOurs ==
    ASSUME OursFirst,
           \A i \in Active' : /\ i \in Active
                              /\ entries'[i].match = entries[i].match
                              /\ entries'[i].priority = entries[i].priority
    PROVE  OursFirst'
BY DEF OursFirst, Ours

LEMMA DeleteOurs ==
    ASSUME OursFirst, NEW S, NEW reason, DeleteEntries(S, reason)
    PROVE  OursFirst'
<1>1. \A i \in Active' : i \in Active /\ entries'[i] = entries[i]
  BY DEF DeleteEntries, Active
<1> QED BY <1>1, OthersOurs

LEMMA AddOurs ==
    ASSUME OnlyOurs, OursFirst, TypeOK,
           NEW fm \in FlowMods, fm.command \in Fills, Add(fm)
    PROVE  OursFirst'
<1>1. CASE Reject
  BY <1>1 DEF Reject, OursFirst, Active
<1>2. ASSUME NEW i \in Slots, ModifyEntries(fm, {i}, [entries EXCEPT ![i] = Empty])
      PROVE  OursFirst'
  <2>1. \A k \in Slots : [entries EXCEPT ![i] = Empty][k] # Empty
                         => [entries EXCEPT ![i] = Empty][k] = entries[k]
    BY DEF TypeOK
  <2> QED BY <1>2, <2>1, ModifyOurs
<1>3. ASSUME NEW i \in Slots, ModifyEntries(fm, {i}, entries)
      PROVE  OursFirst'
  BY <1>3, ModifyOurs
<1> QED BY <1>1, <1>2, <1>3 DEF Add, Lowest, IdenticalEntries, Active

LEMMA RecvOurs ==
    ASSUME OnlyOurs, OursFirst, TypeOK, NEW fm \in FlowMods, RecvFlowMod(fm)
    PROVE  OursFirst'
<1>1. CASE fm.command \in Fills /\ Add(fm)
  BY <1>1, AddOurs
<1>2. ASSUME fm.command \in Fills, NEW S \in SUBSET Slots,
             ModifyEntries(fm, S, entries)
      PROVE  OursFirst'
  BY <1>2, ModifyOurs
<1>3. CASE fm.command \in Fills /\ Edit(fm)
  <2>1. MatchingEntries(fm.match, NoPort) \in SUBSET Slots
    BY DEF MatchingEntries, Active
  <2> QED BY <1>1, <1>2, <1>3, <2>1 DEF Edit
<1>4. CASE fm.command \in Fills /\ EditStrict(fm)
  <2>1. \A k \in Lowest(IdenticalEntries(fm)) : {k} \in SUBSET Slots
    BY DEF Lowest, IdenticalEntries, Active
  <2> QED BY <1>1, <1>2, <1>4, <2>1 DEF EditStrict
<1>5. CASE Delete(fm) \/ DeleteStrict(fm)
  BY <1>5, DeleteOurs DEF Delete, DeleteStrict
<1>6. CASE Reject
  BY <1>6 DEF Reject, OursFirst, Active
<1> QED BY <1>1, <1>3, <1>4, <1>5, <1>6 DEF RecvFlowMod, Fills

LEMMA AgesOurs ==
    ASSUME OursFirst, TypeOK, (\E p \in Packets : Lookup(p)) \/ Tick
    PROVE  OursFirst'
<1>1. Active' = Active
  BY AgesType
<1>2. ASSUME NEW i \in Active
      PROVE  entries'[i].match = entries[i].match
             /\ entries'[i].priority = entries[i].priority
  <2>1. i \in Slots /\ entries[i] \in Entries
    BY DEF Active, TypeOK
  <2>2. \/ entries'[i] = entries[i]
        \/ entries'[i] = [entries[i] EXCEPT !.unmatched = 0]
        \/ entries'[i] = [entries[i] EXCEPT !.unmatched = Older(@),
                                            !.unmodified = Older(@)]
    BY <2>1 DEF Lookup, Tick
  <2> QED BY <2>1, <2>2 DEF Entries
<1> QED BY <1>1, <1>2, OthersOurs

LEMMA Fallback == LookupPicks /\ OursFirst /\ TypeOK => NormalIsFallback
<1> SUFFICES ASSUME LookupPicks, OursFirst, TypeOK,
                    NEW p \in Packets, NEW i \in Active, EntryForPacket(p) = i,
                    entries[i].match = DefaultFlow.match,
                    entries[i].priority = NetworkOrder(DefaultFlow.priority),
                    NEW j \in Active, MatchPacket(entries[j].match, p)
             PROVE  j = i
  BY Zenon DEF NormalIsFallback
<1> DEFINE hits == {k \in Active : MatchPacket(entries[k].match, p)}
           exact == {k \in hits : Exact(entries[k].match)}
           best == {k \in hits : \A l \in hits :
                       entries[l].priority <= entries[k].priority}
<1>1. /\ exact # {} => i \in Lowest(exact)
      /\ exact = {} /\ hits # {} => i \in best /\ \A k \in best : k <= i
  BY Zenon DEF LookupPicks
<1>2. ~Exact(entries[i].match)
  BY DEF DefaultFlow, Exact
<1>3. exact = {}
  BY <1>1, <1>2 DEF Lowest
<1>4. j \in hits
  OBVIOUS
<1>5. entries[i].priority = 0 /\ i = 1
  <2>1. DefaultFlow.priority = 0 /\ 0 \in UInt16
    BY DEF DefaultFlow, UInt16, MaxUInt16
  <2>2. entries[i].priority = 0
    BY <2>1, NetworkOrderZero
  <2> QED BY <2>2, Zenon DEF OursFirst, Ours
<1>6. i \in best /\ \A k \in best : k <= i
  BY <1>1, <1>3, <1>4, Zenon
<1>7. \A k \in hits : entries[k].priority = 0
  <2>1. \A k \in hits : entries[k].priority <= 0
    BY <1>5, <1>6
  <2>2. \A k \in hits : entries[k] \in Entries
    BY DEF Active, TypeOK
  <2> QED BY <2>1, <2>2 DEF Entries, UInt16
<1>8. j \in best
  BY <1>4, <1>7
<1>9. j \in Int /\ 1 <= j
  BY FlowTableAssumption DEF Active, Slots
<1> QED BY <1>5, <1>6, <1>8, <1>9

(* The router's own flow, set up by openflow_flowtable_set_defaults, hands *)
(* a packet to the normal routing only when no other flow matches it, if   *)
(* the controller itself adds no flow for all packets of priority 0: its   *)
(* place in the table settles the ties with other flows of priority 0.     *)
THEOREM FallbackCorrect == ASSUME OnlyOurs PROVE Spec => []NormalIsFallback
<1>1. Init => OursFirst
  BY DEF Init, OursFirst, Active
<1>2. TypeOK /\ OursFirst /\ [Next]_vars => OursFirst'
  <2> SUFFICES ASSUME TypeOK, OursFirst, [Next]_vars PROVE OursFirst'
    OBVIOUS
  <2>1. CASE \E fm \in FlowMods : RecvFlowMod(fm)
    BY <2>1, RecvOurs
  <2>2. CASE (\E p \in Packets : Lookup(p)) \/ Tick
    BY <2>2, AgesOurs
  <2>3. CASE TimeoutScan
    BY <2>3, DeleteOurs DEF TimeoutScan
  <2>4. CASE ConnChange \/ UNCHANGED vars
    BY <2>4 DEF ConnChange, vars, OursFirst, Active
  <2> QED BY <2>1, <2>2, <2>3, <2>4 DEF Next
<1> QED BY <1>1, <1>2, Picks, Fallback, TypeCorrect, PTL DEF Spec
=============================================================================
