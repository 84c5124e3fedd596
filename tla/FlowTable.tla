------------------------------ MODULE FlowTable ------------------------------
(***************************************************************************)
(* The OpenFlow flow table (openflow_flowtable.c): the controller's flow   *)
(* modifications, the lookups of the OpenFlow packet processor and the     *)
(* scans of the timeout thread.  Each holds flowtable_mutex from beginning *)
(* to end, so each is one step.                                            *)
(*                                                                         *)
(* A match has three fields: in_port stands for the fields every packet    *)
(* has (addresses, VLAN), dl_type for itself, and nw_proto for those that  *)
(* count only under some frame types.  Priorities are the 16 bits the      *)
(* controller means; the table keeps and compares them as they came from   *)
(* the network, on a little-endian host.  Ages stand for the differences   *)
(* between time() and the entry's time stamps.  The counters of packets,   *)
(* bytes and lookups are left out.                                         *)
(***************************************************************************)
EXTENDS Integers, FiniteSets

CONSTANTS MaxEntries,            (* OPENFLOW_MAX_FLOWTABLE_ENTRIES          *)
          Ports, DlTypes, Protos,
          L3Types,               (* the frame types whose nw_proto counts   *)
          Any,                   (* a wildcarded field                      *)
          FlowMods,              (* the modifications the controller sends  *)
          MaxTimeout,            (* bound on the timeouts, in seconds       *)
          MaxCount,              (* bound on active_count                   *)
          Empty, NoPort

Slots == 1..MaxEntries
Packets == [in_port : Ports, dl_type : DlTypes, nw_proto : Protos]
Matches == [in_port : Ports \cup {Any}, dl_type : DlTypes \cup {Any},
            nw_proto : Protos \cup {Any}]
Flags == {"SEND_FLOW_REM", "CHECK_OVERLAP"}
Timeouts == 0..MaxTimeout          (* 0 is OFP_FLOW_PERMANENT                *)
Ages == 0..(MaxTimeout + 1)
MaxUInt16 == 65535
UInt16 == 0..MaxUInt16
Commands == {"ADD", "MODIFY", "MODIFY_STRICT", "DELETE", "DELETE_STRICT"}
Reasons == {"IDLE_TIMEOUT", "HARD_TIMEOUT", "DELETE"}

(* A flow_mod.  outs are the switch's ports among those of its output      *)
(* actions; an "invalid" one has an action list that the table refuses.    *)
FlowModType == [command : Commands \cup {"unknown"}, match : Matches,
                priority : UInt16, flags : SUBSET Flags,
                idle_timeout : Timeouts, hard_timeout : Timeouts,
                outs : SUBSET Ports, invalid : BOOLEAN,
                out_port : Ports \cup {NoPort}]

Entries == [match : Matches, priority : UInt16, flags : SUBSET Flags,
            idle_timeout : Timeouts, hard_timeout : Timeouts,
            outs : SUBSET Ports,
            unmatched : Ages,      (* seconds since last_matched             *)
            unmodified : Ages]     (* seconds since last_modified            *)

Removals == [match : Matches, priority : UInt16, reason : Reasons]

ASSUME FlowTableAssumption ==
    /\ MaxEntries \in Nat \ {0} /\ MaxTimeout \in Nat /\ MaxCount \in Nat
    /\ L3Types \subseteq DlTypes
    /\ Any \notin Ports \cup DlTypes \cup Protos /\ NoPort \notin Ports
    /\ FlowMods \subseteq FlowModType
    /\ Empty \notin Entries

VARIABLES
    entries,       (* flowtable->entries; Empty is an entry not active       *)
    active_count,  (* flowtable->stats.active_count                          *)
    conn,          (* whether the connection to the controller is up         *)
    refused,       (* history: whether the last step was a flow_mod that     *)
                   (* ended in an error                                      *)
    sent           (* history: the flow removed messages it sent             *)

vars == <<entries, active_count, conn, refused, sent>>
-----------------------------------------------------------------------------
(* Matching.                                                               *)

(* openflow_flowtable_match_packet: the packet has every field the match   *)
(* asks for.                                                               *)
MatchPacket(m, p) ==
    /\ m.in_port \in {Any, p.in_port}
    /\ m.dl_type \in {Any, p.dl_type}
    /\ m.dl_type \in L3Types => m.nw_proto \in {Any, p.nw_proto}

Overlapping_NoWildcards(m, e) == \A f \in {"in_port", "dl_type"} : m[f] = e[f]

(* openflow_flowtable_find_overlapping_entry: no field that both matches   *)
(* compare differs.  nw_proto is not among those compared: the test under  *)
(* the comment "IP protocol or ARP opcode" compares nw_tos again.          *)
Overlapping(m, e) ==
    \A f \in {"in_port", "dl_type"} :
        m[f] = Any \/ e[f] = Any \/ m[f] = e[f]

Matching_AnyProto(query, e) ==
    /\ query.in_port # Any => e.in_port = query.in_port
    /\ query.dl_type # Any => e.dl_type = query.dl_type

(* openflow_flowtable_find_matching_entry, its fields: the entry is        *)
(* identical to the query or more specific.                                *)
Matching(query, e) ==
    /\ query.in_port # Any => e.in_port = query.in_port
    /\ query.dl_type # Any => e.dl_type = query.dl_type
    /\ query.nw_proto # Any /\ query.dl_type \in L3Types
          => e.nw_proto = query.nw_proto

(* match->wildcards == 0                                                   *)
Exact(m) == \A f \in DOMAIN m : m[f] # Any

(* The two bytes of a priority, swapped: htons.                            *)
NetworkOrder_NoMask(p) == p * 256 + p \div 256
NetworkOrder(p) == (p % 256) * 256 + p \div 256

Active == {i \in Slots : entries[i] # Empty}

Lowest(S) == {i \in S : \A j \in S : i <= j}

MatchingEntries(query, out_port) ==
    {i \in Active : /\ out_port # NoPort => out_port \in entries[i].outs
                    /\ Matching(query, entries[i].match)}

IdenticalEntries(fm) ==
    {i \in Active : /\ entries[i].priority = NetworkOrder(fm.priority)
                    /\ entries[i].match = fm.match}

OverlappingEntries(fm) ==
    {i \in Active : /\ entries[i].priority = NetworkOrder(fm.priority)
                    /\ Overlapping(fm.match, entries[i].match)}

NothingFound == [entry |-> 0, priority |-> 0, exact |-> FALSE]

(* Mutant: of equal priorities the first stays.                            *)
Examine_FirstBest(p, f, i) ==
    LET e == entries[i] IN
    IF f.exact \/ i \notin Active \/ ~MatchPacket(e.match, p) THEN f
    ELSE IF Exact(e.match) THEN [f EXCEPT !.entry = i, !.exact = TRUE]
    ELSE IF e.priority > f.priority
         THEN [f EXCEPT !.entry = i, !.priority = e.priority]
         ELSE f

(* openflow_flowtable_get_entry_for_packet looks at the entries in turn,   *)
(* having found f before it comes to the i-th.  An exact match ends the    *)
(* loop; other matches replace the one found before if their priority is   *)
(* not lower.                                                              *)
Examine(p, f, i) ==
    LET e == entries[i] IN
    IF f.exact \/ i \notin Active \/ ~MatchPacket(e.match, p) THEN f
    ELSE IF Exact(e.match) THEN [f EXCEPT !.entry = i, !.exact = TRUE]
    ELSE IF e.priority >= f.priority
         THEN [f EXCEPT !.entry = i, !.priority = e.priority]
         ELSE f

Found(p) ==
    LET found[i \in 0..MaxEntries] ==
          IF i = 0 THEN NothingFound ELSE Examine(p, found[i - 1], i)
    IN found
EntryForPacket(p) == Found(p)[MaxEntries].entry
-----------------------------------------------------------------------------
(* The controller's flow modifications: openflow_flowtable_modify.         *)

(* The entry openflow_flowtable_modify_entry_at_index writes.              *)
EntryOf(fm) ==
    [match |-> fm.match, priority |-> NetworkOrder(fm.priority),
     flags |-> fm.flags, idle_timeout |-> fm.idle_timeout,
     hard_timeout |-> fm.hard_timeout, outs |-> fm.outs,
     unmatched |-> 0, unmodified |-> 0]

Reject == /\ refused' = TRUE
          /\ sent' = {}
          /\ UNCHANGED <<entries, active_count>>

(* openflow_flowtable_modify_entry_at_index on each slot of S, where the   *)
(* caller has left table[i] in slot i: the actions are checked first, and  *)
(* an invalid one leaves the slot as the caller made it.                   *)
ModifyEntries(fm, S, table) ==
    /\ entries' = IF fm.invalid THEN table
                  ELSE [i \in Slots |-> IF i \in S THEN EntryOf(fm) ELSE table[i]]
    /\ refused' = fm.invalid
    /\ sent' = {}

Add_Uncounted(fm) ==
    LET clash == "CHECK_OVERLAP" \in fm.flags /\ OverlappingEntries(fm) # {}
        same == IdenticalEntries(fm)
        free == Slots \ Active
    IN \/ clash /\ Reject
       \/ /\ ~clash
          /\ \E i \in Lowest(same) :
                ModifyEntries(fm, {i}, [entries EXCEPT ![i] = Empty])
          /\ UNCHANGED active_count
       \/ /\ ~clash /\ same = {}
          /\ active_count < MaxCount
          /\ \E i \in Lowest(free) : ModifyEntries(fm, {i}, entries)
          /\ UNCHANGED active_count
       \/ ~clash /\ same = {} /\ free = {} /\ Reject

(* openflow_flowtable_add: refuse an overlap if asked to; clear and        *)
(* rewrite the first identical entry; else count and write the first entry *)
(* not active, which already counts if its actions are then refused; else  *)
(* the table is full.                                                      *)
Add(fm) ==
    LET clash == "CHECK_OVERLAP" \in fm.flags /\ OverlappingEntries(fm) # {}
        same == IdenticalEntries(fm)
        free == Slots \ Active
    IN \/ clash /\ Reject
       \/ /\ ~clash
          /\ \E i \in Lowest(same) :
                ModifyEntries(fm, {i}, [entries EXCEPT ![i] = Empty])
          /\ UNCHANGED active_count
       \/ /\ ~clash /\ same = {}
          /\ active_count < MaxCount
          /\ \E i \in Lowest(free) : ModifyEntries(fm, {i}, entries)
          /\ active_count' = active_count + 1
       \/ ~clash /\ same = {} /\ free = {} /\ Reject

(* openflow_flowtable_edit: every matching entry becomes the one given,    *)
(* its match and its priority included; add if there is none.              *)
Edit(fm) ==
    LET matching == MatchingEntries(fm.match, NoPort)
    IN \/ matching = {} /\ Add(fm)
       \/ /\ matching # {}
          /\ ModifyEntries(fm, matching, entries)
          /\ UNCHANGED active_count

(* openflow_flowtable_edit_strict                                          *)
EditStrict(fm) ==
    \/ IdenticalEntries(fm) = {} /\ Add(fm)
    \/ /\ \E i \in Lowest(IdenticalEntries(fm)) :
             ModifyEntries(fm, {i}, entries)
       /\ UNCHANGED active_count

DeleteEntries_ClearFirst(S, reason) ==
    /\ sent' = {}
    /\ entries' = [i \in Slots |-> IF i \in S THEN Empty ELSE entries[i]]
    /\ active_count' = active_count - Cardinality(S)
    /\ refused' = FALSE

(* openflow_flowtable_delete_entry_at_index on each slot of S: the         *)
(* controller is told if the entry asks for it and it is connected.        *)
DeleteEntries(S, reason) ==
    /\ sent' = {[match |-> entries[i].match, priority |-> entries[i].priority,
                 reason |-> reason[i]] :
                i \in {k \in S : conn /\ "SEND_FLOW_REM" \in entries[k].flags}}
    /\ entries' = [i \in Slots |-> IF i \in S THEN Empty ELSE entries[i]]
    /\ active_count' = active_count - Cardinality(S)
    /\ refused' = FALSE

ByDelete == [i \in Slots |-> "DELETE"]

(* openflow_flowtable_delete and openflow_flowtable_delete_strict, which   *)
(* deletes the first identical entry.                                      *)
Delete(fm) == DeleteEntries(MatchingEntries(fm.match, fm.out_port), ByDelete)

DeleteStrict(fm) == DeleteEntries(Lowest(IdenticalEntries(fm)), ByDelete)

(* The controller connection receives a flow_mod.                          *)
RecvFlowMod(fm) ==
    /\ conn
    /\ \/ fm.command = "ADD" /\ Add(fm)
       \/ fm.command = "MODIFY" /\ Edit(fm)
       \/ fm.command = "MODIFY_STRICT" /\ EditStrict(fm)
       \/ fm.command = "DELETE" /\ Delete(fm)
       \/ fm.command = "DELETE_STRICT" /\ DeleteStrict(fm)
       \/ fm.command \notin Commands /\ Reject
    /\ UNCHANGED conn
-----------------------------------------------------------------------------
(* The packet processor, the timeout thread, the clock, the connection.    *)

(* The OpenFlow worker looks a packet up; the entry found was matched now. *)
Lookup(p) ==
    /\ entries' = [i \in Slots |-> IF i \in Active /\ i = EntryForPacket(p)
                                   THEN [entries[i] EXCEPT !.unmatched = 0]
                                   ELSE entries[i]]
    /\ refused' = FALSE /\ sent' = {}
    /\ UNCHANGED <<active_count, conn>>

IdleExpired(e) == e.idle_timeout # 0 /\ e.unmatched > e.idle_timeout
HardExpired_Unmatched(e) ==
    e.hard_timeout # 0 /\ e.unmatched > e.hard_timeout
HardExpired(e) == e.hard_timeout # 0 /\ e.unmodified > e.hard_timeout
ByTimeout == [i \in Slots |->
    IF IdleExpired(entries[i]) THEN "IDLE_TIMEOUT" ELSE "HARD_TIMEOUT"]

(* One pass of openflow_flowtable_timeout.                                 *)
TimeoutScan ==
    /\ DeleteEntries({i \in Active : \/ IdleExpired(entries[i])
                                     \/ HardExpired(entries[i])}, ByTimeout)
    /\ UNCHANGED conn

(* A second passes.                                                        *)
Older(age) == IF age > MaxTimeout THEN age ELSE age + 1
Tick ==
    /\ entries' = [i \in Slots |->
                     IF i \in Active
                     THEN [entries[i] EXCEPT !.unmatched = Older(@),
                                             !.unmodified = Older(@)]
                     ELSE Empty]
    /\ refused' = FALSE /\ sent' = {}
    /\ UNCHANGED <<active_count, conn>>

(* The connection comes up and goes down; the table stays.                 *)
ConnChange == /\ conn' = ~conn
              /\ refused' = FALSE /\ sent' = {}
              /\ UNCHANGED <<entries, active_count>>

DefaultFlow_Htons ==
    [command |-> "ADD", match |-> [in_port |-> Any, dl_type |-> Any,
                                   nw_proto |-> Any],
     priority |-> 1, flags |-> {}, idle_timeout |-> 0, hard_timeout |-> 0,
     outs |-> {}, invalid |-> FALSE, out_port |-> NoPort]

(* openflow_flowtable_set_defaults: the flow that sends every packet to    *)
(* the normal routing.  Its priority htonl(1) loses its upper half in a    *)
(* uint16_t.                                                               *)
DefaultFlow ==
    [command |-> "ADD", match |-> [in_port |-> Any, dl_type |-> Any,
                                   nw_proto |-> Any],
     priority |-> 0, flags |-> {}, idle_timeout |-> 0, hard_timeout |-> 0,
     outs |-> {}, invalid |-> FALSE, out_port |-> NoPort]

Init == /\ entries = [i \in Slots |-> IF i = 1 THEN EntryOf(DefaultFlow) ELSE Empty]
        /\ active_count = 1
        /\ conn = FALSE
        /\ refused = FALSE /\ sent = {}

Next == \/ \E fm \in FlowMods : RecvFlowMod(fm)
        \/ \E p \in Packets : Lookup(p)
        \/ TimeoutScan
        \/ Tick
        \/ ConnChange

Spec == Init /\ [][Next]_vars

(* The clock moves and the timeout thread runs once a second; nothing      *)
(* makes the controller or the network do anything.                        *)
FairSpec == Spec /\ WF_vars(Tick) /\ WF_vars(TimeoutScan)
-----------------------------------------------------------------------------
(* Properties.                                                             *)

TypeOK == /\ entries \in [Slots -> Entries \cup {Empty}]
          /\ active_count \in Int
          /\ conn \in BOOLEAN
          /\ refused \in BOOLEAN
          /\ sent \subseteq Removals

(* active_count, an unsigned number reported to the controller, is never   *)
(* less than the number of active entries, so that deleting them never     *)
(* takes it below zero: the count is written by two functions, the entries *)
(* by four.                                                                *)
CountCovers == Cardinality(Active) <= active_count

(* What the loop of openflow_flowtable_get_entry_for_packet finds, for any *)
(* packet and table: nothing only if nothing matches; an exact match if    *)
(* there is one; else, of the matching entries with the highest stored     *)
(* priority, the last.                                                     *)
LookupPicks ==
    \A p \in Packets :
        LET hits == {i \in Active : MatchPacket(entries[i].match, p)}
            exact == {i \in hits : Exact(entries[i].match)}
            best == {i \in hits : \A j \in hits :
                        entries[j].priority <= entries[i].priority}
            i == EntryForPacket(p)
        IN /\ i = 0 <=> hits = {}
           /\ exact # {} => i \in Lowest(exact)
           /\ exact = {} /\ hits # {} => i \in best /\ \A j \in best : j <= i

(* The router's own flow, which hands packets to the normal routing, is    *)
(* used only for packets no other flow matches, whatever was added or      *)
(* changed since: its priority 0 and its place before them keep it last.   *)
NormalIsFallback ==
    \A p \in Packets, i \in Active :
        /\ EntryForPacket(p) = i
        /\ entries[i].match = DefaultFlow.match
        /\ entries[i].priority = NetworkOrder(DefaultFlow.priority)
        => \A j \in Active : MatchPacket(entries[j].match, p) => j = i

(* An ADD with CHECK_OVERLAP that is accepted leaves no other entry of its *)
(* priority that a packet of the new flow also matches: the field by field *)
(* comparison of openflow_flowtable_find_overlapping_entry misses no pair. *)
AddedIsDisjoint ==
    \A i, j \in Slots :
        /\ i \in Active' \ Active /\ j \in Active' /\ i # j
        /\ "CHECK_OVERLAP" \in entries'[i].flags
        /\ entries'[j].priority = entries'[i].priority
        => \A p \in Packets : ~ /\ MatchPacket(entries'[i].match, p)
                                /\ MatchPacket(entries'[j].match, p)
CheckedAddIsDisjoint == [][AddedIsDisjoint]_vars

(* The flows a DELETE for any port removes are those all of whose packets  *)
(* the query matches: "identical to or more specific than" the query, in   *)
(* terms of packets rather than of fields.                                 *)
RemovesSubsumed ==
    \A fm \in FlowMods :
        conn /\ fm.command = "DELETE" /\ fm.out_port = NoPort /\ Delete(fm)
        => \A i \in Active :
              entries'[i] = Empty
              <=> \A p \in Packets : MatchPacket(entries[i].match, p)
                                     => MatchPacket(fm.match, p)
DeleteRemovesSubsumed == [][RemovesSubsumed]_vars

(* An entry with SEND_FLOW_REM that a step without error takes out of the  *)
(* table, by the controller or by a timeout, is reported while the         *)
(* controller is connected; and a timeout is reported only of an entry     *)
(* older than one of its timeouts.                                         *)
RemovalReported ==
    /\ \A i \in Active :
          /\ entries'[i] = Empty /\ ~refused' /\ conn
          /\ "SEND_FLOW_REM" \in entries[i].flags
          => \E m \in sent' : /\ m.match = entries[i].match
                              /\ m.priority = entries[i].priority
    /\ \A m \in sent' : m.reason # "DELETE" =>
          \E i \in Active :
             /\ entries[i].match = m.match /\ entries'[i] = Empty
             /\ IF m.reason = "IDLE_TIMEOUT" THEN IdleExpired(entries[i])
                ELSE HardExpired(entries[i]) /\ ~IdleExpired(entries[i])
RemovalsReported == [][RemovalReported]_vars

(* A flow with a hard timeout that the controller does not modify leaves   *)
(* the table, and so does one with an idle timeout that no packet matches. *)
TimedOutLeaves ==
    \A i \in Slots :
        /\ (/\ i \in Active /\ entries[i].hard_timeout # 0
            /\ entries[i].unmodified > 0)
           ~> (i \in Active => entries[i].unmodified = 0)
        /\ (/\ i \in Active /\ entries[i].idle_timeout # 0
            /\ entries[i].unmatched > 0)
           ~> (i \in Active => entries[i].unmatched = 0)

(* A flow_mod that is refused changes nothing: the errors of               *)
(* openflow_flowtable_modify_entry_at_index say "Not modifying entry",     *)
(* those of openflow_flowtable_add "Not adding to table".                  *)
RefusedChangesNothing ==
    [][refused' => UNCHANGED <<entries, active_count>>]_vars

(* Of the wildcard flows that match a packet, the one found has the        *)
(* highest priority, as the controller meant it.                           *)
HighestPriorityFound ==
    \A p \in Packets :
        LET i == EntryForPacket(p) IN
        i # 0 => (~Exact(entries[i].match) =>
            \A j \in Active : MatchPacket(entries[j].match, p) =>
                NetworkOrder(entries[j].priority) <= NetworkOrder(entries[i].priority))
=============================================================================
