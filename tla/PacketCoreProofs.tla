-------------------------- MODULE PacketCoreProofs --------------------------
(***************************************************************************)
(* Proofs about PacketCore, for any number of devices, classes, packets    *)
(* and queue slots: the types, that packetcnt covers the backlog, that     *)
(* neither the scheduler nor the worker sleeps on work, that no queue      *)
(* exceeds its size, that flows keep their order, and the round robin.     *)
(*                                                                         *)
(* The count is right because it counts a set: "counted" is the set of     *)
(* packets that packetcnt stands for, and every packet in the core is in   *)
(* it exactly once.  That takes the whole bookkeeping of who holds which   *)
(* packet into the inductive invariant.                                    *)
(***************************************************************************)
EXTENDS PacketCore, FiniteSetTheorems, TLAPS

Holding == {"tagged", "locked", "write"}

(* A device thread with a packet has one of its own, which is nowhere      *)
(* else, and which is counted once it is about to be written.              *)
DeviceInv == \A i \in Inputs :
    /\ pc[i] \in Holding => pkt[i] \in Packets /\ pkt[i].in = i
                            /\ pkt[i].id <= arrived /\ pkt[i] # got
    /\ pc[i] \in {"tagged", "locked"} => pkt[i] \notin counted
    /\ pc[i] = "write" => pkt[i] \in counted
    /\ pc[i] = "locked" => qlock = i

(* A queued packet is in the queue of its class, once, counted, and held   *)
(* by nobody.                                                              *)
QueueInv == \A n \in Names : \A k \in 1..Len(queue[n]) :
    /\ queue[n][k].cls = n
    /\ queue[n][k] \in counted
    /\ queue[n][k] # got
    /\ \A l \in 1..Len(queue[n]) : queue[n][l] = queue[n][k] => l = k
    /\ \A i \in Inputs : pc[i] = "write" => pkt[i] # queue[n][k]

(* The packet the scheduler has read is counted until it uncounts it.      *)
SchedInv == /\ got # NoPacket => got \in counted
            /\ sched = "deliver" => got # NoPacket
            /\ sched \notin {"deliver", "count"} => got = NoPacket

(* packetcnt counts the set "counted".                                     *)
CountInv == /\ IsFiniteSet(counted)
            /\ packetcnt = Cardinality(counted)
            /\ \A p \in counted : p.id <= arrived

SleepInv == sched = "waiting" /\ qlock # Dead => packetcnt = 0

(* The names the cache points to exist.                                    *)
CacheInv == \A j \in 1..Len(pcache) : pcache[j] <= Len(named)

IInv == /\ TypeOK /\ CacheInv
        /\ DeviceInv /\ QueueInv /\ SchedInv /\ CountInv /\ SleepInv
-----------------------------------------------------------------------------
(* What the steps leave alone: the parts of the invariant speak of these   *)
(* variables only.                                                         *)

(* Packets are told apart from NoPacket and from packets of other devices. *)
LEMMA PacketFacts ==
    ASSUME NEW p \in Packets
    PROVE  p # NoPacket /\ p.id \in 1..MaxPackets /\ p.in \in Inputs /\ p.cls \in Names
BY PacketCoreAssumption DEF Packets

(* Tags are classes.                                                       *)
LEMMA TagsAreNames == ASSUME ConfigTypeOK, CacheInv PROVE Tags \subseteq Names
BY ConfigAssumption DEF Tags, ConfigTypeOK, CacheInv, Ptrs

(* The queue commands keep the types of the configuration.                 *)
LEMMA AddKeepsConfig ==
    ASSUME ConfigTypeOK, CacheInv, NEW n \in Names, AddPktCoreQueue(n)
    PROVE  ConfigTypeOK' /\ CacheInv'
<1> USE DEF ConfigTypeOK, CacheInv, AddPktCoreQueue, InsertCnameCache, Ptrs
<1> USE ConfigAssumption
<1>1. named' \in Seq(Names) /\ Len(named') = Len(named) + 1
  OBVIOUS
<1>2. pcache' \in Seq(Ptrs) /\ \A j \in 1..Len(pcache') : pcache'[j] <= Len(named')
  OBVIOUS
<1> QED BY <1>1, <1>2

LEMMA DelKeepsConfig ==
    ASSUME ConfigTypeOK, CacheInv, NEW n \in Names, DelPktCoreQueue(n)
    PROVE  ConfigTypeOK' /\ CacheInv'
<1> USE DEF ConfigTypeOK, CacheInv, DelPktCoreQueue, DeleteCnameCache
<1>1. CASE UNCHANGED <<pcache, freed>>
  BY <1>1
<1>2. CASE \E j \in Hits(n) : /\ freed' = freed \cup {pcache[j]}
                              /\ pcache' = Shifted(pcache, j)
  <2>1. PICK j \in Hits(n) : /\ freed' = freed \cup {pcache[j]}
                             /\ pcache' = Shifted(pcache, j)
    BY <1>2
  <2>2. j \in 1..Len(pcache) /\ pcache[j] \in Ptrs
    BY DEF Hits
  <2>3. pcache' \in Seq(Ptrs) /\ Len(pcache') = Len(pcache) - 1
    <3>1. Len(pcache) - 1 \in Nat
      BY <2>2
    <3>2. \A k \in 1..(Len(pcache) - 1) :
             (IF k = j THEN pcache[j + 1] ELSE pcache[k]) \in Ptrs
      BY <2>2
    <3> QED BY <2>1, <3>1, <3>2 DEF Shifted
  <2>4. \A k \in 1..Len(pcache') : pcache'[k] <= Len(named')
    <3> SUFFICES ASSUME NEW k \in 1..Len(pcache') PROVE pcache'[k] <= Len(named')
      OBVIOUS
    <3>1. k \in 1..Len(pcache) /\ k + 1 \in 1..Len(pcache) /\ k \in 1..(Len(pcache) - 1)
      BY <2>2, <2>3
    <3>2. pcache'[k] = IF k = j THEN pcache[j + 1] ELSE pcache[k]
      BY <2>1, <3>1 DEF Shifted
    <3> QED BY <3>1, <3>2
  <2> QED BY <2>1, <2>2, <2>3, <2>4
<1> QED BY <1>1, <1>2
-----------------------------------------------------------------------------
(* The bookkeeping speaks of a few variables: a step that leaves them      *)
(* alone keeps it.                                                         *)
LEMMA BooksUnchanged ==
    ASSUME DeviceInv, QueueInv, CountInv,
           UNCHANGED <<queue, qlock, packetcnt, counted, pc, pkt, got, arrived>>
    PROVE  DeviceInv' /\ QueueInv' /\ CountInv'
BY DEF DeviceInv, QueueInv, CountInv, Holding

LEMMA ConfigUnchanged ==
    ASSUME ConfigTypeOK, CacheInv, UNCHANGED cvars
    PROVE  ConfigTypeOK' /\ CacheInv'
BY DEF ConfigTypeOK, CacheInv, cvars

LEMMA WorkerUnchanged ==
    ASSUME WorkQ!QTypeOK, UNCHANGED <<workQ, worker>>
    PROVE  WorkQ!QTypeOK'
BY DEF WorkQ!QTypeOK, WorkQ!ReaderState
-----------------------------------------------------------------------------
(* The device threads.                                                     *)

(* The new packet has a number no counted packet has.                      *)
LEMMA ReceiveKeeps == ASSUME IInv, NEW i \in Inputs, Receive(i) PROVE IInv'
<1> DEFINE p == pkt'[i]
<1> USE DEF IInv, Receive
<1>1. /\ p \in Packets /\ p.in = i /\ p.id = arrived + 1
      /\ \A j \in Inputs \ {i} : pkt'[j] = pkt[j] /\ pc'[j] = pc[j]
      /\ pc'[i] = "tagged"
  BY TagsAreNames, PacketCoreAssumption DEF TypeOK, Packets
<1>2. p \notin counted /\ p # got
  BY <1>1, PacketFacts DEF CountInv, SchedInv, TypeOK
<1>3. ConfigTypeOK' /\ CacheInv' /\ WorkQ!QTypeOK'
  BY ConfigUnchanged, WorkerUnchanged DEF TypeOK, wvars
<1>4. TypeOK'
  BY <1>1, <1>3, PacketCoreAssumption DEF TypeOK, svars, wvars, InputState
<1>5. DeviceInv'
  <2>1. arrived' = arrived + 1 /\ arrived \in Nat /\ \A q \in Packets : q.id \in Nat
    BY DEF TypeOK, Packets
  <2>2. UNCHANGED <<counted, qlock, got>>
    BY DEF svars
  <2>3. ASSUME NEW j \in Inputs \ {i}, pc'[j] \in Holding
        PROVE  pkt'[j].id <= arrived'
    BY <1>1, <2>1, <2>3 DEF DeviceInv
  <2> QED BY <1>1, <1>2, <2>1, <2>2, <2>3 DEF DeviceInv, Holding
<1>6. QueueInv'
  BY <1>1 DEF QueueInv, svars
<1>7. CountInv'
  BY DEF CountInv, TypeOK, Packets
<1>8. SchedInv' /\ SleepInv'
  BY DEF SchedInv, SleepInv, svars
<1> QED BY <1>3, <1>4, <1>5, <1>6, <1>7, <1>8

LEMMA LockKeeps == ASSUME IInv, NEW i \in Inputs, Lock(i) PROVE IInv'
<1> USE DEF IInv, Lock
<1>1. ConfigTypeOK' /\ CacheInv' /\ WorkQ!QTypeOK'
  BY ConfigUnchanged, WorkerUnchanged DEF TypeOK, wvars
<1>2. TypeOK'
  BY <1>1 DEF TypeOK, svars, wvars, InputState
<1>3. DeviceInv'
  BY PacketCoreAssumption DEF DeviceInv, Holding, svars, TypeOK
<1>4. QueueInv'
  BY DEF QueueInv, svars, TypeOK
<1>5. SchedInv' /\ CountInv' /\ SleepInv'
  BY PacketCoreAssumption DEF SchedInv, CountInv, SleepInv, svars
<1> QED BY <1>1, <1>2, <1>3, <1>4, <1>5

(* The thread that finishes holds nothing any more, nor the mutex.         *)
LEMMA DiscardKeeps == ASSUME IInv, NEW i \in Inputs, Discard(i) PROVE IInv'
<1> USE DEF IInv, Discard, Finish
<1>1. ConfigTypeOK' /\ CacheInv' /\ WorkQ!QTypeOK'
  BY ConfigUnchanged, WorkerUnchanged DEF TypeOK, wvars
<1>2. TypeOK'
  BY <1>1 DEF TypeOK, svars, wvars, InputState
<1>3. DeviceInv'
  BY PacketCoreAssumption DEF DeviceInv, Holding, svars, TypeOK
<1>4. QueueInv'
  BY DEF QueueInv, svars, TypeOK
<1>5. qlock # Dead
  BY PacketCoreAssumption DEF DeviceInv
<1>6. SchedInv' /\ CountInv' /\ SleepInv'
  BY <1>5 DEF SchedInv, CountInv, SleepInv, svars
<1> QED BY <1>1, <1>2, <1>3, <1>4, <1>6

(* The packet was not counted, so the count grows by one with the set; the *)
(* scheduler is signalled if the count was 0, and does not wait if it was  *)
(* not.                                                                    *)
LEMMA AcceptKeeps == ASSUME IInv, NEW i \in Inputs, Accept(i) PROVE IInv'
<1> USE DEF IInv, Accept
<1>1. /\ pkt[i] \in Packets /\ pkt[i] \notin counted /\ pkt[i].id <= arrived
      /\ pkt[i].in = i /\ pkt[i] # got /\ qlock = i
  BY DEF DeviceInv, Holding
<1>2. ConfigTypeOK' /\ CacheInv' /\ WorkQ!QTypeOK'
  BY ConfigUnchanged, WorkerUnchanged DEF TypeOK, wvars
<1>3. sched' \in {sched, "signalled"} /\ (sched' # sched => sched = "waiting")
  BY DEF SignalScheduler
<1>4. TypeOK'
  BY <1>1, <1>2, <1>3 DEF TypeOK, wvars, InputState, SchedState
<1>5. DeviceInv'
  BY <1>1 DEF DeviceInv, Holding, TypeOK
<1>6. QueueInv'
  BY <1>1 DEF QueueInv, TypeOK
<1>7. CountInv'
  BY <1>1, FS_AddElement DEF CountInv
<1>8. SchedInv'
  BY <1>3 DEF SchedInv
<1>9. SleepInv'
  BY <1>1, PacketCoreAssumption DEF SleepInv, SignalScheduler, TypeOK
<1> QED BY <1>2, <1>4, <1>5, <1>6, <1>7, <1>8, <1>9

(* The packet moves from its thread to the end of its queue, or is lost    *)
(* while counted.                                                          *)
LEMMA WrittenKeeps ==
    ASSUME TypeOK, QueueInv, NEW i \in Inputs, pc[i] = "write", DeviceInv,
           UNCHANGED <<counted, got>>, queue' \in {queue, Written(pkt[i])},
           pc' \in [Inputs -> InputState], pc'[i] # "write",
           \A j \in Inputs \ {i} : pc'[j] = pc[j] /\ pkt'[j] = pkt[j]
    PROVE  queue' \in [Names -> Seq(Packets)] /\ QueueInv'
<1> DEFINE p == pkt[i]
<1>1. \A j \in Inputs : pc'[j] = "write" => j # i /\ pc[j] = "write" /\ pkt'[j] = pkt[j]
  OBVIOUS
<1>2. CASE queue' = queue
  BY <1>1, <1>2 DEF QueueInv, TypeOK
<1>3. CASE queue' # queue
  <2>1. p \in Packets /\ p.in = i /\ p.cls \in Names /\ p \in counted /\ p # got
    BY DEF DeviceInv, Holding, Packets
  <2>2. queue' = [queue EXCEPT ![p.cls] = Append(@, p)]
    BY <1>3 DEF Written
  <2>3. /\ queue' \in [Names -> Seq(Packets)]
        /\ \A n \in Names \ {p.cls} : queue'[n] = queue[n]
        /\ queue'[p.cls] = Append(queue[p.cls], p)
    BY <2>1, <2>2 DEF TypeOK
  <2>4. /\ Len(queue'[p.cls]) = Len(queue[p.cls]) + 1
        /\ \A k \in 1..Len(queue[p.cls]) : queue'[p.cls][k] = queue[p.cls][k]
        /\ queue'[p.cls][Len(queue[p.cls]) + 1] = p
        /\ Len(queue[p.cls]) \in Nat
    BY <2>1, <2>3 DEF TypeOK
  <2>5. \A k \in 1..Len(queue[p.cls]) : queue[p.cls][k] # p
    BY <2>1 DEF QueueInv
  <2>6. \A j \in Inputs : pc'[j] = "write" => pkt'[j] # p
    BY <1>1, <2>1 DEF DeviceInv, Holding
  <2> SUFFICES ASSUME NEW n \in Names, NEW k \in 1..Len(queue'[n])
               PROVE  /\ queue'[n][k].cls = n /\ queue'[n][k] \in counted'
                      /\ queue'[n][k] # got'
                      /\ \A l \in 1..Len(queue'[n]) : queue'[n][l] = queue'[n][k] => l = k
                      /\ \A j \in Inputs : pc'[j] = "write" => pkt'[j] # queue'[n][k]
    BY <2>3 DEF QueueInv
  <2>7. CASE n # p.cls
    BY <1>1, <2>3, <2>7 DEF QueueInv
  <2>8. CASE n = p.cls /\ k = Len(queue[n]) + 1
    BY <2>8, <2>1, <2>4, <2>5, <2>6
  <2>9. CASE n = p.cls /\ k \in 1..Len(queue[n])
    <3>1. /\ queue[n][k].cls = n /\ queue[n][k] \in counted /\ queue[n][k] # got
          /\ \A l \in 1..Len(queue[n]) : queue[n][l] = queue[n][k] => l = k
          /\ \A j \in Inputs : pc[j] = "write" => pkt[j] # queue[n][k]
      BY <2>9 DEF QueueInv
    <3>2. queue'[n][k] = queue[n][k]
      BY <2>9, <2>4
    <3>3. ASSUME NEW l \in 1..Len(queue'[n]), queue'[n][l] = queue'[n][k]
          PROVE  l = k
      BY <3>1, <3>2, <3>3, <2>9, <2>4, <2>5
    <3> QED BY <1>1, <3>1, <3>2, <3>3
  <2> QED BY <2>4, <2>7, <2>8, <2>9
<1> QED BY <1>2, <1>3

LEMMA WritePacketKeeps == ASSUME IInv, NEW i \in Inputs, WritePacket(i) PROVE IInv'
<1> USE DEF IInv, WritePacket, Finish
<1>1. ConfigTypeOK' /\ CacheInv' /\ WorkQ!QTypeOK'
  BY ConfigUnchanged, WorkerUnchanged DEF TypeOK, wvars
<1>2. /\ pc' \in [Inputs -> InputState] /\ pc'[i] = "recv"
      /\ pkt' \in [Inputs -> Packets \cup {NoPacket}]
      /\ \A j \in Inputs \ {i} : pc'[j] = pc[j] /\ pkt'[j] = pkt[j]
  BY DEF TypeOK, InputState
<1>3. queue' \in [Names -> Seq(Packets)] /\ QueueInv'
  BY <1>2, WrittenKeeps DEF svars
<1>4. TypeOK'
  BY <1>1, <1>2, <1>3 DEF TypeOK, svars, wvars
<1>5. DeviceInv'
  BY <1>2 DEF DeviceInv, Holding, svars
<1>6. SchedInv' /\ CountInv' /\ SleepInv'
  BY DEF SchedInv, CountInv, SleepInv, svars
<1> QED BY <1>1, <1>3, <1>4, <1>5, <1>6
-----------------------------------------------------------------------------
(* The scheduler.                                                          *)

LEMMA NextKeyType ==
    ASSUME TypeOK, keys # <<>>
    PROVE  NextId \in Nat /\ NextKey \in Names
<1>1. Len(keys) \in Nat \ {0} /\ 1 + nextqid \in Nat
  BY DEF TypeOK
<1>2. NextId \in 0..(Len(keys) - 1)
  BY <1>1 DEF NextId
<1> QED BY <1>1, <1>2 DEF TypeOK, NextKey

(* The steps that only look for a packet.                                  *)
LEMMA SearchKeeps ==
    ASSUME IInv, Snapshot \/ CheckCount \/ Wake \/ ScanFault \/ ScanEmpty
    PROVE  IInv'
<1> USE DEF IInv
<1>1. UNCHANGED <<cvars, queue, stuck, qlock, packetcnt, counted, ivars, got, lastqid,
                  wvars, arrived, bypassed>>
  BY DEF Snapshot, CheckCount, Wake, ScanFault, ScanEmpty
<1>2. ConfigTypeOK' /\ CacheInv' /\ WorkQ!QTypeOK'
  BY <1>1, ConfigUnchanged, WorkerUnchanged DEF TypeOK, wvars
<1>3. DeviceInv' /\ QueueInv' /\ CountInv'
  BY <1>1, BooksUnchanged DEF ivars
<1>4. keys' \in Seq(Names) /\ stale' \subseteq Names /\ nextqid' \in Nat
  <2>1. CASE Snapshot
    BY <2>1, PacketCoreAssumption DEF Snapshot, TypeOK, ConfigTypeOK
  <2>2. CASE CheckCount \/ Wake \/ ScanFault
    BY <2>2 DEF CheckCount, Wake, ScanFault, TypeOK
  <2>3. CASE ScanEmpty
    <3>1. keys \in Seq(Names) /\ stale \subseteq Names /\ nextqid \in Nat
      BY DEF TypeOK
    <3>2. NextId \in Nat
      BY <2>3, NextKeyType DEF ScanEmpty
    <3>3. \/ keys' = <<>> /\ stale' = {} /\ nextqid' = 0
          \/ nextqid' = NextId /\ UNCHANGED <<keys, stale>>
      BY <2>3 DEF ScanEmpty, Release
    <3>4. CASE keys' = <<>> /\ stale' = {} /\ nextqid' = 0
      BY ONLY <3>4
    <3>5. CASE nextqid' = NextId /\ UNCHANGED <<keys, stale>>
      BY ONLY <3>1, <3>2, <3>5
    <3> QED BY <3>3, <3>4, <3>5
  <2> QED BY <2>1, <2>2, <2>3
<1>5. /\ sched' \in {"check", "waiting", "scan", "faulted", "count"}
      /\ sched \notin {"deliver", "count"}
      /\ sched' = "waiting" => packetcnt = 0
  BY DEF Snapshot, CheckCount, Wake, ScanFault, ScanEmpty
<1>6. TypeOK'
  BY <1>1, <1>2, <1>4, <1>5 DEF TypeOK, ivars, wvars, SchedState
<1>7. SchedInv' /\ SleepInv'
  BY <1>1, <1>5 DEF SchedInv, SleepInv
<1> QED BY <1>2, <1>3, <1>6, <1>7

(* The head leaves its queue, where it was once, and is read by nobody     *)
(* else.                                                                   *)
LEMMA ScanTakeKeeps == ASSUME IInv, ScanTake PROVE IInv'
<1> DEFINE n == NextKey
<1> USE DEF IInv
<1>1. /\ n \in Names /\ NextId \in Nat /\ queue[n] \in Seq(Packets) /\ queue[n] # <<>>
      /\ got = NoPacket
  BY NextKeyType DEF ScanTake, TypeOK, SchedInv
<1>2. /\ Len(queue[n]) \in Nat \ {0}
      /\ Head(queue[n]) = queue[n][1] /\ queue[n][1] \in Packets
      /\ Tail(queue[n]) \in Seq(Packets)
      /\ Len(Tail(queue[n])) = Len(queue[n]) - 1
      /\ \A k \in 1..Len(Tail(queue[n])) : Tail(queue[n])[k] = queue[n][k + 1]
  BY <1>1
<1>3. /\ queue' \in [Names -> Seq(Packets)]
      /\ queue'[n] = Tail(queue[n])
      /\ \A m \in Names \ {n} : queue'[m] = queue[m]
      /\ got' = queue[n][1] /\ got' \in Packets
      /\ sched' = "deliver" /\ lastqid' = NextId
      /\ keys' = <<>> /\ stale' = {} /\ nextqid' = 0
      /\ UNCHANGED <<cvars, stuck, qlock, packetcnt, counted, ivars, wvars, arrived>>
  BY <1>1, <1>2 DEF ScanTake, TypeOK, Release
<1>4. got' \in counted /\ got'.cls = n
  BY <1>1, <1>2, <1>3 DEF QueueInv
<1>5. ConfigTypeOK' /\ CacheInv' /\ WorkQ!QTypeOK'
  BY <1>3, ConfigUnchanged, WorkerUnchanged DEF TypeOK, wvars
<1>6. bypassed' \in [Names -> Nat]
  BY DEF ScanTake, TypeOK
<1>7. TypeOK'
  BY <1>1, <1>3, <1>5, <1>6 DEF TypeOK, ivars, wvars, SchedState
<1>8. DeviceInv'
  <2>1. ASSUME NEW i \in Inputs, pc[i] \in Holding PROVE pkt[i] # got'
    <3>1. CASE pc[i] = "write"
      BY <3>1, <1>1, <1>2, <1>3 DEF QueueInv
    <3>2. CASE pc[i] \in {"tagged", "locked"}
      BY <3>2, <1>4 DEF DeviceInv
    <3> QED BY <2>1, <3>1, <3>2 DEF Holding
  <2> QED BY <2>1, <1>3 DEF DeviceInv, ivars
<1>9. QueueInv'
  <2> SUFFICES ASSUME NEW m \in Names, NEW k \in 1..Len(queue'[m])
               PROVE  /\ queue'[m][k].cls = m /\ queue'[m][k] \in counted
                      /\ queue'[m][k] # got'
                      /\ \A l \in 1..Len(queue'[m]) : queue'[m][l] = queue'[m][k] => l = k
                      /\ \A i \in Inputs : pc[i] = "write" => pkt[i] # queue'[m][k]
    BY <1>3 DEF QueueInv, ivars
  <2>1. CASE m # n
    BY <2>1, <1>3, <1>4 DEF QueueInv
  <2>2. CASE m = n
    <3>1. /\ k + 1 \in 1..Len(queue[n]) /\ queue'[n][k] = queue[n][k + 1]
          /\ \A l \in 1..Len(queue'[n]) : /\ l + 1 \in 1..Len(queue[n])
                                          /\ queue'[n][l] = queue[n][l + 1]
      BY <2>2, <1>2, <1>3
    <3>2. queue[n][1] # queue[n][k + 1]
      BY <1>1, <1>2, <3>1 DEF QueueInv
    <3>3. ASSUME NEW l \in 1..Len(queue'[n]), queue'[n][l] = queue'[n][k] PROVE l = k
      BY <3>1, <3>3, <1>1, <2>2 DEF QueueInv
    <3> QED BY <2>2, <1>1, <1>3, <3>1, <3>2, <3>3 DEF QueueInv
  <2> QED BY <2>1, <2>2
<1>10. CountInv'
  BY <1>3 DEF CountInv
<1>11. SchedInv' /\ SleepInv'
  BY <1>3, <1>4, PacketFacts DEF SchedInv, SleepInv
<1> QED BY <1>5, <1>7, <1>8, <1>9, <1>10, <1>11

LEMMA DeliverKeeps == ASSUME IInv, Deliver PROVE IInv'
<1> USE DEF IInv, Deliver
<1>1. ConfigTypeOK' /\ CacheInv'
  BY ConfigUnchanged DEF TypeOK
<1>2. got \in Packets
  BY DEF TypeOK, SchedInv
<1>3. WorkQ!QTypeOK'
  <2>1. workQ' \in {workQ, Append(workQ, got)}
    BY DEF WorkQ!WriteQueue, WorkQ!qvars
  <2>2. worker' = worker \/ \E r \in {Worker} : worker' = [worker EXCEPT ![r] = "signalled"]
    BY DEF WorkQ!WriteQueue, WorkQ!SignalOne, WorkQ!Sleepers, WorkQ!qvars
  <2>3. workQ \in Seq(Packets) /\ worker \in [{Worker} -> WorkQ!ReaderState]
    BY DEF TypeOK, WorkQ!QTypeOK
  <2>4. workQ' \in Seq(Packets)
    BY ONLY <1>2, <2>1, <2>3
  <2>5. worker' \in [{Worker} -> WorkQ!ReaderState]
    BY ONLY <2>2, <2>3 DEF WorkQ!ReaderState
  <2> QED BY ONLY <2>4, <2>5 DEF WorkQ!QTypeOK
<1>4. TypeOK'
  BY <1>1, <1>3 DEF TypeOK, ivars, SchedState
<1>5. DeviceInv' /\ QueueInv' /\ CountInv'
  BY BooksUnchanged DEF ivars
<1>6. SchedInv' /\ SleepInv'
  BY DEF SchedInv, SleepInv
<1> QED BY <1>1, <1>4, <1>5, <1>6

(* The packet that was read leaves the set, and the count goes down by     *)
(* one; no other packet is uncounted with it.                              *)
LEMMA UncountKeeps == ASSUME IInv, Uncount PROVE IInv'
<1> USE DEF IInv, Uncount
<1>1. ConfigTypeOK' /\ CacheInv' /\ WorkQ!QTypeOK'
  BY ConfigUnchanged, WorkerUnchanged DEF TypeOK, wvars
<1>2. CountInv' /\ packetcnt' \in Nat
  <2>1. CASE got = NoPacket
    BY <2>1 DEF CountInv, TypeOK
  <2>2. CASE got # NoPacket
    <3>1. got \in counted
      BY <2>2 DEF SchedInv
    <3>2. /\ IsFiniteSet(counted \ {got})
          /\ Cardinality(counted \ {got}) = Cardinality(counted) - 1
      BY <3>1, FS_RemoveElement DEF CountInv
    <3>3. CountInv'
      BY <2>2, <3>2 DEF CountInv
    <3> QED BY <3>2, <3>3, FS_CardinalityType DEF CountInv
  <2> QED BY <2>1, <2>2
<1>3. TypeOK'
  BY <1>1, <1>2 DEF TypeOK, ivars, wvars, SchedState
<1>4. counted' = counted \ {got}
  BY PacketCoreAssumption DEF TypeOK
<1>5. DeviceInv'
  BY <1>4, PacketFacts DEF DeviceInv, Holding, ivars
<1>6. QueueInv'
  BY <1>4, PacketFacts DEF QueueInv, ivars, TypeOK
<1>7. SchedInv' /\ SleepInv'
  BY DEF SchedInv, SleepInv
<1> QED BY <1>1, <1>2, <1>3, <1>5, <1>6, <1>7
-----------------------------------------------------------------------------
(* The worker and the operator.                                            *)

LEMMA WorkKeeps == ASSUME IInv, Work PROVE IInv'
<1> USE DEF IInv, Work
<1>1. ConfigTypeOK' /\ CacheInv'
  BY ConfigUnchanged DEF TypeOK
<1>2. WorkQ!QTypeOK' /\ worked' \in 0..MaxPackets
  <2>1. WorkQ!QTypeOK'
    <3>1. workQ' = workQ \/ (workQ # <<>> /\ workQ' = Tail(workQ))
      BY DEF WorkQ!ReadQueue, WorkQ!ResumeRead
    <3>2. \/ worker' = worker
          \/ \E s \in WorkQ!ReaderState : worker' = [worker EXCEPT ![Worker] = s]
      BY DEF WorkQ!ReadQueue, WorkQ!ResumeRead, WorkQ!ReaderState
    <3>3. workQ \in Seq(Packets) /\ worker \in [{Worker} -> WorkQ!ReaderState]
      BY DEF TypeOK, WorkQ!QTypeOK
    <3>4. workQ' \in Seq(Packets)
      <4>1. CASE workQ' = workQ
        BY ONLY <4>1, <3>3
      <4>2. CASE workQ # <<>> /\ workQ' = Tail(workQ)
        <5>1. Tail(workQ) \in Seq(Packets)
          BY ONLY <4>2, <3>3
        <5> QED BY ONLY <5>1, <4>2
      <4> QED BY ONLY <3>1, <4>1, <4>2
    <3>5. worker' \in [{Worker} -> WorkQ!ReaderState]
      BY ONLY <3>2, <3>3
    <3> QED BY ONLY <3>4, <3>5 DEF WorkQ!QTypeOK
  <2>2. workQ # <<>> => Head(workQ) \in Packets
    BY DEF TypeOK, WorkQ!QTypeOK
  <2> QED BY <2>1, <2>2, PacketFacts, PacketCoreAssumption DEF TypeOK
<1>3. TypeOK'
  BY <1>1, <1>2 DEF TypeOK, ivars, svars
<1>4. DeviceInv' /\ QueueInv' /\ CountInv'
  BY BooksUnchanged DEF ivars, svars
<1>5. SchedInv' /\ SleepInv'
  BY DEF SchedInv, SleepInv, svars
<1> QED BY <1>1, <1>3, <1>4, <1>5

LEMMA AddQueueKeeps == ASSUME IInv, NEW n \in Names, AddQueue(n) PROVE IInv'
<1> USE DEF IInv, AddQueue
<1>1. ConfigTypeOK' /\ CacheInv' /\ WorkQ!QTypeOK'
  BY AddKeepsConfig, WorkerUnchanged DEF TypeOK, wvars
<1>2. TypeOK'
  BY <1>1 DEF TypeOK, ivars, svars, wvars
<1>3. DeviceInv' /\ QueueInv' /\ CountInv'
  BY BooksUnchanged DEF ivars, svars
<1>4. SchedInv' /\ SleepInv'
  BY DEF SchedInv, SleepInv, svars
<1> QED BY <1>1, <1>2, <1>3, <1>4

(* A queue that goes takes its packets with it; they stay counted.         *)
LEMMA DelQueueKeeps == ASSUME IInv, NEW n \in Names, DelQueue(n) PROVE IInv'
<1> USE DEF IInv, DelQueue
<1>1. ConfigTypeOK' /\ CacheInv' /\ WorkQ!QTypeOK'
  BY DelKeepsConfig, WorkerUnchanged DEF TypeOK, wvars
<1>2. /\ queue' \in [Names -> Seq(Packets)]
      /\ Len(queue'[n]) = 0
      /\ \A m \in Names \ {n} : queue'[m] = queue[m]
  BY DEF TypeOK
<1>3. TypeOK'
  BY <1>1, <1>2 DEF TypeOK, wvars
<1>4. DeviceInv'
  BY DEF DeviceInv, Holding
<1>5. QueueInv'
  BY <1>2 DEF QueueInv
<1>6. SchedInv' /\ CountInv' /\ SleepInv'
  BY DEF SchedInv, CountInv, SleepInv
<1> QED BY <1>1, <1>3, <1>4, <1>5, <1>6

(* What every cancellation does to its thread.                             *)
LEMMA CancelFacts ==
    ASSUME TypeOK, CacheInv, NEW i \in Inputs, Cancel(i)
    PROVE  /\ ConfigTypeOK' /\ CacheInv' /\ WorkQ!QTypeOK'
           /\ pc' \in [Inputs -> InputState] /\ pc'[i] = "down"
           /\ pkt' \in [Inputs -> Packets \cup {NoPacket}]
           /\ orphan' \subseteq Inputs
           /\ \A j \in Inputs \ {i} : pc'[j] = pc[j] /\ pkt'[j] = pkt[j]
<1>1. ConfigTypeOK' /\ CacheInv' /\ WorkQ!QTypeOK'
  BY ConfigUnchanged, WorkerUnchanged DEF Cancel, TypeOK, wvars
<1> QED BY <1>1 DEF Cancel, TypeOK, InputState

LEMMA DownKeeps == ASSUME IInv, NEW i \in Inputs, Down(i) PROVE IInv'
<1> USE DEF IInv, Down
<1>1. TypeOK' /\ CacheInv'
  BY CancelFacts DEF Cancel, TypeOK, svars, wvars
<1>2. DeviceInv'
  BY CancelFacts DEF Cancel, DeviceInv, Holding, svars
<1>3. QueueInv'
  <2>1. \A j \in Inputs : pc'[j] = "write" => pc[j] = "write" /\ pkt'[j] = pkt[j]
    BY CancelFacts
  <2>2. UNCHANGED <<queue, counted, got>>
    BY DEF Cancel, svars
  <2> QED BY <2>1, <2>2 DEF QueueInv
<1>4. SchedInv' /\ CountInv' /\ SleepInv'
  BY DEF Cancel, SchedInv, CountInv, SleepInv, svars
<1> QED BY <1>1, <1>2, <1>3, <1>4

(* Cancelled after it counted its packet, the thread leaves it counted.    *)
LEMMA DownLockedKeeps == ASSUME IInv, NEW i \in Inputs, DownLocked(i) PROVE IInv'
<1> USE DEF IInv, DownLocked
<1>1. /\ pkt[i] \in Packets /\ pkt[i].in = i /\ pkt[i] \notin counted
      /\ pkt[i].id <= arrived /\ qlock = i /\ qlock' = Dead
  BY DEF DeviceInv, Holding
<1>2. counted' \in {counted, counted \cup {pkt[i]}}
  OBVIOUS
<1>3. CountInv'
  <2>1. arrived' = arrived
    BY DEF Cancel
  <2> QED BY <1>1, <2>1, FS_AddElement DEF CountInv
<1>4. TypeOK' /\ CacheInv'
  <2>1. packetcnt' \in Nat /\ counted' \subseteq Packets
    BY <1>1, <1>2 DEF TypeOK
  <2> QED BY <2>1, <1>1, CancelFacts DEF Cancel, TypeOK, svars, wvars
<1>5. DeviceInv'
  <2>1. /\ pc'[i] = "down" /\ UNCHANGED <<got, arrived>>
        /\ \A j \in Inputs \ {i} : pc'[j] = pc[j] /\ pkt'[j] = pkt[j]
    BY CancelFacts DEF Cancel, svars
  <2>2. ASSUME NEW j \in Inputs \ {i}, pc[j] \in {"tagged", "locked"}
        PROVE  pkt[j] \notin counted' /\ pc[j] # "locked"
    BY <1>1, <1>2, <2>2 DEF DeviceInv, Holding
  <2> QED BY <1>2, <2>1, <2>2 DEF DeviceInv, Holding
<1>6. QueueInv'
  BY <1>2, CancelFacts DEF Cancel, QueueInv, svars
<1>7. SchedInv' /\ SleepInv'
  BY <1>1, <1>2 DEF Cancel, SchedInv, SleepInv, svars
<1> QED BY <1>3, <1>4, <1>5, <1>6, <1>7

LEMMA DownWritingKeeps == ASSUME IInv, NEW i \in Inputs, DownWriting(i) PROVE IInv'
<1> USE DEF IInv, DownWriting
<1>1. queue' \in [Names -> Seq(Packets)] /\ QueueInv'
  <2>1. UNCHANGED got
    BY DEF Cancel, svars
  <2> QED BY <2>1, CancelFacts, WrittenKeeps
<1>2. pkt[i].cls \in Names
  BY DEF DeviceInv, Holding, Packets
<1>3. TypeOK' /\ CacheInv'
  BY <1>1, <1>2, CancelFacts DEF Cancel, TypeOK, svars, wvars
<1>4. DeviceInv'
  BY CancelFacts DEF Cancel, DeviceInv, Holding, svars
<1>5. SchedInv' /\ CountInv' /\ SleepInv'
  BY DEF Cancel, SchedInv, CountInv, SleepInv, svars
<1> QED BY <1>1, <1>3, <1>4, <1>5

LEMMA UpKeeps == ASSUME IInv, NEW i \in Inputs, Up(i) PROVE IInv'
<1> USE DEF IInv, Up
<1>1. ConfigTypeOK' /\ CacheInv' /\ WorkQ!QTypeOK'
  BY ConfigUnchanged, WorkerUnchanged DEF TypeOK, wvars
<1>2. TypeOK'
  BY <1>1 DEF TypeOK, svars, wvars, InputState
<1>3. DeviceInv'
  BY DEF DeviceInv, Holding, svars, TypeOK
<1>4. QueueInv'
  BY DEF QueueInv, svars, TypeOK
<1>5. SchedInv' /\ CountInv' /\ SleepInv'
  BY DEF SchedInv, CountInv, SleepInv, svars
<1> QED BY <1>1, <1>2, <1>3, <1>4, <1>5
-----------------------------------------------------------------------------
LEMMA InitInv == Init => IInv
<1> SUFFICES ASSUME Init PROVE IInv
  OBVIOUS
<1> USE DEF Init
<1>1. ConfigTypeOK /\ CacheInv
  BY ConfigAssumption DEF ConfigInit, ConfigTypeOK, CacheInv, Ptrs
<1>2. TypeOK
  BY <1>1, PacketCoreAssumption
     DEF TypeOK, InputState, SchedState, WorkQ!QInit, WorkQ!QTypeOK, WorkQ!ReaderState
<1>3. DeviceInv /\ QueueInv /\ SchedInv /\ SleepInv
  BY DEF DeviceInv, Holding, QueueInv, SchedInv, SleepInv
<1>4. CountInv
  BY FS_EmptySet DEF CountInv
<1> QED BY <1>1, <1>2, <1>3, <1>4 DEF IInv

LEMMA NextInv == IInv /\ [Next]_vars => IInv'
<1> SUFFICES ASSUME IInv, [Next]_vars PROVE IInv'
  OBVIOUS
<1>1. CASE \E i \in Inputs : Receive(i) \/ Input(i)
  BY <1>1, ReceiveKeeps, LockKeeps, DiscardKeeps, AcceptKeeps, WritePacketKeeps DEF Input
<1>2. CASE Scheduler
  BY <1>2, SearchKeeps, ScanTakeKeeps, DeliverKeeps, UncountKeeps DEF Scheduler
<1>3. CASE Work
  BY <1>3, WorkKeeps
<1>4. CASE Operator
  BY <1>4, PacketCoreAssumption, AddQueueKeeps, DelQueueKeeps, DownKeeps,
     DownLockedKeeps, DownWritingKeeps, UpKeeps DEF Operator
<1>5. CASE UNCHANGED vars
  <2>1. ConfigTypeOK' /\ CacheInv' /\ WorkQ!QTypeOK'
    BY <1>5, ConfigUnchanged, WorkerUnchanged DEF vars, wvars, IInv, TypeOK
  <2>2. DeviceInv' /\ QueueInv' /\ CountInv'
    BY <1>5, BooksUnchanged DEF vars, ivars, svars, IInv
  <2> QED BY <1>5, <2>1, <2>2 DEF vars, ivars, svars, wvars, IInv, TypeOK, SchedInv, SleepInv
<1> QED BY <1>1, <1>2, <1>3, <1>4, <1>5 DEF Next, Idle

(* Whatever the devices, the operator and the threads do, the types hold.  *)
THEOREM TypeCorrect == Spec => []TypeOK
<1>1. IInv => TypeOK
  BY DEF IInv
<1> QED BY InitInv, NextInv, <1>1, PTL DEF Spec

(* Every packet of the backlog is counted.                                 *)
LEMMA BacklogCounted == IInv => Backlog \subseteq counted
<1> SUFFICES ASSUME IInv, NEW p \in Backlog PROVE p \in counted
  OBVIOUS
<1>1. CASE \E n \in Names : \E k \in 1..Len(queue[n]) : p = queue[n][k]
  BY <1>1 DEF IInv, QueueInv
<1>2. CASE \E i \in Inputs : pc[i] = "write" /\ p = pkt[i]
  BY <1>2 DEF IInv, DeviceInv
<1>3. CASE p = got /\ got # NoPacket
  BY <1>3 DEF IInv, SchedInv
<1> QED BY <1>1, <1>2, <1>3 DEF Backlog, InQueues

(* packetcnt never underestimates the backlog (enqueuePacket,              *)
(* roundRobinScheduler).                                                   *)
THEOREM CountCovers == Spec => []CountCoversBacklog
<1>1. IInv => CountCoversBacklog
  <2> SUFFICES ASSUME IInv PROVE CountCoversBacklog
    OBVIOUS
  <2> QED BY BacklogCounted, FS_Subset DEF IInv, CountInv, CountCoversBacklog
<1> QED BY InitInv, NextInv, <1>1, PTL DEF Spec

(* The scheduler does not sleep on a backlog: no wakeup is lost between    *)
(* enqueuePacket's signal and the write that follows it.                   *)
THEOREM NoSleep == Spec => []NoSleepOnBacklog
<1>1. IInv => NoSleepOnBacklog
  <2> SUFFICES ASSUME IInv, sched = "waiting", qlock # Dead PROVE Backlog = {}
    BY DEF NoSleepOnBacklog
  <2>1. Cardinality(counted) = 0 /\ IsFiniteSet(counted)
    BY DEF IInv, SleepInv, CountInv
  <2> QED BY <2>1, BacklogCounted, FS_EmptySet
<1> QED BY InitInv, NextInv, <1>1, PTL DEF Spec
-----------------------------------------------------------------------------
(* The sizes of the queues, and the worker.  They need nothing of the      *)
(* bookkeeping but the types.                                              *)

(* writeQueue tests the size itself.                                       *)
LEMMA WrittenBound ==
    ASSUME TypeOK, QueueBound, NEW p \in Packets, queue' = Written(p)
    PROVE  QueueBound'
<1>1. p.cls \in Names /\ queue \in [Names -> Seq(Packets)] /\ Capacity \in [Names -> Nat \ {0}]
  BY PacketCoreAssumption DEF Packets, TypeOK
<1>2. CASE Len(queue[p.cls]) < Capacity[p.cls]
  <2>1. queue' = [queue EXCEPT ![p.cls] = Append(@, p)]
    BY <1>2 DEF Written
  <2>2. Len(Append(queue[p.cls], p)) <= Capacity[p.cls]
    BY <1>1, <1>2
  <2> QED BY <1>1, <2>1, <2>2 DEF QueueBound
<1>3. CASE ~(Len(queue[p.cls]) < Capacity[p.cls])
  BY <1>3 DEF Written, QueueBound
<1> QED BY <1>2, <1>3

(* Only four steps change a class queue.                                   *)
LEMMA QueueSteps ==
    ASSUME [Next]_vars, queue' # queue
    PROVE  \/ \E i \in Inputs : pc[i] = "write" /\ queue' = Written(pkt[i])
           \/ ScanTake
           \/ \E n \in Names : DelQueue(n)
<1>1. ASSUME NEW i \in Inputs, Receive(i) \/ Input(i)
      PROVE  pc[i] = "write" /\ queue' = Written(pkt[i])
  BY <1>1 DEF Receive, Input, Lock, Discard, Accept, WritePacket
<1>2. CASE Scheduler
  BY <1>2 DEF Scheduler, Snapshot, CheckCount, Wake, ScanFault, ScanEmpty, Deliver, Uncount
<1>3. CASE Work \/ Idle \/ UNCHANGED vars
  BY <1>3 DEF Work, Idle, vars
<1>4. ASSUME NEW n \in Configurable, AddQueue(n) \/ DelQueue(n) PROVE DelQueue(n)
  BY <1>4 DEF AddQueue
<1>5. ASSUME NEW i \in Cancellable, Down(i) \/ DownLocked(i) \/ DownWriting(i) \/ Up(i)
      PROVE  i \in Inputs /\ pc[i] = "write" /\ queue' = Written(pkt[i])
  BY <1>5, PacketCoreAssumption DEF Down, DownLocked, DownWriting, Up
<1> QED BY <1>1, <1>2, <1>3, <1>4, <1>5, PacketCoreAssumption DEF Next, Operator

LEMMA BoundStep == IInv /\ QueueBound /\ [Next]_vars => QueueBound'
<1> SUFFICES ASSUME IInv, QueueBound, [Next]_vars, queue' # queue PROVE QueueBound'
  BY DEF QueueBound
<1>1. queue \in [Names -> Seq(Packets)] /\ Capacity \in [Names -> Nat \ {0}]
  BY PacketCoreAssumption DEF IInv, TypeOK
<1>2. ASSUME NEW i \in Inputs, pc[i] = "write", queue' = Written(pkt[i]) PROVE QueueBound'
  BY <1>2, WrittenBound DEF IInv, DeviceInv, Holding
<1>3. CASE ScanTake
  <2>1. NextKey \in Names /\ queue[NextKey] # <<>>
    BY <1>3, NextKeyType DEF ScanTake, IInv
  <2>2. Len(Tail(queue[NextKey])) <= Len(queue[NextKey]) /\ Len(queue[NextKey]) \in Nat
        /\ Len(Tail(queue[NextKey])) \in Nat
    BY <1>1, <2>1
  <2>3. queue' = [queue EXCEPT ![NextKey] = Tail(@)]
    BY <1>3 DEF ScanTake
  <2>4. ASSUME NEW n \in Names PROVE Len(queue'[n]) <= Capacity[n]
    BY <1>1, <2>1, <2>2, <2>3 DEF QueueBound
  <2> QED BY <2>4 DEF QueueBound
<1>4. ASSUME NEW n \in Names, DelQueue(n) PROVE QueueBound'
  BY <1>1, <1>4 DEF DelQueue, QueueBound
<1> QED BY <1>2, <1>3, <1>4, QueueSteps

(* No class queue exceeds its size, although two threads may have found    *)
(* the same free slot.                                                     *)
THEOREM Bounded == Spec => []QueueBound
<1>1. Init => QueueBound
  BY PacketCoreAssumption DEF Init, QueueBound
<1>2. Init /\ [][Next]_vars => []IInv
  BY InitInv, NextInv, PTL
<1> QED BY <1>1, <1>2, BoundStep, PTL DEF Spec

(* A worker that waits has found the queue empty, and the first write      *)
(* signals it.                                                             *)
AwakeInv == worker[Worker] = "waiting" => workQ = <<>>

LEMMA AwakeStep == IInv /\ AwakeInv /\ [Next]_vars => AwakeInv'
<1> SUFFICES ASSUME IInv, AwakeInv, [Next]_vars PROVE AwakeInv'
  OBVIOUS
<1>1. worker \in [{Worker} -> WorkQ!ReaderState] /\ workQ \in Seq(Packets)
  BY DEF IInv, TypeOK, WorkQ!QTypeOK
<1>2. CASE UNCHANGED <<workQ, worker>>
  BY <1>2 DEF AwakeInv
<1>3. CASE Deliver
  <2>1. CASE UNCHANGED <<workQ, worker>>
    BY <1>2, <2>1
  <2>2. CASE IF workQ = <<>> THEN WorkQ!SignalOne ELSE UNCHANGED worker
    <3>1. CASE workQ = <<>>
      <4>1. CASE worker[Worker] = "waiting"
        BY <1>1, <2>2, <3>1, <4>1 DEF WorkQ!SignalOne, WorkQ!Sleepers, AwakeInv
      <4>2. CASE worker[Worker] # "waiting"
        BY <1>1, <2>2, <3>1, <4>2 DEF WorkQ!SignalOne, WorkQ!Sleepers, AwakeInv
      <4> QED BY <4>1, <4>2
    <3>2. CASE workQ # <<>>
      BY <2>2, <3>2 DEF AwakeInv
    <3> QED BY <3>1, <3>2
  <2> QED BY <1>3, <2>1, <2>2 DEF Deliver, WorkQ!WriteQueue, WorkQ!qvars
<1>4. CASE Work
  BY <1>1, <1>4 DEF Work, WorkQ!ReadQueue, WorkQ!ResumeRead, AwakeInv
<1>5. UNCHANGED <<workQ, worker>> \/ Deliver \/ Work
  <2>1. ASSUME NEW i \in Inputs, Receive(i) \/ Input(i) PROVE UNCHANGED wvars
    BY <2>1 DEF Receive, Input, Lock, Discard, Accept, WritePacket
  <2>2. CASE Scheduler
    BY <2>2 DEF Scheduler, Snapshot, CheckCount, Wake, ScanFault, ScanEmpty, ScanTake,
                Uncount, wvars
  <2>3. CASE Operator
    BY <2>3 DEF Operator, AddQueue, DelQueue, Down, DownLocked, DownWriting, Up, Cancel, wvars
  <2>4. CASE Idle \/ UNCHANGED vars
    BY <2>4 DEF Idle, vars, wvars
  <2> QED BY <2>1, <2>2, <2>3, <2>4 DEF Next, wvars
<1> QED BY <1>2, <1>3, <1>4, <1>5

(* The worker never sleeps on a work queue that holds packets.             *)
THEOREM Awake == Spec => []WorkerAwake
<1>1. Init => AwakeInv
  BY DEF Init, AwakeInv, WorkQ!QInit
<1>2. AwakeInv => WorkerAwake
  BY DEF AwakeInv, WorkerAwake, WorkQ!NoLostWakeup
<1>3. Init /\ [][Next]_vars => []IInv
  BY InitInv, NextInv, PTL
<1> QED BY <1>1, <1>2, <1>3, AwakeStep, PTL DEF Spec
-----------------------------------------------------------------------------
(* The refinement of PacketLink.  A flow keeps its order because the       *)
(* places that a packet passes, a device thread, its class queue, the      *)
(* scheduler and the work queue, stay in order, and each queue is sorted.  *)

SameFlow(p, q) == p.in = q.in /\ p.cls = q.cls

(* No packet of A overtakes or repeats one of its flow in B.               *)
Precedes(A, B) == \A p \in A, q \in B : SameFlow(p, q) => p.id < q.id

Sorted(s) == \A k, l \in 1..Len(s) : k < l /\ SameFlow(s[k], s[l]) => s[k].id < s[l].id

PlacesInv == /\ Precedes(InWorkQ, InDelivery)
             /\ Precedes(InWorkQ, InQueues)
             /\ Precedes(InWorkQ, InHands)
             /\ Precedes(InDelivery, InQueues)
             /\ Precedes(InDelivery, InHands)
             /\ Precedes(InQueues, InHands)

OrderInv == /\ PlacesInv
            /\ Sorted(workQ)
            /\ \A n \in Names : Sorted(queue[n])
            /\ \A i \in Inputs : pkt[i] # NoPacket => pc[i] \in Holding
            /\ \A p \in InWorkQ : p.id <= arrived

(* What the places hold are packets that have arrived.                     *)
LEMMA PlacesFacts ==
    ASSUME IInv, OrderInv
    PROVE  /\ Underway \subseteq Packets
           /\ \A p \in Underway : p.id <= arrived /\ p.id \in Nat
<1>1. ASSUME NEW p \in InHands PROVE p \in Packets /\ p.id <= arrived
  BY <1>1 DEF InHands, OrderInv, IInv, DeviceInv
<1>2. ASSUME NEW p \in InQueues PROVE p \in Packets /\ p.id <= arrived
  <2>1. PICK n \in Names : \E k \in 1..Len(queue[n]) : p = queue[n][k]
    BY <1>2 DEF InQueues
  <2>2. p \in counted
    BY <2>1 DEF IInv, QueueInv
  <2> QED BY <2>2 DEF IInv, CountInv, TypeOK
<1>3. ASSUME NEW p \in InDelivery PROVE p \in Packets /\ p.id <= arrived
  BY <1>3 DEF InDelivery, IInv, SchedInv, CountInv, TypeOK
<1>4. ASSUME NEW p \in InWorkQ PROVE p \in Packets /\ p.id <= arrived
  BY <1>4 DEF InWorkQ, OrderInv, IInv, TypeOK, WorkQ!QTypeOK
<1>5. \A p \in Packets : p.id \in Nat
  BY DEF Packets
<1> QED BY <1>1, <1>2, <1>3, <1>4, <1>5 DEF Underway

(* Places from which packets only go keep their order.                     *)
LEMMA PlacesShrink ==
    ASSUME PlacesInv, InHands' \subseteq InHands, InQueues' \subseteq InQueues,
           InDelivery' \subseteq InDelivery, InWorkQ' \subseteq InWorkQ
    PROVE  PlacesInv'
BY DEF PlacesInv, Precedes

(* The part of a queue behind its head, and a queue with a new last.       *)
LEMMA SortedTail ==
    ASSUME NEW S, NEW s \in Seq(S), s # <<>>, Sorted(s)
    PROVE  /\ Sorted(Tail(s))
           /\ \A k \in 1..Len(Tail(s)) : SameFlow(Head(s), Tail(s)[k]) => Head(s).id < Tail(s)[k].id
           /\ {s[k] : k \in 1..Len(s)} = {Head(s)} \cup {Tail(s)[k] : k \in 1..Len(Tail(s))}
<1>1. /\ Len(Tail(s)) = Len(s) - 1 /\ Len(s) \in Nat \ {0} /\ Head(s) = s[1]
      /\ \A k \in 1..Len(Tail(s)) : Tail(s)[k] = s[k + 1]
  OBVIOUS
<1>2. \A k \in 1..Len(Tail(s)) : k + 1 \in 1..Len(s) /\ 1 < k + 1
  BY <1>1
<1>3. Sorted(Tail(s))
  BY <1>1, <1>2 DEF Sorted
<1>4. 1 \in 1..Len(s)
  BY <1>1
<1>5. \A k \in 1..Len(Tail(s)) : SameFlow(Head(s), Tail(s)[k]) => Head(s).id < Tail(s)[k].id
  BY <1>1, <1>2, <1>4 DEF Sorted
<1>6. ASSUME NEW k \in 1..Len(s) PROVE k = 1 \/ (k - 1 \in 1..Len(Tail(s)) /\ s[k] = Tail(s)[k - 1])
  BY <1>1
<1> QED BY <1>1, <1>2, <1>3, <1>4, <1>5, <1>6

LEMMA SortedAppend ==
    ASSUME NEW S, NEW s \in Seq(S), NEW p \in S, Sorted(s),
           \A k \in 1..Len(s) : SameFlow(s[k], p) => s[k].id < p.id
    PROVE  /\ Sorted(Append(s, p))
           /\ {Append(s, p)[k] : k \in 1..Len(Append(s, p))} = {s[k] : k \in 1..Len(s)} \cup {p}
<1>1. /\ Len(Append(s, p)) = Len(s) + 1 /\ Len(s) \in Nat
      /\ \A k \in 1..Len(s) : Append(s, p)[k] = s[k]
      /\ Append(s, p)[Len(s) + 1] = p
  OBVIOUS
<1>2. \A k \in 1..(Len(s) + 1) : k \in 1..Len(s) \/ k = Len(s) + 1
  BY <1>1
<1>3. ASSUME NEW k \in 1..(Len(s) + 1), NEW l \in 1..(Len(s) + 1), k < l
      PROVE  k \in 1..Len(s)
  BY <1>1, <1>3
<1>4. Sorted(Append(s, p))
  BY <1>1, <1>2, <1>3 DEF Sorted
<1> QED BY <1>1, <1>2, <1>4

(* What all steps but an arrival and the worker's do to the flows.         *)
Moves == Underway' \subseteq Underway /\ UNCHANGED <<arrived, worked>>

(* A step that leaves the queues alone.                                    *)
LEMMA StillOrder ==
    ASSUME OrderInv, UNCHANGED <<queue, workQ, arrived, worked>>,
           InHands' \subseteq InHands, InDelivery' \subseteq InDelivery,
           \A i \in Inputs : pkt'[i] # NoPacket => pc'[i] \in Holding
    PROVE  OrderInv' /\ Moves
<1>1. InQueues' = InQueues /\ InWorkQ' = InWorkQ
  BY DEF InQueues, InWorkQ
<1>2. PlacesInv'
  BY <1>1, PlacesShrink DEF OrderInv
<1>3. Sorted(workQ') /\ \A n \in Names : Sorted(queue'[n])
  BY DEF OrderInv
<1>4. \A p \in InWorkQ' : p.id <= arrived'
  BY <1>1 DEF OrderInv
<1> QED BY <1>1, <1>2, <1>3, <1>4 DEF OrderInv, Moves, Underway

(* The steps that move no packet, or lose the one in hand.                 *)
LEMMA InputOrder ==
    ASSUME IInv, OrderInv, NEW i \in Inputs,
           Lock(i) \/ Discard(i) \/ Accept(i) \/ Down(i) \/ DownLocked(i) \/ Up(i)
    PROVE  OrderInv' /\ Moves
<1>1. UNCHANGED <<queue, workQ, got, arrived, worked>>
  BY DEF Lock, Discard, Accept, Down, DownLocked, Up, Cancel, svars, wvars
<1>2. InDelivery' \subseteq InDelivery
  <2>1. sched' = sched \/ sched' = "signalled"
    BY DEF Lock, Discard, Accept, SignalScheduler, Down, DownLocked, Up, Cancel, svars
  <2> QED BY <1>1, <2>1 DEF InDelivery
<1>3. /\ pkt \in [Inputs -> Packets \cup {NoPacket}] /\ pc \in [Inputs -> InputState]
      /\ \A j \in Inputs : pkt[j] # NoPacket => pc[j] \in Holding
  BY DEF IInv, TypeOK, OrderInv
<1>4. \/ /\ pkt' = [pkt EXCEPT ![i] = NoPacket]
         /\ pc' \in {[pc EXCEPT ![i] = "recv"], [pc EXCEPT ![i] = "down"]}
      \/ /\ pkt' = pkt
         /\ \/ pc' \in {[pc EXCEPT ![i] = "locked"], [pc EXCEPT ![i] = "write"]}
            \/ pc[i] = "down" /\ pc' = [pc EXCEPT ![i] = "recv"]
  BY DEF Lock, Discard, Accept, Finish, Down, DownLocked, Up, Cancel
<1>5. \A j \in Inputs : pkt'[j] # NoPacket => pc'[j] \in Holding /\ pkt'[j] = pkt[j]
  BY <1>3, <1>4 DEF Holding
<1>6. InHands' \subseteq InHands
  BY <1>5 DEF InHands
<1> QED BY <1>1, <1>2, <1>5, <1>6, StillOrder

LEMMA SearchOrder ==
    ASSUME OrderInv, UNCHANGED <<queue, workQ, arrived, worked, pkt, pc>>,
           sched' # "deliver" \/ UNCHANGED <<sched, got>>
    PROVE  OrderInv' /\ Moves
<1>1. InHands' = InHands /\ InDelivery' \subseteq InDelivery
  BY DEF InHands, InDelivery
<1> QED BY <1>1, StillOrder DEF OrderInv

(* A queue that is deleted takes its packets with it.                      *)
LEMMA DelQueueOrder == ASSUME IInv, OrderInv, NEW n \in Names, DelQueue(n) PROVE OrderInv' /\ Moves
<1>1. UNCHANGED <<workQ, arrived, worked, pkt, pc, sched, got>>
  BY DEF DelQueue, wvars
<1>2. InHands' = InHands /\ InDelivery' = InDelivery /\ InWorkQ' = InWorkQ
  BY <1>1 DEF InHands, InDelivery, InWorkQ
<1>3. queue'[n] = <<>> /\ \A m \in Names \ {n} : queue'[m] = queue[m]
  BY DEF DelQueue, IInv, TypeOK
<1>4. InQueues' \subseteq InQueues
  BY <1>3 DEF InQueues
<1>5. PlacesInv'
  BY <1>2, <1>4, PlacesShrink DEF OrderInv
<1>6. ASSUME NEW m \in Names PROVE Sorted(queue'[m])
  BY <1>3 DEF OrderInv, Sorted
<1>7. Sorted(workQ') /\ \A p \in InWorkQ' : p.id <= arrived'
  BY <1>1, <1>2 DEF OrderInv
<1> QED BY <1>1, <1>2, <1>4, <1>5, <1>6, <1>7 DEF OrderInv, Moves, Underway

(* A packet goes from its thread to the end of the queue, or is lost.      *)
LEMMA WriteOrder ==
    ASSUME IInv, OrderInv, NEW i \in Inputs, pc[i] = "write",
           queue' \in {queue, Written(pkt[i])}, pkt' = [pkt EXCEPT ![i] = NoPacket],
           pc' \in {[pc EXCEPT ![i] = "recv"], [pc EXCEPT ![i] = "down"]},
           UNCHANGED <<workQ, arrived, worked, sched, got>>
    PROVE  OrderInv' /\ Moves
<1> DEFINE p == pkt[i]
<1>1. /\ p \in Packets /\ p.in = i /\ p.cls \in Names /\ p \in InHands
      /\ queue \in [Names -> Seq(Packets)]
      /\ pkt \in [Inputs -> Packets \cup {NoPacket}] /\ pc \in [Inputs -> InputState]
  <2>1. p \in Packets /\ p.in = i
    BY DEF IInv, DeviceInv, Holding
  <2>2. p.cls \in Names /\ p \in InHands
    BY <2>1, PacketFacts DEF InHands
  <2> QED BY <2>1, <2>2 DEF IInv, TypeOK
<1>2. InDelivery' = InDelivery /\ InWorkQ' = InWorkQ
  BY DEF InDelivery, InWorkQ
<1>3. \A j \in Inputs : pkt'[j] # NoPacket => j # i /\ pkt'[j] = pkt[j] /\ pc'[j] = pc[j]
  BY <1>1
<1>4. InHands' \subseteq InHands
  BY <1>3 DEF InHands
<1>5. \A q \in InHands' : ~SameFlow(p, q)
  BY <1>1, <1>3 DEF InHands, SameFlow, OrderInv, IInv, DeviceInv
<1>6. Sorted(workQ') /\ \A q \in InWorkQ' : q.id <= arrived'
  BY <1>2 DEF OrderInv
<1>7. \A j \in Inputs : pkt'[j] # NoPacket => pc'[j] \in Holding
  BY <1>3 DEF OrderInv
<1>8. InQueues' \subseteq InQueues \cup {p} /\ \A n \in Names : Sorted(queue'[n])
  <2>1. CASE queue' = queue
    BY <2>1 DEF InQueues, OrderInv
  <2>2. CASE queue' = [queue EXCEPT ![p.cls] = Append(@, p)]
    <3> DEFINE s == queue[p.cls]
    <3>1. s \in Seq(Packets) /\ Sorted(s)
      BY <1>1 DEF OrderInv
    <3>2. \A k \in 1..Len(s) : SameFlow(s[k], p) => s[k].id < p.id
      BY <1>1 DEF OrderInv, PlacesInv, Precedes, InQueues
    <3>3. queue'[p.cls] = Append(s, p) /\ \A n \in Names \ {p.cls} : queue'[n] = queue[n]
      BY <1>1, <2>2
    <3>4. /\ Sorted(queue'[p.cls])
          /\ {queue'[p.cls][k] : k \in 1..Len(queue'[p.cls])} = {s[k] : k \in 1..Len(s)} \cup {p}
      <4> HIDE DEF s, p
      <4> QED BY <1>1, <3>1, <3>2, <3>3, SortedAppend
    <3>5. \A n \in Names : Sorted(queue'[n])
      BY <3>3, <3>4 DEF OrderInv
    <3>6. ASSUME NEW n \in Names, NEW k \in 1..Len(queue'[n])
          PROVE  queue'[n][k] \in InQueues \cup {p}
      <4>1. CASE n = p.cls
        <5>1. queue'[n][k] = p \/ \E l \in 1..Len(s) : queue'[n][k] = s[l]
          BY <3>4, <4>1
        <5> QED BY <1>1, <5>1 DEF InQueues
      <4>2. CASE n # p.cls
        BY <3>3, <4>2 DEF InQueues
      <4> QED BY <4>1, <4>2
    <3>7. InQueues' \subseteq InQueues \cup {p}
      BY <3>6 DEF InQueues
    <3> QED BY <3>5, <3>7
  <2> QED BY <2>1, <2>2 DEF Written
<1>9. PlacesInv'
  <2>1. Precedes(InQueues, InHands) /\ Precedes(InWorkQ, InHands) /\ Precedes(InDelivery, InHands)
    BY DEF OrderInv, PlacesInv
  <2>2. Precedes(InQueues', InHands')
    BY <1>4, <1>5, <1>8, <2>1 DEF Precedes
  <2>3. Precedes(InWorkQ', InQueues') /\ Precedes(InDelivery', InQueues')
    BY <1>1, <1>2, <1>8, <2>1 DEF Precedes, OrderInv, PlacesInv
  <2> QED BY <1>2, <1>4, <2>2, <2>3 DEF Precedes, OrderInv, PlacesInv
<1>10. Underway' \subseteq Underway
  BY <1>1, <1>2, <1>4, <1>8 DEF Underway
<1> QED BY <1>6, <1>7, <1>8, <1>9, <1>10 DEF OrderInv, Moves

(* The scheduler reads the head of a queue: the others of its flow are     *)
(* behind it, in the same queue or with their thread.                      *)
LEMMA ScanTakeOrder == ASSUME IInv, OrderInv, ScanTake PROVE OrderInv' /\ Moves
<1> DEFINE n == NextKey
           s == queue[n]
           h == Head(s)
<1>1. n \in Names /\ s \in Seq(Packets) /\ s # <<>> /\ Sorted(s) /\ h \in Packets
  <2>1. n \in Names
    BY NextKeyType DEF ScanTake, IInv
  <2>2. s \in Seq(Packets) /\ s # <<>>
    BY <2>1 DEF ScanTake, IInv, TypeOK
  <2>3. Head(s) \in Packets
    BY <2>2
  <2> QED BY <2>1, <2>2, <2>3 DEF OrderInv
<1>2. /\ queue' = [queue EXCEPT ![n] = Tail(s)]
      /\ sched = "scan" /\ sched' = "deliver" /\ got' = h
      /\ UNCHANGED <<workQ, arrived, worked, pkt, pc>>
  BY DEF ScanTake, ivars, wvars
<1>3. queue'[n] = Tail(s) /\ \A m \in Names \ {n} : queue'[m] = queue[m]
  BY <1>1, <1>2 DEF IInv, TypeOK
<1>4. /\ Sorted(Tail(s))
      /\ \A k \in 1..Len(Tail(s)) : SameFlow(h, Tail(s)[k]) => h.id < Tail(s)[k].id
      /\ {s[k] : k \in 1..Len(s)} = {h} \cup {Tail(s)[k] : k \in 1..Len(Tail(s))}
  BY <1>1, SortedTail
<1>5. InHands' = InHands /\ InWorkQ' = InWorkQ /\ InDelivery = {} /\ InDelivery' = {h}
  BY <1>2 DEF InHands, InWorkQ, InDelivery
<1> HIDE DEF h
<1>6. h \in InQueues /\ h.cls = n /\ InQueues' \subseteq InQueues
  <2>1. h \in InQueues /\ h.cls = n
    <3>1. \E k \in 1..Len(s) : h = s[k]
      BY <1>4
    <3> QED BY <1>1, <3>1 DEF InQueues, IInv, QueueInv
  <2>2. ASSUME NEW m \in Names, NEW k \in 1..Len(queue'[m]) PROVE queue'[m][k] \in InQueues
    <3>1. CASE m = n
      <4>1. queue'[m][k] \in {s[l] : l \in 1..Len(s)}
        BY <1>3, <1>4, <3>1
      <4> QED BY <1>1, <4>1 DEF InQueues
    <3>2. CASE m # n
      BY <1>3, <3>2 DEF InQueues
    <3> QED BY <3>1, <3>2
  <2>3. ASSUME NEW x \in InQueues' PROVE x \in InQueues
    <3>1. PICK m \in Names : \E k \in 1..Len(queue'[m]) : x = queue'[m][k]
      BY ONLY x \in InQueues', Zenon DEF InQueues
    <3> QED BY ONLY <2>2, <3>1, Zenon
  <2> QED BY <2>1, <2>3
<1>7. Precedes({h}, InQueues')
  <2> SUFFICES ASSUME NEW m \in Names, NEW k \in 1..Len(queue'[m]), SameFlow(h, queue'[m][k])
               PROVE  h.id < queue'[m][k].id
    BY DEF Precedes, InQueues
  <2>1. \A q \in Names : \A l \in 1..Len(queue[q]) : queue[q][l].cls = q
    BY DEF IInv, QueueInv
  <2>2. m = n
    BY <1>3, <1>6, <2>1 DEF SameFlow
  <2> QED BY <1>3, <1>4, <2>2
<1>8. PlacesInv'
  <2>1. Precedes({h}, InHands) /\ Precedes(InWorkQ, {h})
    BY <1>6 DEF OrderInv, PlacesInv, Precedes
  <2>2. Precedes(InWorkQ, InQueues') /\ Precedes(InQueues', InHands)
    BY <1>6 DEF OrderInv, PlacesInv, Precedes
  <2> QED BY <1>5, <1>7, <2>1, <2>2 DEF OrderInv, PlacesInv
<1>9. /\ \A m \in Names : Sorted(queue'[m])
      /\ Sorted(workQ') /\ \A q \in InWorkQ' : q.id <= arrived'
      /\ \A i \in Inputs : pkt'[i] # NoPacket => pc'[i] \in Holding
  BY <1>2, <1>3, <1>4, <1>5 DEF OrderInv
<1>10. Underway' \subseteq Underway
  BY <1>5, <1>6 DEF Underway
<1> QED BY <1>2, <1>8, <1>9, <1>10 DEF OrderInv, Moves

(* The scheduler hands its packet to the work queue, or loses it.          *)
LEMMA DeliverOrder == ASSUME IInv, OrderInv, Deliver PROVE OrderInv' /\ Moves
<1>1. /\ UNCHANGED <<queue, pkt, pc, got, arrived, worked>>
      /\ InDelivery = {got} /\ InDelivery' = {}
      /\ got \in Packets /\ got.id <= arrived /\ workQ \in Seq(Packets)
  <2>1. got \in Packets /\ got.id <= arrived
    BY DEF Deliver, IInv, SchedInv, CountInv, TypeOK
  <2> QED BY <2>1 DEF Deliver, ivars, InDelivery, IInv, TypeOK, WorkQ!QTypeOK
<1>2. InHands' = InHands /\ InQueues' = InQueues
  BY <1>1 DEF InHands, InQueues
<1>3. /\ workQ' = workQ \/ workQ' = Append(workQ, got)
  BY DEF Deliver, WorkQ!WriteQueue, WorkQ!qvars
<1>4. Sorted(workQ') /\ InWorkQ' \subseteq InWorkQ \cup {got}
  <2>1. CASE workQ' = workQ
    BY <2>1 DEF OrderInv, InWorkQ
  <2>2. CASE workQ' = Append(workQ, got)
    <3>1. \A k \in 1..Len(workQ) : SameFlow(workQ[k], got) => workQ[k].id < got.id
      BY <1>1 DEF OrderInv, PlacesInv, Precedes, InWorkQ
    <3>2. Sorted(workQ)
      BY DEF OrderInv
    <3>3. /\ Sorted(Append(workQ, got))
          /\ {Append(workQ, got)[k] : k \in 1..Len(Append(workQ, got))}
                = {workQ[k] : k \in 1..Len(workQ)} \cup {got}
      BY ONLY <1>1, <3>1, <3>2, SortedAppend
    <3> QED BY <2>2, <3>3 DEF InWorkQ
  <2> QED BY <1>3, <2>1, <2>2
<1>5. PlacesInv'
  <2>1. Precedes(InWorkQ', InQueues) /\ Precedes(InWorkQ', InHands)
    BY <1>1, <1>4 DEF OrderInv, PlacesInv, Precedes
  <2>2. Precedes(InWorkQ', {}) /\ Precedes({}, InQueues) /\ Precedes({}, InHands)
    BY DEF Precedes
  <2> QED BY <1>1, <1>2, <2>1, <2>2 DEF OrderInv, PlacesInv
<1>6. /\ \A n \in Names : Sorted(queue'[n])
      /\ \A p \in InWorkQ' : p.id <= arrived'
      /\ \A i \in Inputs : pkt'[i] # NoPacket => pc'[i] \in Holding
  BY <1>1, <1>4 DEF OrderInv
<1>7. Underway' \subseteq Underway
  BY <1>1, <1>2, <1>4 DEF Underway
<1> QED BY <1>1, <1>4, <1>5, <1>6, <1>7 DEF OrderInv, Moves

(* The packet that arrives has a higher number than any other.             *)
LEMMA ReceiveOrder ==
    ASSUME IInv, OrderInv, NEW i \in Inputs, Receive(i)
    PROVE  /\ OrderInv'
           /\ UNCHANGED worked /\ arrived' = arrived + 1
           /\ pkt'[i].id = arrived' /\ pkt'[i].in = i /\ pkt'[i].cls \in Names
           /\ Underway' = Underway \cup {pkt'[i]}
<1> DEFINE p == pkt'[i]
<1>1. /\ p \in Packets /\ p.in = i /\ p.id = arrived + 1 /\ p.cls \in Names
      /\ \A j \in Inputs \ {i} : pkt'[j] = pkt[j] /\ pc'[j] = pc[j]
      /\ pc'[i] = "tagged" /\ pkt[i] = NoPacket
  <2>1. Tags \subseteq Names /\ pkt \in [Inputs -> Packets \cup {NoPacket}]
        /\ pc \in [Inputs -> InputState] /\ arrived \in Nat /\ pc[i] \notin Holding
    BY TagsAreNames, PacketCoreAssumption DEF IInv, TypeOK, Receive, Holding
  <2>2. PICK n \in Names : pkt' = [pkt EXCEPT ![i] = [id |-> arrived + 1, in |-> i, cls |-> n]]
    BY <2>1 DEF Receive
  <2>3. p = [id |-> arrived + 1, in |-> i, cls |-> n]
    BY <2>1, <2>2
  <2>4. arrived + 1 \in 1..MaxPackets
    BY <2>1, PacketCoreAssumption DEF Receive
  <2>5. p \in Packets /\ p.in = i /\ p.id = arrived + 1 /\ p.cls \in Names
    BY <2>3, <2>4 DEF Packets
  <2> QED BY <2>1, <2>2, <2>5 DEF Receive, OrderInv
<1>2. UNCHANGED <<queue, workQ, sched, got, worked>> /\ arrived' = arrived + 1
  BY DEF Receive, svars, wvars
<1>3. InQueues' = InQueues /\ InDelivery' = InDelivery /\ InWorkQ' = InWorkQ
  BY <1>2 DEF InQueues, InDelivery, InWorkQ
<1>4. p # NoPacket
  BY <1>1, PacketFacts
<1>5. InHands' = InHands \cup {p}
  BY <1>1, <1>4 DEF InHands
<1>6. \A q \in Underway : q.id < p.id /\ q.id <= arrived'
  <2>1. arrived \in Nat
    BY DEF IInv, TypeOK
  <2> QED BY <1>1, <1>2, <2>1, PlacesFacts
<1>7. PlacesInv'
  <2>1. Precedes(InQueues, {p}) /\ Precedes(InDelivery, {p}) /\ Precedes(InWorkQ, {p})
    BY <1>6 DEF Precedes, Underway
  <2>2. Precedes(InQueues, InHands') /\ Precedes(InDelivery, InHands') /\ Precedes(InWorkQ, InHands')
    BY <1>5, <2>1 DEF Precedes, OrderInv, PlacesInv
  <2> QED BY <1>3, <2>2 DEF OrderInv, PlacesInv
<1>8. /\ Sorted(workQ') /\ \A n \in Names : Sorted(queue'[n])
      /\ \A q \in InWorkQ' : q.id <= arrived'
  BY <1>2, <1>3, <1>6 DEF OrderInv, Underway
<1>9. \A j \in Inputs : pkt'[j] # NoPacket => pc'[j] \in Holding
  BY <1>1 DEF OrderInv, Holding
<1> QED BY <1>1, <1>2, <1>3, <1>5, <1>7, <1>8, <1>9 DEF OrderInv, Underway

(* The worker takes the head of the work queue, which no packet of its     *)
(* flow precedes, or finds nothing.                                        *)
LEMMA WorkOrder ==
    ASSUME IInv, OrderInv, Work
    PROVE  /\ OrderInv' /\ UNCHANGED arrived
           /\ \/ UNCHANGED worked /\ Underway' \subseteq Underway
              \/ \E h \in Underway :
                    /\ worked' = h.id
                    /\ \A q \in Underway' : SameFlow(h, q) => h.id < q.id
                    /\ Underway = Underway' \cup {h}
<1>1. /\ UNCHANGED <<queue, pkt, pc, sched, got, arrived>>
      /\ workQ \in Seq(Packets) /\ Sorted(workQ)
  BY DEF Work, ivars, svars, OrderInv, IInv, TypeOK, WorkQ!QTypeOK
<1>2. InHands' = InHands /\ InQueues' = InQueues /\ InDelivery' = InDelivery
  BY <1>1 DEF InHands, InQueues, InDelivery
<1>3. CASE workQ = <<>>
  <2>1. UNCHANGED <<workQ, worked>>
    BY <1>3 DEF Work, WorkQ!ReadQueue, WorkQ!ResumeRead
  <2> QED BY <1>1, <1>2, <2>1, StillOrder DEF OrderInv, Moves
<1>4. CASE workQ # <<>>
  <2> DEFINE h == Head(workQ)
  <2>1. workQ' = Tail(workQ) /\ worked' = h.id
    BY <1>4 DEF Work, WorkQ!ReadQueue, WorkQ!ResumeRead
  <2>2. /\ Sorted(Tail(workQ))
        /\ \A k \in 1..Len(Tail(workQ)) : SameFlow(h, Tail(workQ)[k]) => h.id < Tail(workQ)[k].id
        /\ {workQ[k] : k \in 1..Len(workQ)} = {h} \cup {Tail(workQ)[k] : k \in 1..Len(Tail(workQ))}
    BY <1>1, <1>4, SortedTail
  <2> HIDE DEF h
  <2>3. InWorkQ = {h} \cup InWorkQ' /\ Sorted(workQ')
    BY <2>1, <2>2 DEF InWorkQ
  <2>4. \A q \in InWorkQ' : SameFlow(h, q) => h.id < q.id
    BY <2>1, <2>2 DEF InWorkQ
  <2>5. \A q \in Underway' : SameFlow(h, q) => h.id < q.id
    BY <1>2, <2>3, <2>4 DEF Underway, OrderInv, PlacesInv, Precedes
  <2>6. PlacesInv'
    BY <1>2, <2>3, PlacesShrink DEF OrderInv
  <2>7. OrderInv'
    BY <1>1, <2>3, <2>6 DEF OrderInv
  <2>8. h \in Underway /\ Underway = Underway' \cup {h}
    BY <1>2, <2>3 DEF Underway
  <2> QED BY <1>1, <2>1, <2>5, <2>7, <2>8
<1> QED BY <1>3, <1>4

LEMMA OrderStep ==
    ASSUME IInv, OrderInv, [Next]_vars
    PROVE  OrderInv' /\ (Moves \/ Work \/ \E i \in Inputs : Receive(i))
<1>1. ASSUME NEW i \in Inputs, WritePacket(i) \/ DownWriting(i) PROVE OrderInv' /\ Moves
  <2>1. /\ pc[i] = "write" /\ queue' \in {queue, Written(pkt[i])}
        /\ pkt' = [pkt EXCEPT ![i] = NoPacket]
        /\ pc' \in {[pc EXCEPT ![i] = "recv"], [pc EXCEPT ![i] = "down"]}
        /\ UNCHANGED <<workQ, arrived, worked, sched, got>>
    BY <1>1 DEF WritePacket, Finish, DownWriting, Cancel, svars, wvars
  <2> QED BY <2>1, WriteOrder
<1>2. ASSUME NEW i \in Inputs, Input(i) PROVE OrderInv' /\ Moves
  BY <1>1, <1>2, InputOrder DEF Input
<1>3. CASE Snapshot \/ CheckCount \/ Wake \/ ScanFault \/ ScanEmpty \/ Uncount
  <2>1. UNCHANGED <<queue, workQ, arrived, worked, pkt, pc>>
    BY <1>3 DEF Snapshot, CheckCount, Wake, ScanFault, ScanEmpty, Uncount, ivars, wvars
  <2>2. sched' # "deliver"
    BY <1>3 DEF Snapshot, CheckCount, Wake, ScanFault, ScanEmpty, Uncount
  <2> QED BY <2>1, <2>2, SearchOrder
<1>4. CASE Scheduler
  BY <1>3, <1>4, ScanTakeOrder, DeliverOrder DEF Scheduler
<1>5. CASE Operator
  <2>1. ASSUME NEW n \in Names, AddQueue(n) PROVE OrderInv' /\ Moves
    BY <2>1, SearchOrder DEF AddQueue, ivars, svars, wvars
  <2> QED BY <1>1, <1>5, <2>1, InputOrder, DelQueueOrder, PacketCoreAssumption DEF Operator
<1>6. CASE UNCHANGED vars
  BY <1>6, SearchOrder DEF vars, ivars, svars, wvars
<1> QED BY <1>2, <1>4, <1>5, <1>6, WorkOrder, ReceiveOrder DEF Next, Idle

(* The steps of the core are steps of PacketLink.                          *)
LEMMA TransitType ==
    ASSUME IInv, OrderInv
    PROVE  Transit \in [Inputs \X Names -> SUBSET (1..arrived)]
<1>1. \A p \in Underway : p.id \in 1..arrived
  BY PlacesFacts, PacketFacts DEF IInv, TypeOK
<1> QED BY <1>1 DEF Transit

LEMMA LinkStep == IInv /\ OrderInv /\ [Next]_vars => Link!LinkNext
<1> SUFFICES ASSUME IInv, OrderInv, [Next]_vars PROVE Link!LinkNext
  OBVIOUS
<1>1. ASSUME Underway' \subseteq Underway, UNCHANGED <<arrived, worked>> PROVE Link!Lose
  <2>1. \A f \in Inputs \X Names : Transit'[f] \subseteq Transit[f]
    BY <1>1 DEF Transit
  <2>2. Transit' \in [Inputs \X Names -> SUBSET (1..arrived)]
    BY <2>1, TransitType DEF Transit
  <2> QED BY <1>1, <2>1, <2>2 DEF Link!Lose
<1>2. CASE Moves
  BY <1>1, <1>2 DEF Moves, Link!LinkNext
<1>3. ASSUME NEW i \in Inputs, Receive(i) PROVE Link!LinkNext
  <2> DEFINE p == pkt'[i]
             f == <<i, p.cls>>
  <2>1. /\ UNCHANGED worked /\ arrived' = arrived + 1
        /\ p.id = arrived + 1 /\ p.in = i /\ p.cls \in Names
        /\ Underway' = Underway \cup {p}
    BY <1>3, ReceiveOrder
  <2>2. f \in Inputs \X Names
    BY <2>1
  <2>3. Transit' = [Transit EXCEPT ![f] = @ \cup {arrived + 1}]
    <3> HIDE DEF p
    <3>1. Transit'[f] = Transit[f] \cup {arrived + 1}
      BY <2>1, <2>2 DEF Transit
    <3>2. \A g \in Inputs \X Names : g # f => Transit'[g] = Transit[g]
      BY <2>1 DEF Transit
    <3> QED BY <2>2, <3>1, <3>2 DEF Transit
  <2>4. Link!Enter(f)
    BY <2>1, <2>3 DEF Link!Enter
  <2> QED BY <2>2, <2>4 DEF Link!LinkNext
<1>4. CASE Work
  <2>1. CASE UNCHANGED worked /\ Underway' \subseteq Underway
    BY <1>1, <1>4, <2>1, WorkOrder DEF Link!LinkNext
  <2>2. CASE \E h \in Underway : /\ worked' = h.id
                                 /\ \A q \in Underway' : SameFlow(h, q) => h.id < q.id
                                 /\ Underway = Underway' \cup {h}
    <3>1. PICK h \in Underway : /\ worked' = h.id
                                /\ \A q \in Underway' : SameFlow(h, q) => h.id < q.id
                                /\ Underway = Underway' \cup {h}
      BY <2>2
    <3> DEFINE f == <<h.in, h.cls>>
    <3>2. f \in Inputs \X Names /\ \A q \in Underway : q.id \in Nat
      BY PlacesFacts, PacketFacts
    <3>3. \A q \in Transit'[f] : h.id < q
      BY <3>1, <3>2 DEF Transit, SameFlow
    <3>4. Transit[f] = Transit'[f] \cup {h.id}
      BY <3>1, <3>2 DEF Transit
    <3>5. \A g \in Inputs \X Names : g # f => Transit'[g] = Transit[g]
      BY <3>1 DEF Transit
    <3>6. worked' \in Transit[f] /\ \A q \in Transit[f] : worked' <= q
      <4>1. worked' = h.id /\ h.id \in Nat
        BY <3>1, <3>2
      <4> HIDE DEF f
      <4>2. \A q \in Transit[f] : q = h.id \/ h.id < q
        BY <3>3, <3>4
      <4>3. \A q \in Transit[f] : q \in Nat
        BY <3>2, TransitType
      <4> QED BY <3>4, <4>1, <4>2, <4>3
    <3>7. Transit'[f] = Transit[f] \ {worked'}
      BY <3>1, <3>2, <3>3, <3>4
    <3>8. Transit' = [Transit EXCEPT ![f] = @ \ {worked'}]
      BY <3>2, <3>5, <3>7 DEF Transit
    <3>9. Link!Exit(f)
      BY <1>4, <3>6, <3>8, WorkOrder DEF Link!Exit
    <3> QED BY <3>2, <3>9 DEF Link!LinkNext
  <2> QED BY <1>4, <2>1, <2>2, WorkOrder
<1> QED BY <1>2, <1>3, <1>4, OrderStep

LEMMA InitOrder == Init => OrderInv /\ Link!LinkInit
<1> SUFFICES ASSUME Init PROVE OrderInv /\ Link!LinkInit
  OBVIOUS
<1>1. InHands = {} /\ InQueues = {} /\ InDelivery = {} /\ InWorkQ = {}
  BY DEF Init, InHands, InQueues, InDelivery, InWorkQ, WorkQ!QInit
<1>2. PlacesInv
  BY <1>1 DEF PlacesInv, Precedes
<1>3. Sorted(workQ) /\ \A n \in Names : Sorted(queue[n])
  BY DEF Init, Sorted, WorkQ!QInit
<1>4. OrderInv
  BY <1>1, <1>2, <1>3 DEF OrderInv, Init
<1>5. Transit = [f \in Inputs \X Names |-> {}]
  BY <1>1 DEF Transit, Underway
<1> QED BY <1>4, <1>5 DEF Link!LinkInit, Init

(* From a device to the worker, a flow of packets loses some of them and   *)
(* is never reordered, and no packet is repeated: the core implements      *)
(* PacketLink, whatever the operator does to queues and interfaces.        *)
THEOREM FlowOrder == Spec => KeepsFlowOrder
<1>1. Init /\ [][Next]_vars => []IInv
  BY InitInv, NextInv, PTL
<1>2. IInv /\ OrderInv /\ [Next]_vars => OrderInv'
  BY OrderStep
<1>3. IInv /\ OrderInv /\ [Next]_vars => [Link!LinkNext]_(Link!lvars)
  BY LinkStep
<1> QED BY <1>1, <1>2, <1>3, InitOrder, PTL DEF Spec, KeepsFlowOrder, Link!LinkSpec
-----------------------------------------------------------------------------
(* Round robin, while the set of queues stays as it is.                    *)

(* The keys of the map, at positions counted from 0 as in the code, and    *)
(* how far position m is behind position k, going round.                   *)
Keys == MapKeys[queues]
Ids == 0..(Len(Keys) - 1)
KeyAt(k) == Keys[k + 1]
Ahead(k, m) == IF k <= m THEN m - k ELSE m - k + Len(Keys)

Searching == {"check", "waiting", "signalled", "scan"}

(* A queue with packets waits at most for the queues between it and the    *)
(* one served last; those the scan has passed were empty, so they have     *)
(* not been bypassed even if they have packets by now.                     *)
TurnInv ==
    /\ \A n \in Names : bypassed[n] > 0 => queue[n] # <<>>
    /\ lastqid \in Ids
    /\ sched \in Searching => keys = Keys /\ nextqid \in Ids
    /\ sched \in Searching \ {"scan"} => nextqid = lastqid
    /\ \A k \in Ids : bypassed[KeyAt(k)] <= Ahead(k, lastqid)
    /\ sched = "scan" => \A k \in Ids : Ahead(k, nextqid) < Ahead(lastqid, nextqid)
                                        => bypassed[KeyAt(k)] = 0

(* Packets are and will be in queues that the scheduler visits.            *)
VisitedInv ==
    /\ \A n \in Names : queue[n] # <<>> => n \in queues
    /\ \A i \in Inputs : pc[i] = "write" => pkt[i].cls \in queues

LEMMA NamesFinite == IsFiniteSet(Names) /\ Cardinality(Names) \in Nat \ {0}
<1> DEFINE s == MapKeys[Names]
<1>1. s \in Seq(Names) /\ {s[k] : k \in 1..Len(s)} = Names
  BY PacketCoreAssumption
<1> HIDE DEF s
<1>2. Len(s) \in Nat /\ s \in [1..Len(s) -> Names] /\ IsFiniteSet(1..Len(s))
  <2>1. Len(s) \in Nat /\ Len(s) \in Int /\ 1 \in Int /\ s \in [1..Len(s) -> Names]
    BY <1>1
  <2> QED BY <2>1, FS_Interval, Zenon
<1>3. s \in Surjection(1..Len(s), Names)
  BY <1>1, <1>2 DEF Surjection
<1>4. IsFiniteSet(Names)
  BY <1>2, <1>3, FS_Surjection
<1> QED BY <1>4, FS_CardinalityType, FS_EmptySet, ConfigAssumption

LEMMA KeysFacts ==
    ASSUME ConfigTypeOK
    PROVE  /\ Keys \in Seq(Names) /\ Len(Keys) \in Nat
           /\ \A k \in Ids : KeyAt(k) \in queues
           /\ \A n \in queues : \E k \in Ids : KeyAt(k) = n
           /\ Len(Keys) <= Cardinality(Names)
<1>1. queues \in SUBSET Names
  BY DEF ConfigTypeOK
<1>2. /\ Keys \in Seq(Names) /\ {Keys[k] : k \in 1..Len(Keys)} = queues
      /\ Len(Keys) = Cardinality(queues)
  BY <1>1, PacketCoreAssumption DEF Keys
<1>3. Len(Keys) \in Nat
  BY <1>2
<1>4. \A k \in Ids : k + 1 \in 1..Len(Keys)
  BY <1>3 DEF Ids
<1>5. \A k \in 1..Len(Keys) : k - 1 \in Ids /\ (k - 1) + 1 = k
  BY <1>3 DEF Ids
<1>6. \A k \in 1..Len(Keys) : KeyAt(k - 1) = Keys[k]
  BY <1>5, Zenon DEF KeyAt
<1>7. \A k \in Ids : KeyAt(k) \in queues
  BY <1>2, <1>4, Zenon DEF KeyAt
<1>8. \A n \in queues : \E k \in Ids : KeyAt(k) = n
  BY <1>2, <1>5, <1>6, Zenon
<1>9. Len(Keys) <= Cardinality(Names)
  BY <1>1, <1>2, NamesFinite, FS_Subset
<1> QED BY <1>2, <1>3, <1>7, <1>8, <1>9

(* The scan goes round the positions.                                      *)
LEMMA NextIdFacts ==
    ASSUME Len(Keys) \in Nat, keys = Keys, nextqid \in Ids
    PROVE  /\ NextId = IF nextqid = Len(Keys) - 1 THEN 0 ELSE nextqid + 1
           /\ NextId \in Ids /\ NextKey = KeyAt(NextId) /\ keys # <<>>
<1>1. PICK L \in Nat : L = Len(Keys)
  OBVIOUS
<1>2. nextqid \in 0..(L - 1) /\ NextId = (1 + nextqid) % L
  BY <1>1 DEF Ids, NextId
<1>3. NextId = IF nextqid = L - 1 THEN 0 ELSE nextqid + 1
  <2>1. CASE nextqid = L - 1
    <3>1. 1 + nextqid = L /\ L > 0
      BY <1>2, <2>1
    <3>2. L % L = 0
      BY <3>1
    <3> QED BY <1>2, <2>1, <3>1, <3>2
  <2>2. CASE nextqid # L - 1
    <3>1. PICK a \in Int : a = 1 + nextqid
      BY <1>2
    <3>2. 0 <= a /\ a < L
      BY <1>2, <2>2, <3>1
    <3>3. a % L = a
      BY <3>2
    <3> QED BY <1>2, <2>2, <3>1, <3>3
  <2> QED BY <2>1, <2>2
<1>4. NextId \in Ids
  BY <1>1, <1>2, <1>3 DEF Ids
<1>5. NextKey = KeyAt(NextId)
  BY Zenon DEF NextKey, KeyAt
<1>6. keys # <<>>
  BY <1>1, <1>2
<1> QED BY <1>1, <1>3, <1>4, <1>5, <1>6

(* Distances as the scan goes from q to m: the positions it has passed are *)
(* those before and m, and the others are as far from l as before.         *)
LEMMA Distances ==
    ASSUME Len(Keys) \in Nat, NEW k \in Ids, NEW l \in Ids, NEW q \in Ids, NEW m \in Ids,
           m = IF q = Len(Keys) - 1 THEN 0 ELSE q + 1
    PROVE  /\ Ahead(k, m) \in Nat /\ Ahead(k, m) < Len(Keys)
           /\ k # m => Ahead(k, m) >= 1
           /\ ~(Ahead(k, k) < Ahead(l, l))
           /\ m # l /\ Ahead(k, m) < Ahead(l, m)
              => k = m \/ Ahead(k, q) < Ahead(l, q)
           /\ k # m /\ ~(Ahead(k, q) < Ahead(l, q))
              => Ahead(k, l) + 1 <= Ahead(k, m)
BY DEF Ids, Ahead
-----------------------------------------------------------------------------
LEMMA ConstantKeys ==
    ASSUME UNCHANGED queues
    PROVE  Keys' = Keys /\ Ids' = Ids /\ \A k, m : /\ KeyAt(k)' = KeyAt(k)
                                                  /\ Ahead(k, m)' = Ahead(k, m)
BY DEF Keys, Ids, KeyAt, Ahead

(* A step that takes no packet and moves no pointer.                       *)
LEMMA TurnUnmoved ==
    ASSUME TurnInv,
           UNCHANGED <<queues, keys, nextqid, lastqid, bypassed>>,
           \A n \in Names : queue'[n] = <<>> => queue[n] = <<>>,
           \/ sched' = sched
           \/ sched \in Searching \ {"scan"} /\ sched' \in Searching
           \/ sched' \notin Searching
    PROVE  TurnInv'
<1>1. Keys' = Keys /\ Ids' = Ids /\ \A k, m : /\ KeyAt(k)' = KeyAt(k)
                                             /\ Ahead(k, m)' = Ahead(k, m)
  BY ConstantKeys
<1>2. /\ \A n \in Names : bypassed'[n] > 0 => queue'[n] # <<>>
      /\ lastqid' \in Ids' /\ \A k \in Ids' : bypassed'[KeyAt(k)'] <= Ahead(k, lastqid)'
  BY <1>1 DEF TurnInv
<1>3. /\ sched' \in Searching => keys' = Keys' /\ nextqid' \in Ids'
      /\ sched' \in Searching \ {"scan"} => nextqid' = lastqid'
  BY <1>1 DEF TurnInv, Searching
<1>4. ASSUME sched' = "scan", NEW k \in Ids', Ahead(k, nextqid)' < Ahead(lastqid, nextqid)'
      PROVE  bypassed'[KeyAt(k)'] = 0
  <2>1. CASE sched' = sched
    BY <1>1, <1>4, <2>1 DEF TurnInv
  <2>2. CASE sched' # sched
    <3>1. sched \in Searching \ {"scan"}
      BY <1>4, <2>2 DEF Searching
    <3>2. nextqid = lastqid /\ nextqid \in Ids /\ k \in Ids
      BY <1>1, <3>1 DEF TurnInv
    <3>3. ~(Ahead(k, lastqid) < Ahead(lastqid, lastqid))
      BY <3>2, KeysFacts DEF Ahead, Ids
    <3> QED BY <1>1, <1>4, <3>2, <3>3
  <2> QED BY <2>1, <2>2
<1> QED BY <1>2, <1>3, <1>4 DEF TurnInv

(* Snapshot starts a search where the last one ended.                      *)
LEMMA TurnSnapshot == ASSUME TurnInv, ConfigTypeOK, Snapshot PROVE TurnInv'
<1>1. /\ UNCHANGED <<queues, queue, lastqid, bypassed>>
      /\ keys' = Keys /\ nextqid' = lastqid /\ sched' = "check"
  BY DEF Snapshot, cvars, Keys
<1>2. Keys' = Keys /\ Ids' = Ids /\ \A k, m : /\ KeyAt(k)' = KeyAt(k)
                                             /\ Ahead(k, m)' = Ahead(k, m)
  BY <1>1, ConstantKeys
<1> QED BY <1>1, <1>2 DEF TurnInv, Searching

(* A queue found empty has not been bypassed.                              *)
LEMMA TurnScanEmpty == ASSUME TurnInv, TypeOK, ScanEmpty PROVE TurnInv'
<1>1. /\ UNCHANGED <<queues, queue, lastqid, bypassed>>
      /\ sched = "scan" /\ queue[NextKey] = <<>> /\ NextKey \in queues
      /\ \/ sched' = "count"
         \/ /\ NextId # lastqid /\ nextqid' = NextId
            /\ UNCHANGED <<sched, keys>>
  BY DEF ScanEmpty, cvars
<1>2. Keys' = Keys /\ Ids' = Ids /\ \A k, m : /\ KeyAt(k)' = KeyAt(k)
                                             /\ Ahead(k, m)' = Ahead(k, m)
  BY <1>1, ConstantKeys
<1>3. /\ keys = Keys /\ nextqid \in Ids /\ lastqid \in Ids /\ Len(Keys) \in Nat
      /\ NextId = IF nextqid = Len(Keys) - 1 THEN 0 ELSE nextqid + 1
      /\ NextId \in Ids /\ NextKey = KeyAt(NextId)
  BY <1>1, KeysFacts, NextIdFacts DEF TurnInv, Searching, TypeOK
<1>4. CASE sched' = "count"
  BY <1>1, <1>2, <1>4 DEF TurnInv, Searching
<1>5. CASE NextId # lastqid /\ nextqid' = NextId /\ UNCHANGED <<sched, keys>>
  <2>1. bypassed[NextKey] = 0
    <3>1. NextKey \in Names /\ bypassed[NextKey] \in Nat
      BY <1>1, <1>3 DEF ConfigTypeOK, TypeOK
    <3> QED BY <1>1, <3>1 DEF TurnInv
  <2>2. ASSUME NEW k \in Ids, Ahead(k, NextId) < Ahead(lastqid, NextId)
        PROVE  bypassed[KeyAt(k)] = 0
    <3>1. k = NextId \/ Ahead(k, nextqid) < Ahead(lastqid, nextqid)
      BY <1>3, <1>5, <2>2, Distances
    <3> QED BY <1>1, <1>3, <2>1, <3>1 DEF TurnInv
  <2> QED BY <1>1, <1>2, <1>3, <1>5, <2>2 DEF TurnInv, Searching
<1> QED BY <1>1, <1>4, <1>5

(* A packet is taken at the next position: the queues the scan did not     *)
(* pass are one turn further behind, and at least one position.            *)
LEMMA TurnScanTake == ASSUME TurnInv, TypeOK, ScanTake PROVE TurnInv'
<1>1. /\ UNCHANGED queues /\ sched = "scan" /\ sched' = "deliver"
      /\ lastqid' = NextId /\ NextKey \in queues
      /\ queue' = [queue EXCEPT ![NextKey] = Tail(@)]
      /\ bypassed' = [n \in Names |-> IF n = NextKey \/ queue[n] = <<>>
                                      THEN 0 ELSE bypassed[n] + 1]
  BY DEF ScanTake, cvars
<1>2. Keys' = Keys /\ Ids' = Ids /\ \A k, m : /\ KeyAt(k)' = KeyAt(k)
                                             /\ Ahead(k, m)' = Ahead(k, m)
  BY <1>1, ConstantKeys
<1>3. /\ keys = Keys /\ nextqid \in Ids /\ lastqid \in Ids /\ Len(Keys) \in Nat
      /\ NextId = IF nextqid = Len(Keys) - 1 THEN 0 ELSE nextqid + 1
      /\ NextId \in Ids /\ NextKey = KeyAt(NextId)
  BY <1>1, KeysFacts, NextIdFacts DEF TurnInv, Searching, TypeOK
<1>4. /\ bypassed \in [Names -> Nat] /\ queue \in [Names -> Seq(Packets)]
      /\ queues \subseteq Names
  BY DEF TypeOK, ConfigTypeOK
<1>5. ASSUME NEW n \in Names, bypassed'[n] > 0
      PROVE  queue'[n] # <<>>
  BY <1>1, <1>4, <1>5
<1>6. ASSUME NEW k \in Ids PROVE bypassed'[KeyAt(k)] <= Ahead(k, NextId)
  <2> DEFINE n == KeyAt(k)
  <2>1. n \in Names
    BY <1>4, KeysFacts DEF TypeOK
  <2>2. /\ Ahead(k, NextId) \in Nat
        /\ k # NextId => Ahead(k, NextId) >= 1
        /\ k # NextId /\ ~(Ahead(k, nextqid) < Ahead(lastqid, nextqid))
           => Ahead(k, lastqid) + 1 <= Ahead(k, NextId)
    BY <1>3, Distances
  <2>3. Ahead(k, lastqid) \in Int
    BY <1>3 DEF Ahead, Ids
  <2> HIDE DEF n
  <2>4. CASE n = NextKey \/ queue[n] = <<>>
    <3>1. bypassed'[n] = 0
      BY <1>1, <2>1, <2>4
    <3> QED BY <2>2, <3>1 DEF n
  <2>5. CASE n # NextKey /\ queue[n] # <<>>
    <3>1. bypassed'[n] = bypassed[n] + 1 /\ bypassed[n] \in Nat
      BY <1>1, <1>4, <2>1, <2>5
    <3>2. k # NextId
      BY <1>3, <2>5 DEF n
    <3>3. CASE Ahead(k, nextqid) < Ahead(lastqid, nextqid)
      <4>1. bypassed[n] = 0
        BY <1>1, <3>3 DEF TurnInv, n
      <4>2. bypassed'[n] <= Ahead(k, NextId)
        BY <2>2, <3>1, <3>2, <4>1
      <4> QED BY <4>2 DEF n
    <3>4. CASE ~(Ahead(k, nextqid) < Ahead(lastqid, nextqid))
      <4>1. bypassed[n] <= Ahead(k, lastqid)
        BY DEF TurnInv, n
      <4>2. bypassed'[n] <= Ahead(k, NextId)
        BY <2>2, <2>3, <3>1, <3>2, <3>4, <4>1
      <4> QED BY <4>2 DEF n
    <3> QED BY <3>3, <3>4
  <2> QED BY <2>4, <2>5
<1> QED BY <1>1, <1>2, <1>3, <1>5, <1>6 DEF TurnInv, Searching
-----------------------------------------------------------------------------
(* The other steps, when the operator leaves the queues alone.             *)
Unmoved ==
    /\ UNCHANGED <<queues, keys, nextqid, lastqid, bypassed>>
    /\ \/ UNCHANGED queue
       \/ \E i \in Inputs : pc[i] = "write" /\ queue' = Written(pkt[i])
    /\ \A i \in Inputs : pc'[i] = "write" =>
          /\ pkt'[i] = pkt[i]
          /\ pc[i] = "write" \/ pkt[i].cls \in queues
    /\ \/ sched' = sched
       \/ sched \in Searching \ {"scan"} /\ sched' \in Searching
       \/ sched' \notin Searching

LEMMA OtherSteps ==
    ASSUME TypeOK, Configurable = {}, [Next]_vars
    PROVE  Unmoved \/ Snapshot \/ ScanEmpty \/ ScanTake
<1>1. pc \in [Inputs -> InputState] /\ pkt \in [Inputs -> Packets \cup {NoPacket}]
  BY DEF TypeOK
<1>2. ASSUME NEW i \in Inputs, Receive(i) \/ Lock(i) \/ Discard(i) PROVE Unmoved
  BY <1>1, <1>2 DEF Receive, Lock, Discard, Finish, Unmoved, cvars, svars
<1>3. ASSUME NEW i \in Inputs, Accept(i) PROVE Unmoved
  <2>1. /\ UNCHANGED <<queues, keys, nextqid, lastqid, bypassed, queue, pkt>>
        /\ pc' = [pc EXCEPT ![i] = "write"] /\ pkt[i].cls \in queues
    BY <1>3 DEF Accept, cvars
  <2>2. sched' = sched \/ (sched = "waiting" /\ sched' = "signalled")
    BY <1>3 DEF Accept, SignalScheduler
  <2>3. \A j \in Inputs : pc'[j] = "write" => j = i \/ pc[j] = "write"
    BY <1>1, <2>1
  <2>4. sched' = sched \/ (sched \in Searching \ {"scan"} /\ sched' \in Searching)
    BY <2>2 DEF Searching
  <2> QED BY <2>1, <2>3, <2>4, Zenon DEF Unmoved
<1>4. ASSUME NEW i \in Inputs, WritePacket(i) PROVE Unmoved
  BY <1>1, <1>4 DEF WritePacket, Finish, Unmoved, cvars, svars
<1>5. CASE CheckCount \/ Wake \/ ScanFault \/ Deliver \/ Uncount
  BY <1>1, <1>5 DEF CheckCount, Wake, ScanFault, Deliver, Uncount, Unmoved, Searching,
                    cvars, ivars
<1>6. CASE Work \/ UNCHANGED vars
  BY <1>1, <1>6 DEF Work, Unmoved, vars, cvars, svars, ivars
<1>7. ASSUME NEW i \in Cancellable, Down(i) \/ DownLocked(i) \/ DownWriting(i)
      PROVE  Unmoved
  <2>1. /\ i \in Inputs
        /\ UNCHANGED <<queues, keys, nextqid, lastqid, bypassed, sched>>
        /\ pc' = [pc EXCEPT ![i] = "down"] /\ pkt' = [pkt EXCEPT ![i] = NoPacket]
    BY <1>7, PacketCoreAssumption DEF Down, DownLocked, DownWriting, Cancel, cvars, svars
  <2>2. queue' = queue \/ (pc[i] = "write" /\ queue' = Written(pkt[i]))
    BY <1>7 DEF Down, DownLocked, DownWriting
  <2>3. \A j \in Inputs : pc'[j] = "write" => pc[j] = "write" /\ pkt'[j] = pkt[j]
    BY <1>1, <2>1
  <2> QED BY <2>1, <2>2, <2>3, Zenon DEF Unmoved
<1>8. ASSUME NEW i \in Cancellable, Up(i) PROVE Unmoved
  <2>1. i \in Inputs
    BY PacketCoreAssumption
  <2> QED BY <1>1, <1>8, <2>1 DEF Up, Unmoved, cvars, svars
<1> QED BY <1>2, <1>3, <1>4, <1>5, <1>6, <1>7, <1>8
        DEF Next, Input, Scheduler, Operator, Idle

LEMMA WrittenNonempty ==
    ASSUME TypeOK, VisitedInv, NEW i \in Inputs, pc[i] = "write", queue' = Written(pkt[i]),
           NEW n \in Names
    PROVE  /\ queue[n] # <<>> => queue'[n] # <<>>
           /\ queue'[n] # <<>> => n \in queues
<1> DEFINE c == pkt[i].cls
<1>1. queue \in [Names -> Seq(Packets)] /\ c \in queues /\ c \in Names
  BY DEF TypeOK, VisitedInv, ConfigTypeOK
<1>2. queue'[n] = queue[n] \/ (n = c /\ queue'[n] = Append(queue[n], pkt[i]))
  <2>1. queue' = queue \/ queue' = [queue EXCEPT ![c] = Append(queue[c], pkt[i])]
    BY DEF Written
  <2> QED BY ONLY <1>1, <2>1
<1>3. Append(queue[n], pkt[i]) # <<>>
  BY <1>1
<1> QED BY <1>1, <1>2, <1>3 DEF VisitedInv

LEMMA VisitedStep ==
    ASSUME TypeOK, VisitedInv, Configurable = {}, [Next]_vars
    PROVE  VisitedInv'
<1>1. queue \in [Names -> Seq(Packets)] /\ queues \subseteq Names
  BY DEF TypeOK, ConfigTypeOK
<1>2. CASE Unmoved
  <2>1. \A n \in Names : queue'[n] # <<>> => n \in queues
    BY <1>2, WrittenNonempty DEF Unmoved, VisitedInv
  <2>2. \A i \in Inputs : pc'[i] = "write" => pkt'[i].cls \in queues
    BY <1>2 DEF Unmoved, VisitedInv
  <2>3. queues' = queues
    BY <1>2 DEF Unmoved
  <2> QED BY <2>1, <2>2, <2>3 DEF VisitedInv
<1>3. CASE Snapshot \/ ScanEmpty
  BY <1>3 DEF Snapshot, ScanEmpty, VisitedInv, cvars, ivars
<1>4. CASE ScanTake
  <2>1. /\ UNCHANGED <<queues, pc, pkt>> /\ NextKey \in queues
        /\ queue' = [queue EXCEPT ![NextKey] = Tail(@)]
    BY <1>4 DEF ScanTake, cvars, ivars
  <2>2. \A n \in Names : queue'[n] # <<>> => (n = NextKey \/ queue[n] # <<>>)
    BY <1>1, <2>1
  <2> QED BY <2>1, <2>2 DEF VisitedInv
<1> QED BY <1>2, <1>3, <1>4, OtherSteps

LEMMA TurnStep ==
    ASSUME TypeOK, VisitedInv, TurnInv, Configurable = {}, [Next]_vars
    PROVE  TurnInv'
<1>1. CASE Unmoved
  <2>1. \A n \in Names : queue'[n] = <<>> => queue[n] = <<>>
    BY <1>1, WrittenNonempty DEF Unmoved
  <2> QED BY <1>1, <2>1, TurnUnmoved DEF Unmoved, TypeOK
<1> QED BY <1>1, OtherSteps, TurnSnapshot, TurnScanEmpty, TurnScanTake DEF TypeOK

LEMMA InitTurn == Init => TurnInv /\ VisitedInv
<1> SUFFICES ASSUME Init PROVE TurnInv /\ VisitedInv
  OBVIOUS
<1>1. ConfigTypeOK
  BY InitInv DEF IInv, TypeOK
<1>2. /\ \A k \in Ids : KeyAt(k) \in Names
      /\ Len(Keys) \in Nat /\ 0 \in Ids
  <2>1. Default \in queues
    BY ConfigAssumption DEF Init, ConfigInit
  <2> QED BY <1>1, <2>1, KeysFacts DEF Ids, ConfigTypeOK
<1>3. /\ queue = [n \in Names |-> <<>>] /\ bypassed = [n \in Names |-> 0]
      /\ lastqid = 0 /\ sched = "top" /\ pc = [i \in Inputs |-> "recv"]
  BY DEF Init
<1>4. \A k \in Ids : bypassed[KeyAt(k)] <= Ahead(k, lastqid)
  BY <1>2, <1>3 DEF Ids, Ahead
<1> QED BY <1>2, <1>3, <1>4 DEF TurnInv, VisitedInv, Searching

LEMMA TurnBound ==
    ASSUME TypeOK, TurnInv, VisitedInv
    PROVE  BoundedBypass
<1> SUFFICES ASSUME NEW n \in Names PROVE bypassed[n] < Cardinality(Names)
  BY DEF BoundedBypass
<1>1. bypassed[n] \in Nat /\ Cardinality(Names) \in Nat \ {0}
  BY NamesFinite DEF TypeOK
<1>2. CASE n \in queues
  <2>1. PICK k \in Ids : KeyAt(k) = n
    BY <1>2, KeysFacts DEF TypeOK
  <2>2. bypassed[n] <= Ahead(k, lastqid) /\ lastqid \in Ids
    BY <2>1 DEF TurnInv
  <2>3. Len(Keys) \in Nat /\ Len(Keys) <= Cardinality(Names)
    BY KeysFacts DEF TypeOK
  <2>4. Ahead(k, lastqid) < Len(Keys) /\ Ahead(k, lastqid) \in Nat
    BY <2>2, <2>3 DEF Ahead, Ids
  <2> QED BY <1>1, <2>2, <2>3, <2>4
<1>3. CASE n \notin queues
  <2>1. bypassed[n] = 0
    BY <1>1, <1>3 DEF TurnInv, VisitedInv
  <2> QED BY <1>1, <2>1
<1> QED BY <1>2, <1>3

(* Round robin, for any number of classes and packets: while the operator  *)
(* adds and deletes no queue, a queue that holds a packet is served before *)
(* any other queue is served twice, whatever arrives, is lost or is        *)
(* cancelled during the scan (roundRobinScheduler and its nextqid).        *)
THEOREM RoundRobin == ASSUME Configurable = {} PROVE Spec => []BoundedBypass
<1>1. Init /\ [][Next]_vars => []TypeOK
  BY TypeCorrect DEF Spec
<1>2. TypeOK /\ VisitedInv /\ TurnInv /\ [Next]_vars => VisitedInv' /\ TurnInv'
  BY VisitedStep, TurnStep
<1> QED BY <1>1, <1>2, InitTurn, TurnBound, PTL DEF Spec
=============================================================================
