----------------------------- MODULE PacketCore -----------------------------
(***************************************************************************)
(* The packet core of the router: the threads that read the devices        *)
(* (ethernet.c and its siblings) classify packets and put them in the      *)
(* class queues, the round-robin scheduler moves them one by one to the    *)
(* work queue, and the worker takes them from there; meanwhile the         *)
(* operator adds and deletes queues and takes interfaces down and up.      *)
(*                                                                         *)
(* One critical section is one step.  The places where a thread holds no   *)
(* lock, or where it can be cancelled with one, are values of pc and       *)
(* sched.  Queue additions and deletions take no lock in the code; each    *)
(* is one step here because its parts commute with the other threads'      *)
(* critical sections, the inside of libslack's map aside.                  *)
(***************************************************************************)
EXTENDS QueueConfig

CONSTANTS Inputs,       (* the device threads                            *)
          Cancellable,  (* those an operator may take down               *)
          Worker,       (* the packetProcessor thread                    *)
          MapKeys,      (* map_keys: a set of names in its hash order    *)
          Capacity,     (* maxsize of the queue of each name             *)
          Red,          (* the names whose queue has the qdisc "red"     *)
          Configurable, (* the names the operator adds and deletes       *)
          WorkQSize,    (* maxsize of the work queue                     *)
          MaxPackets,   (* bound on the packets that arrive              *)
          NoPacket, Free, Dead

Packets == [id : 1..MaxPackets, in : Inputs, cls : Names]

ASSUME PacketCoreAssumption ==
    /\ Cancellable \subseteq Inputs
    /\ MapKeys \in [SUBSET Names -> Seq(Names)]
    /\ \A S \in SUBSET Names :
          /\ {MapKeys[S][k] : k \in 1..Len(MapKeys[S])} = S
          /\ Len(MapKeys[S]) = Cardinality(S)
    /\ Capacity \in [Names -> Nat \ {0}]
    /\ Red \subseteq Names /\ Configurable \subseteq Names
    /\ WorkQSize \in Nat /\ MaxPackets \in Nat
    /\ NoPacket \notin Packets
    /\ Free \notin Inputs /\ Dead \notin Inputs /\ Free # Dead

VARIABLES
    queue,      (* queue[n]: the packets in the queue of class n            *)
    stuck,      (* the queues whose own mutex a cancelled thread holds      *)
    qlock,      (* pcore->qlock: its holder, Free, or Dead if that thread   *)
                (* was cancelled                                            *)
    packetcnt,  (* pcore->packetcnt                                         *)
    counted,    (* history: the packets that packetcnt counts               *)
    pc, pkt,    (* of each device thread: where it is, its packet           *)
    orphan,     (* the threads whose thisq is no longer in the map          *)
    sched,      (* where the scheduler is                                   *)
    keys,       (* the scheduler's keylst                                   *)
    stale,      (* the names in keys freed since map_keys shared them       *)
    nextqid, lastqid,
    got,        (* the packet the scheduler has read, or NoPacket           *)
    workQ, worker,
    arrived,    (* history: the packets received so far                     *)
    worked,     (* history: the id of the packet handed to the worker last  *)
    bypassed    (* history: how many packets of others were taken while     *)
                (* queue n had one                                          *)

ivars == <<pc, pkt, orphan>>
svars == <<sched, keys, stale, nextqid, lastqid, got>>
wvars == <<workQ, worker, worked>>
vars == <<cvars, queue, stuck, qlock, packetcnt, counted, ivars, svars, wvars,
          arrived, bypassed>>

WorkQ == INSTANCE SimpleQueue WITH Readers <- {Worker}, Messages <- Packets,
             MaxSize <- WorkQSize, queue <- workQ, reader <- worker

InputState == {"recv", "tagged", "locked", "write", "down"}

SchedState == {"top", "check", "waiting", "signalled", "scan", "deliver",
               "count", "faulted"}

TypeOK == /\ ConfigTypeOK
          /\ queue \in [Names -> Seq(Packets)]
          /\ stuck \subseteq Names
          /\ qlock \in Inputs \cup {Free, Dead}
          /\ packetcnt \in Nat /\ counted \subseteq Packets
          /\ pc \in [Inputs -> InputState]
          /\ pkt \in [Inputs -> Packets \cup {NoPacket}]
          /\ orphan \subseteq Inputs
          /\ sched \in SchedState
          /\ keys \in Seq(Names) /\ stale \subseteq Names
          /\ nextqid \in Nat /\ lastqid \in Nat
          /\ got \in Packets \cup {NoPacket}
          /\ WorkQ!QTypeOK /\ worked \in 0..MaxPackets
          /\ arrived \in 0..MaxPackets
          /\ bypassed \in [Names -> Nat]

Init == /\ ConfigInit
        /\ queue = [n \in Names |-> <<>>]
        /\ stuck = {}
        /\ qlock = Free
        /\ packetcnt = 0 /\ counted = {}
        /\ pc = [i \in Inputs |-> "recv"]
        /\ pkt = [i \in Inputs |-> NoPacket]
        /\ orphan = {}
        /\ sched = "top"
        /\ keys = <<>> /\ stale = {}
        /\ nextqid = 0 /\ lastqid = 0
        /\ got = NoPacket
        /\ WorkQ!QInit /\ worked = 0
        /\ arrived = 0
        /\ bypassed = [n \in Names |-> 0]

(* A fault of the scheduler is a fault of the process.                     *)
Running == sched # "faulted"
-----------------------------------------------------------------------------
(* The device threads.                                                     *)

(* fromEthernetDev reads a frame meant for this router and enqueuePacket   *)
(* gives it a class.  A frame for someone else, and one that the filter    *)
(* rejects, changes nothing and is no step.                                *)
Receive(i) ==
    /\ Running /\ pc[i] = "recv" /\ arrived < MaxPackets
    /\ \E n \in Tags : pkt' = [pkt EXCEPT ![i] = [id |-> arrived + 1, in |-> i, cls |-> n]]
    /\ pc' = [pc EXCEPT ![i] = "tagged"]
    /\ arrived' = arrived + 1
    /\ UNCHANGED <<cvars, queue, stuck, qlock, packetcnt, counted, orphan, svars,
                   wvars, bypassed>>

(* enqueuePacket: pthread_mutex_lock(&pcore->qlock).                       *)
Lock(i) ==
    /\ Running /\ pc[i] = "tagged" /\ qlock = Free
    /\ qlock' = i
    /\ pc' = [pc EXCEPT ![i] = "locked"]
    /\ UNCHANGED <<cvars, queue, stuck, packetcnt, counted, pkt, orphan, svars,
                   wvars, arrived, bypassed>>

(* The thread is done with its packet and receives the next one.           *)
Finish(i) == /\ pc' = [pc EXCEPT ![i] = "recv"]
             /\ pkt' = [pkt EXCEPT ![i] = NoPacket]

(* enqueuePacket frees the packet: its queue is gone, or full, or has RED, *)
(* whose draw can go either way at any length.                             *)
Discard(i) ==
    /\ Running /\ pc[i] = "locked"
    /\ LET n == pkt[i].cls IN \/ n \notin queues
                              \/ Len(queue[n]) >= Capacity[n]
                              \/ n \in Red
    /\ qlock' = Free
    /\ Finish(i)
    /\ UNCHANGED <<cvars, queue, stuck, packetcnt, counted, orphan, svars,
                   wvars, arrived, bypassed>>

(* pthread_cond_signal(&pcore->schwaiting); the scheduler alone waits.     *)
SignalScheduler == sched' = IF sched = "waiting" THEN "signalled" ELSE sched

(* Mutant of Accept: tests the count before it has grown.                  *)
AcceptTestsOldCount(i) ==
    /\ Running /\ pc[i] = "locked"
    /\ pkt[i].cls \in queues
    /\ Len(queue[pkt[i].cls]) < Capacity[pkt[i].cls]
    /\ packetcnt' = packetcnt + 1
    /\ counted' = counted \cup {pkt[i]}
    /\ IF packetcnt = 1 THEN SignalScheduler ELSE UNCHANGED sched
    /\ qlock' = Free
    /\ pc' = [pc EXCEPT ![i] = "write"]
    /\ UNCHANGED <<cvars, queue, stuck, pkt, orphan, keys, stale, nextqid, lastqid,
                   got, wvars, arrived, bypassed>>

(* enqueuePacket counts the packet, wakes the scheduler and unlocks; the   *)
(* packet is not in the queue yet.                                         *)
Accept(i) ==
    /\ Running /\ pc[i] = "locked"
    /\ pkt[i].cls \in queues
    /\ Len(queue[pkt[i].cls]) < Capacity[pkt[i].cls]
    /\ packetcnt' = packetcnt + 1
    /\ counted' = counted \cup {pkt[i]}
    /\ IF packetcnt' = 1 THEN SignalScheduler ELSE UNCHANGED sched
    /\ qlock' = Free
    /\ pc' = [pc EXCEPT ![i] = "write"]
    /\ UNCHANGED <<cvars, queue, stuck, pkt, orphan, keys, stale, nextqid, lastqid,
                   got, wvars, arrived, bypassed>>

(* Mutants of Written: no test of the size; list_unshift for list_push.    *)
WrittenUnbounded(p) == [queue EXCEPT ![p.cls] = Append(@, p)]
WrittenInFront(p) == IF Len(queue[p.cls]) < Capacity[p.cls]
                     THEN [queue EXCEPT ![p.cls] = <<p>> \o @]
                     ELSE queue

(* What writeQueue leaves in a class queue: a full one refuses the packet, *)
(* which nobody frees or uncounts.                                         *)
Written(p) == IF Len(queue[p.cls]) < Capacity[p.cls]
              THEN [queue EXCEPT ![p.cls] = Append(@, p)]
              ELSE queue

(* enqueuePacket: writeQueue(thisq, ...), outside pcore->qlock.  A queue   *)
(* deleted in the meantime takes the packet with it.                       *)
WritePacket(i) ==
    /\ Running /\ pc[i] = "write"
    /\ IF i \in orphan
       THEN UNCHANGED queue
       ELSE pkt[i].cls \notin stuck /\ queue' = Written(pkt[i])
    /\ orphan' = orphan \ {i}
    /\ Finish(i)
    /\ UNCHANGED <<cvars, stuck, qlock, packetcnt, counted, svars, wvars,
                   arrived, bypassed>>
-----------------------------------------------------------------------------
(* The scheduler.                                                          *)

(* The top of its loop: the keys and the start are read before the lock.   *)
Snapshot ==
    /\ sched = "top"
    /\ keys' = MapKeys[queues]
    /\ stale' = {}
    /\ nextqid' = lastqid
    /\ sched' = "check"
    /\ UNCHANGED <<cvars, queue, stuck, qlock, packetcnt, counted, ivars, lastqid,
                   got, wvars, arrived, bypassed>>

(* Mutant of CheckCount: waits with one packet left.                       *)
CheckCountOffByOne ==
    /\ sched = "check" /\ qlock = Free
    /\ sched' = IF packetcnt <= 1 THEN "waiting" ELSE "scan"
    /\ UNCHANGED <<cvars, queue, stuck, qlock, packetcnt, counted, ivars, keys,
                   stale, nextqid, lastqid, got, wvars, arrived, bypassed>>

(* It waits when there is nothing to schedule, and looks once only.        *)
CheckCount ==
    /\ sched = "check" /\ qlock = Free
    /\ sched' = IF packetcnt = 0 THEN "waiting" ELSE "scan"
    /\ UNCHANGED <<cvars, queue, stuck, qlock, packetcnt, counted, ivars, keys,
                   stale, nextqid, lastqid, got, wvars, arrived, bypassed>>

(* pthread_cond_wait returns once it has the mutex.                        *)
Wake ==
    /\ sched = "signalled" /\ qlock = Free
    /\ sched' = "scan"
    /\ UNCHANGED <<cvars, queue, stuck, qlock, packetcnt, counted, ivars, keys,
                   stale, nextqid, lastqid, got, wvars, arrived, bypassed>>

NextId == (1 + nextqid) % Len(keys)

NextKey == keys[NextId + 1]

(* No key to scan, a key whose queue is gone (readQueue dereferences NULL) *)
(* or a key string that has been freed, whatever it reads as.              *)
ScanFault ==
    /\ sched = "scan"
    /\ keys # <<>> => NextKey \notin queues \/ NextKey \in stale
    /\ sched' = "faulted"
    /\ UNCHANGED <<cvars, queue, stuck, qlock, packetcnt, counted, ivars, keys,
                   stale, nextqid, lastqid, got, wvars, arrived, bypassed>>

(* The end of the loop: list_release(keylst).                              *)
Release == keys' = <<>> /\ stale' = {} /\ nextqid' = 0

(* Mutant of ScanEmpty: goes on to the work queue without a packet.        *)
ScanEmptyDelivers ==
    /\ sched = "scan" /\ keys # <<>>
    /\ NextKey \in queues \ stuck /\ queue[NextKey] = <<>>
    /\ sched' = "deliver" /\ Release
    /\ UNCHANGED <<cvars, queue, stuck, qlock, packetcnt, counted, ivars,
                   lastqid, got, wvars, arrived, bypassed>>

(* readQueue finds the queue empty: the scan goes on until it is back at   *)
(* the queue served last.                                                  *)
ScanEmpty ==
    /\ sched = "scan" /\ keys # <<>>
    /\ NextKey \in queues \ stuck /\ queue[NextKey] = <<>>
    /\ IF NextId = lastqid
       THEN sched' = "count" /\ Release
       ELSE nextqid' = NextId /\ UNCHANGED <<sched, keys, stale>>
    /\ UNCHANGED <<cvars, queue, stuck, qlock, packetcnt, counted, ivars,
                   lastqid, got, wvars, arrived, bypassed>>

(* Mutant of ScanTake: pcore->lastqid is not set.                          *)
ScanTakeForgetsQueue ==
    /\ sched = "scan" /\ keys # <<>>
    /\ NextKey \in queues \ stuck /\ queue[NextKey] # <<>>
    /\ got' = Head(queue[NextKey])
    /\ queue' = [queue EXCEPT ![NextKey] = Tail(@)]
    /\ sched' = "deliver"
    /\ Release
    /\ bypassed' = [n \in Names |-> IF n = NextKey \/ queue[n] = <<>>
                                    THEN 0 ELSE bypassed[n] + 1]
    /\ UNCHANGED <<cvars, stuck, qlock, packetcnt, counted, ivars, wvars, arrived,
                   lastqid>>

(* readQueue takes a packet.                                               *)
ScanTake ==
    /\ sched = "scan" /\ keys # <<>>
    /\ NextKey \in queues \ stuck /\ queue[NextKey] # <<>>
    /\ got' = Head(queue[NextKey])
    /\ queue' = [queue EXCEPT ![NextKey] = Tail(@)]
    /\ lastqid' = NextId
    /\ sched' = "deliver"
    /\ Release
    /\ bypassed' = [n \in Names |-> IF n = NextKey \/ queue[n] = <<>>
                                    THEN 0 ELSE bypassed[n] + 1]
    /\ UNCHANGED <<cvars, stuck, qlock, packetcnt, counted, ivars, wvars, arrived>>

(* writeQueue(pcore->workQ, ...); a full work queue loses the packet.      *)
Deliver ==
    /\ sched = "deliver"
    /\ WorkQ!WriteQueue(got)
    /\ sched' = "count"
    /\ UNCHANGED <<cvars, queue, stuck, qlock, packetcnt, counted, ivars, keys,
                   stale, nextqid, lastqid, got, worked, arrived, bypassed>>

(* Mutant of Uncount: does not look at rstatus.                            *)
UncountAlways ==
    /\ sched = "count" /\ qlock = Free
    /\ packetcnt' = packetcnt - 1 /\ counted' = counted \ {got}
    /\ got' = NoPacket
    /\ sched' = "top"
    /\ UNCHANGED <<cvars, queue, stuck, qlock, ivars, keys, stale, nextqid,
                   lastqid, wvars, arrived, bypassed>>

(* packetcnt goes down by the packet read, if there was one.               *)
Uncount ==
    /\ sched = "count" /\ qlock = Free
    /\ IF got = NoPacket
       THEN UNCHANGED <<packetcnt, counted>>
       ELSE packetcnt' = packetcnt - 1 /\ counted' = counted \ {got}
    /\ got' = NoPacket
    /\ sched' = "top"
    /\ UNCHANGED <<cvars, queue, stuck, qlock, ivars, keys, stale, nextqid,
                   lastqid, wvars, arrived, bypassed>>
-----------------------------------------------------------------------------
(* packetProcessor calls readQueue, and is back when it has handled the    *)
(* packet it got.                                                          *)
Work ==
    /\ Running
    /\ WorkQ!ReadQueue(Worker) \/ WorkQ!ResumeRead(Worker)
    /\ worked' = IF workQ = <<>> THEN worked ELSE Head(workQ).id
    /\ UNCHANGED <<cvars, queue, stuck, qlock, packetcnt, counted, ivars, svars,
                   arrived, bypassed>>
-----------------------------------------------------------------------------
(* The operator.                                                           *)

(* "queue add": the queue starts empty, and an existing one is kept.       *)
AddQueue(n) ==
    /\ Running
    /\ AddPktCoreQueue(n)
    /\ UNCHANGED <<queue, stuck, qlock, packetcnt, counted, ivars, svars, wvars,
                   arrived, bypassed>>

(* "queue del": what the queue holds stays in it, out of reach.            *)
DelQueue(n) ==
    /\ Running
    /\ DelPktCoreQueue(n)
    /\ queue' = [queue EXCEPT ![n] = <<>>]
    /\ stuck' = stuck \ {n}
    /\ orphan' = orphan \cup {i \in Inputs : pc[i] = "write" /\ pkt[i].cls = n}
    /\ stale' = stale \cup ({n} \cap {keys[k] : k \in 1..Len(keys)})
    /\ bypassed' = [bypassed EXCEPT ![n] = 0]
    /\ UNCHANGED <<qlock, packetcnt, counted, pc, pkt, sched, keys, nextqid,
                   lastqid, got, wvars, arrived>>

(* downThisInterface cancels the thread at once, wherever it is: its       *)
(* packet is lost and the mutexes it holds are never released.             *)
Cancel(i) == /\ Running /\ i \in Cancellable
             /\ pc' = [pc EXCEPT ![i] = "down"]
             /\ pkt' = [pkt EXCEPT ![i] = NoPacket]
             /\ orphan' = orphan \ {i}
             /\ UNCHANGED <<cvars, svars, wvars, arrived, bypassed>>

Down(i) ==
    /\ pc[i] \in {"recv", "tagged", "write"}
    /\ Cancel(i)
    /\ UNCHANGED <<queue, stuck, qlock, packetcnt, counted>>

(* Cancelled with pcore->qlock, before or after it counted the packet.     *)
DownLocked(i) ==
    /\ pc[i] = "locked"
    /\ Cancel(i)
    /\ qlock' = Dead
    /\ \/ UNCHANGED <<packetcnt, counted>>
       \/ /\ pkt[i].cls \in queues
          /\ packetcnt' = packetcnt + 1
          /\ counted' = counted \cup {pkt[i]}
    /\ UNCHANGED <<queue, stuck>>

(* Cancelled inside writeQueue, before or after the packet was appended.   *)
DownWriting(i) ==
    /\ pc[i] = "write" /\ i \notin orphan /\ pkt[i].cls \notin stuck
    /\ Cancel(i)
    /\ stuck' = stuck \cup {pkt[i].cls}
    /\ queue' \in {queue, Written(pkt[i])}
    /\ UNCHANGED <<qlock, packetcnt, counted>>

(* upThisInterface starts a new thread.                                    *)
Up(i) ==
    /\ Running /\ pc[i] = "down"
    /\ pc' = [pc EXCEPT ![i] = "recv"]
    /\ UNCHANGED <<cvars, queue, stuck, qlock, packetcnt, counted, pkt, orphan,
                   svars, wvars, arrived, bypassed>>
-----------------------------------------------------------------------------
(* Every packet of the bounded run has been dealt with and all wait for    *)
(* the next one.                                                           *)
Idle == /\ arrived = MaxPackets
        /\ \A i \in Inputs : pc[i] = "recv"
        /\ sched = "waiting"
        /\ worker[Worker] = "waiting"
        /\ UNCHANGED vars

Input(i) == Lock(i) \/ Discard(i) \/ Accept(i) \/ WritePacket(i)

Scheduler == \/ Snapshot \/ CheckCount \/ Wake \/ ScanFault \/ ScanEmpty
             \/ ScanTake \/ Deliver \/ Uncount

Operator == \/ \E n \in Configurable : AddQueue(n) \/ DelQueue(n)
            \/ \E i \in Cancellable :
                  Down(i) \/ DownLocked(i) \/ DownWriting(i) \/ Up(i)

Next == \/ \E i \in Inputs : Receive(i) \/ Input(i)
        \/ Scheduler
        \/ Work
        \/ Operator
        \/ Idle

Spec == Init /\ [][Next]_vars

(* The operating system runs the threads and hands a mutex that is free    *)
(* to one that asks for it; nothing makes a packet arrive.                 *)
FairSpec == /\ Spec
            /\ WF_vars(Scheduler)
            /\ \A i \in Inputs : WF_vars(Input(i))
            /\ WF_vars(Work)
-----------------------------------------------------------------------------
(* Where the packets of the core are.                                      *)
InHands == {pkt[i] : i \in Inputs} \ {NoPacket}
InQueues == UNION {{queue[n][k] : k \in 1..Len(queue[n])} : n \in Names}
InDelivery == IF sched = "deliver" THEN {got} ELSE {}
InWorkQ == {workQ[k] : k \in 1..Len(workQ)}

(* The packets the scheduler still owes the worker: queued in a class,     *)
(* about to be, or read and not uncounted.                                 *)
Backlog == InQueues \cup {pkt[i] : i \in {j \in Inputs : pc[j] = "write"}}
           \cup ({got} \ {NoPacket})

(* packetcnt never falls below the number of packets it stands for, though *)
(* the count is taken before a packet is queued and given back after it    *)
(* was delivered, by threads that hold the mutex at different times.       *)
CountCoversBacklog == Cardinality(Backlog) <= packetcnt

(* The scheduler does not sleep on work: "The enqueue will wake up a       *)
(* sleeping scheduler" (packetcore.c:318), although only the enqueue that  *)
(* takes packetcnt to 1 signals, and it does so before it writes.          *)
NoSleepOnBacklog == sched = "waiting" /\ qlock # Dead => Backlog = {}

(* Two threads may both find one free slot, for the test of enqueuePacket  *)
(* and the write are not one critical section: writeQueue's own test keeps *)
(* the queue within its size.                                              *)
QueueBound == \A n \in Names : Len(queue[n]) <= Capacity[n]

(* The worker does not sleep on a work queue that holds packets.           *)
WorkerAwake == WorkQ!NoLostWakeup

(* Round robin: while a queue holds a packet, each other queue is served   *)
(* at most once before it.  Holds while the set of queues does not change. *)
BoundedBypass == \A n \in Names : bypassed[n] < Cardinality(Names)

(* "The dequeue will put the scheduler in wait when it runs out of jobs in *)
(* the queue" (packetcore.c:317): with no packet anywhere in the core,     *)
(* packetcnt is 0.                                                         *)
SchedulerSleepsWhenIdle == Backlog = {} /\ qlock = Free => packetcnt = 0

(* A packet that is in a class queue reaches the worker.                   *)
Forwarded == \A p \in 1..MaxPackets :
                (\E n \in Names : \E k \in 1..Len(queue[n]) : queue[n][k].id = p)
                    ~> worked = p

(* Taking an interface down stops "only fromXDevice thread" (gnet.c:606):  *)
(* the thread of an interface that stays up gets through enqueuePacket.    *)
OnlyThatThreadStops == \A i \in Inputs \ Cancellable :
                          pc[i] = "tagged" ~> pc[i] = "recv"

(* The packets between a device and the worker, by device and class, and   *)
(* the refinement of PacketLink they make.                                 *)
Underway == InHands \cup InQueues \cup InDelivery \cup InWorkQ

Transit == [f \in Inputs \X Names |->
               {p.id : p \in {q \in Underway : q.in = f[1] /\ q.cls = f[2]}}]

Link == INSTANCE PacketLink WITH Flows <- Inputs \X Names, transit <- Transit,
            entered <- arrived, out <- worked

(* Between a device and the worker a flow only ever loses packets: it      *)
(* keeps its order, and no packet is handed over twice.                    *)
KeepsFlowOrder == Link!LinkSpec
=============================================================================
