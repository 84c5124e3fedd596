---------------------------- MODULE SimpleQueue ----------------------------
(***************************************************************************)
(* The message queue of grouter/simplequeue.c: a list, its size and two    *)
(* condition variables behind one mutex.  A critical section is one step;  *)
(* pthread_cond_wait ends one and its return begins another, so a reader   *)
(* that blocks takes its element in a later step than the one in which it  *)
(* found the queue empty.                                                  *)
(*                                                                         *)
(* This is the kind of queue that has threads blocked on it: blockonread   *)
(* is 1 and blockonwrite 0 in the work, output and console queues, so a    *)
(* write to a full queue fails at once and qfull is never waited on.  A    *)
(* condition variable wakes a thread only when it is signalled.            *)
(***************************************************************************)
EXTENDS Naturals, Sequences

CONSTANTS Readers,      (* the threads that call readQueue               *)
          Messages,     (* what is queued                                *)
          MaxSize       (* maxsize, a natural number                     *)

VARIABLES queue,        (* the list; cursize is its length               *)
          reader        (* where each reader is                          *)

qvars == <<queue, reader>>

(* "out": not in readQueue; "waiting": blocked on qempty; "signalled":     *)
(* woken, but without the mutex yet; "faulted": dereferenced the NULL that *)
(* list_shift returns for an empty list.                                   *)
ReaderState == {"out", "waiting", "signalled", "faulted"}

QTypeOK == /\ queue \in Seq(Messages)
           /\ reader \in [Readers -> ReaderState]

QInit == /\ queue = <<>>
         /\ reader = [r \in Readers |-> "out"]

Sleepers == {r \in Readers : reader[r] = "waiting"}

(* pthread_cond_signal(&qempty): wakes one waiting reader, if any.         *)
SignalOne == IF Sleepers = {}
             THEN UNCHANGED reader
             ELSE \E r \in Sleepers : reader' = [reader EXCEPT ![r] = "signalled"]

(* Mutant of WriteQueue: tests the size before it has grown.               *)
WriteQueueTestsOldSize(m) ==
    \/ /\ Len(queue) < MaxSize
       /\ queue' = Append(queue, m)
       /\ IF Len(queue) = 1 THEN SignalOne ELSE UNCHANGED reader
    \/ Len(queue) >= MaxSize /\ UNCHANGED qvars

(* writeQueue.  Only the write that makes the size 1 signals; a write to a *)
(* full queue returns EXIT_FAILURE.                                        *)
WriteQueue(m) ==
    \/ /\ Len(queue) < MaxSize
       /\ queue' = Append(queue, m)
       /\ IF queue = <<>> THEN SignalOne ELSE UNCHANGED reader
    \/ Len(queue) >= MaxSize /\ UNCHANGED qvars

(* readQueue: takes the head, or blocks when there is none.                *)
ReadQueue(r) ==
    /\ reader[r] = "out"
    /\ \/ queue # <<>> /\ queue' = Tail(queue) /\ UNCHANGED reader
       \/ queue = <<>> /\ reader' = [reader EXCEPT ![r] = "waiting"] /\ UNCHANGED queue

(* The return of pthread_cond_wait in readQueue: the list is shifted with  *)
(* no second look at cursize.                                              *)
ResumeRead(r) ==
    /\ reader[r] = "signalled"
    /\ \/ queue # <<>> /\ queue' = Tail(queue) /\ reader' = [reader EXCEPT ![r] = "out"]
       \/ queue = <<>> /\ reader' = [reader EXCEPT ![r] = "faulted"] /\ UNCHANGED queue

QNext == \/ \E m \in Messages : WriteQueue(m)
         \/ \E r \in Readers : ReadQueue(r) \/ ResumeRead(r)

QSpec == QInit /\ [][QNext]_qvars
-----------------------------------------------------------------------------
(* No reader shifts an empty list (readQueue, after its cond_wait).        *)
NoEmptyShift == \A r \in Readers : reader[r] # "faulted"

(* An element never waits while every reader sleeps, although writeQueue   *)
(* signals only when cursize becomes 1.                                    *)
NoLostWakeup == queue # <<>> => \E r \in Readers : reader[r] # "waiting"
=============================================================================
