---------------------------- MODULE ScamperQueue ----------------------------
(***************************************************************************)
(* scamper/scamper_queue.c: the four queues of the scheduler.              *)
(*                                                                         *)
(* Every task, and every timed callback ("event"), owns one                *)
(* scamper_queue_t.  Its back pointer sq->queue says which list or heap    *)
(* holds it and sq->timeout when it is due.  The probe and done queues are *)
(* FIFO lists; the wait and event queues are heaps ordered by timeout.     *)
(*                                                                         *)
(* A heap is the set of its members and, for each, the key it was sifted   *)
(* with.  mjl_heap reads sq->timeout through queue_cmp only when it        *)
(* inserts, deletes or remakes, so a timeout written in place while the    *)
(* object sits in the heap leaves the heap ordered by the old one: `key'   *)
(* is that order, `timeout' the field.                                     *)
(*                                                                         *)
(* The program has one thread.  `scan' is the loop it is in: the one of    *)
(* scamper_queue_readycount, the one of scamper_queue_event_proc, or       *)
(* neither; `tv' is the clock value the loop took when it started, 0 when  *)
(* no loop runs.  The handlers and callbacks a loop runs call back into    *)
(* this module, so the other operations stay enabled between two           *)
(* iterations of a loop.                                                   *)
(***************************************************************************)
EXTENDS Integers, SequencesExt

CONSTANTS
  Task,        \* the queue objects that belong to tasks
  Event,       \* the queue objects that belong to timed callbacks
  Delay,       \* how far ahead a caller schedules a task or a callback
  DoneDelay,   \* the delays passed to scamper_queue_done
  MaxTime      \* the clock stops here

ASSUME QueueAssumption ==
  /\ MaxTime \in Nat
  /\ Delay \subseteq Nat \ {0}
  /\ DoneDelay \subseteq Nat
  /\ Task \cap Event = {}

VARIABLES
  probe_queue,   \* list of tasks ready to be probed
  wait_queue,    \* heap of tasks waiting for a reply or for a time
  done_queue,    \* list of tasks that have completed
  event_queue,   \* heap of timed callbacks
  queue,         \* sq->queue: which of them holds the object
  timeout,       \* sq->timeout
  key,           \* the timeout a heap member was last sifted with
  now,           \* gettimeofday
  scan,          \* the loop that is running, if any
  tv             \* the time that loop compares timeouts with

lists == <<probe_queue, wait_queue, done_queue>>
vars  == <<probe_queue, wait_queue, done_queue, event_queue, queue, timeout,
           key, now, scan, tv>>

Obj  == Task \cup Event
Time == 0 .. MaxTime

Where == {"none", "probe", "wait", "done", "event"}

Init ==
  /\ probe_queue = <<>>
  /\ wait_queue = {}
  /\ done_queue = <<>>
  /\ event_queue = {}
  /\ queue = [x \in Obj |-> "none"]
  /\ timeout = [x \in Obj |-> 0]
  /\ key = [x \in Obj |-> 0]
  /\ now = 0
  /\ scan = "none"
  /\ tv = 0

-----------------------------------------------------------------------------
(* a removal that fills the hole with the last element (a mutant)          *)
PoppedSwap(s, t) ==
  LET k == CHOOSE i \in DOMAIN s : s[i] = t
  IN  [i \in 1 .. Len(s) - 1 |-> IF i = k THEN s[Len(s)] ELSE s[i]]

(* dlist_node_pop: take t out of a list it is known to be in.              *)
Popped(s, t) == RemoveAt(s, CHOOSE i \in DOMAIN s : s[i] = t)

(* queue_unlink: the back pointer decides which queue loses t.             *)
ProbeUnlink(t) == IF queue[t] = "probe" THEN Popped(probe_queue, t) ELSE probe_queue
DoneUnlink(t)  == IF queue[t] = "done"  THEN Popped(done_queue, t)  ELSE done_queue
WaitUnlink(t)  == IF queue[t] = "wait"  THEN wait_queue \ {t}       ELSE wait_queue

(* queue_unlink then queue_link: t leaves its queue and joins q, at the    *)
(* tail of a list.  q = "none" is queue_unlink alone.                      *)
Relink(t, q) ==
  /\ probe_queue' = IF q = "probe" THEN Append(ProbeUnlink(t), t) ELSE ProbeUnlink(t)
  /\ done_queue'  = IF q = "done"  THEN Append(DoneUnlink(t), t)  ELSE DoneUnlink(t)
  /\ wait_queue'  = IF q = "wait"  THEN WaitUnlink(t) \cup {t}    ELSE WaitUnlink(t)
  /\ queue' = [queue EXCEPT ![t] = q]

(* the items heap_head_item may return                                     *)
Heads(heap) == {x \in heap : \A y \in heap : key[x] <= key[y]}

-----------------------------------------------------------------------------
(* the operations a task's handlers call                                   *)

QueueProbe(t) ==
  /\ Relink(t, "probe")
  /\ UNCHANGED <<event_queue, timeout, key, now, scan, tv>>

(* a mutant: the task is not unlinked first                                *)
QueueProbeHeadLinked(t) ==
  /\ probe_queue' = <<t>> \o probe_queue
  /\ queue' = [queue EXCEPT ![t] = "probe"]
  /\ UNCHANGED <<wait_queue, done_queue, event_queue, timeout, key, now, scan, tv>>

QueueProbeHead(t) ==
  /\ probe_queue' = <<t>> \o ProbeUnlink(t)
  /\ done_queue' = DoneUnlink(t)
  /\ wait_queue' = WaitUnlink(t)
  /\ queue' = [queue EXCEPT ![t] = "probe"]
  /\ UNCHANGED <<event_queue, timeout, key, now, scan, tv>>

(* scamper_queue_wait_tv: wait until an absolute time                      *)
QueueWaitTv(t, at) ==
  /\ Relink(t, "wait")
  /\ timeout' = [timeout EXCEPT ![t] = at]
  /\ key' = [key EXCEPT ![t] = at]
  /\ UNCHANGED <<event_queue, now, scan, tv>>

(* a mutant: the delay is subtracted                                       *)
QueueWaitBack(t, d) ==
  /\ now + d <= MaxTime
  /\ QueueWaitTv(t, now - d)

(* scamper_queue_wait: wait for d milliseconds from now                    *)
QueueWait(t, d) ==
  /\ now + d <= MaxTime
  /\ QueueWaitTv(t, now + d)

QueueDone(t, d) ==
  /\ Relink(t, "done")
  /\ timeout' = [timeout EXCEPT ![t] = now + d]
  /\ UNCHANGED <<event_queue, key, now, scan, tv>>

(* scamper_queue_detach, and scamper_queue_free of a task's queue object   *)
QueueDetach(t) ==
  /\ queue[t] # "none"
  /\ Relink(t, "none")
  /\ UNCHANGED <<event_queue, timeout, key, now, scan, tv>>

-----------------------------------------------------------------------------
(* the operations of the main loop                                         *)

QueueSelect ==
  /\ scan = "none"
  /\ probe_queue # <<>>
  /\ queue' = [queue EXCEPT ![Head(probe_queue)] = "none"]
  /\ probe_queue' = Tail(probe_queue)
  /\ UNCHANGED <<wait_queue, done_queue, event_queue, timeout, key, now, scan, tv>>

QueueGetDone ==
  /\ scan = "none"
  /\ done_queue # <<>>
  /\ queue' = [queue EXCEPT ![Head(done_queue)] = "none"]
  /\ done_queue' = Tail(done_queue)
  /\ UNCHANGED <<probe_queue, wait_queue, event_queue, timeout, key, now, scan, tv>>

(* scamper_queue_empty: drop every task that is not done                   *)
QueueEmpty ==
  /\ scan = "none"
  /\ wait_queue' = {}
  /\ probe_queue' = <<>>
  /\ queue' = [x \in Obj |-> IF queue[x] \in {"wait", "probe"} THEN "none" ELSE queue[x]]
  /\ UNCHANGED <<done_queue, event_queue, timeout, key, now, scan, tv>>

-----------------------------------------------------------------------------
(* scamper_queue_readycount: the wait queue is searched for due tasks      *)

(* a mutant: heap_count(wait_queue) > 1                                    *)
ReadyStartMany ==
  /\ scan = "none"
  /\ Cardinality(wait_queue) > 1
  /\ scan' = "ready"
  /\ tv' = now
  /\ UNCHANGED <<lists, event_queue, queue, timeout, key, now>>

ReadyStart ==
  /\ scan = "none"
  /\ wait_queue # {}
  /\ scan' = "ready"
  /\ tv' = now
  /\ UNCHANGED <<lists, event_queue, queue, timeout, key, now>>

(* One iteration: t is unlinked and its handler runs.  The handler may     *)
(* queue t itself: to be probed, to wait for a later time, or done; a task *)
(* it leaves unlinked goes to the probe queue.                             *)
ReadyExpire(t) ==
  /\ scan = "ready"
  /\ t \in Heads(wait_queue)
  /\ timeout[t] <= tv
  /\ \/ QueueProbe(t)
     \/ \E d \in Delay : QueueWait(t, d)
     \/ \E d \in DoneDelay : QueueDone(t, d)

(* a mutant: the loop breaks when timeval_cmp(&tv, &sq->timeout) <= 0      *)
ReadyStopEarly ==
  /\ scan = "ready"
  /\ \A t \in Heads(wait_queue) : tv <= timeout[t]
  /\ scan' = "none"
  /\ tv' = 0
  /\ UNCHANGED <<lists, event_queue, queue, timeout, key, now>>

ReadyStop ==
  /\ scan = "ready"
  /\ \A t \in Heads(wait_queue) : tv < timeout[t]
  /\ scan' = "none"
  /\ tv' = 0
  /\ UNCHANGED <<lists, event_queue, queue, timeout, key, now>>

-----------------------------------------------------------------------------
(* timed callbacks                                                         *)

(* EventUpdateTimeNoRemake is a mutant: the timeout is written in place    *)
(* and the heap is not remade.                                             *)
(* scamper_queue_event on a new object, or scamper_queue_event_update_time *)
(* on one that is in the heap (heap_remake) or not (heap_insert)           *)
EventUpdateTimeNoRemake(e, at) ==
  /\ timeout' = [timeout EXCEPT ![e] = at]
  /\ key' = IF queue[e] = "none" THEN [key EXCEPT ![e] = at] ELSE key
  /\ event_queue' = event_queue \cup {e}
  /\ queue' = [queue EXCEPT ![e] = "event"]
  /\ UNCHANGED <<lists, now, scan, tv>>

EventUpdateTime(e, at) ==
  /\ timeout' = [timeout EXCEPT ![e] = at]
  /\ key' = IF queue[e] = "none"
            THEN [key EXCEPT ![e] = at]
            ELSE [x \in Obj |-> IF x \in event_queue THEN timeout'[x] ELSE key[x]]
  /\ event_queue' = event_queue \cup {e}
  /\ queue' = [queue EXCEPT ![e] = "event"]
  /\ UNCHANGED <<lists, now, scan, tv>>

(* scamper_queue_free of a callback's queue object                         *)
EventFree(e) ==
  /\ queue[e] = "event"
  /\ event_queue' = event_queue \ {e}
  /\ queue' = [queue EXCEPT ![e] = "none"]
  /\ UNCHANGED <<lists, timeout, key, now, scan, tv>>

EventStart ==
  /\ scan = "none"
  /\ event_queue # {}
  /\ scan' = "event"
  /\ tv' = now
  /\ UNCHANGED <<lists, event_queue, queue, timeout, key, now>>

(* One iteration of scamper_queue_event_proc.  A callback that fails makes *)
(* the loop return -1, and the main loop then leaves the program.          *)
EventFire(e) ==
  /\ scan = "event"
  /\ e \in Heads(event_queue)
  /\ timeout[e] <= tv
  /\ event_queue' = event_queue \ {e}
  /\ queue' = [queue EXCEPT ![e] = "none"]
  /\ scan' \in {"event", "exit"}
  /\ UNCHANGED <<lists, timeout, key, now, tv>>

EventStop ==
  /\ scan = "event"
  /\ \A e \in Heads(event_queue) : tv < timeout[e]
  /\ scan' = "none"
  /\ tv' = 0
  /\ UNCHANGED <<lists, event_queue, queue, timeout, key, now>>

-----------------------------------------------------------------------------
Tick ==
  /\ now < MaxTime
  /\ now' = now + 1
  /\ UNCHANGED <<lists, event_queue, queue, timeout, key, scan, tv>>

(* A handler that runs inside a loop schedules its task after the time the *)
(* loop compares with: every caller probes at once when its time is past.  *)
TaskOp(t) ==
  \/ QueueProbe(t)
  \/ QueueProbeHead(t)
  \/ \E d \in Delay : QueueWait(t, d)
  \/ \E at \in Time : (scan = "none" \/ tv < at) /\ QueueWaitTv(t, at)
  \/ \E d \in DoneDelay : QueueDone(t, d)
  \/ QueueDetach(t)
  \/ ReadyExpire(t)

EventOp(e) ==
  \/ \E d \in Delay : now + d <= MaxTime /\ EventUpdateTime(e, now + d)
  \/ EventFree(e)
  \/ EventFire(e)

MainOp ==
  \/ QueueSelect
  \/ QueueGetDone
  \/ QueueEmpty
  \/ ReadyStart
  \/ ReadyStop
  \/ EventStart
  \/ EventStop

Next ==
  /\ scan # "exit"
  /\ \/ \E t \in Task : TaskOp(t)
     \/ \E e \in Event : EventOp(e)
     \/ MainOp
     \/ Tick

Spec == Init /\ [][Next]_vars

(* The main loop runs readycount and event_proc in every turn, and a loop  *)
(* that has started runs to its end; the clock advances.                   *)
Fairness ==
  /\ WF_vars(Tick)
  /\ SF_vars(ReadyStart)
  /\ SF_vars(EventStart)
  /\ WF_vars(\E t \in Task : ReadyExpire(t))
  /\ WF_vars(\E e \in Event : EventFire(e))
  /\ WF_vars(ReadyStop)
  /\ WF_vars(EventStop)

FairSpec == Spec /\ Fairness

-----------------------------------------------------------------------------
(* The state is well typed.                                                *)
TypeInv ==
  /\ probe_queue \in Seq(Task)
  /\ done_queue \in Seq(Task)
  /\ wait_queue \subseteq Task
  /\ event_queue \subseteq Event
  /\ queue \in [Obj -> Where]
  /\ timeout \in [Obj -> Nat]
  /\ key \in [Obj -> Nat]
  /\ now \in Time
  /\ scan \in {"none", "ready", "event", "exit"}
  /\ tv \in Time

(* s holds exactly the tasks whose back pointer in f is q, each once       *)
Holds(f, s, q) ==
  /\ \A i, j \in DOMAIN s : s[i] = s[j] => i = j
  /\ \A t \in Task : f[t] = q <=> \E i \in DOMAIN s : s[i] = t

(* "a scamper task can be in one of the following queues at any one time": *)
(* through every unlink, relink, expiry and flush, a task is in the queue  *)
(* its back pointer names, once, and in no other.                          *)
OneQueue ==
  /\ Holds(queue, probe_queue, "probe")
  /\ Holds(queue, done_queue, "done")
  /\ wait_queue = {t \in Task : queue[t] = "wait"}
  /\ \A e \in Event : queue[e] = IF e \in event_queue THEN "event" ELSE "none"

(* the heaps are ordered by the timeouts their members have now            *)
KeysFresh == \A x \in wait_queue \cup event_queue : key[x] = timeout[x]

(* What scamper_queue_waittime and scamper_queue_event_waittime report,    *)
(* the timeout of the head of the heap, is the earliest of all its         *)
(* members' timeouts: poll never sleeps past one.                          *)
EarliestFirst ==
  /\ \A h \in Heads(wait_queue), t \in wait_queue : timeout[h] <= timeout[t]
  /\ \A h \in Heads(event_queue), e \in event_queue : timeout[h] <= timeout[e]

(* t is ahead of u in the list s                                           *)
Ahead(s, t, u) == \E i, j \in DOMAIN s : i < j /\ s[i] = t /\ s[j] = u

(* Whatever is taken out of the middle of the probe queue, no step changes *)
(* the order of the other tasks: only the task it requeues moves.          *)
OrderKept ==
  [][\E m \in Task : \A t, u \in Task \ {m} :
       /\ Ahead(probe_queue, t, u)
       /\ queue'[t] = "probe"
       /\ queue'[u] = "probe"
       => Ahead(probe_queue', t, u)]_vars

(* When readycount has run, nothing it should have expired still waits,    *)
(* although its handlers put tasks back on the heap while it ran.          *)
ScanComplete ==
  [][scan = "ready" /\ scan' = "none" => \A t \in wait_queue' : tv < timeout'[t]]_vars

(* Every waiting task is taken off the wait queue and every scheduled      *)
(* callback is called, however they are rescheduled, or scamper exits.     *)
NothingWaitsForever ==
  \A x \in Obj : queue[x] \in {"wait", "event"} ~>
                     queue[x] \notin {"wait", "event"} \/ scan = "exit"

=============================================================================
