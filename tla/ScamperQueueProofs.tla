------------------------ MODULE ScamperQueueProofs ------------------------
(***************************************************************************)
(* Proofs about ScamperQueue, for any sets of tasks and callbacks.         *)
(***************************************************************************)
EXTENDS ScamperQueue, ListLemmas, SequenceTheorems,
        WellFoundedInduction, TLAPS

-----------------------------------------------------------------------------
(* r holds the tasks of f's queue q but t, each once                       *)
HoldsBut(f, r, q, t) ==
  /\ r \in Seq(Task)
  /\ \A i, j \in DOMAIN r : r[i] = r[j] => i = j
  /\ \A u \in Task : (u # t /\ f[u] = q) <=> \E i \in DOMAIN r : r[i] = u

(* dlist_node_pop takes t, and nothing else, out of the list that holds it *)
LEMMA PoppedHolds ==
  ASSUME NEW f, NEW q, NEW s \in Seq(Task), Holds(f, s, q),
         NEW t \in Task, f[t] = q
  PROVE  HoldsBut(f, Popped(s, t), q, t)
<1> DEFINE k == CHOOSE i \in DOMAIN s : s[i] = t
<1>1. k \in DOMAIN s /\ s[k] = t
  BY DEF Holds
<1> HIDE DEF k
<1>2. \A i, j \in DOMAIN s : s[i] = s[j] => i = j
  BY DEF Holds
<1>3. /\ RemoveAt(s, k) \in Seq(Task)
      /\ \A i, j \in DOMAIN RemoveAt(s, k) :
           RemoveAt(s, k)[i] = RemoveAt(s, k)[j] => i = j
      /\ \A u : (\E i \in DOMAIN RemoveAt(s, k) : RemoveAt(s, k)[i] = u)
                <=> u # s[k] /\ \E i \in DOMAIN s : s[i] = u
  BY <1>1, <1>2, RemoveAtDistinct
<1>4. Popped(s, t) = RemoveAt(s, k)
  BY DEF Popped, k
<1>5. \A u \in Task : f[u] = q <=> \E i \in DOMAIN s : s[i] = u
  BY DEF Holds
<1> DEFINE r == RemoveAt(s, k)
<1> HIDE DEF r
<1>6. \A u \in Task : (u # t /\ f[u] = q) <=> \E i \in DOMAIN r : r[i] = u
  BY <1>1, <1>3, <1>5 DEF r
<1>7. r \in Seq(Task) /\ \A i, j \in DOMAIN r : r[i] = r[j] => i = j
  BY <1>3 DEF r
<1>8. Popped(s, t) = r
  BY <1>4 DEF r
<1> QED
  BY <1>6, <1>7, <1>8 DEF HoldsBut

(* queue_unlink leaves alone a list that does not hold t                   *)
LEMMA UnlinkHolds ==
  ASSUME NEW f, NEW q, NEW s \in Seq(Task), Holds(f, s, q), NEW t \in Task
  PROVE  HoldsBut(f, IF f[t] = q THEN Popped(s, t) ELSE s, q, t)
<1>1. CASE f[t] = q
  BY <1>1, PoppedHolds
<1>2. CASE f[t] # q
  BY <1>2 DEF Holds, HoldsBut
<1> QED
  BY <1>1, <1>2

(* queue_link at the tail                                                  *)
LEMMA LinkHolds ==
  ASSUME NEW f \in [Obj -> Where], NEW q \in Where, NEW r, NEW t \in Task,
         HoldsBut(f, r, q, t), NEW x \in Where
  PROVE  /\ (IF x = q THEN Append(r, t) ELSE r) \in Seq(Task)
         /\ Holds([f EXCEPT ![t] = x], IF x = q THEN Append(r, t) ELSE r, q)
<1> DEFINE g == [f EXCEPT ![t] = x]
<1>1. t \in Obj /\ \A u \in Task : u \in Obj
  BY DEF Obj
<1>2. \A u \in Task : g[u] = IF u = t THEN x ELSE f[u]
  BY <1>1
<1> HIDE DEF g
<1>3. r \in Seq(Task) /\ Len(r) \in Nat /\ DOMAIN r = 1 .. Len(r)
  BY DEF HoldsBut
<1>4. CASE x = q
  <2> DEFINE l == Append(r, t)
  <2>1. /\ l \in Seq(Task)
        /\ DOMAIN l = 1 .. Len(r) + 1
        /\ \A i \in 1 .. Len(r) : l[i] = r[i]
        /\ l[Len(r) + 1] = t
    BY <1>3, AppendProperties
  <2> HIDE DEF l
  <2>2. \A i \in 1 .. Len(r) : r[i] # t
    BY <1>3 DEF HoldsBut
  <2>3. \A i, j \in DOMAIN l : l[i] = l[j] => i = j
    BY <1>3, <2>1, <2>2 DEF HoldsBut
  <2>4. \A u \in Task : g[u] = q <=> \E i \in DOMAIN l : l[i] = u
    <3> SUFFICES ASSUME NEW u \in Task
                 PROVE  g[u] = q <=> \E i \in DOMAIN l : l[i] = u
      OBVIOUS
    <3>1. CASE u = t
      <4>1. Len(r) + 1 \in DOMAIN l
        BY <1>3, <2>1
      <4> QED
        BY <1>2, <1>4, <2>1, <3>1, <4>1
    <3>2. CASE u # t
      <4>1. g[u] = q <=> \E i \in DOMAIN r : r[i] = u
        BY <1>2, <3>2 DEF HoldsBut
      <4>2. (\E i \in DOMAIN r : r[i] = u) => \E i \in DOMAIN l : l[i] = u
        BY <1>3, <2>1
      <4>3. ASSUME NEW i \in DOMAIN l, l[i] = u
            PROVE  \E j \in DOMAIN r : r[j] = u
        <5>1. i \in 1 .. Len(r)
          BY <1>3, <2>1, <3>2, <4>3
        <5> QED
          BY <1>3, <2>1, <4>3, <5>1
      <4> QED
        BY <4>1, <4>2, <4>3
    <3> QED
      BY <3>1, <3>2
  <2> QED
    BY <1>4, <2>1, <2>3, <2>4 DEF Holds, l, g
<1>5. CASE x # q
  BY <1>2, <1>3, <1>5 DEF HoldsBut, Holds, g
<1> QED
  BY <1>4, <1>5

(* dlist_head_push of an unlinked task                                     *)
LEMMA PushHolds ==
  ASSUME NEW f \in [Obj -> Where], NEW q \in Where, NEW r, NEW t \in Task,
         HoldsBut(f, r, q, t)
  PROVE  <<t>> \o r \in Seq(Task) /\ Holds([f EXCEPT ![t] = q], <<t>> \o r, q)
<1> DEFINE g == [f EXCEPT ![t] = q]
           l == <<t>> \o r
<1>1. t \in Obj /\ \A u \in Task : u \in Obj
  BY DEF Obj
<1>2. \A u \in Task : g[u] = IF u = t THEN q ELSE f[u]
  BY <1>1
<1> HIDE DEF g
<1>3. r \in Seq(Task) /\ Len(r) \in Nat /\ DOMAIN r = 1 .. Len(r)
  BY DEF HoldsBut
<1>4. <<t>> \in Seq(Task) /\ Len(<<t>>) = 1 /\ <<t>>[1] = t
  OBVIOUS
<1>5. /\ l \in Seq(Task)
      /\ Len(l) = 1 + Len(r)
      /\ \A i \in 1 .. 1 + Len(r) : l[i] = IF i <= 1 THEN <<t>>[i] ELSE r[i - 1]
  BY <1>3, <1>4, ConcatProperties
<1> HIDE DEF l
<1>6. /\ DOMAIN l = 1 .. Len(r) + 1
      /\ l[1] = t
      /\ \A i \in 1 .. Len(r) : l[i + 1] = r[i]
  BY <1>3, <1>4, <1>5
<1>7. \A i \in 2 .. Len(r) + 1 : i - 1 \in DOMAIN r /\ l[i] = r[i - 1] /\ l[i] # t
  <2>1. \A i \in 2 .. Len(r) + 1 : i - 1 \in DOMAIN r /\ l[i] = r[i - 1]
    BY <1>3, <1>5
  <2>2. \A i \in DOMAIN r : r[i] # t
    BY <1>3 DEF HoldsBut
  <2> QED
    BY <2>1, <2>2
<1>8. \A i, j \in DOMAIN l : l[i] = l[j] => i = j
  <2> SUFFICES ASSUME NEW i \in DOMAIN l, NEW j \in DOMAIN l, l[i] = l[j]
               PROVE  i = j
    OBVIOUS
  <2>1. CASE i = 1 \/ j = 1
    BY <1>3, <1>6, <1>7, <2>1
  <2>2. CASE i # 1 /\ j # 1
    <3>1. i \in 2 .. Len(r) + 1 /\ j \in 2 .. Len(r) + 1
      BY <1>3, <1>6, <2>2
    <3>2. r[i - 1] = r[j - 1] /\ i - 1 \in DOMAIN r /\ j - 1 \in DOMAIN r
      BY <1>7, <3>1
    <3>3. i - 1 = j - 1
      BY <3>2 DEF HoldsBut
    <3> QED
      BY <1>3, <3>1, <3>3
  <2> QED
    BY <2>1, <2>2
<1>9. \A u \in Task : g[u] = q <=> \E i \in DOMAIN l : l[i] = u
  <2> SUFFICES ASSUME NEW u \in Task
               PROVE  g[u] = q <=> \E i \in DOMAIN l : l[i] = u
    OBVIOUS
  <2>1. CASE u = t
    <3>1. 1 \in DOMAIN l /\ l[1] = u
      BY <1>3, <1>6, <2>1
    <3>2. g[u] = q
      BY <1>2, <2>1
    <3> QED
      BY <3>1, <3>2
  <2>2. CASE u # t
    <3>1. g[u] = q <=> \E i \in DOMAIN r : r[i] = u
      BY <1>2, <2>2 DEF HoldsBut
    <3>2. ASSUME NEW i \in DOMAIN r, r[i] = u
          PROVE  \E j \in DOMAIN l : l[j] = u
      <4>1. i + 1 \in DOMAIN l /\ l[i + 1] = u
        BY <1>3, <1>6, <3>2
      <4> QED
        BY <4>1
    <3>3. ASSUME NEW i \in DOMAIN l, l[i] = u
          PROVE  \E j \in DOMAIN r : r[j] = u
      <4>1. i \in 2 .. Len(r) + 1
        BY <1>3, <1>6, <2>2, <3>3
      <4> QED
        BY <1>7, <3>3, <4>1
    <3> QED
      BY <3>1, <3>2, <3>3
  <2> QED
    BY <2>1, <2>2
<1> QED
  BY <1>5, <1>8, <1>9 DEF Holds, l, g

(* dlist_head_pop: the head is the one task the list loses                 *)
LEMMA HeadPopHolds ==
  ASSUME NEW f \in [Obj -> Where], NEW q \in Where, q # "none",
         NEW s \in Seq(Task), s # <<>>, Holds(f, s, q)
  PROVE  /\ Head(s) \in Task /\ f[Head(s)] = q
         /\ Tail(s) \in Seq(Task)
         /\ Holds([f EXCEPT ![Head(s)] = "none"], Tail(s), q)
<1> DEFINE h == Head(s)
           l == Tail(s)
           g == [f EXCEPT ![h] = "none"]
<1>1. Len(s) \in Nat \ {0} /\ DOMAIN s = 1 .. Len(s) /\ 1 \in DOMAIN s /\ h = s[1]
  OBVIOUS
<1>2. h \in Task /\ f[h] = q
  BY <1>1 DEF Holds
<1>3. l \in Seq(Task) /\ DOMAIN l = 1 .. Len(s) - 1
      /\ \A i \in 1 .. Len(s) - 1 : l[i] = s[i + 1]
  BY <1>1, HeadTailProperties
<1>4. \A u \in Task : g[u] = IF u = h THEN "none" ELSE f[u]
  BY <1>2 DEF Obj
<1> HIDE DEF h, l, g
<1>5. \A i \in 1 .. Len(s) - 1 : i + 1 \in DOMAIN s /\ i + 1 # 1
  BY <1>1
<1>6. \A i, j \in DOMAIN l : l[i] = l[j] => i = j
  <2> SUFFICES ASSUME NEW i \in DOMAIN l, NEW j \in DOMAIN l, l[i] = l[j]
               PROVE  i = j
    OBVIOUS
  <2>1. i + 1 = j + 1
    BY <1>3, <1>5 DEF Holds
  <2> QED
    BY <1>3, <2>1
<1>7. \A u \in Task : g[u] = q <=> \E i \in DOMAIN l : l[i] = u
  <2> SUFFICES ASSUME NEW u \in Task
               PROVE  g[u] = q <=> \E i \in DOMAIN l : l[i] = u
    OBVIOUS
  <2>1. CASE u = h
    <3>1. \A i \in DOMAIN l : l[i] # h
      BY SMTT(60), <1>1, <1>3, <1>5 DEF Holds
    <3> QED
      BY <1>4, <2>1, <3>1
  <2>2. CASE u # h
    <3>1. g[u] = q <=> \E i \in DOMAIN s : s[i] = u
      BY <1>4, <2>2 DEF Holds
    <3>2. ASSUME NEW i \in DOMAIN s, s[i] = u
          PROVE  \E j \in DOMAIN l : l[j] = u
      <4>1. i # 1
        BY <1>1, <2>2, <3>2
      <4>2. i - 1 \in DOMAIN l /\ l[i - 1] = u
        BY <1>1, <1>3, <3>2, <4>1
      <4> QED
        BY <4>2
    <3> QED
      BY <1>3, <1>5, <3>1, <3>2
  <2> QED
    BY <2>1, <2>2
<1> QED
  BY <1>2, <1>3, <1>6, <1>7 DEF Holds, h, l, g

(* a list of another queue does not notice                                 *)
LEMMA OtherHolds ==
  ASSUME NEW f \in [Obj -> Where], NEW s, NEW q, Holds(f, s, q),
         NEW t \in Obj, f[t] # q, NEW x \in Where, x # q
  PROVE  Holds([f EXCEPT ![t] = x], s, q)
BY DEF Holds, Obj

-----------------------------------------------------------------------------
(* OneQueue and EarliestFirst follow from what every step maintains: the   *)
(* types, the agreement of the back pointers with the queues, and heap     *)
(* orders that are up to date.                                             *)
IInv == TypeInv /\ OneQueue /\ KeysFresh

(* One unlink and one link, whatever the two queues are.                   *)
LEMMA RelinkOneQueue ==
  ASSUME TypeInv, OneQueue, NEW t \in Task,
         NEW q \in {"none", "probe", "wait", "done"},
         Relink(t, q), event_queue' = event_queue
  PROVE  /\ probe_queue' \in Seq(Task)
         /\ done_queue' \in Seq(Task)
         /\ wait_queue' \subseteq Task
         /\ queue' \in [Obj -> Where]
         /\ OneQueue'
<1>1. t \in Obj /\ t \notin Event
  BY QueueAssumption DEF Obj
<1>2. queue \in [Obj -> Where] /\ q \in Where /\ "probe" \in Where /\ "done" \in Where
  BY DEF TypeInv, Where
<1>3. queue' = [queue EXCEPT ![t] = q]
  BY DEF Relink
<1>4. HoldsBut(queue, ProbeUnlink(t), "probe", t)
  BY UnlinkHolds DEF TypeInv, OneQueue, ProbeUnlink
<1>5. HoldsBut(queue, DoneUnlink(t), "done", t)
  BY UnlinkHolds DEF TypeInv, OneQueue, DoneUnlink
<1>6. probe_queue' \in Seq(Task) /\ Holds(queue', probe_queue', "probe")
  <2>1. probe_queue' = IF q = "probe" THEN Append(ProbeUnlink(t), t) ELSE ProbeUnlink(t)
    BY DEF Relink
  <2> QED
    BY <1>2, <1>3, <1>4, <2>1, LinkHolds
<1>7. done_queue' \in Seq(Task) /\ Holds(queue', done_queue', "done")
  <2>1. done_queue' = IF q = "done" THEN Append(DoneUnlink(t), t) ELSE DoneUnlink(t)
    BY DEF Relink
  <2> QED
    BY <1>2, <1>3, <1>5, <2>1, LinkHolds
<1>8. wait_queue' \subseteq Task /\ wait_queue' = {u \in Task : queue'[u] = "wait"}
  BY <1>1, <1>3 DEF TypeInv, OneQueue, Relink, WaitUnlink, Obj
<1>9. \A e \in Event : queue'[e] = IF e \in event_queue' THEN "event" ELSE "none"
  BY <1>1, <1>3 DEF TypeInv, OneQueue, Obj
<1>10. queue' \in [Obj -> Where]
  BY <1>2, <1>3
<1> QED
  BY <1>6, <1>7, <1>8, <1>9, <1>10 DEF OneQueue

(* The operations a handler calls preserve the invariant.                  *)
LEMMA QueueProbeIInv ==
  ASSUME IInv, NEW t \in Task, QueueProbe(t)
  PROVE  IInv'
<1>1. Relink(t, "probe") /\ UNCHANGED <<event_queue, timeout, key, now, scan, tv>>
  BY DEF QueueProbe
<1>2. TypeInv' /\ OneQueue'
  BY <1>1, RelinkOneQueue DEF IInv, TypeInv
<1>3. KeysFresh'
  BY <1>1 DEF IInv, KeysFresh, Relink, WaitUnlink, OneQueue
<1> QED
  BY <1>2, <1>3 DEF IInv

(* scamper_queue_wait and _wait_tv keep the invariant                      *)
LEMMA QueueWaitTvIInv ==
  ASSUME IInv, NEW t \in Task, NEW at \in Nat, QueueWaitTv(t, at)
  PROVE  IInv'
<1>1. /\ Relink(t, "wait")
      /\ timeout' = [timeout EXCEPT ![t] = at]
      /\ key' = [key EXCEPT ![t] = at]
      /\ UNCHANGED <<event_queue, now, scan, tv>>
  BY DEF QueueWaitTv
<1>2. TypeInv' /\ OneQueue'
  BY <1>1, RelinkOneQueue DEF IInv, TypeInv
<1>3. KeysFresh'
  BY <1>1, <1>2 DEF IInv, TypeInv, KeysFresh, Relink, WaitUnlink, OneQueue, Obj
<1> QED
  BY <1>2, <1>3 DEF IInv

(* scamper_queue_done keeps it, with or without a delay                    *)
LEMMA QueueDoneIInv ==
  ASSUME IInv, NEW t \in Task, NEW d \in DoneDelay, QueueDone(t, d)
  PROVE  IInv'
<1>1. /\ Relink(t, "done")
      /\ timeout' = [timeout EXCEPT ![t] = now + d]
      /\ UNCHANGED <<event_queue, key, now, scan, tv>>
  BY DEF QueueDone
<1>2. now + d \in Nat
  BY QueueAssumption DEF IInv, TypeInv, Time
<1>3. TypeInv' /\ OneQueue'
  BY <1>1, <1>2, RelinkOneQueue DEF IInv, TypeInv
<1>4. t \notin wait_queue' /\ t \notin event_queue'
  BY <1>1, QueueAssumption DEF Relink, WaitUnlink, IInv, TypeInv, OneQueue
<1>5. wait_queue' \subseteq wait_queue
  BY <1>1 DEF Relink, WaitUnlink
<1>6. KeysFresh'
  BY <1>1, <1>4, <1>5 DEF IInv, TypeInv, KeysFresh, Obj
<1> QED
  BY <1>3, <1>6 DEF IInv

(* scamper_queue_detach keeps it                                           *)
LEMMA QueueDetachIInv ==
  ASSUME IInv, NEW t \in Task, QueueDetach(t)
  PROVE  IInv'
<1>1. Relink(t, "none") /\ UNCHANGED <<event_queue, timeout, key, now, scan, tv>>
  BY DEF QueueDetach
<1>2. TypeInv' /\ OneQueue'
  BY <1>1, RelinkOneQueue DEF IInv, TypeInv
<1>3. KeysFresh'
  BY <1>1 DEF IInv, KeysFresh, Relink, WaitUnlink, OneQueue
<1> QED
  BY <1>2, <1>3 DEF IInv

(* scamper_queue_probe_head keeps it                                       *)
LEMMA QueueProbeHeadIInv ==
  ASSUME IInv, NEW t \in Task, QueueProbeHead(t)
  PROVE  IInv'
<1>1. /\ probe_queue' = <<t>> \o ProbeUnlink(t)
      /\ done_queue' = DoneUnlink(t)
      /\ wait_queue' = WaitUnlink(t)
      /\ queue' = [queue EXCEPT ![t] = "probe"]
      /\ UNCHANGED <<event_queue, timeout, key, now, scan, tv>>
  BY DEF QueueProbeHead
<1>2. t \in Obj /\ t \notin Event /\ queue \in [Obj -> Where]
  BY QueueAssumption DEF Obj, IInv, TypeInv
<1>w. "probe" \in Where /\ "done" \in Where /\ "probe" # "done"
  BY DEF Where
<1>3. HoldsBut(queue, ProbeUnlink(t), "probe", t)
  BY UnlinkHolds DEF IInv, TypeInv, OneQueue, ProbeUnlink
<1>4. HoldsBut(queue, DoneUnlink(t), "done", t)
  BY UnlinkHolds DEF IInv, TypeInv, OneQueue, DoneUnlink
<1>5. probe_queue' \in Seq(Task) /\ Holds(queue', probe_queue', "probe")
  BY <1>1, <1>2, <1>w, <1>3, PushHolds
<1>6. done_queue' \in Seq(Task) /\ Holds(queue', done_queue', "done")
  BY <1>1, <1>2, <1>w, <1>4, LinkHolds
<1>7. /\ wait_queue' = {u \in Task : queue'[u] = "wait"}
      /\ \A e \in Event : queue'[e] = IF e \in event_queue' THEN "event" ELSE "none"
      /\ wait_queue' \subseteq wait_queue
  BY <1>1, <1>2 DEF IInv, TypeInv, OneQueue, WaitUnlink, Obj
<1>8. TypeInv'
  BY <1>1, <1>2, <1>w, <1>5, <1>6, <1>7 DEF IInv, TypeInv
<1>9. KeysFresh'
  BY <1>1, <1>7 DEF IInv, KeysFresh
<1> QED
  BY <1>5, <1>6, <1>7, <1>8, <1>9 DEF IInv, OneQueue

(* The operations of the main loop that move a task.                       *)
LEMMA QueueSelectIInv ==
  ASSUME IInv, QueueSelect
  PROVE  IInv'
<1> DEFINE h == Head(probe_queue)
<1>1. /\ probe_queue # <<>>
      /\ queue' = [queue EXCEPT ![h] = "none"]
      /\ probe_queue' = Tail(probe_queue)
      /\ UNCHANGED <<wait_queue, done_queue, event_queue, timeout, key, now, scan, tv>>
  BY DEF QueueSelect
<1>2. /\ queue \in [Obj -> Where]
      /\ {"none", "probe", "wait", "done", "event"} \subseteq Where
      /\ probe_queue \in Seq(Task)
      /\ Holds(queue, probe_queue, "probe")
      /\ Holds(queue, done_queue, "done")
  BY DEF IInv, TypeInv, OneQueue, Where
<1>3. /\ h \in Task /\ queue[h] = "probe"
      /\ probe_queue' \in Seq(Task)
      /\ Holds(queue', probe_queue', "probe")
  BY <1>1, <1>2, HeadPopHolds
<1> HIDE DEF h
<1>4. h \in Obj /\ h \notin Event
  BY <1>3, QueueAssumption DEF Obj
<1>5. Holds(queue', done_queue', "done")
  BY <1>1, <1>2, <1>3, <1>4, OtherHolds
<1>6. /\ wait_queue' = {u \in Task : queue'[u] = "wait"}
      /\ \A e \in Event : queue'[e] = IF e \in event_queue' THEN "event" ELSE "none"
  BY <1>1, <1>3, <1>4 DEF IInv, TypeInv, OneQueue, Obj
<1>7. TypeInv'
  BY <1>1, <1>2, <1>3, <1>4 DEF IInv, TypeInv
<1>8. KeysFresh'
  BY <1>1 DEF IInv, KeysFresh
<1> QED
  BY <1>3, <1>5, <1>6, <1>7, <1>8 DEF IInv, OneQueue

(* scamper_queue_getdone keeps it                                          *)
LEMMA QueueGetDoneIInv ==
  ASSUME IInv, QueueGetDone
  PROVE  IInv'
<1> DEFINE h == Head(done_queue)
<1>1. /\ done_queue # <<>>
      /\ queue' = [queue EXCEPT ![h] = "none"]
      /\ done_queue' = Tail(done_queue)
      /\ UNCHANGED <<probe_queue, wait_queue, event_queue, timeout, key, now, scan, tv>>
  BY DEF QueueGetDone
<1>2. /\ queue \in [Obj -> Where]
      /\ {"none", "probe", "wait", "done", "event"} \subseteq Where
      /\ done_queue \in Seq(Task)
      /\ Holds(queue, probe_queue, "probe")
      /\ Holds(queue, done_queue, "done")
  BY DEF IInv, TypeInv, OneQueue, Where
<1>3. /\ h \in Task /\ queue[h] = "done"
      /\ done_queue' \in Seq(Task)
      /\ Holds(queue', done_queue', "done")
  BY <1>1, <1>2, HeadPopHolds
<1> HIDE DEF h
<1>4. h \in Obj /\ h \notin Event
  BY <1>3, QueueAssumption DEF Obj
<1>5. Holds(queue', probe_queue', "probe")
  BY <1>1, <1>2, <1>3, <1>4, OtherHolds
<1>6. /\ wait_queue' = {u \in Task : queue'[u] = "wait"}
      /\ \A e \in Event : queue'[e] = IF e \in event_queue' THEN "event" ELSE "none"
  BY <1>1, <1>3, <1>4 DEF IInv, TypeInv, OneQueue, Obj
<1>7. TypeInv'
  BY <1>1, <1>2, <1>3, <1>4 DEF IInv, TypeInv
<1>8. KeysFresh'
  BY <1>1 DEF IInv, KeysFresh
<1> QED
  BY <1>3, <1>5, <1>6, <1>7, <1>8 DEF IInv, OneQueue

(* scamper_queue_empty keeps it                                            *)
LEMMA QueueEmptyIInv ==
  ASSUME IInv, QueueEmpty
  PROVE  IInv'
<1>1. /\ wait_queue' = {}
      /\ probe_queue' = <<>>
      /\ queue' = [x \in Obj |-> IF queue[x] \in {"wait", "probe"} THEN "none" ELSE queue[x]]
      /\ UNCHANGED <<done_queue, event_queue, timeout, key, now, scan, tv>>
  BY DEF QueueEmpty
<1>2. queue \in [Obj -> Where] /\ Task \subseteq Obj /\ Event \subseteq Obj
  BY DEF IInv, TypeInv, Obj
<1>3. TypeInv'
  BY <1>1, <1>2 DEF IInv, TypeInv, Where
<1>4. Holds(queue', probe_queue', "probe")
  BY <1>1, <1>2 DEF Holds
<1>5. Holds(queue', done_queue', "done")
  BY <1>1, <1>2 DEF IInv, OneQueue, Holds
<1>6. /\ wait_queue' = {u \in Task : queue'[u] = "wait"}
      /\ \A e \in Event : queue'[e] = IF e \in event_queue' THEN "event" ELSE "none"
  BY <1>1, <1>2 DEF IInv, OneQueue
<1>7. KeysFresh'
  BY <1>1 DEF IInv, KeysFresh
<1> QED
  BY <1>3, <1>4, <1>5, <1>6, <1>7 DEF IInv, OneQueue

(* The callbacks: heap_remake leaves every key equal to its timeout.       *)
LEMMA EventUpdateTimeIInv ==
  ASSUME IInv, NEW e \in Event, NEW at \in Nat, EventUpdateTime(e, at)
  PROVE  IInv'
<1>1. /\ timeout' = [timeout EXCEPT ![e] = at]
      /\ key' = IF queue[e] = "none"
                THEN [key EXCEPT ![e] = at]
                ELSE [x \in Obj |-> IF x \in event_queue THEN timeout'[x] ELSE key[x]]
      /\ event_queue' = event_queue \cup {e}
      /\ queue' = [queue EXCEPT ![e] = "event"]
      /\ UNCHANGED <<probe_queue, wait_queue, done_queue, now, scan, tv>>
  BY DEF EventUpdateTime, lists
<1>2. /\ e \in Obj /\ e \notin Task /\ Task \subseteq Obj /\ Event \subseteq Obj
      /\ "event" \in Where
  BY QueueAssumption DEF Obj, Where
<1>3. TypeInv'
  BY <1>1, <1>2 DEF IInv, TypeInv
<1>4. OneQueue'
  BY <1>1, <1>2 DEF IInv, TypeInv, OneQueue, Holds
<1>5. KeysFresh'
  <2>1. ASSUME NEW x \in wait_queue' \cup event_queue', queue[e] = "none"
        PROVE  key'[x] = timeout'[x]
    BY <1>1, <1>2, <2>1 DEF IInv, TypeInv, KeysFresh
  <2>2. ASSUME NEW x \in wait_queue' \cup event_queue', queue[e] # "none"
        PROVE  key'[x] = timeout'[x]
    BY <1>1, <1>2, <2>2 DEF IInv, TypeInv, OneQueue, KeysFresh
  <2> QED
    BY <2>1, <2>2 DEF KeysFresh
<1> QED
  BY <1>3, <1>4, <1>5 DEF IInv

(* A callback that leaves the event queue, fired or freed, keeps it        *)
LEMMA EventLeaveIInv ==
  ASSUME IInv, NEW e \in Event, event_queue' = event_queue \ {e},
         queue' = [queue EXCEPT ![e] = "none"],
         scan' \in {"none", "ready", "event", "exit"},
         UNCHANGED <<lists, timeout, key, now, tv>>
  PROVE  IInv'
<1>1. /\ e \in Obj /\ e \notin Task /\ Task \subseteq Obj /\ Event \subseteq Obj
      /\ "none" \in Where
  BY QueueAssumption DEF Obj, Where
<1>2. TypeInv'
  BY <1>1 DEF IInv, TypeInv, lists
<1>3. OneQueue'
  BY <1>1 DEF IInv, TypeInv, OneQueue, Holds, lists
<1>4. KeysFresh'
  BY DEF IInv, KeysFresh, lists
<1> QED
  BY <1>2, <1>3, <1>4 DEF IInv

(* A step that moves no queue object.                                      *)
LEMMA QuietIInv ==
  ASSUME IInv, UNCHANGED <<lists, event_queue, queue, timeout, key>>,
         now' \in Time, tv' \in Time, scan' \in {"none", "ready", "event", "exit"}
  PROVE  IInv'
BY DEF IInv, TypeInv, OneQueue, Holds, KeysFresh, lists

-----------------------------------------------------------------------------
(* The empty queues satisfy the invariant                                  *)
LEMMA InitIInv == Init => IInv
BY QueueAssumption
   DEF Init, IInv, TypeInv, OneQueue, Holds, KeysFresh, Obj, Time, Where

(* Every operation, iteration and tick keeps the invariant                 *)
LEMMA NextIInv == IInv /\ [Next]_vars => IInv'
<1> SUFFICES ASSUME IInv, [Next]_vars
             PROVE  IInv'
  OBVIOUS
<1>1. Time \subseteq Nat /\ 0 \in Time /\ now \in Time /\ tv \in Time
      /\ scan \in {"none", "ready", "event", "exit"}
  BY QueueAssumption DEF IInv, TypeInv, Time
<1>2. ASSUME NEW t \in Task, NEW d \in Delay, QueueWait(t, d)
      PROVE  IInv'
  BY <1>1, <1>2, QueueWaitTvIInv, QueueAssumption DEF QueueWait
<1>3. ASSUME NEW t \in Task, TaskOp(t)
      PROVE  IInv'
  <2>1. CASE QueueProbe(t)
    BY <2>1, QueueProbeIInv
  <2>2. CASE QueueProbeHead(t)
    BY <2>2, QueueProbeHeadIInv
  <2>3. CASE \E d \in Delay : QueueWait(t, d)
    BY <1>2, <2>3
  <2>4. CASE \E at \in Time : QueueWaitTv(t, at)
    BY <1>1, <2>4, QueueWaitTvIInv
  <2>5. CASE \E d \in DoneDelay : QueueDone(t, d)
    BY <2>5, QueueDoneIInv
  <2>6. CASE QueueDetach(t)
    BY <2>6, QueueDetachIInv
  <2>7. CASE ReadyExpire(t)
    BY <1>2, <2>7, QueueProbeIInv, QueueDoneIInv DEF ReadyExpire
  <2> QED
    BY <1>3, <2>1, <2>2, <2>3, <2>4, <2>5, <2>6, <2>7 DEF TaskOp
<1>4. ASSUME NEW e \in Event, EventOp(e)
      PROVE  IInv'
  <2>1. ASSUME NEW d \in Delay, EventUpdateTime(e, now + d)
        PROVE  IInv'
    BY <1>1, <2>1, EventUpdateTimeIInv, QueueAssumption
  <2>2. CASE EventFree(e)
    BY <1>1, <2>2, EventLeaveIInv DEF EventFree
  <2>3. CASE EventFire(e)
    BY <1>1, <2>3, EventLeaveIInv DEF EventFire
  <2> QED
    BY <1>4, <2>1, <2>2, <2>3 DEF EventOp
<1>5. CASE MainOp
  BY <1>1, <1>5, QueueSelectIInv, QueueGetDoneIInv, QueueEmptyIInv, QuietIInv
     DEF MainOp, ReadyStart, ReadyStop, EventStart, EventStop
<1>6. CASE Tick
  BY <1>1, <1>6, QuietIInv, QueueAssumption DEF Tick, Time
<1>7. CASE UNCHANGED vars
  BY <1>1, <1>7, QuietIInv DEF vars, lists
<1> QED
  BY <1>3, <1>4, <1>5, <1>6, <1>7 DEF Next

(* In every behaviour a task is in the queue its back pointer names, once, *)
(* and in no other (scamper_queue.h:34).                                   *)
THEOREM OneQueueHolds == Spec => []OneQueue
<1>1. IInv => OneQueue
  BY DEF IInv
<1> QED
  BY <1>1, InitIInv, NextIInv, PTL DEF Spec

(* The lists hold tasks and the heaps members of their kind after any      *)
(* number of scamper_queue.c's operations.                                 *)
THEOREM TypeInvHolds == Spec => []TypeInv
<1>1. IInv => TypeInv
  BY DEF IInv
<1> QED
  BY <1>1, InitIInv, NextIInv, PTL DEF Spec

(* The head of each heap is due no later than any of its members: the      *)
(* timeouts the main loop computes for poll are never too late.            *)
THEOREM EarliestFirstHolds == Spec => []EarliestFirst
<1>1. IInv => EarliestFirst
  BY DEF IInv, KeysFresh, EarliestFirst, Heads
<1> QED
  BY <1>1, InitIInv, NextIInv, PTL DEF Spec

-----------------------------------------------------------------------------
(* The order of the probe queue.                                           *)

(* What is ahead stays so when another task is pushed at either end, or    *)
(* popped at the head.                                                     *)
LEMMA AheadEnds ==
  ASSUME NEW s \in Seq(Task), NEW t, NEW u, Ahead(s, t, u), NEW x \in Task
  PROVE  /\ Ahead(Append(s, x), t, u)
         /\ Ahead(<<x>> \o s, t, u)
         /\ t # Head(s) => Ahead(Tail(s), t, u)
<1>1. PICK i \in DOMAIN s, j \in DOMAIN s : i < j /\ s[i] = t /\ s[j] = u
  BY DEF Ahead
<1>2. Len(s) \in Nat /\ DOMAIN s = 1 .. Len(s)
  BY LenProperties
<1>3. Ahead(Append(s, x), t, u)
  <2>1. DOMAIN Append(s, x) = 1 .. Len(s) + 1 /\ \A n \in 1 .. Len(s) : Append(s, x)[n] = s[n]
    BY AppendProperties
  <2> QED
    BY <1>1, <1>2, <2>1 DEF Ahead
<1>4. Ahead(<<x>> \o s, t, u)
  <2> DEFINE l == <<x>> \o s
  <2>1. <<x>> \in Seq(Task) /\ Len(<<x>>) = 1
    OBVIOUS
  <2>2. /\ l \in Seq(Task) /\ Len(l) = 1 + Len(s)
        /\ \A n \in 1 .. 1 + Len(s) : l[n] = IF n <= 1 THEN <<x>>[n] ELSE s[n - 1]
    BY <2>1, ConcatProperties
  <2> HIDE DEF l
  <2>3. DOMAIN l = 1 .. 1 + Len(s)
    BY <2>2, LenProperties
  <2>4. i + 1 \in DOMAIN l /\ j + 1 \in DOMAIN l /\ l[i + 1] = t /\ l[j + 1] = u /\ i + 1 < j + 1
    BY <1>1, <1>2, <2>2, <2>3
  <2> QED
    BY <2>4 DEF Ahead, l
<1>5. ASSUME t # Head(s) PROVE Ahead(Tail(s), t, u)
  <2>1. i # 1 /\ s # <<>>
    BY <1>1, <1>2, <1>5
  <2>2. DOMAIN Tail(s) = 1 .. Len(s) - 1 /\ \A n \in 1 .. Len(s) - 1 : Tail(s)[n] = s[n + 1]
    BY <1>2, <2>1, HeadTailProperties
  <2>3. /\ i - 1 \in DOMAIN Tail(s) /\ j - 1 \in DOMAIN Tail(s) /\ i - 1 < j - 1
        /\ Tail(s)[i - 1] = t /\ Tail(s)[j - 1] = u
    BY <1>1, <1>2, <2>1, <2>2
  <2> QED
    BY <2>3 DEF Ahead
<1> QED
  BY <1>3, <1>4, <1>5

(* So it does when another task is taken out of the middle.                *)
LEMMA AheadUnlink ==
  ASSUME IInv, NEW m \in Task, NEW t \in Task \ {m}, NEW u \in Task \ {m},
         Ahead(probe_queue, t, u)
  PROVE  ProbeUnlink(m) \in Seq(Task) /\ Ahead(ProbeUnlink(m), t, u)
<1>1. probe_queue \in Seq(Task) /\ Holds(queue, probe_queue, "probe")
  BY DEF IInv, TypeInv, OneQueue
<1>2. CASE queue[m] # "probe"
  BY <1>1, <1>2 DEF ProbeUnlink
<1>3. CASE queue[m] = "probe"
  <2>1. PICK k \in DOMAIN probe_queue :
          probe_queue[k] = m /\ ProbeUnlink(m) = RemoveAt(probe_queue, k)
    BY <1>1, <1>3 DEF Holds, ProbeUnlink, Popped
  <2>2. PICK i \in DOMAIN probe_queue, j \in DOMAIN probe_queue :
          i < j /\ probe_queue[i] = t /\ probe_queue[j] = u
    BY DEF Ahead
  <2>3. i # k /\ j # k
    BY <2>1, <2>2
  <2>4. RemoveAt(probe_queue, k) \in Seq(Task)
    BY <1>1, RemoveAtElements
  <2> QED
    BY <1>1, <2>1, <2>2, <2>3, <2>4, RemoveAtOrder DEF Ahead
<1> QED
  BY <1>2, <1>3

(* A step moves one task at most.                                          *)
Moves(m) == \A t, u \in Task \ {m} :
  Ahead(probe_queue, t, u) /\ queue'[t] = "probe" /\ queue'[u] = "probe"
  => Ahead(probe_queue', t, u)

(* An operation on a task moves that one.                                  *)
LEMMA TaskOpMoves ==
  ASSUME IInv, NEW m \in Task, TaskOp(m)
  PROVE  Moves(m)
<1>1. \/ probe_queue' = ProbeUnlink(m)
      \/ probe_queue' = Append(ProbeUnlink(m), m)
      \/ probe_queue' = <<m>> \o ProbeUnlink(m)
  BY DEF TaskOp, ReadyExpire, QueueProbe, QueueProbeHead, QueueWait, QueueWaitTv,
         QueueDone, QueueDetach, Relink
<1> SUFFICES ASSUME NEW t \in Task \ {m}, NEW u \in Task \ {m}, Ahead(probe_queue, t, u)
             PROVE  Ahead(probe_queue', t, u)
  BY DEF Moves
<1>2. ProbeUnlink(m) \in Seq(Task) /\ Ahead(ProbeUnlink(m), t, u)
  BY AheadUnlink
<1> QED
  BY <1>1, <1>2, AheadEnds

(* An operation of the main loop moves the head, or nothing.               *)
LEMMA MainOpMoves ==
  ASSUME IInv, MainOp, NEW n \in Task
  PROVE  \E m \in Task : Moves(m)
<1>1. probe_queue \in Seq(Task)
  BY DEF IInv, TypeInv
<1>2. CASE QueueSelect
  <2>1. Head(probe_queue) \in Task /\ probe_queue' = Tail(probe_queue)
    BY <1>1, <1>2 DEF QueueSelect
  <2>2. Moves(Head(probe_queue))
    BY <1>1, <2>1, AheadEnds DEF Moves
  <2> QED
    BY <2>1, <2>2
<1>3. CASE QueueEmpty
  <2>1. \A t \in Task : queue'[t] # "probe"
    BY <1>3 DEF QueueEmpty, Obj
  <2> QED
    BY <2>1 DEF Moves
<1>4. CASE QueueGetDone \/ ReadyStart \/ ReadyStop \/ EventStart \/ EventStop
  BY <1>4 DEF QueueGetDone, ReadyStart, ReadyStop, EventStart, EventStop, lists, Moves
<1> QED
  BY <1>2, <1>3, <1>4 DEF MainOp

(* No step changes the order of the tasks of the probe queue that it does  *)
(* not requeue, whatever is taken out of the middle (scamper_queue.c:312). *)
THEOREM OrderKeptHolds ==
  ASSUME Task # {}
  PROVE  Spec => OrderKept
<1>1. IInv /\ [Next]_vars => [\E m \in Task : Moves(m)]_vars
  <2> SUFFICES ASSUME IInv, Next
               PROVE  \E m \in Task : Moves(m)
    OBVIOUS
  <2>1. PICK n : n \in Task
    OBVIOUS
  <2>2. CASE \E t \in Task : TaskOp(t)
    BY <2>2, TaskOpMoves
  <2>3. CASE \E e \in Event : EventOp(e)
    BY <2>1, <2>3 DEF EventOp, EventUpdateTime, EventFree, EventFire, lists, Moves
  <2>4. CASE MainOp
    BY <2>1, <2>4, MainOpMoves
  <2>5. CASE Tick
    BY <2>1, <2>5 DEF Tick, lists, Moves
  <2> QED
    BY <2>2, <2>3, <2>4, <2>5 DEF Next
<1>2. (\E m \in Task : Moves(m)) =>
        \E m \in Task : \A t, u \in Task \ {m} :
          /\ Ahead(probe_queue, t, u)
          /\ queue'[t] = "probe"
          /\ queue'[u] = "probe"
          => Ahead(probe_queue', t, u)
  BY DEF Moves
<1> QED
  BY <1>1, <1>2, InitIInv, NextIInv, PTL DEF Spec, OrderKept

-----------------------------------------------------------------------------
(* A heap that is not empty has a head: natural numbers have a least.      *)
LEMMA HeadExists ==
  ASSUME NEW heap \in SUBSET Obj, heap # {}, key \in [Obj -> Nat]
  PROVE  \E h \in heap : h \in Heads(heap)
<1> DEFINE S == {key[x] : x \in heap}
<1>1. S \subseteq Nat /\ S # {}
  OBVIOUS
<1>2. PICK n \in S : \A y \in S : ~ (<<y, n>> \in OpToRel(<, Nat))
  BY <1>1, NatLessThanWellFounded, WFMin
<1>3. PICK h \in heap : key[h] = n
  BY <1>2
<1> HIDE DEF S
<1>4. ASSUME NEW y \in S PROVE n <= y
  <2>1. y \in Nat /\ n \in Nat
    BY <1>1
  <2>2. ~ (y < n)
    BY <1>2, <2>1 DEF OpToRel
  <2> QED
    BY <2>1, <2>2
<1> USE DEF S
<1>5. \A y \in heap : key[h] <= key[y]
  BY <1>3, <1>4
<1> QED
  BY <1>4, <1>5 DEF Heads

(* When readycount ends, all that still waits is due after the time it     *)
(* compared with, whatever its handlers queued meanwhile.                  *)
THEOREM ScanCompleteHolds == Spec => ScanComplete
<1>1. IInv /\ [Next]_vars
      => [scan = "ready" /\ scan' = "none" => \A t \in wait_queue' : tv < timeout'[t]]_vars
  <2> SUFFICES ASSUME IInv, Next, scan = "ready", scan' = "none", NEW t \in wait_queue'
               PROVE  tv < timeout'[t]
    OBVIOUS
  <2>1. ReadyStop
    BY DEF Next, TaskOp, EventOp, MainOp, Tick, QueueProbe, QueueProbeHead, QueueWait,
           QueueWaitTv, QueueDone, QueueDetach, ReadyExpire, EventUpdateTime, EventFree,
           EventFire, QueueSelect, QueueGetDone, QueueEmpty, ReadyStart, EventStart, EventStop
  <2>2. /\ \A h \in Heads(wait_queue) : tv < timeout[h]
        /\ wait_queue' = wait_queue /\ timeout' = timeout
    BY <2>1 DEF ReadyStop, lists
  <2>3. /\ wait_queue \in SUBSET Obj /\ key \in [Obj -> Nat] /\ timeout \in [Obj -> Nat]
        /\ tv \in Nat
    BY QueueAssumption DEF IInv, TypeInv, Obj, Time
  <2>4. PICK h \in wait_queue : h \in Heads(wait_queue)
    BY <2>2, <2>3, HeadExists
  <2>5. timeout[h] <= timeout[t]
    BY <2>2, <2>4 DEF IInv, KeysFresh, Heads
  <2>6. tv < timeout[h] /\ timeout[h] \in Nat /\ timeout[t] \in Nat
    BY <2>2, <2>3, <2>4
  <2> QED
    BY <2>2, <2>3, <2>5, <2>6
<1> QED
  BY <1>1, InitIInv, NextIInv, PTL DEF Spec, ScanComplete
=============================================================================
