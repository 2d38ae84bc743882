-------------------------- MODULE ScamperLoopProofs --------------------------
(***************************************************************************)
(* Proofs about ScamperLoop, for any tasks, rate, window and delays: the   *)
(* loop implements the bucket of ProbeBucket, keeps the window, and ends   *)
(* only when its work is done.                                             *)
(***************************************************************************)
EXTENDS ScamperLoop, FiniteSetTheorems, SequenceTheorems, WellFoundedInduction, TLAPS

(* What pacing rests on: while probes are sent, no more time than          *)
(* ProbeWindow counts, because the pause was cut down before.              *)
PaceInv ==
  /\ since \in 0 .. Cap
  /\ lag \in 0 .. MaxLag
  /\ pc = "probe" => Elapsed <= ProbeWindow
  /\ probe_queue \in Seq(Task)
  /\ left \in [Task -> Nat]

(* What readycount appends to the probe queue are tasks.                   *)
LEMMA ReadyCountQueue ==
  ASSUME PaceInv, ReadyCount
  PROVE  probe_queue' \in Seq(Task)
<1>1. PICK R \in SUBSET {t \in Expired : left[t] > 0} :
        \E q \in SetToSeqs(R) : probe_queue' = probe_queue \o q
  BY DEF ReadyCount
<1>2. R \subseteq Task
  BY DEF Expired, In
<1>3. IsFiniteSet(R) /\ Cardinality(R) \in Nat
  BY <1>2, FS_Subset, FS_CardinalityType, LoopAssumption
<1> PICK q \in SetToSeqs(R) : probe_queue' = probe_queue \o q
  BY <1>1
<1>4. q \in [1 .. Cardinality(R) -> R]
  BY DEF SetToSeqs
<1>5. q \in Seq(Task)
  BY <1>2, <1>3, <1>4
<1> QED
  BY <1>5, ConcatProperties DEF PaceInv

(* Sending a probe takes WaitBetween out of what was saved.                *)
LEMMA SendsPaid ==
  ASSUME PaceInv, Probing, NEW t \in Task, NEW q \in Seq(Task), Sends(t, q)
  PROVE  /\ probe_queue' \in Seq(Task)
         /\ since' \in 0 .. Cap /\ lag' = lag /\ pc' = pc
         /\ left' \in [Task -> Nat] /\ left[t] > 0
         /\ left' = [left EXCEPT ![t] = @ - 1]
         /\ Elapsed' <= ProbeWindow
         /\ Sooner(since, Depth) = since /\ since >= WaitBetween
         /\ Sooner(since', Depth) = since - WaitBetween
<1>1. since \in Nat /\ lag \in Nat /\ lag <= MaxLag /\ since - lag <= ProbeWindow
      /\ since - lag >= WaitBetween
  BY LoopAssumption DEF PaceInv, Probing, Elapsed
<1>2. since' = since - WaitBetween /\ lag' = lag /\ pc' = pc
  BY DEF Sends
<1>3. left[t] > 0 /\ left' = [left EXCEPT ![t] = @ - 1]
  BY DEF Sends
<1>4. left' \in [Task -> Nat]
  BY <1>3 DEF PaceInv
<1>5. probe_queue' = q \/ probe_queue' = Append(q, t)
  BY DEF Sends
<1>6. probe_queue' \in Seq(Task)
  BY <1>5, AppendProperties
<1> QED
  BY <1>1, <1>2, <1>3, <1>4, <1>6, LoopAssumption DEF Sooner, Depth, Cap, Elapsed, PaceInv

(* The inductive step.                                                     *)
LEMMA NextPace == PaceInv /\ [Next]_vars => PaceInv'
<1> SUFFICES ASSUME PaceInv, [Next]_vars PROVE PaceInv'
  OBVIOUS
<1> USE LoopAssumption
<1>1. CASE UNCHANGED vars
  BY <1>1 DEF vars, PaceInv, Elapsed
<1>2. CASE Tick
  <2>1. UNCHANGED <<probe_queue, left, pc>>
    BY <1>2 DEF Tick
  <2>2. since' = Sooner(since + 1, Cap)
    BY <1>2 DEF Tick
  <2>3. since' \in 0 .. Cap
    BY <2>2 DEF PaceInv, Sooner, Cap, Depth
  <2>4. CASE pc = "poll"
    <3>1. lag' = lag
      BY <1>2, <2>4 DEF Tick
    <3> QED
      BY <2>1, <2>3, <2>4, <3>1 DEF PaceInv
  <2>5. CASE pc # "poll"
    <3>1. lag' = lag + 1 /\ lag < MaxLag
      BY <1>2, <2>5 DEF Tick
    <3>2. lag' \in 0 .. MaxLag
      BY <3>1 DEF PaceInv
    <3>3. Elapsed' <= Elapsed
      BY <2>2, <3>1 DEF Elapsed, Sooner, PaceInv, Cap, Depth
    <3>4. Elapsed \in Int /\ Elapsed' \in Int
      BY <2>3, <3>2 DEF Elapsed, PaceInv, Cap, Depth
    <3>5. pc' = "probe" => Elapsed' <= ProbeWindow
      BY <2>1, <3>3, <3>4 DEF PaceInv
    <3> QED
      BY <2>1, <2>3, <3>2, <3>5 DEF PaceInv
  <2> QED
    BY <2>4, <2>5
<1>3. CASE ProcessDone
  BY <1>3 DEF ProcessDone, PaceInv, clock
<1>4. CASE Timeout
  BY <1>4, ReadyCountQueue DEF Timeout, PaceInv, clock
<1>5. CASE PollTimeout \/ PollEvent \/ EndFds
  BY <1>5 DEF PollTimeout, PollEvent, EndFds, PaceInv, tasks
<1>6. CASE \E t \in Task : Reply(t)
  <2>1. PICK t \in Task : Reply(t)
    BY <1>6
  <2>2. probe_queue' = probe_queue \/ probe_queue' = Append(probe_queue, t)
    BY <2>1 DEF Reply
  <2>3. probe_queue' \in Seq(Task)
    BY SMTT(60), <2>2, AppendProperties DEF PaceInv
  <2> QED
    BY <2>1, <2>3 DEF Reply, PaceInv, clock
<1>7. CASE Command
  <2>1. probe_queue' = probe_queue \/ probe_queue' = <<>>
    BY <1>7 DEF Command, Attach, Submit, ShutdownDone, ShutdownFlush, ShutdownNow, tasks
  <2>2. probe_queue' \in Seq(Task)
    <3>1. <<>> \in Seq(Task)
      OBVIOUS
    <3> QED
      BY <2>1, <3>1 DEF PaceInv
  <2>3. UNCHANGED <<left, since, lag, pc>>
    BY <1>7 DEF Command, Attach, Submit, ShutdownDone, ShutdownFlush, ShutdownNow, tasks, clock
  <2> QED
    BY <2>2, <2>3 DEF PaceInv, Elapsed
<1>8. CASE Ready
  <2>1. probe_queue' \in Seq(Task) /\ UNCHANGED <<left, lag>>
    BY <1>8, ReadyCountQueue DEF Ready
  <2>2. CASE pc' = "probe"
    <3>1. since' = IF Elapsed > ProbeWindow THEN WaitBetween + lag ELSE since
      BY <1>8, <2>2 DEF Ready
    <3>2. since' \in 0 .. Cap /\ since' - lag <= ProbeWindow
      BY <3>1 DEF PaceInv, Elapsed, Cap, Depth
    <3> QED
      BY <2>1, <3>2 DEF PaceInv, Elapsed
  <2>3. CASE pc' # "probe"
    <3>1. since' = since
      BY <1>8, <2>3 DEF Ready
    <3> QED
      BY <2>1, <2>3, <3>1 DEF PaceInv
  <2> QED
    BY <2>2, <2>3
<1>9. CASE Select
  <2>1. Head(probe_queue) \in Task /\ Tail(probe_queue) \in Seq(Task)
    BY <1>9, HeadTailProperties DEF Select, PaceInv
  <2> QED
    BY <1>9, <2>1, SendsPaid DEF Select, PaceInv
<1>10. CASE \E t \in Task : Start(t)
  BY <1>10, SendsPaid DEF Start, PaceInv
<1>11. CASE EndProbes \/ NoTask
  BY <1>11 DEF EndProbes, NoTask, PaceInv, tasks, clock
<1> QED
  BY <1>1, <1>2, <1>3, <1>4, <1>5, <1>6, <1>7, <1>8, <1>9, <1>10, <1>11 DEF Next, MainStep

(* Every step of the loop is a step of the bucket, or none.                *)
LEMMA NextBucket ==
  PaceInv /\ PaceInv' /\ [Next]_vars
  => [Bucket!Next]_<<Sooner(since, Depth), left>>
<1> SUFFICES ASSUME PaceInv, PaceInv', [Next]_vars
             PROVE  [Bucket!Next]_<<Sooner(since, Depth), left>>
  OBVIOUS
<1> USE LoopAssumption
<1>1. CASE UNCHANGED <<since, left>>
  BY <1>1 DEF Sooner
<1>2. CASE Tick
  <2>1. since' = Sooner(since + 1, Cap) /\ UNCHANGED left
    BY <1>2 DEF Tick
  <2>2. \/ Sooner(since, Depth)' = Sooner(since, Depth)
        \/ /\ Sooner(since, Depth)' = Sooner(since, Depth) + 1
           /\ Sooner(since, Depth)' <= Depth
    BY <2>1 DEF PaceInv, Sooner, Cap, Depth
  <2> QED
    BY <2>1, <2>2 DEF Bucket!Next, Bucket!Fill
<1>3. CASE Ready
  <2>1. since' = since \/ (Elapsed > ProbeWindow /\ since' = WaitBetween + lag)
    BY <1>3 DEF Ready
  <2>2. UNCHANGED left
    BY <1>3 DEF Ready
  <2>3. CASE since' = since
    BY <1>1, <2>2, <2>3
  <2>4. CASE Elapsed > ProbeWindow /\ since' = WaitBetween + lag
    <3>1. since' < since /\ since' \in Nat /\ since \in Nat
      BY <2>4 DEF PaceInv, Elapsed, Cap, Depth
    <3>2. Sooner(since, Depth)' \in 0 .. Sooner(since, Depth)
      BY <3>1 DEF Sooner, Depth
    <3> QED
      BY <2>2, <3>2 DEF Bucket!Next, Bucket!Leak
  <2> QED
    BY <2>1, <2>3, <2>4
<1>4. ASSUME NEW t \in Task, NEW q \in Seq(Task), Probing, Sends(t, q)
      PROVE  Bucket!Next
  <2>1. /\ left[t] > 0 /\ left' = [left EXCEPT ![t] = @ - 1]
        /\ Sooner(since, Depth) = since /\ since >= WaitBetween
        /\ Sooner(since', Depth) = since - WaitBetween
    BY <1>4, SendsPaid
  <2> QED
    BY <2>1 DEF Bucket!Next, Bucket!Send, Depth
<1>5. CASE Select
  <2>1. Head(probe_queue) \in Task /\ Tail(probe_queue) \in Seq(Task)
    BY <1>5, HeadTailProperties DEF Select, PaceInv
  <2> QED
    BY <1>4, <1>5, <2>1 DEF Select
<1>6. CASE \E t \in Task : Start(t)
  BY <1>4, <1>6 DEF Start, PaceInv
<1>7. CASE ProcessDone \/ Timeout \/ PollTimeout \/ PollEvent \/ EndFds \/ EndProbes \/ NoTask
  BY <1>1, <1>7 DEF ProcessDone, Timeout, PollTimeout, PollEvent, EndFds, EndProbes,
                    NoTask, tasks, clock
<1>8. CASE Command \/ \E t \in Task : Reply(t)
  BY <1>1, <1>8 DEF Command, Attach, Submit, ShutdownDone, ShutdownFlush, ShutdownNow, Reply,
                    tasks, clock
<1>9. CASE UNCHANGED vars
  BY <1>1, <1>9 DEF vars
<1> QED
  BY <1>2, <1>3, <1>5, <1>6, <1>7, <1>8, <1>9 DEF Next, MainStep

(* The loop starts like the bucket, empty.                                 *)
LEMMA InitPace == Init => PaceInv /\ Bucket!Init
<1> SUFFICES ASSUME Init PROVE PaceInv /\ Bucket!Init
  OBVIOUS
<1> USE LoopAssumption
<1>1. PaceInv
  BY DEF Init, PaceInv, Cap, Depth
<1>2. Bucket!Init
  BY DEF Init, Bucket!Init, Sooner, Depth
<1> QED
  BY <1>1, <1>2

(* Over any stretch of time L the loop sends no more probes than           *)
(* (ProbeWindow + MaxLag + L) / WaitBetween: it implements the bucket.     *)
THEOREM PacedHolds == Spec => Paced
<1>1. Init => PaceInv /\ Bucket!Init
  BY InitPace
<1> QED
  BY <1>1, NextPace, NextBucket, PTL DEF Spec, Paced, Bucket!Spec

-----------------------------------------------------------------------------
(* q holds the tasks that p says are to be probed, each once               *)
Lists(p, q) ==
  /\ q \in Seq(Task)
  /\ \A i, j \in DOMAIN q : q[i] = q[j] => i = j
  /\ \A t \in Task : p[t] = "probe" <=> \E i \in DOMAIN q : q[i] = t

(* The probe queue agrees with where the tasks are, and what shutdown now  *)
(* took off its queue has no source.                                       *)
PlaceInv ==
  /\ place \in [Task -> Places]
  /\ Lists(place, probe_queue)
  /\ detached \subseteq Task
  /\ In({"purged"}) \subseteq detached

(* An enumeration of a finite set is a sequence of its elements, each once *)
LEMMA Enumeration ==
  ASSUME NEW S, IsFiniteSet(S), NEW q \in SetToSeqs(S)
  PROVE  /\ q \in Seq(S)
         /\ DOMAIN q = 1 .. Len(q) /\ Len(q) \in Nat
         /\ \A i, j \in DOMAIN q : q[i] = q[j] => i = j
         /\ \A x \in S : \E i \in DOMAIN q : q[i] = x
<1> DEFINE n == Cardinality(S)
<1>1. n \in Nat
  BY FS_CardinalityType
<1>2. q \in [1 .. n -> S] /\ \A i, j \in 1 .. n : i # j => q[i] # q[j]
  BY DEF SetToSeqs
<1>3. IsFiniteSet(1 .. n) /\ Cardinality(1 .. n) = n
  BY <1>1, FS_Interval
<1> HIDE DEF n
<1>4. q \in Injection(1 .. n, S)
  BY <1>2 DEF Injection, IsInjective
<1>5. q \in Surjection(1 .. n, S)
  BY <1>3, <1>4, FS_Injection DEF n
<1>6. \A x \in S : \E i \in 1 .. n : q[i] = x
  BY <1>5 DEF Surjection
<1> QED
  BY <1>1, <1>2, <1>6

(* Appending an enumeration of tasks that the queue does not list.         *)
LEMMA AppendLists ==
  ASSUME NEW p, NEW r, NEW s \in Seq(Task), Lists(p, s),
         NEW S \in SUBSET Task, NEW q \in Seq(S),
         \A i, j \in DOMAIN q : q[i] = q[j] => i = j,
         \A x \in S : \E i \in DOMAIN q : q[i] = x,
         \A t \in S : p[t] # "probe",
         \A t \in Task : r[t] = "probe" <=> p[t] = "probe" \/ t \in S
  PROVE  Lists(r, s \o q)
<1>1. /\ s \o q \in Seq(Task)
      /\ Len(s) \in Nat /\ Len(q) \in Nat
      /\ DOMAIN s = 1 .. Len(s) /\ DOMAIN q = 1 .. Len(q)
      /\ DOMAIN (s \o q) = 1 .. Len(s) + Len(q)
      /\ \A i \in 1 .. Len(s) : (s \o q)[i] = s[i]
      /\ \A i \in 1 .. Len(s) + Len(q) : i > Len(s) => (s \o q)[i] = q[i - Len(s)]
  OBVIOUS
<1>2. \A i \in DOMAIN s : s[i] \in Task /\ p[s[i]] = "probe" /\ s[i] \notin S
  BY <1>1 DEF Lists
<1>3. \A i \in DOMAIN q : q[i] \in S
  BY <1>1
<1> DEFINE w == s \o q
<1>4. \A i \in DOMAIN w : \/ i \in DOMAIN s /\ w[i] = s[i]
                          \/ i - Len(s) \in DOMAIN q /\ i > Len(s) /\ w[i] = q[i - Len(s)]
  BY <1>1
<1>5. /\ \A i \in DOMAIN s : i \in DOMAIN w /\ w[i] = s[i]
      /\ \A k \in DOMAIN q : k + Len(s) \in DOMAIN w /\ w[k + Len(s)] = q[k]
  BY <1>1
<1>6. DOMAIN w \subseteq Int /\ w \in Seq(Task)
  BY <1>1
<1> HIDE DEF w
<1>7. ASSUME NEW i \in DOMAIN w, NEW j \in DOMAIN w, w[i] = w[j]
      PROVE  i = j
  <2>1. CASE i \in DOMAIN s /\ w[i] = s[i] /\ j \in DOMAIN s /\ w[j] = s[j]
    BY <1>7, <2>1 DEF Lists
  <2>2. CASE /\ i - Len(s) \in DOMAIN q /\ w[i] = q[i - Len(s)]
             /\ j - Len(s) \in DOMAIN q /\ w[j] = q[j - Len(s)]
    <3>1. i - Len(s) = j - Len(s)
      BY <1>7, <2>2
    <3> QED
      BY <1>1, <1>6, <3>1
  <2> QED
    BY <1>2, <1>3, <1>4, <1>7, <2>1, <2>2
<1>8. ASSUME NEW t \in Task
      PROVE  r[t] = "probe" <=> \E i \in DOMAIN w : w[i] = t
  <2>1. ASSUME r[t] = "probe" PROVE \E i \in DOMAIN w : w[i] = t
    <3>1. CASE p[t] = "probe"
      BY <1>5, <3>1 DEF Lists
    <3>2. CASE t \in S
      BY <1>5, <3>2
    <3> QED
      BY <2>1, <3>1, <3>2
  <2>2. ASSUME NEW i \in DOMAIN w, w[i] = t PROVE r[t] = "probe"
    BY <1>2, <1>3, <1>4, <2>2
  <2> QED
    BY <2>1, <2>2
<1> QED
  BY <1>6, <1>7, <1>8 DEF Lists, w

(* Appending a task that was not to be probed.                             *)
LEMMA AppendTask ==
  ASSUME NEW p, NEW r, NEW s \in Seq(Task), Lists(p, s), NEW t \in Task,
         p[t] # "probe", r[t] = "probe",
         \A u \in Task : u # t => (r[u] = "probe" <=> p[u] = "probe")
  PROVE  Lists(r, Append(s, t))
<1> DEFINE S == {t}
           q == <<t>>
<1>1. /\ S \in SUBSET Task /\ q \in Seq(S)
      /\ \A i, j \in DOMAIN q : q[i] = q[j] => i = j
      /\ \A x \in S : \E i \in DOMAIN q : q[i] = x
  OBVIOUS
<1>2. /\ \A u \in S : p[u] # "probe"
      /\ \A u \in Task : r[u] = "probe" <=> p[u] = "probe" \/ u \in S
  OBVIOUS
<1>3. Append(s, t) = s \o q
  OBVIOUS
<1> HIDE DEF S, q
<1> QED
  BY <1>1, <1>2, <1>3, AppendLists

-----------------------------------------------------------------------------
(* readycount moves expired tasks from the heap to the probe queue or the  *)
(* done queue, and nothing else.                                           *)
LEMMA ReadyCountPlaces ==
  ASSUME PlaceInv, ReadyCount
  PROVE  /\ place' \in [Task -> Places]
         /\ Lists(place', probe_queue')
         /\ In({"purged"})' = In({"purged"})
         /\ In({"probe", "wait"})' \subseteq In({"probe", "wait"})
<1> DEFINE Moved(R) == [t \in Task |-> IF t \in R THEN "probe"
                                      ELSE IF t \in Expired THEN "done" ELSE place[t]]
<1>1. PICK R : /\ R \subseteq {t \in Expired : left[t] > 0}
               /\ \E q \in SetToSeqs(R) :
                    probe_queue' = probe_queue \o q /\ place' = Moved(R)
  BY DEF ReadyCount
<1>2. PICK q : /\ q \in SetToSeqs(R)
               /\ probe_queue' = probe_queue \o q /\ place' = Moved(R)
  BY <1>1
<1>3. /\ R \in SUBSET Task /\ R \subseteq Expired
      /\ \A t \in R : place[t] # "probe"
      /\ \A t \in Expired : t \in Task /\ place[t] = "wait"
  BY <1>1 DEF Expired, In
<1>4. \A t \in Task : place'[t] = "probe" <=> place[t] = "probe" \/ t \in R
  BY <1>2, <1>3
<1>5. IsFiniteSet(R)
  BY <1>3, FS_Subset, LoopAssumption
<1>6. /\ q \in Seq(R)
      /\ \A i, j \in DOMAIN q : q[i] = q[j] => i = j
      /\ \A x \in R : \E i \in DOMAIN q : q[i] = x
  BY <1>2, <1>5, Enumeration
<1>7. probe_queue \in Seq(Task) /\ Lists(place, probe_queue)
  BY DEF PlaceInv, Lists
<1>8. Lists(place', probe_queue \o q)
  BY <1>3, <1>4, <1>6, <1>7, AppendLists
<1>9. place' \in [Task -> Places]
  BY <1>2 DEF PlaceInv, Places
<1>10. \A t \in Task : /\ place'[t] = "purged" <=> place[t] = "purged"
                       /\ place'[t] \in {"probe", "wait"} => place[t] \in {"probe", "wait"}
  BY <1>2, <1>3
<1> QED
  BY <1>2, <1>8, <1>9, <1>10 DEF In

(* Taking the head of the probe queue, which the task leaves.              *)
LEMMA TailLists ==
  ASSUME NEW p, NEW r, NEW s \in Seq(Task), Lists(p, s), s # <<>>,
         r[Head(s)] # "probe",
         \A t \in Task : t # Head(s) => (r[t] = "probe" <=> p[t] = "probe")
  PROVE  Lists(r, Tail(s)) /\ Head(s) \in Task /\ p[Head(s)] = "probe"
<1> DEFINE w == Tail(s)
<1>1. /\ Len(s) \in Nat \ {0} /\ DOMAIN s = 1 .. Len(s)
      /\ Head(s) = s[1] /\ 1 \in DOMAIN s
      /\ w \in Seq(Task) /\ DOMAIN w = 1 .. Len(s) - 1
      /\ \A i \in DOMAIN w : i + 1 \in DOMAIN s /\ w[i] = s[i + 1]
  OBVIOUS
<1>2. Head(s) \in Task /\ p[Head(s)] = "probe"
  BY <1>1 DEF Lists
<1> HIDE DEF w
<1>3. ASSUME NEW i \in DOMAIN w, NEW j \in DOMAIN w, w[i] = w[j]
      PROVE  i = j
  <2>1. i + 1 = j + 1
    BY <1>1, <1>3 DEF Lists
  <2> QED
    BY <1>1, <2>1
<1>4. ASSUME NEW t \in Task
      PROVE  r[t] = "probe" <=> \E i \in DOMAIN w : w[i] = t
  <2>1. ASSUME r[t] = "probe" PROVE \E i \in DOMAIN w : w[i] = t
    <3>1. t # Head(s) /\ p[t] = "probe"
      BY <2>1
    <3>2. PICK i \in DOMAIN s : s[i] = t
      BY <3>1 DEF Lists
    <3>3. i # 1 /\ i - 1 \in DOMAIN w
      BY <1>1, <3>1, <3>2
    <3>4. w[i - 1] = s[i]
      BY <1>1, <3>3
    <3> QED
      BY <3>2, <3>3, <3>4
  <2>2. ASSUME NEW i \in DOMAIN w, w[i] = t PROVE r[t] = "probe"
    <3>1. s[i + 1] = t /\ i + 1 # 1 /\ i + 1 \in DOMAIN s
      BY <1>1, <2>2
    <3>2. t # s[1]
      BY <1>1, <3>1 DEF Lists
    <3>3. p[t] = "probe"
      BY <3>1 DEF Lists
    <3> QED
      BY <1>1, <3>2, <3>3
  <2> QED
    BY <2>1, <2>2
<1> QED
  BY <1>1, <1>2, <1>3, <1>4 DEF Lists, w

-----------------------------------------------------------------------------
(* what WindowKept counts                                                  *)
Counted == In({"probe", "wait"}) \ detached

(* No step but the start of a task adds to what is counted, and that one   *)
(* adds its task when the window has room.                                 *)
Narrow ==
  \/ Counted' \subseteq Counted
  \/ WindowRoom /\ \E t \in Task : Counted' \subseteq Counted \cup {t}

(* Steps that leave the tasks and their sources alone                      *)
LEMMA QuietPlace ==
  ASSUME PlaceInv, UNCHANGED <<place, probe_queue, detached>>
  PROVE  PlaceInv' /\ Narrow
BY DEF PlaceInv, Narrow, Counted, In

(* Steps that run readycount                                               *)
LEMMA ReadyCountPlace ==
  ASSUME PlaceInv, ReadyCount, UNCHANGED detached
  PROVE  PlaceInv' /\ Narrow
BY ReadyCountPlaces DEF PlaceInv, Narrow, Counted

(* A reply ends a task or has it probed again; a task whose source is gone *)
(* is not counted.                                                         *)
LEMMA ReplyPlace ==
  ASSUME PlaceInv, NEW t \in Task, Reply(t)
  PROVE  PlaceInv' /\ Narrow
<1>1. /\ detached' = detached /\ place[t] \in {"wait", "purged"}
      /\ place \in [Task -> Places] /\ probe_queue \in Seq(Task)
      /\ In({"purged"}) \subseteq detached
  BY DEF Reply, PlaceInv, Lists, sources
<1>2. CASE place' \in {[place EXCEPT ![t] = "done"], [place EXCEPT ![t] = "wait"]}
           /\ UNCHANGED probe_queue
  <2>1. /\ place' \in [Task -> Places] /\ place'[t] \in {"done", "wait"}
        /\ \A u \in Task : u # t => place'[u] = place[u]
    BY <1>1, <1>2 DEF Places
  <2>2. Lists(place', probe_queue')
    BY <1>1, <1>2, <2>1 DEF PlaceInv, Lists
  <2>3. In({"purged"})' \subseteq In({"purged"}) /\ Counted' \subseteq Counted
    BY <1>1, <2>1 DEF Counted, In
  <2> QED
    BY <1>1, <2>1, <2>2, <2>3 DEF PlaceInv, Narrow
<1>3. CASE /\ place' = [place EXCEPT ![t] = "probe"]
           /\ probe_queue' = Append(probe_queue, t)
  <2>1. /\ place[t] # "probe" /\ place'[t] = "probe" /\ place' \in [Task -> Places]
        /\ \A u \in Task : u # t => place'[u] = place[u]
    BY <1>1, <1>3 DEF Places
  <2>2. Lists(place', probe_queue')
    BY <1>1, <1>3, <2>1, AppendTask DEF PlaceInv
  <2>3. In({"purged"})' \subseteq In({"purged"}) /\ Counted' \subseteq Counted
    BY <1>1, <2>1 DEF Counted, In
  <2> QED
    BY <1>1, <2>1, <2>2, <2>3 DEF PlaceInv, Narrow
<1> QED
  BY <1>2, <1>3 DEF Reply

(* Commands take tasks off their queues, with their sources, or add some   *)
(* that are not probed yet.                                                *)
LEMMA CommandPlace ==
  ASSUME PlaceInv, Command
  PROVE  PlaceInv' /\ Narrow
<1>1. CASE Attach \/ \E on \in BOOLEAN : ShutdownDone(on)
  <2>1. UNCHANGED <<place, probe_queue, detached>>
    BY <1>1 DEF Attach, ShutdownDone, tasks, sources
  <2> QED
    BY <2>1, QuietPlace
<1>2. ASSUME NEW t \in Task, Submit(t)
      PROVE  PlaceInv' /\ Narrow
  <2>1. /\ place[t] = "new" /\ place' = [place EXCEPT ![t] = "source"]
        /\ UNCHANGED <<probe_queue, detached>>
    BY <1>2 DEF Submit
  <2>2. /\ place' \in [Task -> Places]
        /\ \A u \in Task : /\ place'[u] = "probe" <=> place[u] = "probe"
                           /\ place'[u] = "wait" <=> place[u] = "wait"
                           /\ place'[u] = "purged" <=> place[u] = "purged"
    BY <2>1 DEF PlaceInv, Places
  <2>3. Lists(place', probe_queue')
    BY <2>1, <2>2 DEF PlaceInv, Lists
  <2> QED
    BY <2>1, <2>2, <2>3 DEF PlaceInv, Narrow, Counted, In
<1>3. CASE ShutdownFlush
  <2>1. /\ \A t \in Task : place'[t] = IF place[t] = "source" THEN "freed" ELSE place[t]
        /\ place' \in [Task -> Places]
        /\ probe_queue' = probe_queue /\ detached' = detached \cup Listed
    BY <1>3 DEF ShutdownFlush, PlaceInv, Places
  <2>2. \A t \in Task : /\ place'[t] = "probe" <=> place[t] = "probe"
                        /\ place'[t] = "wait" <=> place[t] = "wait"
                        /\ place'[t] = "purged" <=> place[t] = "purged"
    BY <2>1
  <2>3. Lists(place', probe_queue')
    BY <2>1, <2>2 DEF PlaceInv, Lists
  <2> QED
    BY <2>1, <2>2, <2>3 DEF PlaceInv, Narrow, Counted, In, Listed
<1>4. CASE ShutdownNow
  <2>1. /\ place' = [t \in Task |-> CASE place[t] = "source"            -> "freed"
                                      [] place[t] \in {"probe", "wait"} -> "purged"
                                      [] OTHER                          -> place[t]]
        /\ probe_queue' = <<>> /\ detached' = detached \cup Listed
    BY <1>4 DEF ShutdownNow
  <2>2. ASSUME NEW t \in Task
        PROVE  /\ place'[t] \in Places /\ place'[t] \notin {"probe", "wait"}
               /\ place'[t] = "purged" => place[t] \in {"probe", "wait", "purged"}
    <3>1. place[t] \in Places
      BY DEF PlaceInv
    <3>2. CASE place[t] = "source"
      BY <2>1, <3>2 DEF Places
    <3>3. CASE place[t] \in {"probe", "wait"}
      BY <2>1, <3>3 DEF Places
    <3>4. CASE place[t] \notin {"source", "probe", "wait"}
      BY <2>1, <3>1, <3>4
    <3> QED
      BY <3>2, <3>3, <3>4
  <2>3. place' \in [Task -> Places]
    BY <2>1, <2>2
  <2>4. Lists(place', <<>>)
    BY <2>2 DEF Lists
  <2>5. In({"purged"})' \subseteq detached' /\ detached' \subseteq Task
    BY <2>1, <2>2 DEF In, Listed, PlaceInv
  <2>6. Counted' = {}
    BY <2>2 DEF Counted, In
  <2> QED
    BY <2>1, <2>3, <2>4, <2>5, <2>6 DEF PlaceInv, Narrow
<1> QED
  BY <1>1, <1>2, <1>3, <1>4 DEF Command

(* A probe leaves its task waiting, done, or at the end of the queue; p is *)
(* where the tasks are when q lists what is to be probed, without it.      *)
LEMMA SendsPlace ==
  ASSUME PlaceInv, NEW t \in Task, NEW q \in Seq(Task), NEW p, Sends(t, q),
         Lists(p, q), p[t] # "probe",
         \A u \in Task : u # t => (p[u] = "probe" <=> place[u] = "probe")
  PROVE  /\ PlaceInv' /\ detached' = detached
         /\ Counted' \subseteq Counted \cup {t}
<1>1. /\ detached' = detached
      /\ \/ place' = [place EXCEPT ![t] = "wait"] /\ probe_queue' = q
         \/ place' = [place EXCEPT ![t] = "done"] /\ probe_queue' = q
         \/ place' = [place EXCEPT ![t] = "probe"] /\ probe_queue' = Append(q, t)
  BY DEF Sends, sources
<1>2. /\ place' \in [Task -> Places] /\ place'[t] \in {"wait", "done", "probe"}
      /\ \A u \in Task : u # t => place'[u] = place[u]
  BY <1>1 DEF PlaceInv, Places
<1>3. CASE place'[t] # "probe"
  <2>1. probe_queue' = q
    BY <1>1, <1>3 DEF PlaceInv
  <2>2. \A u \in Task : place'[u] = "probe" <=> p[u] = "probe"
    BY <1>2, <1>3
  <2> QED
    BY <1>1, <1>2, <2>1, <2>2 DEF PlaceInv, Lists, Counted, In
<1>4. CASE place'[t] = "probe"
  <2>1. probe_queue' = Append(q, t)
    BY <1>1, <1>4 DEF PlaceInv
  <2>2. Lists(place', probe_queue')
    BY <1>2, <1>4, <2>1, AppendTask
  <2> QED
    BY <1>1, <1>2, <2>2 DEF PlaceInv, Counted, In
<1> QED
  BY <1>3, <1>4

(* The inductive step: the queue agrees with the places, and only a start  *)
(* that has room adds to the window.                                       *)
LEMMA NextPlace ==
  ASSUME PlaceInv, [Next]_vars
  PROVE  PlaceInv' /\ Narrow
<1>1. CASE UNCHANGED vars \/ Tick \/ PollTimeout \/ PollEvent \/ EndFds \/ NoTask \/ EndProbes
  BY <1>1, QuietPlace DEF vars, Tick, PollTimeout, PollEvent, EndFds, NoTask, EndProbes,
                          tasks, sources
<1>2. CASE ProcessDone
  <2>1. /\ UNCHANGED <<probe_queue, detached>>
        /\ place' = [t \in Task |-> IF place[t] = "done" THEN "freed" ELSE place[t]]
    BY <1>2 DEF ProcessDone
  <2>2. /\ place' \in [Task -> Places]
        /\ \A t \in Task : /\ place'[t] = "probe" <=> place[t] = "probe"
                           /\ place'[t] = "wait" <=> place[t] = "wait"
                           /\ place'[t] = "purged" <=> place[t] = "purged"
    BY <2>1 DEF PlaceInv, Places
  <2>3. Lists(place', probe_queue')
    BY <2>1, <2>2 DEF PlaceInv, Lists
  <2> QED
    BY <2>1, <2>2, <2>3 DEF PlaceInv, Narrow, Counted, In
<1>3. CASE Timeout \/ Ready
  BY <1>3, ReadyCountPlace DEF Timeout, Ready, sources
<1>4. CASE \E t \in Task : Reply(t)
  BY <1>4, ReplyPlace
<1>5. CASE Command
  BY <1>5, CommandPlace
<1>6. CASE Select
  <2> DEFINE t == Head(probe_queue)
  <2>1. probe_queue \in Seq(Task) /\ probe_queue # <<>>
    BY <1>6 DEF Select, PlaceInv, Lists
  <2>2. t \in Task /\ place[t] = "probe" /\ Tail(probe_queue) \in Seq(Task)
    <3>1. 1 \in DOMAIN probe_queue /\ t = probe_queue[1] /\ t \in Task
      BY <2>1
    <3> QED
      BY <2>1, <3>1 DEF PlaceInv, Lists
  <2>3. Sends(t, Tail(probe_queue))
    BY <1>6 DEF Select
  <2> DEFINE p == [place EXCEPT ![t] = "done"]
  <2>4. p[t] # "probe" /\ \A u \in Task : u # t => (p[u] = "probe" <=> place[u] = "probe")
    BY <2>2 DEF PlaceInv
  <2> HIDE DEF p
  <2>5. Lists(p, Tail(probe_queue))
    BY <2>1, <2>4, TailLists DEF PlaceInv
  <2> HIDE DEF t
  <2>6. PlaceInv' /\ detached' = detached /\ Counted' \subseteq Counted \cup {t}
    BY <2>2, <2>3, <2>4, <2>5, SendsPlace
  <2>7. Counted' \subseteq Counted
    BY <2>2, <2>6 DEF Counted, In
  <2> QED
    BY <2>6, <2>7 DEF Narrow
<1>7. ASSUME NEW t \in Task, Start(t)
      PROVE  PlaceInv' /\ Narrow
  <2>1. /\ WindowRoom /\ place[t] # "probe" /\ Sends(t, probe_queue)
        /\ probe_queue \in Seq(Task) /\ Lists(place, probe_queue)
    BY <1>7 DEF Start, PlaceInv, Lists
  <2>2. PlaceInv' /\ Counted' \subseteq Counted \cup {t}
    BY <2>1, SendsPlace
  <2> QED
    BY <2>1, <2>2 DEF Narrow
<1> QED
  BY <1>1, <1>2, <1>3, <1>4, <1>5, <1>6, <1>7 DEF Next, MainStep

(* Nothing is queued at the start.                                         *)
LEMMA InitPlace == Init => PlaceInv /\ WindowKept
<1> SUFFICES ASSUME Init PROVE PlaceInv /\ WindowKept
  OBVIOUS
<1>1. /\ place \in [Task -> Places] /\ probe_queue = <<>> /\ detached = {}
      /\ \A t \in Task : place[t] \in {"new", "source"}
  BY DEF Init, Places
<1>2. Lists(place, <<>>)
  BY <1>1 DEF Lists
<1>3. In({"purged"}) = {} /\ In({"probe", "wait"}) \ detached = {}
  BY <1>1 DEF In
<1>4. WindowKept
  BY <1>3, FS_EmptySet, LoopAssumption DEF WindowKept
<1> QED
  BY <1>1, <1>2, <1>3, <1>4 DEF PlaceInv

(* The window is kept by every step.                                       *)
LEMMA NextWindow ==
  ASSUME PlaceInv, WindowKept, Narrow
  PROVE  WindowKept'
<1> SUFFICES ASSUME Window # 0 PROVE Cardinality(Counted') <= Window
  BY DEF WindowKept, Counted
<1>1. /\ IsFiniteSet(In({"probe", "wait"})) /\ IsFiniteSet(Counted)
      /\ Counted \subseteq In({"probe", "wait"})
  BY FS_Subset, LoopAssumption DEF Counted, In
<1>2. /\ Cardinality(Counted) <= Window /\ Cardinality(Counted) \in Nat
      /\ Cardinality(Counted) <= Cardinality(In({"probe", "wait"}))
      /\ Cardinality(In({"probe", "wait"})) \in Nat
  BY <1>1, FS_Subset, FS_CardinalityType DEF WindowKept, Counted
<1>3. CASE Counted' \subseteq Counted
  BY <1>1, <1>2, <1>3, FS_Subset, FS_CardinalityType, LoopAssumption
<1>4. CASE WindowRoom /\ \E t \in Task : Counted' \subseteq Counted \cup {t}
  <2>1. PICK t \in Task : Counted' \subseteq Counted \cup {t}
    BY <1>4
  <2>2. Cardinality(Counted) < Window
    BY <1>2, <1>4, LoopAssumption DEF WindowRoom, WindowCount
  <2>3. /\ IsFiniteSet(Counted \cup {t})
        /\ Cardinality(Counted \cup {t}) <= Cardinality(Counted) + 1
    BY <1>1, <1>2, FS_AddElement
  <2>4. Cardinality(Counted \cup {t}) <= Window /\ Cardinality(Counted \cup {t}) \in Nat
    BY <1>2, <2>2, <2>3, FS_CardinalityType, LoopAssumption
  <2>5. Cardinality(Counted') <= Cardinality(Counted \cup {t}) /\ Cardinality(Counted') \in Nat
    BY <2>1, <2>3, FS_Subset, FS_CardinalityType
  <2> QED
    BY <2>4, <2>5, LoopAssumption
<1> QED
  BY <1>3, <1>4 DEF Narrow

(* The tasks probed in parallel never exceed the window of scamper.c, for  *)
(* any tasks, rate, window, delays and commands.                           *)
THEOREM WindowKeptHolds == Spec => []WindowKept
<1>1. PlaceInv /\ WindowKept /\ [Next]_vars => PlaceInv' /\ WindowKept'
  BY NextPlace, NextWindow
<1> QED
  BY <1>1, InitPlace, PTL DEF Spec

-----------------------------------------------------------------------------
(* scamper_timeout decides to exit only when its queues are empty and the  *)
(* sources are.                                                            *)
LEMMA TimeoutExits ==
  ASSUME PlaceInv, Timeout
  PROVE  ExitsClean'
<1> SUFFICES ASSUME pc' = "exit"
             PROVE  /\ In({"probe", "wait"})' = {}
                    /\ In({"source", "done"})' \subseteq detached'
  BY DEF ExitsClean
<1>1. ReadyCount /\ Until = {} /\ SourcesEmpty'
  BY DEF Timeout
<1>2. Lists(place', probe_queue')
  BY <1>1, ReadyCountPlaces
<1>3. probe_queue' = <<>> /\ In({"wait"})' = {}
  BY <1>1 DEF Until
<1>4. \A t \in Task : place'[t] # "probe"
  BY <1>2, <1>3 DEF Lists
<1>5. In({"probe", "wait"})' = {}
  BY <1>3, <1>4 DEF In
<1>6. In({"source", "done"})' \subseteq detached'
  BY <1>1 DEF SourcesEmpty, In
<1> QED
  BY <1>5, <1>6

(* Scamper ends only when nothing is probed or waits and every task of a   *)
(* listed source is written, whatever expires, is answered or is submitted.*)
THEOREM ExitsCleanHolds == Spec => []ExitsClean
<1>1. Init => ExitsClean
  BY DEF Init, ExitsClean
<1>2. ASSUME PlaceInv, ExitsClean, [Next]_vars
      PROVE  ExitsClean'
  <2>1. CASE UNCHANGED vars
    BY <1>2, <2>1 DEF ExitsClean, vars, In
  <2>2. CASE Timeout
    BY <1>2, <2>2, TimeoutExits
  <2>3. CASE Next /\ ~Timeout
    <3>1. pc' # "exit"
      BY <2>3 DEF Next, MainStep, Command, Tick, ProcessDone, PollTimeout, PollEvent,
                  EndFds, Reply, Attach, Submit, ShutdownDone, ShutdownFlush, ShutdownNow,
                  Ready, Sends, Select, Start, NoTask, EndProbes, Probing
    <3> QED
      BY <3>1 DEF ExitsClean
  <2> QED
    BY <1>2, <2>1, <2>2, <2>3
<1>3. PlaceInv /\ [Next]_vars => PlaceInv'
  BY NextPlace
<1>4. Init => PlaceInv
  BY InitPlace
<1> QED
  BY <1>1, <1>2, <1>3, <1>4, PTL DEF Spec

-----------------------------------------------------------------------------
(* Types, and how long the loop sleeps.                                    *)

(* A set of natural numbers has a least member.                            *)
LEMMA MinIs ==
  ASSUME NEW S \in SUBSET Nat, S # {}
  PROVE  Min(S) \in S /\ \A x \in S : Min(S) <= x
<1>1. PICK x \in S : \A y \in S : ~ (<<y, x>> \in OpToRel(<, Nat))
  BY NatLessThanWellFounded, WFMin
<1>2. \A y \in S : x <= y
  <2>1. ASSUME NEW y \in S PROVE ~(y < x)
    BY <1>1 DEF OpToRel
  <2> QED BY <2>1
<1> QED BY <1>2 DEF Min

(* The rest of the state is typed, and the sleep ends in time.             *)
SleepInv ==
  /\ due \in [Task -> 0 .. MaxWait]
  /\ left \in [Task -> 0 .. Attempts]
  /\ active \in BOOLEAN /\ exit_when_done \in BOOLEAN
  /\ nap \in Nat \cup {Never}
  /\ pc \in {"done", "timeout", "poll", "fds", "ready", "probe", "exit"}
  /\ WakesInTime

(* Sending a probe keeps the times and the counts in range.                *)
LEMMA SendsSleep ==
  ASSUME PaceInv, SleepInv, Probing, NEW t \in Task, NEW q, Sends(t, q)
  PROVE  SleepInv'
<1> USE LoopAssumption
<1>1. /\ left[t] > 0 /\ left' = [left EXCEPT ![t] = @ - 1]
      /\ due' = due \/ \E w \in 1 .. MaxWait : due' = [due EXCEPT ![t] = w]
      /\ UNCHANGED <<active, exit_when_done, nap, pc>>
  BY DEF Sends, sources
<1>2. left' \in [Task -> 0 .. Attempts]
  BY <1>1 DEF SleepInv
<1>3. due' \in [Task -> 0 .. MaxWait]
  BY <1>1 DEF SleepInv
<1>4. pc' # "poll"
  BY <1>1 DEF Probing
<1> QED BY <1>1, <1>2, <1>3, <1>4 DEF SleepInv, WakesInTime

(* What the loop may sleep for: each of the times it considers bounds it.  *)
LEMMA TimeoutSleep ==
  ASSUME PaceInv, SleepInv, PlaceInv', Timeout
  PROVE  SleepInv'
<1> USE LoopAssumption
<1> DEFINE U == Until
<1>1. NextProbe \in Nat
  BY DEF PaceInv, NextProbe, Cap, Depth
<1>2. U \subseteq Nat
  BY <1>1 DEF Until, SleepInv, In
<1>3. /\ probe_queue' # <<>> \/ (WindowRoom' /\ SourcesReady) => NextProbe \in U
      /\ \A t \in In({"wait"})' : due[t] \in U
  BY DEF Until
<1>4. /\ UNCHANGED <<due, left, active, exit_when_done, since>>
      /\ SourcesReady' = SourcesReady /\ NextProbe' = NextProbe
  BY DEF Timeout, sources, clock, SourcesReady, NextProbe
<1>5. \/ pc' = "exit" /\ nap' = Never
      \/ pc' = "poll" /\ nap' = IF U = {} THEN Never ELSE Min(U)
  BY DEF Timeout
<1> HIDE DEF U
<1>6. U # {} => Min(U) \in Nat /\ \A x \in U : Min(U) <= x
  BY <1>2, MinIs
<1>7. nap' \in Nat \cup {Never}
  BY <1>5, <1>6
<1>8. pc' = "poll" => \A x \in U : nap' # Never /\ nap' <= x
  BY <1>5, <1>6 DEF Never
<1>9. WakesInTime'
  BY <1>3, <1>4, <1>8 DEF WakesInTime
<1> QED BY <1>4, <1>5, <1>7, <1>9 DEF SleepInv

(* Time that passes in poll brings the end of the sleep as near as what it *)
(* waits for.                                                              *)
LEMMA TickSleep ==
  ASSUME PaceInv, SleepInv, Tick
  PROVE  SleepInv'
<1> USE LoopAssumption
<1>1. /\ due' = [t \in Task |-> Less(due[t])] /\ nap' = Less(nap)
      /\ since' = Sooner(since + 1, Cap)
      /\ UNCHANGED <<place, probe_queue, left, active, exit_when_done, pc>>
  BY DEF Tick, sources
<1>2. \A n \in Nat : Less(n) \in Nat /\ Less(n) <= n
  BY DEF Less
<1>3. due' \in [Task -> 0 .. MaxWait]
  BY <1>1, <1>2 DEF SleepInv, Less
<1>4. nap' \in Nat \cup {Never} /\ (nap # Never => nap' # Never)
  BY <1>1, <1>2 DEF SleepInv, Less, Never
<1>5. ASSUME NEW n \in Nat, nap # Never, nap <= n
      PROVE  nap' <= Less(n)
  BY <1>1, <1>5 DEF SleepInv, Less, Never
<1>6. NextProbe \in Nat /\ NextProbe' \in Nat /\ Less(NextProbe) <= NextProbe'
  BY <1>1 DEF PaceInv, NextProbe, Less, Sooner, Cap, Depth
<1>7. In({"wait"})' = In({"wait"}) /\ WindowRoom' = WindowRoom
  BY <1>1 DEF In, WindowRoom, WindowCount
<1>8. WakesInTime'
  <2>1. ASSUME pc = "poll", NEW t \in In({"wait"})
        PROVE  nap' # Never /\ nap' <= due'[t]
    <3>1. t \in Task /\ due[t] \in Nat /\ nap # Never /\ nap <= due[t]
      BY <2>1 DEF WakesInTime, SleepInv, In
    <3> QED BY <1>1, <1>4, <1>5, <3>1
  <2>2. ASSUME pc = "poll", probe_queue # <<>> \/ (WindowRoom /\ SourcesReady)
        PROVE  nap' # Never /\ nap' <= NextProbe'
    <3>1. nap # Never /\ nap <= NextProbe
      BY <2>2 DEF WakesInTime, SleepInv
    <3>2. nap' # Never /\ nap' \in Nat /\ nap' <= Less(NextProbe) /\ Less(NextProbe) \in Nat
      BY <1>2, <1>4, <1>5, <1>6, <3>1
    <3> QED BY <1>6, <3>2
  <2> QED BY <1>1, <1>7, <2>1, <2>2 DEF WakesInTime, SourcesReady
<1> QED BY <1>1, <1>3, <1>4, <1>8 DEF SleepInv

(* The other steps do not lead into poll.                                  *)
LEMMA NextSleep ==
  PaceInv /\ PlaceInv /\ PlaceInv' /\ SleepInv /\ [Next]_vars => SleepInv'
<1> SUFFICES ASSUME PaceInv, PlaceInv, PlaceInv', SleepInv, [Next]_vars
             PROVE  SleepInv'
  OBVIOUS
<1> USE LoopAssumption
<1>1. CASE UNCHANGED vars
  BY <1>1 DEF vars, SleepInv, WakesInTime, In, WindowRoom, WindowCount, SourcesReady, NextProbe
<1>2. CASE ProcessDone
  <2>1. active' \in BOOLEAN
    BY <1>2 DEF ProcessDone, SleepInv
  <2> QED BY <1>2, <2>1 DEF ProcessDone, SleepInv, WakesInTime
<1>3. CASE PollTimeout \/ PollEvent \/ EndFds
  BY <1>3 DEF PollTimeout, PollEvent, EndFds, SleepInv, WakesInTime, tasks, sources
<1>4. CASE \E t \in Task : Reply(t)
  <2>1. PICK t \in Task : Reply(t)
    BY <1>4
  <2>2. due' = due \/ \E w \in 0 .. due[t] : due' = [due EXCEPT ![t] = w]
    BY <2>1 DEF Reply
  <2>3. due' \in [Task -> 0 .. MaxWait]
    BY <2>2 DEF SleepInv
  <2> QED BY <2>1, <2>3 DEF Reply, SleepInv, WakesInTime, sources
<1>5. CASE Command
  <2>1. /\ UNCHANGED <<due, left, nap, pc>> /\ pc # "poll"
        /\ active' \in BOOLEAN /\ exit_when_done' \in BOOLEAN
    BY <1>5 DEF Command, Attach, Submit, ShutdownDone, ShutdownFlush, ShutdownNow, tasks, sources,
                SleepInv
  <2> QED BY <2>1 DEF SleepInv, WakesInTime
<1>6. CASE Ready
  BY <1>6 DEF Ready, SleepInv, WakesInTime, sources
<1>7. CASE Select
  <2>1. Head(probe_queue) \in Task
    BY <1>7, HeadTailProperties DEF Select, PaceInv
  <2> QED BY <1>7, <2>1, SendsSleep DEF Select
<1>8. CASE \E t \in Task : Start(t)
  BY <1>8, SendsSleep DEF Start
<1>9. CASE EndProbes \/ NoTask
  BY <1>9 DEF EndProbes, NoTask, SleepInv, WakesInTime, tasks, sources
<1> QED BY <1>1, <1>2, <1>3, <1>4, <1>5, <1>6, <1>7, <1>8, <1>9, TimeoutSleep, TickSleep
        DEF Next, MainStep

LEMMA SleepHolds == Spec => [](PaceInv /\ PlaceInv /\ SleepInv)
<1>1. Init => PaceInv /\ PlaceInv
  BY InitPace, InitPlace
<1>2. Init => SleepInv
  BY LoopAssumption DEF Init, SleepInv, WakesInTime
<1> QED BY <1>1, <1>2, NextPace, NextPlace, NextSleep, PTL DEF Spec

(* The state of the loop is well typed.                                    *)
THEOREM LoopTypeHolds == Spec => []TypeInv
<1>1. PaceInv /\ PlaceInv /\ SleepInv => TypeInv
  BY DEF PaceInv, PlaceInv, SleepInv, TypeInv
<1> QED BY <1>1, SleepHolds, PTL

(* Poll never sleeps past the first timeout, nor past the next probe if    *)
(* there is one to send (scamper_timeout).                                 *)
THEOREM WakesInTimeHolds == Spec => []WakesInTime
<1>1. SleepInv => WakesInTime
  BY DEF SleepInv
<1> QED BY <1>1, SleepHolds, PTL

=============================================================================
