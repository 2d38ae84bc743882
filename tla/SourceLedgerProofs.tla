------------------------- MODULE SourceLedgerProofs -------------------------
(***************************************************************************)
(* Proofs about ScamperSources, for any sources, tasks and overlaps: the   *)
(* ring of active sources, the turns it gives and the exclusion of tasks   *)
(* that overlap; then what the counts of a source and of its cycle monitor *)
(* count, where commands and tasks are, and that ScamperSources implements *)
(* TaskAdmission.                                                          *)
(***************************************************************************)
EXTENDS ScamperSources, ListLemmas, SequenceTheorems, FiniteSetTheorems,
        WellFoundedInduction, TLAPS

(* What the list functions of scamper_sources.c do to the ring.            *)

(* The place after j on a ring of n, and that only a ring of one has it    *)
(* at j again.                                                             *)
LEMMA NextPlace ==
  ASSUME NEW n \in Nat, NEW j \in 1 .. n
  PROVE  (j % n) + 1 \in 1 .. n /\ ((j % n) + 1 = j => n = 1)
<1>1. j % n = IF j = n THEN 0 ELSE j
  OBVIOUS
<1> QED
  BY <1>1

(* Popping a node of a list without duplicates removes that one alone.     *)
LEMMA WithoutMember ==
  ASSUME NEW S, NEW q \in Seq(S), NEW s, Distinct(q), Member(q, s)
  PROVE  /\ Without(q, s) \in Seq(S)
         /\ Len(Without(q, s)) = Len(q) - 1
         /\ Distinct(Without(q, s))
         /\ \A u : Member(Without(q, s), u) <=> Member(q, u) /\ u # s
<1> DEFINE k == CHOOSE i \in Places(q, s) : TRUE
<1>1. k \in DOMAIN q /\ q[k] = s
  BY DEF Member, Places
<1>2. Without(q, s) = RemoveAt(q, k)
  BY DEF Without, Member, Places
<1> HIDE DEF k
<1>3. \A i, j \in DOMAIN q : q[i] = q[j] => i = j
  BY DEF Distinct
<1>4. /\ RemoveAt(q, k) \in Seq(S)
      /\ Len(RemoveAt(q, k)) = Len(q) - 1
      /\ \A i, j \in DOMAIN RemoveAt(q, k) : RemoveAt(q, k)[i] = RemoveAt(q, k)[j] => i = j
      /\ \A u : (\E i \in DOMAIN RemoveAt(q, k) : RemoveAt(q, k)[i] = u)
                <=> u # q[k] /\ \E i \in DOMAIN q : q[i] = u
  BY <1>1, <1>3, RemoveAtDistinct
<1> QED
  BY <1>1, <1>2, <1>4 DEF Member, Distinct

(* The successor on the ring is a member; it is another one unless alone.  *)
LEMMA NodeNextMember ==
  ASSUME NEW q \in Seq(Source), NEW s, Distinct(q), Member(q, s)
  PROVE  /\ NodeNext(q, s) \in Source /\ Member(q, NodeNext(q, s))
         /\ NodeNext(q, s) = s => Len(q) = 1
<1> DEFINE i == CHOOSE j \in DOMAIN q : q[j] = s
<1>1. i \in 1 .. Len(q) /\ q[i] = s /\ Len(q) \in Nat
  BY DEF Member
<1>2. NodeNext(q, s) = q[(i % Len(q)) + 1]
  BY DEF NodeNext
<1> HIDE DEF i
<1>3. (i % Len(q)) + 1 \in 1 .. Len(q) /\ ((i % Len(q)) + 1 = i => Len(q) = 1)
  BY <1>1, NextPlace
<1>4. q[(i % Len(q)) + 1] = s => Len(q) = 1
  BY <1>1, <1>3 DEF Distinct
<1> QED
  BY <1>2, <1>3, <1>4 DEF Member

(* source_active_detach keeps the ring and its current source.             *)
LEMMA ActiveDetachRing ==
  ASSUME NEW r \in Rota, Ring(r), NEW s \in Source, r.list[s] = "active"
  PROVE  ActiveDetach(r, s) \in Rota /\ Ring(ActiveDetach(r, s))
<1> DEFINE q == r.active
           n == NodeNext(q, s)
           w == Without(q, s)
           d == ActiveDetach(r, s)
<1>1. q \in Seq(Source) /\ Distinct(q) /\ Member(q, s)
  BY DEF Rota, Ring
<1>2. n \in Source /\ Member(q, n) /\ (n = s => Len(q) = 1)
  BY <1>1, NodeNextMember
<1>3. /\ w \in Seq(Source) /\ Len(w) = Len(q) - 1 /\ Distinct(w)
      /\ \A u : Member(w, u) <=> Member(q, u) /\ u # s
  BY <1>1, WithoutMember
<1>4. d = [list |-> [r.list EXCEPT ![s] = "none"], active |-> w,
           cur |-> IF n = s THEN NoSource ELSE n, cnt |-> 0]
  BY DEF ActiveDetach
<1> HIDE DEF n, w, d
<1>5. r.list \in [Source -> Lists]
  BY DEF Rota
<1>6. d \in Rota
  BY <1>2, <1>3, <1>4, <1>5 DEF Rota, Lists
<1>7. \A u \in Source : d.list[u] = "active" <=> Member(d.active, u)
  BY <1>3, <1>4, <1>5 DEF Ring
<1>8. CASE n = s
  <2>1. w = <<>>
    BY <1>1, <1>2, <1>3, <1>8
  <2> QED
    BY <1>3, <1>4, <1>6, <1>7, <1>8, <2>1 DEF Ring, d
<1>9. CASE n # s
  <2>1. Member(w, n)
    BY <1>2, <1>3, <1>9
  <2>2. w # <<>>
    BY <2>1 DEF Member
  <2> QED
    BY <1>3, <1>4, <1>6, <1>7, <1>9, <2>1, <2>2 DEF Ring, d
<1> QED
  BY <1>8, <1>9 DEF d

(* source_detach keeps the ring, whatever list the source was in.          *)
LEMMA UnlistedRing ==
  ASSUME NEW r \in Rota, Ring(r), NEW s \in Source
  PROVE  Unlisted(r, s) \in Rota /\ Ring(Unlisted(r, s)) /\ Unlisted(r, s).list[s] = "none"
<1>1. CASE r.list[s] = "active"
  BY <1>1, ActiveDetachRing DEF Unlisted, ActiveDetach, Rota
<1>2. CASE r.list[s] # "active"
  <2> DEFINE u == [r EXCEPT !.list[s] = "none"]
  <2>1. /\ u \in Rota /\ u.list = [r.list EXCEPT ![s] = "none"] /\ u.list[s] = "none"
        /\ u.active = r.active /\ u.cur = r.cur /\ Unlisted(r, s) = u
    BY <1>2 DEF Rota, Lists, Unlisted
  <2> HIDE DEF u
  <2>2. \A v \in Source : u.list[v] = "active" <=> r.list[v] = "active"
    BY <1>2, <2>1 DEF Rota
  <2> QED
    BY <2>1, <2>2 DEF Ring
<1> QED
  BY <1>1, <1>2

(* A source that is not on the ring changes its list.                      *)
LEMMA RelistRing ==
  ASSUME NEW r \in Rota, Ring(r), NEW s \in Source, r.list[s] # "active",
         NEW l \in {"blocked", "finished"}
  PROVE  [r EXCEPT !.list[s] = l] \in Rota /\ Ring([r EXCEPT !.list[s] = l])
<1> DEFINE u == [r EXCEPT !.list[s] = l]
<1>1. /\ u \in Rota /\ u.list = [r.list EXCEPT ![s] = l]
      /\ u.active = r.active /\ u.cur = r.cur
  BY DEF Rota, Lists
<1> HIDE DEF u
<1>2. \A v \in Source : u.list[v] = "active" <=> r.list[v] = "active"
  BY <1>1 DEF Rota
<1>3. Ring(u)
  BY <1>1, <1>2 DEF Ring
<1> QED
  BY <1>1, <1>3 DEF u

(* source_blocked_attach keeps the ring.                                   *)
LEMMA BlockedAttachRing ==
  ASSUME NEW r \in Rota, Ring(r), NEW s \in Source
  PROVE  BlockedAttach(r, s) \in Rota /\ Ring(BlockedAttach(r, s))
  BY UnlistedRing, RelistRing DEF BlockedAttach

(* source_finished_attach keeps the ring.                                  *)
LEMMA FinishedAttachRing ==
  ASSUME NEW r \in Rota, Ring(r), NEW s \in Source
  PROVE  FinishedAttach(r, s) \in Rota /\ Ring(FinishedAttach(r, s))
  BY UnlistedRing, RelistRing DEF FinishedAttach

(* source_next keeps the ring.                                             *)
LEMMA SourceNextRing ==
  ASSUME NEW r \in Rota, Ring(r), r.cur # NoSource
  PROVE  SourceNext(r) \in Rota /\ Ring(SourceNext(r))
<1>1. r.active \in Seq(Source) /\ Distinct(r.active) /\ Member(r.active, r.cur)
  BY DEF Rota, Ring
<1>2. /\ NodeNext(r.active, r.cur) \in Source
      /\ Member(r.active, NodeNext(r.active, r.cur))
  BY <1>1, NodeNextMember
<1> DEFINE n == SourceNext(r)
<1>3. /\ n \in Rota /\ n.list = r.list /\ n.active = r.active
      /\ n.cur = NodeNext(r.active, r.cur)
  BY <1>2 DEF SourceNext, Rota
<1> HIDE DEF n
<1>4. r.active # <<>>
  BY <1>2 DEF Member
<1>5. Ring(n)
  BY <1>2, <1>3, <1>4 DEF Ring
<1> QED
  BY <1>3, <1>5 DEF n

(* source_active_attach keeps the ring.                                    *)
LEMMA ActiveAttachRing ==
  ASSUME NEW r \in Rota, Ring(r), NEW s \in Source
  PROVE  ActiveAttach(r, s) \in Rota /\ Ring(ActiveAttach(r, s))
<1>1. CASE r.list[s] \in {"active", "finished"}
  BY <1>1 DEF ActiveAttach
<1>2. CASE r.list[s] \notin {"active", "finished"}
  <2> DEFINE n == ActiveAttach(r, s)
             q == r.active
             p == Append(q, s)
  <2>1. q \in Seq(Source) /\ r.list \in [Source -> Lists] /\ Len(q) \in Nat
    BY DEF Rota
  <2>2. /\ p \in Seq(Source) /\ Len(p) = Len(q) + 1 /\ p[Len(q) + 1] = s
        /\ \A i \in 1 .. Len(q) : p[i] = q[i]
    BY <2>1, AppendProperties
  <2>3. /\ n = [list |-> [r.list EXCEPT ![s] = "active"], active |-> p,
                cur |-> IF r.cur = NoSource THEN s ELSE r.cur,
                cnt |-> IF r.cur = NoSource THEN 0 ELSE r.cnt]
    BY <1>2 DEF ActiveAttach
  <2> HIDE DEF n, p
  <2>4. n \in Rota
    BY <2>1, <2>2, <2>3 DEF Rota, Lists
  <2>5. ~Member(q, s) /\ Distinct(q)
    BY <1>2 DEF Ring
  <2>6. \A u : Member(p, u) <=> Member(q, u) \/ u = s
    <3>1. ASSUME NEW u, Member(p, u) PROVE Member(q, u) \/ u = s
      BY <2>1, <2>2, <3>1 DEF Member
    <3>2. ASSUME NEW u, Member(q, u) PROVE Member(p, u)
      <4>1. PICK i \in 1 .. Len(q) : q[i] = u
        BY <2>1, <3>2 DEF Member
      <4>2. i \in DOMAIN p /\ p[i] = u
        BY <2>1, <2>2, <4>1
      <4> QED
        BY <4>2 DEF Member
    <3>3. Member(p, s)
      <4>1. Len(q) + 1 \in DOMAIN p
        BY <2>1, <2>2
      <4> QED
        BY <2>2, <4>1 DEF Member
    <3> QED
      BY <3>1, <3>2, <3>3
  <2>7. Distinct(p)
    <3> SUFFICES ASSUME NEW i \in DOMAIN p, NEW j \in DOMAIN p, p[i] = p[j] PROVE i = j
      BY DEF Distinct
    <3>1. i \in 1 .. Len(q) + 1 /\ j \in 1 .. Len(q) + 1
      BY <2>1, <2>2
    <3>2. \A k \in 1 .. Len(q) : q[k] # s
      BY <2>1, <2>5 DEF Member
    <3>3. CASE i = Len(q) + 1 \/ j = Len(q) + 1
      BY <2>1, <2>2, <3>1, <3>2, <3>3
    <3>4. CASE i # Len(q) + 1 /\ j # Len(q) + 1
      BY <2>1, <2>2, <2>5, <3>1, <3>4 DEF Distinct
    <3> QED
      BY <3>3, <3>4
  <2>8. \A u \in Source : n.list[u] = "active" <=> Member(n.active, u)
    BY <2>1, <2>3, <2>6 DEF Ring
  <2>9. n.active # <<>>
    BY <2>1, <2>2, <2>3
  <2>10. Member(n.active, n.cur)
    BY <2>3, <2>6 DEF Ring, Rota
  <2>11. n.active = p
    BY <2>3
  <2> QED
    BY <2>4, <2>7, <2>8, <2>9, <2>10, <2>11 DEF Ring, n
<1> QED
  BY <1>1, <1>2

-----------------------------------------------------------------------------
(* Tasks start only when no installed task overlaps them, and nothing else *)
(* adds to the installed ones: exclusion is inductive by itself.           *)
Admitted == installed \subseteq Task /\ Exclusive

(* Starting or holding a task keeps the exclusion.                         *)
LEMMA InstallAdmitted ==
  ASSUME Admitted, NEW t \in Task, InstallOrHold(t)
  PROVE  Admitted'
<1>1. CASE installed' = installed
  BY <1>1 DEF Admitted, Exclusive
<1>2. CASE SigBlock(t) = {} /\ installed' = installed \cup {t}
  <2>1. \A b \in installed : <<b, t>> \notin Conflict /\ <<t, b>> \notin Conflict
    BY <1>2, SourcesAssumption DEF Admitted, SigBlock
  <2>2. <<t, t>> \notin Conflict
    BY SourcesAssumption
  <2> QED
    BY <1>2, <2>1, <2>2 DEF Admitted, Exclusive
<1> QED
  BY <1>1, <1>2 DEF InstallOrHold

(* Every step keeps the exclusion.                                         *)
LEMMA NextAdmitted == Admitted /\ [Next]_vars => Admitted'
<1> SUFFICES ASSUME Admitted, [Next]_vars PROVE Admitted'
  OBVIOUS
<1>1. CASE installed' \subseteq installed
  BY <1>1 DEF Admitted, Exclusive
<1>2. ASSUME NEW s \in Source, ClientOp(s)
      PROVE  installed' = installed
  BY <1>2 DEF ClientOp, Attach, Command2, HaltTask, ClientDone, ClientClose, ClientFree,
              Crash, works
<1>3. ASSUME NEW s \in Source, ReadLine(s) \/ ReadEnd(s)
      PROVE  installed' = installed
  BY <1>3 DEF ReadLine, ReadEnd, works
<1>4. ASSUME ShutdownFlush \/ GetTask \/ \E t \in Task : TaskDone(t)
      PROVE  installed' = installed
  BY <1>4 DEF ShutdownFlush, TaskDone, GetTask, Phase, works
<1>5. CASE MainStep
  <2>1. CASE FreeTask
    <3>1. installed' = installed \/ installed' = installed \ {freeing}
      BY <2>1 DEF FreeTask, Crash, works
    <3> QED
      BY <1>1, <3>1
  <2>2. CASE AbandonEnd \/ Unhold \/ EndPoll \/ EndProbe \/ EndDone
    BY <1>1, <2>2 DEF AbandonEnd, Unhold, EndPoll, EndProbe, EndDone, Phase, Crash, works
  <2>3. CASE \E s \in Source : DetachFinished(s)
    BY <1>1, <2>3 DEF DetachFinished, works
  <2>4. CASE StartScan \/ PopCommand \/ Exhausted
    BY <1>1, <2>4 DEF StartScan, PopCommand, Exhausted, Serve, works
  <2>5. CASE TakeChunk \/ TakeEnd \/ TakeNone \/ HandleCycle
    BY <1>1, <2>5 DEF TakeChunk, TakeEnd, TakeNone, HandleCycle, works
  <2>6. ASSUME NEW t \in Task, AbandonTask(t) \/ ProcessDone(t)
        PROVE  Admitted'
    BY <1>1, <2>6 DEF AbandonTask, ProcessDone
  <2>7. ASSUME NEW t \in Task, HandleProbe(t)
        PROVE  Admitted'
    BY <2>7, InstallAdmitted DEF HandleProbe
  <2>8. ASSUME NEW t \in Task, HandleTask(t)
        PROVE  Admitted'
    <3>1. installed' = installed \/ InstallOrHold(t)
      BY <2>8 DEF HandleTask, Crash, works
    <3> QED
      BY <1>1, <3>1, InstallAdmitted
  <2> QED
    BY <1>5, <2>1, <2>2, <2>3, <2>4, <2>5, <2>6, <2>7, <2>8 DEF MainStep
<1>6. CASE UNCHANGED vars
  BY <1>1, <1>6 DEF vars
<1> QED
  BY <1>1, <1>2, <1>3, <1>4, <1>5, <1>6 DEF Next

(* No two tasks with overlapping signatures ever run at once.              *)
THEOREM ExclusiveHolds == Spec => []Exclusive
<1>1. Init => Admitted
  BY DEF Init, Admitted, Exclusive
<1>2. Admitted => Exclusive
  BY DEF Admitted
<1> QED
  BY <1>1, <1>2, NextAdmitted, PTL DEF Spec

-----------------------------------------------------------------------------
Sound == rota \in Rota /\ Ring(rota)

(* the sources and tasks that a step may refer to exist                    *)
Scope ==
  /\ src \in Source \cup {NoSource}
  /\ pc \in {"scan", "take", "handle"} => src \in Source
  /\ abandoning \in Source \cup {NoSource}
  /\ freeing \in Task \cup {NoTask}
  /\ onhold \in [Task -> Seq(Task)]

RotaInv == Sound /\ Scope

(* A task that is on a hold list is a task.                                *)
LEMMA HeldTask ==
  ASSUME Scope, freeing # NoTask, onhold[freeing] # <<>>
  PROVE  Last(onhold[freeing]) \in Task /\ Front(onhold[freeing]) \in Seq(Task)
<1> DEFINE q == onhold[freeing]
<1>1. q \in Seq(Task) /\ Len(q) \in Nat /\ Len(q) # 0
  BY DEF Scope
<1> HIDE DEF q
<1>2. Last(q) = q[Len(q)] /\ Front(q) = SubSeq(q, 1, Len(q) - 1)
  BY DEF Last, Front
<1>3. q[Len(q)] \in Task
  BY <1>1
<1>4. SubSeq(q, 1, Len(q) - 1) \in Seq(Task)
  BY <1>1, SubSeqProperties
<1> QED
  BY <1>2, <1>3, <1>4 DEF q

(* Popping from a list leaves a list.                                      *)
LEMMA WithoutSeq ==
  ASSUME NEW S, NEW q \in Seq(S), NEW x
  PROVE  Without(q, x) \in Seq(S)
<1> DEFINE k == CHOOSE i \in Places(q, x) : TRUE
<1>1. CASE Places(q, x) = {}
  BY <1>1 DEF Without
<1>2. CASE Places(q, x) # {}
  <2>1. k \in DOMAIN q /\ Without(q, x) = RemoveAt(q, k)
    BY <1>2 DEF Places, Without
  <2> HIDE DEF k
  <2> QED
    BY <2>1, RemoveAtElements
<1> QED
  BY <1>1, <1>2

(* What clients and standard input do keeps the ring.                      *)
LEMMA InputSound ==
  ASSUME RotaInv, NEW s \in Source, ClientOp(s) \/ ReadLine(s) \/ ReadEnd(s)
  PROVE  RotaInv'
<1> USE DEF RotaInv, Sound, works, scans, loops
<1>1. CASE Attach(s)
  BY <1>1, ActiveAttachRing DEF Attach, Scope
<1>2. ASSUME NEW t \in Task, Command2(s, t) PROVE RotaInv'
  BY <1>2, ActiveAttachRing DEF Command2, Crash, Scope
<1>3. ASSUME NEW t \in Task, HaltTask(s, t) PROVE RotaInv'
  BY <1>3 DEF HaltTask, Crash, Scope
<1>4. CASE ClientDone(s)
  BY <1>4, FinishedAttachRing DEF ClientDone, Finished, Scope
<1>5. ASSUME NEW fin \in BOOLEAN, ClientClose(s, fin) PROVE RotaInv'
  BY <1>5, FinishedAttachRing DEF ClientClose, Finished, Scope
<1>6. CASE ClientFree(s)
  BY <1>6, UnlistedRing DEF ClientFree, Scope
<1>7. CASE ReadLine(s)
  BY <1>7, ActiveAttachRing DEF ReadLine, Scope
<1>8. CASE ReadEnd(s)
  BY <1>8, FinishedAttachRing DEF ReadEnd, Finished, Scope
<1> QED
  BY <1>1, <1>2, <1>3, <1>4, <1>5, <1>6, <1>7, <1>8 DEF ClientOp

(* Freeing and abandoning tasks keeps the ring.                            *)
LEMMA FreeSound ==
  ASSUME RotaInv, AbandonEnd \/ Unhold \/ FreeTask
  PROVE  RotaInv'
<1> USE DEF RotaInv, Sound, works, scans, loops
<1>1. CASE AbandonEnd
  BY <1>1, UnlistedRing DEF AbandonEnd, Scope
<1>2. CASE Unhold
  <2>1. Last(onhold[freeing]) \in Task /\ Front(onhold[freeing]) \in Seq(Task)
    BY <1>2, HeldTask DEF Unhold
  <2>2. SourceOf[Last(onhold[freeing])] \in Source
    BY <2>1, SourcesAssumption
  <2> QED
    BY <1>2, <2>1, <2>2, ActiveAttachRing DEF Unhold, Crash, Scope
<1>3. CASE FreeTask
  <2>1. freeing \in Task /\ SourceOf[freeing] \in Source
    BY <1>3, SourcesAssumption DEF FreeTask, Scope
  <2>2. \A b \in Task : Without(onhold[b], freeing) \in Seq(Task)
    BY WithoutSeq DEF Scope
  <2>3. \/ rota' = rota
        \/ rota' = Unlisted(rota, SourceOf[freeing])
    BY <1>3 DEF FreeTask, SourceTaskFree, Crash
  <2>4. Sound'
    BY <2>1, <2>3, UnlistedRing
  <2>5. /\ UNCHANGED <<src, pc, abandoning>>
        /\ \/ UNCHANGED <<freeing, onhold>>
           \/ /\ onhold' = [b \in Task |-> Without(onhold[b], freeing)]
              /\ freeing' = NoTask
    BY <1>3 DEF FreeTask, Crash
  <2>6. Scope'
    BY <2>2, <2>5 DEF Scope
  <2> QED
    BY <2>4, <2>6
<1> QED
  BY <1>1, <1>2, <1>3

(* Serving the ring from the source it names is sound.                     *)
LEMMA ServeSound ==
  ASSUME Scope, NEW r \in Rota, Ring(r), Serve(r)
  PROVE  RotaInv'
<1>1. r.cur \in Source \cup {NoSource}
  BY DEF Rota
<1> QED
  BY <1>1 DEF Serve, RotaInv, Sound, Scope, works, loops

(* The loop of gettask keeps the ring.                                     *)
LEMMA ScanSound ==
  ASSUME RotaInv, StartScan \/ PopCommand \/ Exhausted
  PROVE  RotaInv'
<1> USE DEF RotaInv
<1>1. CASE StartScan
  BY <1>1, ServeSound, SourceNextRing DEF StartScan, Sound
<1>2. CASE PopCommand
  BY <1>2 DEF PopCommand, Sound, Scope, works, loops
<1>3. CASE Exhausted
  <2>1. src \in Source
    BY <1>3 DEF Exhausted, Scope
  <2> QED
    BY <1>3, <2>1, ServeSound, UnlistedRing, BlockedAttachRing DEF Exhausted, Sound
<1> QED
  BY <1>1, <1>2, <1>3

(* Reading a block of a file keeps the ring.                               *)
LEMMA TakeSound ==
  ASSUME RotaInv, TakeChunk \/ TakeEnd \/ TakeNone
  PROVE  RotaInv'
<1> USE DEF RotaInv, Sound, works, loops
<1>1. src \in Source
  BY DEF TakeChunk, TakeEnd, TakeNone, Scope
<1>2. CASE TakeChunk
  <2>1. rota' = rota \/ rota' = ActiveAttach(rota, src)
    BY <1>2 DEF TakeChunk
  <2>2. Sound'
    BY <1>1, <2>1, ActiveAttachRing
  <2> QED
    BY <1>1, <1>2, <2>2 DEF TakeChunk, Scope
<1>3. CASE TakeEnd
  <2>1. rota' \in {rota, ActiveAttach(rota, src), FinishedAttach(rota, src)}
    BY <1>3 DEF TakeEnd, Finished
  <2>2. Sound'
    BY <1>1, <2>1, ActiveAttachRing, FinishedAttachRing
  <2> QED
    BY <1>1, <1>3, <2>2 DEF TakeEnd, Scope
<1>4. CASE TakeNone
  BY <1>4 DEF TakeNone, Scope, scans
<1> QED
  BY <1>2, <1>3, <1>4

(* Starting or holding a task keeps the ring.                              *)
LEMMA InstallSound ==
  ASSUME RotaInv, NEW t \in Task, InstallOrHold(t), src \in Source,
         UNCHANGED <<freeing, abandoning>>
  PROVE  RotaInv'
<1> USE DEF RotaInv, Sound
<1>1. CASE rota' = [rota EXCEPT !.cnt = @ + 1] /\ pc' = "probe" /\ src' = NoSource
           /\ UNCHANGED onhold
  <2> DEFINE r == [rota EXCEPT !.cnt = @ + 1]
  <2>1. r \in Rota /\ r.list = rota.list /\ r.active = rota.active /\ r.cur = rota.cur
    BY DEF Rota
  <2> HIDE DEF r
  <2>2. rota' \in Rota /\ Ring(rota')
    BY <1>1, <2>1 DEF Ring, r
  <2> QED
    BY <1>1, <2>2 DEF Scope
<1>2. ASSUME NEW b \in SigBlock(t), onhold' = [onhold EXCEPT ![b] = Append(@, t)],
             pc' = "scan", UNCHANGED <<rota, src>>
      PROVE  RotaInv'
  <2>1. \A x \in Task : onhold[x] \in Seq(Task) /\ Append(onhold[x], t) \in Seq(Task)
    BY AppendProperties DEF Scope
  <2>2. onhold' = [x \in Task |-> IF x = b THEN Append(onhold[x], t) ELSE onhold[x]]
    BY <1>2 DEF Scope
  <2>3. onhold' \in [Task -> Seq(Task)]
    BY <2>1, <2>2
  <2> QED
    BY <1>2, <2>3 DEF Scope
<1> QED
  BY <1>1, <1>2 DEF InstallOrHold

(* Every step keeps the ring.                                              *)
LEMMA NextSound == RotaInv /\ [Next]_vars => RotaInv'
<1> SUFFICES ASSUME RotaInv, [Next]_vars PROVE RotaInv'
  OBVIOUS
<1>1. CASE UNCHANGED vars
  BY <1>1 DEF vars, RotaInv, Sound, Scope
<1>2. ASSUME NEW s \in Source, ClientOp(s) \/ ReadLine(s) \/ ReadEnd(s)
      PROVE  RotaInv'
  BY <1>2, InputSound
<1>3. CASE ShutdownFlush
  <2>1. rota' = [list |-> [s \in Source |-> "none"], active |-> <<>>,
                 cur |-> NoSource, cnt |-> 0]
        /\ UNCHANGED <<onhold, scans, loops>>
    BY <1>3 DEF ShutdownFlush
  <2>2. rota' \in Rota
    BY <2>1 DEF Rota, Lists
  <2>3. Ring(rota')
    BY <2>1 DEF Ring, Member, Distinct
  <2> QED
    BY <2>1, <2>2, <2>3 DEF RotaInv, Sound, Scope, scans, loops
<1>4. ASSUME NEW t \in Task, TaskDone(t) PROVE RotaInv'
  BY <1>4 DEF TaskDone, RotaInv, Sound, Scope, scans, loops
<1>5. CASE GetTask
  BY <1>5 DEF GetTask, Phase, RotaInv, Sound, Scope, works, loops
<1>6. CASE MainStep
  <2>1. CASE AbandonEnd \/ Unhold \/ FreeTask
    BY <2>1, FreeSound
  <2>2. CASE EndPoll \/ EndProbe \/ EndDone
    BY <2>2 DEF EndPoll, EndProbe, EndDone, Phase, RotaInv, Sound, Scope, works, loops
  <2>3. ASSUME NEW s \in Source, DetachFinished(s) PROVE RotaInv'
    BY <2>3, UnlistedRing DEF DetachFinished, RotaInv, Sound, Scope, works, scans, loops
  <2>4. CASE StartScan \/ PopCommand \/ Exhausted
    BY <2>4, ScanSound
  <2>5. CASE TakeChunk \/ TakeEnd \/ TakeNone
    BY <2>5, TakeSound
  <2>6. CASE HandleCycle
    BY <2>6 DEF HandleCycle, RotaInv, Sound, Scope, works, loops
  <2>7. ASSUME NEW t \in Task, AbandonTask(t) PROVE RotaInv'
    BY <2>7 DEF AbandonTask, RotaInv, Sound, Scope, scans
  <2>8. ASSUME NEW t \in Task, ProcessDone(t) PROVE RotaInv'
    BY <2>8 DEF ProcessDone, RotaInv, Sound, Scope, scans
  <2>9. ASSUME NEW t \in Task, HandleProbe(t) PROVE RotaInv'
    BY <2>9, InstallSound DEF HandleProbe, RotaInv, Scope, loops
  <2>10. ASSUME NEW t \in Task, HandleTask(t) PROVE RotaInv'
    <3>1. CASE life[t] = "freed"
      BY <2>10, <3>1 DEF HandleTask, Crash, RotaInv, Sound, Scope, works, scans, loops
    <3>2. CASE life[t] # "freed"
      BY <2>10, <3>2, InstallSound DEF HandleTask, RotaInv, Scope, loops
    <3> QED
      BY <3>1, <3>2
  <2> QED
    BY <1>6, <2>1, <2>2, <2>3, <2>4, <2>5, <2>6, <2>7, <2>8, <2>9, <2>10 DEF MainStep
<1> QED
  BY <1>1, <1>2, <1>3, <1>4, <1>5, <1>6 DEF Next

(* The ring is right at the start, with or without a default source.       *)
LEMMA InitSound == Init => RotaInv
<1> SUFFICES ASSUME Init PROVE RotaInv
  OBVIOUS
<1>1. Scope
  BY DEF Init, Scope
<1> DEFINE d == CHOOSE s \in Default : TRUE
<1>2. CASE Default = {}
  <2>1. rota = [list |-> [s \in Source |-> "none"], active |-> <<>>,
                cur |-> NoSource, cnt |-> 0]
    BY <1>2 DEF Init
  <2> QED
    BY <1>1, <2>1 DEF RotaInv, Sound, Rota, Lists, Ring, Member, Distinct
<1>3. CASE Default # {}
  <2>1. d \in Source /\ Default = {d}
    BY <1>3, SourcesAssumption DEF Default
  <2>2. rota = [list |-> [s \in Source |-> IF s \in Default THEN "active" ELSE "none"],
                active |-> <<d>>, cur |-> d, cnt |-> 0]
    BY <1>3 DEF Init
  <2> HIDE DEF d
  <2>3. rota \in Rota
    BY <2>1, <2>2 DEF Rota, Lists
  <2>4. Ring(rota)
    BY <2>1, <2>2 DEF Ring, Member, Distinct
  <2> QED
    BY <1>1, <2>3, <2>4 DEF RotaInv, Sound
<1> QED
  BY <1>2, <1>3

(* The ring and the lists that sources are in agree, and the current       *)
(* source is on the ring unless the ring is empty: gettask and isready     *)
(* may rely on source_cur after every attach, detach and shutdown.         *)
THEOREM RingKeptHolds == Spec => []RingKept
<1>1. RotaInv => RingKept
  BY DEF RotaInv, Sound, RingKept
<1> QED
  BY <1>1, InitSound, NextSound, PTL DEF Spec

-----------------------------------------------------------------------------
(* What the current source may still start in its turn.                    *)
Room(r, k) == r.cur # NoSource => r.cnt + k <= Priority[r.cur]

(* A list function leaves the turn alone, or starts a new count.           *)
Turned(r, q) == q.cnt = 0 \/ (q.cur = r.cur /\ q.cnt = r.cnt)

(* While gettask looks for a task there is room for the one it finds.      *)
Turn == Room(rota, IF pc \in {"scan", "take", "handle"} THEN 1 ELSE 0)

(* Every list function is of that kind.                                    *)
LEMMA ListTurned ==
  ASSUME NEW r \in Rota, NEW s \in Source
  PROVE  /\ Turned(r, Unlisted(r, s)) /\ Turned(r, ActiveAttach(r, s))
         /\ Turned(r, BlockedAttach(r, s)) /\ Turned(r, FinishedAttach(r, s))
<1>1. Turned(r, ActiveDetach(r, s))
  BY DEF ActiveDetach, Turned
<1>2. Turned(r, [r EXCEPT !.list[s] = "none"])
  BY DEF Rota, Turned
<1>3. Turned(r, Unlisted(r, s))
  BY <1>1, <1>2 DEF Unlisted
<1>4. Turned(r, ActiveAttach(r, s))
  BY DEF ActiveAttach, Turned
<1>5. Unlisted(r, s).cnt \in Nat
  BY DEF Unlisted, ActiveDetach, Rota
<1>6. ASSUME NEW l
      PROVE  /\ [Unlisted(r, s) EXCEPT !.list[s] = l].cnt = Unlisted(r, s).cnt
             /\ [Unlisted(r, s) EXCEPT !.list[s] = l].cur = Unlisted(r, s).cur
  BY DEF Unlisted, ActiveDetach, Rota
<1>7. Turned(r, FinishedAttach(r, s))
  BY <1>3, <1>6 DEF FinishedAttach, Turned
<1>8. Turned(r, BlockedAttach(r, s))
  BY <1>3, <1>6 DEF BlockedAttach, Turned
<1> QED
  BY <1>3, <1>4, <1>7, <1>8

(* The room there was is still there, or that of a new turn.               *)
LEMMA TurnedRoom ==
  ASSUME NEW r \in Rota, NEW q \in Rota, Turned(r, q), NEW k \in {0, 1}, Room(r, k)
  PROVE  Room(q, k)
<1>1. CASE q.cnt = 0
  <2>1. q.cur # NoSource => Priority[q.cur] \in Nat \ {0}
    BY SourcesAssumption DEF Rota
  <2> QED
    BY <1>1, <2>1 DEF Room
<1>2. CASE q.cur = r.cur /\ q.cnt = r.cnt
  BY <1>2 DEF Room
<1> QED
  BY <1>1, <1>2 DEF Turned

(* A list function within a phase.                                         *)
LEMMA TurnKept ==
  ASSUME RotaInv, RotaInv', Turn, Turned(rota, rota'),
         pc' \in {"scan", "take", "handle"} => pc \in {"scan", "take", "handle"}
  PROVE  Turn'
<1> DEFINE k == IF pc \in {"scan", "take", "handle"} THEN 1 ELSE 0
<1>1. rota \in Rota /\ rota' \in Rota
  BY DEF RotaInv, Sound
<1>2. Room(rota', k)
  BY <1>1, TurnedRoom DEF Turn
<1>3. rota'.cur # NoSource => rota'.cnt + k <= Priority[rota'.cur]
  BY <1>2 DEF Room
<1>4. rota'.cnt \in Nat /\ (rota'.cur # NoSource => Priority[rota'.cur] \in Nat)
  BY <1>1, SourcesAssumption DEF Rota
<1> QED
  BY <1>3, <1>4 DEF Turn, Room

(* gettask starts with a turn that is not used up.                         *)
LEMMA StartScanTurn == RotaInv /\ Turn /\ StartScan => Turn'
<1> SUFFICES ASSUME RotaInv, Turn, StartScan PROVE Turn'
  OBVIOUS
<1>1. rota \in Rota /\ (rota.cur # NoSource => Priority[rota.cur] \in Nat)
  BY SourcesAssumption DEF RotaInv, Sound, Rota
<1>2. CASE rota.cur # NoSource /\ rota.cnt >= Priority[rota.cur]
  <2>1. rota' = SourceNext(rota) /\ rota' \in Rota
    BY <1>1, <1>2, SourceNextRing DEF StartScan, Serve, RotaInv, Sound
  <2>2. rota'.cnt = 0
    BY <1>1, <2>1 DEF SourceNext, Rota
  <2>3. rota'.cur # NoSource => Priority[rota'.cur] \in Nat \ {0}
    BY <2>1, SourcesAssumption DEF Rota
  <2> QED
    BY <2>2, <2>3 DEF Turn, Room
<1>3. CASE ~(rota.cur # NoSource /\ rota.cnt >= Priority[rota.cur])
  <2>1. rota' = rota
    BY <1>3 DEF StartScan, Serve
  <2>2. rota.cur # NoSource => rota.cnt + 1 <= Priority[rota.cur]
    BY <1>1, <1>3 DEF Rota
  <2> QED
    BY <1>1, <2>1, <2>2 DEF Turn, Room, Rota
<1> QED
  BY <1>2, <1>3

(* The task gettask finds uses up the room that is kept for it.            *)
LEMMA InstallTurn ==
  ASSUME RotaInv, Turn, pc = "handle", NEW t \in Task, InstallOrHold(t)
  PROVE  Turn'
<1>1. rota \in Rota /\ (rota.cur # NoSource => rota.cnt + 1 <= Priority[rota.cur])
  BY DEF RotaInv, Sound, Turn, Room
<1>2. CASE rota' = [rota EXCEPT !.cnt = @ + 1] /\ pc' = "probe"
  <2>1. rota'.cur = rota.cur /\ rota'.cnt = rota.cnt + 1 /\ rota.cnt \in Nat
    BY <1>1, <1>2 DEF Rota
  <2>2. rota.cur # NoSource => Priority[rota.cur] \in Nat
    BY <1>1, SourcesAssumption DEF Rota
  <2> QED
    BY <1>1, <1>2, <2>1, <2>2 DEF Turn, Room
<1>3. CASE rota' = rota /\ pc' = "scan"
  BY <1>1, <1>3 DEF Turn, Room
<1> QED
  BY <1>2, <1>3 DEF InstallOrHold

(* Every step but those two is a list function, or leaves the turn alone.  *)
LEMMA NextTurn == RotaInv /\ Turn /\ [Next]_vars => Turn'
<1> SUFFICES ASSUME RotaInv, Turn, [Next]_vars PROVE Turn'
  OBVIOUS
<1>1. RotaInv'
  BY NextSound
<1>2. rota \in Rota /\ Turned(rota, rota)
  BY DEF RotaInv, Sound, Turned
<1>3. CASE UNCHANGED <<rota, pc>>
  BY <1>1, <1>2, <1>3, TurnKept
<1>4. ASSUME NEW s \in Source, ClientOp(s) \/ ReadLine(s) \/ ReadEnd(s)
      PROVE  Turn'
  <2>1. pc' = pc /\ rota' \in {rota, ActiveAttach(rota, s), FinishedAttach(rota, s),
                               Unlisted(rota, s)}
    BY <1>4 DEF ClientOp, Attach, Command2, HaltTask, ClientDone, ClientClose, ClientFree,
                ReadLine, ReadEnd, Finished, Crash, scans
  <2> QED
    BY <1>1, <1>2, <2>1, ListTurned, TurnKept
<1>5. CASE ShutdownFlush
  <2>1. pc' = pc /\ Turned(rota, rota')
    BY <1>5 DEF ShutdownFlush, Turned, scans
  <2> QED
    BY <1>1, <2>1, TurnKept
<1>6. CASE GetTask \/ EndPoll \/ EndProbe \/ EndDone
  <2>1. rota' = rota /\ pc' \notin {"scan", "take", "handle"}
    BY <1>6 DEF GetTask, EndPoll, EndProbe, EndDone, Phase
  <2> QED
    BY <1>1, <1>2, <2>1, TurnKept
<1>7. ASSUME NEW t \in Task, TaskDone(t) \/ AbandonTask(t) \/ ProcessDone(t)
      PROVE  Turn'
  BY <1>3, <1>7 DEF TaskDone, AbandonTask, ProcessDone, scans
<1>8. CASE AbandonEnd \/ Unhold \/ FreeTask
  <2>1. pc' = pc
    BY <1>8 DEF AbandonEnd, Unhold, FreeTask, Crash, scans
  <2>2. CASE AbandonEnd
    <3>1. abandoning \in Source /\ rota' = Unlisted(rota, abandoning)
      BY <2>2 DEF AbandonEnd, RotaInv, Scope
    <3>2. Turned(rota, rota')
      BY <1>2, <3>1, ListTurned
    <3> QED
      BY <1>1, <2>1, <3>2, TurnKept
  <2>3. CASE Unhold
    <3>1. SourceOf[Last(onhold[freeing])] \in Source
      BY <2>3, HeldTask, SourcesAssumption DEF Unhold, RotaInv
    <3>2. rota' \in {rota, ActiveAttach(rota, SourceOf[Last(onhold[freeing])])}
      BY <2>3 DEF Unhold, Crash
    <3> QED
      BY <1>1, <1>2, <2>1, <3>1, <3>2, ListTurned, TurnKept
  <2>4. CASE FreeTask
    <3>1. SourceOf[freeing] \in Source
      BY <2>4, SourcesAssumption DEF FreeTask, RotaInv, Scope
    <3>2. rota' \in {rota, Unlisted(rota, SourceOf[freeing])}
      BY <2>4 DEF FreeTask, SourceTaskFree, Crash
    <3> QED
      BY <1>1, <1>2, <2>1, <3>1, <3>2, ListTurned, TurnKept
  <2> QED
    BY <1>8, <2>2, <2>3, <2>4
<1>9. ASSUME NEW s \in Source, DetachFinished(s) PROVE Turn'
  BY <1>1, <1>2, <1>9, ListTurned, TurnKept DEF DetachFinished, scans
<1>10. CASE PopCommand \/ Exhausted \/ TakeChunk \/ TakeEnd \/ TakeNone \/ HandleCycle
  <2>1. src \in Source \/ rota' = rota
    BY <1>10 DEF PopCommand, Exhausted, TakeChunk, TakeEnd, TakeNone, HandleCycle, RotaInv, Scope
  <2>2. pc \in {"scan", "take", "handle"}
    BY <1>10 DEF PopCommand, Exhausted, TakeChunk, TakeEnd, TakeNone, HandleCycle
  <2>3. rota' \in {rota, ActiveAttach(rota, src), FinishedAttach(rota, src),
                   BlockedAttach(rota, src), Unlisted(rota, src)}
    BY <1>10 DEF PopCommand, Exhausted, Serve, TakeChunk, TakeEnd, TakeNone, HandleCycle, Finished
  <2> QED
    BY <1>1, <1>2, <2>1, <2>2, <2>3, ListTurned, TurnKept
<1>11. ASSUME NEW t \in Task, HandleProbe(t) \/ HandleTask(t) PROVE Turn'
  <2>1. (pc = "handle" /\ InstallOrHold(t)) \/ UNCHANGED <<rota, pc>>
    BY <1>11 DEF HandleProbe, HandleTask, Crash, scans
  <2> QED
    BY <1>3, <2>1, InstallTurn
<1> QED
  BY <1>3, <1>4, <1>5, <1>6, <1>7, <1>8, <1>9, <1>10, <1>11, StartScanTurn DEF Next, MainStep, vars

(* No source starts more tasks in its turn than its priority, whatever is  *)
(* attached, detached, held or flushed in the middle of it.                *)
THEOREM QuantumHolds == Spec => []Quantum
<1>1. Init => Turn
  <2> SUFFICES ASSUME Init PROVE Turn
    OBVIOUS
  <2>1. rota \in Rota /\ rota.cnt = 0 /\ pc = "poll"
    BY InitSound DEF Init, RotaInv, Sound
  <2>2. rota.cur # NoSource => Priority[rota.cur] \in Nat
    BY <2>1, SourcesAssumption DEF Rota
  <2> QED
    BY <2>1, <2>2 DEF Turn, Room
<1>2. RotaInv /\ Turn => Quantum
  <2> SUFFICES ASSUME RotaInv, Turn PROVE Quantum
    OBVIOUS
  <2>1. rota \in Rota /\ (rota.cur # NoSource => Priority[rota.cur] \in Nat)
    BY SourcesAssumption DEF RotaInv, Sound, Rota
  <2> QED
    BY <2>1 DEF Turn, Room, Quantum, Rota
<1> QED
  BY <1>1, <1>2, InitSound, NextSound, NextTurn, PTL DEF Spec

-----------------------------------------------------------------------------
(* a source, before it is known that its counts are not negative           *)
Shape == [commands : Seq(Commands), tasks : Seq(Task), open : BOOLEAN, eof : BOOLEAN,
          tree : BOOLEAN, refcnt : Int, cm : Int, cyclemon : BOOLEAN]

Clients == {"none", "attached", "flush", "gone"}
Phases  == {"poll", "probe", "gettask", "scan", "take", "handle", "done"}
Faults  == {"none", "cyclemon", "null_list", "freed_source", "freed_task"}

Shapes ==
  /\ source \in [Source -> Shape]
  /\ client \in [Source -> Clients]
  /\ life \in [Task -> {"new", "line", "alive", "freed"}]
  /\ uses \subseteq Task /\ installed \subseteq Task /\ IsFiniteSet(uses)
  /\ done_queue \in Seq(Task)
  /\ pc \in Phases
  /\ cmd \in Commands
  /\ fault \in Faults

(* A source lists its living tasks, each once.                             *)
Listed == \A s \in Source, t \in Task :
  Count(source[s].tasks, {t}) = IF SourceOf[t] = s /\ life[t] = "alive" THEN 1 ELSE 0

(* Only living tasks have a cycle monitor or signatures, are done, once,   *)
(* or about to be freed.  Who blocks others runs.                          *)
Alive    == \A t \in Task : t \in uses \cup installed => life[t] = "alive"
DoneOnce == \A t \in Task : Count(done_queue, {t}) + (IF freeing = t THEN 1 ELSE 0)
                            <= IF life[t] = "alive" THEN 1 ELSE 0
Blocking == \A b \in Task : onhold[b] # <<>> => b \in installed

Living == Listed /\ Alive /\ DoneOnce /\ Blocking

(* What waits: the commands of a source and, from the time gettask takes a *)
(* command until it is handled, the one at hand.                           *)
Hand(s, c) == IF src = s /\ cmd = c THEN 1 ELSE 0
Waiting(s, c) == Count(source[s].commands, {c}) + Hand(s, c)

Early == {"new", "line"}

(* A PROBE command is for a line, once.  A task has commands in its source *)
(* alone, and none before it lives; nor is it on hold before.              *)
Probing == \A s \in Source, t \in Task :
  Waiting(s, ProbeCmd(t)) <= IF SourceOf[t] = s /\ life[t] = "line" THEN 1 ELSE 0
Tasking == \A s \in Source, t \in Task :
  SourceOf[t] # s \/ life[t] \in Early => Waiting(s, TaskCmd(t)) = 0
HeldLate  == \A t, b \in Task : life[t] \in Early => Count(onhold[b], {t}) = 0
HandEmpty == pc \notin {"take", "handle"} => cmd = NoCmd

Ordered == Probing /\ Tasking /\ HeldLate /\ HandEmpty

(* Tasks are submitted in order, a client's by the client.                 *)
Submitted ==
  /\ \A s \in Source : \A i, j \in DOMAIN Submits[s] :
       i < j /\ life[Submits[s][j]] # "new" => life[Submits[s][i]] # "new"
  /\ \A t \in Task : LET s == SourceOf[t] IN
       Kind[s] = "control" /\ client[s] = "none" => life[t] = "new"

(* What is counted: references, and pointers to the cycle monitor.         *)
Flag(b) == IF b THEN 1 ELSE 0
Of(U, s) == {t \in U : SourceOf[t] = s}
ProbeSet == {c \in Commands : c.type = "probe"}

(* S has c references of a client, and u uses of its monitor elsewhere.    *)
Balanced(S, c, u) ==
  /\ S.refcnt = Len(S.tasks) + Flag(S.tree) + c
  /\ S.cm = Flag(S.cyclemon) + Count(S.commands, ProbeSet) + u
  /\ S.open /\ ~S.eof => S.cyclemon

Refs(s) == Flag(client[s] \in {"attached", "flush"})
Uses(s) == Cardinality(Of(uses, s)) + Flag(src = s /\ cmd.type = "probe")
Ledger == \A s \in Source : Balanced(source[s], Refs(s), Uses(s))

Accounts   == Shapes /\ Living /\ Ordered /\ Submitted /\ Ledger
SourcesInv == RotaInv /\ Accounts

-----------------------------------------------------------------------------
(* What the functions on one source do to its lists and its counts.        *)

(* The lists stay, or the commands go.                                     *)
Kept(S, T) ==
  /\ T \in Shape /\ T.tasks = S.tasks
  /\ T.commands = S.commands \/ T.commands = <<>>

(* A source with some of its fields set is of the same shape.              *)
LEMMA ShapeSet ==
  ASSUME NEW S \in Shape
  PROVE  /\ \A x \in Int : [S EXCEPT !.refcnt = x] \in Shape /\ [S EXCEPT !.cm = x] \in Shape
         /\ \A b \in BOOLEAN : /\ [S EXCEPT !.open = b] \in Shape
                               /\ [S EXCEPT !.eof = b] \in Shape
                               /\ [S EXCEPT !.tree = b] \in Shape
                               /\ [S EXCEPT !.cyclemon = b] \in Shape
         /\ \A c \in Seq(Commands) : [S EXCEPT !.commands = c] \in Shape
         /\ \A q \in Seq(Task) : [S EXCEPT !.tasks = q] \in Shape
  BY DEF Shape

LEMMA ShapeSets ==
  ASSUME NEW S \in Shape
  PROVE  /\ \A x \in Int, b \in BOOLEAN : /\ [S EXCEPT !.refcnt = x, !.tree = b] \in Shape
                                          /\ [S EXCEPT !.cm = x, !.cyclemon = b] \in Shape
         /\ \A c \in Seq(Commands), x \in Int : [S EXCEPT !.commands = c, !.cm = x] \in Shape
         /\ \A c \in Seq(Commands), b \in BOOLEAN, x \in Int :
              [S EXCEPT !.commands = c, !.open = b, !.cm = x] \in Shape
         /\ \A q \in Seq(Task), x \in Int : [S EXCEPT !.tasks = q, !.refcnt = x] \in Shape
         /\ \A q \in Seq(Task), x, y \in Int :
              [S EXCEPT !.tasks = q, !.refcnt = x, !.cm = y] \in Shape
<1>1. ASSUME NEW x \in Int, NEW b \in BOOLEAN
      PROVE  /\ [S EXCEPT !.refcnt = x, !.tree = b] \in Shape
             /\ [S EXCEPT !.cm = x, !.cyclemon = b] \in Shape
  <2>1. PICK R : R = [S EXCEPT !.refcnt = x]
    OBVIOUS
  <2>2. PICK M : M = [S EXCEPT !.cm = x]
    OBVIOUS
  <2>3. R \in Shape /\ M \in Shape
    BY <2>1, <2>2, ShapeSet
  <2>4. /\ [S EXCEPT !.refcnt = x, !.tree = b] = [R EXCEPT !.tree = b]
        /\ [S EXCEPT !.cm = x, !.cyclemon = b] = [M EXCEPT !.cyclemon = b]
    BY <2>1, <2>2
  <2> QED
    BY <2>3, <2>4, ShapeSet
<1>2. ASSUME NEW c \in Seq(Commands), NEW b \in BOOLEAN, NEW x \in Int
      PROVE  /\ [S EXCEPT !.commands = c, !.cm = x] \in Shape
             /\ [S EXCEPT !.commands = c, !.open = b, !.cm = x] \in Shape
  <2>1. PICK C : C = [S EXCEPT !.commands = c]
    OBVIOUS
  <2>2. PICK O : O = [C EXCEPT !.open = b]
    OBVIOUS
  <2>3. C \in Shape /\ O \in Shape
    BY <2>1, <2>2, ShapeSet
  <2>4. /\ [S EXCEPT !.commands = c, !.cm = x] = [C EXCEPT !.cm = x]
        /\ [S EXCEPT !.commands = c, !.open = b, !.cm = x] = [O EXCEPT !.cm = x]
    BY <2>1, <2>2
  <2> QED
    BY <2>3, <2>4, ShapeSet
<1>3. ASSUME NEW q \in Seq(Task), NEW x \in Int, NEW y \in Int
      PROVE  /\ [S EXCEPT !.tasks = q, !.refcnt = x] \in Shape
             /\ [S EXCEPT !.tasks = q, !.refcnt = x, !.cm = y] \in Shape
  <2>1. PICK Q : Q = [S EXCEPT !.tasks = q]
    OBVIOUS
  <2>2. PICK N : N = [Q EXCEPT !.refcnt = x]
    OBVIOUS
  <2>3. Q \in Shape /\ N \in Shape
    BY <2>1, <2>2, ShapeSet
  <2>4. /\ [S EXCEPT !.tasks = q, !.refcnt = x] = N
        /\ [S EXCEPT !.tasks = q, !.refcnt = x, !.cm = y] = [N EXCEPT !.cm = y]
    BY <2>1, <2>2
  <2> QED
    BY <2>3, <2>4, ShapeSet
<1>4. \A c \in Seq(Commands), x \in Int : [S EXCEPT !.commands = c, !.cm = x] \in Shape
  BY <1>2
<1>5. \A q \in Seq(Task), x \in Int : [S EXCEPT !.tasks = q, !.refcnt = x] \in Shape
  BY <1>3
<1> QED
  BY <1>1, <1>2, <1>3, <1>4, <1>5

LEMMA FlagType == \A b : Flag(b) \in {0, 1}
  BY DEF Flag

(* A list of commands can be counted.                                      *)
LEMMA Countable ==
  ASSUME NEW S \in Shape
  PROVE  /\ S.commands \in Seq(Commands) /\ S.tasks \in Seq(Task) /\ Len(S.tasks) \in Nat
         /\ \A P : Count(S.commands, P) \in Nat /\ Count(S.tasks, P) \in Nat
<1>1. S.commands \in Seq(Commands) /\ S.tasks \in Seq(Task)
  BY DEF Shape
<1> QED
  BY <1>1, CountType, LenProperties

(* The probe commands of a list are counted as such.                       *)
LEMMA ProbesCounted ==
  ASSUME NEW c \in Seq(Commands)
  PROVE  Cardinality(Probes(c)) = Count(c, ProbeSet)
<1>1. \A i \in DOMAIN c : c[i] \in Commands
  BY LenProperties, ElementOfSeq
<1>2. Probes(c) = At(c, ProbeSet)
  BY <1>1 DEF Probes, At, ProbeSet
<1> QED
  BY <1>2 DEF Count

(* A source gives its own pointer to the cycle monitor back.               *)
LEMMA UnuseKept ==
  ASSUME NEW S \in Shape
  PROVE  /\ Kept(S, Unuse(S)) /\ Unuse(S).commands = S.commands
         /\ Unuse(S).refcnt = S.refcnt /\ Unuse(S).tree = S.tree
         /\ Unuse(S).open = S.open /\ Unuse(S).eof = S.eof
         /\ \A c, u \in Nat : Balanced(S, c, u) /\ (S.open => S.eof) => Balanced(Unuse(S), c, u)
<1>1. CASE S.cyclemon
  <2>1. PICK T : T = [S EXCEPT !.cm = S.cm - 1, !.cyclemon = FALSE]
    OBVIOUS
  <2>2. Unuse(S) = T
    BY <1>1, <2>1 DEF Unuse
  <2>3. S.cm \in Int /\ S.cm - 1 \in Int
    BY DEF Shape
  <2>4. T \in Shape
    BY <2>1, <2>3, ShapeSets
  <2>5. /\ T.tasks = S.tasks /\ T.commands = S.commands /\ T.refcnt = S.refcnt
        /\ T.tree = S.tree /\ T.open = S.open /\ T.eof = S.eof
        /\ T.cm = S.cm - 1 /\ T.cyclemon = FALSE
    BY <2>1 DEF Shape
  <2>6. ASSUME NEW c \in Nat, NEW u \in Nat, Balanced(S, c, u), S.open => S.eof
        PROVE  Balanced(T, c, u)
    <3>1. Flag(S.cyclemon) = 1 /\ Flag(T.cyclemon) = 0 /\ Count(S.commands, ProbeSet) \in Nat
      BY <1>1, <2>5, Countable DEF Flag
    <3>2. T.cm = Flag(T.cyclemon) + Count(T.commands, ProbeSet) + u
      BY <2>3, <2>5, <2>6, <3>1 DEF Balanced
    <3> QED
      BY <2>5, <2>6, <3>2 DEF Balanced
  <2> QED
    BY <2>2, <2>4, <2>5, <2>6 DEF Kept
<1>2. CASE ~S.cyclemon
  BY <1>2 DEF Unuse, Kept
<1> QED
  BY <1>1, <1>2

(* What a source has left to do is dropped.                                *)
LEMMA FlushKept ==
  ASSUME NEW S \in Shape
  PROVE  /\ Kept(S, FlushCommands(S)) /\ FlushCommands(S).commands = <<>>
         /\ ~FlushCommands(S).open
         /\ \A c, u \in Nat : Balanced(S, c, u) => Balanced(FlushCommands(S), c, u)
<1>1. Count(S.commands, ProbeSet) \in Nat /\ Cardinality(Probes(S.commands)) = Count(S.commands, ProbeSet)
  BY Countable, ProbesCounted
<1>2. <<>> \in Seq(Commands) /\ Count(<<>>, ProbeSet) = 0
  BY CountEmpty
<1>3. FlushCommands(S) = [S EXCEPT !.commands = <<>>, !.open = FALSE,
                                   !.cm = S.cm - Count(S.commands, ProbeSet)]
  BY <1>1 DEF FlushCommands, Shape
<1>4. PICK T : T = [S EXCEPT !.commands = <<>>, !.open = FALSE,
                             !.cm = S.cm - Count(S.commands, ProbeSet)]
  OBVIOUS
<1>5. S.cm \in Int /\ S.cm - Count(S.commands, ProbeSet) \in Int
  BY <1>1 DEF Shape
<1>6. T \in Shape
  BY <1>2, <1>4, <1>5, ShapeSets
<1>7. /\ T.tasks = S.tasks /\ T.commands = <<>> /\ T.refcnt = S.refcnt /\ T.tree = S.tree
      /\ T.open = FALSE /\ T.cyclemon = S.cyclemon
      /\ T.cm = S.cm - Count(S.commands, ProbeSet)
  BY <1>4 DEF Shape
<1>8. ASSUME NEW c \in Nat, NEW u \in Nat, Balanced(S, c, u)
      PROVE  Balanced(T, c, u)
  <2>1. T.refcnt = Len(T.tasks) + Flag(T.tree) + c
    BY <1>7, <1>8 DEF Balanced
  <2>2. T.cm = Flag(T.cyclemon) + 0 + u
    BY <1>1, <1>5, <1>7, <1>8 DEF Balanced, Flag
  <2> QED
    BY <1>2, <1>7, <2>1, <2>2 DEF Balanced
<1> QED
  BY <1>3, <1>4, <1>6, <1>7, <1>8 DEF Kept

(* A reference is given back; the last one frees the source.               *)
LEMMA UnrefKept ==
  ASSUME NEW S \in Shape
  PROVE  /\ Kept(S, Unref(S))
         /\ \A c, u \in Nat : Balanced(S, c + 1, u) => Balanced(Unref(S), c, u)
<1>1. CASE S.refcnt = 1
  <2>1. PICK R : R = [S EXCEPT !.refcnt = 0, !.tree = FALSE]
    OBVIOUS
  <2>2. PICK V : V = Unuse(R)
    OBVIOUS
  <2>14. R \in Shape
    <3>1. PICK N : N = [S EXCEPT !.refcnt = 0]
      OBVIOUS
    <3>2. N \in Shape
      BY <3>1, SMTT(60) DEF Shape
    <3>3. R = [N EXCEPT !.tree = FALSE]
      BY <2>1, <3>1
    <3> QED
      BY <3>2, <3>3, ShapeSet
  <2>3. /\ R \in Shape /\ R.tasks = S.tasks /\ R.commands = S.commands /\ R.refcnt = 0
        /\ R.tree = FALSE /\ R.cm = S.cm /\ R.cyclemon = S.cyclemon
    BY <2>1, <2>14 DEF Shape
  <2>4. Kept(R, V) /\ V.commands = R.commands /\ V.refcnt = 0 /\ V.tree = FALSE
    BY <2>2, <2>3, UnuseKept
  <2>5. V.cm = R.cm - Flag(R.cyclemon) /\ V.cyclemon = FALSE
    BY <2>2, <2>3 DEF Unuse, Shape, Flag
  <2>6. Unref(S) = FlushCommands(V)
    BY <1>1, <2>1, <2>2 DEF Unref
  <2>7. V \in Shape /\ V.tasks = S.tasks
    BY <2>3, <2>4 DEF Kept
  <2>8. PICK W : W = [V EXCEPT !.open = FALSE]
    OBVIOUS
  <2>15. W \in Shape
    BY <2>7, <2>8, ShapeSet
  <2>9. /\ W \in Shape /\ W.tasks = S.tasks /\ W.commands = S.commands /\ W.refcnt = 0
        /\ W.tree = FALSE /\ W.cm = V.cm /\ W.cyclemon = FALSE /\ W.open = FALSE
    BY <2>3, <2>4, <2>5, <2>7, <2>8, <2>15 DEF Shape
  <2>10. FlushCommands(V) = FlushCommands(W)
    BY <2>7, <2>8, <2>9 DEF FlushCommands, Shape
  <2>11. ASSUME NEW c \in Nat, NEW u \in Nat, Balanced(S, c + 1, u)
         PROVE  Balanced(W, c, u)
    <3>1. Len(S.tasks) \in Nat /\ Count(S.commands, ProbeSet) \in Nat
      BY Countable
    <3>2. 1 = Len(S.tasks) + Flag(S.tree) + (c + 1)
      BY <1>1, <2>11 DEF Balanced
    <3>3. Len(S.tasks) = 0 /\ c = 0
      BY <3>1, <3>2, FlagType
    <3>4. S.cm \in Int /\ S.cm = Flag(S.cyclemon) + Count(S.commands, ProbeSet) + u
      BY <2>11 DEF Balanced, Shape
    <3>5. W.cm = 0 + Count(S.commands, ProbeSet) + u
      BY <2>3, <2>5, <2>9, <3>1, <3>4 DEF Flag
    <3> QED
      BY <2>9, <3>3, <3>5 DEF Balanced, Flag
  <2>12. \A c, u \in Nat : Balanced(W, c, u) => Balanced(FlushCommands(W), c, u)
    BY <2>9, FlushKept
  <2>13. Kept(W, FlushCommands(W))
    BY <2>9, FlushKept
  <2> QED
    BY <2>6, <2>9, <2>10, <2>11, <2>12, <2>13 DEF Kept
<1>2. CASE S.refcnt # 1
  <2>1. Unref(S) = [S EXCEPT !.refcnt = S.refcnt - 1]
    BY <1>2 DEF Unref, Shape
  <2>2. Len(S.tasks) \in Nat
    BY Countable
  <2>3. Unref(S) \in Shape
    BY <2>1, ShapeSet DEF Shape
  <2>4. /\ Unref(S).tasks = S.tasks /\ Unref(S).commands = S.commands
        /\ Unref(S).refcnt = S.refcnt - 1 /\ Unref(S).tree = S.tree
        /\ Unref(S).cm = S.cm /\ Unref(S).cyclemon = S.cyclemon
        /\ Unref(S).open = S.open /\ Unref(S).eof = S.eof
    BY <2>1 DEF Shape
  <2>5. ASSUME NEW c \in Nat, NEW u \in Nat, Balanced(S, c + 1, u)
        PROVE  Balanced(Unref(S), c, u)
    <3>1. S.refcnt = Len(S.tasks) + Flag(S.tree) + (c + 1)
      BY <2>5 DEF Balanced
    <3>2. S.refcnt - 1 = Len(S.tasks) + Flag(S.tree) + c
      BY <2>2, <3>1, FlagType
    <3> QED
      BY <2>4, <2>5, <3>2 DEF Balanced
  <2> QED
    BY <2>3, <2>4, <2>5 DEF Kept
<1> QED
  BY <1>1, <1>2

(* A source leaves the tree.                                               *)
LEMMA DetachKept ==
  ASSUME NEW S \in Shape
  PROVE  /\ Kept(S, Detach(S))
         /\ \A c, u \in Nat : Balanced(S, c, u) => Balanced(Detach(S), c, u)
<1>1. CASE S.tree
  <2> DEFINE R == [S EXCEPT !.tree = FALSE]
  <2>1. R \in Shape /\ R.tasks = S.tasks /\ R.commands = S.commands /\ Detach(S) = Unref(R)
    BY <1>1 DEF Shape, Detach
  <2>2. \A c, u \in Nat : Balanced(S, c, u) => Balanced(R, c + 1, u)
    BY <1>1, Countable DEF Shape, Balanced, Flag
  <2> HIDE DEF R
  <2> QED
    BY <2>1, <2>2, UnrefKept DEF Kept
<1>2. CASE ~S.tree
  BY <1>2 DEF Detach, Kept
<1> QED
  BY <1>1, <1>2 DEF Shape

(* Popping a node takes it out of every count it is in.                    *)
LEMMA WithoutCount ==
  ASSUME NEW S, NEW q \in Seq(S), NEW x, NEW P
  PROVE  /\ Count(q, {x}) # 0 /\ x \in P => Count(Without(q, x), P) = Count(q, P) - 1
         /\ Count(q, {x}) = 0 \/ x \notin P => Count(Without(q, x), P) = Count(q, P)
         /\ Count(q, {x}) = 0 <=> Places(q, x) = {}
<1>1. Count(q, {x}) = 0 <=> Places(q, x) = {}
  BY CountType DEF Places
<1>2. CASE Places(q, x) = {}
  <2>1. Without(q, x) = q
    BY <1>2 DEF Without
  <2> QED
    BY <1>1, <1>2, <2>1
<1>3. CASE Places(q, x) # {}
  <2> DEFINE k == CHOOSE i \in Places(q, x) : TRUE
  <2>1. k \in DOMAIN q /\ q[k] = x /\ Without(q, x) = RemoveAt(q, k)
    BY <1>3 DEF Places, Without
  <2> HIDE DEF k
  <2>2. Count(q, P) \in Nat
    BY CountType
  <2>3. Count(RemoveAt(q, k), P) = Count(q, P) - IF q[k] \in P THEN 1 ELSE 0
    BY <2>1, CountRemoveAt
  <2> QED
    BY <1>1, <1>3, <2>1, <2>2, <2>3
<1> QED
  BY <1>1, <1>2, <1>3

(* How often one element is in a list, when one comes or goes.             *)
LEMMA OneMore ==
  ASSUME NEW S, NEW q \in Seq(S), NEW c \in S, NEW u
  PROVE  /\ c = u => Count(Append(q, c), {u}) = Count(q, {u}) + 1
         /\ c # u => Count(Append(q, c), {u}) = Count(q, {u})
<1>1. Count(q, {u}) \in Nat
  BY CountType
<1>2. PICK P : P = {u}
  OBVIOUS
<1>3. Count(Append(q, c), P) = Count(q, P) + IF c \in P THEN 1 ELSE 0
  BY CountAppend
<1> QED
  BY <1>1, <1>2, <1>3

LEMMA OneFirst ==
  ASSUME NEW S, NEW q \in Seq(S), q # <<>>, NEW u
  PROVE  /\ Head(q) = u => Count(Tail(q), {u}) = Count(q, {u}) - 1
         /\ Head(q) # u => Count(Tail(q), {u}) = Count(q, {u})
<1>1. Count(q, {u}) \in Nat
  BY CountType
<1>2. PICK P : P = {u}
  OBVIOUS
<1>3. Count(Tail(q), P) = Count(q, P) - IF Head(q) \in P THEN 1 ELSE 0
  BY CountEnds
<1> QED
  BY <1>1, <1>2, <1>3

LEMMA OneLast ==
  ASSUME NEW S, NEW q \in Seq(S), q # <<>>, NEW u
  PROVE  /\ Last(q) = u => Count(Front(q), {u}) = Count(q, {u}) - 1
         /\ Last(q) # u => Count(Front(q), {u}) = Count(q, {u})
<1>1. Count(q, {u}) \in Nat
  BY CountType
<1>2. PICK P : P = {u}
  OBVIOUS
<1>3. Count(Front(q), P) = Count(q, P) - IF Last(q) \in P THEN 1 ELSE 0
  BY CountEnds
<1> QED
  BY <1>1, <1>2, <1>3

LEMMA WithoutOne ==
  ASSUME NEW S, NEW q \in Seq(S), NEW x, NEW u
  PROVE  /\ x = u /\ Count(q, {u}) # 0 => Count(Without(q, x), {u}) = Count(q, {u}) - 1
         /\ x # u \/ Count(q, {u}) = 0 => Count(Without(q, x), {u}) = Count(q, {u})
<1>1. PICK P : P = {u}
  OBVIOUS
<1>2. x \in P <=> x = u
  BY <1>1
<1>3. /\ Count(q, {x}) # 0 /\ x \in P => Count(Without(q, x), P) = Count(q, P) - 1
      /\ Count(q, {x}) = 0 \/ x \notin P => Count(Without(q, x), P) = Count(q, P)
  BY WithoutCount, ZenonT(60)
<1> QED
  BY <1>1, <1>2, <1>3

(* The commands for the lines q, each submitted once.                      *)
LEMMA ProbeCmdsCount ==
  ASSUME NEW q \in Seq(Task), Distinct(q)
  PROVE  /\ ProbeCmds(q) \in Seq(Commands) /\ Len(q) \in Nat
         /\ Count(ProbeCmds(q), ProbeSet) = Len(q)
         /\ \A t \in Task : /\ Count(ProbeCmds(q), {TaskCmd(t)}) = 0
                            /\ Count(ProbeCmds(q), {ProbeCmd(t)})
                               = IF Member(q, t) THEN 1 ELSE 0
<1> DEFINE c == ProbeCmds(q)
<1>1. Len(q) \in Nat /\ DOMAIN q = 1 .. Len(q) /\ \A i \in DOMAIN q : q[i] \in Task
  BY LenProperties, ElementOfSeq
<1>2. c \in Seq(Commands) /\ DOMAIN c = 1 .. Len(q) /\ Len(c) = Len(q)
      /\ \A i \in 1 .. Len(q) : c[i] = ProbeCmd(q[i])
  <2>1. c = [i \in 1 .. Len(q) |-> ProbeCmd(q[i])]
    BY <1>1 DEF ProbeCmds
  <2>2. \A i \in 1 .. Len(q) : ProbeCmd(q[i]) \in Commands
    BY <1>1 DEF ProbeCmd, Commands
  <2> QED
    BY <1>1, <2>1, <2>2
<1> HIDE DEF c
<1>3. Count(c, ProbeSet) = Len(q)
  <2>1. \A i \in 1 .. Len(q) : c[i] \in ProbeSet
    BY <1>1, <1>2 DEF ProbeCmd, ProbeSet, Commands
  <2>2. c \in Seq(ProbeSet)
    BY <1>1, <1>2, <2>1, SeqDef, LenProperties
  <2> QED
    BY <1>2, <2>2, CountAll
<1>4. ASSUME NEW t \in Task
      PROVE  Count(c, {TaskCmd(t)}) = 0
  <2>1. \A i \in DOMAIN c : c[i] \notin {TaskCmd(t)}
    BY <1>2 DEF ProbeCmd, TaskCmd
  <2> QED
    BY <1>2, <2>1, CountType
<1>5. ASSUME NEW t \in Task
      PROVE  Count(c, {ProbeCmd(t)}) = IF Member(q, t) THEN 1 ELSE 0
  <2>1. \A i \in 1 .. Len(q) : c[i] \in {ProbeCmd(t)} <=> q[i] = t
    BY <1>1, <1>2 DEF ProbeCmd
  <2>2. CASE Member(q, t)
    <3>1. PICK i \in DOMAIN q : q[i] = t
      BY <2>2 DEF Member
    <3>2. At(c, {ProbeCmd(t)}) = {i}
      BY <1>1, <1>2, <2>1, <3>1 DEF At, Distinct
    <3> QED
      BY <2>2, <3>2, FS_Singleton DEF Count
  <2>3. CASE ~Member(q, t)
    <3>1. At(c, {ProbeCmd(t)}) = {}
      BY <1>1, <1>2, <2>1, <2>3 DEF At, Member
    <3> QED
      BY <2>3, <3>1, FS_EmptySet DEF Count
  <2> QED
    BY <2>2, <2>3
<1> QED
  BY <1>1, <1>2, <1>3, <1>4, <1>5 DEF c

(* Lines become PROBE commands of a source that can count them.            *)
LEMMA AddLinesKept ==
  ASSUME NEW S \in Shape, NEW q \in Seq(Task), Distinct(q), S.cyclemon
  PROVE  LET T == AddLines(S, q) IN
         /\ T \in Shape /\ T.tasks = S.tasks /\ T.open = S.open /\ T.eof = S.eof
         /\ T.cyclemon
         /\ \A t \in Task :
              /\ Count(T.commands, {TaskCmd(t)}) = Count(S.commands, {TaskCmd(t)})
              /\ Member(q, t) => Count(T.commands, {ProbeCmd(t)})
                                = Count(S.commands, {ProbeCmd(t)}) + 1
              /\ ~Member(q, t) => Count(T.commands, {ProbeCmd(t)})
                                 = Count(S.commands, {ProbeCmd(t)})
         /\ \A c, u \in Nat : Balanced(S, c, u) => Balanced(T, c, u)
<1> DEFINE m == S.commands \o ProbeCmds(q)
<1>1. PICK T : T = [S EXCEPT !.commands = m, !.cm = S.cm + Len(q)]
  OBVIOUS
<1>2. ProbeCmds(q) \in Seq(Commands) /\ Len(q) \in Nat /\ S.commands \in Seq(Commands)
      /\ S.cm \in Int
  BY ProbeCmdsCount DEF Shape
<1>3. m \in Seq(Commands) /\ S.cm + Len(q) \in Int
  BY <1>2
<1>4. \A P : Count(m, P) = Count(S.commands, P) + Count(ProbeCmds(q), P)
  BY <1>2, CountConcat
<1>5. AddLines(S, q) = T
  BY <1>1, <1>2 DEF AddLines, Shape
<1> HIDE DEF m
<1>6. T \in Shape
  BY <1>1, <1>3, ShapeSets
<1>7. /\ T.commands = m /\ T.cm = S.cm + Len(q) /\ T.tasks = S.tasks /\ T.open = S.open
      /\ T.eof = S.eof /\ T.tree = S.tree /\ T.refcnt = S.refcnt /\ T.cyclemon = S.cyclemon
  BY <1>1 DEF Shape
<1>8. \A P : Count(S.commands, P) \in Nat
  BY Countable
<1>9. ASSUME NEW t \in Task
      PROVE  /\ Count(m, {TaskCmd(t)}) = Count(S.commands, {TaskCmd(t)})
             /\ Member(q, t) => Count(m, {ProbeCmd(t)}) = Count(S.commands, {ProbeCmd(t)}) + 1
             /\ ~Member(q, t) => Count(m, {ProbeCmd(t)}) = Count(S.commands, {ProbeCmd(t)})
  <2>1. /\ Count(ProbeCmds(q), {TaskCmd(t)}) = 0
        /\ Count(ProbeCmds(q), {ProbeCmd(t)}) = IF Member(q, t) THEN 1 ELSE 0
    BY ProbeCmdsCount
  <2>2. /\ Count(m, {TaskCmd(t)}) = Count(S.commands, {TaskCmd(t)}) + 0
        /\ Count(m, {ProbeCmd(t)})
           = Count(S.commands, {ProbeCmd(t)}) + IF Member(q, t) THEN 1 ELSE 0
    BY <1>4, <2>1
  <2>3. Count(S.commands, {TaskCmd(t)}) \in Nat /\ Count(S.commands, {ProbeCmd(t)}) \in Nat
    BY <1>8
  <2> QED
    BY <2>2, <2>3
<1>10. ASSUME NEW c \in Nat, NEW u \in Nat, Balanced(S, c, u)
       PROVE  Balanced(T, c, u)
  <2>1. Count(m, ProbeSet) = Count(S.commands, ProbeSet) + Len(q)
    BY <1>4, ProbeCmdsCount
  <2>2. Flag(S.cyclemon) = 1 /\ Flag(T.cyclemon) = 1
    BY <1>7 DEF Flag
  <2>3. T.cm = Flag(T.cyclemon) + Count(T.commands, ProbeSet) + u
    <3>1. S.cm = 1 + Count(S.commands, ProbeSet) + u
      BY <1>10, <2>2 DEF Balanced
    <3>2. Count(T.commands, ProbeSet) = Count(S.commands, ProbeSet) + Len(q)
      BY <1>7, <2>1
    <3>3. Count(S.commands, ProbeSet) \in Nat
      BY <1>8
    <3>4. T.cm = S.cm + Len(q) /\ Len(q) \in Nat
      BY <1>2, <1>7
    <3>5. T.cm = 1 + (Count(S.commands, ProbeSet) + Len(q)) + u
      BY <3>1, <3>3, <3>4
    <3> QED
      BY <2>2, <3>2, <3>5
  <2> QED
    BY <1>7, <1>10, <2>3 DEF Balanced
<1> QED
  BY <1>5, <1>6, <1>7, <1>9, <1>10

(* A task is added to a source.                                            *)
LEMMA AddTaskKept ==
  ASSUME NEW S \in Shape, NEW t \in Task
  PROVE  LET T == AddTask(S, t) IN
         /\ T \in Shape /\ T.commands = S.commands /\ T.open = S.open /\ T.eof = S.eof
         /\ T.cyclemon = S.cyclemon /\ T.tasks = Append(S.tasks, t)
         /\ \A c, u \in Nat : Balanced(S, c, u) => Balanced(T, c, u)
<1> DEFINE q == Append(S.tasks, t)
<1>1. PICK T : T = [S EXCEPT !.tasks = q, !.refcnt = S.refcnt + 1]
  OBVIOUS
<1>2. S.tasks \in Seq(Task) /\ S.refcnt \in Int /\ Len(S.tasks) \in Nat
  BY LenProperties DEF Shape
<1>3. q \in Seq(Task) /\ Len(q) = Len(S.tasks) + 1 /\ S.refcnt + 1 \in Int
  BY <1>2, AppendProperties
<1>4. AddTask(S, t) = T
  BY <1>1 DEF AddTask, Shape
<1> HIDE DEF q
<1>5. T \in Shape
  BY <1>1, <1>3, ShapeSets
<1>6. /\ T.tasks = q /\ T.refcnt = S.refcnt + 1 /\ T.commands = S.commands /\ T.cm = S.cm
      /\ T.open = S.open /\ T.eof = S.eof /\ T.tree = S.tree /\ T.cyclemon = S.cyclemon
  BY <1>1 DEF Shape
<1>7. ASSUME NEW c \in Nat, NEW u \in Nat, Balanced(S, c, u)
      PROVE  Balanced(T, c, u)
  <2>1. Flag(S.tree) \in Nat /\ S.refcnt = Len(S.tasks) + Flag(S.tree) + c
    BY <1>7 DEF Flag, Balanced
  <2>2. T.refcnt = Len(T.tasks) + Flag(T.tree) + c
    <3>1. T.refcnt = S.refcnt + 1 /\ Len(T.tasks) = Len(S.tasks) + 1
      BY <1>3, <1>6
    <3>2. Flag(T.tree) = Flag(S.tree)
      BY <1>6
    <3>3. T.refcnt = (Len(S.tasks) + 1) + Flag(S.tree) + c
      BY <1>2, <2>1, <3>1
    <3> QED
      BY <3>1, <3>2, <3>3
  <2> QED
    BY <1>6, <1>7, <2>2 DEF Balanced
<1> QED
  BY <1>4, <1>5, <1>6, <1>7 DEF q

(* A command that is not PROBE is added to a source, at either end.        *)
LEMMA PushKept ==
  ASSUME NEW S \in Shape, NEW t \in Task,
         NEW T, T = Push(S, TaskCmd(t)) \/ T = PushHead(S, TaskCmd(t))
  PROVE  /\ T \in Shape /\ T.tasks = S.tasks /\ T.open = S.open /\ T.eof = S.eof
         /\ T.cyclemon = S.cyclemon
         /\ \A P : TaskCmd(t) \notin P => Count(T.commands, P) = Count(S.commands, P)
         /\ \A P : TaskCmd(t) \in P => Count(T.commands, P) = Count(S.commands, P) + 1
         /\ \A c, u \in Nat : Balanced(S, c, u) => Balanced(T, c, u)
<1>1. S.commands \in Seq(Commands) /\ TaskCmd(t) \in Commands /\ TaskCmd(t) \notin ProbeSet
  BY DEF Shape, TaskCmd, Commands, ProbeSet
<1>2. PICK m : /\ T = [S EXCEPT !.commands = m]
               /\ m = Append(S.commands, TaskCmd(t)) \/ m = <<TaskCmd(t)>> \o S.commands
  BY DEF Push, PushHead, Shape
<1> DEFINE x == TaskCmd(t)
<1> HIDE DEF x
<1>9. x \in Commands /\ S.commands \in Seq(Commands)
  BY <1>1 DEF x
<1>10. <<x>> \in Seq(Commands)
  BY <1>9
<1>11. Append(S.commands, x) \in Seq(Commands) /\ <<x>> \o S.commands \in Seq(Commands)
  BY <1>9, <1>10
<1>3. m \in Seq(Commands)
  BY <1>2, <1>11 DEF x
<1>4. \A P : Count(m, P) = Count(S.commands, P) + IF TaskCmd(t) \in P THEN 1 ELSE 0
  <2> SUFFICES ASSUME NEW P
               PROVE  Count(m, P) = Count(S.commands, P) + IF x \in P THEN 1 ELSE 0
    BY DEF x
  <2>1. /\ Count(Append(S.commands, x), P) = Count(S.commands, P) + IF x \in P THEN 1 ELSE 0
        /\ Count(<<x>> \o S.commands, P) = Count(S.commands, P) + IF x \in P THEN 1 ELSE 0
    BY <1>9, CountAppend
  <2> QED
    BY <1>2, <2>1 DEF x
<1>5. T \in Shape
  BY <1>2, <1>3, ShapeSet
<1>6. /\ T.commands = m /\ T.refcnt = S.refcnt /\ T.tasks = S.tasks /\ T.cm = S.cm
      /\ T.open = S.open /\ T.eof = S.eof /\ T.tree = S.tree /\ T.cyclemon = S.cyclemon
  BY <1>2 DEF Shape
<1>7. Count(m, ProbeSet) = Count(S.commands, ProbeSet)
  <2>1. Count(m, ProbeSet) = Count(S.commands, ProbeSet) + 0
    BY <1>1, <1>4
  <2>2. Count(S.commands, ProbeSet) \in Nat
    BY Countable
  <2> QED
    BY <2>1, <2>2
<1>8. \A c, u \in Nat : Balanced(S, c, u) => Balanced(T, c, u)
  BY <1>6, <1>7 DEF Balanced
<1>12. ASSUME NEW P
       PROVE  /\ TaskCmd(t) \notin P => Count(T.commands, P) = Count(S.commands, P)
              /\ TaskCmd(t) \in P => Count(T.commands, P) = Count(S.commands, P) + 1
  <2>1. Count(m, P) = Count(S.commands, P) + IF TaskCmd(t) \in P THEN 1 ELSE 0
    BY <1>4
  <2>2. Count(S.commands, P) \in Nat
    BY Countable
  <2> QED
    BY <1>6, <2>1, <2>2
<1> QED
  BY <1>5, <1>6, <1>8, <1>12

(* The command of a task is taken out of a source's list.                  *)
LEMMA DropKept ==
  ASSUME NEW S \in Shape, NEW t \in Task
  PROVE  LET T == [S EXCEPT !.commands = Without(@, TaskCmd(t))] IN
         /\ T \in Shape /\ T.tasks = S.tasks
         /\ \A c : Count(T.commands, {c}) <= Count(S.commands, {c})
         /\ \A c, u \in Nat : Balanced(S, c, u) => Balanced(T, c, u)
<1> DEFINE w == Without(S.commands, TaskCmd(t))
<1>1. S.commands \in Seq(Commands) /\ TaskCmd(t) \notin ProbeSet
  BY DEF Shape, TaskCmd, ProbeSet
<1>2. w \in Seq(Commands)
  BY <1>1, WithoutSeq
<1>3. Count(w, ProbeSet) = Count(S.commands, ProbeSet)
  BY <1>1, WithoutCount, ZenonT(60)
<1>4. ASSUME NEW c
      PROVE  Count(w, {c}) <= Count(S.commands, {c})
  <2>1. Count(S.commands, {c}) \in Nat
    BY Countable
  <2>2. Count(w, {c}) = Count(S.commands, {c}) \/ Count(w, {c}) = Count(S.commands, {c}) - 1
    BY <1>1, WithoutOne
  <2> QED
    BY <2>1, <2>2
<1> HIDE DEF w
<1>5. PICK T : T = [S EXCEPT !.commands = w]
  OBVIOUS
<1>6. T \in Shape
  BY <1>2, <1>5, ShapeSet
<1>7. /\ T.commands = w /\ T.refcnt = S.refcnt /\ T.tasks = S.tasks /\ T.cm = S.cm
      /\ T.open = S.open /\ T.eof = S.eof /\ T.tree = S.tree /\ T.cyclemon = S.cyclemon
  BY <1>5 DEF Shape
<1>8. [S EXCEPT !.commands = Without(@, TaskCmd(t))] = T
  BY <1>5 DEF w, Shape
<1>9. \A c, u \in Nat : Balanced(S, c, u) => Balanced(T, c, u)
  BY <1>3, <1>7 DEF Balanced
<1> QED
  BY <1>4, <1>6, <1>7, <1>8, <1>9

-----------------------------------------------------------------------------
(* What is counted and what is next.                                       *)

(* The tasks of a source in a set, when one is added and when it goes.     *)
LEMMA OfAdd ==
  ASSUME NEW U, IsFiniteSet(U), NEW t, NEW s
  PROVE  /\ IsFiniteSet(Of(U, s)) /\ Cardinality(Of(U, s)) \in Nat
         /\ t \notin U => Cardinality(Of(U \cup {t}, s))
                          = Cardinality(Of(U, s)) + IF SourceOf[t] = s THEN 1 ELSE 0
<1>1. IsFiniteSet(Of(U, s))
  BY FS_Subset DEF Of
<1>2. Cardinality(Of(U, s)) \in Nat
  BY <1>1, FS_CardinalityType
<1>3. ASSUME t \notin U, SourceOf[t] = s
      PROVE  Cardinality(Of(U \cup {t}, s)) = Cardinality(Of(U, s)) + 1
  <2>1. Of(U \cup {t}, s) = Of(U, s) \cup {t} /\ t \notin Of(U, s)
    BY <1>3 DEF Of
  <2> QED
    BY <1>1, <2>1, FS_AddElement
<1>4. ASSUME SourceOf[t] # s
      PROVE  Of(U \cup {t}, s) = Of(U, s)
  BY <1>4 DEF Of
<1> QED
  BY <1>1, <1>2, <1>3, <1>4

LEMMA OfRemove ==
  ASSUME NEW U, IsFiniteSet(U), NEW t, NEW s
  PROVE  /\ IsFiniteSet(U \ {t}) /\ Cardinality(Of(U \ {t}, s)) \in Nat
         /\ t \in U /\ SourceOf[t] = s
            => Cardinality(Of(U \ {t}, s)) = Cardinality(Of(U, s)) - 1
         /\ ~(t \in U /\ SourceOf[t] = s)
            => Cardinality(Of(U \ {t}, s)) = Cardinality(Of(U, s))
<1>1. IsFiniteSet(U \ {t}) /\ t \notin U \ {t}
  BY FS_RemoveElement
<1>2. Cardinality(Of(U \ {t}, s)) \in Nat /\ Cardinality(Of(U, s)) \in Nat
  BY <1>1, OfAdd
<1>3. CASE t \in U
  <2>1. (U \ {t}) \cup {t} = U
    BY <1>3
  <2>2. Cardinality(Of((U \ {t}) \cup {t}, s))
        = Cardinality(Of(U \ {t}, s)) + IF SourceOf[t] = s THEN 1 ELSE 0
    BY <1>1, OfAdd
  <2>3. Cardinality(Of(U, s))
        = Cardinality(Of(U \ {t}, s)) + IF SourceOf[t] = s THEN 1 ELSE 0
    BY <2>1, <2>2
  <2> QED
    BY <1>1, <1>2, <1>3, <2>3
<1>4. CASE t \notin U
  <2>1. Of(U \ {t}, s) = Of(U, s)
    BY <1>4 DEF Of
  <2> QED
    BY <1>1, <1>2, <1>4, <2>1
<1> QED
  BY <1>3, <1>4

(* The first task that is not submitted yet.                               *)
LEMMA FirstNews ==
  ASSUME NEW s \in Source, News(s) # {}
  PROVE  Min(News(s)) \in News(s) /\ \A i \in News(s) : Min(News(s)) <= i
<1>1. News(s) \in SUBSET Nat /\ Submits[s] \in Seq(Task)
  <2>1. Submits[s] \in Seq(Task)
    BY SourcesAssumption
  <2> QED
    BY <2>1, LenProperties DEF News
<1>2. PICK x \in News(s) : \A y \in News(s) : ~(<<y, x>> \in OpToRel(<, Nat))
  BY <1>1, NatLessThanWellFounded, WFMin
<1>3. \A y \in News(s) : x <= y
  <2>1. ASSUME NEW y \in News(s) PROVE ~(y < x)
    BY <1>1, <1>2 DEF OpToRel
  <2> QED
    BY <1>1, <2>1
<1> QED
  BY <1>3 DEF Min

(* q lists new tasks of s, each once, such that what comes before them is  *)
(* submitted.                                                              *)
NextOf(s, q) ==
  /\ q \in Seq(Task) /\ Distinct(q)
  /\ \A t : Member(q, t) => t \in Task /\ SourceOf[t] = s /\ life[t] = "new"
  /\ \A r \in Source : \A i, j \in DOMAIN Submits[r] :
       i < j /\ (life[Submits[r][j]] # "new" \/ Member(q, Submits[r][j]))
       => life[Submits[r][i]] # "new" \/ Member(q, Submits[r][i])

(* The next k lines of a source.                                           *)
LEMMA NextLines ==
  ASSUME Shapes, Submitted, NEW s \in Source, NEW k \in 0 .. Len(Unsent(s)),
         NEW q, q = SubSeq(Unsent(s), 1, k)
  PROVE  NextOf(s, q) /\ Len(q) = k
<1> DEFINE u == Unsent(s)
           z == Submits[s]
           m == Min(News(s))
<1>1. z \in Seq(Task) /\ Len(z) \in Nat /\ DOMAIN z = 1 .. Len(z)
      /\ \A i \in 1 .. Len(z) : z[i] \in Task /\ SourceOf[z[i]] = s
  <2>1. z \in Seq(Task)
    BY SourcesAssumption
  <2>2. Len(z) \in Nat /\ DOMAIN z = 1 .. Len(z) /\ \A i \in 1 .. Len(z) : z[i] \in Task
    BY <2>1, LenProperties, ElementOfSeq
  <2> QED
    BY <2>1, <2>2, SourcesAssumption
<1>2. CASE News(s) = {}
  <2>1. u = <<>> /\ k = 0
    BY <1>2 DEF Unsent
  <2>2. q = <<>>
    BY <2>1, SubSeqEmpty
  <2> QED
    BY <2>1, <2>2 DEF NextOf, Distinct, Member, Submitted
<1>3. CASE News(s) # {}
  <2>1. /\ m \in 1 .. Len(z) /\ life[z[m]] = "new"
        /\ \A j \in 1 .. Len(z) : life[z[j]] = "new" => m <= j
    BY <1>1, <1>3, FirstNews DEF News
  <2>2. u = SubSeq(z, m, Len(z))
    BY <1>3 DEF Unsent
  <2> HIDE DEF u, z, m
  <2>3. Len(u) = Len(z) - m + 1 /\ \A i \in 1 .. Len(u) : u[i] = z[m + i - 1]
    BY <1>1, <2>1, <2>2, SubSeqProperties
  <2>4. k \in 0 .. Len(u) /\ q = SubSeq(u, 1, k)
    BY DEF u
  <2>5. k \in Nat /\ \A i \in 1 .. k : u[i] = z[m + i - 1] /\ m + i - 1 \in 1 .. Len(z)
    BY <1>1, <2>1, <2>3, <2>4
  <2>6. \A i \in 1 .. k : u[i] \in Task
    BY <1>1, <2>5
  <2>7. q \in Seq(Task) /\ Len(q) = k /\ \A i \in 1 .. k : q[i] = u[i]
    <3>1. /\ SubSeq(u, 1, k) \in Seq(Task)
          /\ Len(SubSeq(u, 1, k)) = IF 1 <= k THEN k - 1 + 1 ELSE 0
          /\ \A i \in 1 .. k - 1 + 1 : SubSeq(u, 1, k)[i] = u[1 + i - 1]
      <4>1. 1 \in Int /\ k \in Int
        BY <2>5
      <4> QED
        BY ONLY <2>6, <4>1, SubSeqProperties
    <3>2. k \in Nat /\ k - 1 + 1 = k /\ \A i \in 1 .. k : 1 + i - 1 = i
      BY <2>5
    <3>3. /\ q \in Seq(Task) /\ Len(q) = IF 1 <= k THEN k - 1 + 1 ELSE 0
          /\ \A i \in 1 .. k - 1 + 1 : q[i] = u[1 + i - 1]
      BY ONLY <2>4, <3>1
    <3> QED
      BY ONLY <3>2, <3>3
  <2>8. DOMAIN q = 1 .. k /\ \A i \in 1 .. k : q[i] = z[m + i - 1]
    BY <2>5, <2>7
  <2>9. \A j \in 1 .. Len(z) : m <= j => life[z[j]] = "new"
    BY <1>1, <2>1 DEF Submitted, z
  <2>10. \A i, j \in DOMAIN z : z[i] = z[j] => i = j
    BY SourcesAssumption DEF z
  <2>11. Distinct(q)
    <3>1. ASSUME NEW i \in 1 .. k, NEW j \in 1 .. k, q[i] = q[j]
          PROVE  i = j
      <4>1. z[m + i - 1] = z[m + j - 1] /\ m + i - 1 \in DOMAIN z /\ m + j - 1 \in DOMAIN z
        BY <1>1, <2>5, <2>8, <3>1
      <4>2. m + i - 1 = m + j - 1
        BY <2>10, <4>1
      <4> QED
        BY <1>1, <2>1, <4>2
    <3> QED
      BY <2>8, <3>1 DEF Distinct
  <2>12. \A t : Member(q, t) => t \in Task /\ SourceOf[t] = s /\ life[t] = "new"
    BY <1>1, <2>1, <2>5, <2>8, <2>9, SMTT(60) DEF Member
  <2>13. \A j \in 1 .. Len(z) : m <= j /\ j < m + k <=> Member(q, z[j])
    <3>1. ASSUME NEW j \in 1 .. Len(z), m <= j, j < m + k
          PROVE  Member(q, z[j])
      <4>1. j - m + 1 \in 1 .. k /\ m + (j - m + 1) - 1 = j
        BY <1>1, <2>1, <2>5, <3>1
      <4>2. q[j - m + 1] = z[j]
        BY <2>8, <4>1
      <4> QED
        BY <2>8, <4>1, <4>2 DEF Member
    <3>2. ASSUME NEW j \in 1 .. Len(z), Member(q, z[j])
          PROVE  m <= j /\ j < m + k
      <4>1. PICK i \in 1 .. k : z[m + i - 1] = z[j]
        BY <2>8, <3>2 DEF Member
      <4>2. m + i - 1 = j
        BY <1>1, <2>5, <2>10, <4>1
      <4> QED
        BY <2>1, <2>5, <4>2
    <3> QED
      BY <3>1, <3>2
  <2>14. ASSUME NEW r \in Source, NEW i \in DOMAIN Submits[r], NEW j \in DOMAIN Submits[r],
                i < j, life[Submits[r][j]] # "new" \/ Member(q, Submits[r][j])
         PROVE  life[Submits[r][i]] # "new" \/ Member(q, Submits[r][i])
    <3>1. CASE life[Submits[r][j]] # "new"
      BY <2>14, <3>1 DEF Submitted
    <3>2. CASE Member(q, Submits[r][j])
      <4>1. SourceOf[Submits[r][j]] = s /\ Submits[r][j] \in Task
        BY <2>12, <3>2
      <4>2. r = s
        BY <4>1, SourcesAssumption
      <4>3. i \in 1 .. Len(z) /\ j \in 1 .. Len(z) /\ m <= j /\ j < m + k
        BY <1>1, <2>13, <3>2, <4>2 DEF z
      <4>4. CASE m <= i
        BY <2>1, <2>5, <2>13, <2>14, <4>2, <4>3, <4>4 DEF z
      <4>5. CASE ~(m <= i)
        BY <2>1, <4>2, <4>3, <4>5 DEF z
      <4> QED
        BY <4>4, <4>5
    <3> QED
      BY <2>14, <3>1, <3>2
  <2> QED
    BY <2>7, <2>11, <2>12, <2>14 DEF NextOf
<1> QED
  BY <1>2, <1>3

-----------------------------------------------------------------------------
(* Steps that take nothing on and end nothing.                             *)

(* Nothing changes but lists of sources, clients and the phase, and what   *)
(* is at hand unless it is a PROBE command.                                *)
Calm ==
  /\ UNCHANGED <<life, uses, installed, onhold, done_queue, freeing>>
  /\ client' \in [Source -> Clients] /\ pc' \in Phases /\ fault' \in Faults
  /\ \A s \in Source : client'[s] = "none" => client[s] = "none"
  /\ (src' = src /\ cmd' = cmd) \/ (cmd' = NoCmd /\ cmd.type # "probe")
  /\ pc' \notin {"take", "handle"} => cmd' = NoCmd

(* No source gains or loses a task, and none lives or ends.                *)
LEMMA ListedSame ==
  ASSUME Listed, \A s \in Source : source'[s].tasks = source[s].tasks,
         \A t \in Task : life'[t] = "alive" <=> life[t] = "alive"
  PROVE  Listed'
<1> SUFFICES ASSUME NEW s \in Source, NEW t \in Task
             PROVE  Count(source'[s].tasks, {t})
                    = IF SourceOf[t] = s /\ life'[t] = "alive" THEN 1 ELSE 0
  BY DEF Listed
<1>1. Count(source[s].tasks, {t}) = IF SourceOf[t] = s /\ life[t] = "alive" THEN 1 ELSE 0
  BY DEF Listed
<1>2. Count(source'[s].tasks, {t}) = Count(source[s].tasks, {t})
  OBVIOUS
<1> QED
  BY <1>1, <1>2

(* The counts of what waits are natural numbers; no command is at hand     *)
(* under its name when none is.                                            *)
LEMMA HandType ==
  /\ \A s, c : Hand(s, c) \in {0, 1}
  /\ \A s, t : cmd = NoCmd => Hand(s, ProbeCmd(t)) = 0 /\ Hand(s, TaskCmd(t)) = 0
  BY DEF Hand, NoCmd, ProbeCmd, TaskCmd

LEMMA WaitingType ==
  ASSUME Shapes, NEW s \in Source, NEW c
  PROVE  /\ Waiting(s, c) \in Nat /\ Count(source[s].commands, {c}) \in Nat
         /\ Waiting(s, c) = 0 => Count(source[s].commands, {c}) = 0 /\ Hand(s, c) = 0
<1>1. source[s] \in Shape
  BY DEF Shapes
<1>2. Count(source[s].commands, {c}) \in Nat
  BY <1>1, Countable
<1>3. Hand(s, c) \in {0, 1}
  BY HandType
<1> QED
  BY <1>2, <1>3 DEF Waiting

(* Where no more waits than before, it still waits where it should.        *)
LEMMA WaitingLess ==
  ASSUME Shapes, Probing, Tasking, UNCHANGED life,
         \A s \in Source, t \in Task : \A c \in {ProbeCmd(t), TaskCmd(t)} :
           Waiting(s, c)' <= Waiting(s, c) /\ Waiting(s, c)' \in Nat
  PROVE  Probing' /\ Tasking'
<1>1. Probing'
  <2> SUFFICES ASSUME NEW s \in Source, NEW t \in Task
               PROVE  Waiting(s, ProbeCmd(t))' <= IF SourceOf[t] = s /\ life'[t] = "line" THEN 1 ELSE 0
    BY DEF Probing
  <2>1. Waiting(s, ProbeCmd(t)) <= IF SourceOf[t] = s /\ life'[t] = "line" THEN 1 ELSE 0
    BY DEF Probing
  <2>2. Waiting(s, ProbeCmd(t)) \in Nat
    BY WaitingType
  <2>3. Waiting(s, ProbeCmd(t))' <= Waiting(s, ProbeCmd(t)) /\ Waiting(s, ProbeCmd(t))' \in Nat
    OBVIOUS
  <2> QED
    BY <2>1, <2>2, <2>3
<1>2. Tasking'
  <2> SUFFICES ASSUME NEW s \in Source, NEW t \in Task, SourceOf[t] # s \/ life'[t] \in Early
               PROVE  Waiting(s, TaskCmd(t))' = 0
    BY DEF Tasking
  <2>1. Waiting(s, TaskCmd(t)) = 0
    BY DEF Tasking
  <2>2. Waiting(s, TaskCmd(t))' <= 0 /\ Waiting(s, TaskCmd(t))' \in Nat
    BY <2>1
  <2> QED
    BY <2>2
<1> QED
  BY <1>1, <1>2

(* A calm step keeps the lists, but for commands dropped.                  *)
LEMMA CalmOrdered ==
  ASSUME Shapes, Ordered, Calm,
         \A s \in Source : source'[s].commands = source[s].commands \/ source'[s].commands = <<>>
  PROVE  Ordered'
<1>1. ASSUME NEW s \in Source, NEW t \in Task, NEW c \in {ProbeCmd(t), TaskCmd(t)}
      PROVE  Waiting(s, c)' <= Waiting(s, c) /\ Waiting(s, c)' \in Nat
  <2>1. Count(source[s].commands, {c}) \in Nat /\ Count(<<>>, {c}) = 0
    BY WaitingType, CountEmpty
  <2>2. Count(source'[s].commands, {c}) \in {Count(source[s].commands, {c}), 0}
    BY <2>1
  <2>3. Hand(s, c)' = Hand(s, c) \/ Hand(s, c)' = 0
    BY DEF Calm, Hand, NoCmd, ProbeCmd, TaskCmd
  <2>4. Hand(s, c) \in {0, 1}
    BY HandType
  <2> QED
    BY <2>1, <2>2, <2>3, <2>4 DEF Waiting
<1>2. Probing' /\ Tasking'
  BY <1>1, WaitingLess DEF Ordered, Calm
<1>3. HeldLate'
  BY DEF Ordered, HeldLate, Calm
<1>4. HandEmpty'
  BY DEF HandEmpty, Calm
<1> QED
  BY <1>2, <1>3, <1>4 DEF Ordered

(* A calm step keeps the accounts if it keeps every source balanced.       *)
LEMMA CalmKept ==
  ASSUME Accounts, Calm, source' \in [Source -> Shape],
         \A s \in Source : Kept(source[s], source'[s]) /\ Balanced(source'[s], Refs(s)', Uses(s))
  PROVE  Accounts'
<1>1. Shapes'
  <2>1. cmd' \in Commands
    BY DEF Accounts, Shapes, Calm, NoCmd, Commands
  <2> QED
    BY <2>1 DEF Accounts, Shapes, Calm
<1>2. Living'
  <2>1. \A s \in Source : source'[s].tasks = source[s].tasks
    BY DEF Kept
  <2>2. Listed'
    BY <2>1, ListedSame DEF Accounts, Living, Calm
  <2>3. Alive' /\ Blocking'
    BY DEF Accounts, Living, Alive, Blocking, Calm
  <2>4. DoneOnce'
    BY DEF Accounts, Living, DoneOnce, Calm
  <2> QED
    BY <2>2, <2>3, <2>4 DEF Living
<1>3. Ordered'
  BY CalmOrdered DEF Accounts, Kept
<1>4. Submitted'
  <2>1. \A t \in Task : SourceOf[t] \in Source
    BY SourcesAssumption
  <2>2. life' = life
    BY DEF Calm
  <2>3. \A t \in Task : client'[SourceOf[t]] = "none" => client[SourceOf[t]] = "none"
    BY <2>1 DEF Calm
  <2> QED
    BY <2>2, <2>3 DEF Accounts, Submitted
<1>5. \A s \in Source : Uses(s)' = Uses(s)
  BY DEF Uses, Of, Calm, NoCmd
<1>6. Ledger'
  BY <1>5 DEF Ledger
<1> QED
  BY <1>1, <1>2, <1>3, <1>4, <1>6 DEF Accounts

LEMMA UsesType ==
  ASSUME Accounts, NEW s \in Source
  PROVE  /\ Uses(s) \in Nat /\ Refs(s) \in Nat /\ Refs(s) \in {0, 1}
         /\ source[s] \in Shape /\ Balanced(source[s], Refs(s), Uses(s))
<1>1. Cardinality(Of(uses, s)) \in Nat
  BY OfAdd DEF Accounts, Shapes
<1> QED
  BY <1>1, FlagType DEF Uses, Refs, Accounts, Shapes, Ledger

(* One source changes, or its client.                                      *)
LEMMA CalmOne ==
  ASSUME Accounts, Calm, NEW s \in Source, NEW T, source' = [source EXCEPT ![s] = T],
         Kept(source[s], T), Balanced(T, Refs(s)', Uses(s)),
         \A r \in Source \ {s} : client'[r] = client[r]
  PROVE  Accounts'
<1>1. source \in [Source -> Shape] /\ T \in Shape
  BY DEF Accounts, Shapes, Kept
<1>2. source' \in [Source -> Shape] /\ source'[s] = T /\ \A r \in Source \ {s} : source'[r] = source[r]
  BY <1>1
<1>3. \A r \in Source \ {s} : Refs(r)' = Refs(r)
  BY DEF Refs
<1>4. ASSUME NEW r \in Source
      PROVE  Kept(source[r], source'[r]) /\ Balanced(source'[r], Refs(r)', Uses(r))
  <2>1. CASE r = s
    BY <1>2, <2>1
  <2>2. CASE r # s
    BY <1>1, <1>2, <1>3, <2>2 DEF Accounts, Ledger, Kept
  <2> QED
    BY <2>1, <2>2
<1> QED
  BY <1>2, <1>4, CalmKept

(* No source changes.                                                      *)
LEMMA CalmNone ==
  ASSUME Accounts, Calm, UNCHANGED <<source, client>>
  PROVE  Accounts'
<1>1. \A s \in Source : Refs(s)' = Refs(s)
  BY DEF Refs
<1>2. source' \in [Source -> Shape]
  BY DEF Accounts, Shapes
<1>3. \A s \in Source : Kept(source[s], source'[s]) /\ Balanced(source'[s], Refs(s)', Uses(s))
  BY <1>1, <1>2 DEF Accounts, Ledger, Kept
<1> QED
  BY <1>2, <1>3, CalmKept

(* scamper_source_finished, of a source that reads no more                 *)
LEMMA EndKept ==
  ASSUME NEW S \in Shape
  PROVE  LET E == [S EXCEPT !.eof = TRUE] IN
         /\ Kept(S, E) /\ Kept(S, Unuse(E))
         /\ E.commands = S.commands /\ Unuse(E).commands = S.commands
         /\ \A c, u \in Nat : Balanced(S, c, u) => Balanced(E, c, u) /\ Balanced(Unuse(E), c, u)
<1> DEFINE E == [S EXCEPT !.eof = TRUE]
<1>1. E \in Shape /\ E.eof = TRUE /\ E.tasks = S.tasks /\ E.commands = S.commands
      /\ E.refcnt = S.refcnt /\ E.cm = S.cm /\ E.tree = S.tree /\ E.cyclemon = S.cyclemon
  BY DEF Shape
<1> HIDE DEF E
<1>2. \A c, u \in Nat : Balanced(S, c, u) => Balanced(E, c, u)
  BY <1>1 DEF Balanced
<1>3. /\ Kept(E, Unuse(E)) /\ Unuse(E).commands = E.commands
      /\ \A c, u \in Nat : Balanced(E, c, u) => Balanced(Unuse(E), c, u)
  BY <1>1, UnuseKept
<1> QED
  BY <1>1, <1>2, <1>3 DEF Kept, E

(* A client's word that it is done, or the end of standard input.          *)
LEMMA EndAccounts ==
  ASSUME Accounts, NEW s \in Source, ClientDone(s) \/ ReadEnd(s)
  PROVE  Accounts'
<1> DEFINE E == [source[s] EXCEPT !.eof = TRUE]
<1>1. PICK T \in {E, Unuse(E)} : source' = [source EXCEPT ![s] = T]
  BY DEF ClientDone, ReadEnd, Finished
<1>2. source[s] \in Shape /\ Uses(s) \in Nat /\ Refs(s) \in Nat
      /\ Balanced(source[s], Refs(s), Uses(s))
  BY UsesType
<1>3. Kept(source[s], T) /\ Balanced(T, Refs(s), Uses(s))
  BY <1>1, <1>2, EndKept
<1>4. client' = client /\ Calm
  <2>1. UNCHANGED <<client, works, scans, freeing>>
    BY DEF ClientDone, ReadEnd, loops
  <2>2. fault' \in Faults
    BY DEF ClientDone, ReadEnd, Accounts, Shapes, Faults
  <2> QED
    BY <2>1, <2>2 DEF Calm, works, scans, Accounts, Shapes, Ordered, HandEmpty
<1>5. Refs(s)' = Refs(s)
  BY <1>4 DEF Refs
<1> HIDE DEF E
<1> QED
  BY <1>1, <1>3, <1>4, <1>5, CalmOne

(* The client goes; its reference stays for now.                           *)
LEMMA CloseAccounts ==
  ASSUME Accounts, NEW s \in Source, NEW fin \in BOOLEAN, ClientClose(s, fin)
  PROVE  Accounts'
<1> DEFINE E == [source[s] EXCEPT !.eof = TRUE]
           b == source[s].eof \/ (fin /\ source[s].open)
<1>1. source[s] \in Shape /\ Uses(s) \in Nat /\ Refs(s) \in Nat
      /\ Balanced(source[s], Refs(s), Uses(s))
  BY UsesType
<1>2. source' \in {[source EXCEPT ![s] = [source[s] EXCEPT !.eof = b]],
                   [source EXCEPT ![s] = Unuse([source[s] EXCEPT !.eof = b])]}
      /\ (~b => source' = [source EXCEPT ![s] = [source[s] EXCEPT !.eof = b]])
  <2>1. [source[s] EXCEPT !.eof = b].eof = b
    BY <1>1 DEF Shape
  <2> HIDE DEF b
  <2> QED
    BY <2>1 DEF ClientClose, Finished, b
<1>3. PICK T \in {source[s], E, Unuse(E)} : source' = [source EXCEPT ![s] = T]
  <2>1. CASE b
    <3>1. [source[s] EXCEPT !.eof = b] = E
      BY <2>1
    <3> HIDE DEF b, E
    <3> QED
      BY <1>2, <3>1
  <2>2. CASE ~b
    <3>1. source[s].eof = FALSE /\ b = FALSE
      BY <1>1, <2>2 DEF Shape
    <3>2. [source[s] EXCEPT !.eof = FALSE] = source[s]
      BY <1>1, <3>1 DEF Shape
    <3> HIDE DEF b, E
    <3> QED
      BY <1>2, <2>2, <3>1, <3>2
  <2> QED
    BY <2>1, <2>2
<1>4. Kept(source[s], T) /\ Balanced(T, Refs(s), Uses(s))
  BY <1>1, <1>3, EndKept DEF Kept
<1> HIDE DEF E, b
<1>5. client[s] = "attached" /\ client' = [client EXCEPT ![s] = "flush"]
      /\ UNCHANGED <<works, scans, freeing, fault>>
  BY DEF ClientClose
<1>6. Calm /\ \A r \in Source \ {s} : client'[r] = client[r]
  BY <1>5 DEF Calm, works, scans, Accounts, Shapes, Ordered, HandEmpty, Clients
<1>7. Refs(s)' = Refs(s)
  BY <1>5 DEF Refs, Accounts, Shapes
<1> QED
  BY <1>3, <1>4, <1>6, <1>7, CalmOne

(* client_free gives the client's reference back.                          *)
LEMMA ClientFreeAccounts ==
  ASSUME Accounts, NEW s \in Source, ClientFree(s)
  PROVE  Accounts'
<1>1. source[s] \in Shape /\ Uses(s) \in Nat /\ Balanced(source[s], Refs(s), Uses(s))
  BY UsesType
<1>2. client[s] = "flush" /\ client' = [client EXCEPT ![s] = "gone"]
      /\ source' = [source EXCEPT ![s] = Unref(source[s])]
      /\ UNCHANGED <<works, scans, loops, fault>>
  BY DEF ClientFree, Accounts, Shapes
<1>3. Calm /\ \A r \in Source \ {s} : client'[r] = client[r]
  BY <1>2 DEF Calm, works, scans, loops, Accounts, Shapes, Ordered, HandEmpty, Clients
<1>4. Refs(s) = 0 + 1 /\ Refs(s)' = 0
  BY <1>2 DEF Refs, Flag, Accounts, Shapes
<1>5. Kept(source[s], Unref(source[s])) /\ Balanced(Unref(source[s]), 0, Uses(s))
  BY <1>1, <1>4, UnrefKept
<1> QED
  BY <1>2, <1>3, <1>4, <1>5, CalmOne

(* The loops over finished and abandoned sources, and gettask's when it    *)
(* finds no command.                                                       *)
LEMMA DetachAccounts ==
  ASSUME Accounts, Scope,
         AbandonEnd \/ Exhausted \/ \E s \in Source : DetachFinished(s)
  PROVE  Accounts'
<1>1. PICK s \in Source :
        \E T \in {source[s], Detach(source[s]), Detach(FlushCommands(source[s]))} :
          source' = [source EXCEPT ![s] = T]
  <2>1. CASE AbandonEnd
    BY <2>1 DEF AbandonEnd, Scope
  <2>2. CASE Exhausted
    <3>1. src \in Source
      BY <2>2 DEF Exhausted, Scope
    <3>2. CASE source' = source
      <4>1. source' = [source EXCEPT ![src] = source[src]]
        BY <3>2 DEF Accounts, Shapes
      <4> QED
        BY <3>1, <4>1
    <3>3. CASE source' # source
      BY <2>2, <3>1, <3>3 DEF Exhausted
    <3> QED
      BY <3>2, <3>3
  <2>3. CASE \E s \in Source : DetachFinished(s)
    BY <2>3 DEF DetachFinished
  <2> QED
    BY <2>1, <2>2, <2>3
<1>2. PICK T \in {source[s], Detach(source[s]), Detach(FlushCommands(source[s]))} :
        source' = [source EXCEPT ![s] = T]
  BY <1>1
<1>3. source[s] \in Shape /\ Uses(s) \in Nat /\ Refs(s) \in Nat
      /\ Balanced(source[s], Refs(s), Uses(s))
  BY UsesType
<1>4. /\ Kept(source[s], FlushCommands(source[s]))
      /\ Balanced(FlushCommands(source[s]), Refs(s), Uses(s))
  BY <1>3, FlushKept
<1>5. Kept(source[s], T) /\ Balanced(T, Refs(s), Uses(s))
  BY <1>2, <1>3, <1>4, DetachKept DEF Kept
<1>6. client' = client /\ Calm
  <2>1. CASE AbandonEnd \/ \E r \in Source : DetachFinished(r)
    <3>1. UNCHANGED <<client, works, scans, freeing, fault>>
      BY <2>1 DEF AbandonEnd, DetachFinished, loops
    <3> QED
      BY <3>1 DEF Calm, works, scans, Accounts, Shapes, Ordered, HandEmpty
  <2>2. CASE Exhausted
    <3>1. UNCHANGED <<client, works, cmd, loops, fault>> /\ pc' \in {"done", "scan"} /\ pc = "scan"
      BY <2>2 DEF Exhausted, Serve
    <3>2. cmd = NoCmd /\ NoCmd.type # "probe"
      BY <3>1 DEF Accounts, Ordered, HandEmpty, NoCmd
    <3> QED
      BY <3>1, <3>2 DEF Calm, works, loops, Accounts, Shapes, Phases
  <2> QED
    BY <2>1, <2>2
<1>7. Refs(s)' = Refs(s)
  BY <1>6 DEF Refs
<1> QED
  BY <1>2, <1>5, <1>6, <1>7, CalmOne

(* The phases of main's loop, and what gettask does to no source.          *)
LEMMA PhaseAccounts ==
  ASSUME Accounts, GetTask \/ EndPoll \/ EndProbe \/ EndDone
                   \/ StartScan \/ TakeNone \/ HandleCycle
  PROVE  Accounts'
<1>1. UNCHANGED <<source, client>>
  BY DEF GetTask, EndPoll, EndProbe, EndDone, Phase, StartScan, Serve, TakeNone, HandleCycle
<1>2. UNCHANGED <<works, freeing, fault>>
  BY DEF GetTask, EndPoll, EndProbe, EndDone, Phase, StartScan, Serve, TakeNone, HandleCycle, loops
<1>3. pc' \in Phases
  BY DEF GetTask, EndPoll, EndProbe, EndDone, Phase, StartScan, Serve, TakeNone, HandleCycle, Phases
<1>4. /\ (src' = src /\ cmd' = cmd) \/ (cmd' = NoCmd /\ cmd.type # "probe")
      /\ pc' \notin {"take", "handle"} => cmd' = NoCmd
  <2>1. CASE GetTask \/ EndPoll \/ EndProbe \/ EndDone \/ TakeNone
    BY <2>1 DEF GetTask, EndPoll, EndProbe, EndDone, Phase, TakeNone, Accounts, Ordered, HandEmpty
  <2>2. CASE StartScan
    BY <2>2 DEF StartScan, Serve, Accounts, Ordered, HandEmpty, NoCmd
  <2>3. CASE HandleCycle
    BY <2>3 DEF HandleCycle, NoCmd
  <2> QED
    BY <2>1, <2>2, <2>3
<1>5. Calm
  BY <1>1, <1>2, <1>3, <1>4 DEF Calm, works, Accounts, Shapes
<1> QED
  BY <1>1, <1>5, CalmNone

-----------------------------------------------------------------------------
(* Steps that take tasks on, end them, or move them on.                    *)

(* The account of a source that changes.                                   *)
LEMMA LedgerOne ==
  ASSUME Accounts, NEW s \in Source, NEW T \in Shape, source' = [source EXCEPT ![s] = T],
         Balanced(T, Refs(s)', Uses(s)'),
         \A r \in Source \ {s} : Refs(r)' = Refs(r) /\ Uses(r)' = Uses(r)
  PROVE  /\ source' \in [Source -> Shape] /\ source'[s] = T /\ Ledger'
         /\ \A r \in Source \ {s} : source'[r] = source[r]
<1>1. source \in [Source -> Shape]
  BY DEF Accounts, Shapes
<1>2. /\ source' \in [Source -> Shape] /\ source'[s] = T
      /\ \A r \in Source \ {s} : source'[r] = source[r]
  BY <1>1
<1>3. ASSUME NEW r \in Source
      PROVE  Balanced(source'[r], Refs(r)', Uses(r)')
  <2>1. CASE r = s
    BY <1>2, <2>1
  <2>2. CASE r # s
    BY <1>2, <2>2 DEF Accounts, Ledger
  <2> QED
    BY <2>1, <2>2
<1> QED
  BY <1>2, <1>3 DEF Ledger

(* A task is done, or about to be freed.                                   *)
LEMMA DoneAccounts ==
  ASSUME Accounts, Scope, NEW t \in Task, TaskDone(t) \/ AbandonTask(t) \/ ProcessDone(t)
  PROVE  Accounts'
<1>1. UNCHANGED <<source, client, life, uses, onhold, installed, scans, fault>>
  BY DEF TaskDone, AbandonTask, ProcessDone, loops
<1>2. done_queue \in Seq(Task) /\ Alive /\ DoneOnce /\ Listed
  BY DEF Accounts, Shapes, Living
<1>3. \A u \in Task : Count(done_queue, {u}) \in Nat
  BY <1>2, CountType
<1>4. done_queue' \in Seq(Task) /\ DoneOnce'
  <2>1. CASE TaskDone(t)
    <3>1. done_queue' = Append(done_queue, t) /\ freeing' = freeing /\ freeing = NoTask
          /\ t \in installed /\ Places(done_queue, t) = {}
      BY <2>1 DEF TaskDone, Idle, loops
    <3>2. Count(done_queue, {t}) = 0 /\ life[t] = "alive"
      BY <1>2, <3>1, WithoutCount DEF Alive
    <3>3. \A u \in Task :
            /\ t = u => Count(done_queue', {u}) = Count(done_queue, {u}) + 1
            /\ t # u => Count(done_queue', {u}) = Count(done_queue, {u})
      <4>1. done_queue \in Seq(Task)
        BY <1>2
      <4>2. \A u \in Task :
              /\ t = u => Count(Append(done_queue, t), {u}) = Count(done_queue, {u}) + 1
              /\ t # u => Count(Append(done_queue, t), {u}) = Count(done_queue, {u})
        BY ONLY <4>1, t \in Task, OneMore
      <4>3. done_queue' = Append(done_queue, t)
        BY <3>1
      <4> QED
        BY ONLY <4>2, <4>3
    <3>4. DoneOnce'
      <4> SUFFICES ASSUME NEW u \in Task
                   PROVE  Count(done_queue', {u}) + (IF freeing' = u THEN 1 ELSE 0)
                          <= IF life'[u] = "alive" THEN 1 ELSE 0
        BY DEF DoneOnce
      <4>1. Count(done_queue, {u}) + (IF freeing = u THEN 1 ELSE 0)
            <= IF life[u] = "alive" THEN 1 ELSE 0
        BY <1>2 DEF DoneOnce
      <4>2. freeing # u /\ freeing' # u /\ life' = life
        BY <1>1, <3>1, SourcesAssumption
      <4>3. CASE u = t
        BY <1>3, <3>2, <3>3, <4>2, <4>3
      <4>4. CASE u # t
        BY <1>3, <3>3, <4>1, <4>2, <4>4
      <4> QED
        BY <4>3, <4>4
    <3> QED
      BY <1>2, <3>1, <3>4
  <2>2. CASE AbandonTask(t)
    <3>1. /\ abandoning # NoSource /\ freeing = NoTask /\ freeing' = t
          /\ source[abandoning].tasks # <<>> /\ t = Head(source[abandoning].tasks)
          /\ done_queue' = Without(done_queue, t)
      BY <2>2 DEF AbandonTask
    <3>2. abandoning \in Source
      BY <3>1 DEF Scope
    <3>3. life[t] = "alive"
      <4>1. source[abandoning].tasks \in Seq(Task)
        BY <3>2 DEF Accounts, Shapes, Shape
      <4>2. source[abandoning].tasks[1] = t /\ 1 \in DOMAIN source[abandoning].tasks
        BY <3>1, <4>1
      <4>3. Count(source[abandoning].tasks, {t}) # 0
        BY <4>1, <4>2, CountType
      <4> QED
        BY <1>2, <3>2, <4>3 DEF Listed
    <3>4. done_queue' \in Seq(Task)
      BY <1>2, <3>1, WithoutSeq
    <3>5. DoneOnce'
      <4> SUFFICES ASSUME NEW u \in Task
                   PROVE  Count(done_queue', {u}) + (IF freeing' = u THEN 1 ELSE 0)
                          <= IF life'[u] = "alive" THEN 1 ELSE 0
        BY DEF DoneOnce
      <4>1. Count(done_queue, {u}) + (IF freeing = u THEN 1 ELSE 0)
            <= IF life[u] = "alive" THEN 1 ELSE 0
        BY <1>2 DEF DoneOnce
      <4>2. CASE u = t
        <5>1. /\ Count(done_queue, {t}) # 0
                => Count(Without(done_queue, t), {t}) = Count(done_queue, {t}) - 1
              /\ Count(done_queue, {t}) = 0
                => Count(Without(done_queue, t), {t}) = Count(done_queue, {t})
          BY <1>2, WithoutOne
        <5> QED
          BY <1>1, <1>3, <3>1, <3>3, <4>1, <4>2, <5>1
      <4>3. CASE u # t
        <5>1. Count(Without(done_queue, t), {u}) = Count(done_queue, {u})
          BY <1>2, <4>3, WithoutOne
        <5> QED
          BY <1>1, <1>3, <3>1, <4>1, <4>3, <5>1, SourcesAssumption
      <4> QED
        BY <4>2, <4>3
    <3> QED
      BY <3>4, <3>5
  <2>3. CASE ProcessDone(t)
    <3>1. /\ freeing = NoTask /\ freeing' = t /\ done_queue # <<>> /\ t = Head(done_queue)
          /\ done_queue' = Tail(done_queue)
      BY <2>3 DEF ProcessDone, Idle
    <3>2. done_queue' \in Seq(Task)
      BY <1>2, <3>1, CountEnds
    <3>3. \A u \in Task :
            /\ t = u => Count(done_queue', {u}) = Count(done_queue, {u}) - 1
            /\ t # u => Count(done_queue', {u}) = Count(done_queue, {u})
      BY <1>2, <3>1, OneFirst
    <3>4. DoneOnce'
      <4> SUFFICES ASSUME NEW u \in Task
                   PROVE  Count(done_queue', {u}) + (IF freeing' = u THEN 1 ELSE 0)
                          <= IF life'[u] = "alive" THEN 1 ELSE 0
        BY DEF DoneOnce
      <4>1. Count(done_queue, {u}) + (IF freeing = u THEN 1 ELSE 0)
            <= IF life[u] = "alive" THEN 1 ELSE 0
        BY <1>2 DEF DoneOnce
      <4>2. freeing # u
        BY <3>1, SourcesAssumption
      <4> QED
        BY <1>1, <1>3, <3>1, <3>3, <4>1, <4>2
    <3> QED
      BY <3>2, <3>4
  <2> QED
    BY <2>1, <2>2, <2>3
<1>5. Shapes'
  BY <1>1, <1>4 DEF Accounts, Shapes, scans
<1>6. Living'
  BY <1>1, <1>4 DEF Accounts, Living, Listed, Alive, Blocking
<1>7. Ordered' /\ Submitted'
  BY <1>1 DEF Accounts, Ordered, Probing, Tasking, HeldLate, HandEmpty, Waiting, Hand,
              Submitted, scans
<1>8. Ledger'
  BY <1>1 DEF Accounts, Ledger, Refs, Uses, Of, scans
<1> QED
  BY <1>5, <1>6, <1>7, <1>8 DEF Accounts


(* A crash ends the run and changes nothing else.                          *)
LEMMA CrashAccounts ==
  ASSUME Accounts, NEW what \in Faults, Crash(what)
  PROVE  Accounts'
<1>1. Calm /\ UNCHANGED <<source, client>>
  BY DEF Crash, Calm, works, scans, loops, Accounts, Shapes, Ordered, HandEmpty
<1> QED
  BY <1>1, CalmNone

(* A task is halted: it is done, and its command is removed.               *)
LEMMA HaltAccounts ==
  ASSUME Accounts, NEW s \in Source, NEW t \in Task, HaltTask(s, t)
  PROVE  Accounts'
<1>1. CASE ~source[s].open
  BY <1>1, CrashAccounts DEF HaltTask, Faults
<1>2. CASE source[s].open
  <2> DEFINE S == source[s]
             T == [S EXCEPT !.commands = Without(@, TaskCmd(t))]
             q == Without(done_queue, t)
  <2>1. /\ UNCHANGED <<client, life, uses, onhold, installed, scans, freeing, fault>>
        /\ done_queue' = Append(q, t) /\ freeing = NoTask /\ life[t] = "alive"
    BY <1>2 DEF HaltTask, Polling, Idle, loops
  <2>2. source' = [source EXCEPT ![s] = T]
    BY <1>2 DEF HaltTask, Accounts, Shapes
  <2>3. S \in Shape /\ Uses(s) \in Nat /\ Refs(s) \in Nat /\ Balanced(S, Refs(s), Uses(s))
    BY UsesType
  <2>4. /\ T \in Shape /\ T.tasks = S.tasks /\ Balanced(T, Refs(s), Uses(s))
        /\ \A c : Count(T.commands, {c}) <= Count(S.commands, {c})
    BY <2>3, DropKept
  <2> HIDE DEF S, T, q
  <2>5. \A r \in Source : Refs(r)' = Refs(r) /\ Uses(r)' = Uses(r)
    BY <2>1 DEF Refs, Uses, Of, scans
  <2>6. /\ source' \in [Source -> Shape] /\ source'[s] = T /\ Ledger'
        /\ \A r \in Source \ {s} : source'[r] = source[r]
    BY <2>2, <2>4, <2>5, LedgerOne DEF S
  <2>7. done_queue \in Seq(Task) /\ q \in Seq(Task) /\ done_queue' \in Seq(Task)
    <3>1. done_queue \in Seq(Task)
      BY DEF Accounts, Shapes
    <3>2. q \in Seq(Task)
      BY <3>1, WithoutSeq DEF q
    <3> QED
      BY <2>1, <3>1, <3>2
  <2>8. DoneOnce'
    <3> SUFFICES ASSUME NEW u \in Task
                 PROVE  Count(done_queue', {u}) + (IF freeing' = u THEN 1 ELSE 0)
                        <= IF life'[u] = "alive" THEN 1 ELSE 0
      BY DEF DoneOnce
    <3>1. Count(done_queue, {u}) + (IF freeing = u THEN 1 ELSE 0)
          <= IF life[u] = "alive" THEN 1 ELSE 0
      BY DEF Accounts, Living, DoneOnce
    <3>2. freeing # u /\ freeing' # u /\ life' = life
      BY <2>1, SourcesAssumption
    <3>3. Count(done_queue, {u}) \in Nat
      BY <2>7, CountType
    <3>4. /\ t = u => Count(Append(q, t), {u}) = Count(q, {u}) + 1
          /\ t # u => Count(Append(q, t), {u}) = Count(q, {u})
      BY ONLY <2>7, t \in Task, OneMore
    <3>5. /\ t = u /\ Count(done_queue, {u}) # 0 => Count(q, {u}) = Count(done_queue, {u}) - 1
          /\ t # u \/ Count(done_queue, {u}) = 0 => Count(q, {u}) = Count(done_queue, {u})
      BY <2>7, WithoutOne DEF q
    <3>6. CASE u = t
      BY <2>1, <3>1, <3>2, <3>3, <3>4, <3>5, <3>6
    <3>7. CASE u # t
      BY <2>1, <3>1, <3>2, <3>3, <3>4, <3>5, <3>7
    <3> QED
      BY <3>6, <3>7
  <2>9. Shapes'
    BY <2>1, <2>6, <2>7 DEF Accounts, Shapes, scans
  <2>10. \A r \in Source : source'[r].tasks = source[r].tasks
    BY <2>4, <2>6 DEF S
  <2>11. Living'
    BY <2>1, <2>8, <2>10, ListedSame DEF Accounts, Living, Alive, Blocking
  <2>12. ASSUME NEW r \in Source, NEW c
         PROVE  Waiting(r, c)' <= Waiting(r, c) /\ Waiting(r, c)' \in Nat
    <3>1. source'[r] \in Shape /\ source[r] \in Shape
      BY <2>6 DEF Accounts, Shapes
    <3>2. Count(source'[r].commands, {c}) \in Nat /\ Count(source[r].commands, {c}) \in Nat
      BY <3>1, Countable
    <3>3. Count(source'[r].commands, {c}) <= Count(source[r].commands, {c})
      BY <2>4, <2>6, <3>2 DEF S
    <3>4. Hand(r, c)' = Hand(r, c) /\ Hand(r, c) \in {0, 1}
      BY <2>1, HandType DEF Hand, scans
    <3> QED
      BY <3>2, <3>3, <3>4 DEF Waiting
  <2>13. Ordered'
    <3>1. Probing' /\ Tasking'
      BY <2>1, <2>12, WaitingLess DEF Accounts, Ordered
    <3> QED
      BY <2>1, <3>1 DEF Accounts, Ordered, HeldLate, HandEmpty, scans
  <2>14. Submitted'
    BY <2>1 DEF Accounts, Submitted
  <2> QED
    BY <2>6, <2>9, <2>11, <2>13, <2>14 DEF Accounts
<1> QED
  BY <1>1, <1>2

(* gettask takes a command in its hand.                                    *)
LEMMA PopAccounts ==
  ASSUME Accounts, Scope, PopCommand
  PROVE  Accounts'
<1>18. PICK s \in Source : s = src /\ s = src'
  BY DEF PopCommand, Scope
<1> DEFINE S == source[s]
           T == [S EXCEPT !.commands = Tail(@)]
<1>1. src \in Source /\ pc = "scan" /\ cmd = NoCmd
  BY <1>18 DEF PopCommand, Scope, Accounts, Ordered, HandEmpty
<1>2. /\ S.commands # <<>> /\ cmd' = Head(S.commands) /\ pc' = "take"
      /\ UNCHANGED <<client, works, src, freeing, fault>>
  BY <1>18 DEF PopCommand, loops
<1>3. S \in Shape /\ Uses(s) \in Nat /\ Balanced(S, Refs(s), Uses(s))
  BY <1>1, UsesType
<1>4. S.commands \in Seq(Commands)
  BY <1>3 DEF Shape
<1>5. T = [S EXCEPT !.commands = Tail(S.commands)] /\ source' = [source EXCEPT ![s] = T]
  BY <1>3, <1>18 DEF PopCommand, Shape, Accounts, Shapes
<1>6. Tail(S.commands) \in Seq(Commands) /\ cmd' \in Commands
  BY <1>2, <1>4, CountEnds
<1> HIDE DEF S
<1>7. T \in Shape
  BY <1>3, <1>5, <1>6, ShapeSet
<1>8. /\ T.commands = Tail(S.commands) /\ T.refcnt = S.refcnt /\ T.tasks = S.tasks
      /\ T.cm = S.cm /\ T.open = S.open /\ T.eof = S.eof /\ T.tree = S.tree
      /\ T.cyclemon = S.cyclemon
  BY <1>3 DEF Shape
<1> HIDE DEF T
<1>9. Refs(s)' = Refs(s) /\ \A r \in Source \ {s} : Refs(r)' = Refs(r) /\ Uses(r)' = Uses(r)
  BY <1>1, <1>2, <1>18 DEF Refs, Uses, Of, Flag, works, NoCmd
<1>10. Balanced(T, Refs(s)', Uses(s)')
  <2>1. Cardinality(Of(uses, s)) \in Nat /\ uses' = uses
    BY <1>1, <1>2, OfAdd DEF Accounts, Shapes, works
  <2>2. Uses(s) = Cardinality(Of(uses, s)) + 0
    BY <1>1, <2>1 DEF Uses, Flag, NoCmd
  <2>3. Head(S.commands) \in ProbeSet <=> cmd'.type = "probe"
    BY <1>2, <1>6 DEF ProbeSet
  <2>4. Uses(s)' = Cardinality(Of(uses, s)) + IF Head(S.commands) \in ProbeSet THEN 1 ELSE 0
    BY <1>2, <1>18, <2>1, <2>3 DEF Uses, Flag, Of, works
  <2>5. Count(T.commands, ProbeSet)
        = Count(S.commands, ProbeSet) - IF Head(S.commands) \in ProbeSet THEN 1 ELSE 0
    BY <1>2, <1>4, <1>8, CountEnds
  <2>6. Count(S.commands, ProbeSet) \in Nat /\ S.cm \in Int
    BY <1>3, Countable DEF Shape
  <2>7. Flag(T.cyclemon) = Flag(S.cyclemon) /\ Flag(T.tree) = Flag(S.tree) /\ Flag(S.cyclemon) \in {0, 1}
    BY <1>8, FlagType
  <2>8. T.cm = Flag(S.cyclemon) + Count(S.commands, ProbeSet) + Cardinality(Of(uses, s))
    BY <1>3, <1>8, <2>1, <2>2 DEF Balanced
  <2>9. T.cm = Flag(T.cyclemon) + Count(T.commands, ProbeSet) + Uses(s)'
    BY <2>1, <2>4, <2>5, <2>6, <2>7, <2>8
  <2> QED
    BY <1>3, <1>8, <1>9, <2>7, <2>9 DEF Balanced
<1>11. /\ source' \in [Source -> Shape] /\ source'[s] = T /\ Ledger'
       /\ \A r \in Source \ {s} : source'[r] = source[r]
  BY <1>5, <1>7, <1>9, <1>10, LedgerOne DEF S
<1>12. Shapes'
  BY <1>2, <1>6, <1>11 DEF Accounts, Shapes, works, Phases
<1>13. \A r \in Source : source'[r].tasks = source[r].tasks
  BY <1>8, <1>11 DEF S
<1>14. Living'
  BY <1>2, <1>13, ListedSame DEF Accounts, Living, Alive, DoneOnce, Blocking, works
<1>15. ASSUME NEW r \in Source, NEW t \in Task, NEW c \in {ProbeCmd(t), TaskCmd(t)}
       PROVE  Waiting(r, c)' <= Waiting(r, c) /\ Waiting(r, c)' \in Nat
  <2>1. Count(source[r].commands, {c}) \in Nat /\ Hand(r, c) = 0
    BY <1>1, HandType, WaitingType DEF Accounts
  <2>2. CASE r = s
    <3>1. /\ cmd' = c => Count(T.commands, {c}) = Count(S.commands, {c}) - 1
          /\ cmd' # c => Count(T.commands, {c}) = Count(S.commands, {c})
      BY <1>2, <1>4, <1>8, OneFirst
    <3>2. Hand(r, c)' = IF cmd' = c THEN 1 ELSE 0
      BY <1>2, <1>18, <2>2 DEF Hand
    <3>3. Count(T.commands, {c}) \in Nat
      BY <1>7, Countable
    <3> QED
      BY <1>11, <2>1, <2>2, <3>1, <3>2, <3>3 DEF Waiting, S
  <2>3. CASE r # s
    <3>1. Hand(r, c)' = 0 /\ source'[r] = source[r]
      BY <1>2, <1>11, <1>18, <2>3 DEF Hand
    <3> QED
      BY <2>1, <3>1 DEF Waiting
  <2> QED
    BY <2>2, <2>3
<1>16. Ordered'
  <2>1. Probing' /\ Tasking'
    BY <1>2, <1>15, WaitingLess DEF Accounts, Ordered, works
  <2> QED
    BY <1>2, <2>1 DEF Accounts, Ordered, HeldLate, HandEmpty, works
<1>17. Submitted'
  BY <1>2 DEF Accounts, Submitted, works
<1> QED
  BY <1>11, <1>12, <1>14, <1>16, <1>17 DEF Accounts

(* Lines of a source that is no client's become PROBE commands.            *)
LEMMA LinesAccounts ==
  ASSUME Accounts, NEW s \in Source, Kind[s] # "control",
         NEW k \in 0 .. Len(Unsent(s)), NEW q, q = SubSeq(Unsent(s), 1, k),
         source[s].open, ~source[s].eof,
         NEW T \in Shape, source' = [source EXCEPT ![s] = T],
         T.tasks = source[s].tasks, T.commands = AddLines(source[s], q).commands,
         \A c, u \in Nat : Balanced(AddLines(source[s], q), c, u) => Balanced(T, c, u),
         life' = [t \in Task |-> IF Places(q, t) # {} THEN "line" ELSE life[t]],
         UNCHANGED <<client, uses, onhold, installed, done_queue, src, cmd, freeing>>,
         pc' \in Phases, fault' \in Faults, pc' \notin {"take", "handle"} => cmd = NoCmd
  PROVE  Accounts'
<1>1. source[s] \in Shape /\ Uses(s) \in Nat /\ Refs(s) \in Nat
      /\ Balanced(source[s], Refs(s), Uses(s)) /\ source[s].cyclemon
  BY UsesType DEF Balanced
<1>2. /\ q \in Seq(Task) /\ Distinct(q)
      /\ \A t : Member(q, t) => t \in Task /\ SourceOf[t] = s /\ life[t] = "new"
      /\ \A r \in Source : \A i, j \in DOMAIN Submits[r] :
           i < j /\ (life[Submits[r][j]] # "new" \/ Member(q, Submits[r][j]))
           => life[Submits[r][i]] # "new" \/ Member(q, Submits[r][i])
  <2>1. NextOf(s, q)
    BY NextLines DEF Accounts
  <2> QED
    BY <2>1 DEF NextOf
<1>3. \A t \in Task : life'[t] = IF Member(q, t) THEN "line" ELSE life[t]
  BY DEF Member, Places
<1>4. /\ Balanced(T, Refs(s), Uses(s))
      /\ \A t \in Task :
           /\ Count(T.commands, {TaskCmd(t)}) = Count(source[s].commands, {TaskCmd(t)})
           /\ Member(q, t) => Count(T.commands, {ProbeCmd(t)})
                             = Count(source[s].commands, {ProbeCmd(t)}) + 1
           /\ ~Member(q, t) => Count(T.commands, {ProbeCmd(t)})
                              = Count(source[s].commands, {ProbeCmd(t)})
  <2> DEFINE S == source[s]
  <2>1. S \in Shape /\ S.cyclemon /\ q \in Seq(Task) /\ Distinct(q)
    BY <1>1, <1>2
  <2> HIDE DEF S
  <2>2. PICK A : A = AddLines(S, q)
    OBVIOUS
  <2>3. /\ \A t \in Task :
              /\ Count(A.commands, {TaskCmd(t)}) = Count(S.commands, {TaskCmd(t)})
              /\ Member(q, t) => Count(A.commands, {ProbeCmd(t)})
                                = Count(S.commands, {ProbeCmd(t)}) + 1
              /\ ~Member(q, t) => Count(A.commands, {ProbeCmd(t)})
                                 = Count(S.commands, {ProbeCmd(t)})
        /\ \A c, u \in Nat : Balanced(S, c, u) => Balanced(A, c, u)
    BY ONLY <2>1, <2>2, AddLinesKept
  <2>4. T.commands = A.commands /\ \A c, u \in Nat : Balanced(A, c, u) => Balanced(T, c, u)
    BY <2>2 DEF S
  <2>5. Balanced(T, Refs(s), Uses(s))
    BY <1>1, <2>3, <2>4 DEF S
  <2> QED
    BY <2>3, <2>4, <2>5 DEF S
<1>5. \A r \in Source : Refs(r)' = Refs(r) /\ Uses(r)' = Uses(r)
  BY DEF Refs, Uses, Of
<1>6. /\ source' \in [Source -> Shape] /\ source'[s] = T /\ Ledger'
      /\ \A r \in Source \ {s} : source'[r] = source[r]
  BY <1>4, <1>5, LedgerOne
<1>7. Shapes'
  <2>1. life' \in [Task -> {"new", "line", "alive", "freed"}]
    BY DEF Accounts, Shapes
  <2> QED
    BY <1>6, <2>1 DEF Accounts, Shapes
<1>8. \A t \in Task : life'[t] = "alive" <=> life[t] = "alive"
  BY <1>2, <1>3
<1>9. Living'
  <2>1. \A r \in Source : source'[r].tasks = source[r].tasks
    BY <1>6
  <2>2. Listed'
    BY <1>8, <2>1, ListedSame DEF Accounts, Living
  <2>3. Alive' /\ Blocking'
    BY <1>8 DEF Accounts, Living, Alive, Blocking
  <2>4. DoneOnce'
    BY <1>8 DEF Accounts, Living, DoneOnce
  <2> QED
    BY <2>2, <2>3, <2>4 DEF Living
<1>10. \A r \in Source, t \in Task : Hand(r, ProbeCmd(t))' = Hand(r, ProbeCmd(t))
                                    /\ Hand(r, TaskCmd(t))' = Hand(r, TaskCmd(t))
  BY DEF Hand
<1>11. Probing'
  <2> SUFFICES ASSUME NEW r \in Source, NEW t \in Task
               PROVE  Waiting(r, ProbeCmd(t))' <= IF SourceOf[t] = r /\ life'[t] = "line" THEN 1 ELSE 0
    BY DEF Probing
  <2>1. Waiting(r, ProbeCmd(t)) <= IF SourceOf[t] = r /\ life[t] = "line" THEN 1 ELSE 0
    BY DEF Accounts, Ordered, Probing
  <2>2. Waiting(r, ProbeCmd(t)) \in Nat /\ Count(source[r].commands, {ProbeCmd(t)}) \in Nat
        /\ Hand(r, ProbeCmd(t)) \in {0, 1}
    BY WaitingType, HandType DEF Accounts
  <2>3. CASE r = s /\ Member(q, t)
    <3>1. SourceOf[t] = s /\ life[t] = "new" /\ life'[t] = "line"
      BY <1>2, <1>3, <2>3
    <3>2. Waiting(r, ProbeCmd(t)) = 0
      BY <2>1, <2>2, <3>1
    <3>3. Count(source[r].commands, {ProbeCmd(t)}) = 0 /\ Hand(r, ProbeCmd(t)) = 0
      BY <2>2, <3>2 DEF Waiting
    <3>4. Count(T.commands, {ProbeCmd(t)}) = 1
      <4>1. Count(source[s].commands, {ProbeCmd(t)}) = 0
        BY <2>3, <3>3
      <4>2. Count(T.commands, {ProbeCmd(t)}) = Count(source[s].commands, {ProbeCmd(t)}) + 1
        BY <1>4, <2>3
      <4> QED
        BY <4>1, <4>2
    <3>5. Waiting(r, ProbeCmd(t))' = 1
      BY <1>6, <1>10, <2>3, <3>3, <3>4 DEF Waiting
    <3> QED
      BY <2>3, <3>1, <3>5
  <2>4. CASE ~(r = s /\ Member(q, t))
    <3>1. Count(source'[r].commands, {ProbeCmd(t)}) = Count(source[r].commands, {ProbeCmd(t)})
      <4>1. CASE r = s
        BY <1>4, <1>6, <2>4, <4>1
      <4>2. CASE r # s
        BY <1>6, <4>2
      <4> QED
        BY <4>1, <4>2
    <3>2. Waiting(r, ProbeCmd(t))' = Waiting(r, ProbeCmd(t))
      BY <1>10, <3>1 DEF Waiting
    <3>3. life'[t] = life[t] \/ SourceOf[t] # r
      BY <1>2, <1>3, <2>4
    <3> QED
      BY <2>1, <2>2, <3>2, <3>3
  <2> QED
    BY <2>3, <2>4
<1>12. Tasking'
  <2> SUFFICES ASSUME NEW r \in Source, NEW t \in Task, SourceOf[t] # r \/ life'[t] \in Early
               PROVE  Waiting(r, TaskCmd(t))' = 0
    BY DEF Tasking
  <2>1. SourceOf[t] # r \/ life[t] \in Early
    BY <1>2, <1>3 DEF Early
  <2>2. Waiting(r, TaskCmd(t)) = 0
    BY <2>1 DEF Accounts, Ordered, Tasking
  <2>3. Count(source'[r].commands, {TaskCmd(t)}) = Count(source[r].commands, {TaskCmd(t)})
    BY <1>4, <1>6
  <2> QED
    BY <1>10, <2>2, <2>3 DEF Waiting
<1>13. HeldLate' /\ HandEmpty'
  <2>1. \A t \in Task : life'[t] \in Early => life[t] \in Early
    BY <1>2, <1>3 DEF Early
  <2>2. HeldLate'
    BY <2>1 DEF Accounts, Ordered, HeldLate
  <2> QED
    BY <2>2 DEF HandEmpty
<1>14. Submitted'
  <2>1. ASSUME NEW r \in Source, NEW i \in DOMAIN Submits[r], NEW j \in DOMAIN Submits[r],
               i < j, life'[Submits[r][j]] # "new"
        PROVE  life'[Submits[r][i]] # "new"
    <3>1. Submits[r][i] \in Task /\ Submits[r][j] \in Task
      BY SourcesAssumption, LenProperties, ElementOfSeq
    <3>2. life[Submits[r][j]] # "new" \/ Member(q, Submits[r][j])
      BY <1>3, <2>1, <3>1
    <3>3. life[Submits[r][i]] # "new" \/ Member(q, Submits[r][i])
      BY <1>2, <2>1, <3>2
    <3> QED
      BY <1>3, <3>1, <3>3
  <2>2. ASSUME NEW t \in Task, Kind[SourceOf[t]] = "control", client'[SourceOf[t]] = "none"
        PROVE  life'[t] = "new"
    <3>1. ~Member(q, t)
      BY <1>2, <2>2
    <3>2. life[t] = "new"
      BY <2>2 DEF Accounts, Submitted
    <3> QED
      BY <1>3, <3>1, <3>2
  <2> QED
    BY <2>1, <2>2 DEF Submitted
<1>15. Ordered'
  BY <1>11, <1>12, <1>13 DEF Ordered
<1> QED
  BY <1>6, <1>7, <1>9, <1>14, <1>15 DEF Accounts

(* What a source has not submitted is a list of tasks; its first one.      *)
LEMMA UnsentSeq ==
  ASSUME NEW s \in Source
  PROVE  /\ Unsent(s) \in Seq(Task)
         /\ Unsent(s) # <<>> => /\ 1 \in 0 .. Len(Unsent(s)) /\ Head(Unsent(s)) \in Task
                               /\ SubSeq(Unsent(s), 1, 1) = <<Head(Unsent(s))>>
<1>1. Unsent(s) \in Seq(Task)
  <2>1. CASE News(s) = {}
    BY <2>1 DEF Unsent
  <2>2. CASE News(s) # {}
    <3> DEFINE m == Min(News(s))
    <3>1. Submits[s] \in Seq(Task)
      BY SourcesAssumption
    <3>4. Len(Submits[s]) \in Nat /\ DOMAIN Submits[s] = 1 .. Len(Submits[s])
          /\ \A i \in 1 .. Len(Submits[s]) : Submits[s][i] \in Task
      BY <3>1, LenProperties, ElementOfSeq
    <3>5. m \in 1 .. Len(Submits[s])
      BY <2>2, <3>4, FirstNews DEF News
    <3>2. Len(Submits[s]) \in Nat /\ m \in 1 .. Len(Submits[s])
          /\ \A i \in m .. Len(Submits[s]) : Submits[s][i] \in Task
      <4> HIDE DEF m
      <4> QED
        BY <3>4, <3>5
    <3>3. Unsent(s) = SubSeq(Submits[s], m, Len(Submits[s]))
      BY <2>2 DEF Unsent
    <3> HIDE DEF m
    <3> QED
      BY <3>2, <3>3, SubSeqProperties
  <2> QED
    BY <2>1, <2>2
<1>2. PICK u : u = Unsent(s)
  OBVIOUS
<1>3. ASSUME u # <<>>
      PROVE  1 \in 0 .. Len(u) /\ Head(u) \in Task /\ SubSeq(u, 1, 1) = <<Head(u)>>
  <2>1. u \in Seq(Task) /\ Len(u) \in Nat /\ Len(u) # 0 /\ Head(u) = u[1] /\ u[1] \in Task
    BY <1>1, <1>2, <1>3
  <2>2. \A i \in 1 .. 1 : u[i] \in Task
    BY <2>1
  <2>3. /\ SubSeq(u, 1, 1) \in Seq(Task) /\ Len(SubSeq(u, 1, 1)) = IF 1 <= 1 THEN 1 - 1 + 1 ELSE 0
        /\ \A i \in 1 .. 1 - 1 + 1 : SubSeq(u, 1, 1)[i] = u[1 + i - 1]
    BY ONLY <2>2, SubSeqProperties
  <2>4. PICK w : w = SubSeq(u, 1, 1)
    OBVIOUS
  <2>5. w \in Seq(Task) /\ Len(w) = 1 /\ w[1] = u[1]
    BY ONLY <2>3, <2>4
  <2>6. w = <<u[1]>>
    BY ONLY <2>1, <2>5
  <2>7. 1 \in 0 .. Len(u) /\ Head(u) \in Task
    BY <2>1
  <2>8. SubSeq(u, 1, 1) = <<Head(u)>>
    BY ONLY <2>1, <2>4, <2>6
  <2> QED
    BY <2>7, <2>8
<1> QED
  BY <1>1, <1>2, <1>3

(* Standard input is read, a line.                                         *)
LEMMA ReadLineAccounts ==
  ASSUME Accounts, NEW s \in Source, ReadLine(s)
  PROVE  Accounts'
<1>1. PICK q : q = SubSeq(Unsent(s), 1, 1)
  OBVIOUS
<1>2. 1 \in 0 .. Len(Unsent(s)) /\ q = <<Head(Unsent(s))>> /\ Head(Unsent(s)) \in Task
  BY <1>1, UnsentSeq DEF ReadLine
<1>3. PICK T : T = AddLines(source[s], q)
  OBVIOUS
<1>4. source[s].open /\ ~source[s].eof /\ Kind[s] = "stdin" /\ pc = "poll"
  BY DEF ReadLine, Polling
<1>5. source[s] \in Shape /\ source[s].cyclemon /\ NextOf(s, q)
  BY <1>1, <1>2, <1>4, UsesType, NextLines DEF Balanced, Accounts
<1>6. T \in Shape /\ T.tasks = source[s].tasks
  BY <1>3, <1>5, AddLinesKept DEF NextOf
<1>7. source' = [source EXCEPT ![s] = T]
  BY <1>2, <1>3 DEF ReadLine, Accounts, Shapes
<1>8. life' = [t \in Task |-> IF Places(q, t) # {} THEN "line" ELSE life[t]]
  <2>1. \A t : Places(q, t) # {} <=> t = Head(Unsent(s))
    BY <1>2 DEF Places
  <2>2. life' = [life EXCEPT ![Head(Unsent(s))] = "line"]
    BY DEF ReadLine
  <2> QED
    BY <1>2, <2>1, <2>2 DEF Accounts, Shapes
<1>9. UNCHANGED <<client, uses, onhold, installed, done_queue, src, cmd, freeing, pc, fault>>
  BY DEF ReadLine, scans, loops
<1>10. pc' \in Phases /\ fault' \in Faults /\ cmd = NoCmd
  BY <1>4, <1>9 DEF Accounts, Shapes, Ordered, HandEmpty
<1> QED
  BY <1>1, <1>2, <1>3, <1>4, <1>6, <1>7, <1>8, <1>9, <1>10, LinesAccounts

(* source->take reads a block of the file, or its end.                     *)
LEMMA TakeLines ==
  ASSUME Accounts, Scope, TakeChunk \/ TakeEnd
  PROVE  \E s \in Source :
           /\ s = src /\ source[s].open /\ ~source[s].eof /\ Kind[s] = "file"
           /\ \E k \in 0 .. Len(Unsent(s)) :
                LET q == SubSeq(Unsent(s), 1, k)
                    A == AddLines(source[s], q)
                    E == [A EXCEPT !.eof = TRUE]
                IN  /\ source' \in {[source EXCEPT ![s] = A],
                                    [source EXCEPT ![s] = E],
                                    [source EXCEPT ![s] = Unuse(E)]}
                    /\ life' = [t \in Task |-> IF Places(q, t) # {} THEN "line" ELSE life[t]]
<1>1. PICK s \in Source : s = src
  BY DEF TakeChunk, TakeEnd, Scope
<1>2. source[s].open /\ ~source[s].eof /\ Kind[s] = "file"
  BY <1>1 DEF TakeChunk, TakeEnd, Reads
<1>3. \E k \in 0 .. Len(Unsent(s)) : LET q == SubSeq(Unsent(s), 1, k)
                                         A == AddLines(source[s], q)
                                         E == [A EXCEPT !.eof = TRUE]
                                     IN  /\ source' \in {[source EXCEPT ![s] = A],
                                                         [source EXCEPT ![s] = E],
                                                         [source EXCEPT ![s] = Unuse(E)]}
                                         /\ life' = [t \in Task |-> IF Places(q, t) # {}
                                                                    THEN "line" ELSE life[t]]
  <2>1. CASE TakeChunk
    BY <1>1, <2>1, ZenonT(60) DEF TakeChunk, Accounts, Shapes
  <2>2. CASE TakeEnd
    <3>1. Unsent(s) \in Seq(Task) /\ Len(Unsent(s)) \in Nat
      BY UnsentSeq, LenProperties
    <3>2. PICK k \in {j \in {0, 1} : j <= Len(Unsent(s))} :
            LET q == SubSeq(Unsent(s), 1, k)
                E == [AddLines(source[s], q) EXCEPT !.eof = TRUE]
            IN  /\ life' = [t \in Task |-> IF Places(q, t) # {} THEN "line" ELSE life[t]]
                /\ source' \in {[source EXCEPT ![s] = E], [source EXCEPT ![s] = Unuse(E)]}
      BY <1>1, <2>2 DEF TakeEnd, Finished
    <3>3. k \in 0 .. Len(Unsent(s))
      BY <3>1
    <3> QED
      BY <3>2, <3>3
  <2> QED
    BY <2>1, <2>2
<1> QED
  BY <1>1, <1>2, <1>3

LEMMA TakeAccounts ==
  ASSUME Accounts, Scope, TakeChunk \/ TakeEnd
  PROVE  Accounts'
<1>1. PICK s \in Source :
        /\ s = src /\ source[s].open /\ ~source[s].eof /\ Kind[s] = "file"
        /\ \E k \in 0 .. Len(Unsent(s)) :
             LET q == SubSeq(Unsent(s), 1, k)
                 A == AddLines(source[s], q)
                 E == [A EXCEPT !.eof = TRUE]
             IN  /\ source' \in {[source EXCEPT ![s] = A],
                                 [source EXCEPT ![s] = E],
                                 [source EXCEPT ![s] = Unuse(E)]}
                 /\ life' = [t \in Task |-> IF Places(q, t) # {} THEN "line" ELSE life[t]]
  BY TakeLines
<1>2. source[s].open /\ ~source[s].eof /\ Kind[s] = "file"
  BY <1>1
<1>4. PICK k \in 0 .. Len(Unsent(s)) :
        LET q == SubSeq(Unsent(s), 1, k)
            A == AddLines(source[s], q)
            E == [A EXCEPT !.eof = TRUE]
        IN  /\ source' \in {[source EXCEPT ![s] = A],
                            [source EXCEPT ![s] = E],
                            [source EXCEPT ![s] = Unuse(E)]}
            /\ life' = [t \in Task |-> IF Places(q, t) # {} THEN "line" ELSE life[t]]
  BY <1>1
<1>5. PICK q : q = SubSeq(Unsent(s), 1, k)
  OBVIOUS
<1>6. PICK A : A = AddLines(source[s], q)
  OBVIOUS
<1>7. PICK E : E = [A EXCEPT !.eof = TRUE]
  OBVIOUS
<1>8. PICK T \in {A, E, Unuse(E)} : source' = [source EXCEPT ![s] = T]
  BY <1>4, <1>5, <1>6, <1>7
<1>9. source[s] \in Shape /\ source[s].cyclemon /\ NextOf(s, q)
  BY <1>2, <1>5, UsesType, NextLines DEF Balanced, Accounts
<1>10. A \in Shape /\ A.tasks = source[s].tasks
  BY <1>6, <1>9, AddLinesKept DEF NextOf
<1>11. /\ T \in Shape /\ T.tasks = source[s].tasks /\ T.commands = A.commands
       /\ \A c, u \in Nat : Balanced(A, c, u) => Balanced(T, c, u)
  BY <1>7, <1>8, <1>10, EndKept DEF Kept
<1>12. life' = [t \in Task |-> IF Places(q, t) # {} THEN "line" ELSE life[t]]
  BY <1>4, <1>5
<1>13. UNCHANGED <<client, uses, onhold, installed, done_queue, src, cmd, freeing>>
  BY DEF TakeChunk, TakeEnd, loops
<1>14. pc' \in Phases /\ pc' = "handle"
  BY DEF TakeChunk, TakeEnd, Phases
<1>15. fault' \in Faults
  BY DEF TakeChunk, TakeEnd, Faults, Accounts, Shapes
<1> QED
  BY <1>2, <1>5, <1>6, <1>8, <1>11, <1>12, <1>13, <1>14, <1>15, LinesAccounts

-----------------------------------------------------------------------------
(* A task starts, or one that runs holds it: who is held already is held   *)
(* as before.                                                              *)
LEMMA InstallKept ==
  ASSUME NEW t \in Task, InstallOrHold(t), Blocking, onhold \in [Task -> Seq(Task)]
  PROVE  /\ installed' \in {installed, installed \cup {t}} /\ Blocking'
         /\ pc' \in {"probe", "scan"}
         /\ \A u, b \in Task : u # t => Count(onhold'[b], {u}) = Count(onhold[b], {u})
<1>1. CASE UNCHANGED onhold
  BY <1>1 DEF InstallOrHold, Blocking
<1>2. CASE onhold' # onhold
  <2>1. PICK b \in SigBlock(t) : onhold' = [onhold EXCEPT ![b] = Append(@, t)]
    BY <1>2 DEF InstallOrHold
  <2>2. b \in Task /\ b \in installed /\ installed' = installed /\ pc' = "scan"
    BY <1>2, <2>1 DEF InstallOrHold, SigBlock, Blocking
  <2>3. onhold[b] \in Seq(Task)
    BY <2>2
  <2>4. \A u \in Task : u # t => Count(Append(onhold[b], t), {u}) = Count(onhold[b], {u})
    BY <2>3, OneMore
  <2>5. onhold'[b] = Append(onhold[b], t) /\ \A c \in Task \ {b} : onhold'[c] = onhold[c]
    BY <2>1, <2>2
  <2>6. Blocking'
    BY <2>2, <2>5 DEF Blocking
  <2> QED
    BY <2>2, <2>4, <2>5, <2>6
<1> QED
  BY <1>1, <1>2

(* The command of a task that lives is handled.                            *)
LEMMA HandleTaskAccounts ==
  ASSUME Accounts, Scope, NEW t \in Task, HandleTask(t)
  PROVE  Accounts'
<1>1. CASE life[t] = "freed"
  BY <1>1, CrashAccounts DEF HandleTask, Faults
<1>2. CASE life[t] # "freed"
  <2>1. PICK s \in Source : s = src
    BY DEF HandleTask, Scope
  <2>2. /\ cmd = TaskCmd(t) /\ cmd' = NoCmd /\ InstallOrHold(t)
        /\ UNCHANGED <<source, client, life, uses, done_queue, freeing, fault>>
    BY <1>2 DEF HandleTask, loops
  <2>3. life[t] = "alive"
    <3>1. Hand(s, TaskCmd(t)) = 1
      BY <2>1, <2>2 DEF Hand
    <3>2. Waiting(s, TaskCmd(t)) # 0
      <4>1. Count(source[s].commands, {TaskCmd(t)}) \in Nat
        BY WaitingType DEF Accounts
      <4> QED
        BY <3>1, <4>1 DEF Waiting
    <3>3. life[t] \notin Early
      BY <3>2 DEF Accounts, Ordered, Tasking
    <3> QED
      BY <1>2, <3>3 DEF Early, Accounts, Shapes
  <2>4. onhold \in [Task -> Seq(Task)] /\ Blocking /\ uses \cup installed \subseteq Task
    BY DEF Scope, Accounts, Living, Shapes
  <2>5. /\ installed' \in {installed, installed \cup {t}} /\ Blocking'
        /\ pc' \in {"probe", "scan"}
        /\ \A u, b \in Task : u # t => Count(onhold'[b], {u}) = Count(onhold[b], {u})
    BY <2>2, <2>4, InstallKept
  <2>6. Shapes'
    BY <2>2, <2>4, <2>5 DEF Accounts, Shapes, Phases, NoCmd, Commands
  <2>7. Living'
    <3>1. Listed' /\ DoneOnce'
      BY <2>2 DEF Accounts, Living, Listed, DoneOnce
    <3>2. Alive'
      BY <2>2, <2>3, <2>5 DEF Accounts, Living, Alive
    <3> QED
      BY <2>5, <3>1, <3>2 DEF Living
  <2>8. ASSUME NEW r \in Source, NEW u \in Task, NEW c \in {ProbeCmd(u), TaskCmd(u)}
        PROVE  Waiting(r, c)' <= Waiting(r, c) /\ Waiting(r, c)' \in Nat
    <3>1. Count(source[r].commands, {c}) \in Nat /\ source'[r] = source[r]
      BY <2>2, WaitingType DEF Accounts
    <3>2. Hand(r, c)' = 0
      BY <2>2 DEF Hand, NoCmd, ProbeCmd, TaskCmd
    <3>3. Hand(r, c) \in {0, 1}
      BY HandType
    <3> QED
      BY <3>1, <3>2, <3>3 DEF Waiting
  <2>9. Ordered'
    <3>1. Probing' /\ Tasking'
      BY <2>2, <2>8, WaitingLess DEF Accounts, Ordered
    <3>2. HeldLate'
      BY <2>2, <2>3, <2>5 DEF Accounts, Ordered, HeldLate, Early
    <3> QED
      BY <2>2, <3>1, <3>2 DEF Ordered, HandEmpty
  <2>10. Submitted'
    BY <2>2 DEF Accounts, Submitted
  <2>11. Ledger'
    BY <2>2 DEF Accounts, Ledger, Refs, Uses, Of, Flag, NoCmd, TaskCmd
  <2> QED
    BY <2>6, <2>7, <2>9, <2>10, <2>11 DEF Accounts
<1> QED
  BY <1>1, <1>2

(* A PROBE command becomes a task.                                         *)
LEMMA HandleProbeAccounts ==
  ASSUME Accounts, Scope, NEW t \in Task, HandleProbe(t)
  PROVE  Accounts'
<1>1. PICK s \in Source : s = src
  BY DEF HandleProbe, Scope
<1>2. PICK S : S = source[s]
  OBVIOUS
<1>3. PICK T : T = AddTask(S, t)
  OBVIOUS
<1>4. /\ cmd = ProbeCmd(t) /\ cmd' = NoCmd /\ InstallOrHold(t)
      /\ life' = [life EXCEPT ![t] = "alive"] /\ uses' = uses \cup {t}
      /\ UNCHANGED <<client, done_queue, freeing, fault>>
  BY DEF HandleProbe, loops
<1>5. source' = [source EXCEPT ![s] = T]
  BY <1>1, <1>2, <1>3 DEF HandleProbe, Accounts, Shapes
<1>6. /\ SourceOf[t] = s /\ life[t] = "line"
      /\ Count(S.commands, {ProbeCmd(t)}) = 0
  <2>1. Hand(s, ProbeCmd(t)) = 1 /\ Count(S.commands, {ProbeCmd(t)}) \in Nat
    BY <1>1, <1>2, <1>4, WaitingType DEF Hand, Accounts
  <2>2. Waiting(s, ProbeCmd(t)) = Count(S.commands, {ProbeCmd(t)}) + 1
    BY <1>2, <2>1 DEF Waiting
  <2>3. Waiting(s, ProbeCmd(t)) <= IF SourceOf[t] = s /\ life[t] = "line" THEN 1 ELSE 0
    BY DEF Accounts, Ordered, Probing
  <2> QED
    BY <2>1, <2>2, <2>3
<1>7. S \in Shape /\ Uses(s) \in Nat /\ Refs(s) \in Nat /\ Balanced(S, Refs(s), Uses(s))
  BY <1>2, UsesType
<1>8. /\ T \in Shape /\ T.commands = S.commands /\ T.tasks = Append(S.tasks, t)
      /\ Balanced(T, Refs(s), Uses(s))
  BY <1>3, <1>7, AddTaskKept
<1>9. /\ onhold \in [Task -> Seq(Task)] /\ Blocking /\ uses \cup installed \subseteq Task
      /\ IsFiniteSet(uses) /\ t \notin uses \cup installed
      /\ life \in [Task -> {"new", "line", "alive", "freed"}]
  BY <1>6 DEF Scope, Accounts, Living, Shapes, Alive
<1>10. /\ installed' \in {installed, installed \cup {t}} /\ Blocking'
       /\ pc' \in {"probe", "scan"}
       /\ \A u, b \in Task : u # t => Count(onhold'[b], {u}) = Count(onhold[b], {u})
  BY <1>4, <1>9, InstallKept
<1>11. life'[t] = "alive" /\ \A u \in Task \ {t} : life'[u] = life[u]
  BY <1>4, <1>9
<1>12. \A r \in Source : Refs(r)' = Refs(r) /\ Uses(r)' = Uses(r)
  <2> SUFFICES ASSUME NEW r \in Source PROVE Uses(r)' = Uses(r)
    BY <1>4 DEF Refs
  <2>1. Cardinality(Of(uses, r)) \in Nat
        /\ Cardinality(Of(uses \cup {t}, r)) = Cardinality(Of(uses, r)) + IF s = r THEN 1 ELSE 0
    BY <1>6, <1>9, OfAdd
  <2>2. Uses(r) = Cardinality(Of(uses, r)) + IF s = r THEN 1 ELSE 0
    BY <1>1, <1>4 DEF Uses, Flag, ProbeCmd
  <2>3. Uses(r)' = Cardinality(Of(uses \cup {t}, r)) + 0
    BY <1>4 DEF Uses, Flag, NoCmd, Of
  <2>4. Cardinality(Of(uses \cup {t}, r)) \in Nat
    BY <2>1
  <2> QED
    BY <2>1, <2>2, <2>3, <2>4
<1>13. /\ source' \in [Source -> Shape] /\ source'[s] = T /\ Ledger'
       /\ \A r \in Source \ {s} : source'[r] = source[r]
  BY <1>2, <1>5, <1>8, <1>12, LedgerOne
<1>14. Shapes'
  <2>1. IsFiniteSet(uses') /\ uses' \subseteq Task /\ installed' \subseteq Task
    BY <1>4, <1>9, <1>10, FS_AddElement
  <2>2. life' \in [Task -> {"new", "line", "alive", "freed"}]
    BY <1>4, <1>9
  <2> QED
    BY <1>4, <1>10, <1>13, <2>1, <2>2 DEF Accounts, Shapes, Phases, NoCmd, Commands
<1>15. Listed'
  <2> SUFFICES ASSUME NEW r \in Source, NEW u \in Task
               PROVE  Count(source'[r].tasks, {u})
                      = IF SourceOf[u] = r /\ life'[u] = "alive" THEN 1 ELSE 0
    BY DEF Listed
  <2>1. Count(source[r].tasks, {u}) = IF SourceOf[u] = r /\ life[u] = "alive" THEN 1 ELSE 0
    BY DEF Accounts, Living, Listed
  <2>2. CASE r = s
    <3>1. S.tasks \in Seq(Task)
      BY <1>7 DEF Shape
    <3>2. /\ t = u => Count(T.tasks, {u}) = Count(S.tasks, {u}) + 1
          /\ t # u => Count(T.tasks, {u}) = Count(S.tasks, {u})
      <4>1. /\ t = u => Count(Append(S.tasks, t), {u}) = Count(S.tasks, {u}) + 1
            /\ t # u => Count(Append(S.tasks, t), {u}) = Count(S.tasks, {u})
        BY ONLY <3>1, t \in Task, OneMore
      <4> QED
        BY ONLY <1>8, <4>1
    <3>3. CASE u = t
      BY <1>2, <1>6, <1>11, <1>13, <2>1, <2>2, <3>2, <3>3
    <3>4. CASE u # t
      BY <1>2, <1>11, <1>13, <2>1, <2>2, <3>2, <3>4
    <3> QED
      BY <3>3, <3>4
  <2>3. CASE r # s
    <3>1. Count(source'[r].tasks, {u}) = Count(source[r].tasks, {u})
      BY <1>13, <2>3
    <3>2. SourceOf[u] = r => life'[u] = life[u]
      BY <1>6, <1>11, <2>3
    <3> QED
      BY <2>1, <3>1, <3>2
  <2> QED
    BY <2>2, <2>3
<1>16. Living'
  <2>1. Alive'
    BY <1>4, <1>9, <1>10, <1>11 DEF Accounts, Living, Alive
  <2>2. DoneOnce'
    <3> SUFFICES ASSUME NEW u \in Task
                 PROVE  Count(done_queue', {u}) + (IF freeing' = u THEN 1 ELSE 0)
                        <= IF life'[u] = "alive" THEN 1 ELSE 0
      BY DEF DoneOnce
    <3>1. Count(done_queue, {u}) + (IF freeing = u THEN 1 ELSE 0)
          <= IF life[u] = "alive" THEN 1 ELSE 0
      BY DEF Accounts, Living, DoneOnce
    <3>2. Count(done_queue, {u}) \in Nat
      BY CountType DEF Accounts, Shapes
    <3>3. done_queue' = done_queue /\ freeing' = freeing
      BY <1>4
    <3>4. life[u] = "alive" => life'[u] = "alive"
      BY <1>11
    <3> QED
      BY <3>1, <3>2, <3>3, <3>4
  <2> QED
    BY <1>10, <1>15, <2>1, <2>2 DEF Living
<1>17. ASSUME NEW r \in Source, NEW u \in Task, NEW c \in {ProbeCmd(u), TaskCmd(u)}
       PROVE  /\ Waiting(r, c)' = Count(source[r].commands, {c})
              /\ Waiting(r, c)' \in Nat /\ Waiting(r, c) \in Nat
              /\ Waiting(r, c)' <= Waiting(r, c)
  <2>1. Count(source[r].commands, {c}) \in Nat /\ source'[r].commands = source[r].commands
    BY <1>2, <1>8, <1>13, WaitingType DEF Accounts
  <2>2. Hand(r, c)' = 0
    BY <1>4 DEF Hand, NoCmd, ProbeCmd, TaskCmd
  <2>3. Hand(r, c) \in {0, 1}
    BY HandType
  <2> QED
    BY <2>1, <2>2, <2>3 DEF Waiting
<1>18. Probing'
  <2> SUFFICES ASSUME NEW r \in Source, NEW u \in Task
               PROVE  Waiting(r, ProbeCmd(u))' <= IF SourceOf[u] = r /\ life'[u] = "line" THEN 1 ELSE 0
    BY DEF Probing
  <2>1. Waiting(r, ProbeCmd(u)) <= IF SourceOf[u] = r /\ life[u] = "line" THEN 1 ELSE 0
    BY DEF Accounts, Ordered, Probing
  <2>5. /\ Waiting(r, ProbeCmd(u))' = Count(source[r].commands, {ProbeCmd(u)})
        /\ Waiting(r, ProbeCmd(u))' \in Nat /\ Waiting(r, ProbeCmd(u)) \in Nat
        /\ Waiting(r, ProbeCmd(u))' <= Waiting(r, ProbeCmd(u))
    BY <1>17
  <2>2. CASE u = t /\ r = s
    BY <1>2, <1>6, <2>2, <2>5
  <2>3. CASE u = t /\ r # s
    BY <1>6, <2>1, <2>3, <2>5
  <2>4. CASE u # t
    BY <1>11, <2>1, <2>4, <2>5
  <2> QED
    BY <2>2, <2>3, <2>4
<1>19. Tasking'
  <2> SUFFICES ASSUME NEW r \in Source, NEW u \in Task, SourceOf[u] # r \/ life'[u] \in Early
               PROVE  Waiting(r, TaskCmd(u))' = 0
    BY DEF Tasking
  <2>1. SourceOf[u] # r \/ life[u] \in Early
    BY <1>11 DEF Early
  <2>2. Waiting(r, TaskCmd(u)) = 0
    BY <2>1 DEF Accounts, Ordered, Tasking
  <2>3. Waiting(r, TaskCmd(u))' \in Nat /\ Waiting(r, TaskCmd(u))' <= Waiting(r, TaskCmd(u))
    BY <1>17
  <2> QED
    BY <2>2, <2>3
<1>20. Ordered'
  <2>1. HeldLate'
    BY <1>10, <1>11 DEF Accounts, Ordered, HeldLate, Early
  <2> QED
    BY <1>4, <1>18, <1>19, <2>1 DEF Ordered, HandEmpty
<1>21. Submitted'
  <2>1. \A u \in Task : life'[u] = "new" <=> life[u] = "new"
    BY <1>6, <1>11
  <2>2. \A r \in Source : \A i \in DOMAIN Submits[r] : Submits[r][i] \in Task
    <3> SUFFICES ASSUME NEW r \in Source PROVE \A i \in DOMAIN Submits[r] : Submits[r][i] \in Task
      OBVIOUS
    <3>1. Submits[r] \in Seq(Task)
      BY SourcesAssumption
    <3> QED
      BY <3>1, LenProperties, ElementOfSeq
  <2> QED
    BY <1>4, <2>1, <2>2 DEF Accounts, Submitted
<1> QED
  BY <1>13, <1>14, <1>16, <1>20, <1>21 DEF Accounts

-----------------------------------------------------------------------------
(* Where a list of Submits is in place, life can be looked up.             *)
LEMMA SubmitsTask ==
  ASSUME NEW s \in Source, NEW i \in DOMAIN Submits[s]
  PROVE  Submits[s][i] \in Task
<1>1. Submits[s] \in Seq(Task)
  BY SourcesAssumption
<1> QED
  BY <1>1, LenProperties, ElementOfSeq

(* A source of a client that is made now: none of its tasks is submitted.  *)
LEMMA AttachAccounts ==
  ASSUME Accounts, NEW s \in Source, Attach(s)
  PROVE  Accounts'
<1>1. PICK T : T = Fresh(2, TRUE)
  OBVIOUS
<1>2. /\ Kind[s] = "control" /\ client[s] = "none" /\ pc = "poll"
      /\ client' = [client EXCEPT ![s] = "attached"] /\ source' = [source EXCEPT ![s] = T]
      /\ UNCHANGED <<works, scans, freeing, fault>>
  BY <1>1 DEF Attach, Polling, loops
<1>3. cmd = NoCmd
  BY <1>2 DEF Accounts, Ordered, HandEmpty
<1>4. \A u \in Task : SourceOf[u] = s => life[u] = "new"
  BY <1>2 DEF Accounts, Submitted
<1>5. CycleCmd \in Commands /\ CycleCmd \notin ProbeSet
      /\ \A u : CycleCmd # ProbeCmd(u) /\ CycleCmd # TaskCmd(u)
  BY DEF CycleCmd, Commands, ProbeSet, ProbeCmd, TaskCmd
<1>6. /\ T.commands = <<CycleCmd>> /\ T.tasks = <<>> /\ T.open = TRUE /\ T.eof = FALSE
      /\ T.tree = TRUE /\ T.refcnt = 2 /\ T.cm = 1 /\ T.cyclemon = TRUE
  BY <1>1 DEF Fresh
<1>7. T \in Shape
  <2>1. <<CycleCmd>> \in Seq(Commands) /\ <<>> \in Seq(Task)
    BY <1>5
  <2> QED
    BY <1>1, <2>1 DEF Fresh, Shape
<1>8. \A P : CycleCmd \notin P => Count(T.commands, P) = 0
  BY <1>6, CountOne
<1>9. \A P : Count(T.tasks, P) = 0
  BY <1>6, CountEmpty
<1>10. Uses(s)' = 0
  <2>1. Of(uses, s) = {}
    BY <1>4 DEF Of, Accounts, Shapes, Living, Alive
  <2>2. uses' = uses /\ cmd' = NoCmd /\ cmd'.type # "probe"
    BY <1>2, <1>3 DEF works, scans, NoCmd
  <2>3. Uses(s)' = Cardinality({}) + 0
    BY <2>1, <2>2 DEF Uses, Flag, Of
  <2> QED
    BY <2>3, FS_EmptySet
<1>11. Refs(s)' = 1
  BY <1>2 DEF Refs, Flag, Accounts, Shapes
<1>12. \A r \in Source \ {s} : Refs(r)' = Refs(r) /\ Uses(r)' = Uses(r)
  BY <1>2 DEF Refs, Uses, Of, works, scans
<1>13. Balanced(T, Refs(s)', Uses(s)')
  <2>1. Count(T.commands, ProbeSet) = 0 /\ Len(T.tasks) = 0
    BY <1>5, <1>6, <1>8
  <2>2. Flag(T.tree) = 1 /\ Flag(T.cyclemon) = 1
    BY <1>6 DEF Flag
  <2> QED
    BY <1>6, <1>10, <1>11, <2>1, <2>2 DEF Balanced
<1>14. /\ source' \in [Source -> Shape] /\ source'[s] = T /\ Ledger'
       /\ \A r \in Source \ {s} : source'[r] = source[r]
  BY <1>2, <1>7, <1>12, <1>13, LedgerOne
<1>15. Shapes'
  BY <1>2, <1>14 DEF Accounts, Shapes, works, scans, Clients
<1>16. Listed'
  <2> SUFFICES ASSUME NEW r \in Source, NEW u \in Task
               PROVE  Count(source'[r].tasks, {u})
                      = IF SourceOf[u] = r /\ life'[u] = "alive" THEN 1 ELSE 0
    BY DEF Listed
  <2>1. Count(source[r].tasks, {u}) = IF SourceOf[u] = r /\ life[u] = "alive" THEN 1 ELSE 0
    BY DEF Accounts, Living, Listed
  <2>2. life' = life
    BY <1>2 DEF works
  <2>3. CASE r = s
    BY <1>4, <1>9, <1>14, <2>2, <2>3
  <2>4. CASE r # s
    BY <1>14, <2>1, <2>2, <2>4
  <2> QED
    BY <2>3, <2>4
<1>17. Living'
  BY <1>2, <1>16 DEF Accounts, Living, Alive, DoneOnce, Blocking, works
<1>18. ASSUME NEW r \in Source, NEW u \in Task, NEW c \in {ProbeCmd(u), TaskCmd(u)}
       PROVE  Waiting(r, c)' <= Waiting(r, c) /\ Waiting(r, c)' \in Nat
  <2>1. Count(source[r].commands, {c}) \in Nat /\ Hand(r, c) = 0 /\ Hand(r, c)' = 0
    BY <1>2, <1>3, HandType, WaitingType DEF Accounts, Hand, scans
  <2>2. CASE r = s
    <3>1. Count(T.commands, {c}) = 0
      BY <1>5, <1>8
    <3> QED
      BY <1>14, <2>1, <2>2, <3>1 DEF Waiting
  <2>3. CASE r # s
    BY <1>14, <2>1, <2>3 DEF Waiting
  <2> QED
    BY <2>2, <2>3
<1>19. Ordered'
  <2>1. Probing' /\ Tasking'
    BY <1>2, <1>18, WaitingLess DEF Accounts, Ordered, works
  <2> QED
    BY <1>2, <2>1 DEF Accounts, Ordered, HeldLate, HandEmpty, works, scans
<1>20. Submitted'
  <2>1. life' = life /\ \A r \in Source : client'[r] = "none" => client[r] = "none"
    BY <1>2 DEF works, Accounts, Shapes
  <2> QED
    BY <2>1, SourcesAssumption DEF Accounts, Submitted
<1> QED
  BY <1>14, <1>15, <1>17, <1>19, <1>20 DEF Accounts

(* scamper_sources_empty: the lines of what is flushed are gone, and no    *)
(* task with them.                                                         *)
LEMMA FlushAccounts ==
  ASSUME Accounts, ShutdownFlush
  PROVE  Accounts'
<1> DEFINE F == {s \in Source : rota.list[s] \in {"active", "blocked"}}
<1>1. /\ source' = [s \in Source |->
           CASE s \in F                     -> Detach(FlushCommands(source[s]))
             [] rota.list[s] = "finished"   -> Detach(source[s])
             [] OTHER                       -> source[s]]
      /\ life' = [t \in Task |-> IF life[t] = "line" /\ SourceOf[t] \in F
                                 THEN "freed" ELSE life[t]]
      /\ UNCHANGED <<client, uses, onhold, installed, done_queue, scans, loops, fault>>
      /\ pc = "poll"
  BY DEF ShutdownFlush, Polling
<1>2. \A s \in Source :
        /\ s \in F => source'[s] = Detach(FlushCommands(source[s]))
        /\ s \notin F => source'[s] \in {source[s], Detach(source[s])}
  BY <1>1
<1>16. DOMAIN source' = Source /\ source' = [s \in Source |-> source'[s]]
  BY <1>1
<1> HIDE DEF F
<1>3. ASSUME NEW s \in Source
      PROVE  /\ Kept(source[s], source'[s]) /\ Balanced(source'[s], Refs(s), Uses(s))
             /\ s \in F => source'[s].commands = <<>>
  <2>1. source[s] \in Shape /\ Uses(s) \in Nat /\ Refs(s) \in Nat
        /\ Balanced(source[s], Refs(s), Uses(s))
    BY UsesType
  <2>2. PICK S : S = FlushCommands(source[s])
    OBVIOUS
  <2>3. Kept(source[s], S) /\ S.commands = <<>> /\ Balanced(S, Refs(s), Uses(s)) /\ S \in Shape
    BY <2>1, <2>2, FlushKept DEF Kept
  <2>4. CASE s \in F
    <3>1. source'[s] = Detach(S)
      BY <1>2, <2>2, <2>4
    <3>2. Kept(S, Detach(S)) /\ Balanced(Detach(S), Refs(s), Uses(s))
      BY <2>1, <2>3, DetachKept
    <3> QED
      BY <2>3, <3>1, <3>2 DEF Kept
  <2>5. CASE s \notin F
    <3>1. source'[s] \in {source[s], Detach(source[s])}
      BY <1>2, <2>5
    <3>2. Kept(source[s], Detach(source[s])) /\ Balanced(Detach(source[s]), Refs(s), Uses(s))
      BY <2>1, DetachKept
    <3> QED
      BY <2>1, <2>5, <3>1, <3>2 DEF Kept
  <2> QED
    BY <2>4, <2>5
<1>4. source' \in [Source -> Shape]
  <2>1. \A s \in Source : source'[s] \in Shape
    BY <1>3 DEF Kept
  <2> QED
    BY <1>16, <2>1
<1>5. life \in [Task -> {"new", "line", "alive", "freed"}]
  BY DEF Accounts, Shapes
<1>6. \A t \in Task : /\ life'[t] = "alive" <=> life[t] = "alive"
                      /\ life'[t] = "new" <=> life[t] = "new"
                      /\ life'[t] \in Early => life[t] \in Early
                      /\ SourceOf[t] \notin F => life'[t] = life[t]
  BY <1>1, <1>5 DEF Early
<1>7. Shapes'
  <2>1. life' \in [Task -> {"new", "line", "alive", "freed"}]
    BY <1>1, <1>5
  <2> QED
    BY <1>1, <1>4, <2>1 DEF Accounts, Shapes, scans
<1>8. Ledger'
  <2>1. \A s \in Source : Refs(s)' = Refs(s) /\ Uses(s)' = Uses(s)
    BY <1>1 DEF Refs, Uses, Of, scans
  <2> QED
    BY <1>3, <2>1 DEF Ledger
<1>9. Living'
  <2>1. Listed'
    BY <1>3, <1>6, ListedSame DEF Accounts, Living, Kept
  <2>2. Alive' /\ Blocking'
    BY <1>1, <1>6 DEF Accounts, Living, Alive, Blocking, Shapes
  <2>3. DoneOnce'
    <3> SUFFICES ASSUME NEW u \in Task
                 PROVE  Count(done_queue', {u}) + (IF freeing' = u THEN 1 ELSE 0)
                        <= IF life'[u] = "alive" THEN 1 ELSE 0
      BY DEF DoneOnce
    <3>1. Count(done_queue, {u}) + (IF freeing = u THEN 1 ELSE 0)
          <= IF life[u] = "alive" THEN 1 ELSE 0
      BY DEF Accounts, Living, DoneOnce
    <3>2. done_queue' = done_queue /\ freeing' = freeing
      BY <1>1 DEF loops
    <3>3. life'[u] = "alive" <=> life[u] = "alive"
      BY <1>6
    <3> QED
      BY <3>1, <3>2, <3>3
  <2> QED
    BY <2>1, <2>2, <2>3 DEF Living
<1>10. cmd = NoCmd /\ cmd' = NoCmd
  BY <1>1 DEF Accounts, Ordered, HandEmpty, scans
<1>11. ASSUME NEW r \in Source, NEW u \in Task, NEW c \in {ProbeCmd(u), TaskCmd(u)}
       PROVE  /\ Waiting(r, c)' = Waiting(r, c) \/ Waiting(r, c)' = 0
              /\ r \in F => Waiting(r, c)' = 0
              /\ Waiting(r, c) \in Nat
  <2>1. Count(source[r].commands, {c}) \in Nat /\ Count(<<>>, {c}) = 0
    BY WaitingType, CountEmpty DEF Accounts
  <2>2. Hand(r, c) = 0 /\ Hand(r, c)' = 0
    BY <1>10 DEF Hand, NoCmd, ProbeCmd, TaskCmd
  <2>3. source'[r].commands = source[r].commands \/ source'[r].commands = <<>>
    BY <1>3 DEF Kept
  <2>4. r \in F => source'[r].commands = <<>>
    BY <1>3
  <2> QED
    BY <2>1, <2>2, <2>3, <2>4 DEF Waiting
<1>12. Probing'
  <2> SUFFICES ASSUME NEW r \in Source, NEW u \in Task
               PROVE  Waiting(r, ProbeCmd(u))' <= IF SourceOf[u] = r /\ life'[u] = "line" THEN 1 ELSE 0
    BY DEF Probing
  <2>1. Waiting(r, ProbeCmd(u)) <= IF SourceOf[u] = r /\ life[u] = "line" THEN 1 ELSE 0
    BY DEF Accounts, Ordered, Probing
  <2>2. /\ Waiting(r, ProbeCmd(u))' = Waiting(r, ProbeCmd(u)) \/ Waiting(r, ProbeCmd(u))' = 0
        /\ r \in F => Waiting(r, ProbeCmd(u))' = 0
    BY <1>11
  <2>3. SourceOf[u] \notin F => life'[u] = life[u]
    BY <1>6
  <2> QED
    BY <2>1, <2>2, <2>3
<1>13. Tasking'
  <2> SUFFICES ASSUME NEW r \in Source, NEW u \in Task, SourceOf[u] # r \/ life'[u] \in Early
               PROVE  Waiting(r, TaskCmd(u))' = 0
    BY DEF Tasking
  <2>1. SourceOf[u] # r \/ life[u] \in Early
    BY <1>6
  <2>2. Waiting(r, TaskCmd(u)) = 0
    BY <2>1 DEF Accounts, Ordered, Tasking
  <2>3. Waiting(r, TaskCmd(u))' = Waiting(r, TaskCmd(u)) \/ Waiting(r, TaskCmd(u))' = 0
    BY <1>11
  <2> QED
    BY <2>2, <2>3
<1>14. Ordered'
  <2>1. HeldLate'
    BY <1>1, <1>6 DEF Accounts, Ordered, HeldLate
  <2> QED
    BY <1>10, <1>12, <1>13, <2>1 DEF Ordered, HandEmpty
<1>15. Submitted'
  BY <1>1, <1>6, SubmitsTask DEF Accounts, Submitted
<1> QED
  BY <1>7, <1>8, <1>9, <1>14, <1>15 DEF Accounts

(* A task that was on hold waits again, first in its source.               *)
LEMMA UnholdAccounts ==
  ASSUME Accounts, Scope, Unhold
  PROVE  Accounts'
<1>1. PICK b \in Task : b = freeing
  BY DEF Unhold, Scope
<1>2. PICK t \in Task : t = Last(onhold[b])
  BY <1>1, HeldTask DEF Unhold
<1>3. PICK s \in Source : s = SourceOf[t]
  BY SourcesAssumption
<1>4. CASE ~source[s].open
  BY <1>1, <1>2, <1>3, <1>4, CrashAccounts DEF Unhold, Faults
<1>5. CASE source[s].open
  <2>1. PICK S : S = source[s]
    OBVIOUS
  <2>2. PICK T : T = PushHead(S, TaskCmd(t))
    OBVIOUS
  <2>3. /\ onhold[b] # <<>> /\ onhold' = [onhold EXCEPT ![b] = Front(onhold[b])]
        /\ source' = [source EXCEPT ![s] = T]
        /\ UNCHANGED <<client, life, uses, installed, done_queue, scans, loops, fault>>
    BY <1>1, <1>2, <1>3, <1>5, <2>1, <2>2 DEF Unhold, Accounts, Shapes, Scope
  <2>4. onhold[b] \in Seq(Task) /\ onhold \in [Task -> Seq(Task)]
    BY DEF Scope
  <2>5. life[t] \notin Early
    <3>1. Len(onhold[b]) \in DOMAIN onhold[b] /\ onhold[b][Len(onhold[b])] = t
      BY <1>2, <2>3, <2>4 DEF Last
    <3>2. Count(onhold[b], {t}) # 0
      BY <2>4, <3>1, CountType
    <3> QED
      BY <3>2 DEF Accounts, Ordered, HeldLate
  <2>6. S \in Shape /\ Uses(s) \in Nat /\ Refs(s) \in Nat /\ Balanced(S, Refs(s), Uses(s))
    BY <2>1, UsesType
  <2>7. /\ T \in Shape /\ T.tasks = S.tasks /\ Balanced(T, Refs(s), Uses(s))
        /\ \A P : TaskCmd(t) \notin P => Count(T.commands, P) = Count(S.commands, P)
    <3>1. /\ T \in Shape /\ T.tasks = S.tasks
          /\ \A P : TaskCmd(t) \notin P => Count(T.commands, P) = Count(S.commands, P)
          /\ \A c, u \in Nat : Balanced(S, c, u) => Balanced(T, c, u)
      BY ONLY t \in Task, <2>2, <2>6, PushKept
    <3> QED
      BY <2>6, <3>1
  <2>8. \A r \in Source : Refs(r)' = Refs(r) /\ Uses(r)' = Uses(r)
    BY <2>3 DEF Refs, Uses, Of, scans
  <2>9. /\ source' \in [Source -> Shape] /\ source'[s] = T /\ Ledger'
        /\ \A r \in Source \ {s} : source'[r] = source[r]
    BY <2>3, <2>7, <2>8, LedgerOne
  <2>10. Shapes'
    BY <2>3, <2>9 DEF Accounts, Shapes, scans
  <2>11. onhold'[b] = Front(onhold[b]) /\ \A c \in Task \ {b} : onhold'[c] = onhold[c]
    BY <2>3, <2>4
  <2>12. Living'
    <3>1. \A r \in Source : source'[r].tasks = source[r].tasks
      BY <2>1, <2>7, <2>9
    <3>2. Listed'
      BY <2>3, <3>1, ListedSame DEF Accounts, Living
    <3>3. Alive' /\ DoneOnce'
      BY <2>3 DEF Accounts, Living, Alive, DoneOnce, loops
    <3>4. Blocking'
      BY <2>3, <2>11 DEF Accounts, Living, Blocking
    <3> QED
      BY <3>2, <3>3, <3>4 DEF Living
  <2>13. ASSUME NEW r \in Source, NEW c, r = s => c # TaskCmd(t)
         PROVE  Waiting(r, c)' = Waiting(r, c)
    <3>1. Hand(r, c)' = Hand(r, c)
      BY <2>3 DEF Hand, scans
    <3>2. Count(source'[r].commands, {c}) = Count(source[r].commands, {c})
      BY <2>1, <2>7, <2>9, <2>13
    <3> QED
      BY <3>1, <3>2 DEF Waiting
  <2>14. \A u : ProbeCmd(u) # TaskCmd(t) /\ (TaskCmd(u) = TaskCmd(t) => u = t)
    BY DEF ProbeCmd, TaskCmd
  <2>15. Probing'
    BY <2>3, <2>13, <2>14 DEF Accounts, Ordered, Probing
  <2>16. Tasking'
    BY <1>3, <2>3, <2>5, <2>13, <2>14 DEF Accounts, Ordered, Tasking
  <2>17. HeldLate'
    <3> SUFFICES ASSUME NEW u \in Task, NEW c \in Task, life'[u] \in Early
                 PROVE  Count(onhold'[c], {u}) = 0
      BY DEF HeldLate
    <3>1. Count(onhold[c], {u}) = 0
      BY <2>3 DEF Accounts, Ordered, HeldLate
    <3>2. u # t
      BY <2>3, <2>5
    <3>3. Last(onhold[b]) # u => Count(Front(onhold[b]), {u}) = Count(onhold[b], {u})
      BY <2>3, <2>4, OneLast
    <3> QED
      BY <1>2, <2>11, <3>1, <3>2, <3>3
  <2>18. Ordered' /\ Submitted'
    BY <2>3, <2>15, <2>16, <2>17 DEF Accounts, Ordered, HandEmpty, Submitted, scans
  <2> QED
    BY <2>9, <2>10, <2>12, <2>18 DEF Accounts
<1> QED
  BY <1>4, <1>5

-----------------------------------------------------------------------------
(* What gettask has not started it may free: a list that the task leaves.  *)
LEMMA LeaveLists ==
  ASSUME Scope, Blocking, NEW t \in Task, onhold[t] = <<>>,
         onhold' = [b \in Task |-> Without(onhold[b], t)],
         installed' = installed \ {t}
  PROVE  /\ Blocking'
         /\ \A u, b \in Task : Count(onhold[b], {u}) = 0 => Count(onhold'[b], {u}) = 0
<1>1. \A b \in Task : onhold[b] \in Seq(Task)
  BY DEF Scope
<1>2. ASSUME NEW b \in Task, onhold'[b] # <<>>
      PROVE  onhold[b] # <<>>
  <2>1. Places(<<>>, t) = {}
    BY DEF Places
  <2> QED
    BY <1>2, <2>1 DEF Without
<1>3. Blocking'
  BY <1>2 DEF Blocking
<1>4. ASSUME NEW u \in Task, NEW b \in Task, Count(onhold[b], {u}) = 0
      PROVE  Count(onhold'[b], {u}) = 0
  <2>1. PICK q : q = onhold[b]
    OBVIOUS
  <2>2. q \in Seq(Task) /\ Count(q, {u}) = 0
    BY <1>1, <1>4, <2>1
  <2>3. Count(Without(q, t), {u}) = Count(q, {u})
    BY ONLY <2>2, WithoutOne, ZenonT(60)
  <2> QED
    BY <1>4, <2>1, <2>2, <2>3
<1> QED
  BY <1>3, <1>4

(* A source loses a task and the task's references, its own and the one to *)
(* the cycle monitor.                                                      *)
LoseTask(S, t, k) ==
  [S EXCEPT !.tasks = Without(@, t), !.refcnt = @ - 1, !.cm = @ - k]

LEMMA LoseTaskKept ==
  ASSUME NEW S \in Shape, NEW t \in Task, Count(S.tasks, {t}) = 1, NEW k \in {0, 1},
         NEW T, T = LoseTask(S, t, k)
  PROVE  /\ T \in Shape /\ T.commands = S.commands /\ T.open = S.open /\ T.eof = S.eof
         /\ T.tasks = Without(S.tasks, t)
         /\ \A c, u \in Nat : Balanced(S, c, u + k) => Balanced(T, c, u)
<1>1. PICK q : q = Without(S.tasks, t)
  OBVIOUS
<1>2. S.tasks \in Seq(Task) /\ S.refcnt \in Int /\ S.cm \in Int
  BY DEF Shape
<1>3. q \in Seq(Task)
  BY <1>1, <1>2, WithoutSeq
<1>4. Len(q) = Len(S.tasks) - 1
  <2>1. Count(S.tasks, {t}) # 0 /\ t \in Task => Count(Without(S.tasks, t), Task) = Count(S.tasks, Task) - 1
    BY <1>2, WithoutCount, ZenonT(60)
  <2>2. Count(q, Task) = Len(q) /\ Count(S.tasks, Task) = Len(S.tasks)
    BY <1>2, <1>3, CountAll
  <2> QED
    BY <1>1, <2>1, <2>2
<1>10. PICK x \in Int : x = S.refcnt - 1
  BY <1>2
<1>6. PICK y \in Int : y = S.cm - k
  BY <1>2
<1>5. T = [S EXCEPT !.tasks = q, !.refcnt = x, !.cm = y]
  BY <1>1, <1>6, <1>10 DEF Shape, LoseTask
<1>7. T \in Shape
  <2>1. PICK V : V = [S EXCEPT !.tasks = q, !.refcnt = x]
    OBVIOUS
  <2>2. V \in Shape
    BY <1>3, <2>1, ShapeSets
  <2>3. T = [V EXCEPT !.cm = y]
    BY <1>5, <2>1
  <2> QED
    BY <2>2, <2>3, ShapeSet
<1>8. /\ T.tasks = q /\ T.refcnt = S.refcnt - 1 /\ T.cm = S.cm - k /\ T.commands = S.commands
      /\ T.open = S.open /\ T.eof = S.eof /\ T.tree = S.tree /\ T.cyclemon = S.cyclemon
  BY <1>5, <1>6, <1>10 DEF Shape
<1>9. ASSUME NEW c \in Nat, NEW u \in Nat, Balanced(S, c, u + k)
      PROVE  Balanced(T, c, u)
  <2>1. /\ Flag(S.tree) \in {0, 1} /\ Flag(S.cyclemon) \in {0, 1}
        /\ Flag(T.tree) = Flag(S.tree) /\ Flag(T.cyclemon) = Flag(S.cyclemon)
    BY <1>8, FlagType
  <2>2. Len(S.tasks) \in Nat /\ Count(S.commands, ProbeSet) \in Nat
    BY Countable
  <2>3. /\ S.refcnt = Len(S.tasks) + Flag(S.tree) + c
        /\ S.cm = Flag(S.cyclemon) + Count(S.commands, ProbeSet) + (u + k)
    BY <1>9 DEF Balanced
  <2>6. Len(T.tasks) = Len(S.tasks) - 1
    BY <1>4, <1>8
  <2>4. T.refcnt = Len(T.tasks) + Flag(T.tree) + c
    <3>1. PICK f \in {0, 1} : f = Flag(S.tree) /\ f = Flag(T.tree)
      BY <2>1
    <3>2. PICK n \in Nat : n = Len(S.tasks) /\ Len(T.tasks) = n - 1
      BY <2>2, <2>6
    <3>3. S.refcnt = n + f + c /\ T.refcnt = S.refcnt - 1
      BY <1>8, <2>3, <3>1, <3>2
    <3>4. T.refcnt = (n - 1) + f + c
      BY <3>3
    <3> QED
      BY <3>1, <3>2, <3>4
  <2>5. T.cm = Flag(T.cyclemon) + Count(T.commands, ProbeSet) + u
    BY <1>2, <1>8, <2>1, <2>2, <2>3
  <2> QED
    BY <1>8, <1>9, <2>4, <2>5 DEF Balanced
<1> QED
  BY <1>1, <1>7, <1>8, <1>9

(* A task is freed: off the lists, the monitor and its source.             *)
LEMMA FreeAccounts ==
  ASSUME Accounts, Scope, FreeTask
  PROVE  Accounts'
<1>1. PICK t \in Task : t = freeing
  BY DEF FreeTask, Scope
<1>2. PICK s \in Source : s = SourceOf[t]
  BY SourcesAssumption
<1>3. PICK R : R = source[s]
  OBVIOUS
<1>4. PICK k \in {0, 1} : k = IF t \in uses THEN 1 ELSE 0
  OBVIOUS
<1>5. PICK S : S = LoseTask(R, t, k)
  OBVIOUS
<1>6. onhold[t] = <<>> /\ IF S.refcnt = 0 THEN Crash("freed_source") ELSE
        /\ SourceTaskFree(s, S)
        /\ life' = [life EXCEPT ![t] = "freed"]
        /\ uses' = uses \ {t}
        /\ onhold' = [b \in Task |-> Without(onhold[b], t)]
        /\ installed' = installed \ {t}
        /\ freeing' = NoTask
        /\ UNCHANGED <<client, done_queue, scans, abandoning>>
  BY <1>1, <1>2, <1>3, <1>4, <1>5 DEF FreeTask, LoseTask
<1>7. CASE S.refcnt = 0
  BY <1>6, <1>7, CrashAccounts DEF Faults
<1>8. CASE S.refcnt # 0
  <2>1. /\ SourceTaskFree(s, S)
        /\ life' = [life EXCEPT ![t] = "freed"] /\ uses' = uses \ {t}
        /\ onhold' = [b \in Task |-> Without(onhold[b], t)]
        /\ installed' = installed \ {t} /\ freeing' = NoTask
        /\ UNCHANGED <<client, done_queue, scans, abandoning>>
    BY <1>6, <1>8
  <2>2. /\ Count(done_queue, {t}) = 0 /\ life[t] = "alive" /\ Count(R.tasks, {t}) = 1
    <3>1. Count(done_queue, {t}) \in Nat
      BY CountType DEF Accounts, Shapes
    <3>2. Count(done_queue, {t}) + 1 <= IF life[t] = "alive" THEN 1 ELSE 0
      BY <1>1 DEF Accounts, Living, DoneOnce
    <3>3. Count(done_queue, {t}) = 0 /\ life[t] = "alive"
      BY <3>1, <3>2
    <3> QED
      BY <1>2, <1>3, <3>3 DEF Accounts, Living, Listed
  <2>3. R \in Shape /\ Uses(s) \in Nat /\ Refs(s) \in Nat /\ Balanced(R, Refs(s), Uses(s))
    BY <1>3, UsesType
  <2>4. IsFiniteSet(uses) /\ uses \subseteq Task /\ installed \subseteq Task
        /\ life \in [Task -> {"new", "line", "alive", "freed"}]
    BY DEF Accounts, Shapes
  <2>5. ASSUME NEW r \in Source
        PROVE  /\ Refs(r)' = Refs(r) /\ Uses(r)' \in Nat
               /\ r = s => Uses(r) = Uses(r)' + k
               /\ r # s => Uses(r)' = Uses(r)
    <3>1. /\ Cardinality(Of(uses \ {t}, r)) \in Nat
          /\ t \in uses /\ SourceOf[t] = r
             => Cardinality(Of(uses \ {t}, r)) = Cardinality(Of(uses, r)) - 1
          /\ ~(t \in uses /\ SourceOf[t] = r)
             => Cardinality(Of(uses \ {t}, r)) = Cardinality(Of(uses, r))
      BY <2>4, OfRemove
    <3>2. Cardinality(Of(uses, r)) \in Nat
      BY <2>4, OfAdd
    <3>3. PICK f \in {0, 1} : f = Flag(src = r /\ cmd.type = "probe")
      BY FlagType
    <3>4. Uses(r) = Cardinality(Of(uses, r)) + f /\ Uses(r)' = Cardinality(Of(uses \ {t}, r)) + f
      BY <2>1, <3>3 DEF Uses, Of, Flag, scans
    <3>5. Refs(r)' = Refs(r)
      BY <2>1 DEF Refs
    <3>6. r = s => Cardinality(Of(uses, r)) = Cardinality(Of(uses \ {t}, r)) + k
      BY <1>2, <1>4, <3>1, <3>2
    <3>7. r # s => Cardinality(Of(uses, r)) = Cardinality(Of(uses \ {t}, r))
      BY <1>2, <3>1, <3>2
    <3> QED
      BY <3>1, <3>2, <3>4, <3>5, <3>6, <3>7
  <2>6. /\ S \in Shape /\ S.commands = R.commands /\ S.tasks = Without(R.tasks, t)
        /\ Balanced(S, Refs(s), Uses(s)')
    <3>1. Balanced(R, Refs(s), Uses(s)' + k) /\ Uses(s)' \in Nat
      BY <2>3, <2>5
    <3>2. /\ S \in Shape /\ S.commands = R.commands /\ S.tasks = Without(R.tasks, t)
          /\ \A c, u \in Nat : Balanced(R, c, u + k) => Balanced(S, c, u)
      BY ONLY <1>5, <2>2, <2>3, t \in Task, k \in {0, 1}, LoseTaskKept
    <3> QED
      BY <2>3, <3>1, <3>2
  <2>7. PICK T : /\ source' = [source EXCEPT ![s] = T] /\ Kept(S, T)
                 /\ Balanced(T, Refs(s), Uses(s)')
    <3>1. Uses(s)' \in Nat
      BY <2>5
    <3>2. CASE IsFinished(S)
      <4>1. PICK U : U = Unuse(S)
        OBVIOUS
      <4>2. source' = [source EXCEPT ![s] = Detach(U)]
        BY <2>1, <3>2, <4>1 DEF SourceTaskFree
      <4>3. Kept(S, U) /\ Balanced(U, Refs(s), Uses(s)') /\ U \in Shape
        BY <2>3, <2>6, <3>1, <3>2, <4>1, UnuseKept DEF IsFinished, Kept
      <4>4. Kept(U, Detach(U)) /\ Balanced(Detach(U), Refs(s), Uses(s)')
        BY <2>3, <3>1, <4>3, DetachKept
      <4>5. Kept(S, Detach(U))
        BY <4>3, <4>4 DEF Kept
      <4> QED
        BY <4>2, <4>4, <4>5
    <3>3. CASE ~IsFinished(S)
      <4>1. source' = [source EXCEPT ![s] = S] /\ Kept(S, S)
        BY <2>1, <2>6, <3>3 DEF SourceTaskFree, Kept
      <4> QED
        BY <2>6, <4>1
    <3> QED
      BY <3>2, <3>3
  <2>8. T \in Shape /\ T.tasks = Without(R.tasks, t)
        /\ (T.commands = R.commands \/ T.commands = <<>>)
    BY <2>6, <2>7 DEF Kept
  <2>9. /\ source' \in [Source -> Shape] /\ source'[s] = T /\ Ledger'
        /\ \A r \in Source \ {s} : source'[r] = source[r]
    <3>1. Balanced(T, Refs(s)', Uses(s)')
      BY <2>5, <2>7
    <3>2. \A r \in Source \ {s} : Refs(r)' = Refs(r) /\ Uses(r)' = Uses(r)
      BY <2>5
    <3> QED
      BY <2>7, <2>8, <3>1, <3>2, LedgerOne
  <2>10. life'[t] = "freed" /\ \A u \in Task \ {t} : life'[u] = life[u]
    BY <2>1, <2>4
  <2>11. Shapes'
    <3>1. IsFiniteSet(uses') /\ uses' \subseteq Task /\ installed' \subseteq Task
      BY <2>1, <2>4, OfRemove
    <3>2. life' \in [Task -> {"new", "line", "alive", "freed"}]
      BY <2>1, <2>4
    <3>3. fault' \in Faults
      BY <2>1 DEF SourceTaskFree, Faults, Accounts, Shapes
    <3> QED
      BY <2>1, <2>9, <3>1, <3>2, <3>3 DEF Accounts, Shapes, scans
  <2>12. Listed'
    <3> SUFFICES ASSUME NEW r \in Source, NEW u \in Task
                 PROVE  Count(source'[r].tasks, {u})
                        = IF SourceOf[u] = r /\ life'[u] = "alive" THEN 1 ELSE 0
      BY DEF Listed
    <3>1. Count(source[r].tasks, {u}) = IF SourceOf[u] = r /\ life[u] = "alive" THEN 1 ELSE 0
      BY DEF Accounts, Living, Listed
    <3>2. CASE r = s
      <4>1. R.tasks \in Seq(Task)
        BY <2>3 DEF Shape
      <4>2. /\ t = u /\ Count(R.tasks, {u}) # 0 => Count(Without(R.tasks, t), {u}) = Count(R.tasks, {u}) - 1
            /\ t # u => Count(Without(R.tasks, t), {u}) = Count(R.tasks, {u})
        BY ONLY <4>1, WithoutOne
      <4>3. CASE u = t
        BY <1>2, <2>2, <2>8, <2>9, <2>10, <3>2, <4>2, <4>3
      <4>4. CASE u # t
        BY <1>3, <2>8, <2>9, <2>10, <3>1, <3>2, <4>2, <4>4
      <4> QED
        BY <4>3, <4>4
    <3>3. CASE r # s
      <4>1. Count(source'[r].tasks, {u}) = Count(source[r].tasks, {u})
        BY <2>9, <3>3
      <4>2. SourceOf[u] = r => life'[u] = life[u]
        BY <1>2, <2>10, <3>3
      <4> QED
        BY <3>1, <4>1, <4>2
    <3> QED
      BY <3>2, <3>3
  <2>13. /\ Blocking'
         /\ \A u, b \in Task : Count(onhold[b], {u}) = 0 => Count(onhold'[b], {u}) = 0
    BY <1>6, <2>1, LeaveLists DEF Accounts, Living
  <2>14. DoneOnce'
    <3> SUFFICES ASSUME NEW u \in Task
                 PROVE  Count(done_queue', {u}) + (IF freeing' = u THEN 1 ELSE 0)
                        <= IF life'[u] = "alive" THEN 1 ELSE 0
      BY DEF DoneOnce
    <3>1. Count(done_queue, {u}) + (IF freeing = u THEN 1 ELSE 0)
          <= IF life[u] = "alive" THEN 1 ELSE 0
      BY DEF Accounts, Living, DoneOnce
    <3>2. Count(done_queue, {u}) \in Nat
      BY CountType DEF Accounts, Shapes
    <3>3. done_queue' = done_queue /\ freeing' # u
      BY <2>1, SourcesAssumption
    <3>4. CASE u = t
      BY <2>2, <2>10, <3>3, <3>4
    <3>5. CASE u # t
      BY <1>1, <2>10, <3>1, <3>2, <3>3, <3>5
    <3> QED
      BY <3>4, <3>5
  <2>15. Living'
    <3>1. Alive'
      BY <2>1, <2>10 DEF Accounts, Living, Alive
    <3> QED
      BY <2>12, <2>13, <2>14, <3>1 DEF Living
  <2>16. ASSUME NEW r \in Source, NEW c
         PROVE  /\ Waiting(r, c)' <= Waiting(r, c) /\ Waiting(r, c)' \in Nat
                /\ Waiting(r, c) \in Nat
    <3>1. Count(source[r].commands, {c}) \in Nat /\ Count(<<>>, {c}) = 0
      BY WaitingType, CountEmpty DEF Accounts
    <3>2. source'[r].commands = source[r].commands \/ source'[r].commands = <<>>
      BY <1>3, <2>8, <2>9
    <3>3. Hand(r, c)' = Hand(r, c) /\ Hand(r, c) \in {0, 1}
      BY <2>1, HandType DEF Hand, scans
    <3> QED
      BY <3>1, <3>2, <3>3 DEF Waiting
  <2>17. Probing'
    <3> SUFFICES ASSUME NEW r \in Source, NEW u \in Task
                 PROVE  Waiting(r, ProbeCmd(u))' <= IF SourceOf[u] = r /\ life'[u] = "line" THEN 1 ELSE 0
      BY DEF Probing
    <3>1. Waiting(r, ProbeCmd(u)) <= IF SourceOf[u] = r /\ life[u] = "line" THEN 1 ELSE 0
      BY DEF Accounts, Ordered, Probing
    <3>2. /\ Waiting(r, ProbeCmd(u))' <= Waiting(r, ProbeCmd(u))
          /\ Waiting(r, ProbeCmd(u))' \in Nat /\ Waiting(r, ProbeCmd(u)) \in Nat
      BY <2>16
    <3>3. life[u] = "line" => life'[u] = "line"
      BY <2>2, <2>10
    <3> QED
      BY <3>1, <3>2, <3>3
  <2>18. Tasking'
    <3> SUFFICES ASSUME NEW r \in Source, NEW u \in Task, SourceOf[u] # r \/ life'[u] \in Early
                 PROVE  Waiting(r, TaskCmd(u))' = 0
      BY DEF Tasking
    <3>1. SourceOf[u] # r \/ life[u] \in Early
      BY <2>10 DEF Early
    <3>2. Waiting(r, TaskCmd(u)) = 0
      BY <3>1 DEF Accounts, Ordered, Tasking
    <3>3. Waiting(r, TaskCmd(u))' <= Waiting(r, TaskCmd(u)) /\ Waiting(r, TaskCmd(u))' \in Nat
      BY <2>16
    <3> QED
      BY <3>2, <3>3
  <2>19. Ordered'
    <3>1. \A u \in Task : life'[u] \in Early => life[u] \in Early
      BY <2>10 DEF Early
    <3>2. HeldLate'
      BY <2>13, <3>1 DEF Accounts, Ordered, HeldLate
    <3> QED
      BY <2>1, <2>17, <2>18, <3>2 DEF Accounts, Ordered, HandEmpty, scans
  <2>20. Submitted'
    <3>1. \A u \in Task : life'[u] = "new" <=> life[u] = "new"
      BY <2>2, <2>10
    <3> QED
      BY <2>1, <3>1, SubmitsTask DEF Accounts, Submitted
  <2> QED
    BY <2>9, <2>11, <2>15, <2>19, <2>20 DEF Accounts
<1> QED
  BY <1>7, <1>8

-----------------------------------------------------------------------------
(* A client's measurement: a task with a command that waits.               *)
LEMMA CommandAccounts ==
  ASSUME Accounts, NEW s \in Source, NEW t \in Task, Command2(s, t)
  PROVE  Accounts'
<1>1. CASE ~source[s].open
  BY <1>1, CrashAccounts DEF Command2, Faults
<1>2. CASE source[s].open
  <2>1. PICK R : R = source[s]
    OBVIOUS
  <2>2. R \in Shape /\ Uses(s) \in Nat /\ Refs(s) \in Nat /\ Balanced(R, Refs(s), Uses(s))
    BY <2>1, UsesType
  <2>3. client[s] = "attached" /\ R.open
    BY <1>2, <2>1 DEF Command2
  <2>4. PICK A : A = AddTask(R, t)
    OBVIOUS
  <2>5. PICK S : S = Push(A, TaskCmd(t))
    OBVIOUS
  <2>6. PICK T : T = IF R.cyclemon THEN [S EXCEPT !.cm = S.cm + 1] ELSE S
    OBVIOUS
  <2>7. /\ source' = [source EXCEPT ![s] = T]
        /\ uses' = IF R.cyclemon THEN uses \cup {t} ELSE uses
        /\ life' = [life EXCEPT ![t] = "alive"]
        /\ UNCHANGED <<client, onhold, installed, done_queue, scans, freeing, fault>>
    BY <1>2, <2>1, <2>3, <2>4, <2>5, <2>6 DEF Command2, loops
  <2>8. NextOf(s, <<t>>)
    <3>1. PICK q : q = SubSeq(Unsent(s), 1, 1)
      OBVIOUS
    <3>2. 1 \in 0 .. Len(Unsent(s)) /\ q = <<t>>
      BY <3>1, UnsentSeq DEF Command2
    <3> QED
      BY <3>1, <3>2, NextLines DEF Accounts
  <2>9. \A u : Member(<<t>>, u) <=> u = t
    BY DEF Member
  <2>10. SourceOf[t] = s /\ life[t] = "new" /\ t \notin uses \cup installed
    BY <2>8, <2>9 DEF NextOf, Accounts, Living, Alive
  <2>11. /\ A \in Shape /\ A.commands = R.commands /\ A.tasks = Append(R.tasks, t)
         /\ A.cyclemon = R.cyclemon /\ Balanced(A, Refs(s), Uses(s))
    BY <2>2, <2>4, AddTaskKept
  <2>12. /\ S \in Shape /\ S.tasks = A.tasks /\ S.cyclemon = A.cyclemon
         /\ \A P : TaskCmd(t) \notin P => Count(S.commands, P) = Count(A.commands, P)
         /\ Balanced(S, Refs(s), Uses(s))
    BY <2>2, <2>5, <2>11, PushKept
  <2>13. PICK d \in {0, 1} : d = Flag(R.cyclemon)
    BY FlagType
  <2>14. /\ T \in Shape /\ T.commands = S.commands /\ T.tasks = S.tasks
         /\ Balanced(T, Refs(s), Uses(s) + d)
    <3>0. S.cm \in Int /\ S.cm + 1 \in Int
      <4>1. S.cm \in Int
        BY <2>12 DEF Shape
      <4> QED
        BY <4>1
    <3>1. CASE ~R.cyclemon
      <4>1. T = S /\ d = 0
        BY <2>6, <2>13, <3>1 DEF Flag
      <4>2. Uses(s) + d = Uses(s)
        BY <2>2, <4>1
      <4> QED
        BY <2>12, <4>1, <4>2
    <3>2. CASE R.cyclemon
      <4>0. T = [S EXCEPT !.cm = S.cm + 1] /\ d = 1
        BY <2>6, <2>13, <3>2 DEF Flag
      <4>1. T \in Shape
        BY <2>12, <3>0, <4>0, ShapeSet
      <4>2. /\ T.commands = S.commands /\ T.tasks = S.tasks /\ T.refcnt = S.refcnt
            /\ T.tree = S.tree /\ T.open = S.open /\ T.eof = S.eof /\ T.cyclemon = S.cyclemon
            /\ T.cm = S.cm + 1
        BY <2>12, <4>0 DEF Shape
      <4>3. PICK f \in {0, 1} : f = Flag(S.cyclemon) /\ f = Flag(T.cyclemon)
        BY <4>2, FlagType
      <4>4. PICK n \in Nat : n = Count(S.commands, ProbeSet) /\ n = Count(T.commands, ProbeSet)
        BY <2>12, <4>2, Countable
      <4>5. S.cm = f + n + Uses(s)
        BY <2>12, <4>3, <4>4 DEF Balanced
      <4>6. T.cm = f + n + (Uses(s) + d)
        BY <2>2, <4>0, <4>2, <4>5
      <4> QED
        BY <2>12, <4>1, <4>2, <4>3, <4>4, <4>6 DEF Balanced
    <3> QED
      BY <3>1, <3>2
  <2>15. IsFiniteSet(uses) /\ life \in [Task -> {"new", "line", "alive", "freed"}]
    BY DEF Accounts, Shapes
  <2>16. \A r \in Source : /\ Refs(r)' = Refs(r)
                           /\ r = s => Uses(r)' = Uses(r) + d
                           /\ r # s => Uses(r)' = Uses(r)
    <3> SUFFICES ASSUME NEW r \in Source
                 PROVE  /\ Refs(r)' = Refs(r)
                        /\ r = s => Uses(r)' = Uses(r) + d
                        /\ r # s => Uses(r)' = Uses(r)
      OBVIOUS
    <3>1. PICK f \in {0, 1} : f = Flag(src = r /\ cmd.type = "probe")
      BY FlagType
    <3>2. Uses(r) = Cardinality(Of(uses, r)) + f /\ Uses(r)' = Cardinality(Of(uses', r)) + f
      BY <2>7, <3>1 DEF Uses, Of, Flag, scans
    <3>3. /\ Cardinality(Of(uses, r)) \in Nat
          /\ Cardinality(Of(uses \cup {t}, r)) = Cardinality(Of(uses, r)) + IF s = r THEN 1 ELSE 0
      BY <2>10, <2>15, OfAdd
    <3>4. Refs(r)' = Refs(r)
      BY <2>7 DEF Refs
    <3>5. CASE R.cyclemon
      <4>1. uses' = uses \cup {t} /\ d = 1
        BY <2>7, <2>13, <3>5 DEF Flag
      <4> QED
        BY <3>2, <3>3, <3>4, <4>1
    <3>6. CASE ~R.cyclemon
      <4>1. uses' = uses /\ d = 0
        BY <2>7, <2>13, <3>6 DEF Flag
      <4> QED
        BY <3>2, <3>3, <3>4, <4>1
    <3> QED
      BY <3>5, <3>6
  <2>17. /\ source' \in [Source -> Shape] /\ source'[s] = T /\ Ledger'
         /\ \A r \in Source \ {s} : source'[r] = source[r]
    <3>1. Balanced(T, Refs(s)', Uses(s)')
      BY <2>14, <2>16
    <3>2. \A r \in Source \ {s} : Refs(r)' = Refs(r) /\ Uses(r)' = Uses(r)
      BY <2>16
    <3> QED
      BY <2>7, <2>14, <3>1, <3>2, LedgerOne
  <2>18. life'[t] = "alive" /\ \A u \in Task \ {t} : life'[u] = life[u]
    BY <2>7, <2>15
  <2>19. Shapes'
    <3>1. IsFiniteSet(uses') /\ uses' \subseteq uses \cup {t}
      BY <2>7, <2>15, FS_AddElement
    <3>2. life' \in [Task -> {"new", "line", "alive", "freed"}]
      BY <2>7, <2>15
    <3> QED
      BY <2>7, <2>17, <3>1, <3>2 DEF Accounts, Shapes, scans
  <2>20. Listed'
    <3> SUFFICES ASSUME NEW r \in Source, NEW u \in Task
                 PROVE  Count(source'[r].tasks, {u})
                        = IF SourceOf[u] = r /\ life'[u] = "alive" THEN 1 ELSE 0
      BY Zenon DEF Listed
    <3>1. Count(source[r].tasks, {u}) = IF SourceOf[u] = r /\ life[u] = "alive" THEN 1 ELSE 0
      BY DEF Accounts, Living, Listed
    <3>2. CASE r = s
      <4>1. R.tasks \in Seq(Task)
        BY <2>2 DEF Shape
      <4>2. /\ t = u => Count(Append(R.tasks, t), {u}) = Count(R.tasks, {u}) + 1
            /\ t # u => Count(Append(R.tasks, t), {u}) = Count(R.tasks, {u})
        BY ONLY <4>1, t \in Task, OneMore
      <4>3. source'[r].tasks = Append(R.tasks, t)
        BY <2>11, <2>12, <2>14, <2>17, <3>2
      <4>4. CASE u = t
        BY <2>1, <2>10, <2>18, <3>1, <3>2, <4>2, <4>3, <4>4
      <4>5. CASE u # t
        BY <2>1, <2>18, <3>1, <3>2, <4>2, <4>3, <4>5
      <4> QED
        BY <4>4, <4>5
    <3>3. CASE r # s
      <4>1. Count(source'[r].tasks, {u}) = Count(source[r].tasks, {u})
        BY <2>17, <3>3
      <4>2. SourceOf[u] = r => life'[u] = life[u]
        BY <2>10, <2>18, <3>3
      <4> QED
        BY <3>1, <4>1, <4>2
    <3> QED
      BY <3>2, <3>3
  <2>21. Living'
    <3>1. Alive' /\ Blocking'
      BY <2>7, <2>10, <2>18 DEF Accounts, Living, Alive, Blocking, Shapes
    <3>2. DoneOnce'
      <4> SUFFICES ASSUME NEW u \in Task
                   PROVE  Count(done_queue', {u}) + (IF freeing' = u THEN 1 ELSE 0)
                          <= IF life'[u] = "alive" THEN 1 ELSE 0
        BY DEF DoneOnce
      <4>1. Count(done_queue, {u}) + (IF freeing = u THEN 1 ELSE 0)
            <= IF life[u] = "alive" THEN 1 ELSE 0
        BY DEF Accounts, Living, DoneOnce
      <4>2. Count(done_queue, {u}) \in Nat
        BY CountType DEF Accounts, Shapes
      <4>3. done_queue' = done_queue /\ freeing' = freeing
        BY <2>7
      <4>4. life[u] = "alive" => life'[u] = "alive"
        BY <2>18
      <4> QED
        BY <4>1, <4>2, <4>3, <4>4
    <3> QED
      BY <2>20, <3>1, <3>2 DEF Living
  <2>22. ASSUME NEW r \in Source, NEW c, r = s => c # TaskCmd(t)
         PROVE  Waiting(r, c)' = Waiting(r, c)
    <3>1. Hand(r, c)' = Hand(r, c)
      BY <2>7 DEF Hand, scans
    <3>2. Count(source'[r].commands, {c}) = Count(source[r].commands, {c})
      <4>1. CASE r = s
        <5>1. Count(S.commands, {c}) = Count(A.commands, {c})
          BY <2>12, <2>22, <4>1
        <5> QED
          BY <2>1, <2>11, <2>14, <2>17, <4>1, <5>1
      <4>2. CASE r # s
        BY <2>17, <4>2
      <4> QED
        BY <4>1, <4>2
    <3> QED
      BY <3>1, <3>2 DEF Waiting
  <2>23. \A u : ProbeCmd(u) # TaskCmd(t) /\ (TaskCmd(u) = TaskCmd(t) => u = t)
    BY DEF ProbeCmd, TaskCmd
  <2>24. Probing'
    <3> SUFFICES ASSUME NEW r \in Source, NEW u \in Task
                 PROVE  Waiting(r, ProbeCmd(u))' <= IF SourceOf[u] = r /\ life'[u] = "line" THEN 1 ELSE 0
      BY DEF Probing
    <3>1. Waiting(r, ProbeCmd(u)) <= IF SourceOf[u] = r /\ life[u] = "line" THEN 1 ELSE 0
      BY DEF Accounts, Ordered, Probing
    <3>2. Waiting(r, ProbeCmd(u))' = Waiting(r, ProbeCmd(u))
      BY <2>22, <2>23
    <3>3. life[u] = "line" <=> life'[u] = "line"
      BY <2>10, <2>18
    <3> QED
      BY <3>1, <3>2, <3>3
  <2>25. Tasking'
    <3> SUFFICES ASSUME NEW r \in Source, NEW u \in Task, SourceOf[u] # r \/ life'[u] \in Early
                 PROVE  Waiting(r, TaskCmd(u))' = 0
      BY DEF Tasking
    <3>1. /\ SourceOf[u] # r \/ life[u] \in Early
          /\ r = s => u # t
      BY <2>10, <2>18 DEF Early
    <3>2. Waiting(r, TaskCmd(u)) = 0
      BY <3>1 DEF Accounts, Ordered, Tasking
    <3>3. Waiting(r, TaskCmd(u))' = Waiting(r, TaskCmd(u))
      BY <2>22, <2>23, <3>1
    <3> QED
      BY <3>2, <3>3
  <2>26. Ordered'
    <3>1. HeldLate'
      BY <2>7, <2>18 DEF Accounts, Ordered, HeldLate, Early
    <3> QED
      BY <2>7, <2>24, <2>25, <3>1 DEF Accounts, Ordered, HandEmpty, scans
  <2>27. Submitted'
    <3>1. ASSUME NEW r \in Source, NEW i \in DOMAIN Submits[r], NEW j \in DOMAIN Submits[r],
                 i < j, life'[Submits[r][j]] # "new"
          PROVE  life'[Submits[r][i]] # "new"
      <4>1. Submits[r][i] \in Task /\ Submits[r][j] \in Task
        BY SubmitsTask
      <4>2. life[Submits[r][j]] # "new" \/ Submits[r][j] = t
        BY <2>18, <3>1, <4>1
      <4>3. life[Submits[r][i]] # "new" \/ Submits[r][i] = t
        BY <2>8, <2>9, <3>1, <4>2 DEF NextOf
      <4> QED
        BY <2>18, <4>1, <4>3
    <3>2. ASSUME NEW u \in Task, Kind[SourceOf[u]] = "control", client'[SourceOf[u]] = "none"
          PROVE  life'[u] = "new"
      BY <2>3, <2>7, <2>10, <2>18, <3>2 DEF Accounts, Submitted
    <3> QED
      BY <3>1, <3>2 DEF Submitted
  <2> QED
    BY <2>17, <2>19, <2>21, <2>26, <2>27 DEF Accounts
<1> QED
  BY <1>1, <1>2

(* Every step keeps the accounts.                                          *)
LEMMA NextAccounts == SourcesInv /\ [Next]_vars => SourcesInv'
<1> SUFFICES ASSUME SourcesInv, [Next]_vars PROVE Accounts'
  BY NextSound DEF SourcesInv
<1>1. Accounts /\ Scope
  BY DEF SourcesInv, RotaInv
<1>2. CASE UNCHANGED vars
  <2>1. Calm /\ UNCHANGED <<source, client>>
    BY <1>1, <1>2 DEF vars, Calm, Accounts, Shapes, Ordered, HandEmpty
  <2> QED
    BY <1>1, <2>1, CalmNone
<1>3. ASSUME NEW s \in Source, ClientOp(s) \/ ReadLine(s) \/ ReadEnd(s)
      PROVE  Accounts'
  BY <1>1, <1>3, AttachAccounts, CommandAccounts, HaltAccounts, EndAccounts, CloseAccounts,
     ClientFreeAccounts, ReadLineAccounts DEF ClientOp
<1>4. CASE ShutdownFlush
  BY <1>1, <1>4, FlushAccounts
<1>5. ASSUME NEW t \in Task, TaskDone(t) PROVE Accounts'
  BY <1>1, <1>5, DoneAccounts
<1>6. CASE GetTask
  BY <1>1, <1>6, PhaseAccounts
<1>7. CASE MainStep
  <2>1. CASE AbandonEnd \/ Exhausted \/ \E s \in Source : DetachFinished(s)
    BY <1>1, <2>1, DetachAccounts
  <2>2. CASE Unhold
    BY <1>1, <2>2, UnholdAccounts
  <2>3. CASE FreeTask
    BY <1>1, <2>3, FreeAccounts
  <2>4. CASE EndPoll \/ EndProbe \/ EndDone \/ StartScan \/ TakeNone \/ HandleCycle
    BY <1>1, <2>4, PhaseAccounts
  <2>5. CASE PopCommand
    BY <1>1, <2>5, PopAccounts
  <2>6. CASE TakeChunk \/ TakeEnd
    BY <1>1, <2>6, TakeAccounts
  <2>7. ASSUME NEW t \in Task, AbandonTask(t) \/ ProcessDone(t) PROVE Accounts'
    BY <1>1, <2>7, DoneAccounts
  <2>8. ASSUME NEW t \in Task, HandleProbe(t) PROVE Accounts'
    BY <1>1, <2>8, HandleProbeAccounts
  <2>9. ASSUME NEW t \in Task, HandleTask(t) PROVE Accounts'
    BY <1>1, <2>9, HandleTaskAccounts
  <2> QED
    BY <1>7, <2>1, <2>2, <2>3, <2>4, <2>5, <2>6, <2>7, <2>8, <2>9 DEF MainStep
<1> QED
  BY <1>2, <1>3, <1>4, <1>5, <1>6, <1>7 DEF Next

(* A source that is made with lines queued, or none.                       *)
LEMMA FreshKept ==
  ASSUME NEW s \in Source, NEW b \in BOOLEAN
  PROVE  /\ Fresh(1, b) \in Shape /\ Balanced(Fresh(1, b), 0, 0) /\ Fresh(1, b).cyclemon
         /\ Fresh(1, b).tasks = <<>>
         /\ \A t : /\ Count(Fresh(1, b).commands, {ProbeCmd(t)}) = 0
                   /\ Count(Fresh(1, b).commands, {TaskCmd(t)}) = 0
<1>1. PICK T : T = Fresh(1, b)
  OBVIOUS
<1>2. CycleCmd \in Commands /\ CycleCmd \notin ProbeSet
      /\ \A u : CycleCmd # ProbeCmd(u) /\ CycleCmd # TaskCmd(u)
  BY DEF CycleCmd, Commands, ProbeSet, ProbeCmd, TaskCmd
<1>3. /\ T.commands = <<CycleCmd>> /\ T.tasks = <<>> /\ T.open = TRUE /\ T.eof = ~b
      /\ T.tree = TRUE /\ T.refcnt = 1 /\ T.cm = 1 /\ T.cyclemon = TRUE
  BY <1>1 DEF Fresh
<1>4. T \in Shape
  <2>1. <<CycleCmd>> \in Seq(Commands) /\ <<>> \in Seq(Task)
    BY <1>2
  <2> QED
    BY <1>1, <2>1 DEF Fresh, Shape
<1>5. \A P : CycleCmd \notin P => Count(T.commands, P) = 0
  BY <1>3, CountOne
<1>6. Count(T.commands, ProbeSet) = 0 /\ Len(T.tasks) = 0 /\ Flag(T.tree) = 1 /\ Flag(T.cyclemon) = 1
  BY <1>2, <1>3, <1>5 DEF Flag
<1> QED
  BY <1>1, <1>2, <1>3, <1>4, <1>5, <1>6 DEF Balanced

(* The accounts are right at the start.                                    *)
LEMMA InitAccounts == Init => SourcesInv
<1> SUFFICES ASSUME Init PROVE SourcesInv
  OBVIOUS
<1>1. /\ source = [s \in Source |-> Started(s)]
      /\ client = [s \in Source |-> "none"]
      /\ life = [t \in Task |-> IF Kind[SourceOf[t]] = "cmdline" THEN "line" ELSE "new"]
      /\ uses = {} /\ onhold = [t \in Task |-> <<>>] /\ installed = {} /\ done_queue = <<>>
      /\ pc = "poll" /\ src = NoSource /\ cmd = NoCmd /\ freeing = NoTask /\ fault = "none"
  BY DEF Init
<1>2. ASSUME NEW s \in Source
      PROVE  /\ Started(s) \in Shape /\ Balanced(Started(s), 0, 0) /\ Started(s).tasks = <<>>
             /\ \A t \in Task :
                  /\ Count(Started(s).commands, {TaskCmd(t)}) = 0
                  /\ Count(Started(s).commands, {ProbeCmd(t)})
                     <= IF SourceOf[t] = s /\ life[t] = "line" THEN 1 ELSE 0
  <2>1. CASE Kind[s] = "control"
    <3>1. Started(s) = Absent
      BY <2>1 DEF Started
    <3>2. <<>> \in Seq(Commands) /\ <<>> \in Seq(Task) /\ \A P : Count(<<>>, P) = 0
      BY CountEmpty
    <3>3. Absent \in Shape
      BY <3>2 DEF Absent, Shape
    <3>4. Balanced(Absent, 0, 0)
      BY <3>2 DEF Absent, Balanced, Flag
    <3> QED
      BY <3>1, <3>2, <3>3, <3>4 DEF Absent
  <2>2. CASE Kind[s] = "cmdline"
    <3>1. PICK F : F = Fresh(1, FALSE)
      OBVIOUS
    <3>2. PICK q : q = Submits[s]
      OBVIOUS
    <3>3. PICK T : T = AddLines(F, q)
      OBVIOUS
    <3>4. Started(s) = T
      BY <2>2, <3>1, <3>2, <3>3 DEF Started
    <3>5. q \in Seq(Task) /\ Distinct(q) /\ \A t \in Task : SourceOf[t] = s <=> Member(q, t)
      BY <3>2, SourcesAssumption DEF Distinct, Member
    <3>6. /\ F \in Shape /\ Balanced(F, 0, 0) /\ F.cyclemon /\ F.tasks = <<>>
          /\ \A t : Count(F.commands, {ProbeCmd(t)}) = 0 /\ Count(F.commands, {TaskCmd(t)}) = 0
      BY <3>1, FreshKept
    <3>7. /\ T \in Shape /\ T.tasks = F.tasks
          /\ \A t \in Task :
               /\ Count(T.commands, {TaskCmd(t)}) = Count(F.commands, {TaskCmd(t)})
               /\ Member(q, t) => Count(T.commands, {ProbeCmd(t)})
                                 = Count(F.commands, {ProbeCmd(t)}) + 1
               /\ ~Member(q, t) => Count(T.commands, {ProbeCmd(t)})
                                  = Count(F.commands, {ProbeCmd(t)})
          /\ \A c, u \in Nat : Balanced(F, c, u) => Balanced(T, c, u)
      BY ONLY <3>3, <3>5, <3>6, AddLinesKept
    <3>8. Balanced(T, 0, 0)
      BY <3>6, <3>7
    <3>9. ASSUME NEW t \in Task
          PROVE  /\ Count(T.commands, {TaskCmd(t)}) = 0
                 /\ Count(T.commands, {ProbeCmd(t)})
                    <= IF SourceOf[t] = s /\ life[t] = "line" THEN 1 ELSE 0
      <4>1. Member(q, t) => SourceOf[t] = s /\ life[t] = "line"
        BY <1>1, <2>2, <3>5
      <4>2. Count(F.commands, {ProbeCmd(t)}) = 0 /\ Count(F.commands, {TaskCmd(t)}) = 0
        BY <3>6
      <4> QED
        BY <3>7, <4>1, <4>2
    <3> QED
      BY <3>4, <3>6, <3>7, <3>8, <3>9
  <2>3. CASE Kind[s] \notin {"control", "cmdline"}
    <3>1. PICK F : F = Fresh(1, TRUE)
      OBVIOUS
    <3>2. Started(s) = F
      BY <2>3, <3>1 DEF Started
    <3>3. /\ F \in Shape /\ Balanced(F, 0, 0) /\ F.tasks = <<>>
          /\ \A t : Count(F.commands, {ProbeCmd(t)}) = 0 /\ Count(F.commands, {TaskCmd(t)}) = 0
      BY <3>1, FreshKept
    <3>4. ASSUME NEW t \in Task
          PROVE  /\ Count(F.commands, {TaskCmd(t)}) = 0
                 /\ Count(F.commands, {ProbeCmd(t)})
                    <= IF SourceOf[t] = s /\ life[t] = "line" THEN 1 ELSE 0
      BY <3>3
    <3> QED
      BY <3>2, <3>3, <3>4
  <2> QED
    BY <2>1, <2>2, <2>3
<1>3. Shapes
  <2>1. IsFiniteSet(uses)
    BY <1>1, FS_EmptySet
  <2> QED
    BY <1>1, <1>2, <2>1 DEF Shapes, Clients, Phases, Faults, NoCmd, Commands
<1>4. Living
  <2>1. \A t \in Task : Count(<<>>, {t}) = 0 /\ life[t] # "alive" /\ freeing # t
    BY <1>1, CountEmpty, SourcesAssumption
  <2> QED
    BY <1>1, <1>2, <2>1 DEF Living, Listed, Alive, DoneOnce, Blocking
<1>5. Ordered
  <2>1. ASSUME NEW s \in Source, NEW t \in Task
        PROVE  /\ Waiting(s, TaskCmd(t)) = 0
               /\ Waiting(s, ProbeCmd(t)) <= IF SourceOf[t] = s /\ life[t] = "line" THEN 1 ELSE 0
    <3>1. Hand(s, TaskCmd(t)) = 0 /\ Hand(s, ProbeCmd(t)) = 0
      BY <1>1, HandType
    <3>2. /\ Count(source[s].commands, {TaskCmd(t)}) = 0
          /\ Count(source[s].commands, {ProbeCmd(t)})
             <= IF SourceOf[t] = s /\ life[t] = "line" THEN 1 ELSE 0
      BY <1>1, <1>2
    <3>3. Count(source[s].commands, {ProbeCmd(t)}) \in Nat
      BY <1>3, WaitingType
    <3> QED
      BY <3>1, <3>2, <3>3 DEF Waiting
  <2> QED
    BY <1>1, <2>1, CountEmpty DEF Ordered, Probing, Tasking, HeldLate, HandEmpty
<1>6. Submitted
  <2>1. ASSUME NEW s \in Source, NEW i \in DOMAIN Submits[s], NEW j \in DOMAIN Submits[s],
               life[Submits[s][j]] # "new"
        PROVE  life[Submits[s][i]] # "new"
    <3>1. Submits[s][i] \in Task /\ Submits[s][j] \in Task
      BY SubmitsTask
    <3>2. SourceOf[Submits[s][i]] = s /\ SourceOf[Submits[s][j]] = s
      BY <3>1, SourcesAssumption
    <3> QED
      BY <1>1, <2>1, <3>1, <3>2
  <2> QED
    BY <1>1, <2>1 DEF Submitted
<1>7. Ledger
  <2>1. ASSUME NEW s \in Source PROVE Refs(s) = 0 /\ Uses(s) = 0
    <3>1. Of(uses, s) = {}
      BY <1>1 DEF Of
    <3>2. Uses(s) = Cardinality({}) + 0
      BY <1>1, <3>1 DEF Uses, Flag, NoCmd
    <3> QED
      BY <1>1, <3>2, FS_EmptySet DEF Refs, Flag
  <2> QED
    BY <1>1, <1>2, <2>1 DEF Ledger
<1> QED
  BY <1>3, <1>4, <1>5, <1>6, <1>7, InitSound DEF SourcesInv, Accounts

-----------------------------------------------------------------------------
(* What holds of every source, task and phase: the accounts are right.     *)
LEMMA SourcesInvHolds == Spec => []SourcesInv
  BY InitAccounts, NextAccounts, PTL DEF Spec

(* The state is well typed: no count of a source ever goes below zero, and *)
(* every index and name is one that exists.                                *)
THEOREM TypeInvHolds == Spec => []TypeInv
<1>1. SourcesInv => TypeInv
  <2> SUFFICES ASSUME SourcesInv PROVE TypeInv
    OBVIOUS
  <2>1. Accounts /\ Scope /\ rota \in Rota
    BY DEF SourcesInv, RotaInv, Sound
  <2>2. ASSUME NEW s \in Source
        PROVE  source[s] \in Record
    <3>1. source[s] \in Shape /\ Balanced(source[s], Refs(s), Uses(s)) /\ Refs(s) \in Nat /\ Uses(s) \in Nat
      BY <2>1, UsesType
    <3>2. /\ Len(source[s].tasks) \in Nat /\ Count(source[s].commands, ProbeSet) \in Nat
          /\ Flag(source[s].tree) \in Nat /\ Flag(source[s].cyclemon) \in Nat
      BY <3>1, Countable DEF Flag
    <3>3. source[s].refcnt \in Nat /\ source[s].cm \in Nat
      <4>1. /\ source[s].refcnt = Len(source[s].tasks) + Flag(source[s].tree) + Refs(s)
            /\ source[s].cm = Flag(source[s].cyclemon)
                              + Count(source[s].commands, ProbeSet) + Uses(s)
        BY <3>1 DEF Balanced
      <4> QED
        BY ONLY <3>1, <3>2, <4>1
    <3> QED
      BY <3>1, <3>3 DEF Shape, Record
  <2>3. source \in [Source -> Record]
    BY <2>1, <2>2 DEF Accounts, Shapes
  <2> QED
    BY <2>1, <2>3 DEF TypeInv, Accounts, Shapes, Scope, Clients, Phases, Faults
<1> QED
  BY <1>1, SourcesInvHolds, PTL

(* Who holds others runs, whatever is halted, abandoned or shut down: what *)
(* is on hold always has a task that will release it.                      *)
THEOREM BlockersRunHolds == Spec => []BlockersRun
<1>1. SourcesInv => BlockersRun
  BY DEF SourcesInv, Accounts, Shapes, Living, Alive, Blocking, BlockersRun
<1> QED
  BY <1>1, SourcesInvHolds, PTL

(* A source counts its tree, its client and its tasks; a cycle monitor its *)
(* source, the PROBE commands, queued or at hand, and the tasks.           *)
THEOREM CountsExactHolds == Spec => []CountsExact
<1>1. SourcesInv => CountsExact
  <2> SUFFICES ASSUME SourcesInv, NEW s \in Source
               PROVE  LET S == source[s] IN
                      /\ S.refcnt = Len(S.tasks) + (IF S.tree THEN 1 ELSE 0)
                                    + (IF client[s] \in {"attached", "flush"} THEN 1 ELSE 0)
                      /\ S.cm = (IF S.cyclemon THEN 1 ELSE 0) + Cardinality(Probes(S.commands))
                                + Cardinality({t \in uses : SourceOf[t] = s})
                                + (IF src = s /\ cmd.type = "probe" THEN 1 ELSE 0)
    BY DEF CountsExact
  <2>1. Accounts
    BY DEF SourcesInv
  <2>2. source[s] \in Shape /\ Balanced(source[s], Refs(s), Uses(s))
    BY <2>1, UsesType
  <2>3. /\ Cardinality(Probes(source[s].commands)) = Count(source[s].commands, ProbeSet)
        /\ Count(source[s].commands, ProbeSet) \in Nat
    BY <2>2, Countable, ProbesCounted
  <2>4. Cardinality(Of(uses, s)) \in Nat
    BY <2>1, OfAdd DEF Accounts, Shapes
  <2>5. PICK n : n = Cardinality(Probes(source[s].commands))
    OBVIOUS
  <2>6. source[s].cm = Flag(source[s].cyclemon) + n + (Cardinality(Of(uses, s)) + Flag(src = s /\ cmd.type = "probe"))
    BY <2>2, <2>3, <2>5 DEF Balanced, Uses
  <2>7. source[s].refcnt = Len(source[s].tasks) + Flag(source[s].tree) + Flag(client[s] \in {"attached", "flush"})
    BY <2>2 DEF Balanced, Refs
  <2>8. n \in Nat
    BY <2>3, <2>5
  <2>9. source[s].cm = Flag(source[s].cyclemon) + n + Cardinality(Of(uses, s)) + Flag(src = s /\ cmd.type = "probe")
    BY <2>4, <2>6, <2>8, FlagType
  <2> QED
    BY <2>5, <2>7, <2>9 DEF Flag, Of
<1> QED
  BY <1>1, SourcesInvHolds, PTL

-----------------------------------------------------------------------------
(* What a task is to TaskAdmission, by its life and its signatures.        *)
Stages == [t \in Task |-> Stage(t)]

LEMMA StageIs ==
  ASSUME Shapes, Alive, NEW t \in Task
  PROVE  /\ t \in installed => Stage(t) = "running"
         /\ t \notin installed =>
              /\ life[t] = "new" => Stage(t) = "absent"
              /\ life[t] = "freed" => Stage(t) = "gone"
              /\ life[t] \in {"line", "alive"} => Stage(t) = "pending"
<1>1. t \in installed => life[t] = "alive"
  BY DEF Alive
<1>2. life[t] \in {"new", "line", "alive", "freed"}
  BY DEF Shapes
<1> QED
  BY <1>1, <1>2 DEF Stage

(* Tasks move on, for TaskAdmission, when they are submitted ...           *)
LEMMA StageSubmit ==
  ASSUME Shapes, Shapes', Alive, UNCHANGED installed,
         \A t \in Task : life'[t] = life[t] \/ (life[t] = "new" /\ life'[t] \in {"line", "alive"})
  PROVE  Admission!Submit
<1> DEFINE T == {t \in Task : life[t] = "new" /\ life'[t] # "new"}
<1>1. ASSUME NEW t \in Task
      PROVE  /\ t \in T => Stage(t) = "absent" /\ Stage(t)' = "pending"
             /\ t \notin T => Stage(t)' = Stage(t)
  <2>1. CASE t \in T
    <3>1. t \notin installed
      BY <2>1 DEF Alive
    <3> QED
      BY <2>1, <3>1 DEF Stage
  <2>2. CASE t \notin T
    BY <2>2 DEF Stage
  <2> QED
    BY <2>1, <2>2
<1>2. T \in SUBSET {t \in Task : Stages[t] = "absent"}
  BY <1>1 DEF Stages
<1>3. Stages' = [t \in Task |-> IF t \in T THEN "pending" ELSE Stages[t]]
  BY <1>1 DEF Stages
<1> HIDE DEF T
<1> QED
  BY <1>2, <1>3 DEF Admission!Submit, Stages

(* ... or dropped before they run ...                                      *)
LEMMA StageDrop ==
  ASSUME Shapes, Shapes', Alive, UNCHANGED installed,
         \A t \in Task : life'[t] = life[t] \/ (life[t] = "line" /\ life'[t] = "freed")
  PROVE  Admission!Drop
<1> DEFINE T == {t \in Task : life[t] = "line" /\ life'[t] # "line"}
<1>1. ASSUME NEW t \in Task
      PROVE  /\ t \in T => Stage(t) = "pending" /\ Stage(t)' = "gone"
             /\ t \notin T => Stage(t)' = Stage(t)
  <2>1. CASE t \in T
    <3>1. t \notin installed
      BY <2>1 DEF Alive
    <3> QED
      BY <2>1, <3>1 DEF Stage
  <2>2. CASE t \notin T
    BY <2>2 DEF Stage
  <2> QED
    BY <2>1, <2>2
<1>2. T \in SUBSET {t \in Task : Stages[t] = "pending"}
  BY <1>1 DEF Stages
<1>3. Stages' = [t \in Task |-> IF t \in T THEN "gone" ELSE Stages[t]]
  BY <1>1 DEF Stages
<1> HIDE DEF T
<1> QED
  BY <1>2, <1>3 DEF Admission!Drop, Stages

(* ... and start, while none that overlaps runs, or are held.              *)
LEMMA StageInstall ==
  ASSUME Admitted, NEW t \in Task, InstallOrHold(t), life[t] \in {"line", "alive"},
         life' = [life EXCEPT ![t] = "alive"], Shapes, Alive
  PROVE  \/ UNCHANGED Stages
         \/ Admission!Start(t)
<1>0. life'[t] = "alive" /\ \A u \in Task \ {t} : life'[u] = life[u]
  BY DEF Shapes
<1>1. CASE t \in installed \/ installed' = installed
  <2>1. installed' = installed
    BY <1>1 DEF InstallOrHold
  <2>2. \A u \in Task : Stage(u)' = Stage(u)
    BY <1>0, <2>1 DEF Stage
  <2> QED
    BY <2>2 DEF Stages
<1>2. CASE t \notin installed /\ installed' # installed
  <2>1. SigBlock(t) = {} /\ installed' = installed \cup {t}
    BY <1>2 DEF InstallOrHold
  <2>2. Stages[t] = "pending" /\ \A u \in Task : Stages[u] = "running" <=> u \in installed
    BY <1>2, StageIs DEF Stages, Shapes
  <2>3. \A u \in Task : Stages[u] = "running" => <<u, t>> \notin Conflict
    BY <2>1, <2>2 DEF SigBlock
  <2>4. ASSUME NEW u \in Task
        PROVE  Stage(u)' = IF u = t THEN "running" ELSE Stage(u)
    BY <1>0, <2>1, <2>4 DEF Stage
  <2>5. Stages' = [Stages EXCEPT ![t] = "running"]
    BY <2>4 DEF Stages
  <2> QED
    BY <2>2, <2>3, <2>5 DEF Admission!Start, Stages
<1> QED
  BY <1>1, <1>2

(* A task that is freed has run, or is dropped.                            *)
LEMMA StageFree ==
  ASSUME Shapes, NEW t \in Task, life[t] = "alive", installed' = installed \ {t},
         life' = [life EXCEPT ![t] = "freed"]
  PROVE  Admission!Finish(t) \/ Admission!Drop
<1>1. ASSUME NEW u \in Task
      PROVE  Stage(u)' = IF u = t THEN "gone" ELSE Stage(u)
  <2>1. life'[t] = "freed" /\ \A r \in Task \ {t} : life'[r] = life[r]
    BY DEF Shapes
  <2> QED
    BY <2>1 DEF Stage
<1>2. Stages' = [Stages EXCEPT ![t] = "gone"]
  BY <1>1 DEF Stages
<1>3. CASE t \in installed
  <2>1. Stages[t] = "running"
    BY <1>3 DEF Stages, Stage
  <2> QED
    BY <1>2, <2>1 DEF Admission!Finish, Stages
<1>4. CASE t \notin installed
  <2> DEFINE T == {t}
  <2>1. T \in SUBSET {u \in Task : Stages[u] = "pending"}
    BY <1>4 DEF Stages, Stage
  <2>2. Stages' = [u \in Task |-> IF u \in T THEN "gone" ELSE Stages[u]]
    BY <1>1 DEF Stages
  <2> HIDE DEF T
  <2> QED
    BY <2>1, <2>2 DEF Admission!Drop, Stages
<1> QED
  BY <1>3, <1>4

(* Where no task lives or starts, TaskAdmission stutters.                  *)
LEMMA StageSame ==
  ASSUME UNCHANGED <<life, installed>>
  PROVE  UNCHANGED Stages
<1>1. \A t \in Task : Stage(t)' = Stage(t)
  BY DEF Stage
<1> QED
  BY <1>1 DEF Stages

(* What clients and sources read is submitted.                             *)
LEMMA SubmitStep ==
  ASSUME Accounts, Accounts', Scope,
         \/ \E s \in Source : ReadLine(s) \/ \E t \in Task : Command2(s, t)
         \/ TakeChunk \/ TakeEnd
  PROVE  Admission!Submit \/ UNCHANGED Stages
<1>1. Shapes /\ Shapes' /\ Alive /\ Submitted
  BY DEF Accounts, Living
<1>2. ASSUME NEW s \in Source, ReadLine(s)
      PROVE  Admission!Submit
  <2>1. PICK q : q = SubSeq(Unsent(s), 1, 1)
    OBVIOUS
  <2>2. 1 \in 0 .. Len(Unsent(s)) /\ q = <<Head(Unsent(s))>>
    BY <1>2, <2>1, UnsentSeq DEF ReadLine
  <2>3. NextOf(s, q)
    BY <1>1, <2>1, <2>2, NextLines
  <2>4. PICK t : t = Head(Unsent(s))
    OBVIOUS
  <2>5. Member(q, t)
    BY <2>2, <2>4 DEF Member
  <2>6. t \in Task /\ life[t] = "new"
    BY <2>3, <2>5 DEF NextOf
  <2>7. life' = [life EXCEPT ![t] = "line"] /\ installed' = installed
    BY <1>2, <2>4 DEF ReadLine
  <2>8. \A u \in Task : life'[u] = life[u] \/ (life[u] = "new" /\ life'[u] \in {"line", "alive"})
    BY <1>1, <2>6, <2>7 DEF Shapes
  <2> QED
    BY <1>1, <2>7, <2>8, StageSubmit
<1>3. ASSUME NEW s \in Source, NEW t \in Task, Command2(s, t)
      PROVE  Admission!Submit \/ UNCHANGED Stages
  <2>1. CASE ~source[s].open
    BY <1>3, <2>1, StageSame DEF Command2, Crash, works
  <2>2. CASE source[s].open
    <3>1. PICK q : q = SubSeq(Unsent(s), 1, 1)
      OBVIOUS
    <3>2. 1 \in 0 .. Len(Unsent(s)) /\ q = <<t>>
      BY <1>3, <3>1, UnsentSeq DEF Command2
    <3>3. NextOf(s, q)
      BY <1>1, <3>1, <3>2, NextLines
    <3>4. Member(q, t)
      BY <3>2 DEF Member
    <3>5. life[t] = "new"
      BY <3>3, <3>4 DEF NextOf
    <3>6. life' = [life EXCEPT ![t] = "alive"] /\ installed' = installed
      BY <1>3, <2>2 DEF Command2
    <3>7. \A u \in Task : life'[u] = life[u] \/ (life[u] = "new" /\ life'[u] \in {"line", "alive"})
      BY <1>1, <3>5, <3>6 DEF Shapes
    <3> QED
      BY <1>1, <3>6, <3>7, StageSubmit
  <2> QED
    BY <2>1, <2>2
<1>4. CASE TakeChunk \/ TakeEnd
  <2>1. PICK s \in Source : s = src
    BY <1>4 DEF TakeChunk, TakeEnd, Scope
  <2>2. Len(Unsent(s)) \in Nat
    BY UnsentSeq, LenProperties
  <2>3. PICK k \in 0 .. Len(Unsent(s)) :
          LET q == SubSeq(Unsent(s), 1, k)
          IN  life' = [t \in Task |-> IF Places(q, t) # {} THEN "line" ELSE life[t]]
    <3>1. CASE TakeChunk
      BY <2>1, <3>1 DEF TakeChunk
    <3>2. CASE TakeEnd
      <4>1. PICK k \in {j \in {0, 1} : j <= Len(Unsent(s))} :
              LET q == SubSeq(Unsent(s), 1, k)
              IN  life' = [t \in Task |-> IF Places(q, t) # {} THEN "line" ELSE life[t]]
        BY <2>1, <3>2 DEF TakeEnd
      <4>2. k \in 0 .. Len(Unsent(s))
        BY <2>2
      <4> QED
        BY <4>1, <4>2
    <3> QED
      BY <1>4, <3>1, <3>2
  <2>4. PICK q : q = SubSeq(Unsent(s), 1, k)
    OBVIOUS
  <2>5. NextOf(s, q)
    BY <1>1, <2>4, NextLines
  <2>6. life' = [t \in Task |-> IF Places(q, t) # {} THEN "line" ELSE life[t]]
    BY <2>3, <2>4
  <2>7. \A u \in Task : life'[u] = life[u] \/ (life[u] = "new" /\ life'[u] \in {"line", "alive"})
    BY <2>5, <2>6 DEF NextOf, Member, Places
  <2>8. installed' = installed
    BY <1>4 DEF TakeChunk, TakeEnd
  <2> QED
    BY <1>1, <2>7, <2>8, StageSubmit
<1> QED
  BY <1>2, <1>3, <1>4

(* Every step is one of TaskAdmission's, or none.                          *)
LEMMA NextStages ==
  ASSUME SourcesInv, SourcesInv', Admitted, [Next]_vars
  PROVE  [Admission!Next]_Stages
<1>1. Accounts /\ Accounts' /\ Scope /\ Shapes /\ Shapes' /\ Alive
  BY DEF SourcesInv, RotaInv, Accounts, Living
<1>2. CASE UNCHANGED <<life, installed>>
  BY <1>2, StageSame
<1>3. CASE Admission!Submit \/ UNCHANGED Stages
  BY <1>3 DEF Admission!Next
<1>4. CASE UNCHANGED vars
  BY <1>2, <1>4 DEF vars
<1>5. ASSUME NEW s \in Source, ClientOp(s) \/ ReadLine(s) \/ ReadEnd(s)
      PROVE  [Admission!Next]_Stages
  <2>1. CASE ReadLine(s) \/ \E t \in Task : Command2(s, t)
    BY <1>1, <1>3, <2>1, SubmitStep
  <2>2. CASE \E t \in Task : HaltTask(s, t)
    BY <1>2, <2>2 DEF HaltTask, Crash, works
  <2>3. CASE Attach(s) \/ ClientDone(s) \/ (\E fin \in BOOLEAN : ClientClose(s, fin))
             \/ ClientFree(s) \/ ReadEnd(s)
    BY <1>2, <2>3 DEF Attach, ClientDone, ClientClose, ClientFree, ReadEnd, works
  <2> QED
    BY <1>5, <2>1, <2>2, <2>3 DEF ClientOp
<1>6. CASE ShutdownFlush
  <2>1. installed' = installed
    BY <1>6 DEF ShutdownFlush
  <2>2. \A t \in Task : life'[t] = life[t] \/ (life[t] = "line" /\ life'[t] = "freed")
    BY <1>6 DEF ShutdownFlush
  <2>3. Admission!Drop
    BY <1>1, <2>1, <2>2, StageDrop
  <2> QED
    BY <2>3 DEF Admission!Next
<1>7. CASE GetTask \/ \E t \in Task : TaskDone(t)
  BY <1>2, <1>7 DEF GetTask, Phase, TaskDone, works
<1>8. CASE MainStep
  <2>1. CASE AbandonEnd \/ Unhold \/ EndPoll \/ EndProbe \/ EndDone
    BY <1>2, <2>1 DEF AbandonEnd, Unhold, Crash, EndPoll, EndProbe, EndDone, Phase, works
  <2>2. CASE (\E s \in Source : DetachFinished(s)) \/ StartScan \/ PopCommand \/ Exhausted
    BY <1>2, <2>2 DEF DetachFinished, StartScan, PopCommand, Exhausted, Serve, works
  <2>3. CASE TakeNone \/ HandleCycle \/ \E t \in Task : AbandonTask(t) \/ ProcessDone(t)
    BY <1>2, <2>3 DEF TakeNone, HandleCycle, AbandonTask, ProcessDone, works
  <2>4. CASE TakeChunk \/ TakeEnd
    BY <1>1, <1>3, <2>4, SubmitStep
  <2>5. CASE FreeTask
    <3>1. PICK t \in Task : t = freeing
      BY <2>5 DEF FreeTask, Scope, SourcesInv, RotaInv
    <3>2. life[t] = "alive"
      <4>1. Count(done_queue, {t}) + 1 <= IF life[t] = "alive" THEN 1 ELSE 0
        BY <1>1, <3>1 DEF Accounts, Living, DoneOnce
      <4>2. Count(done_queue, {t}) \in Nat
        BY <1>1, CountType DEF Shapes
      <4> QED
        BY <4>1, <4>2
    <3>3. \/ UNCHANGED <<life, installed>>
          \/ life' = [life EXCEPT ![t] = "freed"] /\ installed' = installed \ {t}
      BY <2>5, <3>1 DEF FreeTask, Crash, works
    <3>4. CASE life' = [life EXCEPT ![t] = "freed"] /\ installed' = installed \ {t}
      <4>1. Admission!Finish(t) \/ Admission!Drop
        BY <1>1, <3>2, <3>4, StageFree
      <4> QED
        BY <4>1 DEF Admission!Next
    <3> QED
      BY <1>2, <3>3, <3>4
  <2>6. ASSUME NEW t \in Task, HandleProbe(t)
        PROVE  [Admission!Next]_Stages
    <3>1. PICK s \in Source : s = src
      BY <1>1, <2>6 DEF HandleProbe, Scope
    <3>2. life[t] = "line"
      <4>1. Hand(s, ProbeCmd(t)) = 1 /\ Count(source[s].commands, {ProbeCmd(t)}) \in Nat
        BY <1>1, <2>6, <3>1, WaitingType DEF Hand, HandleProbe
      <4>2. Waiting(s, ProbeCmd(t)) <= IF SourceOf[t] = s /\ life[t] = "line" THEN 1 ELSE 0
        BY <1>1 DEF Accounts, Ordered, Probing
      <4> QED
        BY <4>1, <4>2 DEF Waiting
    <3>3. InstallOrHold(t) /\ life' = [life EXCEPT ![t] = "alive"]
      BY <2>6 DEF HandleProbe
    <3>4. UNCHANGED Stages \/ Admission!Start(t)
      BY <1>1, <3>2, <3>3, StageInstall
    <3> QED
      BY <3>4 DEF Admission!Next
  <2>7. ASSUME NEW t \in Task, HandleTask(t)
        PROVE  [Admission!Next]_Stages
    <3>1. CASE life[t] = "freed"
      BY <1>2, <2>7, <3>1 DEF HandleTask, Crash, works
    <3>2. CASE life[t] # "freed"
      <4>1. PICK s \in Source : s = src
        BY <1>1, <2>7 DEF HandleTask, Scope
      <4>2. life[t] = "alive"
        <5>1. Hand(s, TaskCmd(t)) = 1 /\ Count(source[s].commands, {TaskCmd(t)}) \in Nat
          BY <1>1, <2>7, <4>1, WaitingType DEF Hand, HandleTask
        <5>2. Waiting(s, TaskCmd(t)) # 0
          BY <5>1 DEF Waiting
        <5>3. life[t] \notin Early
          BY <1>1, <5>2 DEF Accounts, Ordered, Tasking
        <5> QED
          BY <1>1, <3>2, <5>3 DEF Early, Shapes
      <4>3. InstallOrHold(t) /\ life' = life
        BY <2>7, <3>2 DEF HandleTask
      <4>4. life' = [life EXCEPT ![t] = "alive"]
        BY <1>1, <4>2, <4>3 DEF Shapes
      <4>5. UNCHANGED Stages \/ Admission!Start(t)
        BY <1>1, <4>2, <4>3, <4>4, StageInstall
      <4> QED
        BY <4>5 DEF Admission!Next
    <3> QED
      BY <3>1, <3>2
  <2> QED
    BY <1>8, <2>1, <2>2, <2>3, <2>4, <2>5, <2>6, <2>7 DEF MainStep
<1> QED
  BY <1>4, <1>5, <1>6, <1>7, <1>8 DEF Next

(* Holding, releasing, taking turns, halting and shutting down implement   *)
(* TaskAdmission: a task is submitted once, starts only while none that    *)
(* overlaps it runs, runs until it is freed, and does not come back.       *)
THEOREM AdmissionHolds == Spec => AdmissionSpec
<1>1. Init => Admission!Init
  <2> SUFFICES ASSUME Init PROVE Admission!Init
    OBVIOUS
  <2>1. \A t \in Task : Stage(t) \in {"absent", "pending"}
    BY DEF Init, Stage
  <2> QED
    BY <2>1 DEF Admission!Init
<1>2. Init => Admitted
  BY DEF Init, Admitted, Exclusive
<1>3. SourcesInv /\ SourcesInv' /\ Admitted /\ [Next]_vars
      => [Admission!Next]_([t \in Task |-> Stage(t)])
  BY NextStages DEF Stages
<1> QED
  BY <1>1, <1>2, <1>3, SourcesInvHolds, NextAdmitted, PTL DEF Spec, AdmissionSpec, Admission!Spec
=============================================================================
