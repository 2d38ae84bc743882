----------------------- MODULE ControlProgressProofs -----------------------
(***************************************************************************)
(* Proofs that ControlInst goes on, for any set of tasks and any number of *)
(* pieces: every step of the library and of scamper leaves less to do, and *)
(* while anyone waits the condition of one of their handlers holds.        *)
(***************************************************************************)
EXTENDS ControlInstProofs

-----------------------------------------------------------------------------
(* How long a list is when a line is put at its end or taken from it.      *)
LEMMA Lengths ==
  ASSUME NEW S, NEW q \in Seq(S)
  PROVE  /\ Len(q) \in Nat /\ (q = <<>> <=> Len(q) = 0)
         /\ \A c \in S : Len(Append(q, c)) = Len(q) + 1
         /\ q # <<>> => Len(Tail(q)) = Len(q) - 1 /\ Len(q) >= 1
<1>1. Len(q) \in Nat /\ (q = <<>> <=> Len(q) = 0)
  BY LenProperties, EmptySeq
<1>2. \A c \in S : Len(Append(q, c)) = Len(q) + 1
  BY AppendProperties
<1>3. q # <<>> => Len(Tail(q)) = Len(q) - 1 /\ Len(q) >= 1
  BY <1>1, HeadTailProperties
<1> QED
  BY <1>1, <1>2, <1>3

(* x is the first line of q, if it is in it.                               *)
Lead(x, q) == \A i \in DOMAIN q : q[i] = x => i = 1

(* What leads a list leads it when a line is put at its end, or another is *)
(* taken out; it leaves with the first line.                               *)
LEMMA LeadKept ==
  ASSUME NEW S, NEW q \in Seq(S), NEW x, Lead(x, q)
  PROVE  /\ \A c \in S : (c = x => q = <<>>) => Lead(x, Append(q, c))
         /\ q # <<>> => ~In(x, Tail(q)) /\ (In(x, q) <=> Head(q) = x)
         /\ \A y : y # x /\ (\A i, j \in DOMAIN q : q[i] = y /\ q[j] = y => i = j)
                   => Lead(x, Without(q, y))
<1>1. Len(q) \in Nat /\ DOMAIN q = 1 .. Len(q)
  BY LenProperties
<1>2. ASSUME NEW c \in S, c = x => q = <<>> PROVE Lead(x, Append(q, c))
  <2>1. /\ Append(q, c) \in Seq(S) /\ Len(Append(q, c)) = Len(q) + 1
        /\ \A i \in 1 .. Len(q) : Append(q, c)[i] = q[i]
        /\ Append(q, c)[Len(q) + 1] = c
    BY AppendProperties
  <2>2. PICK r : r = Append(q, c)
    OBVIOUS
  <2>3. DOMAIN r = 1 .. Len(q) + 1
    BY <2>1, <2>2, LenProperties
  <2>4. q = <<>> => Len(q) = 0
    BY EmptySeq
  <2>5. \A i \in 1 .. Len(q) + 1 : i \in 1 .. Len(q) \/ i = Len(q) + 1
    BY <1>1
  <2>6. \A i \in DOMAIN r : r[i] = x => i = 1
    BY <1>1, <1>2, <2>1, <2>2, <2>3, <2>4, <2>5 DEF Lead
  <2> QED
    BY <2>2, <2>6 DEF Lead
<1>3. ASSUME q # <<>> PROVE ~In(x, Tail(q)) /\ (In(x, q) <=> Head(q) = x)
  <2>1. Len(q) # 0 /\ Head(q) = q[1] /\ Tail(q) \in Seq(S) /\ Len(Tail(q)) = Len(q) - 1
        /\ \A i \in 1 .. Len(q) - 1 : Tail(q)[i] = q[i + 1]
    BY <1>1, <1>3, EmptySeq, HeadTailProperties
  <2>2. PICK r : r = Tail(q)
    OBVIOUS
  <2>3. DOMAIN r = 1 .. Len(q) - 1
    BY <2>1, <2>2, LenProperties
  <2>4. \A i \in 1 .. Len(q) - 1 : i + 1 \in 1 .. Len(q) /\ i + 1 # 1
    BY <1>1
  <2>5. ~In(x, r)
    BY <1>1, <2>1, <2>2, <2>3, <2>4 DEF In, Lead
  <2>6. 1 \in DOMAIN q
    BY <1>1, <2>1
  <2>7. In(x, q) <=> Head(q) = x
    BY <2>1, <2>6 DEF In, Lead
  <2> QED
    BY <2>2, <2>5, <2>7
<1>4. ASSUME NEW y, y # x, \A i, j \in DOMAIN q : q[i] = y /\ q[j] = y => i = j
      PROVE  Lead(x, Without(q, y))
  <2>1. CASE ~In(y, q)
    <3>1. Without(q, y) = q
      BY <2>1 DEF Without, In
    <3> QED
      BY <3>1
  <2>2. CASE In(y, q)
    <3>1. PICK k \in DOMAIN q : q[k] = y /\ Without(q, y) = RemoveAt(q, k)
      BY <2>2 DEF Without, In
    <3>2. PICK r : r = RemoveAt(q, k)
      OBVIOUS
    <3>3. /\ r \in Seq(S) /\ Len(r) = Len(q) - 1
          /\ \A j \in 1 .. Len(q) - 1 : r[j] = IF j < k THEN q[j] ELSE q[j + 1]
      BY <3>2, RemoveAtElements
    <3>4. DOMAIN r = 1 .. Len(q) - 1
      BY <3>3, LenProperties
    <3>5. ASSUME NEW i \in 1 .. Len(q) - 1, r[i] = x PROVE i = 1
      <4>1. i \in DOMAIN q /\ i + 1 \in DOMAIN q /\ i + 1 # 1 /\ k \in Nat /\ i \in Nat
        BY <1>1
      <4>2. CASE i < k
        BY <3>3, <3>5, <4>1, <4>2 DEF Lead
      <4>3. CASE ~(i < k)
        BY <3>3, <3>5, <4>1, <4>3 DEF Lead
      <4> QED
        BY <4>2, <4>3
    <3> QED
      BY <3>1, <3>2, <3>4, <3>5 DEF Lead
  <2> QED
    BY <2>1, <2>2
<1> QED
  BY <1>2, <1>3, <1>4

(* A list without x is no longer than it was.                              *)
LEMMA WithoutLength ==
  ASSUME NEW S, NEW q \in Seq(S), NEW x
  PROVE  Len(Without(q, x)) \in Nat /\ Len(Without(q, x)) <= Len(q)
<1>1. Len(q) \in Nat /\ DOMAIN q = 1 .. Len(q)
  BY LenProperties
<1>2. Without(q, x) = q \/ \E k \in DOMAIN q : Without(q, x) = RemoveAt(q, k)
  <2>1. CASE ~In(x, q)
    BY <2>1 DEF Without, In
  <2>2. CASE In(x, q)
    BY <2>2 DEF Without, In
  <2> QED
    BY <2>1, <2>2
<1>3. ASSUME NEW k \in DOMAIN q PROVE Len(RemoveAt(q, k)) = Len(q) - 1 /\ Len(q) >= 1
  <2>1. Len(RemoveAt(q, k)) = Len(q) - 1
    BY RemoveAtElements
  <2> QED
    BY <1>1, <2>1
<1>4. ASSUME NEW k \in DOMAIN q, Without(q, x) = RemoveAt(q, k)
      PROVE  Len(Without(q, x)) = Len(q) - 1 /\ Len(q) >= 1
  BY <1>3, <1>4, Zenon
<1>5. PICK n : n = Len(Without(q, x))
  OBVIOUS
<1>6. n = Len(q) \/ (n = Len(q) - 1 /\ Len(q) >= 1)
  BY <1>2, <1>4, <1>5, Zenon
<1>7. n \in Nat /\ n <= Len(q)
  BY <1>1, <1>6
<1> QED
  BY <1>5, <1>7, Zenon

-----------------------------------------------------------------------------
(* client_send has the client write.                                       *)
LEMMA SayWrites ==
  ASSUME NEW c \in ClientT, NEW x PROVE Say(c, x).writes
  BY DEF Say, ClientT

(* client_data_send, when it is not for the cycle stop.                    *)
Sent(c, o) == DataSend(c, o, FALSE)

(* What it does to the client.                                             *)
LEMMA SendFields ==
  ASSUME NEW c \in ClientT, NEW o \in Obj, NEW d, d = Sent(c, o)
  PROVE  /\ d \in ClientT /\ d.objs = Append(c.objs, o) /\ d.writes
         /\ d.mode = c.mode /\ d.txt = c.txt /\ d.obj = c.obj /\ d.off = c.off /\ d.wb = c.wb
         /\ d.reads = c.reads
<1>1. PICK q \in Seq(Obj) : q = Append(c.objs, o)
  BY AppendProperties DEF ClientT
<1>2. d = [c EXCEPT !.objs = q, !.writes = TRUE, !.mode = c.mode]
  BY <1>1 DEF Sent, DataSend
<1> QED
  BY <1>1, <1>2 DEF ClientT

(* source_finished has the client write too, when it does anything, and    *)
(* else leaves everything as it is.                                        *)
LEMMA EndCycleWrites ==
  ASSUME NEW c \in ClientT, NEW s \in SourceT, NEW e, e = EndCycle(c, s)
  PROVE  IF IsFinished(s) /\ s.cyclemon
         THEN /\ e.c.writes /\ e.c.mode = "flush" /\ e.c.objs = Append(c.objs, CycleObj)
              /\ ~e.s.cyclemon
         ELSE e.c = c /\ e.s = s
<1>1. CASE IsFinished(s) /\ s.cyclemon
  <2>1. e = [c |-> DataSend(c, CycleObj, TRUE), s |-> [s EXCEPT !.cyclemon = FALSE]]
    BY <1>1 DEF EndCycle
  <2>2. e.c = [c EXCEPT !.objs = Append(@, CycleObj), !.writes = TRUE, !.mode = "flush"]
    BY <2>1 DEF DataSend
  <2>3. e.s = [s EXCEPT !.cyclemon = FALSE]
    BY <2>1
  <2>4. e.c.writes /\ e.c.mode = "flush" /\ e.c.objs = Append(c.objs, CycleObj) /\ ~e.s.cyclemon
    BY <2>2, <2>3 DEF ClientT, SourceT
  <2> QED
    BY <1>1, <2>4
<1>2. CASE ~(IsFinished(s) /\ s.cyclemon)
  <2>1. e = [c |-> c, s |-> s]
    BY <1>2 DEF EndCycle
  <2> QED
    BY <1>2, <2>1
<1> QED
  BY <1>1, <1>2

(* What the handlers do to the client, its source and its tasks.           *)

(* client_read of the first line: the source gets the command of its       *)
(* cycle.                                                                  *)
LEMMA AttachDoes ==
  ASSUME IInv, Lib(ClientRead), CommandAttach
  PROVE  /\ client'.txt = Append(client.txt, Ok) /\ client'.mode = "attached" /\ client'.writes
         /\ UNCHANGED <<client.objs, client.obj, client.off, client.wb, client.reads>>
         /\ source'.commands = <<Cycle>> /\ source'.open /\ source'.cyclemon
         /\ UNCHANGED <<source.tasks, source.finished, task, done_queue>>
<1>1. client \in ClientT /\ source \in SourceT
  BY ReadBase
<1>2. PICK c : c = [client EXCEPT !.mode = "attached"]
  OBVIOUS
<1>3. /\ c \in ClientT /\ c.txt = client.txt /\ c.mode = "attached" /\ c.objs = client.objs
      /\ c.obj = client.obj /\ c.off = client.off /\ c.wb = client.wb /\ c.reads = client.reads
  BY <1>1, <1>2 DEF ClientT
<1>4. client' = Say(c, Ok) /\ Ok \in Spoken
  BY <1>2, SpokenCases DEF CommandAttach
<1>5. /\ client'.txt = Append(client.txt, Ok) /\ client'.mode = "attached"
      /\ UNCHANGED <<client.objs, client.obj, client.off, client.wb, client.reads>>
  BY <1>3, <1>4, SayFields
<1>6. client'.writes
  BY <1>3, <1>4, SayWrites
<1>7. /\ source'.commands = <<Cycle>> /\ source'.open /\ source'.cyclemon
      /\ UNCHANGED <<source.tasks, source.finished, task, done_queue>>
  BY <1>1 DEF CommandAttach, SourceT
<1> QED
  BY <1>5, <1>6, <1>7

(* Command2, when it takes the command.                                    *)
Makes(id) ==
  /\ id = Len(task) + 1
  /\ source' = [source EXCEPT !.commands = Append(@, id), !.tasks = @ \cup {id}]
  /\ task' = Append(task, [of |-> Head(rx).task, st |-> "queued"])
  /\ client' = Say(client, OkId(id)) /\ UNCHANGED done_queue

(* A command is a task of the source now.                                  *)
LEMMA MadeDoes ==
  ASSUME IInv, Lib(ClientRead), client.mode = "attached", Head(rx).k = "task", NEW id, Makes(id)
  PROVE  /\ id \in Id /\ client'.txt = Append(client.txt, OkId(id)) /\ client'.writes
         /\ UNCHANGED <<client.mode, client.objs, client.obj, client.off, client.wb, client.reads>>
         /\ source'.commands = Append(source.commands, id)
         /\ source'.tasks = source.tasks \cup {id}
         /\ UNCHANGED <<source.open, source.finished, source.cyclemon, done_queue>>
         /\ DOMAIN task' = DOMAIN task \cup {id} /\ id \notin DOMAIN task
         /\ task'[id].st = "queued" /\ \A i \in DOMAIN task : task'[i] = task[i]
<1>0. /\ id = Len(task) + 1
      /\ source' = [source EXCEPT !.commands = Append(@, id), !.tasks = @ \cup {id}]
      /\ task' = Append(task, [of |-> Head(rx).task, st |-> "queued"])
      /\ client' = Say(client, OkId(id)) /\ UNCHANGED done_queue
  BY DEF Makes
<1>1. client \in ClientT /\ source \in SourceT /\ task \in Seq(TaskT) /\ Head(rx) \in Line
  BY ReadBase
<1>2. PICK t \in Task : t = Head(rx).task /\ Head(rx) = Do(t)
  BY <1>1, LineCases, LineHas
<1>3. IInv'
  BY ClientReadKeeps
<1>4. PICK r \in TaskT : r = [of |-> t, st |-> "queued"]
  BY DEF TaskT
<1>5. task' = Append(task, r) /\ r.st = "queued"
  BY <1>0, <1>2, <1>4
<1>6. /\ Append(task, r) \in Seq(TaskT) /\ Len(Append(task, r)) = Len(task) + 1
      /\ \A i \in 1 .. Len(task) : Append(task, r)[i] = task[i]
      /\ Append(task, r)[Len(task) + 1] = r
  BY <1>1, AppendProperties
<1>7. Len(task) \in Nat /\ DOMAIN task = 1 .. Len(task) /\ DOMAIN task' = 1 .. Len(task')
  BY <1>1, <1>5, <1>6, LenProperties
<1>8. /\ DOMAIN task' = DOMAIN task \cup {id} /\ id \notin DOMAIN task
      /\ task'[id].st = "queued" /\ \A i \in DOMAIN task : task'[i] = task[i]
  <2>1. 1 .. Len(task) + 1 = (1 .. Len(task)) \cup {id} /\ id \notin 1 .. Len(task)
    BY <1>0, <1>7
  <2> QED
    BY <1>0, <1>5, <1>6, <1>7, <2>1
<1>9. id \in Id
  <2>1. PICK q \in Seq(TaskT) : q = task'
    BY <1>5, <1>6
  <2>2. \A i, j \in DOMAIN q : q[i].of = q[j].of => i = j
    BY <1>3, <2>1 DEF IInv, Tasked
  <2>3. DOMAIN q \subseteq Id
    BY <2>2, TasksBound
  <2> QED
    BY <1>8, <2>1, <2>3
<1>10. OkId(id) \in Spoken
  BY <1>9, SpokenCases
<1>11. /\ client'.txt = Append(client.txt, OkId(id))
       /\ UNCHANGED <<client.mode, client.objs, client.obj, client.off, client.wb, client.reads>>
  BY <1>0, <1>1, <1>10, SayFields
<1>12. client'.writes
  BY <1>0, <1>1, SayWrites
<1>13. /\ source'.commands = Append(source.commands, id) /\ source'.tasks = source.tasks \cup {id}
       /\ UNCHANGED <<source.open, source.finished, source.cyclemon>>
  BY <1>0, <1>1 DEF SourceT
<1> QED
  BY <1>0, <1>8, <1>9, <1>11, <1>12, <1>13

(* A command is refused.                                                   *)
LEMMA RefusedDoes ==
  ASSUME IInv, client' = Say(client, Err)
  PROVE  /\ client'.txt = Append(client.txt, Err) /\ client'.writes
         /\ UNCHANGED <<client.mode, client.objs, client.obj, client.off, client.wb, client.reads>>
<1>1. client \in ClientT
  BY DEF IInv, Shapes
<1>2. Err \in Spoken
  BY SpokenCases
<1> QED
  BY <1>1, <1>2, SayFields, SayWrites

(* A task is halted: it is done, wherever it was.                          *)
LEMMA HaltedDoes ==
  ASSUME IInv, Lib(ClientRead), NEW id, id \in source.tasks, HaltTask(id)
  PROVE  /\ id \in Id /\ id \in DOMAIN task /\ client'.txt = Append(client.txt, Ok) /\ client'.writes
         /\ UNCHANGED <<client.mode, client.objs, client.obj, client.off, client.wb, client.reads>>
         /\ source'.commands = Without(source.commands, id)
         /\ UNCHANGED <<source.open, source.tasks, source.finished, source.cyclemon>>
         /\ \A x : In(x, source'.commands) <=> In(x, source.commands) /\ x # id
         /\ done_queue' = Append(Without(done_queue, id), id)
         /\ Without(done_queue, id) \in Seq(Id)
         /\ \A x : In(x, done_queue') <=> In(x, done_queue) \/ x = id
         /\ DOMAIN task' = DOMAIN task
         /\ \A j \in DOMAIN task : task'[j].st = IF j = id THEN "done" ELSE task[j].st
<1>1. /\ client \in ClientT /\ source \in SourceT /\ task \in Seq(TaskT) /\ done_queue \in Seq(Id)
      /\ Apart(source.commands) /\ Apart(done_queue)
  BY DEF IInv, Shapes, Tasked
<1>2. /\ client' = Say(client, Ok) /\ source' = [source EXCEPT !.commands = Without(@, id)]
      /\ task' = [task EXCEPT ![id].st = "done"]
      /\ done_queue' = Append(Without(done_queue, id), id)
  BY Zenon DEF HaltTask
<1>3. id \in Id /\ id \in DOMAIN task
  BY <1>1 DEF IInv, Tasked, SourceT
<1>4. /\ DOMAIN task' = DOMAIN task
      /\ \A j \in DOMAIN task : task'[j].st = IF j = id THEN "done" ELSE task[j].st
  <2>1. task \in Seq(TaskT) /\ id \in DOMAIN task /\ task' = [task EXCEPT ![id].st = "done"]
    BY <1>1, <1>2, <1>3
  <2> QED
    BY ONLY <2>1, TaskMoves
<1>5. Ok \in Spoken
  BY SpokenCases
<1>6. /\ client'.txt = Append(client.txt, Ok) /\ client'.writes
      /\ UNCHANGED <<client.mode, client.objs, client.obj, client.off, client.wb, client.reads>>
  BY <1>1, <1>2, <1>5, SayFields, SayWrites
<1>7. PICK cs \in Seq(Id \cup {Cycle}) : cs = source.commands
  BY <1>1 DEF SourceT
<1>8. \A y : In(y, Without(cs, id)) <=> In(y, cs) /\ y # id
  BY <1>1, <1>7, WithoutIn DEF Apart
<1>9. /\ source'.commands = Without(source.commands, id)
      /\ UNCHANGED <<source.open, source.tasks, source.finished, source.cyclemon>>
  BY <1>1, <1>2 DEF SourceT
<1>10. PICK q \in Seq(Id) : q = Without(done_queue, id)
                            /\ \A y : In(y, q) <=> In(y, done_queue) /\ y # id
  BY <1>1, WithoutIn DEF Apart
<1>11. \A y : In(y, Append(q, id)) <=> In(y, q) \/ y = id
  BY <1>3, MoreIn
<1>12. \A x : In(x, done_queue') <=> In(x, done_queue) \/ x = id
  BY <1>2, <1>10, <1>11
<1>13. \A x : In(x, source'.commands) <=> In(x, source.commands) /\ x # id
  BY <1>7, <1>8, <1>9
<1> QED
  BY <1>2, <1>3, <1>4, <1>6, <1>9, <1>10, <1>12, <1>13

(* scamper_source_control_finish: the cycle stop is written when nothing   *)
(* is left.                                                                *)
LEMMA FinishDoes ==
  ASSUME NEW c \in ClientT, NEW s \in SourceT, NEW f, f = Finish(c, s)
  PROVE  /\ f.c \in ClientT /\ f.s \in SourceT
         /\ f.c.txt = c.txt /\ f.c.obj = c.obj /\ f.c.off = c.off /\ f.c.wb = c.wb /\ f.c.reads = c.reads
         /\ f.s.open = s.open /\ f.s.commands = s.commands /\ f.s.tasks = s.tasks
         /\ s.open => f.s.finished
         /\ \/ /\ f.c = c /\ f.s.cyclemon = s.cyclemon
               /\ s.open /\ ~s.finished /\ s.cyclemon => s.commands # <<>> \/ s.tasks # {}
            \/ /\ f.c.writes /\ f.c.mode = "flush" /\ f.c.objs = Append(c.objs, CycleObj)
               /\ s.cyclemon /\ ~f.s.cyclemon /\ s.commands = <<>> /\ s.tasks = {}
               /\ s.open /\ ~s.finished
<1>1. CASE ~s.open \/ s.finished
  <2>1. f.c = c /\ f.s = s
    BY <1>1 DEF Finish
  <2> QED
    BY <1>1, <2>1
<1>2. CASE s.open /\ ~s.finished
  <2>1. PICK r : r = [s EXCEPT !.finished = TRUE]
    OBVIOUS
  <2>2. /\ r \in SourceT /\ r.finished /\ r.open = s.open /\ r.commands = s.commands /\ r.tasks = s.tasks
        /\ r.cyclemon = s.cyclemon
    BY <2>1 DEF SourceT
  <2>3. f = EndCycle(c, r)
    BY <1>2, <2>1 DEF Finish
  <2>4. c \in ClientT /\ r \in SourceT /\ f = EndCycle(c, r)
    BY <2>2, <2>3
  <2>5. /\ f.c \in ClientT /\ f.s \in SourceT
        /\ f.c.txt = c.txt /\ f.c.obj = c.obj /\ f.c.off = c.off /\ f.c.wb = c.wb /\ f.c.reads = c.reads
        /\ f.s.open = r.open /\ f.s.commands = r.commands /\ f.s.tasks = r.tasks /\ f.s.finished = r.finished
    BY ONLY <2>4, EndCycleCases
  <2>6. IF IsFinished(r) /\ r.cyclemon
        THEN /\ f.c.writes /\ f.c.mode = "flush" /\ f.c.objs = Append(c.objs, CycleObj)
             /\ ~f.s.cyclemon
        ELSE f.c = c /\ f.s = r
    BY ONLY <2>4, EndCycleWrites
  <2>7. IsFinished(r) <=> s.commands = <<>> /\ s.tasks = {}
    BY <2>2 DEF IsFinished
  <2> QED
    BY <1>2, <2>2, <2>5, <2>6, <2>7
<1> QED
  BY <1>1, <1>2

(* "done" is answered, and the source is finished.                         *)
LEMMA DoneDoes ==
  ASSUME IInv, Lib(ClientRead), client.mode = "attached", CommandDone
  PROVE  /\ client'.txt = Append(client.txt, Ok) /\ client'.writes
         /\ UNCHANGED <<client.obj, client.off, client.wb, client.reads, source.open, source.commands>>
         /\ UNCHANGED <<source.tasks, task, done_queue>>
         /\ source.open => source'.finished
         /\ \/ /\ UNCHANGED <<client.mode, client.objs, source.cyclemon>>
               /\ source.open /\ ~source.finished /\ source.cyclemon
                  => source.commands # <<>> \/ source.tasks # {}
            \/ /\ client'.mode = "flush" /\ client'.objs = Append(client.objs, CycleObj)
               /\ source.cyclemon /\ ~source'.cyclemon /\ source.commands = <<>> /\ source.tasks = {}
<1>1. client \in ClientT /\ source \in SourceT
  BY ReadBase
<1>2. PICK d : d = Say(client, Ok)
  OBVIOUS
<1>3. client \in ClientT /\ Ok \in Spoken /\ d = Say(client, Ok)
  BY <1>1, <1>2, SpokenCases
<1>4. /\ d \in ClientT /\ d.txt = Append(client.txt, Ok) /\ d.mode = client.mode /\ d.objs = client.objs
      /\ d.obj = client.obj /\ d.off = client.off /\ d.wb = client.wb /\ d.reads = client.reads
  BY ONLY <1>3, SayFields
<1>5. d.writes
  BY ONLY <1>3, SayWrites
<1>6. PICK f : f = Finish(d, source)
  OBVIOUS
<1>7. client' = f.c /\ source' = f.s /\ UNCHANGED <<task, done_queue>>
  BY <1>2, <1>6 DEF CommandDone
<1>8. d \in ClientT /\ source \in SourceT /\ f = Finish(d, source)
  BY <1>1, <1>4, <1>6
<1>9. /\ f.c.txt = d.txt /\ f.c.obj = d.obj /\ f.c.off = d.off /\ f.c.wb = d.wb /\ f.c.reads = d.reads
      /\ f.s.open = source.open /\ f.s.commands = source.commands /\ f.s.tasks = source.tasks
      /\ source.open => f.s.finished
      /\ \/ /\ f.c = d /\ f.s.cyclemon = source.cyclemon
            /\ source.open /\ ~source.finished /\ source.cyclemon
               => source.commands # <<>> \/ source.tasks # {}
         \/ /\ f.c.writes /\ f.c.mode = "flush" /\ f.c.objs = Append(d.objs, CycleObj)
            /\ source.cyclemon /\ ~f.s.cyclemon /\ source.commands = <<>> /\ source.tasks = {}
  BY ONLY <1>8, FinishDoes
<1> QED
  BY <1>4, <1>5, <1>7, <1>9

(* client_read at end of file: the client is freed, or flushed with what   *)
(* it has to write.                                                        *)
LEMMA EofDoes ==
  ASSUME IInv, Lib(ClientEof)
  PROVE  /\ client.reads /\ rx = <<>> /\ "client" \in shut /\ UNCHANGED <<rx, tx, inst, mine, fault>>
         /\ \/ ClientFree
            \/ /\ client'.mode = "flush" /\ ~client'.reads
               /\ client'.wb = client.wb /\ client'.txt = client.txt /\ client'.off = client.off
               /\ client'.obj = client.obj
               /\ source'.tasks = {} /\ source'.commands = <<>>
               /\ task' = Gone(task) /\ done_queue' = <<>> /\ UNCHANGED shut
               /\ \/ /\ client'.objs = client.objs /\ client'.writes = client.writes
                     /\ client.wb # <<>> \/ client.obj # NoObj \/ client.objs # <<>>
                     /\ source'.cyclemon => source.cyclemon
                  \/ /\ client'.objs = Append(client.objs, CycleObj) /\ client'.writes
                     /\ source.cyclemon /\ ~source'.cyclemon
<1>1. client.reads /\ rx = <<>> /\ "client" \in shut /\ UNCHANGED <<rx, tx, inst, mine, fault>>
  BY DEF Lib, ClientEof
<1>2. client \in ClientT /\ source \in SourceT
  BY DEF IInv, Shapes
<1>3. PICK f : f = Finish(client, source)
  OBVIOUS
<1>4. client \in ClientT /\ source \in SourceT /\ f = Finish(client, source)
  BY <1>2, <1>3
<1>5. /\ f.c \in ClientT /\ f.s \in SourceT
      /\ f.c.txt = client.txt /\ f.c.obj = client.obj /\ f.c.off = client.off /\ f.c.wb = client.wb
      /\ f.s.commands = source.commands /\ f.s.tasks = source.tasks
      /\ \/ f.c = client /\ f.s.cyclemon = source.cyclemon
         \/ /\ f.c.writes /\ f.c.objs = Append(client.objs, CycleObj)
            /\ source.cyclemon /\ ~f.s.cyclemon /\ source.tasks = {}
  BY ONLY <1>4, FinishDoes
<1>6. PICK e : e = IF f.s.tasks = {} THEN [c |-> f.c, s |-> f.s]
                   ELSE EndCycle(f.c, [f.s EXCEPT !.tasks = {}])
  OBVIOUS
<1>7. PICK a : a = Abandon(f.c, f.s)
  OBVIOUS
<1>8. a = [c |-> e.c, s |-> [e.s EXCEPT !.open = FALSE, !.commands = <<>>]]
  BY <1>6, <1>7, Zenon DEF Abandon
<1>9. /\ e.c \in ClientT /\ e.s \in SourceT
      /\ e.c.txt = f.c.txt /\ e.c.obj = f.c.obj /\ e.c.off = f.c.off /\ e.c.wb = f.c.wb
      /\ e.s.tasks = {}
      /\ \/ e.c = f.c /\ e.s.cyclemon = f.s.cyclemon
         \/ /\ e.c.writes /\ e.c.objs = Append(f.c.objs, CycleObj)
            /\ f.s.cyclemon /\ ~e.s.cyclemon /\ f.s.tasks # {}
  <2>1. CASE f.s.tasks = {}
    <3>1. e.c = f.c /\ e.s = f.s
      BY <1>6, <2>1
    <3> QED
      BY <1>5, <2>1, <3>1
  <2>2. CASE f.s.tasks # {}
    <3>1. PICK s0 \in SourceT : s0 = f.s
      BY <1>5
    <3>2. PICK s1 : s1 = [s0 EXCEPT !.tasks = {}]
      OBVIOUS
    <3>3. s1 \in SourceT /\ s1.tasks = {} /\ s1.cyclemon = s0.cyclemon
      BY <3>2 DEF SourceT
    <3>4. f.c \in ClientT /\ s1 \in SourceT /\ e = EndCycle(f.c, s1)
      BY <1>5, <1>6, <2>2, <3>1, <3>2, <3>3
    <3>5. /\ e.c \in ClientT /\ e.s \in SourceT
          /\ e.c.txt = f.c.txt /\ e.c.obj = f.c.obj /\ e.c.off = f.c.off /\ e.c.wb = f.c.wb
          /\ e.s.tasks = s1.tasks
      BY ONLY <3>4, EndCycleCases
    <3>6. IF IsFinished(s1) /\ s1.cyclemon
          THEN e.c.writes /\ e.c.objs = Append(f.c.objs, CycleObj) /\ ~e.s.cyclemon
          ELSE e.c = f.c /\ e.s = s1
      BY ONLY <3>4, EndCycleWrites
    <3> QED
      BY <2>2, <3>1, <3>3, <3>5, <3>6
  <2> QED
    BY <2>1, <2>2
<1>10. PICK g \in SourceT : g = e.s
  BY <1>9
<1>11. PICK r : r = [g EXCEPT !.open = FALSE, !.commands = <<>>]
  OBVIOUS
<1>12. r.tasks = {} /\ r.commands = <<>> /\ r.cyclemon = g.cyclemon /\ r.open = FALSE
  BY <1>9, <1>10, <1>11 DEF SourceT
<1>13. a.c = e.c /\ a.s = r
  BY <1>8, <1>10, <1>11
<1>14. /\ a.c \in ClientT /\ a.c.txt = client.txt /\ a.c.obj = client.obj /\ a.c.off = client.off
       /\ a.c.wb = client.wb /\ a.s.tasks = {} /\ a.s.commands = <<>> /\ ~a.s.open
       /\ \/ /\ a.c.objs = client.objs /\ a.c.writes = client.writes
             /\ a.s.cyclemon = source.cyclemon
          \/ /\ a.c.objs = Append(client.objs, CycleObj) /\ a.c.writes
             /\ source.cyclemon /\ ~a.s.cyclemon
  BY <1>5, <1>9, <1>10, <1>12, <1>13
<1>15. IF IsDone(a.c, a.s) THEN ClientFree
       ELSE /\ client' = [a.c EXCEPT !.mode = "flush", !.reads = FALSE]
            /\ source' = a.s
            /\ task' = Gone(task)
            /\ done_queue' = <<>>
            /\ UNCHANGED shut
  BY <1>3, <1>7, Zenon DEF Lib, ClientEof
<1>16. CASE ~IsDone(a.c, a.s)
  <2>1. PICK z \in ClientT : z = a.c
    BY <1>14
  <2>2. client' = [z EXCEPT !.mode = "flush", !.reads = FALSE]
    BY <1>15, <1>16, <2>1
  <2>3. /\ client'.mode = "flush" /\ ~client'.reads /\ client'.writes = z.writes
        /\ client'.wb = z.wb /\ client'.txt = z.txt /\ client'.off = z.off /\ client'.obj = z.obj
        /\ client'.objs = z.objs
    BY <2>2 DEF ClientT
  <2>4. z.wb # <<>> \/ z.obj # NoObj \/ z.objs # <<>>
    BY <1>14, <1>16, <2>1 DEF IsDone, IsFinished
  <2> QED
    BY <1>1, <1>14, <1>15, <1>16, <2>1, <2>3, <2>4
<1> QED
  BY <1>1, <1>15, <1>16

(* client_free, with the types before it.                                  *)
LEMMA FreeDoes ==
  ASSUME IInv, ClientFree
  PROVE  /\ client'.mode = "freed" /\ client'.txt = <<>> /\ client'.wb = <<>> /\ client'.objs = <<>>
         /\ client'.off = 0 /\ ~client'.reads /\ ~client'.writes
         /\ source'.commands = <<>> /\ source'.tasks = {} /\ ~source'.cyclemon
         /\ source'.finished = source.finished
         /\ task' = Gone(task) /\ done_queue' = <<>> /\ shut' = shut \cup {"scamper"}
<1>1. client \in ClientT /\ source \in SourceT
  BY DEF IInv, Shapes
<1>2. /\ client' = [client EXCEPT !.mode = "freed", !.txt = <<>>, !.objs = <<>>, !.obj = NoObj,
                                  !.off = 0, !.wb = <<>>, !.reads = FALSE, !.writes = FALSE]
      /\ source' = [source EXCEPT !.open = FALSE, !.commands = <<>>, !.tasks = {}, !.cyclemon = FALSE]
      /\ task' = Gone(task) /\ done_queue' = <<>> /\ shut' = shut \cup {"scamper"}
  BY DEF ClientFree
<1>3. /\ client'.mode = "freed" /\ client'.txt = <<>> /\ client'.wb = <<>> /\ client'.objs = <<>>
      /\ client'.off = 0 /\ ~client'.reads /\ ~client'.writes
  BY <1>1, <1>2 DEF ClientT
<1>4. /\ source'.commands = <<>> /\ source'.tasks = {} /\ ~source'.cyclemon
      /\ source'.finished = source.finished
  BY <1>1, <1>2 DEF SourceT
<1> QED
  BY <1>2, <1>3, <1>4

(* ssc_take says MORE or nothing.                                          *)
LEMMA TakeDoes ==
  ASSUME client \in ClientT, NEW c, c = Take(client, source)
  PROVE  /\ c \in ClientT /\ c.mode = client.mode /\ c.objs = client.objs /\ c.obj = client.obj
         /\ c.off = client.off /\ c.wb = client.wb /\ c.reads = client.reads
         /\ \/ c.txt = client.txt /\ c.writes = client.writes
            \/ c.txt = Append(client.txt, More) /\ c.writes /\ ~source.finished
<1>1. CASE Len(source.commands) = 1 /\ ~source.finished
  <2>1. c = Say(client, More) /\ More \in Spoken
    BY <1>1, SpokenCases DEF Take
  <2> QED
    BY <1>1, <2>1, SayFields, SayWrites
<1>2. CASE ~(Len(source.commands) = 1 /\ ~source.finished)
  <2>1. c = client
    BY <1>2 DEF Take
  <2> QED
    BY <2>1
<1> QED
  BY <1>1, <1>2

(* scamper_sources_gettask: a command is taken, and a task is running or a *)
(* cycle record waits to be written.                                       *)
LEMMA GetDoes ==
  ASSUME IInv, Lib(GetTask)
  PROVE  /\ source.commands # <<>> /\ source'.commands = Tail(source.commands)
         /\ UNCHANGED <<source.open, source.tasks, source.finished, source.cyclemon>>
         /\ UNCHANGED <<client.mode, client.obj, client.off, client.wb, client.reads>>
         /\ \/ client'.txt = client.txt
            \/ client'.txt = Append(client.txt, More) /\ client'.writes /\ ~source.finished
         /\ client.writes => client'.writes
         /\ \/ /\ Head(source.commands) = Cycle /\ client'.objs = Append(client.objs, CycleObj)
               /\ client'.writes /\ UNCHANGED task
            \/ /\ Head(source.commands) \in Id /\ client'.objs = client.objs
               /\ client'.txt = client.txt => client'.writes = client.writes
               /\ Head(source.commands) \in DOMAIN task /\ DOMAIN task' = DOMAIN task
               /\ task[Head(source.commands)].st = "queued"
               /\ \A j \in DOMAIN task :
                    task'[j].st = IF j = Head(source.commands) THEN "running" ELSE task[j].st
         /\ UNCHANGED <<inst, mine, fault, done_queue, rx, tx, shut>>
<1>1. /\ client \in ClientT /\ source \in SourceT /\ task \in Seq(TaskT)
      /\ source.commands # <<>> /\ UNCHANGED <<inst, mine, fault, done_queue, rx, tx, shut>>
  BY DEF IInv, Shapes, Lib, GetTask
<1>2. PICK cs \in Seq(Id \cup {Cycle}) : cs = source.commands /\ cs # <<>>
  BY <1>1 DEF SourceT
<1>3. PICK i \in Id \cup {Cycle} : i = Head(cs) /\ In(i, cs)
  BY <1>2, TailWithin
<1>4. PICK c : c = Take(client, source)
  OBVIOUS
<1>5. /\ source' = [source EXCEPT !.commands = Tail(cs)]
      /\ IF i = Cycle THEN client' = DataSend(c, CycleObj, FALSE) /\ UNCHANGED task
         ELSE client' = c /\ task' = [task EXCEPT ![i].st = "running"]
  BY <1>2, <1>3, <1>4, Zenon DEF Lib, GetTask
<1>6. source'.commands = Tail(cs) /\ UNCHANGED <<source.open, source.tasks, source.finished, source.cyclemon>>
  BY <1>1, <1>5 DEF SourceT
<1>7. /\ c \in ClientT /\ c.mode = client.mode /\ c.objs = client.objs /\ c.obj = client.obj
      /\ c.off = client.off /\ c.wb = client.wb /\ c.reads = client.reads
      /\ \/ c.txt = client.txt /\ c.writes = client.writes
         \/ c.txt = Append(client.txt, More) /\ c.writes /\ ~source.finished
  BY <1>1, <1>4, TakeDoes
<1>8. CASE i = Cycle
  <2>1. client' = DataSend(c, CycleObj, FALSE) /\ CycleObj \in Obj /\ UNCHANGED task
    BY <1>5, <1>8, ObjCases
  <2>2. PICK d : d = client' /\ d = DataSend(c, CycleObj, FALSE)
    BY <2>1
  <2>3. /\ d.objs = Append(c.objs, CycleObj) /\ d.writes
        /\ d.mode = c.mode /\ d.txt = c.txt /\ d.obj = c.obj /\ d.off = c.off
        /\ d.wb = c.wb /\ d.reads = c.reads
    <3>1. c \in ClientT /\ CycleObj \in Obj /\ d = Sent(c, CycleObj)
      BY <1>7, <2>1, <2>2 DEF Sent
    <3> QED
      BY ONLY <3>1, SendFields
  <2> QED
    BY <1>1, <1>2, <1>3, <1>6, <1>7, <1>8, <2>1, <2>2, <2>3
<1>9. CASE i # Cycle
  <2>1. i \in Id /\ i \in DOMAIN task /\ task[i].st = "queued"
    BY <1>2, <1>3, <1>9 DEF IInv, Tasked
  <2>2. client' = c /\ task' = [task EXCEPT ![i].st = "running"]
    BY <1>5, <1>9
  <2>3. /\ DOMAIN task' = DOMAIN task
        /\ \A j \in DOMAIN task : task'[j].st = IF j = i THEN "running" ELSE task[j].st
    <3>1. task \in Seq(TaskT) /\ i \in DOMAIN task /\ task' = [task EXCEPT ![i].st = "running"]
      BY <1>1, <2>1, <2>2
    <3> QED
      BY ONLY <3>1, TaskMoves
  <2> QED
    BY <1>1, <1>2, <1>3, <1>6, <1>7, <2>1, <2>2, <2>3
<1> QED
  BY <1>8, <1>9

(* scamper_process_done: the result waits to be written, and perhaps the   *)
(* cycle stop.                                                             *)
LEMMA DoneWritten ==
  ASSUME IInv, Lib(ProcessDone)
  PROVE  /\ done_queue # <<>> /\ done_queue' = Tail(done_queue)
         /\ Head(done_queue) \in Id /\ Head(done_queue) \in DOMAIN task
         /\ task[Head(done_queue)].st = "done" /\ Head(done_queue) \in source.tasks
         /\ DOMAIN task' = DOMAIN task
         /\ \A j \in DOMAIN task :
              task'[j].st = IF j = Head(done_queue) THEN "freed" ELSE task[j].st
         /\ client'.writes
         /\ UNCHANGED <<client.txt, client.obj, client.off, client.wb, client.reads>>
         /\ UNCHANGED <<source.open, source.commands, source.finished>>
         /\ source'.tasks = source.tasks \ {Head(done_queue)}
         /\ \/ /\ UNCHANGED <<client.mode, source.cyclemon>>
               /\ client'.objs = Append(client.objs, Result(Head(done_queue)))
               /\ source.cyclemon => \/ source.commands # <<>> \/ source'.tasks # {}
                                     \/ source.open /\ ~source.finished
            \/ /\ client'.mode = "flush" /\ source.cyclemon /\ ~source'.cyclemon
               /\ client'.objs = Append(Append(client.objs, Result(Head(done_queue))), CycleObj)
               /\ source.commands = <<>> /\ source'.tasks = {}
         /\ UNCHANGED <<inst, mine, fault, rx, tx, shut>>
<1>1. /\ client \in ClientT /\ source \in SourceT /\ task \in Seq(TaskT)
      /\ done_queue \in Seq(Id) /\ done_queue # <<>>
      /\ UNCHANGED <<inst, mine, fault, rx, tx, shut>>
  BY DEF IInv, Shapes, Lib, ProcessDone
<1>2. PICK i \in Id : i = Head(done_queue) /\ In(i, done_queue)
  BY <1>1, TailWithin
<1>3. PICK c, s : c = DataSend(client, Result(i), FALSE) /\ s = [source EXCEPT !.tasks = @ \ {i}]
  OBVIOUS
<1>4. PICK e : e = EndCycle(c, s)
  OBVIOUS
<1>5. /\ client' = e.c /\ source' = e.s /\ task' = [task EXCEPT ![i].st = "freed"]
      /\ done_queue' = Tail(done_queue)
  BY <1>2, <1>3, <1>4, Zenon DEF Lib, ProcessDone
<1>6. i \in DOMAIN task /\ task[i].st = "done" /\ i \in source.tasks
  BY <1>2 DEF IInv, Tasked
<1>7. /\ DOMAIN task' = DOMAIN task
      /\ \A j \in DOMAIN task : task'[j].st = IF j = i THEN "freed" ELSE task[j].st
  <2>1. task \in Seq(TaskT) /\ i \in DOMAIN task /\ task' = [task EXCEPT ![i].st = "freed"]
    BY <1>1, <1>5, <1>6
  <2> QED
    BY ONLY <2>1, TaskMoves
<1>8. Result(i) \in Obj
  BY ObjCases
<1>9. /\ c \in ClientT /\ c.objs = Append(client.objs, Result(i)) /\ c.writes
      /\ c.mode = client.mode /\ c.txt = client.txt /\ c.obj = client.obj /\ c.off = client.off
      /\ c.wb = client.wb /\ c.reads = client.reads
  <2>1. client \in ClientT /\ Result(i) \in Obj /\ c = Sent(client, Result(i))
    BY <1>1, <1>3, <1>8 DEF Sent
  <2> QED
    BY ONLY <2>1, SendFields
<1>10. /\ s \in SourceT /\ s.open = source.open /\ s.commands = source.commands
       /\ s.tasks = source.tasks \ {i} /\ s.finished = source.finished /\ s.cyclemon = source.cyclemon
  BY <1>1, <1>3 DEF SourceT
<1>11. c \in ClientT /\ s \in SourceT /\ e = EndCycle(c, s)
  BY <1>4, <1>9, <1>10
<1>12. /\ e.c.txt = c.txt /\ e.c.obj = c.obj /\ e.c.off = c.off /\ e.c.wb = c.wb /\ e.c.reads = c.reads
       /\ e.s.open = s.open /\ e.s.commands = s.commands /\ e.s.tasks = s.tasks
       /\ e.s.finished = s.finished
  BY ONLY <1>11, EndCycleCases
<1>13. IF IsFinished(s) /\ s.cyclemon
       THEN /\ e.c.writes /\ e.c.mode = "flush" /\ e.c.objs = Append(c.objs, CycleObj)
            /\ ~e.s.cyclemon
       ELSE e.c = c /\ e.s = s
  BY ONLY <1>11, EndCycleWrites
<1>14. IsFinished(s) <=> s.commands = <<>> /\ s.tasks = {} /\ (s.open => s.finished)
  BY DEF IsFinished
<1>15. /\ client'.writes
       /\ UNCHANGED <<client.txt, client.obj, client.off, client.wb, client.reads>>
       /\ UNCHANGED <<source.open, source.commands, source.finished>>
       /\ source'.tasks = source.tasks \ {i}
  BY <1>5, <1>9, <1>10, <1>12, <1>13
<1>16. CASE IsFinished(s) /\ s.cyclemon
  <2>1. /\ client'.mode = "flush" /\ source.cyclemon /\ ~source'.cyclemon
        /\ client'.objs = Append(Append(client.objs, Result(i)), CycleObj)
        /\ source.commands = <<>> /\ source'.tasks = {}
    BY <1>5, <1>9, <1>10, <1>12, <1>13, <1>14, <1>16
  <2> QED
    BY <1>1, <1>2, <1>5, <1>6, <1>7, <1>15, <2>1
<1>17. CASE ~(IsFinished(s) /\ s.cyclemon)
  <2>1. /\ UNCHANGED <<client.mode, source.cyclemon>>
        /\ client'.objs = Append(client.objs, Result(i))
        /\ source.cyclemon => \/ source.commands # <<>> \/ source'.tasks # {}
                              \/ source.open /\ ~source.finished
    BY <1>5, <1>9, <1>10, <1>13, <1>14, <1>17
  <2> QED
    BY <1>1, <1>2, <1>5, <1>6, <1>7, <1>15, <2>1
<1> QED
  BY <1>16, <1>17

(* A measurement ends.                                                     *)
LEMMA EndsDoes ==
  ASSUME IInv, NEW i \in DOMAIN task, Lib(TaskEnds(i))
  PROVE  /\ i \in Id /\ task[i].st = "running" /\ done_queue' = Append(done_queue, i)
         /\ DOMAIN task' = DOMAIN task
         /\ \A j \in DOMAIN task : task'[j].st = IF j = i THEN "done" ELSE task[j].st
         /\ UNCHANGED <<client, source, rx, tx, shut, inst, mine, fault>>
<1>1. /\ task[i].st = "running" /\ task' = [task EXCEPT ![i].st = "done"]
      /\ done_queue' = Append(done_queue, i)
      /\ UNCHANGED <<client, source, rx, tx, shut, inst, mine, fault>>
  BY DEF Lib, TaskEnds
<1>2. task \in Seq(TaskT) /\ \A j, k \in DOMAIN task : task[j].of = task[k].of => j = k
  BY DEF IInv, Shapes, Tasked
<1>3. i \in Id
  BY <1>2, TasksBound
<1>4. /\ DOMAIN task' = DOMAIN task
      /\ \A j \in DOMAIN task : task'[j].st = IF j = i THEN "done" ELSE task[j].st
  <2>1. task \in Seq(TaskT) /\ i \in DOMAIN task /\ task' = [task EXCEPT ![i].st = "done"]
    BY <1>1, <1>2
  <2> QED
    BY ONLY <2>1, TaskMoves
<1> QED
  BY <1>1, <1>3, <1>4

-----------------------------------------------------------------------------
(* What is left to write of a client, in the counting of Work, when the    *)
(* socket holds q.                                                         *)
ToWrite(c, q) ==
  OfObject * Len(c.objs) + 3 * Left(c) + 3 * Len(c.txt) + 2 * Len(c.wb) + Len(q)

(* What each thing counts for.                                             *)
LEMMA Weights ==
  /\ OfObject \in Nat /\ OfEnding \in Nat /\ OfRunning \in Nat /\ OfCommand \in Nat /\ OfLine \in Nat
  /\ OfObject = 3 * Pieces + 3 /\ OfEnding = OfObject + 2 /\ OfRunning = OfEnding + 1
  /\ OfCommand = OfRunning + 5 /\ OfLine = OfCommand + OfEnding + 5
<1>1. Pieces \in Nat
  BY ClientAssumption
<1> QED
  BY <1>1 DEF OfObject, OfEnding, OfRunning, OfCommand, OfLine

(* One thing more or fewer of what counts for w.                           *)
LEMMA Times ==
  ASSUME NEW w \in Nat
  PROVE  /\ \A n \in Nat : w * n \in Nat /\ w * (n + 1) = w * n + w
         /\ \A n \in Nat \ {0} : w * (n - 1) = w * n - w
         /\ \A m, n \in Nat : m <= n => w * m <= w * n
         /\ w * 0 = 0 /\ w * 1 = w
<1>1. \A n \in Nat : w * n \in Nat /\ w * (n + 1) = w * n + w
  OBVIOUS
<1>2. \A n \in Nat \ {0} : w * (n - 1) = w * n - w
  OBVIOUS
<1>3. \A k \in Nat : w * k >= 0
  OBVIOUS
<1>4. ASSUME NEW m \in Nat, NEW n \in Nat, m <= n PROVE w * m <= w * n
  <2>1. PICK k \in Nat : k = n - m
    BY <1>4
  <2>2. w * n = w * m + w * k
    <3>1. n = m + k
      BY <2>1
    <3> QED
      BY <3>1
  <2> QED
    BY <1>3, <2>2
<1> QED
  BY <1>1, <1>2, <1>4

(* A header written, and the first piece: for the object, less.            *)
LEMMA HeaderSum ==
  ASSUME NEW a \in Nat, NEW p \in Nat, NEW x \in Nat, NEW j \in Nat, NEW k \in Nat, x <= p, x >= 1
  PROVE  (a - (3 * p + 3)) + 3 * (x - 1) + 3 * 0 + 2 * (j + 2) + k <= a + 3 * 0 + 3 * j + 0 + k
  OBVIOUS

(* How long a concatenation is.                                            *)
LEMMA ConcatLength ==
  ASSUME NEW S, NEW p \in Seq(S), NEW q \in Seq(S)
  PROVE  p \o q \in Seq(S) /\ Len(p \o q) = Len(p) + Len(q)
  BY ConcatProperties

(* From m + 1 to l there are l - m, as SubSeq counts them.                 *)
LEMMA Dropped ==
  ASSUME NEW l \in Nat, NEW m \in Nat, m <= l, NEW x, x = IF m + 1 <= l THEN l - (m + 1) + 1 ELSE 0
  PROVE  x = l - m
  OBVIOUS

(* What is cut out of a list.                                              *)
LEMMA CutLength ==
  ASSUME NEW S, NEW q \in Seq(S), NEW n \in 0 .. Len(q)
  PROVE  /\ SubSeq(q, 1, n) \in Seq(S) /\ Len(SubSeq(q, 1, n)) = n
         /\ SubSeq(q, n + 1, Len(q)) \in Seq(S) /\ Len(SubSeq(q, n + 1, Len(q))) = Len(q) - n
         /\ \A k : Has(SubSeq(q, 1, n), k) \/ Has(SubSeq(q, n + 1, Len(q)), k) => Has(q, k)
<1>1. /\ Len(q) \in Nat /\ n \in Nat /\ n <= Len(q) /\ DOMAIN q = 1 .. Len(q)
      /\ \A i \in 1 .. Len(q) : q[i] \in S
  BY LenProperties, ElementOfSeq
<1>2. PICK a : a = SubSeq(q, 1, n)
  OBVIOUS
<1>3. PICK b : b = SubSeq(q, n + 1, Len(q))
  OBVIOUS
<1>4. a \in Seq(S) /\ Len(a) = n /\ \A i \in 1 .. n : a[i] = q[i]
  <2>1. \A i \in 1 .. n : q[i] \in S
    BY <1>1
  <2>2. /\ a \in Seq(S) /\ Len(a) = (IF 1 <= n THEN n - 1 + 1 ELSE 0)
        /\ \A i \in 1 .. n - 1 + 1 : a[i] = q[1 + i - 1]
    BY <1>1, <1>2, <2>1, SubSeqProperties
  <2>3. \A i \in 1 .. n : i \in 1 .. n - 1 + 1 /\ 1 + i - 1 = i
    BY <1>1
  <2>4. Len(a) = n
    BY <1>1, <2>2
  <2> QED
    BY <2>2, <2>3, <2>4
<1>5. b \in Seq(S) /\ Len(b) = Len(q) - n /\ \A i \in 1 .. Len(q) - n : b[i] = q[n + i]
  <2>1. \A i \in n + 1 .. Len(q) : q[i] \in S
    BY <1>1
  <2>2. /\ b \in Seq(S) /\ Len(b) = (IF n + 1 <= Len(q) THEN Len(q) - (n + 1) + 1 ELSE 0)
        /\ \A i \in 1 .. Len(q) - (n + 1) + 1 : b[i] = q[(n + 1) + i - 1]
    BY <1>1, <1>3, <2>1, SubSeqProperties
  <2>3. Len(q) - (n + 1) + 1 = Len(q) - n /\ \A i \in 1 .. Len(q) - n : (n + 1) + i - 1 = n + i
    BY <1>1
  <2>4. Len(b) = Len(q) - n
    <3>1. /\ Len(q) \in Nat /\ n \in Nat /\ n <= Len(q)
          /\ Len(b) = IF n + 1 <= Len(q) THEN Len(q) - (n + 1) + 1 ELSE 0
      BY <1>1, <2>2, Zenon
    <3> QED
      BY <3>1, Dropped, Zenon
  <2> QED
    BY <2>2, <2>3, <2>4, Zenon
<1>6. DOMAIN a = 1 .. n /\ DOMAIN b = 1 .. Len(q) - n
  BY <1>4, <1>5, LenProperties
<1>7. \A i \in 1 .. n : i \in DOMAIN q
  BY <1>1
<1>8. \A i \in 1 .. Len(q) - n : n + i \in DOMAIN q
  BY <1>1
<1>9. \A k : Has(a, k) \/ Has(b, k) => Has(q, k)
  BY <1>4, <1>5, <1>6, <1>7, <1>8 DEF Has
<1> QED
  BY <1>2, <1>3, <1>4, <1>5, <1>9

(* client_write_do says nothing that was not said, and leaves no more to   *)
(* write than there was; when it writes nothing there is nothing.          *)
LEMMA RefillDoes ==
  ASSUME NEW c \in ClientT, Writing(c), NEW q \in Seq(Answer),
         NEW r, r = IF c.wb = <<>> THEN WriteDo(c) ELSE c
  PROVE  /\ r \in ClientT /\ Writing(r) /\ r.mode = c.mode /\ r.reads = c.reads /\ r.writes = c.writes
         /\ Left(c) \in Nat /\ Left(r) \in Nat
         /\ ToWrite(r, q) <= ToWrite(c, q)
         /\ r.wb = <<>> => r.off = 0 /\ r.objs = <<>> /\ r.txt = <<>>
         /\ ~Has(c.txt, "MORE") /\ ~Has(c.wb, "MORE") => ~Has(r.txt, "MORE") /\ ~Has(r.wb, "MORE")
<1>0. \A d \in ClientT : Writing(d) => Left(d) \in Nat
  <2> SUFFICES ASSUME NEW d \in ClientT, Writing(d) PROVE Left(d) \in Nat
    OBVIOUS
  <2>1. d.off \in Nat /\ d.obj \in Obj \cup {NoObj} /\ (d.off > 0 => d.obj # NoObj /\ d.off < d.obj.len)
    BY DEF ClientT, Writing
  <2>2. d.off > 0 => d.obj.len \in 1 .. Pieces
    BY <2>1, ObjCases
  <2> QED
    BY <2>1, <2>2, ClientAssumption DEF Left
<1>1. CASE c.wb # <<>>
  <2>1. r = c
    BY <1>1
  <2>2. Len(c.objs) \in Nat /\ Len(c.txt) \in Nat /\ Len(c.wb) \in Nat /\ Len(q) \in Nat
    <3>1. c.objs \in Seq(Obj) /\ c.txt \in Seq(Spoken) /\ c.wb \in Seq(Answer)
      BY DEF ClientT
    <3> QED
      BY <3>1, Lengths
  <2>3. ToWrite(c, q) \in Nat
    <3>1. PICK a, l, t, b, x : /\ a = OfObject * Len(c.objs) /\ l = Left(c) /\ t = Len(c.txt)
                               /\ b = Len(c.wb) /\ x = Len(q)
      OBVIOUS
    <3>2. a \in Nat /\ l \in Nat /\ t \in Nat /\ b \in Nat /\ x \in Nat
      BY <1>0, <2>2, <3>1, Weights, Times
    <3>3. ToWrite(c, q) = a + 3 * l + 3 * t + 2 * b + x
      <4>2. ToWrite(c, q) = OfObject * Len(c.objs) + 3 * Left(c) + 3 * Len(c.txt) + 2 * Len(c.wb) + Len(q)
        BY DEF ToWrite
      <4> QED
        BY ONLY <3>1, <4>2
    <3> QED
      BY <3>2, <3>3
  <2> QED
    BY <1>0, <1>1, <2>1, <2>3
<1>2. CASE c.wb = <<>>
  <2>1. /\ r \in ClientT /\ Writing(r) /\ r.mode = c.mode /\ r.reads = c.reads
        /\ \/ /\ c.off = 0 /\ c.objs = <<>> /\ r.off = 0 /\ r.objs = <<>>
              /\ r.txt = <<>> /\ r.wb = c.txt
           \/ /\ c.off = 0 /\ c.objs # <<>> /\ r.objs = Tail(c.objs) /\ r.txt = <<>>
              /\ r.wb = c.txt \o <<DataHeader(Head(c.objs))>> \o <<Piece>>
              /\ Left(r) = Head(c.objs).len - 1
           \/ /\ c.off > 0 /\ r.objs = c.objs /\ r.txt = c.txt /\ r.wb = <<Piece>>
              /\ Left(c) = Left(r) + 1
    <3>1. c \in ClientT /\ Writing(c) /\ c.wb = <<>> /\ r = WriteDo(c)
      BY <1>2
    <3> QED
      BY ONLY <3>1, WriteCases, SMTT(30)
  <2>2. r.writes = c.writes
    <3>1. PICK u, v, w, x, y :
            /\ u = IF c.off = 0 THEN <<>> ELSE c.txt
            /\ v = IF c.off = 0 /\ c.objs # <<>> THEN Tail(c.objs) ELSE c.objs
            /\ w = WriteDo(c).obj /\ x = WriteDo(c).off /\ y = WriteDo(c).wb
      OBVIOUS
    <3>2. DOMAIN WriteDo(c) = DOMAIN c /\ WriteDo(c).writes = c.writes
      BY DEF WriteDo, ClientT
    <3> QED
      BY <1>2, <3>2
  <2>3. PICK t \in Seq(Spoken), o \in Seq(Obj) : t = c.txt /\ o = c.objs
    BY DEF ClientT
  <2>4. t \in Seq(Answer) /\ <<>> \in Seq(Spoken)
    BY SpokenSeq
  <2>5. PICK m \in Nat, n \in Nat : m = Left(c) /\ n = Left(r)
    BY <1>0, <2>1
  <2>6. PICK W \in Nat : W = OfObject /\ W = 3 * Pieces + 3 /\ Pieces \in Nat
    BY Weights, ClientAssumption
  <2>7. PICK lt \in Nat, lo \in Nat, lq \in Nat :
          /\ lt = Len(t) /\ lo = Len(o) /\ lq = Len(q) /\ (o # <<>> => lo \in Nat \ {0})
    BY Lengths
  <2>8. PICK a \in Nat : a = W * lo /\ ToWrite(c, q) = a + 3 * m + 3 * lt + 0 + lq
    <3>1. PICK a \in Nat : a = W * lo
      BY Times
    <3>2. PICK b : b = Len(c.wb) /\ b = 0
      BY <1>2
    <3>3. a = OfObject * Len(c.objs) /\ m = Left(c) /\ lt = Len(c.txt) /\ b = Len(c.wb) /\ lq = Len(q)
      BY <2>3, <2>5, <2>6, <2>7, <3>1, <3>2
    <3>4. ToWrite(c, q) = a + 3 * m + 3 * lt + 2 * b + lq
      <4>2. ToWrite(c, q) = OfObject * Len(c.objs) + 3 * Left(c) + 3 * Len(c.txt) + 2 * Len(c.wb) + Len(q)
        BY DEF ToWrite
      <4> QED
        BY ONLY <3>3, <4>2
    <3>5. 2 * b = 0
      BY <3>2
    <3> QED
      BY <3>1, <3>4, <3>5
  <2>9. CASE c.off = 0 /\ c.objs = <<>> /\ r.off = 0 /\ r.objs = <<>> /\ r.txt = <<>> /\ r.wb = c.txt
    <3>1. n = 0 /\ m = 0 /\ lo = 0
      BY <2>3, <2>5, <2>7, <2>9 DEF Left
    <3>2. PICK z : z = OfObject * Len(r.objs) /\ z = 0
      <4>1. W * 0 = 0 /\ Len(<<>>) = 0
        BY Times
      <4> QED
        BY <2>6, <2>9, <4>1
    <3>3. PICK y : y = Len(r.txt) /\ y = 0
      BY <2>9
    <3>4. ToWrite(r, q) = z + 3 * n + 3 * y + 2 * lt + lq
      <4>1. z = OfObject * Len(r.objs) /\ n = Left(r) /\ y = Len(r.txt) /\ lt = Len(r.wb) /\ lq = Len(q)
        BY <2>3, <2>5, <2>7, <2>9, <3>2, <3>3
      <4>2. ToWrite(r, q) = OfObject * Len(r.objs) + 3 * Left(r) + 3 * Len(r.txt) + 2 * Len(r.wb) + Len(q)
        BY DEF ToWrite
      <4> QED
        BY ONLY <4>1, <4>2
    <3>5. ToWrite(r, q) <= ToWrite(c, q)
      BY ONLY <2>7, <2>8, <3>1, <3>2, <3>3, <3>4, lt \in Nat, lq \in Nat, a \in Nat
    <3> QED
      BY <2>1, <2>2, <2>5, <2>9, <3>5, EmptyHas
  <2>10. CASE /\ c.off = 0 /\ c.objs # <<>> /\ r.objs = Tail(c.objs) /\ r.txt = <<>>
              /\ r.wb = c.txt \o <<DataHeader(Head(c.objs))>> \o <<Piece>>
              /\ Left(r) = Head(c.objs).len - 1
    <3>1. PICK x \in Obj : x = Head(o)
      BY <2>3, <2>10, TailWithin
    <3>2. x.len \in 1 .. Pieces /\ DataHeader(x) \in Answer /\ DataHeader(x).k = "DATA" /\ Piece.k = "piece"
      BY ObjCases, AnswerKinds
    <3>3. PICK h \in Answer : h = DataHeader(x) /\ h.k = "DATA"
      BY <3>2
    <3>4. <<h>> \in Seq(Answer) /\ <<Piece>> \in Seq(Answer)
      BY OneAnswer
    <3>5. /\ t \o <<h>> \in Seq(Answer) /\ Len(t \o <<h>>) = Len(t) + Len(<<h>>)
          /\ Has(t \o <<h>>, "MORE") <=> Has(t, "MORE") \/ Has(<<h>>, "MORE")
      BY <2>4, <3>4, ConcatLength, HasConcat
    <3>6. /\ (t \o <<h>>) \o <<Piece>> \in Seq(Answer)
          /\ Len((t \o <<h>>) \o <<Piece>>) = Len(t \o <<h>>) + Len(<<Piece>>)
          /\ Has((t \o <<h>>) \o <<Piece>>, "MORE") <=> Has(t \o <<h>>, "MORE") \/ Has(<<Piece>>, "MORE")
      BY <3>4, <3>5, ConcatLength, HasConcat
    <3>7. Len(<<h>>) = 1 /\ Len(<<Piece>>) = 1
      OBVIOUS
    <3>8. ~Has(<<h>>, "MORE") /\ ~Has(<<Piece>>, "MORE")
      BY <3>2, <3>3 DEF Has
    <3>9. r.wb = (t \o <<h>>) \o <<Piece>>
      BY <2>3, <2>10, <3>1, <3>3
    <3>10. PICK w \in Seq(Answer) : w = r.wb /\ Len(w) = lt + 2 /\ (~Has(t, "MORE") => ~Has(w, "MORE"))
      <4>1. PICK v : v = t \o <<h>>
        OBVIOUS
      <4>2. PICK w : w = v \o <<Piece>>
        OBVIOUS
      <4>3. w \in Seq(Answer) /\ w = r.wb /\ (~Has(t, "MORE") => ~Has(w, "MORE"))
        BY <3>5, <3>6, <3>8, <3>9, <4>1, <4>2, Zenon
      <4>4. Len(v) = lt + 1
        BY <2>7, <3>5, <3>7, <4>1
      <4>5. Len(w) = Len(v) + 1
        BY <3>6, <3>7, <4>1, <4>2
      <4>6. Len(w) = lt + 2
        BY <2>7, <4>4, <4>5
      <4> QED
        BY <4>3, <4>6, Zenon
    <3>11. w # <<>>
      BY <3>10, EmptySeq
    <3>12. Len(Tail(o)) = lo - 1 /\ lo \in Nat \ {0}
      BY <2>3, <2>7, <2>10, Lengths
    <3>13. PICK z : z = OfObject * Len(r.objs) /\ z = a - W
      <4>1. W * (lo - 1) = W * lo - W
        BY <3>12, Times
      <4> QED
        BY <2>3, <2>6, <2>8, <2>10, <3>12, <4>1
    <3>14. PICK y : y = Len(r.txt) /\ y = 0
      BY <2>10
    <3>15. ToWrite(r, q) = z + 3 * n + 3 * y + 2 * (lt + 2) + lq
      <4>1. z = OfObject * Len(r.objs) /\ n = Left(r) /\ y = Len(r.txt) /\ lt + 2 = Len(r.wb) /\ lq = Len(q)
        BY <2>5, <2>7, <3>10, <3>13, <3>14
      <4>2. ToWrite(r, q) = OfObject * Len(r.objs) + 3 * Left(r) + 3 * Len(r.txt) + 2 * Len(r.wb) + Len(q)
        BY DEF ToWrite
      <4> QED
        BY ONLY <4>1, <4>2
    <3>16. m = 0 /\ n = x.len - 1
      BY <2>3, <2>5, <2>10, <3>1 DEF Left
    <3>17. ToWrite(r, q) <= ToWrite(c, q)
      <4>1. PICK X \in Nat, P \in Nat : X = x.len /\ P = Pieces /\ X <= P /\ X >= 1
        BY <2>6, <3>2
      <4>2. W = 3 * P + 3 /\ n = X - 1 /\ m = 0 /\ z = a - W /\ y = 0
        BY <2>6, <3>13, <3>14, <3>16, <4>1
      <4>3. (a - (3 * P + 3)) + 3 * (X - 1) + 3 * 0 + 2 * (lt + 2) + lq <= a + 3 * 0 + 3 * lt + 0 + lq
        BY <4>1, HeaderSum
      <4>4. /\ ToWrite(c, q) = a + 3 * 0 + 3 * lt + 0 + lq
            /\ ToWrite(r, q) = (a - (3 * P + 3)) + 3 * (X - 1) + 3 * 0 + 2 * (lt + 2) + lq
        BY ONLY <2>8, <3>15, <4>2
      <4> QED
        BY ONLY <4>3, <4>4
    <3> QED
      BY <2>1, <2>2, <2>3, <2>5, <2>10, <3>10, <3>11, <3>17, EmptyHas
  <2>11. CASE c.off > 0 /\ r.objs = c.objs /\ r.txt = c.txt /\ r.wb = <<Piece>> /\ Left(c) = Left(r) + 1
    <3>1. Len(<<Piece>>) = 1 /\ <<Piece>> # <<>> /\ DOMAIN <<Piece>> = {1} /\ <<Piece>>[1] = Piece
      OBVIOUS
    <3>2. ~Has(<<Piece>>, "MORE")
      <4>1. Piece.k # "MORE"
        BY AnswerKinds
      <4> QED
        BY <3>1, <4>1 DEF Has
    <3>3. PICK b : b = Len(r.wb) /\ b = 1
      BY <2>11, <3>1
    <3>4. ToWrite(r, q) = a + 3 * n + 3 * lt + 2 * b + lq
      <4>1. a = OfObject * Len(r.objs) /\ n = Left(r) /\ lt = Len(r.txt) /\ b = Len(r.wb) /\ lq = Len(q)
        BY <2>3, <2>5, <2>6, <2>7, <2>8, <2>11, <3>3
      <4>2. ToWrite(r, q) = OfObject * Len(r.objs) + 3 * Left(r) + 3 * Len(r.txt) + 2 * Len(r.wb) + Len(q)
        BY DEF ToWrite
      <4> QED
        BY ONLY <4>1, <4>2
    <3>5. m = n + 1
      BY <2>5, <2>11
    <3>6. ToWrite(r, q) <= ToWrite(c, q)
      BY ONLY <2>8, <3>3, <3>4, <3>5, lt \in Nat, lq \in Nat, a \in Nat, n \in Nat
    <3> QED
      BY <2>1, <2>2, <2>5, <2>11, <3>1, <3>2, <3>6
  <2> QED
    BY <2>1, <2>9, <2>10, <2>11
<1> QED
  BY <1>1, <1>2

(* Nothing left to write, in the write buffer or before it.                *)
Spent(c) == c.wb = <<>> /\ c.txt = <<>> /\ c.off = 0 /\ c.objs = <<>>

(* Sums, which the provers do not see in place.                            *)
LEMMA SumNat ==
  ASSUME NEW a \in Nat, NEW l \in Nat, NEW t \in Nat, NEW b \in Nat, NEW x \in Nat
  PROVE  a + 3 * l + 3 * t + 2 * b + x \in Nat
  OBVIOUS

(* So much of the write buffer goes to the socket.                         *)
LEMMA CutSum ==
  ASSUME NEW a \in Nat, NEW l \in Nat, NEW t \in Nat, NEW w \in Nat, NEW x \in Nat, NEW n \in Nat,
         NEW u, NEW v,
         u = a + 3 * l + 3 * t + 2 * w + x, v = a + 3 * l + 3 * t + 2 * (w - n) + (x + n)
  PROVE  v = u - n
<1>1. a + 3 * l + 3 * t + 2 * (w - n) + (x + n) = (a + 3 * l + 3 * t + 2 * w + x) - n
  OBVIOUS
<1> QED
  BY <1>1

(* ToWrite is a number.                                                    *)
LEMMA ToWriteNat ==
  ASSUME NEW c \in ClientT, Writing(c), NEW q \in Seq(Answer)
  PROVE  ToWrite(c, q) \in Nat
<1>1. Left(c) \in Nat
  <2>1. c.off \in Nat /\ c.obj \in Obj \cup {NoObj} /\ (c.off > 0 => c.obj # NoObj /\ c.off < c.obj.len)
    BY DEF ClientT, Writing
  <2>2. c.off > 0 => c.obj.len \in 1 .. Pieces
    BY <2>1, ObjCases
  <2> QED
    BY <2>1, <2>2, ClientAssumption DEF Left
<1>2. Len(c.objs) \in Nat /\ Len(c.txt) \in Nat /\ Len(c.wb) \in Nat /\ Len(q) \in Nat
  <2>1. c.objs \in Seq(Obj) /\ c.txt \in Seq(Spoken) /\ c.wb \in Seq(Answer)
    BY DEF ClientT
  <2> QED
    BY <2>1, Lengths
<1>3. PICK a \in Nat : a = OfObject * Len(c.objs)
  BY <1>2, Weights, Times
<1>4. PICK l \in Nat, t \in Nat, b \in Nat, x \in Nat :
        l = Left(c) /\ t = Len(c.txt) /\ b = Len(c.wb) /\ x = Len(q)
  BY <1>1, <1>2
<1>5. ToWrite(c, q) = OfObject * Len(c.objs) + 3 * Left(c) + 3 * Len(c.txt) + 2 * Len(c.wb) + Len(q)
  BY DEF ToWrite
<1>6. ToWrite(c, q) = a + 3 * l + 3 * t + 2 * b + x
  BY ONLY <1>3, <1>4, <1>5
<1>7. a + 3 * l + 3 * t + 2 * b + x \in Nat
  BY SumNat
<1> QED
  BY <1>6, <1>7, Zenon

(* What is in the socket counts for less than in the write buffer.         *)
LEMMA ToWriteCut ==
  ASSUME NEW r \in ClientT, Writing(r), NEW c \in ClientT,
         c.objs = r.objs, c.txt = r.txt, c.off = r.off, c.obj = r.obj,
         NEW q \in Seq(Answer), NEW p \in Seq(Answer), NEW n \in 0 .. Len(r.wb),
         Len(c.wb) = Len(r.wb) - n, Len(p) = Len(q) + n
  PROVE  ToWrite(c, p) = ToWrite(r, q) - n
<1>1. Left(c) = Left(r)
  BY DEF Left
<1>2. Len(r.wb) \in Nat /\ Len(q) \in Nat /\ n \in Nat
  <2>1. r.wb \in Seq(Answer)
    BY DEF ClientT
  <2> QED
    BY <2>1, Lengths
<1>3. PICK w \in Nat, x \in Nat : w = Len(r.wb) /\ x = Len(q)
  BY <1>2
<1>4. PICK a, l, t : a = OfObject * Len(r.objs) /\ l = Left(r) /\ t = Len(r.txt)
  OBVIOUS
<1>5. a \in Nat /\ l \in Nat /\ t \in Nat
  <2>1. r.objs \in Seq(Obj) /\ r.txt \in Seq(Spoken)
    BY DEF ClientT
  <2>2. Len(r.objs) \in Nat /\ t \in Nat
    BY <1>4, <2>1, Lengths
  <2>3. a \in Nat
    BY <1>4, <2>2, Weights, Times
  <2>4. r.off \in Nat /\ r.obj \in Obj \cup {NoObj} /\ (r.off > 0 => r.obj # NoObj /\ r.off < r.obj.len)
    BY DEF ClientT, Writing
  <2>5. r.off > 0 => r.obj.len \in 1 .. Pieces
    BY <2>4, ObjCases
  <2>6. l \in Nat
    BY <1>4, <2>4, <2>5, ClientAssumption DEF Left
  <2> QED
    BY <2>2, <2>3, <2>6
<1>6. ToWrite(r, q) = OfObject * Len(r.objs) + 3 * Left(r) + 3 * Len(r.txt) + 2 * Len(r.wb) + Len(q)
  BY DEF ToWrite
<1>7. ToWrite(c, p) = OfObject * Len(r.objs) + 3 * Left(r) + 3 * Len(r.txt) + 2 * Len(c.wb) + Len(p)
  BY <1>1 DEF ToWrite
<1>8. ToWrite(r, q) = a + 3 * l + 3 * t + 2 * w + x
  BY ONLY <1>3, <1>4, <1>6
<1>9. ToWrite(c, p) = a + 3 * l + 3 * t + 2 * (w - n) + (x + n)
  BY <1>3, <1>4, <1>7
<1>10. a \in Nat /\ l \in Nat /\ t \in Nat /\ w \in Nat /\ x \in Nat /\ n \in Nat
  BY <1>2, <1>3, <1>5
<1> QED
  BY ONLY <1>8, <1>9, <1>10, CutSum

(* client_write leaves c: less to write, unless there is nothing left.     *)
LEMMA WriteDoes ==
  ASSUME IInv, Lib(ClientWrite)
  PROVE  /\ client.writes /\ "client" \notin shut /\ UNCHANGED <<rx, inst, mine, fault>>
         /\ tx' \in Seq(Answer)
         /\ \E c \in ClientT :
              /\ Writing(c) /\ c.mode = client.mode /\ c.reads = client.reads /\ c.writes
              /\ IF Spent(c) /\ c.mode = "flush" /\ IsDone(c, source) THEN ClientFree
                 ELSE /\ client' = IF Spent(c) THEN [c EXCEPT !.writes = FALSE] ELSE c
                      /\ UNCHANGED <<source, task, done_queue, shut>>
              /\ ToWrite(c, tx') <= ToWrite(client, tx)
              /\ Spent(c) \/ ToWrite(c, tx') < ToWrite(client, tx)
              /\ ~Has(client.txt, "MORE") /\ ~Has(client.wb, "MORE") /\ ~Has(tx, "MORE")
                 => ~Has(c.txt, "MORE") /\ ~Has(c.wb, "MORE") /\ ~Has(tx', "MORE")
<1>1. /\ client \in ClientT /\ Writing(client) /\ tx \in Seq(Answer)
      /\ client.writes /\ "client" \notin shut /\ UNCHANGED <<rx, inst, mine, fault>>
  BY DEF IInv, Shapes, Lib, ClientWrite
<1>2. PICK o \in ClientT, q \in Seq(Answer) : o = client /\ q = tx /\ Writing(o) /\ o.writes
  BY <1>1
<1>3. PICK r : r = Refilled
  OBVIOUS
<1>4. o \in ClientT /\ Writing(o) /\ q \in Seq(Answer) /\ r = IF o.wb = <<>> THEN WriteDo(o) ELSE o
  BY <1>2, <1>3 DEF Refilled
<1>5. /\ r \in ClientT /\ Writing(r) /\ r.mode = o.mode /\ r.reads = o.reads /\ r.writes = o.writes
      /\ ToWrite(r, q) <= ToWrite(o, q)
      /\ r.wb = <<>> => r.off = 0 /\ r.objs = <<>> /\ r.txt = <<>>
      /\ ~Has(o.txt, "MORE") /\ ~Has(o.wb, "MORE") => ~Has(r.txt, "MORE") /\ ~Has(r.wb, "MORE")
  BY ONLY <1>4, RefillDoes
<1>6. PICK n \in {1, Len(r.wb)} \cap 0 .. Len(r.wb) :
        LET c == [r EXCEPT !.wb = SubSeq(@, n + 1, Len(@))]
            idle == c.wb = <<>> /\ c.txt = <<>> /\ c.off = 0 /\ c.objs = <<>>
        IN  /\ tx' = tx \o SubSeq(r.wb, 1, n)
            /\ IF idle /\ c.mode = "flush" /\ IsDone(c, source) THEN ClientFree
               ELSE /\ client' = IF idle THEN [c EXCEPT !.writes = FALSE] ELSE c
                    /\ UNCHANGED <<source, task, done_queue, shut>>
  BY <1>3, Zenon DEF Lib, ClientWrite
<1>7. PICK c : c = [r EXCEPT !.wb = SubSeq(@, n + 1, Len(@))]
  OBVIOUS
<1>8. /\ tx' = tx \o SubSeq(r.wb, 1, n)
      /\ IF Spent(c) /\ c.mode = "flush" /\ IsDone(c, source) THEN ClientFree
         ELSE /\ client' = IF Spent(c) THEN [c EXCEPT !.writes = FALSE] ELSE c
              /\ UNCHANGED <<source, task, done_queue, shut>>
  BY <1>6, <1>7, Zenon DEF Spent
<1>9. PICK w \in Seq(Answer) : w = r.wb
  BY <1>5 DEF ClientT
<1>10. n \in 0 .. Len(w) /\ n \in Nat /\ (n = 1 \/ n = Len(w))
  BY <1>6, <1>9
<1>11. PICK y, z : y = SubSeq(w, 1, n) /\ z = SubSeq(w, n + 1, Len(w))
  OBVIOUS
<1>12. /\ y \in Seq(Answer) /\ Len(y) = n /\ z \in Seq(Answer) /\ Len(z) = Len(w) - n
       /\ Has(y, "MORE") \/ Has(z, "MORE") => Has(w, "MORE")
  BY <1>10, <1>11, CutLength
<1>13. PICK s \in ClientT : s = r
  BY <1>5
<1>14. c = [s EXCEPT !.wb = z]
  BY <1>7, <1>9, <1>11, <1>13, Zenon
<1>15. /\ c \in ClientT /\ c.wb = z /\ c.mode = s.mode /\ c.off = s.off /\ c.obj = s.obj
       /\ c.objs = s.objs /\ c.txt = s.txt /\ c.reads = s.reads /\ c.writes = s.writes
  BY <1>12, <1>14 DEF ClientT
<1>16. Writing(c)
  BY <1>5, <1>13, <1>15 DEF Writing
<1>17. PICK p \in Seq(Answer) : p = q \o y /\ Len(p) = Len(q) + n /\ tx' = p
  <2>1. q \o y \in Seq(Answer) /\ Len(q \o y) = Len(q) + Len(y)
    BY <1>12, ConcatLength
  <2>2. tx' = q \o y
    BY <1>2, <1>8, <1>9, <1>11
  <2>3. Len(q \o y) = Len(q) + n
    BY <1>12, <2>1
  <2> QED
    BY <2>1, <2>2, <2>3, Zenon
<1>18. ToWrite(c, p) = ToWrite(r, q) - n
  <2>1. /\ s \in ClientT /\ Writing(s) /\ c \in ClientT
        /\ c.objs = s.objs /\ c.txt = s.txt /\ c.off = s.off /\ c.obj = s.obj
        /\ q \in Seq(Answer) /\ p \in Seq(Answer) /\ n \in 0 .. Len(s.wb)
        /\ Len(c.wb) = Len(s.wb) - n /\ Len(p) = Len(q) + n
    BY <1>5, <1>9, <1>10, <1>12, <1>13, <1>15, <1>17
  <2>2. ToWrite(c, p) = ToWrite(s, q) - n
    BY ONLY <2>1, ToWriteCut
  <2> QED
    BY <1>13, <2>2
<1>19. ToWrite(r, q) \in Nat /\ ToWrite(o, q) \in Nat
  BY <1>2, <1>5, ToWriteNat
<1>20. ToWrite(c, p) <= ToWrite(o, q) /\ (n # 0 => ToWrite(c, p) < ToWrite(o, q))
  BY ONLY <1>5, <1>10, <1>18, <1>19
<1>21. n = 0 => Spent(c)
  <2> SUFFICES ASSUME n = 0 PROVE Spent(c)
    OBVIOUS
  <2>1. Len(w) = 0
    BY <1>10
  <2>2. w = <<>> /\ z = <<>>
    BY <1>9, <1>12, <2>1, Lengths
  <2> QED
    BY <1>5, <1>9, <1>13, <1>15, <2>2 DEF Spent
<1>22. Has(p, "MORE") <=> Has(q, "MORE") \/ Has(y, "MORE")
  BY <1>12, <1>17, HasConcat
<1>23. ~Has(o.txt, "MORE") /\ ~Has(o.wb, "MORE") /\ ~Has(q, "MORE")
       => ~Has(c.txt, "MORE") /\ ~Has(c.wb, "MORE") /\ ~Has(p, "MORE")
  BY <1>5, <1>9, <1>12, <1>13, <1>15, <1>22
<1>24. /\ Writing(c) /\ c.mode = client.mode /\ c.reads = client.reads /\ c.writes
       /\ ToWrite(c, tx') <= ToWrite(client, tx)
       /\ Spent(c) \/ ToWrite(c, tx') < ToWrite(client, tx)
       /\ ~Has(client.txt, "MORE") /\ ~Has(client.wb, "MORE") /\ ~Has(tx, "MORE")
          => ~Has(c.txt, "MORE") /\ ~Has(c.wb, "MORE") /\ ~Has(tx', "MORE")
  BY <1>2, <1>5, <1>13, <1>15, <1>16, <1>17, <1>20, <1>21, <1>23
<1>25. tx' \in Seq(Answer)
  BY <1>17
<1> QED
  BY <1>1, <1>8, <1>15, <1>24, <1>25

(* Work, of so many lines to send, lines sent, commands, tasks running,    *)
(* tasks done, cycle monitors and objects, and of what counts for little.  *)
Total(q, r, k, n, d, m, o, s) ==
  (OfLine + 1) * q + OfLine * r + OfCommand * k + OfRunning * n + OfEnding * d + OfEnding * m
  + OfObject * o + s

(* What counts for little, when the library has read so far.               *)
Little(c, x, i) ==
  3 * Left(c) + 3 * Len(c.txt) + 2 * Len(c.wb) + Len(x)
  + Flag(c.writes) + Flag(c.reads) + Flag(~i.eof)

(* A product, with less and with so many more.                             *)
LEMMA Product ==
  ASSUME NEW w \in Nat, NEW n \in Nat, NEW m \in Nat, NEW d \in Int, m <= n + d
  PROVE  w * n \in Nat /\ w * m \in Nat /\ w * d \in Int /\ w * m <= w * n + w * d
<1>1. PICK k \in Nat : k = n + d - m
  OBVIOUS
<1>2. n + d = m + k
  BY <1>1
<1>3. w * (n + d) = w * n + w * d
  OBVIOUS
<1>4. w * (m + k) = w * m + w * k
  OBVIOUS
<1>5. w * n \in Nat /\ w * m \in Nat /\ w * k \in Nat /\ w * d \in Int
  OBVIOUS
<1>6. w * m + w * k = w * n + w * d
  BY <1>2, <1>3, <1>4
<1>7. PICK A \in Nat, B \in Nat, C \in Nat, D \in Int : A = w * n /\ B = w * m /\ C = w * k /\ D = w * d
  BY <1>5
<1>8. B + C = A + D
  BY ONLY <1>6, <1>7
<1>9. B <= A + D
  BY <1>8
<1> QED
  BY ONLY <1>5, <1>7, <1>9

(* Eight terms, each with no more than it had and so many more.            *)
LEMMA EightTerms ==
  ASSUME NEW a1 \in Nat, NEW b1 \in Nat, NEW d1 \in Int, b1 <= a1 + d1,
         NEW a2 \in Nat, NEW b2 \in Nat, NEW d2 \in Int, b2 <= a2 + d2,
         NEW a3 \in Nat, NEW b3 \in Nat, NEW d3 \in Int, b3 <= a3 + d3,
         NEW a4 \in Nat, NEW b4 \in Nat, NEW d4 \in Int, b4 <= a4 + d4,
         NEW a5 \in Nat, NEW b5 \in Nat, NEW d5 \in Int, b5 <= a5 + d5,
         NEW a6 \in Nat, NEW b6 \in Nat, NEW d6 \in Int, b6 <= a6 + d6,
         NEW a7 \in Nat, NEW b7 \in Nat, NEW d7 \in Int, b7 <= a7 + d7,
         NEW a8 \in Nat, NEW b8 \in Nat, NEW d8 \in Int, b8 <= a8 + d8,
         d1 + d2 + d3 + d4 + d5 + d6 + d7 + d8 < 0
  PROVE  b1 + b2 + b3 + b4 + b5 + b6 + b7 + b8 < a1 + a2 + a3 + a4 + a5 + a6 + a7 + a8
  OBVIOUS

(* Total is less when each number is bounded by what it was and a change,  *)
(* and the changes weigh less than nothing.                                *)
LEMMA TotalLess ==
  ASSUME NEW q \in Nat, NEW r \in Nat, NEW k \in Nat, NEW n \in Nat,
         NEW d \in Nat, NEW m \in Nat, NEW o \in Nat, NEW s \in Nat,
         NEW qq \in Nat, NEW rr \in Nat, NEW kk \in Nat, NEW nn \in Nat,
         NEW dd \in Nat, NEW mm \in Nat, NEW oo \in Nat, NEW ss \in Nat,
         NEW dq \in Int, NEW dr \in Int, NEW dk \in Int, NEW dn \in Int,
         NEW de \in Int, NEW dm \in Int, NEW do \in Int, NEW ds \in Int,
         qq <= q + dq, rr <= r + dr, kk <= k + dk, nn <= n + dn,
         dd <= d + de, mm <= m + dm, oo <= o + do, ss <= s + ds,
         Total(dq, dr, dk, dn, de, dm, do, ds) < 0
  PROVE  Total(qq, rr, kk, nn, dd, mm, oo, ss) < Total(q, r, k, n, d, m, o, s)
<1>1. PICK L \in Nat, M \in Nat, C \in Nat, R \in Nat, E \in Nat, O \in Nat :
        L = OfLine + 1 /\ M = OfLine /\ C = OfCommand /\ R = OfRunning /\ E = OfEnding /\ O = OfObject
  <2>1. OfLine + 1 \in Nat
    BY Weights
  <2> QED
    BY <2>1, Weights
<1>2. /\ Total(q, r, k, n, d, m, o, s) = L * q + M * r + C * k + R * n + E * d + E * m + O * o + s
      /\ Total(qq, rr, kk, nn, dd, mm, oo, ss)
         = L * qq + M * rr + C * kk + R * nn + E * dd + E * mm + O * oo + ss
      /\ Total(dq, dr, dk, dn, de, dm, do, ds)
         = L * dq + M * dr + C * dk + R * dn + E * de + E * dm + O * do + ds
  BY <1>1 DEF Total
<1>3. L * q \in Nat /\ L * qq \in Nat /\ L * dq \in Int /\ L * qq <= L * q + L * dq
  BY Product
<1>4. M * r \in Nat /\ M * rr \in Nat /\ M * dr \in Int /\ M * rr <= M * r + M * dr
  BY Product
<1>5. C * k \in Nat /\ C * kk \in Nat /\ C * dk \in Int /\ C * kk <= C * k + C * dk
  BY Product
<1>6. R * n \in Nat /\ R * nn \in Nat /\ R * dn \in Int /\ R * nn <= R * n + R * dn
  BY Product
<1>7. E * d \in Nat /\ E * dd \in Nat /\ E * de \in Int /\ E * dd <= E * d + E * de
  BY Product
<1>8. E * m \in Nat /\ E * mm \in Nat /\ E * dm \in Int /\ E * mm <= E * m + E * dm
  BY Product
<1>9. O * o \in Nat /\ O * oo \in Nat /\ O * do \in Int /\ O * oo <= O * o + O * do
  BY Product
<1>10. L * dq + M * dr + C * dk + R * dn + E * de + E * dm + O * do + ds < 0
  BY ONLY <1>2, Total(dq, dr, dk, dn, de, dm, do, ds) < 0
<1>11. PICK a1 \in Nat, b1 \in Nat, d1 \in Int :
         a1 = L * q /\ b1 = L * qq /\ d1 = L * dq /\ b1 <= a1 + d1
  BY <1>3
<1>12. PICK a2 \in Nat, b2 \in Nat, d2 \in Int :
         a2 = M * r /\ b2 = M * rr /\ d2 = M * dr /\ b2 <= a2 + d2
  BY <1>4
<1>13. PICK a3 \in Nat, b3 \in Nat, d3 \in Int :
         a3 = C * k /\ b3 = C * kk /\ d3 = C * dk /\ b3 <= a3 + d3
  BY <1>5
<1>14. PICK a4 \in Nat, b4 \in Nat, d4 \in Int :
         a4 = R * n /\ b4 = R * nn /\ d4 = R * dn /\ b4 <= a4 + d4
  BY <1>6
<1>15. PICK a5 \in Nat, b5 \in Nat, d5 \in Int :
         a5 = E * d /\ b5 = E * dd /\ d5 = E * de /\ b5 <= a5 + d5
  BY <1>7
<1>16. PICK a6 \in Nat, b6 \in Nat, d6 \in Int :
         a6 = E * m /\ b6 = E * mm /\ d6 = E * dm /\ b6 <= a6 + d6
  BY <1>8
<1>17. PICK a7 \in Nat, b7 \in Nat, d7 \in Int :
         a7 = O * o /\ b7 = O * oo /\ d7 = O * do /\ b7 <= a7 + d7
  BY <1>9
<1>18. L * qq + M * rr + C * kk + R * nn + E * dd + E * mm + O * oo + ss
       = b1 + b2 + b3 + b4 + b5 + b6 + b7 + ss
  BY <1>11, <1>12, <1>13, <1>14, <1>15, <1>16, <1>17, Zenon
<1>19. L * q + M * r + C * k + R * n + E * d + E * m + O * o + s
       = a1 + a2 + a3 + a4 + a5 + a6 + a7 + s
  BY <1>11, <1>12, <1>13, <1>14, <1>15, <1>16, <1>17, Zenon
<1>20. d1 + d2 + d3 + d4 + d5 + d6 + d7 + ds < 0
  BY <1>10, <1>11, <1>12, <1>13, <1>14, <1>15, <1>16, <1>17, Zenon
<1>21. /\ b1 <= a1 + d1 /\ b2 <= a2 + d2 /\ b3 <= a3 + d3 /\ b4 <= a4 + d4
       /\ b5 <= a5 + d5 /\ b6 <= a6 + d6 /\ b7 <= a7 + d7 /\ ss <= s + ds
  BY <1>11, <1>12, <1>13, <1>14, <1>15, <1>16, <1>17
<1>22. b1 + b2 + b3 + b4 + b5 + b6 + b7 + ss < a1 + a2 + a3 + a4 + a5 + a6 + a7 + s
  BY ONLY <1>20, <1>21, EightTerms
<1> QED
  BY <1>2, <1>18, <1>19, <1>22, Zenon

(* The changes that the steps make.                                        *)
LEMMA Changes ==
  /\ Total(-1, 1, 0, 0, 0, 0, 0, 0) < 0     \* FdWrite
  /\ Total(0, 0, 0, 0, 0, 0, 0, -1) < 0     \* InstRead, InstEof, ClientFree
  /\ Total(0, -1, 1, 0, 0, 1, 0, 4) < 0     \* CommandAttach
  /\ Total(0, -1, 1, 0, 0, 0, 0, 4) < 0     \* Command2
  /\ Total(0, -1, 0, 0, 0, 0, 0, 4) < 0
  /\ Total(0, -1, 0, 0, 1, 0, 0, 4) < 0     \* HaltTask
  /\ Total(0, -1, 0, 0, 0, -1, 1, 4) < 0    \* CommandDone
  /\ Total(0, 0, 0, 0, 0, -1, 1, 0) < 0     \* ClientEof
  /\ Total(0, 0, -1, 0, 0, 0, 1, 4) < 0     \* GetTask
  /\ Total(0, 0, -1, 1, 0, 0, 0, 4) < 0
  /\ Total(0, 0, 0, 0, -1, 0, 1, 1) < 0     \* ProcessDone
  /\ Total(0, 0, 0, 0, -1, -1, 2, 1) < 0
  /\ Total(0, 0, 0, -1, 1, 0, 0, 0) < 0     \* TaskEnds
<1>1. PICK O \in Nat, E \in Nat, R \in Nat, C \in Nat, L \in Nat :
        /\ O = OfObject /\ E = OfEnding /\ R = OfRunning /\ C = OfCommand /\ L = OfLine
        /\ E = O + 2 /\ R = E + 1 /\ C = R + 5 /\ L = C + E + 5
  BY Weights
<1>2. \A q, r, k, n, d, m, o, s : Total(q, r, k, n, d, m, o, s)
        = (L + 1) * q + L * r + C * k + R * n + E * d + E * m + O * o + s
  BY <1>1 DEF Total
<1> QED
  BY <1>1, <1>2

(* Work, of what it looks at.                                              *)
RunningOf(t) == {j \in DOMAIN t : t[j].st = "running"}

WorkOf(i, l, s, t, d, c, x) ==
  Total(Len(i.queue), Len(l), Len(s.commands), Cardinality(RunningOf(t)), Len(d),
        Flag(s.cyclemon), Len(c.objs), Little(c, x, i))

(* The numbers that Work adds up are numbers.                              *)
LEMMA CountsNat ==
  ASSUME NEW i \in InstT, NEW l \in Seq(Line), NEW s \in SourceT, NEW t \in Seq(TaskT),
         NEW d \in Seq(Id), NEW c \in ClientT, Writing(c), NEW x \in Seq(Answer)
  PROVE  /\ Len(i.queue) \in Nat /\ Len(l) \in Nat /\ Len(s.commands) \in Nat
         /\ IsFiniteSet(RunningOf(t)) /\ Cardinality(RunningOf(t)) \in Nat
         /\ Len(d) \in Nat /\ Flag(s.cyclemon) \in Nat /\ Len(c.objs) \in Nat
         /\ Left(c) \in Nat /\ Len(c.txt) \in Nat /\ Len(c.wb) \in Nat /\ Len(x) \in Nat
         /\ Little(c, x, i) \in Nat
<1>1. /\ Len(i.queue) \in Nat /\ Len(l) \in Nat /\ Len(s.commands) \in Nat /\ Len(d) \in Nat
      /\ Len(c.objs) \in Nat /\ Len(c.txt) \in Nat /\ Len(c.wb) \in Nat /\ Len(x) \in Nat
  <2>1. /\ i.queue \in Seq(Line) /\ s.commands \in Seq(Id \cup {Cycle}) /\ c.objs \in Seq(Obj)
        /\ c.txt \in Seq(Spoken) /\ c.wb \in Seq(Answer)
    BY DEF InstT, SourceT, ClientT
  <2> QED
    BY <2>1, Lengths
<1>2. IsFiniteSet(RunningOf(t)) /\ Cardinality(RunningOf(t)) \in Nat
  <2>1. Len(t) \in Nat /\ DOMAIN t = 1 .. Len(t)
    BY LenProperties
  <2>2. IsFiniteSet(DOMAIN t)
    BY <2>1, FS_Interval
  <2>3. RunningOf(t) \subseteq DOMAIN t
    BY DEF RunningOf
  <2>4. IsFiniteSet(RunningOf(t))
    BY <2>2, <2>3, FS_Subset
  <2> QED
    BY <2>4, FS_CardinalityType
<1>3. Left(c) \in Nat
  <2>1. c.off \in Nat /\ c.obj \in Obj \cup {NoObj} /\ (c.off > 0 => c.obj # NoObj /\ c.off < c.obj.len)
    BY DEF ClientT, Writing
  <2>2. c.off > 0 => c.obj.len \in 1 .. Pieces
    BY <2>1, ObjCases
  <2> QED
    BY <2>1, <2>2, ClientAssumption DEF Left
<1>4. Flag(s.cyclemon) \in Nat /\ Flag(c.writes) \in Nat /\ Flag(c.reads) \in Nat /\ Flag(~i.eof) \in Nat
  BY DEF Flag
<1>5. PICK a \in Nat, b \in Nat, e \in Nat, f \in Nat, g \in Nat, h \in Nat, k \in Nat :
        /\ a = Left(c) /\ b = Len(c.txt) /\ e = Len(c.wb) /\ f = Len(x)
        /\ g = Flag(c.writes) /\ h = Flag(c.reads) /\ k = Flag(~i.eof)
  BY <1>1, <1>3, <1>4
<1>6. Little(c, x, i) = 3 * a + 3 * b + 2 * e + f + g + h + k
  BY <1>5 DEF Little
<1>7. 3 * a + 3 * b + 2 * e + f + g + h + k \in Nat
  BY ONLY a \in Nat, b \in Nat, e \in Nat, f \in Nat, g \in Nat, h \in Nat, k \in Nat
<1>8. Little(c, x, i) \in Nat
  BY <1>6, <1>7, Zenon
<1> QED
  BY <1>1, <1>2, <1>3, <1>4, <1>8

(* Reordering the sum that Work is.                                        *)
LEMMA SumIs ==
  ASSUME NEW a \in Nat, NEW b \in Nat, NEW c \in Nat, NEW d \in Nat, NEW e \in Nat, NEW f \in Nat,
         NEW g \in Nat, NEW h \in Nat, NEW i \in Nat, NEW j \in Nat, NEW k \in Nat,
         NEW l \in Nat, NEW m \in Nat, NEW n \in Nat
  PROVE  a + b + c + d + e + f + g + 3 * h + 3 * i + 2 * j + k + l + m + n
         = a + b + c + d + e + f + g + (3 * h + 3 * i + 2 * j + k + l + m + n)
  OBVIOUS

(* Work, as the sum it is.                                                 *)
LEMMA WorkTotal ==
  ASSUME NEW i \in InstT, NEW l \in Seq(Line), NEW s \in SourceT, NEW t \in Seq(TaskT),
         NEW d \in Seq(Id), NEW c \in ClientT, Writing(c), NEW x \in Seq(Answer)
  PROVE  WorkOf(i, l, s, t, d, c, x)
         = (OfLine + 1) * Len(i.queue) + OfLine * Len(l)
           + OfCommand * Len(s.commands) + OfRunning * Cardinality(RunningOf(t))
           + OfEnding * Len(d) + OfEnding * Flag(s.cyclemon)
           + OfObject * Len(c.objs) + 3 * Left(c)
           + 3 * Len(c.txt) + 2 * Len(c.wb) + Len(x)
           + Flag(c.writes) + Flag(c.reads) + Flag(~i.eof)
<1>1. /\ Len(i.queue) \in Nat /\ Len(l) \in Nat /\ Len(s.commands) \in Nat
      /\ Cardinality(RunningOf(t)) \in Nat
      /\ Len(d) \in Nat /\ Flag(s.cyclemon) \in Nat /\ Len(c.objs) \in Nat
      /\ Left(c) \in Nat /\ Len(c.txt) \in Nat /\ Len(c.wb) \in Nat /\ Len(x) \in Nat
      /\ Flag(c.writes) \in Nat /\ Flag(c.reads) \in Nat /\ Flag(~i.eof) \in Nat
  <2>1. Flag(c.writes) \in Nat /\ Flag(c.reads) \in Nat /\ Flag(~i.eof) \in Nat
    BY DEF Flag
  <2> QED
    BY <2>1, CountsNat
<1>2. /\ (OfLine + 1) * Len(i.queue) \in Nat /\ OfLine * Len(l) \in Nat
      /\ OfCommand * Len(s.commands) \in Nat /\ OfRunning * Cardinality(RunningOf(t)) \in Nat
      /\ OfEnding * Len(d) \in Nat /\ OfEnding * Flag(s.cyclemon) \in Nat
      /\ OfObject * Len(c.objs) \in Nat
  <2>1. /\ OfLine + 1 \in Nat /\ OfLine \in Nat /\ OfCommand \in Nat /\ OfRunning \in Nat
        /\ OfEnding \in Nat /\ OfObject \in Nat
    <3>1. PICK L \in Nat : L = OfLine
      BY Weights
    <3>2. L + 1 \in Nat
      OBVIOUS
    <3> QED
      BY <3>1, <3>2, Weights, Zenon
  <2>2. \A w, n \in Nat : w * n \in Nat
    BY Times
  <2> QED
    BY <1>1, <2>1, <2>2, Zenon
<1>3. WorkOf(i, l, s, t, d, c, x)
      = (OfLine + 1) * Len(i.queue) + OfLine * Len(l)
           + OfCommand * Len(s.commands) + OfRunning * Cardinality(RunningOf(t))
           + OfEnding * Len(d) + OfEnding * Flag(s.cyclemon)
           + OfObject * Len(c.objs) + (3 * Left(c)
           + 3 * Len(c.txt) + 2 * Len(c.wb) + Len(x)
           + Flag(c.writes) + Flag(c.reads) + Flag(~i.eof))
  BY Zenon DEF WorkOf, Total, Little
<1>4. PICK a1 \in Nat, a2 \in Nat, a3 \in Nat, a4 \in Nat, a5 \in Nat, a6 \in Nat, a7 \in Nat :
        /\ a1 = (OfLine + 1) * Len(i.queue) /\ a2 = OfLine * Len(l)
        /\ a3 = OfCommand * Len(s.commands) /\ a4 = OfRunning * Cardinality(RunningOf(t))
        /\ a5 = OfEnding * Len(d) /\ a6 = OfEnding * Flag(s.cyclemon)
        /\ a7 = OfObject * Len(c.objs)
  BY <1>2, Zenon
<1>5. PICK b1 \in Nat, b2 \in Nat, b3 \in Nat, b4 \in Nat, b5 \in Nat, b6 \in Nat, b7 \in Nat :
        /\ b1 = Left(c) /\ b2 = Len(c.txt) /\ b3 = Len(c.wb) /\ b4 = Len(x)
        /\ b5 = Flag(c.writes) /\ b6 = Flag(c.reads) /\ b7 = Flag(~i.eof)
  BY <1>1, Zenon
<1>6. a1 + a2 + a3 + a4 + a5 + a6 + a7 + 3 * b1 + 3 * b2 + 2 * b3 + b4 + b5 + b6 + b7
      = a1 + a2 + a3 + a4 + a5 + a6 + a7 + (3 * b1 + 3 * b2 + 2 * b3 + b4 + b5 + b6 + b7)
  BY SumIs
<1> QED
  BY <1>3, <1>4, <1>5, <1>6, Zenon

(* Work is what it is of the variables, now and next.                      *)
LEMMA WorkIs ==
  ASSUME IInv, IInv'
  PROVE  /\ Work = WorkOf(inst, rx, source, task, done_queue, client, tx)
         /\ Work' = WorkOf(inst', rx', source', task', done_queue', client', tx')
<1>1. /\ inst \in InstT /\ rx \in Seq(Line) /\ source \in SourceT /\ task \in Seq(TaskT)
      /\ done_queue \in Seq(Id) /\ client \in ClientT /\ Writing(client) /\ tx \in Seq(Answer)
  BY DEF IInv, Shapes
<1>2. /\ inst' \in InstT /\ rx' \in Seq(Line) /\ source' \in SourceT /\ task' \in Seq(TaskT)
      /\ done_queue' \in Seq(Id) /\ client' \in ClientT /\ Writing(client') /\ tx' \in Seq(Answer)
  BY DEF IInv, Shapes, Writing
<1>3. /\ Running = RunningOf(task) /\ Running' = RunningOf(task')
      /\ PiecesLeft = Left(client) /\ PiecesLeft' = Left(client')
  BY DEF Running, RunningOf, PiecesLeft, Left
<1>4. Work = (OfLine + 1) * Len(inst.queue) + OfLine * Len(rx)
           + OfCommand * Len(source.commands) + OfRunning * Cardinality(RunningOf(task))
           + OfEnding * Len(done_queue) + OfEnding * Flag(source.cyclemon)
           + OfObject * Len(client.objs) + 3 * Left(client)
           + 3 * Len(client.txt) + 2 * Len(client.wb) + Len(tx)
           + Flag(client.writes) + Flag(client.reads) + Flag(~inst.eof)
  BY <1>3, Zenon DEF Work
<1>4a. /\ OfLine' = OfLine /\ OfCommand' = OfCommand /\ OfRunning' = OfRunning
       /\ OfEnding' = OfEnding /\ OfObject' = OfObject
  BY DEF OfLine, OfCommand, OfRunning, OfEnding, OfObject
<1>4b. /\ Flag(source.cyclemon)' = Flag(source'.cyclemon) /\ Flag(client.writes)' = Flag(client'.writes)
       /\ Flag(client.reads)' = Flag(client'.reads) /\ Flag(~inst.eof)' = Flag(~inst'.eof)
  BY DEF Flag
<1>5. Work' = (OfLine + 1) * Len(inst'.queue) + OfLine * Len(rx')
           + OfCommand * Len(source'.commands) + OfRunning * Cardinality(RunningOf(task'))
           + OfEnding * Len(done_queue') + OfEnding * Flag(source'.cyclemon)
           + OfObject * Len(client'.objs) + 3 * Left(client')
           + 3 * Len(client'.txt) + 2 * Len(client'.wb) + Len(tx')
           + Flag(client'.writes) + Flag(client'.reads) + Flag(~inst'.eof)
  BY <1>3, <1>4a, <1>4b, Zenon DEF Work
<1>6. WorkOf(inst, rx, source, task, done_queue, client, tx) = Work
  BY <1>1, <1>4, WorkTotal
<1>7. WorkOf(inst', rx', source', task', done_queue', client', tx') = Work'
  BY <1>2, <1>5, WorkTotal
<1> QED
  BY <1>6, <1>7

(* The changes of a step, at most.                                         *)
Changed(q, r, k, n, d, m, o, s) ==
  /\ Len(inst'.queue) <= Len(inst.queue) + q /\ Len(rx') <= Len(rx) + r
  /\ Len(source'.commands) <= Len(source.commands) + k
  /\ Cardinality(RunningOf(task')) <= Cardinality(RunningOf(task)) + n
  /\ Len(done_queue') <= Len(done_queue) + d
  /\ Flag(source'.cyclemon) <= Flag(source.cyclemon) + m
  /\ Len(client'.objs) <= Len(client.objs) + o
  /\ Little(client', tx', inst') <= Little(client, tx, inst) + s

(* A step whose changes weigh less than nothing leaves less work.          *)
LEMMA WorkLess ==
  ASSUME IInv, IInv',
         NEW q \in Int, NEW r \in Int, NEW k \in Int, NEW n \in Int,
         NEW d \in Int, NEW m \in Int, NEW o \in Int, NEW s \in Int,
         Changed(q, r, k, n, d, m, o, s), Total(q, r, k, n, d, m, o, s) < 0
  PROVE  Work' < Work
<1>1. /\ inst \in InstT /\ rx \in Seq(Line) /\ source \in SourceT /\ task \in Seq(TaskT)
      /\ done_queue \in Seq(Id) /\ client \in ClientT /\ Writing(client) /\ tx \in Seq(Answer)
  BY DEF IInv, Shapes
<1>2. /\ inst' \in InstT /\ rx' \in Seq(Line) /\ source' \in SourceT /\ task' \in Seq(TaskT)
      /\ done_queue' \in Seq(Id) /\ client' \in ClientT /\ Writing(client') /\ tx' \in Seq(Answer)
  BY DEF IInv, Shapes, Writing
<1>3. PICK a1 \in Nat, a2 \in Nat, a3 \in Nat, a4 \in Nat, a5 \in Nat, a6 \in Nat, a7 \in Nat, a8 \in Nat :
        /\ a1 = Len(inst.queue) /\ a2 = Len(rx) /\ a3 = Len(source.commands)
        /\ a4 = Cardinality(RunningOf(task)) /\ a5 = Len(done_queue) /\ a6 = Flag(source.cyclemon)
        /\ a7 = Len(client.objs) /\ a8 = Little(client, tx, inst)
  BY ONLY <1>1, CountsNat
<1>4. PICK b1 \in Nat, b2 \in Nat, b3 \in Nat, b4 \in Nat, b5 \in Nat, b6 \in Nat, b7 \in Nat, b8 \in Nat :
        /\ b1 = Len(inst'.queue) /\ b2 = Len(rx') /\ b3 = Len(source'.commands)
        /\ b4 = Cardinality(RunningOf(task')) /\ b5 = Len(done_queue') /\ b6 = Flag(source'.cyclemon)
        /\ b7 = Len(client'.objs) /\ b8 = Little(client', tx', inst')
  BY ONLY <1>2, CountsNat
<1>5. /\ b1 <= a1 + q /\ b2 <= a2 + r /\ b3 <= a3 + k /\ b4 <= a4 + n
      /\ b5 <= a5 + d /\ b6 <= a6 + m /\ b7 <= a7 + o /\ b8 <= a8 + s
  BY <1>3, <1>4 DEF Changed
<1>6. Total(b1, b2, b3, b4, b5, b6, b7, b8) < Total(a1, a2, a3, a4, a5, a6, a7, a8)
  BY <1>5, TotalLess
<1>7. Work = Total(a1, a2, a3, a4, a5, a6, a7, a8)
  <2>1. Work = WorkOf(inst, rx, source, task, done_queue, client, tx)
    BY WorkIs
  <2> QED
    BY <1>3, <2>1, Zenon DEF WorkOf
<1>8. Work' = Total(b1, b2, b3, b4, b5, b6, b7, b8)
  <2>1. Work' = WorkOf(inst', rx', source', task', done_queue', client', tx')
    BY WorkIs
  <2> QED
    BY <1>4, <2>1, Zenon DEF WorkOf
<1> QED
  BY <1>6, <1>7, <1>8, Zenon

(* What counts for little, in the parts that make it up.                   *)
Bits(l, t, b, x, w, r, e) == 3 * l + 3 * t + 2 * b + x + w + r + e

Moved(l, t, b, x, w, r, e) ==
  /\ Left(client') <= Left(client) + l /\ Len(client'.txt) <= Len(client.txt) + t
  /\ Len(client'.wb) <= Len(client.wb) + b /\ Len(tx') <= Len(tx) + x
  /\ Flag(client'.writes) <= Flag(client.writes) + w
  /\ Flag(client'.reads) <= Flag(client.reads) + r
  /\ Flag(~inst'.eof) <= Flag(~inst.eof) + e

(* What counts for little moves as its parts do.                           *)
LEMMA LittleMoved ==
  ASSUME IInv, IInv',
         NEW l \in Int, NEW t \in Int, NEW b \in Int, NEW x \in Int,
         NEW w \in Int, NEW r \in Int, NEW e \in Int, Moved(l, t, b, x, w, r, e)
  PROVE  Little(client', tx', inst') <= Little(client, tx, inst) + Bits(l, t, b, x, w, r, e)
<1>1. /\ inst \in InstT /\ rx \in Seq(Line) /\ source \in SourceT /\ task \in Seq(TaskT)
      /\ done_queue \in Seq(Id) /\ client \in ClientT /\ Writing(client) /\ tx \in Seq(Answer)
  BY DEF IInv, Shapes
<1>2. /\ inst' \in InstT /\ rx' \in Seq(Line) /\ source' \in SourceT /\ task' \in Seq(TaskT)
      /\ done_queue' \in Seq(Id) /\ client' \in ClientT /\ Writing(client') /\ tx' \in Seq(Answer)
  BY DEF IInv, Shapes, Writing
<1>3. \A v : Flag(v) \in Nat
  BY DEF Flag
<1>4. PICK a1 \in Nat, a2 \in Nat, a3 \in Nat, a4 \in Nat, a5 \in Nat, a6 \in Nat, a7 \in Nat :
        /\ a1 = Left(client) /\ a2 = Len(client.txt) /\ a3 = Len(client.wb) /\ a4 = Len(tx)
        /\ a5 = Flag(client.writes) /\ a6 = Flag(client.reads) /\ a7 = Flag(~inst.eof)
  BY ONLY <1>1, <1>3, CountsNat
<1>5. PICK b1 \in Nat, b2 \in Nat, b3 \in Nat, b4 \in Nat, b5 \in Nat, b6 \in Nat, b7 \in Nat :
        /\ b1 = Left(client') /\ b2 = Len(client'.txt) /\ b3 = Len(client'.wb) /\ b4 = Len(tx')
        /\ b5 = Flag(client'.writes) /\ b6 = Flag(client'.reads) /\ b7 = Flag(~inst'.eof)
  BY ONLY <1>2, <1>3, CountsNat
<1>6. /\ b1 <= a1 + l /\ b2 <= a2 + t /\ b3 <= a3 + b /\ b4 <= a4 + x
      /\ b5 <= a5 + w /\ b6 <= a6 + r /\ b7 <= a7 + e
  BY <1>4, <1>5 DEF Moved
<1>7. 3 * b1 + 3 * b2 + 2 * b3 + b4 + b5 + b6 + b7
      <= (3 * a1 + 3 * a2 + 2 * a3 + a4 + a5 + a6 + a7) + (3 * l + 3 * t + 2 * b + x + w + r + e)
  BY ONLY <1>6, a1 \in Nat, a2 \in Nat, a3 \in Nat, a4 \in Nat, a5 \in Nat, a6 \in Nat, a7 \in Nat,
          b1 \in Nat, b2 \in Nat, b3 \in Nat, b4 \in Nat, b5 \in Nat, b6 \in Nat, b7 \in Nat,
          l \in Int, t \in Int, b \in Int, x \in Int, w \in Int, r \in Int, e \in Int
<1>8. Little(client, tx, inst) = 3 * a1 + 3 * a2 + 2 * a3 + a4 + a5 + a6 + a7
  BY <1>4, Zenon DEF Little
<1>9. Little(client', tx', inst') = 3 * b1 + 3 * b2 + 2 * b3 + b4 + b5 + b6 + b7
  BY <1>5, Zenon DEF Little
<1>10. Bits(l, t, b, x, w, r, e) = 3 * l + 3 * t + 2 * b + x + w + r + e
  BY Zenon DEF Bits
<1> QED
  BY <1>7, <1>8, <1>9, <1>10, Zenon

(* How many tasks run when one changes its state.                          *)
LEMMA RunningMoves ==
  ASSUME NEW t \in Seq(TaskT), NEW u, DOMAIN u = DOMAIN t, NEW i \in DOMAIN t, NEW st,
         \A j \in DOMAIN t : u[j].st = IF j = i THEN st ELSE t[j].st
  PROVE  /\ IsFiniteSet(RunningOf(u)) /\ Cardinality(RunningOf(t)) \in Nat /\ Cardinality(RunningOf(u)) \in Nat
         /\ Cardinality(RunningOf(u)) <= Cardinality(RunningOf(t)) + 1
         /\ st # "running" => Cardinality(RunningOf(u)) <= Cardinality(RunningOf(t))
         /\ st # "running" /\ t[i].st = "running"
            => Cardinality(RunningOf(u)) = Cardinality(RunningOf(t)) - 1
<1>1. PICK R : R = RunningOf(t)
  OBVIOUS
<1>2. IsFiniteSet(R) /\ Cardinality(R) \in Nat
  <2>1. Len(t) \in Nat /\ DOMAIN t = 1 .. Len(t)
    BY LenProperties
  <2>2. IsFiniteSet(DOMAIN t)
    BY <2>1, FS_Interval
  <2>3. R \subseteq DOMAIN t
    BY <1>1 DEF RunningOf
  <2>4. IsFiniteSet(R)
    BY <2>2, <2>3, FS_Subset
  <2> QED
    BY <2>4, FS_CardinalityType
<1>3. /\ IsFiniteSet(R \cup {i}) /\ Cardinality(R \cup {i}) <= Cardinality(R) + 1
      /\ IsFiniteSet(R \ {i}) /\ Cardinality(R \ {i}) <= Cardinality(R)
      /\ i \in R => Cardinality(R \ {i}) = Cardinality(R) - 1
      /\ Cardinality(R \cup {i}) \in Nat /\ Cardinality(R \ {i}) \in Nat
  <2>1. /\ IsFiniteSet(R \cup {i})
        /\ Cardinality(R \cup {i}) = IF i \in R THEN Cardinality(R) ELSE Cardinality(R) + 1
    BY <1>2, FS_AddElement
  <2>2. /\ IsFiniteSet(R \ {i})
        /\ Cardinality(R \ {i}) = IF i \in R THEN Cardinality(R) - 1 ELSE Cardinality(R)
    BY <1>2, FS_RemoveElement
  <2>3. Cardinality(R \cup {i}) \in Nat /\ Cardinality(R \ {i}) \in Nat
    BY <2>1, <2>2, FS_CardinalityType
  <2> QED
    BY <1>2, <2>1, <2>2, <2>3
<1>4. RunningOf(u) = IF st = "running" THEN R \cup {i} ELSE R \ {i}
  BY <1>1 DEF RunningOf
<1>5. i \in R <=> t[i].st = "running"
  BY <1>1 DEF RunningOf
<1>6. CASE st = "running"
  BY <1>1, <1>2, <1>3, <1>4, <1>6
<1>7. CASE st # "running"
  <2>1. RunningOf(u) = R \ {i}
    BY <1>4, <1>7
  <2>2. PICK c \in Nat, d \in Nat : /\ c = Cardinality(R) /\ d = Cardinality(R \ {i})
                                    /\ d <= c /\ (i \in R => d = c - 1)
    BY <1>2, <1>3
  <2>3. d <= c + 1
    BY <2>2
  <2> QED
    BY <1>1, <1>3, <1>5, <1>7, <2>1, <2>2, <2>3
<1> QED
  BY <1>6, <1>7

-----------------------------------------------------------------------------
(* What scamper_inst_read leaves of the library: the lines it has to send, *)
(* and whether it was told "done"; it is asked for more by a MORE.         *)
LEMMA InstReadDoes ==
  ASSUME IInv, InstRead
  PROVE  /\ tx # <<>> /\ tx' = Tail(tx) /\ Alive
         /\ UNCHANGED <<client, source, task, done_queue, rx>>
         /\ UNCHANGED <<inst.queue, inst.done, inst.eof>>
         /\ inst'.asked => inst.asked \/ Head(tx).k = "MORE"
         /\ UNCHANGED shut \/ shut' = shut \cup {"client"}
<1>1. tx # <<>> /\ tx' = Tail(tx) /\ Alive /\ UNCHANGED <<client, source, task, done_queue, rx>>
  BY DEF InstRead, daemon
<1>2. inst \in InstT
  BY DEF IInv, Shapes
<1>3. PICK x : x = Head(tx)
  OBVIOUS
<1>4. \/ RxPiece \/ Fail("lost in data") \/ RxOkId(x.id) \/ RxOk \/ RxErr
      \/ x.k = "MORE" /\ RxMore
      \/ RxData(x)
  BY <1>3, Zenon DEF InstRead
<1>5. ASSUME NEW what, Fail(what)
      PROVE  UNCHANGED inst /\ shut' = shut \cup {"client"}
  BY <1>5 DEF Fail
<1>6. CASE RxPiece
  <2>1. PICK l, d : l = inst.left - 1 /\ d = IF inst.left = 1 THEN {} ELSE inst.data
    OBVIOUS
  <2>2. inst' = [inst EXCEPT !.left = l, !.data = d] /\ UNCHANGED shut
    BY <1>6, <2>1, Zenon DEF RxPiece, Works
  <2> QED
    BY <1>1, <1>2, <2>2 DEF InstT
<1>7. CASE RxOkId(x.id)
  <2>1. PICK w, u : w = Tail(inst.waitok) /\ u = inst.tree \cup {x.id}
    OBVIOUS
  <2>2. \/ Fail("answer")
        \/ inst' = [inst EXCEPT !.waitok = w, !.tree = u] /\ UNCHANGED shut
    BY <1>7, <2>1, Zenon DEF RxOkId, Works
  <2> QED
    BY <1>1, <1>2, <1>5, <2>2 DEF InstT
<1>8. CASE RxOk
  <2>1. PICK w : w = Tail(inst.waitok)
    OBVIOUS
  <2>2. \/ Fail("answer")
        \/ inst' = [inst EXCEPT !.waitok = w] /\ UNCHANGED shut
    BY <1>8, <2>1, Zenon DEF RxOk, Works
  <2> QED
    BY <1>1, <1>2, <1>5, <2>2 DEF InstT
<1>9. CASE RxErr
  <2>1. PICK w : w = Tail(inst.waitok)
    OBVIOUS
  <2>2. \/ \E what : Fail(what)
        \/ inst' = [inst EXCEPT !.waitok = w, !.more = TRUE] /\ UNCHANGED shut
    BY <1>9, <2>1, Zenon DEF RxErr, Works
  <2> QED
    BY <1>1, <1>2, <1>5, <2>2 DEF InstT
<1>10. CASE x.k = "MORE" /\ RxMore
  <2>1. inst' = [inst EXCEPT !.more = TRUE, !.asked = TRUE] /\ UNCHANGED shut
    BY <1>10 DEF RxMore, Works
  <2> QED
    BY <1>1, <1>2, <1>3, <1>10, <2>1 DEF InstT
<1>11. CASE RxData(x)
  <2>1. PICK l, u, d : /\ l = x.len /\ u = inst.tree \ {x.id}
                       /\ d = {t \in Task : mine[t].id = x.id /\ x.id # 0}
    OBVIOUS
  <2>2. \/ Fail("no task")
        \/ inst' = [inst EXCEPT !.left = l, !.tree = u, !.data = d] /\ UNCHANGED shut
    BY <1>11, <2>1, Zenon DEF RxData, Works
  <2> QED
    BY <1>1, <1>2, <1>5, <2>2 DEF InstT
<1> QED
  BY <1>1, <1>4, <1>5, <1>6, <1>7, <1>8, <1>9, <1>10, <1>11

(* What fd_write leaves of the library.                                    *)
LEMMA FdSendDoes ==
  ASSUME IInv, Alive, FdSend
  PROVE  /\ inst.queue # <<>> /\ "scamper" \notin shut /\ Alive
         /\ rx' = Append(rx, Head(inst.queue)) /\ inst'.queue = Tail(inst.queue)
         /\ UNCHANGED <<client, source, task, done_queue, tx, shut, fault>>
         /\ UNCHANGED <<inst.done, inst.asked, inst.eof>>
<1>1. /\ inst \in InstT
      /\ inst.queue # <<>> /\ "scamper" \notin shut /\ Alive
      /\ rx' = Append(rx, Head(inst.queue))
      /\ inst' = [inst EXCEPT !.queue = Tail(@), !.waitok = Append(@, Head(inst.queue))]
      /\ UNCHANGED <<client, source, task, done_queue, tx, shut, fault>>
  BY DEF IInv, Shapes, FdSend, daemon
<1> QED
  BY <1>1 DEF InstT

(* With nothing to send it leaves all but the connection.                  *)
LEMMA FdSendNothingDoes ==
  ASSUME FdSendNothing
  PROVE  /\ UNCHANGED <<client, source, task, done_queue, rx, tx, inst>>
         /\ shut' = shut \cup {"client"} /\ fault' = "no command"
  BY DEF FdSendNothing, Fail, daemon

-----------------------------------------------------------------------------
(* The numbers that Work adds up, now.                                     *)
LEMMA Numbers ==
  ASSUME IInv
  PROVE  /\ Len(inst.queue) \in Nat /\ Len(rx) \in Nat /\ Len(source.commands) \in Nat
         /\ Cardinality(RunningOf(task)) \in Nat
         /\ Len(done_queue) \in Nat /\ Flag(source.cyclemon) \in Nat /\ Len(client.objs) \in Nat
         /\ Left(client) \in Nat /\ Len(client.txt) \in Nat /\ Len(client.wb) \in Nat /\ Len(tx) \in Nat
         /\ Flag(client.writes) \in Nat /\ Flag(client.reads) \in Nat /\ Flag(~inst.eof) \in Nat
         /\ Little(client, tx, inst) \in Nat
<1>1. /\ inst \in InstT /\ rx \in Seq(Line) /\ source \in SourceT /\ task \in Seq(TaskT)
      /\ done_queue \in Seq(Id) /\ client \in ClientT /\ Writing(client) /\ tx \in Seq(Answer)
  BY DEF IInv, Shapes
<1>2. \A b : Flag(b) \in Nat
  BY DEF Flag
<1> QED
  BY <1>1, <1>2, CountsNat

(* What does not change has not grown.                                     *)
LEMMA Stays ==
  ASSUME IInv
  PROVE  /\ Len(inst.queue) <= Len(inst.queue) + 0 /\ Len(rx) <= Len(rx) + 0
         /\ Len(source.commands) <= Len(source.commands) + 0
         /\ Cardinality(RunningOf(task)) <= Cardinality(RunningOf(task)) + 0
         /\ Len(done_queue) <= Len(done_queue) + 0 /\ Flag(source.cyclemon) <= Flag(source.cyclemon) + 0
         /\ Len(client.objs) <= Len(client.objs) + 0
         /\ Left(client) <= Left(client) + 0 /\ Len(client.txt) <= Len(client.txt) + 0
         /\ Len(client.wb) <= Len(client.wb) + 0 /\ Len(tx) <= Len(tx) + 0
         /\ Flag(client.writes) <= Flag(client.writes) + 0 /\ Flag(client.reads) <= Flag(client.reads) + 0
         /\ Flag(~inst.eof) <= Flag(~inst.eof) + 0
         /\ Little(client, tx, inst) <= Little(client, tx, inst) + 0
<1>1. \A n \in Nat : n <= n + 0
  OBVIOUS
<1> QED
  BY <1>1, Numbers, Zenon

(* A flag is 0 or 1.                                                       *)
LEMMA Flags ==
  /\ \A a, b : Flag(a) <= Flag(b) + 1
  /\ \A a, b : a /\ ~b => Flag(b) <= Flag(a) + (-1)
  /\ \A a, b : (b => a) => Flag(b) <= Flag(a) + 0
  BY DEF Flag

(* A step whose changes are those of a handler leaves less work.           *)
LEMMA WorkFalls ==
  ASSUME IInv, IInv',
         \/ Changed(-1, 1, 0, 0, 0, 0, 0, 0)
         \/ Changed(0, 0, 0, 0, 0, 0, 0, -1)
         \/ Changed(0, -1, 1, 0, 0, 1, 0, 4)
         \/ Changed(0, -1, 1, 0, 0, 0, 0, 4)
         \/ Changed(0, -1, 0, 0, 0, 0, 0, 4)
         \/ Changed(0, -1, 0, 0, 1, 0, 0, 4)
         \/ Changed(0, -1, 0, 0, 0, -1, 1, 4)
         \/ Changed(0, 0, 0, 0, 0, -1, 1, 0)
         \/ Changed(0, 0, -1, 0, 0, 0, 1, 4)
         \/ Changed(0, 0, -1, 1, 0, 0, 0, 4)
         \/ Changed(0, 0, 0, 0, -1, 0, 1, 1)
         \/ Changed(0, 0, 0, 0, -1, -1, 2, 1)
         \/ Changed(0, 0, 0, -1, 1, 0, 0, 0)
  PROVE  Work' < Work
<1>1. -1 \in Int /\ 0 \in Int /\ 1 \in Int /\ 2 \in Int /\ 4 \in Int
  OBVIOUS
<1>2. CASE Changed(-1, 1, 0, 0, 0, 0, 0, 0)
  <2>1. Total(-1, 1, 0, 0, 0, 0, 0, 0) < 0
    BY Changes
  <2> QED
    BY <1>1, <1>2, <2>1, WorkLess, Zenon
<1>3. CASE Changed(0, 0, 0, 0, 0, 0, 0, -1)
  <2>1. Total(0, 0, 0, 0, 0, 0, 0, -1) < 0
    BY Changes
  <2> QED
    BY <1>1, <1>3, <2>1, WorkLess, Zenon
<1>4. CASE Changed(0, -1, 1, 0, 0, 1, 0, 4)
  <2>1. Total(0, -1, 1, 0, 0, 1, 0, 4) < 0
    BY Changes
  <2> QED
    BY <1>1, <1>4, <2>1, WorkLess, Zenon
<1>5. CASE Changed(0, -1, 1, 0, 0, 0, 0, 4)
  <2>1. Total(0, -1, 1, 0, 0, 0, 0, 4) < 0
    BY Changes
  <2> QED
    BY <1>1, <1>5, <2>1, WorkLess, Zenon
<1>6. CASE Changed(0, -1, 0, 0, 0, 0, 0, 4)
  <2>1. Total(0, -1, 0, 0, 0, 0, 0, 4) < 0
    BY Changes
  <2> QED
    BY <1>1, <1>6, <2>1, WorkLess, Zenon
<1>7. CASE Changed(0, -1, 0, 0, 1, 0, 0, 4)
  <2>1. Total(0, -1, 0, 0, 1, 0, 0, 4) < 0
    BY Changes
  <2> QED
    BY <1>1, <1>7, <2>1, WorkLess, Zenon
<1>8. CASE Changed(0, -1, 0, 0, 0, -1, 1, 4)
  <2>1. Total(0, -1, 0, 0, 0, -1, 1, 4) < 0
    BY Changes
  <2> QED
    BY <1>1, <1>8, <2>1, WorkLess, Zenon
<1>9. CASE Changed(0, 0, 0, 0, 0, -1, 1, 0)
  <2>1. Total(0, 0, 0, 0, 0, -1, 1, 0) < 0
    BY Changes
  <2> QED
    BY <1>1, <1>9, <2>1, WorkLess, Zenon
<1>10. CASE Changed(0, 0, -1, 0, 0, 0, 1, 4)
  <2>1. Total(0, 0, -1, 0, 0, 0, 1, 4) < 0
    BY Changes
  <2> QED
    BY <1>1, <1>10, <2>1, WorkLess, Zenon
<1>11. CASE Changed(0, 0, -1, 1, 0, 0, 0, 4)
  <2>1. Total(0, 0, -1, 1, 0, 0, 0, 4) < 0
    BY Changes
  <2> QED
    BY <1>1, <1>11, <2>1, WorkLess, Zenon
<1>12. CASE Changed(0, 0, 0, 0, -1, 0, 1, 1)
  <2>1. Total(0, 0, 0, 0, -1, 0, 1, 1) < 0
    BY Changes
  <2> QED
    BY <1>1, <1>12, <2>1, WorkLess, Zenon
<1>13. CASE Changed(0, 0, 0, 0, -1, -1, 2, 1)
  <2>1. Total(0, 0, 0, 0, -1, -1, 2, 1) < 0
    BY Changes
  <2> QED
    BY <1>1, <1>13, <2>1, WorkLess, Zenon
<1>14. CASE Changed(0, 0, 0, -1, 1, 0, 0, 0)
  <2>1. Total(0, 0, 0, -1, 1, 0, 0, 0) < 0
    BY Changes
  <2> QED
    BY <1>1, <1>14, <2>1, WorkLess, Zenon
<1> QED
  BY <1>2, <1>3, <1>4, <1>5, <1>6, <1>7, <1>8, <1>9, <1>10, <1>11, <1>12, <1>13, <1>14

(* The library sends a line: it counts for less when it is sent.           *)
LEMMA FdSendLess == ASSUME IInv, Alive, FdSend PROVE Work' < Work
<1>1. IInv'
  BY FdSendKeeps
<1>2. /\ inst.queue # <<>>
      /\ rx' = Append(rx, Head(inst.queue)) /\ inst'.queue = Tail(inst.queue)
      /\ UNCHANGED <<client, source, task, done_queue, tx, inst.eof>>
  BY FdSendDoes
<1>3. inst.queue \in Seq(Line) /\ rx \in Seq(Line)
  BY DEF IInv, Shapes, InstT
<1>4. Head(inst.queue) \in Line
  BY <1>2, <1>3, TailWithin
<1>5. Len(inst'.queue) <= Len(inst.queue) + (-1) /\ Len(rx') <= Len(rx) + 1
  BY <1>2, <1>3, <1>4, Lengths
<1>6. Little(client', tx', inst') = Little(client, tx, inst)
  BY <1>2 DEF Little
<1>7. Changed(-1, 1, 0, 0, 0, 0, 0, 0)
  BY <1>2, <1>5, <1>6, Stays, Zenon DEF Changed
<1> QED
  BY <1>1, <1>7, WorkFalls

(* The library reads a line.                                               *)
LEMMA InstReadLess == ASSUME IInv, InstRead PROVE Work' < Work
<1>1. IInv'
  BY InstReadKeeps
<1>2. /\ tx # <<>> /\ tx' = Tail(tx)
      /\ UNCHANGED <<client, source, task, done_queue, rx, inst.queue, inst.eof>>
  BY InstReadDoes
<1>3. tx \in Seq(Answer)
  BY DEF IInv, Shapes
<1>4. Len(tx') <= Len(tx) + (-1)
  BY <1>2, <1>3, Lengths
<1>5. Moved(0, 0, 0, -1, 0, 0, 0)
  BY <1>2, <1>4, Stays, Zenon DEF Moved
<1>6. Bits(0, 0, 0, -1, 0, 0, 0) = -1
  BY DEF Bits
<1>7. Little(client', tx', inst') <= Little(client, tx, inst) + (-1)
  BY <1>1, <1>5, <1>6, LittleMoved
<1>8. Changed(0, 0, 0, 0, 0, 0, 0, -1)
  BY <1>2, <1>7, Stays, Zenon DEF Changed
<1> QED
  BY <1>1, <1>8, WorkFalls

(* The library reads the end of what scamper wrote, once.                  *)
LEMMA InstEofLess == ASSUME IInv, InstEof PROVE Work' < Work
<1>1. IInv'
  BY InstEofKeeps
<1>2. /\ UNCHANGED <<client, source, task, done_queue, rx, tx>> /\ ~inst.eof
      /\ inst \in InstT /\ inst' = [inst EXCEPT !.eof = TRUE]
  BY DEF InstEof, daemon, Alive, IInv, Shapes
<1>3. UNCHANGED inst.queue /\ inst'.eof
  BY <1>2 DEF InstT
<1>4. Flag(~inst'.eof) <= Flag(~inst.eof) + (-1)
  BY <1>2, <1>3, Flags
<1>5. Moved(0, 0, 0, 0, 0, 0, -1)
  BY <1>2, <1>4, Stays, Zenon DEF Moved
<1>6. Bits(0, 0, 0, 0, 0, 0, -1) = -1
  BY DEF Bits
<1>7. Little(client', tx', inst') <= Little(client, tx, inst) + (-1)
  BY <1>1, <1>5, <1>6, LittleMoved
<1>8. Changed(0, 0, 0, 0, 0, 0, 0, -1)
  BY <1>2, <1>3, <1>7, Stays, Zenon DEF Changed
<1> QED
  BY <1>1, <1>8, WorkFalls

(* An answer, and that it is to be written, count for four.                *)
LEMMA LittleSaid ==
  ASSUME IInv, IInv', UNCHANGED <<client.obj, client.off, client.wb, client.reads, tx, inst>>,
         \/ client'.txt = client.txt
         \/ \E x \in Spoken : client'.txt = Append(client.txt, x)
  PROVE  Little(client', tx', inst') <= Little(client, tx, inst) + 4
<1>1. client.txt \in Seq(Spoken)
  BY DEF IInv, Shapes, ClientT
<1>2. Len(client'.txt) <= Len(client.txt) + 1
  BY <1>1, Lengths
<1>3. Left(client') = Left(client)
  BY DEF Left
<1>4. Flag(client'.writes) <= Flag(client.writes) + 1
  BY Flags
<1>5. Moved(0, 1, 0, 0, 1, 0, 0)
  BY <1>2, <1>3, <1>4, Stays, Zenon DEF Moved
<1>6. Bits(0, 1, 0, 0, 1, 0, 0) = 4
  BY DEF Bits
<1> QED
  BY <1>5, <1>6, LittleMoved

(* That there is something to write counts for one.                        *)
LEMMA LittleWoken ==
  ASSUME IInv, IInv', UNCHANGED <<client.txt, client.obj, client.off, client.wb, client.reads, tx, inst>>
  PROVE  Little(client', tx', inst') <= Little(client, tx, inst) + 1
<1>1. Left(client') = Left(client)
  BY DEF Left
<1>2. Flag(client'.writes) <= Flag(client.writes) + 1
  BY Flags
<1>3. Moved(0, 0, 0, 0, 1, 0, 0)
  BY <1>1, <1>2, Stays, Zenon DEF Moved
<1>4. Bits(0, 0, 0, 0, 1, 0, 0) = 1
  BY DEF Bits
<1> QED
  BY <1>3, <1>4, LittleMoved

(* command_attach: the line pays for the command of the cycle and its      *)
(* monitor.                                                                *)
LEMMA AttachLess == ASSUME IInv, Lib(ClientRead), CommandAttach PROVE Work' < Work
<1>1. IInv'
  BY ClientReadKeeps
<1>2. /\ rx \in Seq(Line) /\ rx # <<>> /\ rx' = Tail(rx) /\ UNCHANGED <<tx, inst>>
  BY ReadBase
<1>3. /\ client'.txt = Append(client.txt, Ok)
      /\ UNCHANGED <<client.objs, client.obj, client.off, client.wb, client.reads>>
      /\ source'.commands = <<Cycle>> /\ UNCHANGED <<task, done_queue>>
  BY AttachDoes
<1>4. Ok \in Spoken
  BY SpokenCases
<1>5. Little(client', tx', inst') <= Little(client, tx, inst) + 4
  BY <1>1, <1>2, <1>3, <1>4, LittleSaid
<1>6. Len(rx') <= Len(rx) + (-1)
  BY <1>2, Lengths
<1>7. Len(source'.commands) <= Len(source.commands) + 1
  BY <1>3, Numbers
<1>8. Flag(source'.cyclemon) <= Flag(source.cyclemon) + 1
  BY Flags
<1>9. Changed(0, -1, 1, 0, 0, 1, 0, 4)
  BY <1>2, <1>3, <1>5, <1>6, <1>7, <1>8, Stays, Zenon DEF Changed
<1> QED
  BY <1>1, <1>9, WorkFalls

(* A command that makes a task, or is refused.                             *)
LEMMA CommandLess ==
  ASSUME IInv, Lib(ClientRead), client.mode = "attached", Head(rx).k = "task", Command2(Head(rx).task)
  PROVE  Work' < Work
<1>1. IInv'
  BY ClientReadKeeps
<1>2. /\ rx \in Seq(Line) /\ rx # <<>> /\ rx' = Tail(rx) /\ UNCHANGED <<tx, inst>>
      /\ source \in SourceT /\ task \in Seq(TaskT)
  BY ReadBase
<1>3. Len(rx') <= Len(rx) + (-1)
  BY <1>2, Lengths
<1>4. CASE client' = Say(client, Err) /\ UNCHANGED <<source, task, done_queue>>
  <2>1. /\ client'.txt = Append(client.txt, Err)
        /\ UNCHANGED <<client.objs, client.obj, client.off, client.wb, client.reads>>
    BY <1>4, RefusedDoes
  <2>2. Err \in Spoken
    BY SpokenCases
  <2>3. Little(client', tx', inst') <= Little(client, tx, inst) + 4
    BY <1>1, <1>2, <2>1, <2>2, LittleSaid
  <2>4. Changed(0, -1, 0, 0, 0, 0, 0, 4)
    BY <1>2, <1>3, <1>4, <2>1, <2>3, Stays, Zenon DEF Changed
  <2> QED
    BY <1>1, <2>4, WorkFalls
<1>5. ASSUME NEW id, Makes(id) PROVE Work' < Work
  <2>1. /\ id \in Id /\ client'.txt = Append(client.txt, OkId(id))
        /\ UNCHANGED <<client.objs, client.obj, client.off, client.wb, client.reads>>
        /\ source'.commands = Append(source.commands, id)
        /\ UNCHANGED <<source.cyclemon, done_queue>>
        /\ DOMAIN task' = DOMAIN task \cup {id} /\ id \notin DOMAIN task
        /\ task'[id].st = "queued" /\ \A i \in DOMAIN task : task'[i] = task[i]
    BY <1>5, MadeDoes
  <2>2. OkId(id) \in Spoken
    BY <2>1, SpokenCases
  <2>3. Little(client', tx', inst') <= Little(client, tx, inst) + 4
    BY <1>1, <1>2, <2>1, <2>2, LittleSaid
  <2>4. RunningOf(task') = RunningOf(task)
    BY <2>1 DEF RunningOf
  <2>5. Len(source'.commands) <= Len(source.commands) + 1
    <3>1. source.commands \in Seq(Id \cup {Cycle})
      BY <1>2 DEF SourceT
    <3> QED
      BY <2>1, <3>1, Lengths
  <2>6. Changed(0, -1, 1, 0, 0, 0, 0, 4)
    BY <1>2, <1>3, <2>1, <2>3, <2>4, <2>5, Stays, Zenon DEF Changed
  <2> QED
    BY <1>1, <2>6, WorkFalls
<1>6. \/ client' = Say(client, Err) /\ UNCHANGED <<source, task, done_queue>>
      \/ \E id : Makes(id)
  BY Zenon DEF Command2, Makes
<1> QED
  BY <1>4, <1>5, <1>6

(* A halt: a task that runs no more, and is done, or is refused.           *)
LEMMA HaltLess ==
  ASSUME IInv, Lib(ClientRead), NEW id, HaltTask(id)
  PROVE  Work' < Work
<1>1. IInv'
  BY ClientReadKeeps
<1>2. /\ rx \in Seq(Line) /\ rx # <<>> /\ rx' = Tail(rx) /\ UNCHANGED <<tx, inst>>
      /\ source \in SourceT /\ task \in Seq(TaskT) /\ done_queue \in Seq(Id)
  BY ReadBase
<1>3. Len(rx') <= Len(rx) + (-1)
  BY <1>2, Lengths
<1>4. CASE id \notin source.tasks
  <2>1. client' = Say(client, Err) /\ UNCHANGED <<source, task, done_queue>>
    BY <1>4 DEF HaltTask
  <2>2. /\ client'.txt = Append(client.txt, Err)
        /\ UNCHANGED <<client.objs, client.obj, client.off, client.wb, client.reads>>
    BY <2>1, RefusedDoes
  <2>3. Err \in Spoken
    BY SpokenCases
  <2>4. Little(client', tx', inst') <= Little(client, tx, inst) + 4
    BY <1>1, <1>2, <2>2, <2>3, LittleSaid
  <2>5. Changed(0, -1, 0, 0, 0, 0, 0, 4)
    BY <1>2, <1>3, <2>1, <2>2, <2>4, Stays, Zenon DEF Changed
  <2> QED
    BY <1>1, <2>5, WorkFalls
<1>5. CASE id \in source.tasks
  <2>1. /\ id \in Id /\ id \in DOMAIN task /\ client'.txt = Append(client.txt, Ok)
        /\ UNCHANGED <<client.objs, client.obj, client.off, client.wb, client.reads>>
        /\ source'.commands = Without(source.commands, id)
        /\ UNCHANGED source.cyclemon
        /\ done_queue' = Append(Without(done_queue, id), id)
        /\ Without(done_queue, id) \in Seq(Id)
        /\ DOMAIN task' = DOMAIN task
        /\ \A j \in DOMAIN task : task'[j].st = IF j = id THEN "done" ELSE task[j].st
    BY <1>5, HaltedDoes
  <2>2. Ok \in Spoken
    BY SpokenCases
  <2>3. Little(client', tx', inst') <= Little(client, tx, inst) + 4
    BY <1>1, <1>2, <2>1, <2>2, LittleSaid
  <2>4. Cardinality(RunningOf(task')) <= Cardinality(RunningOf(task)) + 0
    <3>1. /\ task \in Seq(TaskT) /\ DOMAIN task' = DOMAIN task /\ id \in DOMAIN task
          /\ \A j \in DOMAIN task : task'[j].st = IF j = id THEN "done" ELSE task[j].st
          /\ "done" # "running"
      BY <1>2, <2>1
    <3>2. /\ Cardinality(RunningOf(task)) \in Nat /\ Cardinality(RunningOf(task')) \in Nat
          /\ Cardinality(RunningOf(task')) <= Cardinality(RunningOf(task))
      BY ONLY <3>1, RunningMoves
    <3> QED
      BY <3>2
  <2>5. Len(source'.commands) <= Len(source.commands) + 0
    <3>1. source.commands \in Seq(Id \cup {Cycle})
      BY <1>2 DEF SourceT
    <3>2. Len(Without(source.commands, id)) \in Nat /\ Len(Without(source.commands, id)) <= Len(source.commands)
      BY <3>1, WithoutLength
    <3> QED
      BY <2>1, <3>2, Numbers
  <2>6. Len(done_queue') <= Len(done_queue) + 1
    <3>1. PICK q \in Seq(Id) : q = Without(done_queue, id)
      BY <2>1
    <3>2. Len(q) \in Nat /\ Len(q) <= Len(done_queue)
      BY <1>2, <3>1, WithoutLength
    <3>3. Len(Append(q, id)) = Len(q) + 1
      BY <2>1, Lengths
    <3> QED
      BY <2>1, <3>1, <3>2, <3>3, Numbers
  <2>7. Changed(0, -1, 0, 0, 1, 0, 0, 4)
    BY <1>2, <1>3, <2>1, <2>3, <2>4, <2>5, <2>6, Stays, Zenon DEF Changed
  <2> QED
    BY <1>1, <2>7, WorkFalls
<1> QED
  BY <1>4, <1>5

(* "done": the cycle stop is written in the place of the cycle monitor.    *)
LEMMA DoneLess ==
  ASSUME IInv, Lib(ClientRead), client.mode = "attached", CommandDone
  PROVE  Work' < Work
<1>1. IInv'
  BY ClientReadKeeps
<1>2. /\ rx \in Seq(Line) /\ rx # <<>> /\ rx' = Tail(rx) /\ UNCHANGED <<tx, inst>>
      /\ client \in ClientT
  BY ReadBase
<1>3. Len(rx') <= Len(rx) + (-1)
  BY <1>2, Lengths
<1>4. /\ client'.txt = Append(client.txt, Ok)
      /\ UNCHANGED <<client.obj, client.off, client.wb, client.reads, source.commands>>
      /\ UNCHANGED <<task, done_queue>>
      /\ \/ UNCHANGED <<client.objs, source.cyclemon>>
         \/ /\ client'.objs = Append(client.objs, CycleObj)
            /\ source.cyclemon /\ ~source'.cyclemon
  BY DoneDoes
<1>5. Ok \in Spoken
  BY SpokenCases
<1>6. Little(client', tx', inst') <= Little(client, tx, inst) + 4
  BY <1>1, <1>2, <1>4, <1>5, LittleSaid
<1>7. CASE UNCHANGED <<client.objs, source.cyclemon>>
  <2>1. Changed(0, -1, 0, 0, 0, 0, 0, 4)
    BY <1>2, <1>3, <1>4, <1>6, <1>7, Stays, Zenon DEF Changed
  <2> QED
    BY <1>1, <2>1, WorkFalls
<1>8. CASE client'.objs = Append(client.objs, CycleObj) /\ source.cyclemon /\ ~source'.cyclemon
  <2>1. Len(client'.objs) <= Len(client.objs) + 1
    <3>1. client.objs \in Seq(Obj) /\ CycleObj \in Obj
      BY <1>2, ObjCases DEF ClientT
    <3> QED
      BY <1>8, <3>1, Lengths
  <2>2. Flag(source'.cyclemon) <= Flag(source.cyclemon) + (-1)
    BY <1>8, Flags
  <2>3. Changed(0, -1, 0, 0, 0, -1, 1, 4)
    BY <1>2, <1>3, <1>4, <1>6, <2>1, <2>2, Stays, Zenon DEF Changed
  <2> QED
    BY <1>1, <2>3, WorkFalls
<1> QED
  BY <1>4, <1>7, <1>8

(* client_read, of any line.                                               *)
LEMMA ClientReadLess == ASSUME IInv, Lib(ClientRead) PROVE Work' < Work
<1>1. PICK x : x = Head(rx)
  OBVIOUS
<1>2. \/ client.mode = "interactive" /\ x = Attach /\ CommandAttach
      \/ client.mode = "attached" /\ x.k = "task" /\ Command2(x.task)
      \/ client.mode = "attached" /\ x.k = "halt" /\ HaltTask(x.id)
      \/ client.mode = "attached" /\ x = Done /\ CommandDone
      \/ client.mode = "flush" /\ UNCHANGED daemon
  BY <1>1, Zenon DEF Lib, ClientRead, ClientReadLine
<1>3. CASE client.mode = "flush" /\ UNCHANGED daemon
  <2>1. IInv'
    BY ClientReadKeeps
  <2>2. /\ rx \in Seq(Line) /\ rx # <<>> /\ rx' = Tail(rx) /\ UNCHANGED <<tx, inst>>
    BY ReadBase
  <2>3. Len(rx') <= Len(rx) + (-1)
    BY <2>2, Lengths
  <2>4. UNCHANGED <<client, source, task, done_queue>>
    BY <1>3 DEF daemon
  <2>5. Little(client', tx', inst') = Little(client, tx, inst)
    BY <2>2, <2>4
  <2>6. Little(client', tx', inst') <= Little(client, tx, inst) + 4
    BY <2>5, Numbers
  <2>7. Changed(0, -1, 0, 0, 0, 0, 0, 4)
    BY <2>2, <2>3, <2>4, <2>6, Stays, Zenon DEF Changed
  <2> QED
    BY <2>1, <2>7, WorkFalls
<1> QED
  BY <1>1, <1>2, <1>3, AttachLess, CommandLess, HaltLess, DoneLess

(* client_free: nothing is left of the client, nor of its interest in the  *)
(* socket.                                                                 *)
LEMMA FreeLess ==
  ASSUME IInv, IInv', ClientFree, client.reads \/ client.writes, UNCHANGED <<rx, tx, inst>>
  PROVE  Work' < Work
<1>1. /\ client'.mode = "freed" /\ client'.txt = <<>> /\ client'.wb = <<>> /\ client'.objs = <<>>
      /\ client'.off = 0 /\ ~client'.reads /\ ~client'.writes
      /\ source'.commands = <<>> /\ ~source'.cyclemon
      /\ task' = Gone(task) /\ done_queue' = <<>>
  BY FreeDoes
<1>2. task \in Seq(TaskT)
  BY DEF IInv, Shapes
<1>3. Left(client') = 0
  BY <1>1 DEF Left
<1>4. RunningOf(task') = {}
  <2>1. DOMAIN task' = DOMAIN task /\ \A i \in DOMAIN task : task'[i].st = "freed"
    BY <1>1, <1>2, GoneFields
  <2> QED
    BY <2>1 DEF RunningOf
<1>5. Cardinality(RunningOf(task')) <= Cardinality(RunningOf(task)) + 0
  <2>1. Cardinality({}) = 0
    BY FS_EmptySet
  <2> QED
    BY <1>4, <2>1, Numbers
<1>6. Len(<<>>) = 0
  OBVIOUS
<1>7. /\ Len(source'.commands) <= Len(source.commands) + 0 /\ Len(done_queue') <= Len(done_queue) + 0
      /\ Len(client'.objs) <= Len(client.objs) + 0 /\ Len(client'.txt) <= Len(client.txt) + 0
      /\ Len(client'.wb) <= Len(client.wb) + 0 /\ Left(client') <= Left(client) + 0
  BY <1>1, <1>3, <1>6, Numbers
<1>8. /\ Flag(source'.cyclemon) <= Flag(source.cyclemon) + 0
      /\ Flag(client'.writes) <= Flag(client.writes) + 0 /\ Flag(client'.reads) <= Flag(client.reads) + 0
  BY <1>1, Flags
<1>9. Little(client', tx', inst') <= Little(client, tx, inst) + (-1)
  <2>1. CASE client.reads
    <3>1. Flag(client'.reads) <= Flag(client.reads) + (-1)
      BY <1>1, <2>1, Flags
    <3>2. Moved(0, 0, 0, 0, 0, -1, 0)
      BY <1>7, <1>8, <3>1, Stays, Zenon DEF Moved
    <3>3. Bits(0, 0, 0, 0, 0, -1, 0) = -1
      BY DEF Bits
    <3> QED
      BY <3>2, <3>3, LittleMoved
  <2>2. CASE client.writes
    <3>1. Flag(client'.writes) <= Flag(client.writes) + (-1)
      BY <1>1, <2>2, Flags
    <3>2. Moved(0, 0, 0, 0, -1, 0, 0)
      BY <1>7, <1>8, <3>1, Stays, Zenon DEF Moved
    <3>3. Bits(0, 0, 0, 0, -1, 0, 0) = -1
      BY DEF Bits
    <3> QED
      BY <3>2, <3>3, LittleMoved
  <2> QED
    BY <2>1, <2>2
<1>10. Changed(0, 0, 0, 0, 0, 0, 0, -1)
  BY <1>5, <1>7, <1>8, <1>9, Stays, Zenon DEF Changed
<1> QED
  BY <1>10, WorkFalls

(* client_read at end of file: it reads no more.                           *)
LEMMA ClientEofLess == ASSUME IInv, Lib(ClientEof) PROVE Work' < Work
<1>1. IInv'
  BY ClientEofKeeps
<1>2. client.reads /\ UNCHANGED <<rx, tx, inst>>
  BY EofDoes
<1>3. CASE ClientFree
  BY <1>1, <1>2, <1>3, FreeLess
<1>4. CASE ~ClientFree
  <2>1. /\ ~client'.reads
        /\ client'.wb = client.wb /\ client'.txt = client.txt /\ client'.off = client.off
        /\ client'.obj = client.obj
        /\ source'.commands = <<>>
        /\ task' = Gone(task) /\ done_queue' = <<>>
        /\ \/ /\ client'.objs = client.objs /\ client'.writes = client.writes
              /\ source'.cyclemon => source.cyclemon
           \/ /\ client'.objs = Append(client.objs, CycleObj) /\ client'.writes
              /\ source.cyclemon /\ ~source'.cyclemon
    BY <1>4, EofDoes
  <2>2. task \in Seq(TaskT) /\ client \in ClientT
    BY DEF IInv, Shapes
  <2>3. Left(client') = Left(client)
    BY <2>1 DEF Left
  <2>4. RunningOf(task') = {}
    <3>1. DOMAIN task' = DOMAIN task /\ \A i \in DOMAIN task : task'[i].st = "freed"
      BY <2>1, <2>2, GoneFields
    <3> QED
      BY <3>1 DEF RunningOf
  <2>5. Cardinality(RunningOf(task')) <= Cardinality(RunningOf(task)) + 0
    <3>1. Cardinality({}) = 0
      BY FS_EmptySet
    <3> QED
      BY <2>4, <3>1, Numbers
  <2>6. Len(<<>>) = 0
    OBVIOUS
  <2>7. Len(source'.commands) <= Len(source.commands) + 0 /\ Len(done_queue') <= Len(done_queue) + 0
    BY <2>1, <2>6, Numbers
  <2>8. Flag(client'.reads) <= Flag(client.reads) + (-1)
    BY <1>2, <2>1, Flags
  <2>9. CASE /\ client'.objs = client.objs /\ client'.writes = client.writes
             /\ source'.cyclemon => source.cyclemon
    <3>1. Flag(source'.cyclemon) <= Flag(source.cyclemon) + 0
      BY <2>9, Flags
    <3>2. Moved(0, 0, 0, 0, 0, -1, 0)
      BY <1>2, <2>1, <2>3, <2>8, <2>9, Stays, Zenon DEF Moved
    <3>3. Bits(0, 0, 0, 0, 0, -1, 0) = -1
      BY DEF Bits
    <3>4. Little(client', tx', inst') <= Little(client, tx, inst) + (-1)
      BY <1>1, <3>2, <3>3, LittleMoved
    <3>5. Changed(0, 0, 0, 0, 0, 0, 0, -1)
      BY <1>2, <2>5, <2>7, <2>9, <3>1, <3>4, Stays, Zenon DEF Changed
    <3> QED
      BY <1>1, <3>5, WorkFalls
  <2>10. CASE /\ client'.objs = Append(client.objs, CycleObj) /\ client'.writes
              /\ source.cyclemon /\ ~source'.cyclemon
    <3>1. Flag(source'.cyclemon) <= Flag(source.cyclemon) + (-1)
      BY <2>10, Flags
    <3>2. Flag(client'.writes) <= Flag(client.writes) + 1
      BY Flags
    <3>3. Moved(0, 0, 0, 0, 1, -1, 0)
      BY <1>2, <2>1, <2>3, <2>8, <3>2, Stays, Zenon DEF Moved
    <3>4. Bits(0, 0, 0, 0, 1, -1, 0) = 0
      BY DEF Bits
    <3>5. Little(client', tx', inst') <= Little(client, tx, inst) + 0
      BY <1>1, <3>3, <3>4, LittleMoved
    <3>6. Len(client'.objs) <= Len(client.objs) + 1
      <4>1. client.objs \in Seq(Obj) /\ CycleObj \in Obj
        BY <2>2, ObjCases DEF ClientT
      <4> QED
        BY <2>10, <4>1, Lengths
    <3>7. Changed(0, 0, 0, 0, 0, -1, 1, 0)
      BY <1>2, <2>5, <2>7, <3>1, <3>5, <3>6, Stays, Zenon DEF Changed
    <3> QED
      BY <1>1, <3>7, WorkFalls
  <2> QED
    BY <2>1, <2>9, <2>10
<1> QED
  BY <1>3, <1>4

(* client_write, of a socket that is closed.                               *)
LEMMA WriteFailsLess == ASSUME IInv, Lib(ClientWriteFails) PROVE Work' < Work
<1>1. IInv'
  BY WriteFailsKeeps
<1>2. client.writes /\ ClientFree /\ UNCHANGED <<rx, tx, inst>>
  BY DEF Lib, ClientWriteFails
<1> QED
  BY <1>1, <1>2, FreeLess

(* scamper_sources_gettask: the command pays for the task that runs, or    *)
(* for the cycle record, and for MORE.                                     *)
LEMMA GetTaskLess == ASSUME IInv, Lib(GetTask) PROVE Work' < Work
<1>1. IInv'
  BY GetTaskKeeps
<1>2. /\ source.commands # <<>> /\ source'.commands = Tail(source.commands)
      /\ UNCHANGED source.cyclemon
      /\ UNCHANGED <<client.mode, client.obj, client.off, client.wb, client.reads>>
      /\ client'.txt = client.txt \/ client'.txt = Append(client.txt, More)
      /\ \/ /\ Head(source.commands) = Cycle /\ client'.objs = Append(client.objs, CycleObj)
            /\ UNCHANGED task
         \/ /\ client'.objs = client.objs
            /\ Head(source.commands) \in DOMAIN task /\ DOMAIN task' = DOMAIN task
            /\ \A j \in DOMAIN task :
                 task'[j].st = IF j = Head(source.commands) THEN "running" ELSE task[j].st
      /\ UNCHANGED <<inst, done_queue, rx, tx>>
  BY GetDoes
<1>3. /\ source.commands \in Seq(Id \cup {Cycle}) /\ client.objs \in Seq(Obj) /\ CycleObj \in Obj
      /\ task \in Seq(TaskT)
  BY ObjCases DEF IInv, Shapes, SourceT, ClientT
<1>4. Len(source'.commands) <= Len(source.commands) + (-1)
  BY <1>2, <1>3, Lengths
<1>5. More \in Spoken
  BY SpokenCases
<1>6. Little(client', tx', inst') <= Little(client, tx, inst) + 4
  BY <1>1, <1>2, <1>5, LittleSaid
<1>7. CASE client'.objs = Append(client.objs, CycleObj) /\ UNCHANGED task
  <2>1. Len(client'.objs) <= Len(client.objs) + 1
    BY <1>3, <1>7, Lengths
  <2>2. Changed(0, 0, -1, 0, 0, 0, 1, 4)
    BY <1>2, <1>4, <1>6, <1>7, <2>1, Stays, Zenon DEF Changed
  <2> QED
    BY <1>1, <2>2, WorkFalls
<1>8. CASE /\ client'.objs = client.objs
           /\ Head(source.commands) \in DOMAIN task /\ DOMAIN task' = DOMAIN task
           /\ \A j \in DOMAIN task :
                task'[j].st = IF j = Head(source.commands) THEN "running" ELSE task[j].st
  <2>1. Cardinality(RunningOf(task')) <= Cardinality(RunningOf(task)) + 1
    BY <1>3, <1>8, RunningMoves
  <2>2. Changed(0, 0, -1, 1, 0, 0, 0, 4)
    BY <1>2, <1>4, <1>6, <1>8, <2>1, Stays, Zenon DEF Changed
  <2> QED
    BY <1>1, <2>2, WorkFalls
<1> QED
  BY <1>2, <1>7, <1>8

(* scamper_process_done: the task that is done pays for its result, and    *)
(* the cycle monitor for the cycle stop.                                   *)
LEMMA ProcessDoneLess == ASSUME IInv, Lib(ProcessDone) PROVE Work' < Work
<1>1. IInv'
  BY ProcessDoneKeeps
<1>2. PICK i : i = Head(done_queue)
  OBVIOUS
<1>3. /\ done_queue # <<>> /\ done_queue' = Tail(done_queue)
      /\ i \in Id /\ i \in DOMAIN task
      /\ DOMAIN task' = DOMAIN task
      /\ \A j \in DOMAIN task : task'[j].st = IF j = i THEN "freed" ELSE task[j].st
      /\ UNCHANGED <<client.txt, client.obj, client.off, client.wb, client.reads>>
      /\ UNCHANGED source.commands
      /\ \/ /\ UNCHANGED source.cyclemon
            /\ client'.objs = Append(client.objs, Result(i))
         \/ /\ source.cyclemon /\ ~source'.cyclemon
            /\ client'.objs = Append(Append(client.objs, Result(i)), CycleObj)
      /\ UNCHANGED <<inst, rx, tx>>
  BY <1>2, DoneWritten
<1>4. /\ client.objs \in Seq(Obj) /\ CycleObj \in Obj /\ Result(i) \in Obj
      /\ task \in Seq(TaskT) /\ done_queue \in Seq(Id)
  BY <1>3, ObjCases DEF IInv, Shapes, ClientT
<1>5. Len(done_queue') <= Len(done_queue) + (-1)
  BY <1>3, <1>4, Lengths
<1>6. Little(client', tx', inst') <= Little(client, tx, inst) + 1
  BY <1>1, <1>3, LittleWoken
<1>7. Cardinality(RunningOf(task')) <= Cardinality(RunningOf(task)) + 0
  <2>1. /\ task \in Seq(TaskT) /\ DOMAIN task' = DOMAIN task /\ i \in DOMAIN task
        /\ \A j \in DOMAIN task : task'[j].st = IF j = i THEN "freed" ELSE task[j].st
        /\ "freed" # "running"
    BY <1>3, <1>4
  <2>2. /\ Cardinality(RunningOf(task)) \in Nat /\ Cardinality(RunningOf(task')) \in Nat
        /\ Cardinality(RunningOf(task')) <= Cardinality(RunningOf(task))
    BY ONLY <2>1, RunningMoves
  <2> QED
    BY <2>2
<1>8. PICK q \in Seq(Obj) : q = Append(client.objs, Result(i)) /\ Len(q) = Len(client.objs) + 1
  <2>1. PICK p \in Seq(Obj), r \in Obj : p = client.objs /\ r = Result(i)
    BY <1>4
  <2>2. Append(p, r) \in Seq(Obj) /\ Len(Append(p, r)) = Len(p) + 1
    BY AppendProperties
  <2> QED
    BY <2>1, <2>2
<1>9. CASE UNCHANGED source.cyclemon /\ client'.objs = q
  <2>1. Len(client'.objs) <= Len(client.objs) + 1
    BY <1>8, <1>9, Numbers
  <2>2. Changed(0, 0, 0, 0, -1, 0, 1, 1)
    BY <1>3, <1>5, <1>6, <1>7, <1>9, <2>1, Stays, Zenon DEF Changed
  <2> QED
    BY <1>1, <2>2, WorkFalls
<1>10. CASE source.cyclemon /\ ~source'.cyclemon /\ client'.objs = Append(q, CycleObj)
  <2>1. Len(client'.objs) <= Len(client.objs) + 2
    <3>1. Len(client'.objs) = Len(q) + 1
      BY <1>4, <1>10, Lengths
    <3> QED
      BY <1>8, <3>1, Numbers
  <2>2. Flag(source'.cyclemon) <= Flag(source.cyclemon) + (-1)
    BY <1>10, Flags
  <2>3. Changed(0, 0, 0, 0, -1, -1, 2, 1)
    BY <1>3, <1>5, <1>6, <1>7, <2>1, <2>2, Stays, Zenon DEF Changed
  <2> QED
    BY <1>1, <2>3, WorkFalls
<1> QED
  BY <1>3, <1>8, <1>9, <1>10

(* A measurement ends.                                                     *)
LEMMA TaskEndsLess == ASSUME IInv, NEW i \in DOMAIN task, Lib(TaskEnds(i)) PROVE Work' < Work
<1>1. IInv'
  BY TaskEndsKeeps
<1>2. /\ i \in Id /\ task[i].st = "running" /\ done_queue' = Append(done_queue, i)
      /\ DOMAIN task' = DOMAIN task
      /\ \A j \in DOMAIN task : task'[j].st = IF j = i THEN "done" ELSE task[j].st
      /\ UNCHANGED <<client, source, rx, tx, inst>>
  BY EndsDoes
<1>3. task \in Seq(TaskT) /\ done_queue \in Seq(Id)
  BY DEF IInv, Shapes
<1>4. Len(done_queue') <= Len(done_queue) + 1
  BY <1>2, <1>3, Lengths
<1>5. Cardinality(RunningOf(task')) <= Cardinality(RunningOf(task)) + (-1)
  <2>1. /\ task \in Seq(TaskT) /\ DOMAIN task' = DOMAIN task /\ i \in DOMAIN task
        /\ \A j \in DOMAIN task : task'[j].st = IF j = i THEN "done" ELSE task[j].st
        /\ "done" # "running" /\ task[i].st = "running"
    BY <1>2, <1>3
  <2>2. /\ Cardinality(RunningOf(task)) \in Nat
        /\ Cardinality(RunningOf(task')) = Cardinality(RunningOf(task)) - 1
    BY ONLY <2>1, RunningMoves
  <2> QED
    BY <2>2
<1>6. Little(client', tx', inst') = Little(client, tx, inst)
  BY <1>2
<1>7. Changed(0, 0, 0, -1, 1, 0, 0, 0)
  BY <1>2, <1>4, <1>5, <1>6, Stays, Zenon DEF Changed
<1> QED
  BY <1>1, <1>7, WorkFalls

(* Sums of what is to be written and the flags.                            *)
LEMMA WriteSum ==
  ASSUME NEW a \in Nat, NEW l \in Nat, NEW t \in Nat, NEW b \in Nat, NEW x \in Nat,
         NEW w \in Nat, NEW r \in Nat, NEW e \in Nat
  PROVE  /\ a + (3 * l + 3 * t + 2 * b + x + w + r + e) = (a + 3 * l + 3 * t + 2 * b + x) + w + r + e
         /\ (a + 3 * l + 3 * t + 2 * b + x) + w + r + e \in Nat
  OBVIOUS

(* Six numbers add up to a number.                                         *)
LEMMA SixNat ==
  ASSUME NEW a \in Nat, NEW b \in Nat, NEW c \in Nat, NEW d \in Nat, NEW e \in Nat, NEW f \in Nat
  PROVE  a + b + c + d + e + f \in Nat
  OBVIOUS

(* Work, with all that is to be written as one number.                     *)
LEMMA WorkWritten ==
  ASSUME NEW i \in InstT, NEW l \in Seq(Line), NEW s \in SourceT, NEW t \in Seq(TaskT),
         NEW d \in Seq(Id), NEW c \in ClientT, Writing(c), NEW x \in Seq(Answer)
  PROVE  /\ WorkOf(i, l, s, t, d, c, x)
            = Total(Len(i.queue), Len(l), Len(s.commands), Cardinality(RunningOf(t)), Len(d),
                    Flag(s.cyclemon), 0,
                    ToWrite(c, x) + Flag(c.writes) + Flag(c.reads) + Flag(~i.eof))
         /\ ToWrite(c, x) + Flag(c.writes) + Flag(c.reads) + Flag(~i.eof) \in Nat
<1>1. /\ Len(i.queue) \in Nat /\ Len(l) \in Nat /\ Len(s.commands) \in Nat
      /\ Cardinality(RunningOf(t)) \in Nat
      /\ Len(d) \in Nat /\ Flag(s.cyclemon) \in Nat /\ Len(c.objs) \in Nat
      /\ Left(c) \in Nat /\ Len(c.txt) \in Nat /\ Len(c.wb) \in Nat /\ Len(x) \in Nat
      /\ Flag(c.writes) \in Nat /\ Flag(c.reads) \in Nat /\ Flag(~i.eof) \in Nat
  <2>1. Flag(c.writes) \in Nat /\ Flag(c.reads) \in Nat /\ Flag(~i.eof) \in Nat
    BY DEF Flag
  <2> QED
    BY <2>1, CountsNat
<1>2. PICK q \in Nat, r \in Nat, k \in Nat, n \in Nat, e \in Nat, m \in Nat, o \in Nat :
        /\ q = Len(i.queue) /\ r = Len(l) /\ k = Len(s.commands) /\ n = Cardinality(RunningOf(t))
        /\ e = Len(d) /\ m = Flag(s.cyclemon) /\ o = Len(c.objs)
  BY <1>1, Zenon
<1>3. PICK b1 \in Nat, b2 \in Nat, b3 \in Nat, b4 \in Nat, b5 \in Nat, b6 \in Nat, b7 \in Nat :
        /\ b1 = Left(c) /\ b2 = Len(c.txt) /\ b3 = Len(c.wb) /\ b4 = Len(x)
        /\ b5 = Flag(c.writes) /\ b6 = Flag(c.reads) /\ b7 = Flag(~i.eof)
  BY <1>1, Zenon
<1>4. PICK a \in Nat : a = OfObject * o
  BY Weights, Times
<1>5. Little(c, x, i) = 3 * b1 + 3 * b2 + 2 * b3 + b4 + b5 + b6 + b7
  BY <1>3, Zenon DEF Little
<1>6. ToWrite(c, x) = a + 3 * b1 + 3 * b2 + 2 * b3 + b4
  BY <1>2, <1>3, <1>4, Zenon DEF ToWrite
<1>7. PICK T \in Nat : /\ T = (a + 3 * b1 + 3 * b2 + 2 * b3 + b4) + b5 + b6 + b7
                       /\ T = a + (3 * b1 + 3 * b2 + 2 * b3 + b4 + b5 + b6 + b7)
  BY WriteSum
<1>8. ToWrite(c, x) + Flag(c.writes) + Flag(c.reads) + Flag(~i.eof) = T
  BY <1>3, <1>6, <1>7, Zenon
<1>9. WorkOf(i, l, s, t, d, c, x) = Total(q, r, k, n, e, m, o, Little(c, x, i))
  BY <1>2, Zenon DEF WorkOf
<1>10. PICK L \in Nat : L = Little(c, x, i) /\ T = a + L
  BY <1>5, <1>7, CountsNat
<1>11. Total(q, r, k, n, e, m, o, L) = Total(q, r, k, n, e, m, 0, T)
  <2>1. PICK A \in Nat : A = (OfLine + 1) * q + OfLine * r + OfCommand * k + OfRunning * n
                             + OfEnding * e + OfEnding * m
    <3>1. PICK W1 \in Nat, W2 \in Nat, W3 \in Nat, W4 \in Nat, W5 \in Nat :
            W1 = OfLine + 1 /\ W2 = OfLine /\ W3 = OfCommand /\ W4 = OfRunning /\ W5 = OfEnding
      <4>1. OfLine + 1 \in Nat
        <5>1. PICK N \in Nat : N = OfLine
          BY Weights
        <5>2. N + 1 \in Nat
          OBVIOUS
        <5> QED
          BY <5>1, <5>2, Zenon
      <4> QED
        BY <4>1, Weights, Zenon
    <3>2. W1 * q \in Nat /\ W2 * r \in Nat /\ W3 * k \in Nat /\ W4 * n \in Nat /\ W5 * e \in Nat /\ W5 * m \in Nat
      BY Times, Zenon
    <3>3. W1 * q + W2 * r + W3 * k + W4 * n + W5 * e + W5 * m \in Nat
      BY ONLY <3>2, SixNat
    <3> QED
      BY <3>1, <3>3, Zenon
  <2>2. Total(q, r, k, n, e, m, o, L) = A + a + L
    BY <1>4, <2>1, Zenon DEF Total
  <2>3. OfObject * 0 = 0
    BY Weights, Times, Zenon
  <2>4. Total(q, r, k, n, e, m, 0, T) = A + 0 + T
    BY <2>1, <2>3, Zenon DEF Total
  <2>5. A + a + L = A + 0 + T
    BY <1>10
  <2> QED
    BY <2>2, <2>4, <2>5, Zenon
<1> QED
  BY <1>2, <1>8, <1>9, <1>10, <1>11, Zenon

(* Less to write is less work.                                             *)
LEMMA WorkWrites ==
  ASSUME IInv, IInv', UNCHANGED <<rx, inst>>,
         Len(source'.commands) <= Len(source.commands) + 0,
         Cardinality(RunningOf(task')) <= Cardinality(RunningOf(task)) + 0,
         Len(done_queue') <= Len(done_queue) + 0,
         Flag(source'.cyclemon) <= Flag(source.cyclemon) + 0,
         ToWrite(client', tx') + Flag(client'.writes) + Flag(client'.reads) + Flag(~inst'.eof)
         <= ToWrite(client, tx) + Flag(client.writes) + Flag(client.reads) + Flag(~inst.eof) + (-1)
  PROVE  Work' < Work
<1>1. /\ inst \in InstT /\ rx \in Seq(Line) /\ source \in SourceT /\ task \in Seq(TaskT)
      /\ done_queue \in Seq(Id) /\ client \in ClientT /\ Writing(client) /\ tx \in Seq(Answer)
  BY DEF IInv, Shapes
<1>2. /\ inst' \in InstT /\ rx' \in Seq(Line) /\ source' \in SourceT /\ task' \in Seq(TaskT)
      /\ done_queue' \in Seq(Id) /\ client' \in ClientT /\ Writing(client') /\ tx' \in Seq(Answer)
  BY DEF IInv, Shapes, Writing
<1>3. PICK s, t : /\ s = ToWrite(client, tx) + Flag(client.writes) + Flag(client.reads) + Flag(~inst.eof)
                  /\ t = ToWrite(client', tx') + Flag(client'.writes) + Flag(client'.reads) + Flag(~inst'.eof)
  OBVIOUS
<1>4. PICK a1 \in Nat, a2 \in Nat, a3 \in Nat, a4 \in Nat, a5 \in Nat, a6 \in Nat :
        /\ a1 = Len(inst.queue) /\ a2 = Len(rx) /\ a3 = Len(source.commands)
        /\ a4 = Cardinality(RunningOf(task)) /\ a5 = Len(done_queue) /\ a6 = Flag(source.cyclemon)
  BY ONLY <1>1, CountsNat
<1>5. PICK b1 \in Nat, b2 \in Nat, b3 \in Nat, b4 \in Nat, b5 \in Nat, b6 \in Nat :
        /\ b1 = Len(inst'.queue) /\ b2 = Len(rx') /\ b3 = Len(source'.commands)
        /\ b4 = Cardinality(RunningOf(task')) /\ b5 = Len(done_queue') /\ b6 = Flag(source'.cyclemon)
  BY ONLY <1>2, CountsNat
<1>6. s \in Nat /\ WorkOf(inst, rx, source, task, done_queue, client, tx) = Total(a1, a2, a3, a4, a5, a6, 0, s)
  BY ONLY <1>1, <1>3, <1>4, WorkWritten
<1>7. /\ t \in Nat
      /\ WorkOf(inst', rx', source', task', done_queue', client', tx') = Total(b1, b2, b3, b4, b5, b6, 0, t)
  BY ONLY <1>2, <1>3, <1>5, WorkWritten
<1>8. /\ b1 <= a1 + 0 /\ b2 <= a2 + 0 /\ b3 <= a3 + 0 /\ b4 <= a4 + 0
      /\ b5 <= a5 + 0 /\ b6 <= a6 + 0 /\ 0 <= 0 + 0 /\ t <= s + (-1)
  <2>1. b1 = a1 /\ b2 = a2
    BY <1>4, <1>5
  <2>2. b1 <= a1 + 0 /\ b2 <= a2 + 0 /\ 0 <= 0 + 0
    BY <2>1
  <2>3. b3 <= a3 + 0 /\ b4 <= a4 + 0 /\ b5 <= a5 + 0 /\ b6 <= a6 + 0 /\ t <= s + (-1)
    BY <1>3, <1>4, <1>5, Zenon
  <2> QED
    BY <2>2, <2>3
<1>9. Total(0, 0, 0, 0, 0, 0, 0, -1) < 0
  BY Changes
<1>10. Total(b1, b2, b3, b4, b5, b6, 0, t) < Total(a1, a2, a3, a4, a5, a6, 0, s)
  <2>1. PICK S \in Nat, T \in Nat, z \in Int, n \in Int : S = s /\ T = t /\ z = 0 /\ n = -1
    BY <1>6, <1>7
  <2>2. Total(z, z, z, z, z, z, z, n) < 0
    BY <1>9, <2>1, Zenon
  <2>3. PICK y \in Nat : y = 0
    OBVIOUS
  <2>4. /\ b1 <= a1 + z /\ b2 <= a2 + z /\ b3 <= a3 + z /\ b4 <= a4 + z
        /\ b5 <= a5 + z /\ b6 <= a6 + z /\ y <= y + z /\ T <= S + n
    BY <1>8, <2>1, <2>3
  <2>5. Total(b1, b2, b3, b4, b5, b6, y, T) < Total(a1, a2, a3, a4, a5, a6, y, S)
    BY <2>2, <2>4, TotalLess
  <2> QED
    BY <2>1, <2>3, <2>5, Zenon
<1> QED
  BY <1>6, <1>7, <1>10, WorkIs, Zenon

(* Three flags with a sum, some of it gone.                                *)
LEMMA FlagSums ==
  ASSUME NEW a \in Nat, NEW b \in Nat, NEW w \in Nat, NEW v \in Nat, NEW r \in Nat, NEW p \in Nat, NEW e \in Nat,
         \/ b <= a /\ v <= w + (-1) /\ p <= r
         \/ b < a /\ v <= w /\ p <= r
  PROVE  b + v + p + e <= a + w + r + e + (-1)
  OBVIOUS

(* client_write leaves less work: less to write, or it polls no longer.    *)
LEMMA ClientWriteLess ==
  ASSUME IInv, IInv', Lib(ClientWrite)
  PROVE  Work' < Work
<1>1. client.writes /\ UNCHANGED <<rx, inst>> /\ tx' \in Seq(Answer)
  BY WriteDoes
<1>2. PICK c \in ClientT :
        /\ Writing(c) /\ c.mode = client.mode /\ c.reads = client.reads /\ c.writes
        /\ IF Spent(c) /\ c.mode = "flush" /\ IsDone(c, source) THEN ClientFree
           ELSE /\ client' = IF Spent(c) THEN [c EXCEPT !.writes = FALSE] ELSE c
                /\ UNCHANGED <<source, task, done_queue, shut>>
        /\ ToWrite(c, tx') <= ToWrite(client, tx)
        /\ Spent(c) \/ ToWrite(c, tx') < ToWrite(client, tx)
  BY WriteDoes
<1>3. client \in ClientT /\ Writing(client) /\ tx \in Seq(Answer) /\ task \in Seq(TaskT)
  BY DEF IInv, Shapes
<1>4. client' \in ClientT /\ Writing(client')
  BY DEF IInv, Shapes, Writing
<1>5. PICK a \in Nat, b \in Nat : /\ a = ToWrite(client, tx) /\ b = ToWrite(client', tx')
  BY <1>1, <1>3, <1>4, ToWriteNat
<1>6. PICK w \in Nat, v \in Nat, r \in Nat, p \in Nat, e \in Nat :
        /\ w = Flag(client.writes) /\ v = Flag(client'.writes) /\ r = Flag(client.reads)
        /\ p = Flag(client'.reads) /\ e = Flag(~inst.eof)
  <2>1. \A x : Flag(x) \in Nat
    BY DEF Flag
  <2> QED
    BY <2>1
<1>7. w = 1
  BY <1>1, <1>6 DEF Flag
<1>8. ASSUME Spent(c)
      PROVE  c.wb = <<>> /\ c.txt = <<>> /\ c.off = 0 /\ c.objs = <<>>
  BY <1>8 DEF Spent
<1>9. CASE Spent(c) /\ c.mode = "flush" /\ IsDone(c, source)
  <2>1. ClientFree
    BY <1>2, <1>9
  <2>2. /\ client'.txt = <<>> /\ client'.wb = <<>> /\ client'.objs = <<>>
        /\ client'.off = 0 /\ ~client'.reads /\ ~client'.writes
        /\ source'.commands = <<>> /\ ~source'.cyclemon
        /\ task' = Gone(task) /\ done_queue' = <<>>
    BY <2>1, FreeDoes
  <2>3. /\ Left(client') = Left(c) /\ client'.txt = c.txt /\ client'.wb = c.wb /\ client'.objs = c.objs
    BY <1>8, <1>9, <2>2 DEF Left
  <2>4. b = ToWrite(c, tx')
    <3>1. ToWrite(client', tx')
          = OfObject * Len(client'.objs) + 3 * Left(client') + 3 * Len(client'.txt) + 2 * Len(client'.wb) + Len(tx')
      BY Zenon DEF ToWrite
    <3>2. ToWrite(c, tx') = OfObject * Len(c.objs) + 3 * Left(c) + 3 * Len(c.txt) + 2 * Len(c.wb) + Len(tx')
      BY Zenon DEF ToWrite
    <3> QED
      BY <1>5, <2>3, <3>1, <3>2, Zenon
  <2>5. v = 0 /\ p = 0
    BY <1>6, <2>2 DEF Flag
  <2>6. b <= a /\ v <= w + (-1) /\ p <= r
    BY <1>2, <1>5, <1>7, <2>4, <2>5
  <2>7. b + v + p + e <= a + w + r + e + (-1)
    BY ONLY <2>6, FlagSums, a \in Nat, b \in Nat, w \in Nat, v \in Nat, r \in Nat, p \in Nat, e \in Nat
  <2>8. ToWrite(client', tx') + Flag(client'.writes) + Flag(client'.reads) + Flag(~inst'.eof)
        <= ToWrite(client, tx) + Flag(client.writes) + Flag(client.reads) + Flag(~inst.eof) + (-1)
    <3>1. inst'.eof = inst.eof
      BY <1>1
    <3> QED
      BY <1>5, <1>6, <2>7, <3>1, Zenon
  <2>9. Cardinality(RunningOf(task')) <= Cardinality(RunningOf(task)) + 0
    <3>1. DOMAIN task' = DOMAIN task /\ \A i \in DOMAIN task : task'[i].st = "freed"
      BY <1>3, <2>2, GoneFields
    <3>2. RunningOf(task') = {}
      BY <3>1 DEF RunningOf
    <3>3. Cardinality({}) = 0
      BY FS_EmptySet
    <3> QED
      BY <3>2, <3>3, Numbers
  <2>10. Len(<<>>) = 0
    OBVIOUS
  <2>11. /\ Len(source'.commands) <= Len(source.commands) + 0 /\ Len(done_queue') <= Len(done_queue) + 0
    BY <2>2, <2>10, Numbers
  <2>12. Flag(source'.cyclemon) <= Flag(source.cyclemon) + 0
    BY <2>2, Flags
  <2> QED
    BY <1>1, <2>8, <2>9, <2>11, <2>12, WorkWrites
<1>10. CASE ~(Spent(c) /\ c.mode = "flush" /\ IsDone(c, source))
  <2>1. /\ client' = IF Spent(c) THEN [c EXCEPT !.writes = FALSE] ELSE c
        /\ UNCHANGED <<source, task, done_queue, shut>>
    BY <1>2, <1>10
  <2>2. /\ client'.reads = c.reads /\ client'.objs = c.objs /\ client'.txt = c.txt /\ client'.wb = c.wb
        /\ client'.off = c.off /\ client'.obj = c.obj
        /\ IF Spent(c) THEN ~client'.writes ELSE client'.writes
    <3>1. CASE Spent(c)
      <4>1. client' = [c EXCEPT !.writes = FALSE]
        BY <2>1, <3>1
      <4> QED
        BY <3>1, <4>1 DEF ClientT
    <3>2. CASE ~Spent(c)
      <4>1. client' = c
        BY <2>1, <3>2
      <4> QED
        BY <1>2, <3>2, <4>1
    <3> QED
      BY <3>1, <3>2
  <2>3. b = ToWrite(c, tx')
    <3>1. Left(client') = Left(c)
      BY <2>2 DEF Left
    <3>2. ToWrite(client', tx')
          = OfObject * Len(client'.objs) + 3 * Left(client') + 3 * Len(client'.txt) + 2 * Len(client'.wb) + Len(tx')
      BY Zenon DEF ToWrite
    <3>3. ToWrite(c, tx') = OfObject * Len(c.objs) + 3 * Left(c) + 3 * Len(c.txt) + 2 * Len(c.wb) + Len(tx')
      BY Zenon DEF ToWrite
    <3> QED
      BY <1>5, <2>2, <3>1, <3>2, <3>3, Zenon
  <2>4. p = r
    BY <1>2, <1>6, <2>2
  <2>5. \/ b <= a /\ v <= w + (-1) /\ p <= r
        \/ b < a /\ v <= w /\ p <= r
    <3>1. CASE Spent(c)
      <4>1. v = 0
        BY <1>6, <2>2, <3>1 DEF Flag
      <4>2. b <= a
        BY <1>2, <1>5, <2>3
      <4> QED
        BY <1>7, <2>4, <4>1, <4>2
    <3>2. CASE ~Spent(c)
      <4>1. v = 1
        BY <1>6, <2>2, <3>2 DEF Flag
      <4>2. b < a
        BY <1>2, <1>5, <2>3, <3>2
      <4> QED
        BY <1>7, <2>4, <4>1, <4>2
    <3> QED
      BY <3>1, <3>2
  <2>6. b + v + p + e <= a + w + r + e + (-1)
    BY ONLY <2>5, FlagSums, a \in Nat, b \in Nat, w \in Nat, v \in Nat, r \in Nat, p \in Nat, e \in Nat
  <2>7. ToWrite(client', tx') + Flag(client'.writes) + Flag(client'.reads) + Flag(~inst'.eof)
        <= ToWrite(client, tx) + Flag(client.writes) + Flag(client.reads) + Flag(~inst.eof) + (-1)
    <3>1. inst'.eof = inst.eof
      BY <1>1
    <3> QED
      BY <1>5, <1>6, <2>6, <3>1, Zenon
  <2>8. /\ Len(source'.commands) <= Len(source.commands) + 0
        /\ Cardinality(RunningOf(task')) <= Cardinality(RunningOf(task)) + 0
        /\ Len(done_queue') <= Len(done_queue) + 0
        /\ Flag(source'.cyclemon) <= Flag(source.cyclemon) + 0
    BY <2>1, Stays
  <2> QED
    BY <1>1, <2>7, <2>8, WorkWrites
<1> QED
  BY <1>9, <1>10

-----------------------------------------------------------------------------
(* A step of the library or of scamper leaves less work, or ends it.       *)
LEMMA WorkStep == ASSUME IInv, Library \/ Lib(Daemon) PROVE Work' < Work \/ fault' # fault
<1>1. CASE Library
  <2>1. Alive /\ FdSendNothing => fault' # fault
    BY FdSendNothingDoes DEF Alive
  <2> QED
    BY <1>1, <2>1, FdSendLess, InstReadLess, InstEofLess DEF Library, FdWrite
<1>2. CASE Lib(Daemon)
  <2>1. \/ Lib(ClientRead) \/ Lib(ClientEof) \/ Lib(ClientWrite) \/ Lib(ClientWriteFails)
        \/ Lib(GetTask) \/ Lib(ProcessDone) \/ \E i \in DOMAIN task : Lib(TaskEnds(i))
    BY <1>2, Zenon DEF Lib, Daemon
  <2>2. Lib(ClientWrite) => IInv'
    BY ClientWriteKeeps
  <2>3. Lib(ClientWrite) => Work' < Work
    BY <2>2, ClientWriteLess
  <2>4. (\E i \in DOMAIN task : Lib(TaskEnds(i))) => Work' < Work
    BY TaskEndsLess
  <2> QED
    BY <2>1, <2>3, <2>4, ClientReadLess, ClientEofLess, WriteFailsLess, GetTaskLess, ProcessDoneLess
<1> QED
  BY <1>1, <1>2

(* Every step of the library and of scamper leaves less work, or ends the  *)
(* program, for any tasks and pieces: between two calls of the program     *)
(* there are only so many.  By WorkStep none of them changes nothing: poll *)
(* does not return for nothing.                                            *)
THEOREM WorkRunsOutHolds == Spec => WorkRunsOut
<1>1. IInv /\ [Next]_vars => [Library \/ Lib(Daemon) => Work' < Work \/ fault' # fault]_vars
  BY WorkStep
<1> QED
  BY <1>1, InvariantHolds, PTL DEF Spec, WorkRunsOut

-----------------------------------------------------------------------------
(* The client polls for writing while something is to be written, and for  *)
(* reading until it has read the end; one that is flushed has nothing else *)
(* left, and client_write will free it.                                    *)
Polled ==
  client.mode # "freed" =>
    /\ client.txt # <<>> \/ client.wb # <<>> \/ client.objs # <<>> \/ client.off > 0 => client.writes
    /\ ~client.reads => client.mode = "flush" /\ "client" \in shut /\ client.writes
    /\ client.mode = "flush" /\ "client" \notin shut
       => client.writes /\ source.tasks = {} /\ source.commands = <<>>
    /\ client.mode = "attached" => source.open /\ source.cyclemon

(* A task that is not running is in a list that the main loop looks at.    *)
Listed ==
  \A i \in DOMAIN task : /\ task[i].st = "queued" => In(i, source.commands)
                         /\ task[i].st = "done" => In(i, done_queue)

(* The first line attaches, and no other does.                             *)
First ==
  /\ client.mode # "freed" =>
       /\ Lead(Attach, rx) /\ (In(Attach, rx) <=> client.mode = "interactive" /\ rx # <<>>)
       /\ client.mode = "interactive" => source.tasks = {} /\ source.commands = <<>>
  /\ "client" \notin shut =>
       /\ Lead(Attach, inst.queue)
       /\ In(Attach, inst.queue) <=> client.mode = "interactive" /\ rx = <<>>

(* "done" is on its way, or has finished the source, and a source that is  *)
(* finished and still attached has something left.                         *)
Finishes ==
  "client" \notin shut =>
    /\ inst.done => In(Done, inst.queue) \/ In(Done, rx) \/ source.finished
    /\ client.mode = "attached" /\ source.finished => source.tasks # {} \/ source.commands # <<>>

(* Until its cycle is taken a source has not asked for more, so that a     *)
(* program that waits for that has not said "done".                        *)
Unasked ==
  "client" \notin shut =>
    /\ Lead(Cycle, source.commands)
    /\ client.mode = "interactive" \/ In(Cycle, source.commands)
       => /\ ~inst.asked /\ ~inst.done
          /\ ~Has(client.txt, "MORE") /\ ~Has(client.wb, "MORE") /\ ~Has(tx, "MORE")

(* The strengthening of NeverStuck.                                        *)
WakeInv == Polled /\ Listed /\ First /\ Finishes /\ Unasked

(* The program adds to its queue, and takes back what it added.            *)
LEMMA ProgramDoes ==
  ASSUME IInv, Program
  PROVE  /\ UNCHANGED <<client, source, task, done_queue, rx, tx, shut, inst.asked>>
         /\ "client" \notin shut
         /\ Lead(Attach, inst.queue) => Lead(Attach, inst'.queue)
         /\ In(Attach, inst'.queue) <=> In(Attach, inst.queue)
         /\ In(Done, inst.queue) => In(Done, inst'.queue)
         /\ \/ inst'.done = inst.done
            \/ In(Done, inst'.queue) /\ (Patient => inst.asked)
<1>1. /\ UNCHANGED <<client, source, task, done_queue, rx, tx, shut>> /\ "client" \notin shut
      /\ InstDone \/ \E t \in Task : InstDo(t) \/ TaskHalt(t)
  BY DEF Program, Alive, daemon
<1>2. inst \in InstT /\ inst.queue \in Seq(Line) /\ mine \in [Task -> MineT]
  BY DEF IInv, Shapes, InstT
<1>3. PICK q \in Seq(Line) : q = inst.queue
  BY <1>2
<1>4. ASSUME NEW x \in Line, x # Attach
      PROVE  /\ Lead(Attach, q) => Lead(Attach, Append(q, x))
             /\ In(Attach, Append(q, x)) <=> In(Attach, q)
             /\ In(Done, q) => In(Done, Append(q, x))
             /\ x = Done => In(Done, Append(q, x))
  BY <1>4, LeadKept, MoreIn
<1>5. CASE InstDone
  <2>1. inst'.queue = Append(q, Done) /\ inst'.done /\ inst'.asked = inst.asked /\ (Patient => inst.asked)
    BY <1>2, <1>3, <1>5 DEF InstDone, InstT
  <2>2. Done \in Line /\ Done # Attach
    BY LineHas
  <2> QED
    BY <1>1, <1>3, <1>4, <2>1, <2>2
<1>6. ASSUME NEW t \in Task, InstDo(t)
      PROVE  /\ inst'.asked = inst.asked /\ inst'.done = inst.done
             /\ Lead(Attach, inst.queue) => Lead(Attach, inst'.queue)
             /\ In(Attach, inst'.queue) <=> In(Attach, inst.queue)
             /\ In(Done, inst.queue) => In(Done, inst'.queue)
  <2>1. inst'.queue = Append(q, Do(t)) /\ inst'.done = inst.done /\ inst'.asked = inst.asked
    BY <1>2, <1>3, <1>6 DEF InstDo, InstT
  <2>2. Do(t) \in Line /\ Do(t) # Attach
    BY LineHas
  <2> QED
    BY <1>3, <1>4, <2>1, <2>2
<1>7. ASSUME NEW t \in Task, TaskHalt(t)
      PROVE  /\ inst'.asked = inst.asked /\ inst'.done = inst.done
             /\ Lead(Attach, inst.queue) => Lead(Attach, inst'.queue)
             /\ In(Attach, inst'.queue) <=> In(Attach, inst.queue)
             /\ In(Done, inst.queue) => In(Done, inst'.queue)
  <2>1. \/ inst' = [inst EXCEPT !.queue = Without(@, Do(t))]
        \/ inst' = inst
        \/ mine[t].st = "gotid" /\ inst' = [inst EXCEPT !.queue = Append(@, Halt(t, mine[t].id))]
    BY <1>7 DEF TaskHalt
  <2>2. CASE inst' = [inst EXCEPT !.queue = Without(@, Do(t))]
    <3>1. inst'.queue = Without(q, Do(t)) /\ inst'.done = inst.done /\ inst'.asked = inst.asked
      BY <1>2, <1>3, <2>2 DEF InstT
    <3>2. Do(t).k = "task" /\ Do(t) # Attach /\ Do(t) # Done
      BY LineHas
    <3>3. \A i, j \in DOMAIN q : q[i] = Do(t) /\ q[j] = Do(t) => i = j
      <4>1. Once(q)
        BY <1>3 DEF IInv, Asked
      <4> QED
        BY <3>2, <4>1 DEF Once
    <3>4. \A y : In(y, Without(q, Do(t))) <=> In(y, q) /\ y # Do(t)
      BY <3>3, WithoutIn
    <3>5. Lead(Attach, q) => Lead(Attach, Without(q, Do(t)))
      BY <3>2, <3>3, LeadKept
    <3> QED
      BY <1>3, <3>1, <3>2, <3>4, <3>5
  <2>3. CASE mine[t].st = "gotid" /\ inst' = [inst EXCEPT !.queue = Append(@, Halt(t, mine[t].id))]
    <3>1. PICK i : i = mine[t].id
      OBVIOUS
    <3>2. i \in Id
      <4>1. i # 0
        BY <2>3, <3>1 DEF IInv, Filed
      <4> QED
        BY <1>2, <3>1, <4>1 DEF MineT
    <3>3. inst'.queue = Append(q, Halt(t, i)) /\ inst'.done = inst.done /\ inst'.asked = inst.asked
      BY <1>2, <1>3, <2>3, <3>1 DEF InstT
    <3>4. Halt(t, i) \in Line /\ Halt(t, i) # Attach
      BY <3>2, LineHas
    <3> QED
      BY <1>3, <1>4, <3>3, <3>4
  <2> QED
    BY <2>1, <2>2, <2>3
<1> QED
  BY <1>1, <1>5, <1>6, <1>7

(* What the end of the file is to the library.                             *)
LEMMA EofMoves ==
  ASSUME IInv, InstEof
  PROVE  UNCHANGED <<client, source, task, done_queue, rx, tx, shut, inst.queue, inst.done, inst.asked>>
<1>1. inst \in InstT
  BY DEF IInv, Shapes
<1> QED
  BY <1>1 DEF InstEof, InstT, daemon

(* What client_read does with a line.                                      *)
LEMMA ReadDoes ==
  ASSUME IInv, Lib(ClientRead)
  PROVE  /\ client.reads /\ client.mode # "freed"
         /\ \/ client.mode = "interactive" /\ Head(rx) = Attach /\ CommandAttach
            \/ client.mode = "attached" /\ Head(rx) # Done /\ Head(rx).k = "task" /\ \E id : Makes(id)
            \/ /\ client.mode = "attached" /\ Head(rx) # Done
               /\ client' = Say(client, Err) /\ UNCHANGED <<source, task, done_queue>>
            \/ client.mode = "attached" /\ Head(rx) # Done /\ \E id \in source.tasks : HaltTask(id)
            \/ client.mode = "attached" /\ Head(rx) = Done /\ CommandDone
            \/ client.mode = "flush" /\ UNCHANGED <<client, source, task, done_queue>>
<1>1. PICK x : x = Head(rx)
  OBVIOUS
<1>2. \/ client.mode = "interactive" /\ x = Attach /\ CommandAttach
      \/ client.mode = "attached" /\ x.k = "task" /\ Command2(x.task)
      \/ client.mode = "attached" /\ x.k = "halt" /\ HaltTask(x.id)
      \/ client.mode = "attached" /\ x = Done /\ CommandDone
      \/ client.mode = "flush" /\ UNCHANGED daemon
  BY <1>1, Zenon DEF Lib, ClientRead, ClientReadLine
<1>3. Done.k = "done"
  BY LineHas
<1>4. client.reads
  BY DEF Lib, ClientRead
<1>5. client.mode # "freed"
  BY ReadBase
<1>6. CASE client.mode = "attached" /\ x.k = "task" /\ Command2(x.task)
  <2>1. \/ Makes(Len(task) + 1)
        \/ client' = Say(client, Err) /\ UNCHANGED <<source, task, done_queue>>
    BY <1>1, <1>6 DEF Command2, Makes
  <2>2. x # Done
    BY <1>3, <1>6
  <2> QED
    BY <1>1, <1>4, <1>5, <1>6, <2>1, <2>2
<1>7. CASE client.mode = "attached" /\ x.k = "halt" /\ HaltTask(x.id)
  <2>1. x # Done
    BY <1>3, <1>7
  <2>2. x.id \notin source.tasks => client' = Say(client, Err) /\ UNCHANGED <<source, task, done_queue>>
    BY <1>7 DEF HaltTask
  <2> QED
    BY <1>1, <1>4, <1>5, <1>7, <2>1, <2>2
<1> QED
  BY <1>1, <1>2, <1>4, <1>5, <1>6, <1>7 DEF daemon

-----------------------------------------------------------------------------
(* Polled is kept by what leaves the client and its source alone.          *)
LEMMA PolledKept ==
  ASSUME Polled, UNCHANGED <<client, source>>, "client" \in shut => "client" \in shut'
  PROVE  Polled'
  BY DEF Polled

(* A line that is answered wakes the client.                               *)
LEMMA ReadPolled == ASSUME IInv, WakeInv, Lib(ClientRead) PROVE Polled'
<1>1. UNCHANGED <<tx, shut, inst>> /\ client.mode # "freed" /\ client.reads
  BY ReadBase, ReadDoes
<1>2. /\ client.mode = "attached" => source.open /\ source.cyclemon
      /\ Polled
  BY <1>1 DEF WakeInv, Polled
<1>3. CASE CommandAttach
  BY <1>1, <1>3, AttachDoes DEF Polled
<1>4. ASSUME NEW id, client.mode = "attached", Head(rx).k = "task", Makes(id) PROVE Polled'
  <2>1. /\ client'.writes /\ UNCHANGED <<client.mode, client.reads, source.open, source.cyclemon>>
    BY <1>4, MadeDoes
  <2> QED
    BY <1>1, <1>2, <1>4, <2>1 DEF Polled
<1>5. CASE /\ client.mode = "attached" /\ client' = Say(client, Err)
           /\ UNCHANGED <<source, task, done_queue>>
  <2>1. client'.writes /\ UNCHANGED <<client.mode, client.reads>>
    BY <1>5, RefusedDoes
  <2> QED
    BY <1>1, <1>2, <1>5, <2>1 DEF Polled
<1>6. ASSUME client.mode = "attached", NEW id \in source.tasks, HaltTask(id) PROVE Polled'
  <2>1. client'.writes /\ UNCHANGED <<client.mode, client.reads, source.open, source.cyclemon>>
    BY <1>6, HaltedDoes
  <2> QED
    BY <1>1, <1>2, <1>6, <2>1 DEF Polled
<1>7. CASE client.mode = "attached" /\ CommandDone
  <2>1. /\ client'.writes
        /\ UNCHANGED <<client.reads, source.open, source.commands, source.tasks>>
        /\ \/ UNCHANGED <<client.mode, source.cyclemon>>
           \/ client'.mode = "flush" /\ source.commands = <<>> /\ source.tasks = {}
    BY <1>7, DoneDoes
  <2> QED
    BY <1>1, <1>2, <1>7, <2>1 DEF Polled
<1>8. CASE UNCHANGED <<client, source, task, done_queue>>
  BY <1>1, <1>2, <1>8, PolledKept
<1> QED
  BY <1>3, <1>4, <1>5, <1>6, <1>7, <1>8, ReadDoes

(* At the end of file a client that is not freed has something to write.   *)
LEMMA EofPolled == ASSUME IInv, WakeInv, Lib(ClientEof) PROVE Polled'
<1>1. CASE ClientFree
  BY <1>1, FreeDoes DEF Polled
<1>2. ASSUME client'.mode = "flush", ~client'.reads, client'.writes, "client" \in shut, UNCHANGED shut
      PROVE  Polled'
  BY <1>2 DEF Polled
<1>3. client.reads /\ "client" \in shut
  BY EofDoes
<1>4. client.mode # "freed" /\ Writing(client)
  BY <1>3 DEF IInv, Shapes, Freed
<1>5. ASSUME client.wb # <<>> \/ client.obj # NoObj \/ client.objs # <<>> PROVE client.writes
  <2>1. client.txt # <<>> \/ client.wb # <<>> \/ client.objs # <<>> \/ client.off > 0 => client.writes
    BY <1>4 DEF WakeInv, Polled
  <2>2. client.obj # NoObj => client.off > 0
    BY <1>4 DEF Writing
  <2> QED
    BY <1>5, <2>1, <2>2
<1>6. CASE /\ client'.mode = "flush" /\ ~client'.reads /\ UNCHANGED shut
           /\ \/ /\ client'.writes = client.writes
                 /\ client.wb # <<>> \/ client.obj # NoObj \/ client.objs # <<>>
              \/ client'.writes
  BY <1>2, <1>3, <1>5, <1>6
<1> QED
  BY <1>1, <1>6, EofDoes

(* client_write stops polling when nothing is left, and frees a client     *)
(* that is flushed.                                                        *)
LEMMA WritePolled == ASSUME IInv, WakeInv, Lib(ClientWrite) PROVE Polled'
<1>1. "client" \notin shut /\ client.writes
  BY WriteDoes
<1>2. client.mode # "freed" /\ Polled
  BY <1>1 DEF IInv, Freed, WakeInv
<1>3. PICK c \in ClientT :
        /\ Writing(c) /\ c.mode = client.mode /\ c.reads = client.reads /\ c.writes
        /\ IF Spent(c) /\ c.mode = "flush" /\ IsDone(c, source) THEN ClientFree
           ELSE /\ client' = IF Spent(c) THEN [c EXCEPT !.writes = FALSE] ELSE c
                /\ UNCHANGED <<source, task, done_queue, shut>>
  BY WriteDoes
<1>4. client.reads
  BY <1>1, <1>2 DEF Polled
<1>5. CASE ClientFree
  BY <1>5, FreeDoes DEF Polled
<1>6. CASE ~(Spent(c) /\ c.mode = "flush" /\ IsDone(c, source))
  <2>1. /\ client' = IF Spent(c) THEN [c EXCEPT !.writes = FALSE] ELSE c
        /\ UNCHANGED <<source, shut>>
    BY <1>3, <1>6
  <2>2. CASE ~Spent(c)
    <3>1. client' = c
      BY <2>1, <2>2
    <3>2. client'.writes /\ client'.mode = client.mode /\ client'.reads
      BY <1>3, <1>4, <3>1
    <3> QED
      BY <1>2, <2>1, <3>2 DEF Polled
  <2>3. CASE Spent(c)
    <3>1. client' = [c EXCEPT !.writes = FALSE]
      BY <2>1, <2>3
    <3>2. /\ client'.mode = client.mode /\ client'.reads /\ client'.txt = <<>> /\ client'.wb = <<>>
          /\ client'.objs = <<>> /\ client'.off = 0
      <4>1. c.txt = <<>> /\ c.wb = <<>> /\ c.objs = <<>> /\ c.off = 0
        BY <2>3 DEF Spent
      <4> QED
        BY <1>3, <1>4, <3>1, <4>1 DEF ClientT
    <3>3. client.mode # "flush"
      <4> SUFFICES ASSUME client.mode = "flush" PROVE FALSE
        OBVIOUS
      <4>1. source.tasks = {} /\ source.commands = <<>>
        BY <1>1, <1>2 DEF Polled
      <4>2. source.finished
        BY <1>1 DEF IInv, Ends
      <4>3. c.wb = <<>> /\ c.objs = <<>> /\ c.obj = NoObj
        BY <1>3, <2>3 DEF Spent, Writing
      <4>4. IsDone(c, source)
        BY <4>1, <4>2, <4>3 DEF IsDone, IsFinished
      <4> QED
        BY <1>3, <1>6, <2>3, <4>4
    <3> QED
      BY <1>2, <2>1, <3>2, <3>3 DEF Polled
  <2> QED
    BY <2>2, <2>3
<1> QED
  BY <1>3, <1>5, <1>6

(* A command is taken, and its client woken when it is answered.           *)
LEMMA GetPolled == ASSUME IInv, WakeInv, Lib(GetTask) PROVE Polled'
<1>1. /\ source.commands # <<>> /\ UNCHANGED <<source.open, source.cyclemon, shut>>
      /\ UNCHANGED <<client.mode, client.off, client.wb, client.reads>>
      /\ client.writes => client'.writes
      /\ client'.txt = client.txt \/ client'.writes
      /\ client'.objs = client.objs \/ client'.writes
      /\ client'.writes = client.writes \/ client'.writes
  BY GetDoes
<1> QED
  BY <1>1 DEF WakeInv, Polled

(* A result is written by a client that is woken.                          *)
LEMMA DonePolled == ASSUME IInv, WakeInv, Lib(ProcessDone) PROVE Polled'
<1>1. /\ client'.writes /\ UNCHANGED <<client.reads, source.open, source.commands, shut>>
      /\ source.tasks # {}
      /\ \/ UNCHANGED <<client.mode, source.cyclemon>>
         \/ client'.mode = "flush" /\ source.commands = <<>> /\ source'.tasks = {}
  BY DoneWritten
<1>2. client.mode # "freed"
  BY <1>1 DEF IInv, Freed
<1> QED
  BY <1>1, <1>2 DEF WakeInv, Polled

(* No step leaves a client that waits for what it does not poll for.       *)
LEMMA PolledStep == ASSUME IInv, WakeInv, [Next]_vars PROVE Polled'
<1>1. Polled
  BY DEF WakeInv
<1>2. CASE Program
  BY <1>1, <1>2, ProgramDoes, PolledKept
<1>3. CASE InstFree
  <2>1. UNCHANGED <<client, source>> /\ shut' = shut \cup {"client"}
    BY <1>3 DEF InstFree, daemon
  <2> QED
    BY <1>1, <2>1, PolledKept
<1>4. CASE Library
  BY <1>1, <1>4, FdSendDoes, FdSendNothingDoes, InstReadDoes, EofMoves, PolledKept DEF Library, FdWrite
<1>5. CASE Lib(Daemon)
  <2>1. \/ Lib(ClientRead) \/ Lib(ClientEof) \/ Lib(ClientWrite) \/ Lib(ClientWriteFails)
        \/ Lib(GetTask) \/ Lib(ProcessDone) \/ \E i \in DOMAIN task : Lib(TaskEnds(i))
    BY <1>5, Zenon DEF Lib, Daemon
  <2>2. CASE Lib(ClientWriteFails)
    <3>1. ClientFree
      BY <2>2 DEF Lib, ClientWriteFails
    <3> QED
      BY <3>1, FreeDoes DEF Polled
  <2>3. ASSUME NEW i \in DOMAIN task, Lib(TaskEnds(i)) PROVE Polled'
    BY <1>1, <2>3, EndsDoes, PolledKept
  <2> QED
    BY <2>1, <2>2, <2>3, ReadPolled, EofPolled, WritePolled, GetPolled, DonePolled
<1>6. CASE UNCHANGED vars
  BY <1>1, <1>6, PolledKept DEF vars, daemon
<1> QED
  BY <1>2, <1>3, <1>4, <1>5, <1>6 DEF Next

(* Listed is kept by what leaves the tasks and the lists alone.            *)
LEMMA ListedKept ==
  ASSUME Listed, UNCHANGED <<source.commands, task, done_queue>>
  PROVE  Listed'
  BY DEF Listed, In

(* Listed of tasks that have gone.                                         *)
LEMMA ListedGone == ASSUME IInv, task' = Gone(task) PROVE Listed'
<1>1. task \in Seq(TaskT)
  BY DEF IInv, Shapes
<1>2. DOMAIN task' = DOMAIN task /\ \A i \in DOMAIN task : task'[i].st = "freed"
  BY <1>1, GoneFields
<1> QED
  BY <1>2 DEF Listed

(* Listed, from the lists that a step leaves.                              *)
LEMMA ListedNext ==
  ASSUME \A i \in DOMAIN task' : /\ task'[i].st = "queued" => In(i, source'.commands)
                                 /\ task'[i].st = "done" => In(i, done_queue')
  PROVE  Listed'
  BY DEF Listed, In

(* The ids of tasks are ids, and none of them is that of the cycle.        *)
LEMMA TaskIds ==
  ASSUME IInv
  PROVE  DOMAIN task \subseteq Id /\ Cycle \notin Id
<1>1. task \in Seq(TaskT) /\ \A i, j \in DOMAIN task : task[i].of = task[j].of => i = j
  BY DEF IInv, Shapes, Tasked
<1> QED
  BY <1>1, TasksBound, ObjCases DEF Cycle

(* A command is put in the list of commands, a halted task in the list of  *)
(* what is done.                                                           *)
LEMMA ReadListed == ASSUME IInv, WakeInv, Lib(ClientRead) PROVE Listed'
<1>1. Listed /\ client.mode # "freed"
  BY ReadDoes DEF WakeInv
<1>2. source.commands \in Seq(Id \cup {Cycle})
  BY DEF IInv, Shapes, SourceT
<1>3. CASE client.mode = "interactive" /\ CommandAttach
  <2>1. source.commands = <<>>
    BY <1>3 DEF WakeInv, First
  <2>2. \A i \in DOMAIN task : task[i].st # "queued"
    BY <1>1, <2>1, EmptyHas DEF Listed
  <2>3. UNCHANGED <<task, done_queue>>
    BY <1>3, AttachDoes
  <2> QED
    BY <1>1, <2>2, <2>3 DEF Listed, In
<1>4. ASSUME NEW id, client.mode = "attached", Head(rx).k = "task", Makes(id) PROVE Listed'
  <2>1. /\ id \in Id /\ source'.commands = Append(source.commands, id) /\ UNCHANGED done_queue
        /\ DOMAIN task' = DOMAIN task \cup {id}
        /\ task'[id].st = "queued" /\ \A i \in DOMAIN task : task'[i] = task[i]
    BY <1>4, MadeDoes
  <2>2. \A x : In(x, source'.commands) <=> In(x, source.commands) \/ x = id
    <3>1. id \in Id \cup {Cycle}
      BY <2>1
    <3>2. PICK cs \in Seq(Id \cup {Cycle}) : cs = source.commands
      BY <1>2
    <3>3. \A x : In(x, Append(cs, id)) <=> In(x, cs) \/ x = id
      BY <3>1, MoreIn
    <3> QED
      BY <2>1, <3>2, <3>3
  <2>3. \A i \in DOMAIN task' : /\ task'[i].st = "queued" => In(i, source'.commands)
                                /\ task'[i].st = "done" => In(i, done_queue')
    BY <1>1, <2>1, <2>2 DEF Listed
  <2> QED
    BY <2>3, ListedNext
<1>5. CASE UNCHANGED <<source, task, done_queue>>
  BY <1>1, <1>5, ListedKept
<1>6. ASSUME NEW id \in source.tasks, HaltTask(id) PROVE Listed'
  <2>1. /\ \A x : In(x, source'.commands) <=> In(x, source.commands) /\ x # id
        /\ \A x : In(x, done_queue') <=> In(x, done_queue) \/ x = id
        /\ DOMAIN task' = DOMAIN task
        /\ \A j \in DOMAIN task : task'[j].st = IF j = id THEN "done" ELSE task[j].st
    BY <1>6, HaltedDoes
  <2>2. \A i \in DOMAIN task' : /\ task'[i].st = "queued" => In(i, source'.commands)
                                /\ task'[i].st = "done" => In(i, done_queue')
    BY <1>1, <2>1 DEF Listed
  <2> QED
    BY <2>2, ListedNext
<1>7. CASE client.mode = "attached" /\ CommandDone
  <2>1. UNCHANGED <<source.commands, task, done_queue>>
    BY <1>7, DoneDoes
  <2> QED
    BY <1>1, <2>1, ListedKept
<1> QED
  BY <1>3, <1>4, <1>5, <1>6, <1>7, ReadDoes

(* The task that leaves the list of commands runs.                         *)
LEMMA GetListed == ASSUME IInv, WakeInv, Lib(GetTask) PROVE Listed'
<1>1. PICK cs \in Seq(Id \cup {Cycle}) : cs = source.commands
  BY DEF IInv, Shapes, SourceT
<1>2. PICK h : h = Head(cs)
  OBVIOUS
<1>3. /\ cs # <<>> /\ source'.commands = Tail(cs) /\ UNCHANGED done_queue
      /\ \/ h = Cycle /\ UNCHANGED task
         \/ /\ DOMAIN task' = DOMAIN task
            /\ \A j \in DOMAIN task : task'[j].st = IF j = h THEN "running" ELSE task[j].st
  BY <1>1, <1>2, GetDoes
<1>4. \A x : In(x, cs) <=> x = h \/ In(x, Tail(cs))
  BY <1>2, <1>3, TailWithin
<1>5. \A i \in DOMAIN task : /\ task[i].st = "queued" => In(i, cs)
                             /\ task[i].st = "done" => In(i, done_queue)
  BY <1>1 DEF WakeInv, Listed
<1>6. \A i \in DOMAIN task' : /\ task'[i].st = "queued" => In(i, source'.commands)
                              /\ task'[i].st = "done" => In(i, done_queue')
  <2>1. CASE h = Cycle /\ UNCHANGED task
    BY <1>3, <1>4, <1>5, <2>1, TaskIds
  <2>2. CASE /\ DOMAIN task' = DOMAIN task
             /\ \A j \in DOMAIN task : task'[j].st = IF j = h THEN "running" ELSE task[j].st
    BY <1>3, <1>4, <1>5, <2>2
  <2> QED
    BY <1>3, <2>1, <2>2
<1> QED
  BY <1>6, ListedNext

(* The task whose result is written is freed.                              *)
LEMMA DoneListed == ASSUME IInv, WakeInv, Lib(ProcessDone) PROVE Listed'
<1>1. PICK q \in Seq(Id) : q = done_queue
  BY DEF IInv, Shapes
<1>2. PICK h : h = Head(q)
  OBVIOUS
<1>3. /\ q # <<>> /\ done_queue' = Tail(q) /\ UNCHANGED source.commands
      /\ DOMAIN task' = DOMAIN task
      /\ \A j \in DOMAIN task : task'[j].st = IF j = h THEN "freed" ELSE task[j].st
  BY <1>1, <1>2, DoneWritten
<1>4. \A x : In(x, q) <=> x = h \/ In(x, Tail(q))
  BY <1>2, <1>3, TailWithin
<1>5. \A i \in DOMAIN task' : /\ task'[i].st = "queued" => In(i, source'.commands)
                              /\ task'[i].st = "done" => In(i, done_queue')
  BY <1>1, <1>3, <1>4 DEF WakeInv, Listed
<1> QED
  BY <1>5, ListedNext

(* A task that ends is done.                                               *)
LEMMA EndsListed == ASSUME IInv, WakeInv, NEW i \in DOMAIN task, Lib(TaskEnds(i)) PROVE Listed'
<1>1. PICK q \in Seq(Id) : q = done_queue
  BY DEF IInv, Shapes
<1>2. /\ i \in Id /\ done_queue' = Append(q, i) /\ UNCHANGED source
      /\ DOMAIN task' = DOMAIN task
      /\ \A j \in DOMAIN task : task'[j].st = IF j = i THEN "done" ELSE task[j].st
  BY <1>1, EndsDoes
<1>3. \A x : In(x, Append(q, i)) <=> In(x, q) \/ x = i
  BY <1>2, MoreIn
<1>4. \A j \in DOMAIN task' : /\ task'[j].st = "queued" => In(j, source'.commands)
                              /\ task'[j].st = "done" => In(j, done_queue')
  BY <1>1, <1>2, <1>3 DEF WakeInv, Listed
<1> QED
  BY <1>4, ListedNext

(* No step leaves a task where no one looks.                               *)
LEMMA ListedStep == ASSUME IInv, WakeInv, [Next]_vars PROVE Listed'
<1>1. Listed
  BY DEF WakeInv
<1>2. CASE Program
  BY <1>1, <1>2, ProgramDoes, ListedKept
<1>3. CASE InstFree
  <2>1. UNCHANGED <<source, task, done_queue>>
    BY <1>3 DEF InstFree, daemon
  <2> QED
    BY <1>1, <2>1, ListedKept
<1>4. CASE Library
  BY <1>1, <1>4, FdSendDoes, FdSendNothingDoes, InstReadDoes, EofMoves, ListedKept DEF Library, FdWrite
<1>5. CASE Lib(Daemon)
  <2>1. \/ Lib(ClientRead) \/ Lib(ClientEof) \/ Lib(ClientWrite) \/ Lib(ClientWriteFails)
        \/ Lib(GetTask) \/ Lib(ProcessDone) \/ \E i \in DOMAIN task : Lib(TaskEnds(i))
    BY <1>5, Zenon DEF Lib, Daemon
  <2>2. ClientFree => Listed'
    BY FreeDoes, ListedGone
  <2>3. CASE Lib(ClientWriteFails)
    BY <2>2, <2>3 DEF Lib, ClientWriteFails
  <2>4. CASE Lib(ClientEof)
    BY <2>2, <2>4, EofDoes, ListedGone
  <2>5. CASE Lib(ClientWrite)
    <3>1. ClientFree \/ UNCHANGED <<source, task, done_queue>>
      BY <2>5, WriteDoes
    <3> QED
      BY <1>1, <2>2, <3>1, ListedKept
  <2> QED
    BY <2>1, <2>3, <2>4, <2>5, ReadListed, GetListed, DoneListed, EndsListed
<1>6. CASE UNCHANGED vars
  BY <1>1, <1>6, ListedKept DEF vars, daemon
<1> QED
  BY <1>2, <1>3, <1>4, <1>5, <1>6 DEF Next

(* First, from the lists that a step leaves.                               *)
LEMMA FirstNext ==
  ASSUME client'.mode # "freed" =>
           /\ Lead(Attach, rx') /\ (In(Attach, rx') <=> client'.mode = "interactive" /\ rx' # <<>>)
           /\ client'.mode = "interactive" => source'.tasks = {} /\ source'.commands = <<>>,
         "client" \notin shut' =>
           /\ Lead(Attach, inst'.queue)
           /\ In(Attach, inst'.queue) <=> client'.mode = "interactive" /\ rx' = <<>>
  PROVE  First'
  BY DEF First, Lead, In, Attach

(* First is kept by what leaves the mode and the lines alone.              *)
LEMMA FirstKept ==
  ASSUME First, UNCHANGED <<client.mode, source.tasks, source.commands, rx, inst.queue>>,
         "client" \in shut => "client" \in shut'
  PROVE  First'
  BY DEF First, Lead, In, Attach

(* First of a client that has attached, whatever it does next.             *)
LEMMA FirstOver ==
  ASSUME First, client.mode # "freed", client.mode # "interactive", client'.mode # "interactive",
         UNCHANGED <<rx, inst.queue>>, "client" \in shut => "client" \in shut'
  PROVE  First'
<1>1. /\ Lead(Attach, rx') /\ ~In(Attach, rx')
      /\ "client" \notin shut' => Lead(Attach, inst'.queue) /\ ~In(Attach, inst'.queue)
  BY DEF First
<1> QED
  BY <1>1, FirstNext

(* The line that is sent attaches when nothing was sent before.            *)
LEMMA FdSendFirst == ASSUME IInv, WakeInv, Alive, FdSend PROVE First'
<1>1. /\ inst.queue # <<>> /\ "scamper" \notin shut /\ "client" \notin shut
      /\ rx' = Append(rx, Head(inst.queue)) /\ inst'.queue = Tail(inst.queue)
      /\ UNCHANGED <<client, source, shut>>
  BY FdSendDoes DEF Alive
<1>2. client.mode # "freed"
  BY <1>1 DEF IInv, Freed
<1>3. PICK q \in Seq(Line) : q = inst.queue
  BY DEF IInv, Shapes, InstT
<1>4. rx \in Seq(Line)
  BY DEF IInv, Shapes
<1>5. /\ Lead(Attach, rx) /\ (In(Attach, rx) <=> client.mode = "interactive" /\ rx # <<>>)
      /\ client.mode = "interactive" => source.tasks = {} /\ source.commands = <<>>
      /\ Lead(Attach, q) /\ (In(Attach, q) <=> client.mode = "interactive" /\ rx = <<>>)
  BY <1>1, <1>2, <1>3 DEF WakeInv, First
<1>6. PICK x \in Line : x = Head(q)
  BY <1>1, <1>3, TailWithin
<1>7. ~In(Attach, Tail(q)) /\ (In(Attach, q) <=> x = Attach)
  BY <1>1, <1>3, <1>5, <1>6, LeadKept
<1>8. Lead(Attach, Tail(q))
  BY <1>7 DEF Lead, In
<1>9. /\ Lead(Attach, Append(rx, x)) /\ (In(Attach, Append(rx, x)) <=> In(Attach, rx) \/ x = Attach)
      /\ Append(rx, x) # <<>>
  <2>1. x = Attach => rx = <<>>
    BY <1>5, <1>7
  <2>2. Lead(Attach, Append(rx, x))
    BY <1>4, <1>5, <2>1, LeadKept
  <2>3. \A y : In(y, Append(rx, x)) <=> In(y, rx) \/ y = x
    BY <1>4, MoreIn
  <2>4. In(x, Append(rx, x))
    BY <2>3
  <2>5. Append(rx, x) # <<>>
    BY <2>4, EmptyHas
  <2> QED
    BY <2>2, <2>3, <2>5
<1>10. rx' = Append(rx, x) /\ inst'.queue = Tail(q)
  BY <1>1, <1>3, <1>6
<1> QED
  BY <1>1, <1>5, <1>7, <1>8, <1>9, <1>10, FirstNext

(* The first line is read, and no other is like it.                        *)
LEMMA ReadFirst == ASSUME IInv, WakeInv, Lib(ClientRead) PROVE First'
<1>1. /\ rx \in Seq(Line) /\ rx # <<>> /\ rx' = Tail(rx) /\ UNCHANGED <<inst, shut>> /\ client.mode # "freed"
  BY ReadBase
<1>2. /\ Lead(Attach, rx)
      /\ "client" \notin shut => Lead(Attach, inst.queue) /\ ~In(Attach, inst.queue)
  BY <1>1 DEF WakeInv, First
<1>3. ~In(Attach, rx')
  BY <1>1, <1>2, LeadKept
<1>4. Lead(Attach, rx')
  BY <1>3 DEF Lead, In
<1>5. client'.mode # "interactive"
  <2>1. CASE CommandAttach
    BY <2>1, AttachDoes
  <2>2. ASSUME NEW id, client.mode = "attached", Head(rx).k = "task", Makes(id) PROVE client'.mode = "attached"
    BY <2>2, MadeDoes
  <2>3. CASE client.mode = "attached" /\ client' = Say(client, Err)
    BY <2>3, RefusedDoes
  <2>4. ASSUME client.mode = "attached", NEW id \in source.tasks, HaltTask(id) PROVE client'.mode = "attached"
    BY <2>4, HaltedDoes
  <2>5. CASE client.mode = "attached" /\ CommandDone
    BY <2>5, DoneDoes
  <2>6. CASE client.mode = "flush" /\ UNCHANGED <<client, source, task, done_queue>>
    BY <2>6
  <2> QED
    BY <2>1, <2>2, <2>3, <2>4, <2>5, <2>6, ReadDoes
<1> QED
  BY <1>1, <1>2, <1>3, <1>4, <1>5, FirstNext

(* No step leaves a client with a line that attaches it twice, or with     *)
(* none.                                                                   *)
LEMMA FirstStep == ASSUME IInv, WakeInv, [Next]_vars PROVE First'
<1>1. First /\ Polled
  BY DEF WakeInv
<1>2. CASE Program
  <2>1. /\ UNCHANGED <<client, source, rx, shut>> /\ "client" \notin shut
        /\ Lead(Attach, inst.queue) => Lead(Attach, inst'.queue)
        /\ In(Attach, inst'.queue) <=> In(Attach, inst.queue)
    BY <1>2, ProgramDoes
  <2> QED
    BY <1>1, <2>1, FirstNext DEF First
<1>3. CASE InstFree
  <2>1. UNCHANGED <<client, source, rx, inst>> /\ shut' = shut \cup {"client"}
    BY <1>3 DEF InstFree, daemon
  <2> QED
    BY <1>1, <2>1, FirstKept
<1>4. CASE Library
  BY <1>1, <1>4, FdSendFirst, FdSendNothingDoes, InstReadDoes, EofMoves, FirstKept DEF Library, FdWrite
<1>5. CASE Lib(Daemon)
  <2>1. \/ Lib(ClientRead) \/ Lib(ClientEof) \/ Lib(ClientWrite) \/ Lib(ClientWriteFails)
        \/ Lib(GetTask) \/ Lib(ProcessDone) \/ \E i \in DOMAIN task : Lib(TaskEnds(i))
    BY <1>5, Zenon DEF Lib, Daemon
  <2>2. CASE Lib(ClientWriteFails)
    <3>1. client'.mode = "freed" /\ "client" \in shut /\ shut' = shut \cup {"scamper"}
      BY <2>2, FreeDoes DEF Lib, ClientWriteFails
    <3> QED
      BY <3>1, FirstNext
  <2>3. CASE Lib(ClientEof)
    <3>1. /\ client.reads /\ rx = <<>> /\ UNCHANGED <<rx, inst>> /\ "client" \in shut
      BY <2>3, EofDoes
    <3>2. ClientFree \/ (client'.mode = "flush" /\ UNCHANGED shut)
      BY <2>3, EofDoes
    <3>3. client'.mode \in {"flush", "freed"} /\ "client" \in shut'
      BY <3>1, <3>2, FreeDoes
    <3>4. ~In(Attach, rx') /\ Lead(Attach, rx') /\ rx' = <<>>
      <4>1. \A y : ~In(y, <<>>)
        BY EmptyHas
      <4>2. Lead(Attach, <<>>)
        BY <4>1 DEF Lead, In
      <4> QED
        BY <3>1, <4>1, <4>2
    <3> QED
      BY <3>3, <3>4, FirstNext
  <2>4. CASE Lib(ClientWrite)
    <3>1. /\ client.writes /\ UNCHANGED <<rx, inst>>
          /\ \E c \in ClientT :
               /\ c.mode = client.mode
               /\ IF Spent(c) /\ c.mode = "flush" /\ IsDone(c, source) THEN ClientFree
                  ELSE /\ client' = IF Spent(c) THEN [c EXCEPT !.writes = FALSE] ELSE c
                       /\ UNCHANGED <<source, task, done_queue, shut>>
      BY <2>4, WriteDoes
    <3>2. PICK c \in ClientT :
               /\ c.mode = client.mode
               /\ IF Spent(c) /\ c.mode = "flush" /\ IsDone(c, source) THEN ClientFree
                  ELSE /\ client' = IF Spent(c) THEN [c EXCEPT !.writes = FALSE] ELSE c
                       /\ UNCHANGED <<source, task, done_queue, shut>>
      BY <3>1
    <3>3. CASE client.mode = "flush" /\ ClientFree
      <4>1. client'.mode = "freed" /\ shut' = shut \cup {"scamper"}
        BY <3>3, FreeDoes
      <4> QED
        BY <1>1, <3>1, <3>3, <4>1, FirstOver
    <3>4. CASE /\ client' = IF Spent(c) THEN [c EXCEPT !.writes = FALSE] ELSE c
               /\ UNCHANGED <<source, shut>>
      <4>1. client'.mode = client.mode
        BY <3>2, <3>4 DEF ClientT
      <4> QED
        BY <1>1, <3>1, <3>4, <4>1, FirstKept
    <3> QED
      BY <3>2, <3>3, <3>4
  <2>5. CASE Lib(GetTask)
    <3>1. source.commands # <<>> /\ UNCHANGED <<client.mode, rx, inst, shut>>
      BY <2>5, GetDoes
    <3>2. client.mode # "freed" /\ client.mode # "interactive"
      BY <1>1, <3>1 DEF IInv, Freed, First
    <3> QED
      BY <1>1, <3>1, <3>2, FirstOver
  <2>6. CASE Lib(ProcessDone)
    <3>1. /\ source.tasks # {} /\ UNCHANGED <<rx, inst, shut>>
          /\ client'.mode = client.mode \/ client'.mode = "flush"
      BY <2>6, DoneWritten
    <3>2. client.mode # "freed" /\ client.mode # "interactive"
      BY <1>1, <3>1 DEF IInv, Freed, First
    <3> QED
      BY <1>1, <3>1, <3>2, FirstOver
  <2>7. ASSUME NEW i \in DOMAIN task, Lib(TaskEnds(i)) PROVE First'
    BY <1>1, <2>7, EndsDoes, FirstKept
  <2> QED
    BY <2>1, <2>2, <2>3, <2>4, <2>5, <2>6, <2>7, ReadFirst
<1>6. CASE UNCHANGED vars
  BY <1>1, <1>6, FirstKept DEF vars, daemon
<1> QED
  BY <1>2, <1>3, <1>4, <1>5, <1>6 DEF Next

(* Finishes, from the lists that a step leaves.                            *)
LEMMA FinishesNext ==
  ASSUME "client" \notin shut' =>
           /\ inst'.done => In(Done, inst'.queue) \/ In(Done, rx') \/ source'.finished
           /\ client'.mode = "attached" /\ source'.finished
              => source'.tasks # {} \/ source'.commands # <<>>
  PROVE  Finishes'
  BY DEF Finishes, In, Done

(* Finishes is kept by what moves no line and leaves the source alone.     *)
LEMMA FinishesKept ==
  ASSUME Finishes, "client" \in shut => "client" \in shut',
         UNCHANGED <<client.mode, source.tasks, source.commands, source.finished, rx>>,
         UNCHANGED <<inst.queue, inst.done>>
  PROVE  Finishes'
  BY DEF Finishes, In, Done

(* "done" is sent, or stays.                                               *)
LEMMA FdSendFinishes == ASSUME IInv, WakeInv, Alive, FdSend PROVE Finishes'
<1>1. /\ inst.queue # <<>> /\ "client" \notin shut
      /\ rx' = Append(rx, Head(inst.queue)) /\ inst'.queue = Tail(inst.queue)
      /\ UNCHANGED <<client, source, shut, inst.done>>
  BY FdSendDoes DEF Alive
<1>2. PICK q \in Seq(Line) : q = inst.queue
  BY DEF IInv, Shapes, InstT
<1>3. rx \in Seq(Line)
  BY DEF IInv, Shapes
<1>4. PICK x \in Line : x = Head(q)
  BY <1>1, <1>2, TailWithin
<1>5. \A y : In(y, q) <=> y = x \/ In(y, Tail(q))
  BY <1>1, <1>2, <1>4, TailWithin
<1>6. \A y : In(y, Append(rx, x)) <=> In(y, rx) \/ y = x
  BY <1>3, MoreIn
<1>7. rx' = Append(rx, x) /\ inst'.queue = Tail(q)
  BY <1>1, <1>2, <1>4
<1>8. /\ inst.done => In(Done, q) \/ In(Done, rx) \/ source.finished
      /\ client.mode = "attached" /\ source.finished => source.tasks # {} \/ source.commands # <<>>
  BY <1>1, <1>2 DEF WakeInv, Finishes
<1>9. inst.done => In(Done, inst'.queue) \/ In(Done, rx') \/ source.finished
  BY <1>5, <1>6, <1>7, <1>8
<1> QED
  BY <1>1, <1>8, <1>9, FinishesNext

(* client_read finishes the source with "done".                            *)
LEMMA ReadFinishes == ASSUME IInv, WakeInv, Lib(ClientRead) PROVE Finishes'
<1>1. /\ rx \in Seq(Line) /\ rx # <<>> /\ rx' = Tail(rx) /\ UNCHANGED <<inst, shut>> /\ client.mode # "freed"
      /\ source \in SourceT
  BY ReadBase
<1>2. PICK x : x = Head(rx)
  OBVIOUS
<1>3. \A y : In(y, rx) <=> y = x \/ In(y, rx')
  BY <1>1, <1>2, TailWithin
<1>4. SUFFICES ASSUME "client" \notin shut PROVE Finishes'
  BY <1>1, FinishesNext
<1>5. /\ inst.done => In(Done, inst.queue) \/ In(Done, rx) \/ source.finished
      /\ client.mode = "attached" /\ source.finished => source.tasks # {} \/ source.commands # <<>>
      /\ client.mode = "flush" => source.finished
      /\ client.mode = "attached" => source.open /\ source.cyclemon
      /\ In(Done, rx) => inst.done
  BY <1>1, <1>4 DEF WakeInv, Finishes, Polled, IInv, Ends
<1>6. ASSUME x # Done \/ source'.finished, source.finished => source'.finished,
             client'.mode = "attached" /\ source'.finished => source'.tasks # {} \/ source'.commands # <<>>
      PROVE  Finishes'
  <2>1. inst.done => In(Done, inst.queue) \/ In(Done, rx') \/ source'.finished
    BY <1>3, <1>5, <1>6
  <2> QED
    BY <1>1, <1>6, <2>1, FinishesNext
<1>7. CASE client.mode = "interactive" /\ Head(rx) = Attach /\ CommandAttach
  <2>1. source'.commands = <<Cycle>> /\ UNCHANGED source.finished
    BY <1>7, AttachDoes
  <2>2. Attach # Done /\ <<Cycle>> # <<>>
    BY LineHas
  <2> QED
    BY <1>2, <1>6, <1>7, <2>1, <2>2
<1>8. ASSUME NEW id, client.mode = "attached", Head(rx) # Done, Head(rx).k = "task", Makes(id)
      PROVE  Finishes'
  <2>1. source'.tasks = source.tasks \cup {id} /\ UNCHANGED source.finished
    BY <1>8, MadeDoes
  <2>2. source'.tasks # {}
    BY <2>1
  <2> QED
    BY <1>2, <1>6, <1>8, <2>1, <2>2
<1>9. CASE /\ client.mode = "attached" /\ Head(rx) # Done
           /\ client' = Say(client, Err) /\ UNCHANGED <<source, task, done_queue>>
  BY <1>2, <1>5, <1>6, <1>9
<1>10. ASSUME client.mode = "attached", Head(rx) # Done, NEW id \in source.tasks, HaltTask(id)
       PROVE  Finishes'
  <2>1. UNCHANGED <<source.tasks, source.finished>>
    BY <1>10, HaltedDoes
  <2> QED
    BY <1>2, <1>6, <1>10, <2>1
<1>11. CASE client.mode = "attached" /\ Head(rx) = Done /\ CommandDone
  <2>1. /\ UNCHANGED <<source.tasks, source.commands>> /\ source'.finished
        /\ \/ source.finished \/ source.commands # <<>> \/ source.tasks # {}
           \/ client'.mode = "flush"
    BY <1>5, <1>11, DoneDoes
  <2> QED
    BY <1>5, <1>6, <1>11, <2>1
<1>12. CASE client.mode = "flush" /\ UNCHANGED <<client, source, task, done_queue>>
  BY <1>5, <1>6, <1>12
<1> QED
  BY <1>7, <1>8, <1>9, <1>10, <1>11, <1>12, ReadDoes

(* The cycle is not the last command of a source that is finished.         *)
LEMMA GetFinishes == ASSUME IInv, WakeInv, Lib(GetTask) PROVE Finishes'
<1>1. PICK cs \in Seq(Id \cup {Cycle}) : cs = source.commands
  BY DEF IInv, Shapes, SourceT
<1>2. PICK h : h = Head(cs)
  OBVIOUS
<1>3. /\ cs # <<>> /\ UNCHANGED <<source.tasks, source.finished, client.mode, rx, inst, shut>>
      /\ h = Cycle \/ (h \in Id /\ h \in DOMAIN task /\ task[h].st = "queued")
  BY <1>1, <1>2, GetDoes
<1>4. In(h, cs)
  BY <1>2, <1>3, TailWithin
<1>5. SUFFICES ASSUME "client" \notin shut PROVE Finishes'
  BY <1>3, FinishesNext
<1>6. /\ inst.done => In(Done, inst.queue) \/ In(Done, rx) \/ source.finished
      /\ In(Cycle, cs) => ~inst.done
      /\ source.finished => inst.done
  BY <1>1, <1>5 DEF WakeInv, Finishes, Unasked, IInv, Ends
<1>7. source.finished => source.tasks # {}
  <2>1. \A i \in Id : i \in source.tasks <=> i \in DOMAIN task /\ task[i].st # "freed"
    BY DEF IInv, Tasked
  <2> QED
    BY <1>3, <1>4, <1>6, <2>1
<1> QED
  BY <1>3, <1>6, <1>7, FinishesNext

(* No step loses "done", or leaves a finished source with nothing to come. *)
LEMMA FinishesStep == ASSUME IInv, WakeInv, [Next]_vars PROVE Finishes'
<1>1. Finishes
  BY DEF WakeInv
<1>2. CASE Program
  <2>1. /\ UNCHANGED <<client, source, rx, shut>>
        /\ In(Done, inst.queue) => In(Done, inst'.queue)
        /\ inst'.done = inst.done \/ In(Done, inst'.queue)
    BY <1>2, ProgramDoes
  <2> QED
    BY <1>1, <2>1, FinishesNext DEF Finishes
<1>3. CASE InstFree
  <2>1. UNCHANGED <<client, source, rx, inst>> /\ shut' = shut \cup {"client"}
    BY <1>3 DEF InstFree, daemon
  <2> QED
    BY <1>1, <2>1, FinishesKept
<1>4. CASE Library
  BY <1>1, <1>4, FdSendFinishes, FdSendNothingDoes, InstReadDoes, EofMoves, FinishesKept DEF Library, FdWrite
<1>5. CASE Lib(Daemon)
  <2>1. \/ Lib(ClientRead) \/ Lib(ClientEof) \/ Lib(ClientWrite) \/ Lib(ClientWriteFails)
        \/ Lib(GetTask) \/ Lib(ProcessDone) \/ \E i \in DOMAIN task : Lib(TaskEnds(i))
    BY <1>5, Zenon DEF Lib, Daemon
  <2>2. ClientFree => shut' = shut \cup {"scamper"}
    BY FreeDoes
  <2>3. CASE Lib(ClientWriteFails)
    <3>1. ClientFree /\ "client" \in shut
      BY <2>3 DEF Lib, ClientWriteFails
    <3> QED
      BY <2>2, <3>1, FinishesNext
  <2>4. CASE Lib(ClientEof)
    <3>1. "client" \in shut /\ (ClientFree \/ UNCHANGED shut)
      BY <2>4, EofDoes
    <3> QED
      BY <2>2, <3>1, FinishesNext
  <2>5. CASE Lib(ClientWrite)
    <3>1. UNCHANGED <<rx, inst>>
      BY <2>5, WriteDoes
    <3>2. PICK c \in ClientT :
               /\ c.mode = client.mode
               /\ IF Spent(c) /\ c.mode = "flush" /\ IsDone(c, source) THEN ClientFree
                  ELSE /\ client' = IF Spent(c) THEN [c EXCEPT !.writes = FALSE] ELSE c
                       /\ UNCHANGED <<source, task, done_queue, shut>>
      BY <2>5, WriteDoes
    <3>3. CASE ClientFree
      <4>1. client'.mode = "freed" /\ shut' = shut \cup {"scamper"} /\ UNCHANGED source.finished
        BY <3>3, FreeDoes
      <4> QED
        BY <1>1, <3>1, <4>1, FinishesNext DEF Finishes
    <3>4. CASE /\ client' = IF Spent(c) THEN [c EXCEPT !.writes = FALSE] ELSE c
               /\ UNCHANGED <<source, shut>>
      <4>1. client'.mode = client.mode
        BY <3>2, <3>4 DEF ClientT
      <4> QED
        BY <1>1, <3>1, <3>4, <4>1, FinishesKept
    <3> QED
      BY <3>2, <3>3, <3>4
  <2>6. CASE Lib(ProcessDone)
    <3>1. /\ UNCHANGED <<rx, inst, shut, source.open, source.commands, source.finished>>
          /\ \/ /\ client'.mode = client.mode
                /\ source.cyclemon => \/ source.commands # <<>> \/ source'.tasks # {}
                                      \/ ~source.finished
             \/ client'.mode = "flush"
      BY <2>6, DoneWritten
    <3>2. client.mode = "attached" => source.cyclemon
      BY DEF WakeInv, Polled
    <3> QED
      BY <1>1, <3>1, <3>2, FinishesNext DEF Finishes
  <2>7. ASSUME NEW i \in DOMAIN task, Lib(TaskEnds(i)) PROVE Finishes'
    BY <1>1, <2>7, EndsDoes, FinishesKept
  <2> QED
    BY <2>1, <2>3, <2>4, <2>5, <2>6, <2>7, ReadFinishes, GetFinishes
<1>6. CASE UNCHANGED vars
  BY <1>1, <1>6, FinishesKept DEF vars, daemon
<1> QED
  BY <1>2, <1>3, <1>4, <1>5, <1>6 DEF Next

(* Unasked, from the lists that a step leaves.                             *)
LEMMA UnaskedNext ==
  ASSUME "client" \notin shut' =>
           /\ Lead(Cycle, source'.commands)
           /\ client'.mode = "interactive" \/ In(Cycle, source'.commands)
              => /\ ~inst'.asked /\ ~inst'.done
                 /\ ~Has(client'.txt, "MORE") /\ ~Has(client'.wb, "MORE") /\ ~Has(tx', "MORE")
  PROVE  Unasked'
  BY DEF Unasked, Lead, In, Has, Cycle

(* Unasked is kept by what says nothing.                                   *)
LEMMA UnaskedKept ==
  ASSUME Unasked, "client" \in shut => "client" \in shut',
         client'.mode = "interactive" => client.mode = "interactive",
         UNCHANGED <<client.txt, client.wb, source.commands, tx, inst.asked, inst.done>>
  PROVE  Unasked'
  BY DEF Unasked, Lead, In, Has, Cycle

(* Unasked when an answer is said that does not ask for more.              *)
LEMMA UnaskedSaid ==
  ASSUME Unasked, client \in ClientT, UNCHANGED <<shut, client.wb, tx, inst>>, client'.mode # "interactive",
         NEW x \in Spoken, x.k # "MORE", client'.txt = Append(client.txt, x),
         Lead(Cycle, source.commands) => Lead(Cycle, source'.commands),
         In(Cycle, source'.commands) => client.mode = "interactive" \/ In(Cycle, source.commands)
  PROVE  Unasked'
<1>1. PICK q \in Seq(Spoken) : q = client.txt
  BY DEF ClientT
<1>2. \A k : Has(Append(q, x), k) <=> Has(q, k) \/ x.k = k
  BY <1>1, MoreIn
<1>3. Has(client'.txt, "MORE") => Has(client.txt, "MORE")
  BY <1>1, <1>2
<1>4. "client" \notin shut =>
        /\ Lead(Cycle, source'.commands)
        /\ In(Cycle, source'.commands)
           => /\ ~inst.asked /\ ~inst.done
              /\ ~Has(client.txt, "MORE") /\ ~Has(client.wb, "MORE") /\ ~Has(tx, "MORE")
  BY DEF Unasked
<1> QED
  BY <1>3, <1>4, UnaskedNext

(* An answer to a line asks for nothing.                                   *)
LEMMA ReadUnasked == ASSUME IInv, WakeInv, Lib(ClientRead) PROVE Unasked'
<1>1. /\ rx \in Seq(Line) /\ rx # <<>> /\ UNCHANGED <<tx, inst, shut>>
      /\ client \in ClientT /\ In(Head(rx), rx) /\ Unasked
  BY ReadBase DEF WakeInv
<1>2. PICK cs \in Seq(Id \cup {Cycle}) : cs = source.commands /\ Apart(cs)
  BY DEF IInv, Shapes, SourceT, Tasked
<1>3. Ok \in Spoken /\ Err \in Spoken /\ Ok.k # "MORE" /\ Err.k # "MORE"
  BY SpokenCases, AnswerKinds
<1>4. CASE client.mode = "interactive" /\ CommandAttach
  <2>1. /\ client'.txt = Append(client.txt, Ok) /\ client'.mode = "attached" /\ UNCHANGED client.wb
        /\ source'.commands = <<Cycle>>
    BY <1>4, AttachDoes
  <2>2. Lead(Cycle, <<Cycle>>)
    BY DEF Lead
  <2> QED
    BY <1>1, <1>3, <1>4, <2>1, <2>2, UnaskedSaid
<1>5. ASSUME NEW id, client.mode = "attached", Head(rx).k = "task", Makes(id) PROVE Unasked'
  <2>1. /\ id \in Id /\ client'.txt = Append(client.txt, OkId(id)) /\ client'.mode = "attached"
        /\ UNCHANGED client.wb /\ source'.commands = Append(cs, id)
    BY <1>2, <1>5, MadeDoes
  <2>2. id # Cycle /\ id \in Id \cup {Cycle} /\ Cycle \in Id \cup {Cycle}
    BY <2>1, ObjCases DEF Cycle
  <2>3. \A y : In(y, Append(cs, id)) <=> In(y, cs) \/ y = id
    BY <2>2, MoreIn
  <2>4. Lead(Cycle, cs) => Lead(Cycle, Append(cs, id))
    BY <2>2, LeadKept
  <2>5. OkId(id) \in Spoken /\ OkId(id).k # "MORE"
    BY <2>1, SpokenCases, AnswerKinds
  <2>6. /\ Lead(Cycle, source.commands) => Lead(Cycle, source'.commands)
        /\ In(Cycle, source'.commands) => In(Cycle, source.commands)
    BY <1>2, <2>1, <2>2, <2>3, <2>4
  <2>7. client'.mode # "interactive"
    BY <2>1
  <2> QED
    BY <1>1, <2>1, <2>5, <2>6, <2>7, UnaskedSaid
<1>6. CASE /\ client.mode = "attached" /\ client' = Say(client, Err)
           /\ UNCHANGED <<source, task, done_queue>>
  <2>1. client'.txt = Append(client.txt, Err) /\ client'.mode = "attached" /\ UNCHANGED client.wb
    BY <1>6, RefusedDoes
  <2> QED
    BY <1>1, <1>3, <1>6, <2>1, UnaskedSaid
<1>7. ASSUME client.mode = "attached", NEW id \in source.tasks, HaltTask(id) PROVE Unasked'
  <2>1. /\ id \in Id /\ client'.txt = Append(client.txt, Ok) /\ client'.mode = "attached" /\ UNCHANGED client.wb
        /\ source'.commands = Without(cs, id)
        /\ \A x : In(x, source'.commands) <=> In(x, source.commands) /\ x # id
    BY <1>2, <1>7, HaltedDoes
  <2>2. id # Cycle
    BY <2>1, ObjCases DEF Cycle
  <2>3. Lead(Cycle, cs) => Lead(Cycle, Without(cs, id))
    <3>1. \A i, j \in DOMAIN cs : cs[i] = id /\ cs[j] = id => i = j
      BY <1>2 DEF Apart
    <3> QED
      BY <2>2, <3>1, LeadKept
  <2> QED
    BY <1>1, <1>2, <1>3, <2>1, <2>3, UnaskedSaid
<1>8. CASE client.mode = "attached" /\ Head(rx) = Done /\ CommandDone
  <2>1. UNCHANGED source.commands /\ client'.mode \in {"attached", "flush"}
    BY <1>8, DoneDoes
  <2>2. inst.done
    BY <1>1, <1>8 DEF IInv, Ends
  <2>3. "client" \notin shut => Lead(Cycle, source'.commands) /\ ~In(Cycle, source'.commands)
    BY <1>1, <2>1, <2>2 DEF Unasked
  <2> QED
    BY <1>1, <2>1, <2>3, UnaskedNext
<1>9. CASE client.mode = "flush" /\ UNCHANGED <<client, source, task, done_queue>>
  BY <1>1, <1>9, UnaskedKept
<1> QED
  BY <1>4, <1>5, <1>6, <1>7, <1>8, <1>9, ReadDoes

(* What is written is what was said.                                       *)
LEMMA WriteUnasked == ASSUME IInv, WakeInv, Lib(ClientWrite) PROVE Unasked'
<1>1. UNCHANGED inst /\ Unasked
  BY WriteDoes DEF WakeInv
<1>2. PICK c \in ClientT :
        /\ c.mode = client.mode
        /\ IF Spent(c) /\ c.mode = "flush" /\ IsDone(c, source) THEN ClientFree
           ELSE /\ client' = IF Spent(c) THEN [c EXCEPT !.writes = FALSE] ELSE c
                /\ UNCHANGED <<source, task, done_queue, shut>>
        /\ ~Has(client.txt, "MORE") /\ ~Has(client.wb, "MORE") /\ ~Has(tx, "MORE")
           => ~Has(c.txt, "MORE") /\ ~Has(c.wb, "MORE") /\ ~Has(tx', "MORE")
  BY WriteDoes
<1>3. CASE ClientFree
  <2>1. client'.mode = "freed" /\ source'.commands = <<>>
    BY <1>3, FreeDoes
  <2>2. ~In(Cycle, source'.commands)
    BY <2>1, EmptyHas
  <2>3. Lead(Cycle, source'.commands)
    BY <2>2 DEF Lead, In
  <2> QED
    BY <2>1, <2>2, <2>3, UnaskedNext
<1>4. CASE /\ client' = IF Spent(c) THEN [c EXCEPT !.writes = FALSE] ELSE c
           /\ UNCHANGED <<source, shut>>
  <2>1. client'.mode = client.mode /\ client'.txt = c.txt /\ client'.wb = c.wb
    BY <1>2, <1>4 DEF ClientT
  <2> QED
    BY <1>1, <1>2, <1>4, <2>1, UnaskedNext DEF Unasked
<1> QED
  BY <1>2, <1>3, <1>4

(* No step asks for more before the cycle is taken.                        *)
LEMMA UnaskedStep == ASSUME Patient, IInv, WakeInv, [Next]_vars PROVE Unasked'
<1>1. Unasked /\ First
  BY DEF WakeInv
<1>2. CASE Program
  <2>1. /\ UNCHANGED <<client, source, tx, shut, inst.asked>> /\ "client" \notin shut
        /\ inst'.done = inst.done \/ inst.asked
    BY <1>2, ProgramDoes
  <2> QED
    BY <1>1, <2>1, UnaskedNext DEF Unasked
<1>3. CASE InstFree
  <2>1. UNCHANGED <<client, source, tx, inst>> /\ shut' = shut \cup {"client"}
    BY <1>3 DEF InstFree, daemon
  <2> QED
    BY <1>1, <2>1, UnaskedKept
<1>4. CASE FdWrite
  BY <1>1, <1>4, FdSendDoes, FdSendNothingDoes, UnaskedKept DEF FdWrite
<1>5. CASE InstRead
  <2>1. /\ tx # <<>> /\ tx' = Tail(tx) /\ UNCHANGED <<client, source, inst.done>>
        /\ inst'.asked => inst.asked \/ Head(tx).k = "MORE"
        /\ "client" \in shut => "client" \in shut'
    BY <1>5, InstReadDoes
  <2>2. tx \in Seq(Answer)
    BY DEF IInv, Shapes
  <2>3. \A k : Has(tx, k) <=> Head(tx).k = k \/ Has(Tail(tx), k)
    BY <2>1, <2>2, TailWithin
  <2>4. ~Has(tx, "MORE") => ~Has(tx', "MORE") /\ (inst'.asked => inst.asked)
    BY <2>1, <2>3
  <2> QED
    BY <1>1, <2>1, <2>4, UnaskedNext DEF Unasked
<1>6. CASE InstEof
  BY <1>1, <1>6, EofMoves, UnaskedKept
<1>7. CASE Lib(Daemon)
  <2>1. \/ Lib(ClientRead) \/ Lib(ClientEof) \/ Lib(ClientWrite) \/ Lib(ClientWriteFails)
        \/ Lib(GetTask) \/ Lib(ProcessDone) \/ \E i \in DOMAIN task : Lib(TaskEnds(i))
    BY <1>7, Zenon DEF Lib, Daemon
  <2>2. ClientFree => shut' = shut \cup {"scamper"}
    BY FreeDoes
  <2>3. CASE Lib(ClientWriteFails)
    <3>1. ClientFree /\ "client" \in shut
      BY <2>3 DEF Lib, ClientWriteFails
    <3> QED
      BY <2>2, <3>1, UnaskedNext
  <2>4. CASE Lib(ClientEof)
    <3>1. "client" \in shut /\ (ClientFree \/ UNCHANGED shut)
      BY <2>4, EofDoes
    <3> QED
      BY <2>2, <3>1, UnaskedNext
  <2>5. CASE Lib(GetTask)
    <3>1. PICK cs \in Seq(Id \cup {Cycle}) : cs = source.commands
      BY DEF IInv, Shapes, SourceT
    <3>2. cs # <<>> /\ source'.commands = Tail(cs) /\ UNCHANGED <<client.mode, shut>>
      BY <2>5, <3>1, GetDoes
    <3>3. client.mode # "interactive"
      BY <1>1, <3>1, <3>2 DEF First
    <3>4. Lead(Cycle, cs) => ~In(Cycle, source'.commands)
      BY <3>2, LeadKept
    <3>5. ~In(Cycle, source'.commands) => Lead(Cycle, source'.commands)
      BY DEF Lead, In
    <3> QED
      BY <1>1, <3>1, <3>2, <3>3, <3>4, <3>5, UnaskedNext DEF Unasked
  <2>6. CASE Lib(ProcessDone)
    <3>1. /\ UNCHANGED <<inst, shut, source.commands, client.txt, client.wb, tx>>
          /\ client'.mode = client.mode \/ client'.mode = "flush"
      BY <2>6, DoneWritten
    <3> QED
      BY <1>1, <3>1, UnaskedKept
  <2>7. ASSUME NEW i \in DOMAIN task, Lib(TaskEnds(i)) PROVE Unasked'
    BY <1>1, <2>7, EndsDoes, UnaskedKept
  <2> QED
    BY <2>1, <2>3, <2>4, <2>5, <2>6, <2>7, ReadUnasked, WriteUnasked
<1>8. CASE UNCHANGED vars
  BY <1>1, <1>8, UnaskedKept DEF vars, daemon
<1> QED
  BY <1>2, <1>3, <1>4, <1>5, <1>6, <1>7, <1>8 DEF Next, Library

-----------------------------------------------------------------------------
(* Nothing waits at the start but the line that attaches.                  *)
LEMMA InitWakes == ASSUME Init PROVE WakeInv
<1>1. /\ client.mode = "interactive" /\ client.reads /\ client.txt = <<>> /\ client.wb = <<>>
      /\ client.objs = <<>> /\ client.off = 0
      /\ source.tasks = {} /\ source.commands = <<>> /\ ~source.finished /\ task = <<>>
      /\ rx = <<>> /\ tx = <<>> /\ inst.queue = <<Attach>> /\ ~inst.done /\ ~inst.asked
  BY DEF Init, ClientStart
<1>2. Polled
  BY <1>1 DEF Polled
<1>3. Listed
  BY <1>1 DEF Listed
<1>4. \A x : ~In(x, <<>>) /\ ~Has(<<>>, "MORE") /\ Lead(x, <<>>)
  BY EmptyHas DEF Lead
<1>5. Lead(Attach, <<Attach>>) /\ In(Attach, <<Attach>>)
  BY DEF Lead, In
<1>6. First
  BY <1>1, <1>4, <1>5 DEF First
<1>7. Finishes
  BY <1>1 DEF Finishes
<1>8. Unasked
  BY <1>1, <1>4 DEF Unasked
<1> QED
  BY <1>2, <1>3, <1>6, <1>7, <1>8 DEF WakeInv

(* A line that scamper reads is one that it understands.                   *)
LEMMA ReadsUnderstood ==
  ASSUME IInv, WakeInv, client.reads, rx # <<>>
  PROVE  Understood(Head(rx))
<1>1. client.mode # "freed" /\ rx \in Seq(Line)
  BY DEF IInv, Shapes, Freed
<1>2. Lead(Attach, rx) /\ (In(Attach, rx) <=> client.mode = "interactive")
  BY <1>1 DEF WakeInv, First
<1>3. In(Attach, rx) <=> Head(rx) = Attach
  BY <1>1, <1>2, LeadKept
<1> QED
  BY <1>2, <1>3 DEF Understood

(* A client that is attached and has nothing to do owes nothing.           *)
LEMMA NothingOwed ==
  ASSUME IInv, WakeInv, WriteInv, ~Due, ~Over
  PROVE  ~inst.done /\ \A t \in Task : mine[t].st \notin {"queue", "waitok", "gotid"}
<1>1. "client" \notin shut /\ Alive
  BY DEF Over, Alive
<1>2. tx = <<>> /\ "scamper" \notin shut /\ inst.queue = <<>>
  BY <1>1 DEF Due, WriteInv
<1>3. ~client.writes /\ source.commands = <<>> /\ done_queue = <<>>
      /\ \A i \in DOMAIN task : task[i].st # "running"
  BY DEF Due
<1>4. /\ client.mode # "freed" /\ client \in ClientT /\ task \in Seq(TaskT)
  BY <1>2 DEF IInv, Shapes, Freed
<1>5. client.reads
  BY <1>1, <1>4 DEF WakeInv, Polled
<1>6. rx = <<>>
  <2>1. client.reads => IF rx = <<>> THEN "client" \notin shut ELSE ~Understood(Head(rx))
    BY Zenon DEF Due
  <2> QED
    BY <1>5, <2>1, ReadsUnderstood
<1>7. client.mode = "attached"
  <2>1. In(Attach, inst.queue) <=> client.mode = "interactive"
    BY <1>1, <1>6 DEF WakeInv, First
  <2>2. client.mode # "interactive"
    BY <1>2, <2>1, EmptyHas
  <2>3. client.mode # "flush"
    BY <1>1, <1>3, <1>4 DEF WakeInv, Polled
  <2> QED
    BY <1>4, <2>2, <2>3 DEF ClientT
<1>8. client.txt = <<>> /\ client.wb = <<>> /\ client.objs = <<>> /\ client.off = 0
  <2>1. client.off \in Nat
    BY <1>4 DEF ClientT
  <2>2. ~(client.txt # <<>> \/ client.wb # <<>> \/ client.objs # <<>> \/ client.off > 0)
    BY <1>3, <1>4 DEF WakeInv, Polled
  <2> QED
    BY <2>1, <2>2
<1>9. source.tasks = {}
  <2>1. source.tasks \in SUBSET Id
    BY DEF IInv, Shapes, SourceT
  <2>2. SUFFICES ASSUME NEW i \in Id, i \in source.tasks PROVE FALSE
    BY <2>1
  <2>3. i \in DOMAIN task /\ task[i].st # "freed"
    BY <2>2 DEF IInv, Tasked
  <2>4. task[i] \in TaskT
    BY <1>4, <2>3, LenProperties, ElementOfSeq
  <2>5. task[i].st \in {"queued", "done"}
    BY <1>3, <2>3, <2>4 DEF TaskT
  <2>6. In(i, source.commands) \/ In(i, done_queue)
    BY <2>3, <2>5 DEF WakeInv, Listed
  <2> QED
    BY <1>3, <2>6, EmptyHas
<1>10. ~inst.done
  <2>1. inst.done => In(Done, inst.queue) \/ In(Done, rx) \/ source.finished
    BY <1>1 DEF WakeInv, Finishes
  <2>2. source.finished => source.tasks # {} \/ source.commands # <<>>
    BY <1>1, <1>7 DEF WakeInv, Finishes
  <2> QED
    BY <1>2, <1>3, <1>6, <1>9, <2>1, <2>2, EmptyHas
<1>11. inst.waitok = <<>>
  <2>1. PICK a \in Seq(Line), b \in Seq(Line), w \in Seq(Line) :
          /\ Flow(<<>>, Pairs, inst.waitok, a) /\ Flow(<<>>, Pairs, a, b)
          /\ Flow(<<>>, Pairs, b, w) /\ Rest(w)
    BY <1>1, <1>2, <1>8 DEF IInv, Streams, Paired
  <2>2. w = inst.waitok
    BY <2>1, FlowEmpty
  <2> QED
    BY <1>6, <1>7, <2>1, <2>2 DEF Rest
<1>12. inst.left = 0
  <2>1. Remain = 0
    BY <1>8 DEF Remain
  <2>2. PICK a \in Nat : Flow(<<>>, Frames, inst.left, a) /\ Flow(<<>>, Frames, a, 0)
    BY <1>1, <1>2, <1>8, <2>1 DEF IInv, Streams, Framed
  <2> QED
    BY <2>2, FlowEmpty
<1>13. inst.tree = {}
  <2>1. PICK a \in SUBSET Id, b \in SUBSET Id, K \in SUBSET Id :
          /\ Flow(<<>>, Knows, inst.tree, a) /\ Flow(<<>>, Knows, a, b)
          /\ Flow(<<>>, Knows, b, K) /\ Owing(K)
    BY <1>1, <1>2, <1>8 DEF IInv, Streams, Known
  <2>2. K = inst.tree
    BY <2>1, FlowEmpty
  <2>3. \A i \in Id : i \notin K
    BY <1>8, <1>9, <2>1, EmptyHas DEF Owing, Owes
  <2> QED
    BY <2>2, <2>3
<1>14. ASSUME NEW t \in Task PROVE mine[t].st \notin {"queue", "waitok", "gotid"}
  <2>1. /\ In(Do(t), inst.queue) <=> mine[t].st = "queue"
        /\ In(Do(t), inst.waitok) <=> mine[t].st = "waitok"
    BY DEF IInv, Asked
  <2>2. mine[t].st # "queue" /\ mine[t].st # "waitok"
    BY <1>2, <1>11, <2>1, EmptyHas
  <2>3. /\ mine[t].st = "gotid" => mine[t].id \in inst.tree \/ t \in inst.data
        /\ t \in inst.data => inst.left > 0
    BY DEF IInv, Filed
  <2> QED
    BY <1>12, <1>13, <2>2, <2>3
<1> QED
  BY <1>10, <1>14

(* While anyone waits, some step is due.                                   *)
LEMMA WakeHolds == ASSUME IInv, WakeInv, WriteInv PROVE NeverStuck
<1>1. SUFFICES ASSUME ~Due
               PROVE  ~(\/ ~Over /\ (inst.done \/ \E t \in Task : mine[t].st \in {"queue", "waitok", "gotid"})
                        \/ "client" \in shut /\ client.mode # "freed")
  BY DEF NeverStuck
<1>2. "client" \in shut => client.mode = "freed"
  <2> SUFFICES ASSUME "client" \in shut, client.mode # "freed" PROVE FALSE
    OBVIOUS
  <2>1. ~client.writes /\ (client.reads => IF rx = <<>> THEN "client" \notin shut ELSE ~Understood(Head(rx)))
    BY <1>1, Zenon DEF Due
  <2>2. ~client.reads
    BY <2>1, ReadsUnderstood
  <2> QED
    BY <2>1, <2>2 DEF WakeInv, Polled
<1> QED
  BY <1>1, <1>2, NothingOwed

(* Nobody waits on everybody: while a program waits for scamper, or        *)
(* scamper for the end of a client, a handler of one of them is due - a    *)
(* descriptor that is polled and ready, or a list that is not empty. The   *)
(* program may not say "done" before it was asked for more: it might stop  *)
(* a source whose cycle is still to be taken.                              *)
THEOREM NeverStuckHolds == Patient => (Spec => []NeverStuck)
<1>1. Init => WakeInv
  BY InitWakes
<1>2. Patient /\ IInv /\ WakeInv /\ [Next]_vars => WakeInv'
  BY PolledStep, ListedStep, FirstStep, FinishesStep, UnaskedStep DEF WakeInv
<1>3. IInv /\ WakeInv /\ WriteInv => NeverStuck
  BY WakeHolds
<1>4. Patient => (Init /\ []IInv /\ []WriteInv /\ [][Next]_vars => []NeverStuck)
  <2> SUFFICES ASSUME Patient
               PROVE  Init /\ []IInv /\ []WriteInv /\ [][Next]_vars => []NeverStuck
    OBVIOUS
  <2> HIDE DEF WakeInv, WriteInv
  <2>1. IInv /\ WakeInv /\ [Next]_vars => WakeInv'
    BY <1>2
  <2> QED
    BY <1>1, <1>3, <2>1, PTL
<1> QED
  BY <1>4, InvariantHolds, WriteHolds DEF Spec
=============================================================================
