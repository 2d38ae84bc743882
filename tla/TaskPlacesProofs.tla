-------------------------- MODULE TaskPlacesProofs --------------------------
(***************************************************************************)
(* Proofs about ScamperSources, for any sources, tasks and overlaps: where *)
(* a task is while it is held, released, halted and freed, that the        *)
(* sources code uses nothing it has freed, and that the tasks of a source  *)
(* which overlap start in the order of submission.                         *)
(***************************************************************************)
EXTENDS SourceLedgerProofs

(* the commands that wait for t: queued at its source, or at hand          *)
Waits(t) == Waiting(SourceOf[t], TaskCmd(t))

(* t is done, or being freed, or freed (and not with all of its source)    *)
Through(t) ==
  \/ Places(done_queue, t) # {}
  \/ (freeing = t \/ life[t] = "freed") /\ abandoning # SourceOf[t]

Settled(t) == t \in installed \/ Through(t)

(* A task waits once, or one task holds it, once.                          *)
OnceAt(t) == \A b \in Task :
  /\ Waits(t) + Count(onhold[b], {t}) <= 1
  /\ Count(onhold[b], {t}) # 0 => \A c \in Task \ {b} : Count(onhold[c], {t}) = 0

Unheld(t) == \A b \in Task : Count(onhold[b], {t}) = 0

(* What runs or is through does neither.                                   *)
NotAgain(t) ==
  /\ Settled(t) => Waits(t) = 0
  /\ Settled(t) \/ life[t] # "alive" => Unheld(t)

(* What lives and has not started does one.                                *)
Somewhere(t) ==
  life[t] = "alive" /\ source[SourceOf[t]].open /\ SourceOf[t] # abandoning
    /\ freeing # t /\ ~Settled(t)
  => Waits(t) # 0 \/ ~Unheld(t)

Place(t) == OnceAt(t) /\ NotAgain(t) /\ Somewhere(t)

(* Tasks are freed when they were written, or with their source.           *)
Phased ==
  /\ abandoning # NoSource => pc = "poll"
  /\ freeing # NoTask => pc = "done" \/ (pc = "poll" /\ abandoning # NoSource)

PlaceInv == Phased /\ \A t \in Task : Place(t)

-----------------------------------------------------------------------------
(* Steps that move no task.                                                *)

LEMMA WaitsType ==
  ASSUME Shapes, NEW t \in Task
  PROVE  /\ SourceOf[t] \in Source /\ Waits(t) \in Nat
         /\ Count(source[SourceOf[t]].commands, {TaskCmd(t)}) \in Nat
         /\ Hand(SourceOf[t], TaskCmd(t)) \in {0, 1}
<1>1. SourceOf[t] \in Source
  BY SourcesAssumption
<1> QED
  BY <1>1, WaitingType, HandType DEF Waits

LEMMA HoldType ==
  ASSUME Scope, NEW t \in Task, NEW b \in Task
  PROVE  Count(onhold[b], {t}) \in Nat
<1>1. onhold[b] \in Seq(Task)
  BY DEF Scope
<1> QED
  BY <1>1, CountType

(* What no step of this kind can change.                                   *)
Unmoved(t) ==
  /\ life'[t] = life[t] \/ (life[t] \in Early /\ life'[t] # "alive")
  /\ \/ Waits(t)' = Waits(t)
     \/ Waits(t)' = 0 /\ ~source'[SourceOf[t]].open
  /\ source'[SourceOf[t]].open => source[SourceOf[t]].open \/ life[t] # "alive"
  /\ abandoning = SourceOf[t] =>
       abandoning' = abandoning \/ (Waits(t)' = 0 /\ ~source'[SourceOf[t]].open)

(* Nor is it moved: what t is on stays as it is for t.                     *)
Aside(t) ==
  /\ \A b \in Task : Count(onhold'[b], {t}) = Count(onhold[b], {t})
  /\ t \in installed' <=> t \in installed
  /\ Places(done_queue', t) # {} <=> Places(done_queue, t) # {}
  /\ freeing' = t <=> freeing = t

LEMMA UnmovedPlace ==
  ASSUME Accounts, Scope, NEW t \in Task, Place(t), Unmoved(t), Aside(t),
         abandoning' = abandoning \/ freeing = NoTask
  PROVE  Place(t)'
<1>1. Waits(t) \in Nat /\ SourceOf[t] \in Source /\ \A b \in Task : Count(onhold[b], {t}) \in Nat
  BY WaitsType, HoldType DEF Accounts
<1>2. life[t] \in Early => Waits(t) = 0 /\ Unheld(t)
  BY <1>1 DEF Accounts, Ordered, Tasking, HeldLate, Waits, Unheld
<1>3. Unheld(t)' <=> Unheld(t)
  BY DEF Unheld, Aside
<1>4. OnceAt(t)'
  <2> SUFFICES ASSUME NEW b \in Task
               PROVE  /\ Waits(t)' + Count(onhold'[b], {t}) <= 1
                      /\ Count(onhold'[b], {t}) # 0 =>
                           \A c \in Task \ {b} : Count(onhold'[c], {t}) = 0
    BY DEF OnceAt
  <2>1. /\ Waits(t) + Count(onhold[b], {t}) <= 1
        /\ Count(onhold[b], {t}) # 0 => \A c \in Task \ {b} : Count(onhold[c], {t}) = 0
    BY DEF Place, OnceAt
  <2>2. \A c \in Task : Count(onhold'[c], {t}) = Count(onhold[c], {t})
    BY DEF Aside
  <2>3. Waits(t)' = Waits(t) \/ Waits(t)' = 0
    BY DEF Unmoved
  <2>4. Waits(t)' + Count(onhold'[b], {t}) <= 1
    BY <1>1, <2>1, <2>2, <2>3
  <2> QED
    BY <2>1, <2>2, <2>4
<1>5. NotAgain(t)'
  <2>1. t # NoTask
    BY SourcesAssumption
  <2>2. CASE Settled(t)
    BY <1>1, <1>3, <2>2 DEF Place, NotAgain, Unmoved
  <2>3. CASE ~Settled(t) /\ life'[t] = life[t]
    BY <1>3, <2>1, <2>3 DEF Place, NotAgain, Unmoved, Settled, Through, Aside
  <2>4. CASE ~Settled(t) /\ life'[t] # life[t]
    BY <1>1, <1>2, <1>3, <2>4 DEF NotAgain, Unmoved
  <2> QED
    BY <2>2, <2>3, <2>4
<1>6. Somewhere(t)'
  BY <1>1, <1>3, SourcesAssumption DEF Place, Somewhere, Unmoved, Settled, Through, Early, Aside
<1> QED
  BY <1>4, <1>5, <1>6 DEF Place

(* The commands that wait stay where they are, or are dropped at the end.  *)
Shut(S, T) ==
  \/ T.commands = S.commands /\ T.open = S.open
  \/ T.commands = <<>> /\ T.open = FALSE

LEMMA Shutting ==
  ASSUME NEW S \in Shape
  PROVE  /\ Shut(S, Unuse(S)) /\ Shut(S, FlushCommands(S)) /\ Shut(S, Unref(S))
         /\ Shut(S, Detach(S)) /\ Shut(S, Detach(FlushCommands(S)))
         /\ ~Detach(FlushCommands(S)).open /\ Detach(FlushCommands(S)).commands = <<>>
<1>1. \A T \in Shape : Shut(T, Unuse(T))
  BY DEF Shut, Unuse, Shape
<1>2. \A T \in Shape : FlushCommands(T).commands = <<>> /\ FlushCommands(T).open = FALSE
  BY DEF FlushCommands, Shape
<1>3. \A T \in Shape : Shut(T, Unref(T))
  <2> SUFFICES ASSUME NEW T \in Shape PROVE Shut(T, Unref(T))
    OBVIOUS
  <2>1. CASE T.refcnt = 1
    <3>1. PICK R : R = [T EXCEPT !.refcnt = 0, !.tree = FALSE]
      OBVIOUS
    <3>2. R \in Shape
      <4>1. PICK N : N = [T EXCEPT !.refcnt = 0]
        OBVIOUS
      <4>2. N \in Shape
        BY <4>1, SMTT(60) DEF Shape
      <4>3. R = [N EXCEPT !.tree = FALSE]
        BY <3>1, <4>1
      <4> QED
        BY <4>2, <4>3, ShapeSet
    <3>3. Unuse(R) \in Shape
      BY <3>2, UnuseKept DEF Kept
    <3>4. Unref(T) = FlushCommands(Unuse(R))
      BY <2>1, <3>1 DEF Unref
    <3> QED
      BY <1>2, <3>3, <3>4 DEF Shut
  <2>2. CASE T.refcnt # 1
    BY <2>2 DEF Unref, Shut, Shape
  <2> QED
    BY <2>1, <2>2
<1>4. \A T \in Shape : Shut(T, Detach(T))
  <2> SUFFICES ASSUME NEW T \in Shape PROVE Shut(T, Detach(T))
    OBVIOUS
  <2>1. PICK R : R = [T EXCEPT !.tree = FALSE]
    OBVIOUS
  <2>2. R \in Shape /\ R.commands = T.commands /\ R.open = T.open
    BY <2>1 DEF Shape
  <2>3. Shut(R, Unref(R))
    BY <1>3, <2>2
  <2> QED
    BY <2>1, <2>2, <2>3 DEF Shut, Detach
<1>5. FlushCommands(S) \in Shape
  BY FlushKept DEF Kept
<1> QED
  BY <1>1, <1>2, <1>3, <1>4, <1>5 DEF Shut

(* The command at hand is the same, or it was of no task.                  *)
HandSame == (src' = src /\ cmd' = cmd) \/ (cmd' = NoCmd /\ cmd.type # "task")

(* Neither the tasks nor the commands of tasks change.                     *)
LEMMA StillPlace ==
  ASSUME Accounts, Scope, NEW t \in Task, Place(t), HandSame,
         UNCHANGED <<onhold, installed, done_queue, freeing>>,
         abandoning = NoSource \/ abandoning' = abandoning,
         abandoning' = abandoning \/ freeing = NoTask,
         life'[t] = life[t] \/ (life[t] \in Early /\ life'[t] # "alive"),
         source'[SourceOf[t]].open => source[SourceOf[t]].open \/ life[t] # "alive",
         Count(source'[SourceOf[t]].commands, {TaskCmd(t)})
           = Count(source[SourceOf[t]].commands, {TaskCmd(t)})
  PROVE  Place(t)'
<1>1. Hand(SourceOf[t], TaskCmd(t))' = Hand(SourceOf[t], TaskCmd(t))
  BY DEF Hand, HandSame, TaskCmd, NoCmd
<1>2. Waits(t)' = Waits(t)
  BY <1>1 DEF Waits, Waiting
<1>3. SourceOf[t] # NoSource
  BY SourcesAssumption
<1>4. Unmoved(t)
  BY <1>2, <1>3 DEF Unmoved
<1> QED
  BY <1>4, UnmovedPlace DEF Aside

(* Sources end their lists, with no command at hand.                       *)
LEMMA ShutPlace ==
  ASSUME Accounts, Scope, NEW t \in Task, Place(t), cmd = NoCmd, cmd' = NoCmd,
         UNCHANGED <<onhold, installed, done_queue, freeing>>,
         abandoning' = abandoning \/ freeing = NoTask,
         abandoning = SourceOf[t] => abandoning' = abandoning \/ ~source'[SourceOf[t]].open,
         abandoning = SourceOf[t] => abandoning' = abandoning \/ source'[SourceOf[t]].commands = <<>>,
         life'[t] = life[t] \/ (life[t] \in Early /\ life'[t] # "alive"),
         Shut(source[SourceOf[t]], source'[SourceOf[t]])
  PROVE  Place(t)'
<1>1. Hand(SourceOf[t], TaskCmd(t))' = 0 /\ Hand(SourceOf[t], TaskCmd(t)) = 0
  BY DEF Hand, TaskCmd, NoCmd
<1>2. source'[SourceOf[t]].commands = <<>> => Waits(t)' = 0
  BY <1>1, CountEmpty DEF Waits, Waiting
<1>3. source'[SourceOf[t]].commands = source[SourceOf[t]].commands => Waits(t)' = Waits(t)
  BY <1>1 DEF Waits, Waiting
<1>4. Unmoved(t)
  BY <1>2, <1>3 DEF Unmoved, Shut
<1> QED
  BY <1>4, UnmovedPlace DEF Aside

(* Nothing at all changes but what is no place of a task.                  *)
LEMMA SamePlaces ==
  ASSUME Accounts, Scope, PlaceInv, HandSame,
         UNCHANGED <<source, life, onhold, installed, done_queue, freeing, abandoning>>
  PROVE  \A t \in Task : Place(t)'
<1> SUFFICES ASSUME NEW t \in Task PROVE Place(t)'
  OBVIOUS
<1>1. Place(t)
  BY DEF PlaceInv
<1> QED
  BY <1>1, StillPlace

(* One source ends its lists, or says that it will.                        *)
LEMMA ShutPlaces ==
  ASSUME Accounts, Scope, PlaceInv, NEW s \in Source, NEW T, Shut(source[s], T),
         source' = [source EXCEPT ![s] = T], cmd = NoCmd, cmd' = NoCmd,
         UNCHANGED <<life, onhold, installed, done_queue, freeing>>,
         abandoning' = abandoning \/ freeing = NoTask,
         abandoning' = abandoning \/ abandoning = NoSource
           \/ (abandoning = s /\ ~T.open /\ T.commands = <<>>)
  PROVE  \A t \in Task : Place(t)'
<1> SUFFICES ASSUME NEW t \in Task PROVE Place(t)'
  OBVIOUS
<1>1. Place(t) /\ SourceOf[t] \in Source /\ SourceOf[t] # NoSource
  BY SourcesAssumption DEF PlaceInv
<1>2. source'[s] = T /\ \A r \in Source \ {s} : source'[r] = source[r]
  BY DEF Accounts, Shapes
<1>3. Shut(source[SourceOf[t]], source'[SourceOf[t]])
  BY <1>1, <1>2 DEF Shut
<1> QED
  BY <1>1, <1>2, <1>3, ShutPlace

LEMMA EndPlaces ==
  ASSUME Accounts, Scope, PlaceInv, NEW s \in Source, ClientDone(s) \/ ReadEnd(s)
  PROVE  \A t \in Task : Place(t)'
<1> DEFINE E == [source[s] EXCEPT !.eof = TRUE]
<1>1. PICK T \in {E, Unuse(E)} : source' = [source EXCEPT ![s] = T]
  BY DEF ClientDone, ReadEnd, Finished
<1>2. source[s] \in Shape
  BY DEF Accounts, Shapes
<1>3. E \in Shape /\ E.commands = source[s].commands /\ E.open = source[s].open
  BY <1>2 DEF Shape
<1> HIDE DEF E
<1>4. Shut(source[s], T)
  BY <1>1, <1>3, Shutting DEF Shut
<1>5. /\ UNCHANGED <<life, onhold, installed, done_queue, freeing, abandoning>>
      /\ pc = "poll" /\ UNCHANGED cmd
  BY DEF ClientDone, ReadEnd, Polling, works, scans, loops
<1>6. cmd = NoCmd
  BY <1>5 DEF Accounts, Ordered, HandEmpty
<1> QED
  BY <1>1, <1>4, <1>5, <1>6, ShutPlaces

LEMMA ClosePlaces ==
  ASSUME Accounts, Scope, PlaceInv, NEW s \in Source, NEW fin \in BOOLEAN, ClientClose(s, fin)
  PROVE  \A t \in Task : Place(t)'
<1> DEFINE E == [source[s] EXCEPT !.eof = source[s].eof \/ (fin /\ source[s].open)]
<1>1. PICK T \in {E, Unuse(E)} : source' = [source EXCEPT ![s] = T]
  BY DEF ClientClose, Finished
<1>2. source[s] \in Shape
  BY DEF Accounts, Shapes
<1>3. E \in Shape /\ E.commands = source[s].commands /\ E.open = source[s].open
  <2>1. PICK b \in BOOLEAN : b = (source[s].eof \/ (fin /\ source[s].open))
    OBVIOUS
  <2>2. E = [source[s] EXCEPT !.eof = b]
    BY <2>1
  <2> HIDE DEF E
  <2>3. E \in Shape
    BY <1>2, <2>2, ShapeSet
  <2> QED
    BY <1>2, <2>2, <2>3 DEF Shape
<1> HIDE DEF E
<1>4. Shut(source[s], T)
  BY <1>1, <1>3, Shutting DEF Shut
<1>5. /\ UNCHANGED <<life, onhold, installed, done_queue, freeing>>
      /\ pc = "poll" /\ UNCHANGED cmd /\ abandoning = NoSource /\ freeing = NoTask
  BY DEF ClientClose, Polling, Idle, works, scans
<1>6. cmd = NoCmd
  BY <1>5 DEF Accounts, Ordered, HandEmpty
<1> QED
  BY <1>1, <1>4, <1>5, <1>6, ShutPlaces

LEMMA ClientFreePlaces ==
  ASSUME Accounts, Scope, PlaceInv, NEW s \in Source, ClientFree(s)
  PROVE  \A t \in Task : Place(t)'
<1>1. source[s] \in Shape
  BY DEF Accounts, Shapes
<1>2. /\ UNCHANGED <<life, onhold, installed, done_queue, freeing, abandoning>>
      /\ pc = "poll" /\ UNCHANGED cmd
      /\ source' = [source EXCEPT ![s] = Unref(source[s])]
  BY DEF ClientFree, Polling, works, scans, loops
<1>3. cmd = NoCmd
  BY <1>2 DEF Accounts, Ordered, HandEmpty
<1>4. Shut(source[s], Unref(source[s]))
  BY <1>1, Shutting
<1> QED
  BY <1>2, <1>3, <1>4, ShutPlaces

LEMMA DetachPlaces ==
  ASSUME Accounts, Scope, PlaceInv,
         AbandonEnd \/ Exhausted \/ \E s \in Source : DetachFinished(s)
  PROVE  \A t \in Task : Place(t)'
<1>1. \A s \in Source : source[s] \in Shape
  BY DEF Accounts, Shapes
<1>2. CASE AbandonEnd
  <2>1. PICK s \in Source : s = abandoning
    BY <1>2 DEF AbandonEnd, Scope
  <2>2. /\ UNCHANGED <<life, onhold, installed, done_queue, freeing>> /\ freeing = NoTask
        /\ pc = "poll" /\ UNCHANGED cmd
        /\ source' = [source EXCEPT ![s] = Detach(FlushCommands(source[s]))]
    BY <1>2, <2>1 DEF AbandonEnd, works, scans, PlaceInv, Phased
  <2>3. cmd = NoCmd
    BY <2>2 DEF Accounts, Ordered, HandEmpty
  <2>4. PICK T : T = Detach(FlushCommands(source[s]))
    OBVIOUS
  <2>5. Shut(source[s], T) /\ ~T.open /\ T.commands = <<>>
    BY <1>1, <2>4, Shutting
  <2> QED
    BY <2>1, <2>2, <2>3, <2>4, <2>5, ShutPlaces
<1>3. CASE Exhausted \/ \E s \in Source : DetachFinished(s)
  <2>1. /\ UNCHANGED <<life, onhold, installed, done_queue, freeing, abandoning>>
        /\ pc \in {"scan", "gettask"} /\ UNCHANGED cmd
    BY <1>3 DEF Exhausted, Serve, DetachFinished, works, loops, scans
  <2>2. cmd = NoCmd
    BY <2>1 DEF Accounts, Ordered, HandEmpty
  <2>3. CASE source' = source
    BY <2>1, <2>3, SamePlaces, <2>2 DEF HandSame, NoCmd
  <2>4. CASE source' # source
    <3>1. PICK s \in Source : source' = [source EXCEPT ![s] = Detach(source[s])]
      BY <1>3, <2>4 DEF Exhausted, DetachFinished, Scope
    <3>2. Shut(source[s], Detach(source[s]))
      BY <1>1, Shutting
    <3> QED
      BY <2>1, <2>2, <3>1, <3>2, ShutPlaces
  <2> QED
    BY <2>3, <2>4
<1> QED
  BY <1>2, <1>3

LEMMA PhasePlaces ==
  ASSUME Accounts, Scope, PlaceInv,
         GetTask \/ EndPoll \/ EndProbe \/ EndDone \/ StartScan \/ TakeNone \/ HandleCycle
  PROVE  \A t \in Task : Place(t)'
<1>1. UNCHANGED <<source, life, onhold, installed, done_queue, freeing, abandoning>>
  BY DEF GetTask, EndPoll, EndProbe, EndDone, Phase, StartScan, Serve, TakeNone, HandleCycle,
         works, loops
<1>2. HandSame
  <2>1. CASE GetTask \/ EndPoll \/ EndProbe \/ EndDone \/ TakeNone
    BY <2>1 DEF GetTask, EndPoll, EndProbe, EndDone, Phase, TakeNone, HandSame
  <2>2. CASE StartScan
    BY <2>2 DEF StartScan, Serve, Accounts, Ordered, HandEmpty, HandSame, NoCmd
  <2>3. CASE HandleCycle
    BY <2>3 DEF HandleCycle, HandSame
  <2> QED
    BY <2>1, <2>2, <2>3
<1> QED
  BY <1>1, <1>2, SamePlaces

LEMMA CrashPlaces ==
  ASSUME Accounts, Scope, PlaceInv, UNCHANGED <<source, works, scans, loops>>
  PROVE  PlaceInv'
<1>1. \A t \in Task : Place(t)'
  BY SamePlaces DEF works, scans, loops, HandSame
<1> QED
  BY <1>1 DEF PlaceInv, Phased, scans, loops

(* A client makes a source, which has submitted nothing yet.               *)
LEMMA AttachPlaces ==
  ASSUME Accounts, Scope, PlaceInv, NEW s \in Source, Attach(s)
  PROVE  \A t \in Task : Place(t)'
<1>1. PICK T : T = Fresh(2, TRUE)
  OBVIOUS
<1>2. /\ Kind[s] = "control" /\ client[s] = "none" /\ pc = "poll"
      /\ source' = [source EXCEPT ![s] = T]
      /\ UNCHANGED <<life, onhold, installed, done_queue, freeing, abandoning, src, cmd>>
  BY <1>1 DEF Attach, Polling, loops, works, scans
<1>3. source'[s] = T /\ (\A r \in Source \ {s} : source'[r] = source[r]) /\ source[s] \in Shape
  BY <1>2 DEF Accounts, Shapes
<1>4. SUFFICES ASSUME NEW t \in Task PROVE Place(t)'
  OBVIOUS
<1>5. Place(t) /\ SourceOf[t] \in Source
  BY SourcesAssumption DEF PlaceInv
<1>6. CASE SourceOf[t] = s
  <2>1. life[t] = "new" /\ Waits(t) = 0
    BY <1>2, <1>6 DEF Accounts, Submitted, Ordered, Tasking, Early, Waits
  <2>2. Count(source[s].commands, {TaskCmd(t)}) = 0
    BY <1>6, <2>1, WaitingType DEF Waits, Accounts
  <2>3. Count(T.commands, {TaskCmd(t)}) = 0
    <3>1. T.commands = <<CycleCmd>> /\ CycleCmd # TaskCmd(t)
      BY <1>1 DEF Fresh, CycleCmd, TaskCmd
    <3>2. CycleCmd \notin {TaskCmd(t)}
      BY <3>1
    <3> QED
      BY <3>1, <3>2, CountOne
  <2> QED
    BY <1>2, <1>3, <1>5, <1>6, <2>1, <2>2, <2>3, StillPlace DEF HandSame
<1>7. CASE SourceOf[t] # s
  BY <1>2, <1>3, <1>5, <1>7, StillPlace DEF HandSame
<1> QED
  BY <1>6, <1>7

(* Lines that are read are no tasks yet.                                   *)
LEMMA LinesPlaces ==
  ASSUME Accounts, Scope, PlaceInv, NEW s \in Source, NEW q, NextOf(s, q),
         source[s].cyclemon, NEW T, T.commands = AddLines(source[s], q).commands,
         T.open = source[s].open, source' = [source EXCEPT ![s] = T],
         life' = [t \in Task |-> IF Places(q, t) # {} THEN "line" ELSE life[t]],
         UNCHANGED <<src, cmd, onhold, installed, done_queue, freeing, abandoning>>
  PROVE  \A t \in Task : Place(t)'
<1>1. source'[s] = T /\ (\A r \in Source \ {s} : source'[r] = source[r]) /\ source[s] \in Shape
  BY DEF Accounts, Shapes
<1>2. SUFFICES ASSUME NEW t \in Task PROVE Place(t)'
  OBVIOUS
<1>3. Place(t) /\ SourceOf[t] \in Source
  BY SourcesAssumption DEF PlaceInv
<1>4. Count(T.commands, {TaskCmd(t)}) = Count(source[s].commands, {TaskCmd(t)})
  <2>1. PICK A : A = AddLines(source[s], q)
    OBVIOUS
  <2>2. q \in Seq(Task) /\ Distinct(q)
    BY DEF NextOf
  <2>3. Count(A.commands, {TaskCmd(t)}) = Count(source[s].commands, {TaskCmd(t)})
    BY <1>1, <2>1, <2>2, AddLinesKept
  <2> QED
    BY <2>1, <2>3
<1>5. Count(source'[SourceOf[t]].commands, {TaskCmd(t)})
      = Count(source[SourceOf[t]].commands, {TaskCmd(t)})
  BY <1>1, <1>3, <1>4
<1>6. life'[t] = life[t] \/ (life[t] \in Early /\ life'[t] # "alive")
  BY DEF NextOf, Places, Member, Early
<1> QED
  BY <1>1, <1>3, <1>5, <1>6, StillPlace DEF HandSame

LEMMA ReadPlaces ==
  ASSUME Accounts, Scope, PlaceInv, NEW s \in Source, ReadLine(s)
  PROVE  \A t \in Task : Place(t)'
<1>1. PICK q : q = SubSeq(Unsent(s), 1, 1)
  OBVIOUS
<1>2. 1 \in 0 .. Len(Unsent(s)) /\ q = <<Head(Unsent(s))>> /\ Head(Unsent(s)) \in Task
  BY <1>1, UnsentSeq DEF ReadLine
<1>3. PICK T : T = AddLines(source[s], q)
  OBVIOUS
<1>4. source[s].open /\ ~source[s].eof
  BY DEF ReadLine
<1>5. source[s] \in Shape /\ source[s].cyclemon /\ NextOf(s, q)
  BY <1>1, <1>2, <1>4, UsesType, NextLines DEF Balanced, Accounts
<1>6. T.commands = AddLines(source[s], q).commands /\ T.open = source[s].open
  BY <1>3, <1>5, AddLinesKept DEF NextOf
<1>7. source' = [source EXCEPT ![s] = T]
  BY <1>2, <1>3 DEF ReadLine, Accounts, Shapes
<1>8. life' = [t \in Task |-> IF Places(q, t) # {} THEN "line" ELSE life[t]]
  <2>1. \A t : Places(q, t) # {} <=> t = Head(Unsent(s))
    BY <1>2 DEF Places
  <2>2. life' = [life EXCEPT ![Head(Unsent(s))] = "line"]
    BY DEF ReadLine
  <2> QED
    BY <1>2, <2>1, <2>2 DEF Accounts, Shapes
<1>9. UNCHANGED <<src, cmd, onhold, installed, done_queue, freeing, abandoning>>
  BY DEF ReadLine, scans, loops
<1> QED
  BY <1>5, <1>6, <1>7, <1>8, <1>9, LinesPlaces

LEMMA TakePlaces ==
  ASSUME Accounts, Scope, PlaceInv, TakeChunk \/ TakeEnd
  PROVE  \A t \in Task : Place(t)'
<1>1. PICK s \in Source :
        /\ s = src /\ source[s].open /\ ~source[s].eof /\ Kind[s] = "file"
        /\ \E k \in 0 .. Len(Unsent(s)) :
             LET q == SubSeq(Unsent(s), 1, k)
                 A == AddLines(source[s], q)
                 E == [A EXCEPT !.eof = TRUE]
             IN  /\ source' \in {[source EXCEPT ![s] = A],
                                 [source EXCEPT ![s] = E],
                                 [source EXCEPT ![s] = Unuse(E)]}
                 /\ life' = [t \in Task |-> IF Places(q, t) # {} THEN "line" ELSE life[t]]
  BY TakeLines
<1>2. source[s].open /\ ~source[s].eof
  BY <1>1
<1>3. PICK k \in 0 .. Len(Unsent(s)) :
        LET q == SubSeq(Unsent(s), 1, k)
            A == AddLines(source[s], q)
            E == [A EXCEPT !.eof = TRUE]
        IN  /\ source' \in {[source EXCEPT ![s] = A],
                            [source EXCEPT ![s] = E],
                            [source EXCEPT ![s] = Unuse(E)]}
            /\ life' = [t \in Task |-> IF Places(q, t) # {} THEN "line" ELSE life[t]]
  BY <1>1
<1>4. PICK q : q = SubSeq(Unsent(s), 1, k)
  OBVIOUS
<1>5. PICK A : A = AddLines(source[s], q)
  OBVIOUS
<1>6. PICK E : E = [A EXCEPT !.eof = TRUE]
  OBVIOUS
<1>7. PICK T \in {A, E, Unuse(E)} : source' = [source EXCEPT ![s] = T]
  BY <1>3, <1>4, <1>5, <1>6
<1>8. source[s] \in Shape /\ source[s].cyclemon /\ NextOf(s, q)
  BY <1>2, <1>4, UsesType, NextLines DEF Balanced, Accounts
<1>9. A \in Shape /\ A.open = source[s].open
  BY <1>5, <1>8, AddLinesKept DEF NextOf
<1>10. E \in Shape /\ E.commands = A.commands /\ E.open = A.open
  BY <1>6, <1>9 DEF Shape
<1>11. T.commands = AddLines(source[s], q).commands /\ T.open = source[s].open
  BY <1>5, <1>7, <1>9, <1>10, UnuseKept
<1>12. life' = [t \in Task |-> IF Places(q, t) # {} THEN "line" ELSE life[t]]
  BY <1>3, <1>4
<1>13. UNCHANGED <<src, cmd, onhold, installed, done_queue, freeing, abandoning>>
  BY DEF TakeChunk, TakeEnd, loops
<1> QED
  BY <1>7, <1>8, <1>11, <1>12, <1>13, LinesPlaces

(* Shutdown flush: every source in the rotation is emptied and detached.   *)
LEMMA FlushPlaces ==
  ASSUME Accounts, Scope, PlaceInv, ShutdownFlush
  PROVE  \A t \in Task : Place(t)'
<1> DEFINE F == {s \in Source : rota.list[s] \in {"active", "blocked"}}
<1>1. /\ source' = [s \in Source |->
           CASE s \in F                     -> Detach(FlushCommands(source[s]))
             [] rota.list[s] = "finished"   -> Detach(source[s])
             [] OTHER                       -> source[s]]
      /\ life' = [t \in Task |-> IF life[t] = "line" /\ SourceOf[t] \in F
                                 THEN "freed" ELSE life[t]]
      /\ UNCHANGED <<onhold, installed, done_queue, freeing, abandoning, cmd>>
      /\ pc = "poll"
  BY DEF ShutdownFlush, Polling, works, loops, scans
<1>2. \A s \in Source :
        source'[s] \in {source[s], Detach(source[s]), Detach(FlushCommands(source[s]))}
  BY <1>1
<1> HIDE DEF F
<1>3. cmd = NoCmd
  BY <1>1 DEF Accounts, Ordered, HandEmpty
<1>4. SUFFICES ASSUME NEW t \in Task PROVE Place(t)'
  OBVIOUS
<1>5. PICK s \in Source : s = SourceOf[t]
  BY SourcesAssumption
<1>6. source[s] \in Shape
  BY DEF Accounts, Shapes
<1>7. Shut(source[s], source'[s])
  BY <1>2, <1>6, Shutting DEF Shut
<1>8. life'[t] = life[t] \/ (life[t] \in Early /\ life'[t] # "alive")
  BY <1>1 DEF Early
<1>9. Place(t)
  BY DEF PlaceInv
<1> QED
  BY <1>1, <1>3, <1>5, <1>7, <1>8, <1>9, ShutPlace

(* A command that gettask takes waits in its hand.                         *)
LEMMA PopPlaces ==
  ASSUME Accounts, Scope, PlaceInv, PopCommand
  PROVE  \A t \in Task : Place(t)'
<1>1. PICK s \in Source : s = src
  BY DEF PopCommand, Scope
<1>2. source[s] \in Shape /\ source[s].commands \in Seq(Commands) /\ source[s].commands # <<>>
  BY <1>1 DEF PopCommand, Accounts, Shapes, Shape
<1>3. PICK T : T = [source[s] EXCEPT !.commands = Tail(source[s].commands)]
  OBVIOUS
<1>4. T.commands = Tail(source[s].commands) /\ T.open = source[s].open
  BY <1>2, <1>3 DEF Shape
<1>5. /\ source' = [source EXCEPT ![s] = T] /\ cmd' = Head(source[s].commands)
      /\ UNCHANGED <<src, life, onhold, installed, done_queue, freeing, abandoning>>
      /\ pc = "scan"
  BY <1>1, <1>3 DEF PopCommand, works, loops
<1>6. source'[s] = T /\ \A r \in Source \ {s} : source'[r] = source[r]
  BY <1>5 DEF Accounts, Shapes
<1>7. cmd = NoCmd
  BY <1>5 DEF Accounts, Ordered, HandEmpty
<1>8. SUFFICES ASSUME NEW t \in Task PROVE Place(t)'
  OBVIOUS
<1>9. Place(t) /\ SourceOf[t] \in Source
  BY SourcesAssumption DEF PlaceInv
<1>10. Waits(t)' = Waits(t)
  <2>1. Hand(SourceOf[t], TaskCmd(t)) = 0
    BY <1>7 DEF Hand, TaskCmd, NoCmd
  <2>2. CASE SourceOf[t] = s
    <3>1. PICK P : P = {TaskCmd(t)}
      OBVIOUS
    <3>2. /\ Head(source[s].commands) \in P => Count(T.commands, P) = Count(source[s].commands, P) - 1
          /\ Head(source[s].commands) \notin P => Count(T.commands, P) = Count(source[s].commands, P)
      <4>1. Count(Tail(source[s].commands), P)
            = Count(source[s].commands, P) - IF Head(source[s].commands) \in P THEN 1 ELSE 0
        BY <1>2, CountEnds
      <4>2. Count(source[s].commands, P) \in Nat
        BY <1>2, Countable
      <4> QED
        BY <1>4, <4>1, <4>2
    <3>3. Hand(SourceOf[t], TaskCmd(t))' = IF Head(source[s].commands) \in P THEN 1 ELSE 0
      BY <1>1, <1>5, <2>2, <3>1 DEF Hand
    <3>4. Count(source[s].commands, P) \in Nat
      BY <1>2, Countable
    <3> QED
      BY <1>6, <2>1, <2>2, <3>1, <3>2, <3>3, <3>4 DEF Waits, Waiting
  <2>3. CASE SourceOf[t] # s
    <3>1. Hand(SourceOf[t], TaskCmd(t))' = 0
      BY <1>1, <1>5, <2>3 DEF Hand
    <3> QED
      BY <1>6, <1>9, <2>1, <2>3, <3>1 DEF Waits, Waiting
  <2> QED
    BY <2>2, <2>3
<1>11. source'[SourceOf[t]].open = source[SourceOf[t]].open
  BY <1>4, <1>6, <1>9
<1>12. Unmoved(t) /\ Aside(t)
  BY <1>5, <1>10, <1>11 DEF Unmoved, Aside
<1> QED
  BY <1>5, <1>9, <1>12, UnmovedPlace

-----------------------------------------------------------------------------
(* Steps that move one task.                                               *)

LEMMA PlacesCount ==
  ASSUME NEW S, NEW q \in Seq(S), NEW x
  PROVE  Places(q, x) = {} <=> Count(q, {x}) = 0
  BY CountType DEF Places

(* the done queue, when one task enters it or leaves it                    *)
LEMMA DonePlaces ==
  ASSUME NEW S, NEW q \in Seq(S), NEW x \in S, NEW u, u # x
  PROVE  /\ Places(Append(q, x), u) # {} <=> Places(q, u) # {}
         /\ Places(Without(q, x), u) # {} <=> Places(q, u) # {}
         /\ Places(Append(Without(q, x), x), u) # {} <=> Places(q, u) # {}
         /\ q # <<>> /\ x = Head(q) => (Places(Tail(q), u) # {} <=> Places(q, u) # {})
<1>1. PICK P : P = {u}
  OBVIOUS
<1>2. x \notin P
  BY <1>1
<1>3. Without(q, x) \in Seq(S) /\ Append(q, x) \in Seq(S)
  BY WithoutSeq
<1>4. \A z \in Seq(S) : Append(z, x) \in Seq(S) /\ Count(Append(z, x), P) = Count(z, P)
  <2> SUFFICES ASSUME NEW z \in Seq(S)
               PROVE  Append(z, x) \in Seq(S) /\ Count(Append(z, x), P) = Count(z, P)
    OBVIOUS
  <2>1. Count(Append(z, x), P) = Count(z, P) + 0
    BY <1>2, CountAppend
  <2>2. Count(z, P) \in Nat
    BY CountType
  <2> QED
    BY <2>1, <2>2
<1>5. Count(Without(q, x), P) = Count(q, P)
  BY <1>1, WithoutOne
<1>6. q # <<>> /\ x = Head(q) => Tail(q) \in Seq(S) /\ Count(Tail(q), P) = Count(q, P)
  <2> SUFFICES ASSUME q # <<>>, x = Head(q)
               PROVE  Tail(q) \in Seq(S) /\ Count(Tail(q), P) = Count(q, P)
    OBVIOUS
  <2>1. Tail(q) \in Seq(S) /\ Count(Tail(q), P) = Count(q, P) - 0
    BY <1>2, CountEnds
  <2>2. Count(q, P) \in Nat
    BY CountType
  <2> QED
    BY <2>1, <2>2
<1>7. \A z \in Seq(S) : Places(z, u) # {} <=> Count(z, P) # 0
  BY <1>1, PlacesCount
<1> QED
  BY <1>3, <1>4, <1>5, <1>6, <1>7

(* What neither waits nor is held is where it should be, when it runs or   *)
(* is through.                                                             *)
LEMMA RestPlace ==
  ASSUME NEW t \in Task, Waits(t)' = 0, Unheld(t)',
         Settled(t)' \/ life'[t] # "alive" \/ freeing' = t
  PROVE  Place(t)'
<1>1. OnceAt(t)'
  BY DEF OnceAt, Unheld
<1> QED
  BY <1>1 DEF Place, NotAgain, Somewhere

LEMMA DonePlace ==
  ASSUME Accounts, Scope, PlaceInv, NEW t \in Task,
         TaskDone(t) \/ AbandonTask(t) \/ ProcessDone(t)
  PROVE  \A u \in Task : Place(u)'
<1>1. UNCHANGED <<source, src, cmd, life, onhold, installed, abandoning>>
  BY DEF TaskDone, AbandonTask, ProcessDone, loops, scans
<1>2. \A u \in Task : Waits(u)' = Waits(u) /\ (Unheld(u)' <=> Unheld(u))
  BY <1>1 DEF Waits, Waiting, Hand, Unheld
<1>3. done_queue \in Seq(Task) /\ Listed /\ t # NoTask
  BY SourcesAssumption DEF Accounts, Shapes, Living
<1>4. SUFFICES ASSUME NEW u \in Task PROVE Place(u)'
  OBVIOUS
<1>5. Place(u)
  BY DEF PlaceInv
<1>6. CASE u # t
  <2>1. Places(done_queue', u) # {} <=> Places(done_queue, u) # {}
    <3>1. PICK q \in Seq(Task) : q = done_queue
      BY <1>3
    <3>2. /\ Places(Append(q, t), u) # {} <=> Places(q, u) # {}
          /\ Places(Without(q, t), u) # {} <=> Places(q, u) # {}
          /\ q # <<>> /\ t = Head(q) => (Places(Tail(q), u) # {} <=> Places(q, u) # {})
      BY <1>6, DonePlaces
    <3>3. done_queue' \in {Append(q, t), Without(q, t)} \/ (q # <<>> /\ t = Head(q) /\ done_queue' = Tail(q))
      BY <3>1 DEF TaskDone, AbandonTask, ProcessDone
    <3> QED
      BY <3>1, <3>2, <3>3
  <2>2. freeing' = u <=> freeing = u
    BY <1>6, SourcesAssumption DEF TaskDone, AbandonTask, ProcessDone, Idle, loops
  <2>3. Unmoved(u) /\ Aside(u)
    BY <1>1, <1>2, <2>1, <2>2 DEF Unmoved, Aside
  <2> QED
    BY <1>1, <1>5, <2>3, UnmovedPlace
<1>7. CASE u = t /\ TaskDone(t)
  <2>1. t \in installed /\ t \in installed'
    BY <1>1, <1>7 DEF TaskDone
  <2> QED
    BY <1>2, <1>5, <1>7, <2>1, RestPlace DEF Place, NotAgain, Settled
<1>8. CASE u = t /\ ProcessDone(t)
  <2>1. Places(done_queue, t) # {} /\ freeing' = t
    BY <1>3, <1>8 DEF ProcessDone, Places
  <2> QED
    BY <1>2, <1>5, <1>8, <2>1, RestPlace DEF Place, NotAgain, Settled, Through
<1>9. CASE u = t /\ AbandonTask(t)
  <2>1. abandoning = SourceOf[t] /\ freeing' = t /\ done_queue' = Without(done_queue, t)
    <3>1. PICK s \in Source : s = abandoning
      BY <1>9 DEF AbandonTask, Scope
    <3>2. source[s].tasks \in Seq(Task) /\ source[s].tasks # <<>> /\ t = Head(source[s].tasks)
      BY <1>9, <3>1 DEF AbandonTask, Accounts, Shapes, Shape
    <3>3. Count(source[s].tasks, {t}) # 0
      <4>1. Places(source[s].tasks, t) # {}
        BY <3>2 DEF Places
      <4> QED
        BY <3>2, <4>1, PlacesCount
    <3> QED
      BY <1>3, <1>9, <3>1, <3>3 DEF Listed, AbandonTask
  <2>2. Places(done_queue', t) # {} => Places(done_queue, t) # {}
    <3>1. Places(done_queue, t) = {} => Without(done_queue, t) = done_queue
      BY DEF Without
    <3> QED
      BY <2>1, <3>1
  <2>3. Settled(t)' => Settled(t)
    BY <1>1, <2>1, <2>2 DEF Settled, Through
  <2> QED
    BY <1>1, <1>2, <1>5, <1>9, <2>1, <2>3 DEF Place, OnceAt, NotAgain, Somewhere
<1> QED
  BY <1>6, <1>7, <1>8, <1>9

LEMMA OtherCmd ==
  ASSUME NEW t, NEW u, u # t
  PROVE  TaskCmd(u) # TaskCmd(t) /\ TaskCmd(t) \notin {TaskCmd(u)}
  BY DEF TaskCmd

(* What is in no hold list.                                                *)
LEMMA HeldNone ==
  ASSUME Scope, NEW t \in Task
  PROVE  Held(t) = {} <=> Unheld(t)
<1>1. \A b \in Task : onhold[b] \in Seq(Task)
  BY DEF Scope
<1>2. \A b \in Task : Places(onhold[b], t) = {} <=> Count(onhold[b], {t}) = 0
  BY <1>1, PlacesCount
<1>3. Held(t) = {} <=> \A b \in Task : Places(onhold[b], t) = {}
  <2>1. ASSUME NEW b \in Task, NEW i \in Places(onhold[b], t) PROVE <<b, i>> \in Held(t)
    BY <2>1 DEF Held
  <2>2. ASSUME NEW h \in Held(t) PROVE \E b \in Task : Places(onhold[b], t) # {}
    BY <2>2 DEF Held
  <2> QED
    BY <2>1, <2>2
<1> QED
  BY <1>2, <1>3 DEF Unheld

(* A halted task waits no more.                                            *)
LEMMA HaltPlaces ==
  ASSUME Accounts, Scope, PlaceInv, "halt_held" \notin Allow,
         NEW s \in Source, NEW t \in Task, HaltTask(s, t), source[s].open
  PROVE  \A u \in Task : Place(u)'
<1> DEFINE T == [source[s] EXCEPT !.commands = Without(source[s].commands, TaskCmd(t))]
<1>1. /\ pc = "poll" /\ SourceOf[t] = s /\ Unheld(t) /\ source' = [source EXCEPT ![s] = T]
      /\ done_queue' = Append(Without(done_queue, t), t)
      /\ UNCHANGED <<life, onhold, installed, src, cmd, freeing, abandoning>>
  BY HeldNone DEF HaltTask, Polling, scans, loops
<1>2. source[s] \in Shape /\ source[s].commands \in Seq(Commands) /\ done_queue \in Seq(Task)
  BY DEF Accounts, Shapes, Shape
<1>3. T.commands = Without(source[s].commands, TaskCmd(t)) /\ T.open = source[s].open
  BY <1>2 DEF Shape
<1> HIDE DEF T
<1>4. source'[s] = T /\ \A r \in Source \ {s} : source'[r] = source[r]
  BY <1>1 DEF Accounts, Shapes
<1>5. cmd = NoCmd
  BY <1>1 DEF Accounts, Ordered, HandEmpty
<1>6. SUFFICES ASSUME NEW u \in Task PROVE Place(u)'
  OBVIOUS
<1>7. Place(u) /\ SourceOf[u] \in Source
  BY SourcesAssumption DEF PlaceInv
<1>8. Hand(SourceOf[u], TaskCmd(u)) = 0 /\ Hand(SourceOf[u], TaskCmd(u))' = 0
  BY <1>1, <1>5 DEF Hand, TaskCmd, NoCmd
<1>9. /\ TaskCmd(t) = TaskCmd(u) /\ Count(source[s].commands, {TaskCmd(u)}) # 0
         => Count(T.commands, {TaskCmd(u)}) = Count(source[s].commands, {TaskCmd(u)}) - 1
      /\ TaskCmd(t) # TaskCmd(u) \/ Count(source[s].commands, {TaskCmd(u)}) = 0
         => Count(T.commands, {TaskCmd(u)}) = Count(source[s].commands, {TaskCmd(u)})
  <2>1. PICK q \in Seq(Commands) : q = source[s].commands
    BY <1>2
  <2>2. /\ TaskCmd(t) = TaskCmd(u) /\ Count(q, {TaskCmd(u)}) # 0
           => Count(Without(q, TaskCmd(t)), {TaskCmd(u)}) = Count(q, {TaskCmd(u)}) - 1
        /\ TaskCmd(t) # TaskCmd(u) \/ Count(q, {TaskCmd(u)}) = 0
           => Count(Without(q, TaskCmd(t)), {TaskCmd(u)}) = Count(q, {TaskCmd(u)})
    BY ONLY q \in Seq(Commands), WithoutOne, ZenonT(60)
  <2> QED
    BY <1>3, <2>1, <2>2
<1>10. CASE u # t
  <2>1. Count(source'[SourceOf[u]].commands, {TaskCmd(u)})
        = Count(source[SourceOf[u]].commands, {TaskCmd(u)})
    BY <1>4, <1>7, <1>9, <1>10, OtherCmd
  <2>2. Waits(u)' = Waits(u)
    BY <1>8, <2>1 DEF Waits, Waiting
  <2>3. Places(done_queue', u) # {} <=> Places(done_queue, u) # {}
    BY <1>1, <1>2, <1>10, DonePlaces
  <2>4. source'[SourceOf[u]].open => source[SourceOf[u]].open
    BY <1>3, <1>4, <1>7
  <2>5. Unmoved(u) /\ Aside(u)
    BY <1>1, <2>2, <2>3, <2>4 DEF Unmoved, Aside
  <2> QED
    BY <1>1, <1>7, <2>5, UnmovedPlace
<1>11. CASE u = t
  <2>1. Count(source[s].commands, {TaskCmd(u)}) \in {0, 1}
    <3>1. Waits(u) + Count(onhold[u], {u}) <= 1
      BY <1>7 DEF Place, OnceAt
    <3>2. Count(source[s].commands, {TaskCmd(u)}) \in Nat /\ Count(onhold[u], {u}) \in Nat
      BY <1>1, <1>11, WaitsType, HoldType DEF Accounts
    <3>3. Waits(u) = Count(source[s].commands, {TaskCmd(u)}) + 0
      BY <1>1, <1>8, <1>11 DEF Waits, Waiting
    <3> QED
      BY <3>1, <3>2, <3>3
  <2>2. Waits(u)' = 0
    BY <1>1, <1>4, <1>8, <1>9, <1>11, <2>1 DEF Waits, Waiting
  <2>3. Unheld(u)'
    BY <1>1, <1>11 DEF Unheld
  <2>4. Places(done_queue', u) # {}
    <3>1. PICK q \in Seq(Task) : q = Without(done_queue, t)
      BY <1>2, WithoutSeq
    <3>2. Append(q, t)[Len(q) + 1] = t /\ Len(q) + 1 \in DOMAIN Append(q, t)
      BY <3>1
    <3> QED
      BY <1>1, <1>11, <3>1, <3>2 DEF Places
  <2> QED
    BY <2>2, <2>3, <2>4, RestPlace DEF Settled, Through
<1> QED
  BY <1>10, <1>11

LEMMA PushedCommands ==
  ASSUME NEW S \in Shape, NEW t \in Task,
         NEW T, T = Push(S, TaskCmd(t)) \/ T = PushHead(S, TaskCmd(t))
  PROVE  /\ T \in Shape /\ T.open = S.open
         /\ \A P : TaskCmd(t) \notin P => Count(T.commands, P) = Count(S.commands, P)
         /\ \A P : TaskCmd(t) \in P => Count(T.commands, P) = Count(S.commands, P) + 1
<1>1. /\ T \in Shape /\ T.open = S.open
      /\ \A P : TaskCmd(t) \notin P => Count(T.commands, P) = Count(S.commands, P)
  BY PushKept
<1>2. ASSUME NEW P, TaskCmd(t) \in P
      PROVE  Count(T.commands, P) = Count(S.commands, P) + 1
  BY <1>2, PushKept
<1> QED
  BY <1>1, <1>2

(* One command more waits for t, and no other.                             *)
LEMMA PushedWaits ==
  ASSUME Shapes, NEW t \in Task, NEW s \in Source, s = SourceOf[t], NEW T,
         source' = [source EXCEPT ![s] = T], T.open = source[s].open, UNCHANGED <<src, cmd>>,
         \A P : TaskCmd(t) \notin P => Count(T.commands, P) = Count(source[s].commands, P),
         \A P : TaskCmd(t) \in P => Count(T.commands, P) = Count(source[s].commands, P) + 1
  PROVE  /\ Waits(t)' = Waits(t) + 1
         /\ \A u \in Task \ {t} : Waits(u)' = Waits(u)
         /\ \A u \in Task : source'[SourceOf[u]].open = source[SourceOf[u]].open
<1>1. source'[s] = T /\ \A r \in Source \ {s} : source'[r] = source[r]
  BY DEF Shapes
<1>2. \A r, c : Hand(r, c)' = Hand(r, c)
  BY DEF Hand
<1>3. Waits(t)' = Waits(t) + 1
  <2>1. PICK P : P = {TaskCmd(t)}
    OBVIOUS
  <2>2. Count(T.commands, P) = Count(source[s].commands, P) + 1
    BY <2>1
  <2>3. /\ Waits(t)' = Count(T.commands, P) + Hand(s, TaskCmd(t))
        /\ Waits(t) = Count(source[s].commands, P) + Hand(s, TaskCmd(t))
    BY <1>1, <1>2, <2>1 DEF Waits, Waiting
  <2>4. Count(source[s].commands, P) \in Nat /\ Hand(s, TaskCmd(t)) \in {0, 1}
    BY <2>1, WaitingType, HandType
  <2> QED
    BY <2>2, <2>3, <2>4
<1>4. ASSUME NEW u \in Task \ {t} PROVE Waits(u)' = Waits(u)
  <2>1. TaskCmd(t) \notin {TaskCmd(u)} /\ SourceOf[u] \in Source
    BY OtherCmd, SourcesAssumption
  <2>2. Count(T.commands, {TaskCmd(u)}) = Count(source[s].commands, {TaskCmd(u)})
    BY <2>1
  <2>3. Count(source'[SourceOf[u]].commands, {TaskCmd(u)})
        = Count(source[SourceOf[u]].commands, {TaskCmd(u)})
    BY <1>1, <2>1, <2>2
  <2> QED
    BY <1>2, <2>3 DEF Waits, Waiting
<1>5. \A u \in Task : source'[SourceOf[u]].open = source[SourceOf[u]].open
  BY <1>1, SourcesAssumption
<1> QED
  BY <1>3, <1>4, <1>5

(* A client's task waits, as a command of its source.                      *)
LEMMA CommandPlaces ==
  ASSUME Accounts, Scope, PlaceInv, NEW s \in Source, NEW t \in Task, Command2(s, t),
         source[s].open
  PROVE  \A u \in Task : Place(u)'
<1>1. PICK A : A = AddTask(source[s], t)
  OBVIOUS
<1>2. PICK S : S = Push(A, TaskCmd(t))
  OBVIOUS
<1>3. PICK T : T = IF source[s].cyclemon THEN [S EXCEPT !.cm = S.cm + 1] ELSE S
  OBVIOUS
<1>4. /\ source' = [source EXCEPT ![s] = T] /\ life' = [life EXCEPT ![t] = "alive"]
      /\ UNCHANGED <<onhold, installed, done_queue, src, cmd, freeing, abandoning>>
      /\ freeing = NoTask /\ abandoning = NoSource /\ client[s] = "attached"
  BY <1>1, <1>2, <1>3 DEF Command2, Polling, Idle, scans, loops
<1>5. SourceOf[t] = s /\ life[t] = "new"
  <2>1. PICK q : q = SubSeq(Unsent(s), 1, 1)
    OBVIOUS
  <2>2. 1 \in 0 .. Len(Unsent(s)) /\ q = <<t>>
    BY <2>1, UnsentSeq DEF Command2
  <2>3. NextOf(s, <<t>>)
    BY <2>1, <2>2, NextLines DEF Accounts
  <2>4. Member(<<t>>, t)
    BY DEF Member
  <2> QED
    BY <2>3, <2>4 DEF NextOf
<1>6. source[s] \in Shape
  BY DEF Accounts, Shapes
<1>7. A \in Shape /\ A.commands = source[s].commands /\ A.open = source[s].open
  BY <1>1, <1>6, AddTaskKept
<1>8. /\ S \in Shape /\ S.open = A.open
      /\ \A P : TaskCmd(t) \notin P => Count(S.commands, P) = Count(A.commands, P)
      /\ \A P : TaskCmd(t) \in P => Count(S.commands, P) = Count(A.commands, P) + 1
  <2>1. S = Push(A, TaskCmd(t)) \/ S = PushHead(A, TaskCmd(t))
    BY <1>2
  <2> QED
    BY ONLY <1>7, <2>1, t \in Task, PushedCommands
<1>9. T.commands = S.commands /\ T.open = S.open
  BY <1>3, <1>8 DEF Shape
<1>10. /\ T.open = source[s].open
       /\ \A P : TaskCmd(t) \notin P => Count(T.commands, P) = Count(source[s].commands, P)
       /\ \A P : TaskCmd(t) \in P => Count(T.commands, P) = Count(source[s].commands, P) + 1
  BY <1>7, <1>8, <1>9
<1>11. /\ Waits(t)' = Waits(t) + 1
       /\ \A u \in Task \ {t} : Waits(u)' = Waits(u)
       /\ \A u \in Task : source'[SourceOf[u]].open = source[SourceOf[u]].open
  <2>1. Shapes /\ s = SourceOf[t]
    BY <1>5 DEF Accounts
  <2> QED
    BY ONLY <1>4, <1>10, <2>1, t \in Task, s \in Source, PushedWaits
<1>12. life'[t] = "alive" /\ \A u \in Task \ {t} : life'[u] = life[u]
  BY <1>4 DEF Accounts, Shapes
<1>13. SUFFICES ASSUME NEW u \in Task PROVE Place(u)'
  OBVIOUS
<1>14. Place(u)
  BY DEF PlaceInv
<1>15. CASE u # t
  <2>1. Unmoved(u) /\ Aside(u)
    BY <1>4, <1>11, <1>12, <1>15 DEF Unmoved, Aside
  <2> QED
    BY <1>4, <1>14, <2>1, UnmovedPlace
<1>16. CASE u = t
  <2>1. Waits(t)' = 1
    <3>1. Waits(t) = 0
      BY <1>5 DEF Accounts, Ordered, Tasking, Early, Waits
    <3> QED
      BY <1>11, <3>1
  <2>2. Unheld(t)'
    <3>1. Unheld(t)
      BY <1>5 DEF Accounts, Ordered, HeldLate, Early, Unheld
    <3> QED
      BY <1>4, <3>1 DEF Unheld
  <2>3. t \notin installed /\ Places(done_queue, t) = {} /\ freeing # t
    <3>1. Count(done_queue, {t}) \in Nat /\ done_queue \in Seq(Task)
      BY CountType DEF Accounts, Shapes
    <3>2. Count(done_queue, {t}) + (IF freeing = t THEN 1 ELSE 0) <= 0
      BY <1>5 DEF Accounts, Living, DoneOnce
    <3>3. Count(done_queue, {t}) = 0 /\ freeing # t
      BY <3>1, <3>2
    <3>4. t \notin installed
      BY <1>5 DEF Accounts, Living, Alive
    <3> QED
      BY <3>1, <3>3, <3>4, PlacesCount
  <2>4. ~Settled(t)'
    BY <1>4, <1>12, <2>3 DEF Settled, Through
  <2>5. OnceAt(t)'
    BY <2>1, <2>2 DEF OnceAt, Unheld
  <2> QED
    BY <1>12, <1>16, <2>1, <2>2, <2>4, <2>5 DEF Place, NotAgain, Somewhere
<1> QED
  BY <1>15, <1>16

(* The task that was put on hold last waits again.                         *)
LEMMA UnholdPlaces ==
  ASSUME Accounts, Scope, PlaceInv, Unhold, source[SourceOf[Last(onhold[freeing])]].open
  PROVE  \A u \in Task : Place(u)'
<1>1. PICK b \in Task : b = freeing
  BY DEF Unhold, Scope
<1>2. onhold[b] \in Seq(Task) /\ onhold[b] # <<>> /\ onhold \in [Task -> Seq(Task)]
  BY <1>1 DEF Unhold, Scope
<1>3. PICK t \in Task : t = Last(onhold[b])
  BY <1>1, HeldTask DEF Unhold
<1>4. PICK s \in Source : s = SourceOf[t]
  BY SourcesAssumption
<1>5. PICK T : T = PushHead(source[s], TaskCmd(t))
  OBVIOUS
<1>6. /\ onhold' = [onhold EXCEPT ![b] = Front(onhold[b])]
      /\ source' = [source EXCEPT ![s] = T]
      /\ UNCHANGED <<life, installed, done_queue, src, cmd, freeing, abandoning>>
  BY <1>1, <1>2, <1>3, <1>4, <1>5 DEF Unhold, Accounts, Shapes, scans, loops
<1>7. /\ T.open = source[s].open
      /\ \A P : TaskCmd(t) \notin P => Count(T.commands, P) = Count(source[s].commands, P)
      /\ \A P : TaskCmd(t) \in P => Count(T.commands, P) = Count(source[s].commands, P) + 1
  <2>1. source[s] \in Shape
    BY DEF Accounts, Shapes
  <2>2. PICK S \in Shape : S = source[s]
    BY <2>1
  <2>3. T = Push(S, TaskCmd(t)) \/ T = PushHead(S, TaskCmd(t))
    BY <1>5, <2>2
  <2>4. /\ T.open = S.open
        /\ \A P : TaskCmd(t) \notin P => Count(T.commands, P) = Count(S.commands, P)
        /\ \A P : TaskCmd(t) \in P => Count(T.commands, P) = Count(S.commands, P) + 1
    BY ONLY S \in Shape, <2>3, t \in Task, PushedCommands
  <2> QED
    BY <2>2, <2>4
<1>8. /\ Waits(t)' = Waits(t) + 1
      /\ \A u \in Task \ {t} : Waits(u)' = Waits(u)
      /\ \A u \in Task : source'[SourceOf[u]].open = source[SourceOf[u]].open
  <2>1. Shapes /\ UNCHANGED <<src, cmd>>
    BY <1>6 DEF Accounts
  <2> QED
    BY ONLY <1>4, <1>6, <1>7, <2>1, t \in Task, s \in Source, PushedWaits
<1>9. onhold'[b] = Front(onhold[b]) /\ \A c \in Task \ {b} : onhold'[c] = onhold[c]
  BY <1>2, <1>6
<1>10. \A u : /\ t = u => Count(onhold'[b], {u}) = Count(onhold[b], {u}) - 1
              /\ t # u => Count(onhold'[b], {u}) = Count(onhold[b], {u})
  BY <1>2, <1>3, <1>9, OneLast
<1>11. SUFFICES ASSUME NEW u \in Task PROVE Place(u)'
  OBVIOUS
<1>12. Place(u)
  BY DEF PlaceInv
<1>13. CASE u # t
  <2>1. \A c \in Task : Count(onhold'[c], {u}) = Count(onhold[c], {u})
    BY <1>9, <1>10, <1>13
  <2>2. Unmoved(u) /\ Aside(u)
    BY <1>6, <1>8, <1>13, <2>1 DEF Unmoved, Aside
  <2> QED
    BY <1>6, <1>12, <2>2, UnmovedPlace
<1>14. CASE u = t
  <2>1. Waits(t) \in Nat /\ \A c \in Task : Count(onhold[c], {t}) \in Nat
    BY WaitsType, HoldType DEF Accounts
  <2>2. Count(onhold[b], {t}) # 0
    <3>1. Places(onhold[b], t) # {}
      <4>1. Len(onhold[b]) \in DOMAIN onhold[b] /\ onhold[b][Len(onhold[b])] = t
        BY <1>2, <1>3 DEF Last
      <4> QED
        BY <4>1 DEF Places
    <3> QED
      BY <1>2, <3>1, PlacesCount
  <2>3. /\ Waits(t) + Count(onhold[b], {t}) <= 1
        /\ \A c \in Task \ {b} : Count(onhold[c], {t}) = 0
    BY <1>12, <1>14, <2>2 DEF Place, OnceAt
  <2>4. Waits(t) = 0 /\ Count(onhold[b], {t}) = 1
    <3>1. PICK n \in Nat : n = Count(onhold[b], {t})
      BY <2>1
    <3>2. PICK m \in Nat : m = Waits(t)
      BY <2>1
    <3> QED
      BY <2>2, <2>3, <3>1, <3>2
  <2>5. Waits(t)' = 1 /\ Unheld(t)'
    <3>1. Count(onhold'[b], {t}) = 0
      BY <1>10, <2>4
    <3>2. \A c \in Task \ {b} : Count(onhold'[c], {t}) = 0
      BY <1>9, <2>3
    <3> QED
      BY <1>8, <2>4, <3>1, <3>2 DEF Unheld
  <2>6. ~Settled(t) /\ life[t] = "alive"
    BY <1>12, <1>14, <2>2 DEF Place, NotAgain, Unheld
  <2>7. ~Settled(t)' /\ life'[t] = "alive"
    BY <1>6, <2>6 DEF Settled, Through
  <2>8. OnceAt(t)'
    BY <2>5 DEF OnceAt, Unheld
  <2> QED
    BY <1>14, <2>5, <2>7, <2>8 DEF Place, NotAgain, Somewhere
<1> QED
  BY <1>13, <1>14

(* A task on hold, or none: what handling the command at hand does.        *)
LEMMA HandlePlaces ==
  ASSUME Accounts, Scope, PlaceInv, NEW s \in Source, NEW t \in Task,
         pc = "handle", s = src, SourceOf[t] = s, cmd = TaskCmd(t) \/ (cmd = ProbeCmd(t) /\ life[t] = "line"),
         cmd' = NoCmd, InstallOrHold(t), UNCHANGED <<done_queue, freeing, abandoning>>,
         life'[t] = "alive", \A u \in Task \ {t} : life'[u] = life[u],
         \A r \in Source : /\ source'[r].commands = source[r].commands
                           /\ source'[r].open = source[r].open
  PROVE  \A u \in Task : Place(u)'
<1>1. SUFFICES ASSUME NEW u \in Task PROVE Place(u)'
  OBVIOUS
<1>2. Place(u) /\ SourceOf[u] \in Source
  BY SourcesAssumption DEF PlaceInv
<1>3. Hand(SourceOf[u], TaskCmd(u))' = 0
  BY DEF Hand, NoCmd, TaskCmd
<1>4. Count(source[SourceOf[u]].commands, {TaskCmd(u)}) \in Nat
  BY WaitsType DEF Accounts
<1>5. Waits(u)' = Count(source[SourceOf[u]].commands, {TaskCmd(u)})
  <2>1. Waits(u)' = Count(source[SourceOf[u]].commands, {TaskCmd(u)}) + 0
    BY <1>2, <1>3 DEF Waits, Waiting
  <2> QED
    BY <1>4, <2>1
<1>6. onhold \in [Task -> Seq(Task)] /\ Blocking
  BY DEF Scope, Accounts, Living
<1>7. CASE u # t
  <2>1. Hand(SourceOf[u], TaskCmd(u)) = 0
    BY <1>7, OtherCmd DEF Hand, ProbeCmd, TaskCmd
  <2>2. Waits(u)' = Waits(u)
    <3>1. Waits(u) = Count(source[SourceOf[u]].commands, {TaskCmd(u)}) + 0
      BY <2>1 DEF Waits, Waiting
    <3> QED
      BY <1>4, <1>5, <3>1
  <2>3. /\ installed' \in {installed, installed \cup {t}}
        /\ \A b \in Task : Count(onhold'[b], {u}) = Count(onhold[b], {u})
    BY <1>6, <1>7, InstallKept
  <2>4. Unmoved(u) /\ Aside(u)
    BY <1>2, <1>7, <2>2, <2>3 DEF Unmoved, Aside
  <2> QED
    BY <1>2, <2>4, UnmovedPlace
<1>8. CASE u = t
  <2>1. Waits(t)' = 0 /\ Unheld(t) /\ ~Settled(t)
    <3>1. CASE cmd = TaskCmd(t)
      <4>1. Hand(s, TaskCmd(t)) = 1
        BY <3>1 DEF Hand
      <4>2. Waits(t) = Count(source[s].commands, {TaskCmd(t)}) + 1
        BY <4>1 DEF Waits, Waiting
      <4>3. \A b \in Task : Count(onhold[b], {t}) \in Nat /\ Waits(t) + Count(onhold[b], {t}) <= 1
        BY <1>2, <1>8, HoldType DEF Place, OnceAt
      <4>4. Count(source[s].commands, {TaskCmd(t)}) = 0 /\ Unheld(t)
        <5>1. PICK n \in Nat : n = Count(source[s].commands, {TaskCmd(t)})
          BY <1>4, <1>8
        <5>2. \A b \in Task : Count(onhold[b], {t}) \in Nat /\ n + 1 + Count(onhold[b], {t}) <= 1
          BY <4>2, <4>3, <5>1
        <5>3. \A b \in Task : n = 0 /\ Count(onhold[b], {t}) = 0
          <6> SUFFICES ASSUME NEW b \in Task PROVE n = 0 /\ Count(onhold[b], {t}) = 0
            OBVIOUS
          <6>1. PICK m \in Nat : m = Count(onhold[b], {t})
            BY <5>2
          <6> QED
            BY <5>2, <6>1
        <5> QED
          BY <5>1, <5>3 DEF Unheld
      <4>5. Waits(t) = 1
        BY <4>2, <4>4
      <4> QED
        BY <1>2, <1>5, <1>8, <4>4, <4>5 DEF Place, NotAgain
    <3>2. CASE cmd = ProbeCmd(t) /\ life[t] = "line"
      <4>1. Hand(s, TaskCmd(t)) = 0
        BY <3>2 DEF Hand, ProbeCmd, TaskCmd
      <4>2. Waits(t) = Count(source[s].commands, {TaskCmd(t)}) + 0
        BY <4>1 DEF Waits, Waiting
      <4>3. Waits(t) = 0 /\ Unheld(t)
        BY <3>2 DEF Accounts, Ordered, Tasking, HeldLate, Early, Unheld, Waits
      <4>4. ~Settled(t)
        <5>1. Count(done_queue, {t}) \in Nat /\ done_queue \in Seq(Task)
          BY CountType DEF Accounts, Shapes
        <5>2. Count(done_queue, {t}) + (IF freeing = t THEN 1 ELSE 0) <= 0
          BY <3>2 DEF Accounts, Living, DoneOnce
        <5>3. Count(done_queue, {t}) = 0 /\ freeing # t
          BY <5>1, <5>2
        <5>4. Places(done_queue, t) = {}
          BY <5>1, <5>3, PlacesCount
        <5>5. t \notin installed
          BY <3>2 DEF Accounts, Living, Alive
        <5> QED
          BY <3>2, <5>3, <5>4, <5>5 DEF Settled, Through
      <4> QED
        BY <1>4, <1>5, <1>8, <4>2, <4>3, <4>4
    <3> QED
      BY <3>1, <3>2
  <2>2. CASE t \in installed' /\ UNCHANGED onhold
    <3>1. Unheld(t)'
      BY <2>1, <2>2 DEF Unheld
    <3> QED
      BY <1>8, <2>1, <2>2, <3>1, RestPlace DEF Settled
  <2>3. CASE t \notin installed' \/ onhold' # onhold
    <3>1. PICK b \in SigBlock(t) : onhold' = [onhold EXCEPT ![b] = Append(@, t)]
      BY <2>3 DEF InstallOrHold
    <3>2. b \in Task /\ installed' = installed
      BY <2>3, <3>1 DEF InstallOrHold, SigBlock, Accounts, Shapes
    <3>3. /\ onhold'[b] = Append(onhold[b], t) /\ onhold[b] \in Seq(Task)
          /\ \A c \in Task \ {b} : onhold'[c] = onhold[c]
      BY <1>6, <3>1, <3>2
    <3>4. Count(onhold'[b], {t}) = 1
      <4>1. Count(onhold[b], {t}) = 0
        BY <2>1, <3>2 DEF Unheld
      <4>2. PICK q \in Seq(Task) : q = onhold[b]
        BY <3>3
      <4>3. Count(Append(q, t), {t}) = Count(q, {t}) + 1
        BY ONLY q \in Seq(Task), t \in Task, OneMore
      <4> QED
        BY <3>3, <4>1, <4>2, <4>3
    <3>5. \A c \in Task \ {b} : Count(onhold'[c], {t}) = 0
      BY <2>1, <3>3 DEF Unheld
    <3>6. OnceAt(t)'
      <4> SUFFICES ASSUME NEW c \in Task
                   PROVE  /\ Waits(t)' + Count(onhold'[c], {t}) <= 1
                          /\ Count(onhold'[c], {t}) # 0 =>
                               \A d \in Task \ {c} : Count(onhold'[d], {t}) = 0
        BY DEF OnceAt
      <4> QED
        BY <2>1, <3>4, <3>5
    <3>7. ~Settled(t)' /\ ~Unheld(t)'
      <4>1. ~Unheld(t)'
        BY <3>2, <3>4 DEF Unheld
      <4>2. freeing' # t
        BY SourcesAssumption DEF PlaceInv, Phased
      <4> QED
        BY <2>1, <3>2, <4>1 DEF Settled, Through
    <3> QED
      BY <1>8, <2>1, <3>6, <3>7 DEF Place, NotAgain, Somewhere
  <2> QED
    BY <2>2, <2>3
<1> QED
  BY <1>7, <1>8

(* gettask handles the command in its hand.                                *)
LEMMA HandleTaskPlaces ==
  ASSUME Accounts, Scope, PlaceInv, NEW t \in Task, HandleTask(t), life[t] # "freed"
  PROVE  \A u \in Task : Place(u)'
<1>1. PICK s \in Source : s = src
  BY DEF HandleTask, Scope
<1>2. /\ pc = "handle" /\ cmd = TaskCmd(t) /\ cmd' = NoCmd /\ InstallOrHold(t)
      /\ UNCHANGED <<source, life, done_queue, freeing, abandoning>>
  BY DEF HandleTask, loops
<1>3. SourceOf[t] = s /\ life[t] = "alive"
  <2>1. Hand(s, TaskCmd(t)) = 1
    BY <1>1, <1>2 DEF Hand
  <2>2. Waiting(s, TaskCmd(t)) # 0
    <3>1. Count(source[s].commands, {TaskCmd(t)}) \in Nat
      BY WaitingType DEF Accounts
    <3> QED
      BY <2>1, <3>1 DEF Waiting
  <2>3. SourceOf[t] = s /\ life[t] \notin Early
    BY <2>2 DEF Accounts, Ordered, Tasking
  <2> QED
    BY <2>3 DEF Early, Accounts, Shapes
<1> QED
  BY <1>1, <1>2, <1>3, HandlePlaces

LEMMA HandleProbePlaces ==
  ASSUME Accounts, Scope, PlaceInv, NEW t \in Task, HandleProbe(t)
  PROVE  \A u \in Task : Place(u)'
<1>1. PICK s \in Source : s = src
  BY DEF HandleProbe, Scope
<1>2. PICK T : T = AddTask(source[s], t)
  OBVIOUS
<1>3. /\ pc = "handle" /\ cmd = ProbeCmd(t) /\ cmd' = NoCmd /\ InstallOrHold(t)
      /\ source' = [source EXCEPT ![s] = T] /\ life' = [life EXCEPT ![t] = "alive"]
      /\ UNCHANGED <<done_queue, freeing, abandoning>>
  BY <1>1, <1>2 DEF HandleProbe, loops, Accounts, Shapes
<1>4. SourceOf[t] = s /\ life[t] = "line"
  <2>1. Hand(s, ProbeCmd(t)) = 1
    BY <1>1, <1>3 DEF Hand
  <2>2. Count(source[s].commands, {ProbeCmd(t)}) \in Nat
    BY WaitingType DEF Accounts
  <2>3. Waiting(s, ProbeCmd(t)) = Count(source[s].commands, {ProbeCmd(t)}) + 1
    BY <2>1 DEF Waiting
  <2>4. Waiting(s, ProbeCmd(t)) <= IF SourceOf[t] = s /\ life[t] = "line" THEN 1 ELSE 0
    BY DEF Accounts, Ordered, Probing
  <2> QED
    BY <2>2, <2>3, <2>4
<1>5. T.commands = source[s].commands /\ T.open = source[s].open
  <2>1. source[s] \in Shape
    BY DEF Accounts, Shapes
  <2> QED
    BY <1>2, <2>1, AddTaskKept
<1>6. \A r \in Source : /\ source'[r].commands = source[r].commands
                        /\ source'[r].open = source[r].open
  BY <1>3, <1>5 DEF Accounts, Shapes
<1>7. life'[t] = "alive" /\ \A u \in Task \ {t} : life'[u] = life[u]
  BY <1>3 DEF Accounts, Shapes
<1> QED
  BY <1>1, <1>3, <1>4, <1>6, <1>7, HandlePlaces

(* A task that is freed is nowhere after, or its commands go with the rest *)
(* of its source's.                                                        *)
LEMMA FreePlaces ==
  ASSUME Accounts, Scope, PlaceInv, FreeTask, life' # life
  PROVE  \A u \in Task : Place(u)'
<1>1. PICK t \in Task : t = freeing
  BY DEF FreeTask, Scope
<1>2. PICK s \in Source : s = SourceOf[t]
  BY SourcesAssumption
<1>3. PICK R \in Shape : R = source[s]
  BY DEF Accounts, Shapes
<1>4. PICK k \in {0, 1} : k = IF t \in uses THEN 1 ELSE 0
  OBVIOUS
<1>5. PICK S : S = LoseTask(R, t, k)
  OBVIOUS
<1>6. /\ SourceTaskFree(s, S) /\ life' = [life EXCEPT ![t] = "freed"]
      /\ onhold' = [b \in Task |-> Without(onhold[b], t)]
      /\ installed' = installed \ {t} /\ freeing' = NoTask
      /\ UNCHANGED <<done_queue, src, cmd, abandoning>>
  BY <1>1, <1>2, <1>3, <1>4, <1>5 DEF FreeTask, LoseTask, Crash, works, scans
<1>7. pc \in {"poll", "done"} /\ freeing # NoTask
  BY <1>1, SourcesAssumption DEF PlaceInv, Phased
<1>8. cmd = NoCmd
  BY <1>7 DEF Accounts, Ordered, HandEmpty
<1>9. /\ Count(done_queue, {t}) = 0 /\ life[t] = "alive" /\ Count(R.tasks, {t}) = 1
  <2>1. Count(done_queue, {t}) \in Nat
    BY CountType DEF Accounts, Shapes
  <2>2. Count(done_queue, {t}) + 1 <= IF life[t] = "alive" THEN 1 ELSE 0
    BY <1>1 DEF Accounts, Living, DoneOnce
  <2>3. Count(done_queue, {t}) = 0 /\ life[t] = "alive"
    BY <2>1, <2>2
  <2> QED
    BY <1>2, <1>3, <2>3 DEF Accounts, Living, Listed
<1>10. PICK T : source' = [source EXCEPT ![s] = T] /\ Shut(R, T)
  <2>1. S \in Shape /\ S.commands = R.commands /\ S.open = R.open
    BY ONLY <1>5, <1>9, R \in Shape, t \in Task, k \in {0, 1}, LoseTaskKept
  <2>2. PICK U : U = Unuse(S)
    OBVIOUS
  <2>3. U \in Shape /\ Shut(S, U) /\ Shut(U, Detach(U))
    BY <2>1, <2>2, UnuseKept, Shutting DEF Kept
  <2>4. source' = [source EXCEPT ![s] = S] \/ source' = [source EXCEPT ![s] = Detach(U)]
    BY <1>6, <2>2 DEF SourceTaskFree
  <2>5. Shut(R, S) /\ Shut(R, Detach(U))
    BY <2>1, <2>3 DEF Shut
  <2> QED
    BY <2>4, <2>5
<1>11. source'[s] = T /\ \A r \in Source \ {s} : source'[r] = source[r]
  BY <1>10 DEF Accounts, Shapes
<1>12. life'[t] = "freed" /\ \A u \in Task \ {t} : life'[u] = life[u]
  BY <1>6 DEF Accounts, Shapes
<1>13. ASSUME NEW u \in Task
       PROVE  /\ Waits(u)' = Waits(u) \/ (Waits(u)' = 0 /\ ~source'[SourceOf[u]].open)
              /\ source'[SourceOf[u]].open => source[SourceOf[u]].open
  <2>1. Hand(SourceOf[u], TaskCmd(u)) = 0 /\ Hand(SourceOf[u], TaskCmd(u))' = 0
    BY <1>6, <1>8 DEF Hand, TaskCmd, NoCmd
  <2>2. SourceOf[u] \in Source
    BY SourcesAssumption
  <2>3. Shut(source[SourceOf[u]], source'[SourceOf[u]])
    BY <1>3, <1>10, <1>11, <2>2 DEF Shut
  <2> QED
    BY <2>1, <2>3, CountEmpty DEF Shut, Waits, Waiting
<1>14. ASSUME NEW u \in Task, NEW b \in Task
       PROVE  /\ u # t => Count(onhold'[b], {u}) = Count(onhold[b], {u})
              /\ u = t /\ Count(onhold[b], {t}) <= 1 => Count(onhold'[b], {t}) = 0
  <2>1. PICK q \in Seq(Task) : q = onhold[b]
    BY DEF Scope
  <2>2. /\ t = u /\ Count(q, {u}) # 0 => Count(Without(q, t), {u}) = Count(q, {u}) - 1
        /\ t # u \/ Count(q, {u}) = 0 => Count(Without(q, t), {u}) = Count(q, {u})
    BY ONLY q \in Seq(Task), WithoutOne, ZenonT(60)
  <2>3. Count(q, {u}) \in Nat /\ onhold'[b] = Without(q, t)
    BY <1>6, <2>1, CountType
  <2>4. CASE u # t
    BY <2>1, <2>2, <2>3, <2>4
  <2>5. CASE u = t
    <3>1. PICK n \in Nat : n = Count(q, {t})
      BY <2>3, <2>5
    <3>2. PICK m : m = Count(Without(q, t), {t})
      OBVIOUS
    <3>3. (n # 0 => m = n - 1) /\ (n = 0 => m = n)
      BY <2>2, <2>5, <3>1, <3>2
    <3>4. n <= 1 => m = 0
      BY <3>1, <3>3
    <3> QED
      BY <2>1, <2>3, <2>5, <3>1, <3>2, <3>4
  <2> QED
    BY <2>4, <2>5
<1>15. SUFFICES ASSUME NEW u \in Task PROVE Place(u)'
  OBVIOUS
<1>16. Place(u)
  BY DEF PlaceInv
<1>17. CASE u # t
  <2>1. Unmoved(u)
    BY <1>6, <1>12, <1>13, <1>17 DEF Unmoved
  <2>2. Aside(u)
    BY <1>1, <1>6, <1>14, <1>17, SourcesAssumption DEF Aside
  <2> QED
    BY <1>6, <1>16, <2>1, <2>2, UnmovedPlace
<1>18. CASE u = t
  <2>1. Waits(t) \in Nat /\ \A b \in Task : Count(onhold[b], {t}) \in Nat
    BY WaitsType, HoldType DEF Accounts
  <2>2. ASSUME NEW b \in Task
        PROVE  Waits(t) <= 1 /\ Count(onhold[b], {t}) <= 1
    <3>1. Waits(t) + Count(onhold[b], {t}) <= 1
      BY <1>16, <1>18 DEF Place, OnceAt
    <3>2. PICK m \in Nat : m = Count(onhold[b], {t})
      BY <2>1
    <3> QED
      BY <2>1, <3>1, <3>2
  <2>3. Unheld(t)'
    BY <1>14, <2>2 DEF Unheld
  <2>4. CASE abandoning # SourceOf[t]
    <3>1. Waits(t) = 0
      BY <1>1, <1>16, <1>18, <2>4 DEF Place, NotAgain, Settled, Through
    <3>2. Waits(t)' = 0
      BY <1>13, <3>1
    <3> QED
      BY <1>12, <1>18, <2>3, <3>2, RestPlace
  <2>5. CASE abandoning = SourceOf[t]
    <3>1. Waits(t)' \in {0, 1}
      BY <1>13, <2>1, <2>2
    <3>2. ~Settled(t)'
      <4>1. done_queue \in Seq(Task) /\ Places(done_queue, t) = {}
        BY <1>9, PlacesCount DEF Accounts, Shapes
      <4> QED
        BY <1>6, <2>5, <4>1 DEF Settled, Through
    <3>3. OnceAt(t)'
      BY <2>3, <3>1 DEF OnceAt, Unheld
    <3> QED
      BY <1>12, <1>18, <2>3, <3>2, <3>3 DEF Place, NotAgain, Somewhere
  <2> QED
    BY <2>4, <2>5
<1> QED
  BY <1>17, <1>18

-----------------------------------------------------------------------------
(* Every step keeps every task where it should be.                         *)
LEMMA NextPlaced ==
  ASSUME Accounts, Scope, PlaceInv, "halt_held" \notin Allow, [Next]_vars
  PROVE  \A t \in Task : Place(t)'
<1>1. CASE UNCHANGED <<source, works, scans, loops>>
  BY <1>1, CrashPlaces DEF PlaceInv
<1>2. CASE ~UNCHANGED <<source, works, scans, loops>> /\ Next
  <2>1. ASSUME NEW s \in Source, NEW t \in Task, Command2(s, t) \/ HaltTask(s, t)
        PROVE  \A u \in Task : Place(u)'
    <3>1. source[s].open
      BY <1>2, <2>1 DEF Command2, HaltTask, Crash
    <3> QED
      BY <2>1, <3>1, CommandPlaces, HaltPlaces
  <2>2. ASSUME NEW s \in Source, ClientOp(s) \/ ReadLine(s) \/ ReadEnd(s)
        PROVE  \A u \in Task : Place(u)'
    BY <2>1, <2>2, AttachPlaces, EndPlaces, ClosePlaces, ClientFreePlaces, ReadPlaces DEF ClientOp
  <2>3. CASE MainStep
    <3>1. CASE Unhold
      <4>1. source[SourceOf[Last(onhold[freeing])]].open
        BY <1>2, <3>1 DEF Unhold, Crash
      <4> QED
        BY <3>1, <4>1, UnholdPlaces
    <3>2. CASE FreeTask
      <4>1. life' # life
        <5>1. life' = [life EXCEPT ![freeing] = "freed"] /\ freeing \in Task
          BY <1>2, <3>2 DEF FreeTask, Crash, Scope
        <5>2. life[freeing] = "alive"
          <6>1. PICK t \in Task : t = freeing
            BY <5>1
          <6>2. Count(done_queue, {t}) \in Nat
            BY CountType DEF Accounts, Shapes
          <6>3. Count(done_queue, {t}) + 1 <= IF life[t] = "alive" THEN 1 ELSE 0
            BY <6>1 DEF Accounts, Living, DoneOnce
          <6> QED
            BY <6>1, <6>2, <6>3
        <5> QED
          BY <5>1, <5>2 DEF Accounts, Shapes
      <4> QED
        BY <3>2, <4>1, FreePlaces
    <3>3. ASSUME NEW t \in Task, HandleTask(t)
          PROVE  \A u \in Task : Place(u)'
      <4>1. life[t] # "freed"
        BY <1>2, <3>3 DEF HandleTask, Crash
      <4> QED
        BY <3>3, <4>1, HandleTaskPlaces
    <3> QED
      BY <2>3, <3>1, <3>2, <3>3, DetachPlaces, PhasePlaces, PopPlaces, TakePlaces, DonePlace,
         HandleProbePlaces DEF MainStep
  <2> QED
    BY <1>2, <2>2, <2>3, FlushPlaces, DonePlace, PhasePlaces DEF Next
<1> QED
  BY <1>1, <1>2 DEF vars, works, scans, loops

LEMMA NextPhased ==
  ASSUME Phased, Scope, [Next]_vars
  PROVE  Phased'
<1>1. ASSUME NEW s \in Source, ClientOp(s) \/ ReadLine(s) \/ ReadEnd(s)
      PROVE  Phased'
  <2>1. ASSUME NEW t \in Task, Command2(s, t) \/ HaltTask(s, t)
        PROVE  Phased'
    BY <2>1 DEF Command2, HaltTask, Crash, Phased, scans, loops
  <2>2. CASE Attach(s) \/ ClientDone(s) \/ ClientFree(s) \/ ReadLine(s) \/ ReadEnd(s)
    BY <2>2 DEF Attach, ClientDone, ClientFree, ReadLine, ReadEnd, Phased, scans, loops
  <2>3. ASSUME NEW fin \in BOOLEAN, ClientClose(s, fin)
        PROVE  Phased'
    BY <2>3 DEF ClientClose, Polling, Idle, Phased, scans
  <2> QED
    BY <1>1, <2>1, <2>2, <2>3 DEF ClientOp
<1>2. CASE ShutdownFlush \/ \E t \in Task : TaskDone(t)
  BY <1>2 DEF ShutdownFlush, TaskDone, Phased, scans, loops
<1>3. CASE GetTask \/ EndPoll \/ EndProbe \/ EndDone
  BY <1>3 DEF GetTask, EndPoll, EndProbe, EndDone, Phase, Idle, Phased, loops
<1>4. CASE AbandonEnd \/ Unhold \/ FreeTask
  BY <1>4 DEF AbandonEnd, Unhold, FreeTask, Crash, Phased, scans, loops
<1>5. ASSUME NEW t \in Task, AbandonTask(t) \/ ProcessDone(t)
      PROVE  Phased'
  BY <1>5 DEF AbandonTask, ProcessDone, Idle, Phased, scans
<1>6. CASE \/ \E s \in Source : DetachFinished(s)
           \/ StartScan \/ PopCommand \/ Exhausted
           \/ TakeChunk \/ TakeEnd \/ TakeNone \/ HandleCycle
           \/ \E t \in Task : HandleProbe(t) \/ HandleTask(t)
  <2>1. pc \in {"gettask", "scan", "take", "handle"} /\ UNCHANGED loops
    BY <1>6 DEF DetachFinished, StartScan, Serve, PopCommand, Exhausted, TakeChunk, TakeEnd,
                TakeNone, HandleCycle, HandleProbe, HandleTask, Crash
  <2> QED
    BY <2>1 DEF Phased, loops
<1>7. CASE UNCHANGED vars
  BY <1>7 DEF vars, Phased
<1> QED
  BY <1>1, <1>2, <1>3, <1>4, <1>5, <1>6, <1>7 DEF Next, MainStep

(* At the start nothing waits, is held or is through.                      *)
LEMMA InitPlaces == Init => PlaceInv
<1> SUFFICES ASSUME Init PROVE PlaceInv
  OBVIOUS
<1>1. Accounts
  BY InitAccounts DEF SourcesInv
<1>2. Phased
  BY DEF Init, Phased
<1>3. ASSUME NEW t \in Task
      PROVE  Place(t)
  <2>1. life[t] \in Early
    BY <1>3 DEF Init, Early
  <2>2. Waits(t) = 0 /\ Unheld(t)
    BY <1>1, <2>1, SourcesAssumption DEF Accounts, Ordered, Tasking, HeldLate, Waits, Unheld
  <2> QED
    BY <2>1, <2>2 DEF Place, OnceAt, NotAgain, Somewhere, Unheld, Early
<1> QED
  BY <1>2, <1>3 DEF PlaceInv

LEMMA PlaceInvHolds ==
  ASSUME "halt_held" \notin Allow
  PROVE  Spec => [](SourcesInv /\ PlaceInv)
<1>1. SourcesInv /\ PlaceInv /\ [Next]_vars => (SourcesInv /\ PlaceInv)'
  <2> SUFFICES ASSUME SourcesInv, PlaceInv, [Next]_vars PROVE (SourcesInv /\ PlaceInv)'
    OBVIOUS
  <2>1. SourcesInv' /\ Accounts /\ Scope
    BY NextAccounts DEF SourcesInv, RotaInv
  <2>2. (\A t \in Task : Place(t)') /\ Phased'
    BY <2>1, NextPlaced, NextPhased DEF PlaceInv
  <2> QED
    BY <2>1, <2>2 DEF PlaceInv
<1> QED
  BY <1>1, InitAccounts, InitPlaces, PTL DEF Spec

-----------------------------------------------------------------------------
(* What the properties count is what waits and what is held.               *)
LEMMA QueuedIs ==
  ASSUME Accounts, Scope, NEW t \in Task, life[t] \in {"alive", "freed"}
  PROVE  Queued(t) = Waits(t)
<1>1. Cardinality(Places(source[SourceOf[t]].commands, TaskCmd(t)))
      = Count(source[SourceOf[t]].commands, {TaskCmd(t)})
  BY DEF Places, Count, At
<1>2. InHand(t) = Hand(SourceOf[t], TaskCmd(t))
  <2>1. CASE cmd.task = t
    <3>1. cmd = ProbeCmd(t) \/ cmd = TaskCmd(t)
      <4>1. t # NoTask /\ cmd \in Commands
        BY SourcesAssumption DEF Accounts, Shapes
      <4> QED
        BY <2>1, <4>1 DEF Commands, ProbeCmd, TaskCmd, CycleCmd, NoCmd
    <3>2. PICK s \in Source : s = src
      BY <3>1 DEF Accounts, Ordered, HandEmpty, Scope, ProbeCmd, TaskCmd, NoCmd
    <3>3. CASE cmd = ProbeCmd(t)
      <4>1. Hand(s, ProbeCmd(t)) = 1 /\ Count(source[s].commands, {ProbeCmd(t)}) \in Nat
        BY <3>2, <3>3, WaitingType DEF Hand, Accounts
      <4>2. Waiting(s, ProbeCmd(t)) = Count(source[s].commands, {ProbeCmd(t)}) + 1
        BY <4>1 DEF Waiting
      <4>3. Waiting(s, ProbeCmd(t)) <= 0
        BY DEF Accounts, Ordered, Probing
      <4> QED
        BY <4>1, <4>2, <4>3
    <3>4. CASE cmd = TaskCmd(t)
      <4>1. Hand(s, TaskCmd(t)) = 1 /\ Count(source[s].commands, {TaskCmd(t)}) \in Nat
        BY <3>2, <3>4, WaitingType DEF Hand, Accounts
      <4>2. Waiting(s, TaskCmd(t)) # 0
        BY <4>1 DEF Waiting
      <4>3. SourceOf[t] = s
        BY <4>2 DEF Accounts, Ordered, Tasking
      <4> QED
        BY <2>1, <4>1, <4>3 DEF InHand
    <3> QED
      BY <3>1, <3>3, <3>4
  <2>2. CASE cmd.task # t
    BY <2>2 DEF InHand, Hand, TaskCmd
  <2> QED
    BY <2>1, <2>2
<1> QED
  BY <1>1, <1>2 DEF Queued, Waits, Waiting

LEMMA HoldsIs ==
  ASSUME Scope, NEW t \in Task
  PROVE  /\ Unheld(t) => Holds(t) = 0
         /\ \A b \in Task : Count(onhold[b], {t}) = 1
              /\ (\A c \in Task \ {b} : Count(onhold[c], {t}) = 0) => Holds(t) = 1
<1>1. Unheld(t) => Holds(t) = 0
  BY HeldNone, FS_EmptySet DEF Holds
<1>2. ASSUME NEW b \in Task, Count(onhold[b], {t}) = 1,
             \A c \in Task \ {b} : Count(onhold[c], {t}) = 0
      PROVE  Holds(t) = 1
  <2>1. \A c \in Task : onhold[c] \in Seq(Task)
    BY DEF Scope
  <2>2. IsFiniteSet(Places(onhold[b], t)) /\ Cardinality(Places(onhold[b], t)) = 1
    <3>1. At(onhold[b], {t}) = Places(onhold[b], t)
      BY DEF At, Places
    <3>2. IsFiniteSet(At(onhold[b], {t}))
      BY <2>1, CountType
    <3> QED
      BY <1>2, <3>1, <3>2 DEF Count
  <2>3. PICK i : Places(onhold[b], t) = {i}
    BY <2>2, FS_Singleton
  <2>4. \A c \in Task \ {b} : Places(onhold[c], t) = {}
    BY <1>2, <2>1, PlacesCount
  <2>5. Held(t) = {<<b, i>>}
    BY <2>3, <2>4 DEF Held
  <2> QED
    BY <2>5, FS_Singleton DEF Holds
<1> QED
  BY <1>1, <1>2

(* No command of a task that was freed is queued, but for those of a       *)
(* source that is being abandoned, where each task goes and then the       *)
(* commands.  (A client that halts a task on hold is left out: its task    *)
(* is unheld after it is done, and may be freed with a command queued.)    *)
THEOREM CommandsLiveHolds ==
  ASSUME "halt_held" \notin Allow
  PROVE  Spec => []CommandsLive
<1>1. SourcesInv /\ PlaceInv => CommandsLive
  <2> SUFFICES ASSUME SourcesInv, PlaceInv, NEW t \in Task, life[t] = "freed",
                      SourceOf[t] # abandoning
               PROVE  Queued(t) = 0
    BY DEF CommandsLive
  <2>1. Queued(t) = Waits(t)
    BY QueuedIs DEF SourcesInv, RotaInv
  <2>2. Waits(t) = 0
    BY DEF PlaceInv, Place, NotAgain, Settled, Through
  <2> QED
    BY <2>1, <2>2
<1> QED
  BY <1>1, PlaceInvHolds, PTL

(* A task of a source that takes commands is in exactly one place: queued  *)
(* once, held once by one task, running, or through.                       *)
THEOREM PlacedHolds ==
  ASSUME "halt_held" \notin Allow
  PROVE  Spec => []Placed
<1>1. SourcesInv /\ PlaceInv => Placed
  <2> SUFFICES ASSUME SourcesInv, PlaceInv, NEW t \in Task, life[t] = "alive",
                      source[SourceOf[t]].open, SourceOf[t] # abandoning
               PROVE  IF t \in installed THEN Queued(t) = 0 /\ Holds(t) = 0
                      ELSE IF Places(done_queue, t) # {} \/ freeing = t THEN Queued(t) = 0
                      ELSE Queued(t) + Holds(t) = 1
    BY DEF Placed
  <2>1. Accounts /\ Scope
    BY DEF SourcesInv, RotaInv
  <2>2. Queued(t) = Waits(t)
    BY <2>1, QueuedIs
  <2>3. Place(t)
    BY DEF PlaceInv
  <2>4. Settled(t) => Queued(t) = 0 /\ Holds(t) = 0
    BY <2>1, <2>2, <2>3, HoldsIs DEF Place, NotAgain
  <2>5. CASE ~Settled(t) /\ freeing # t /\ Unheld(t)
    <3>1. Waits(t) # 0
      BY <2>3, <2>5 DEF Place, Somewhere
    <3>2. Waits(t) \in Nat /\ Waits(t) + 0 <= 1
      BY <2>1, <2>3, <2>5, WaitsType DEF Place, OnceAt, Unheld, Accounts
    <3>3. Waits(t) = 1
      BY <3>1, <3>2
    <3> QED
      <4>1. Holds(t) = 0
        BY <2>1, <2>5, HoldsIs
      <4>2. Queued(t) + Holds(t) = 1
        BY <2>2, <3>3, <4>1
      <4> QED
        BY <2>5, <4>2 DEF Settled, Through
  <2>6. CASE ~Settled(t) /\ freeing # t /\ ~Unheld(t)
    <3>1. PICK b \in Task : Count(onhold[b], {t}) # 0
      BY <2>6 DEF Unheld
    <3>2. /\ Waits(t) + Count(onhold[b], {t}) <= 1
          /\ \A c \in Task \ {b} : Count(onhold[c], {t}) = 0
      BY <2>3, <3>1 DEF Place, OnceAt
    <3>3. Waits(t) = 0 /\ Count(onhold[b], {t}) = 1
      <4>1. PICK n \in Nat : n = Count(onhold[b], {t})
        BY <2>1, HoldType
      <4>2. PICK m \in Nat : m = Waits(t)
        BY <2>1, WaitsType DEF Accounts
      <4> QED
        BY <3>1, <3>2, <4>1, <4>2
    <3>4. Holds(t) = 1
      BY <2>1, <3>2, <3>3, HoldsIs
    <3> QED
      BY <2>2, <2>6, <3>3, <3>4 DEF Settled, Through
  <2> QED
    BY <2>4, <2>5, <2>6 DEF Settled, Through
<1> QED
  BY <1>1, PlaceInvHolds, PTL

-----------------------------------------------------------------------------
(* No assertion fails and nothing freed is used.                           *)

(* No shutdown flush, no halt of a task on hold, and no regular file.      *)
Plain == Allow = {} /\ \A s \in Source : Kind[s] # "file"

(* A source out of the tree still has its client, which may submit more,   *)
(* or whose tasks are being abandoned.                                     *)
Wanted(s) == (client[s] = "attached" /\ source[s].cyclemon) \/ abandoning = s

(* A source that is to go has nothing left, in its lists or at hand.       *)
Ended(s) == \/ rota.list[s] = "finished"
            \/ ~source[s].tree /\ ~Wanted(s)
            \/ ~source[s].open
Over(s)  == IsFinished(source[s]) /\ ~(src = s /\ cmd.type = "probe")

(* A client's source takes commands; there is none before the client, and  *)
(* its client is there while it is abandoned.                              *)
Opened  == \A s \in Source : client[s] = "attached" => source[s].open
Unmade  == \A s \in Source :
             Kind[s] = "control" /\ client[s] = "none" => rota.list[s] # "finished"
Leaving == \A s \in Source : abandoning = s => client[s] = "flush"

(* A finished source has given its cycle monitor back.                     *)
Spent == \A s \in Source : rota.list[s] = "finished" => ~source[s].cyclemon

Closing == /\ \A s \in Source : Ended(s) => Over(s)
           /\ Opened /\ Unmade /\ Leaving /\ Spent

(* Giving back the last reference ends a source, another changes a count.  *)
LEMMA UnrefCases ==
  ASSUME NEW S \in Shape
  PROVE  /\ S.refcnt = 1 => ~Unref(S).open /\ Unref(S).commands = <<>>
         /\ S.refcnt # 1 => /\ Unref(S).open = S.open /\ Unref(S).eof = S.eof
                            /\ Unref(S).tree = S.tree /\ Unref(S).commands = S.commands
         /\ Unref(S).tasks = S.tasks /\ Unref(S) \in Shape
         /\ S.refcnt # 1 => Unref(S).cyclemon = S.cyclemon
<1>1. Unref(S).tasks = S.tasks /\ Unref(S) \in Shape
  BY UnrefKept DEF Kept
<1>2. CASE S.refcnt = 1
  <2>1. PICK R : R = [S EXCEPT !.refcnt = 0, !.tree = FALSE]
    OBVIOUS
  <2>2. R \in Shape
    <3>1. PICK N : N = [S EXCEPT !.refcnt = 0]
      OBVIOUS
    <3>2. N \in Shape
      BY <3>1, SMTT(60) DEF Shape
    <3>3. R = [N EXCEPT !.tree = FALSE]
      BY <2>1, <3>1
    <3> QED
      BY <3>2, <3>3, ShapeSet
  <2>3. PICK V : V = Unuse(R)
    OBVIOUS
  <2>4. V \in Shape
    BY <2>2, <2>3, UnuseKept DEF Kept
  <2>5. Unref(S) = FlushCommands(V)
    BY <1>2, <2>1, <2>3 DEF Unref
  <2> QED
    BY <1>1, <1>2, <2>4, <2>5, FlushKept
<1>3. CASE S.refcnt # 1
  BY <1>1, <1>3 DEF Unref, Shape
<1> QED
  BY <1>2, <1>3

(* What is finished stays so.                                              *)
LEMMA StaysFinished ==
  ASSUME NEW S \in Shape, IsFinished(S)
  PROVE  IsFinished(Unuse(S)) /\ IsFinished(Unref(S)) /\ IsFinished(Detach(S))
<1>1. IsFinished(Unuse(S))
  BY UnuseKept DEF Kept, IsFinished
<1>2. \A T \in Shape : IsFinished(T) => IsFinished(Unref(T))
  BY UnrefCases DEF IsFinished
<1>3. IsFinished(Detach(S))
  <2>1. CASE S.tree
    <3>1. PICK T : T = [S EXCEPT !.tree = FALSE]
      OBVIOUS
    <3>2. T \in Shape
      BY <3>1, ShapeSet
    <3>3. IsFinished(T)
      BY <3>1, <3>2 DEF IsFinished, Shape
    <3> QED
      BY <1>2, <2>1, <3>1, <3>2, <3>3 DEF Detach
  <2>2. CASE ~S.tree
    BY <2>2 DEF Detach
  <2> QED
    BY <2>1, <2>2
<1> QED
  BY <1>1, <1>2, <1>3

(* A source is open while something refers to it.                          *)
LEMMA DetachOpen ==
  ASSUME NEW S \in Shape, NEW u \in Nat, Balanced(S, 1, u)
  PROVE  Detach(S).open = S.open
<1>1. CASE S.tree
  <2>1. PICK T : T = [S EXCEPT !.tree = FALSE]
    OBVIOUS
  <2>2. T \in Shape
    BY <2>1, ShapeSet
  <2>3. T.refcnt = S.refcnt /\ T.open = S.open
    BY <2>1 DEF Shape
  <2>4. S.refcnt # 1
    <3>1. Len(S.tasks) \in Nat /\ S.refcnt = Len(S.tasks) + 1 + 1
      BY <1>1, Countable DEF Balanced, Flag
    <3> QED
      BY <3>1
  <2> QED
    BY <1>1, <2>1, <2>2, <2>3, <2>4, UnrefCases DEF Detach
<1>2. CASE ~S.tree
  BY <1>2 DEF Detach
<1> QED
  BY <1>1, <1>2

(* Which sources a function on the rotation may put in the finished list.  *)
LEMMA ListsEnd ==
  ASSUME NEW r \in Rota, NEW s \in Source, NEW x \in Source
  PROVE  /\ ActiveAttach(r, s).list[x] = "finished" => r.list[x] = "finished"
         /\ BlockedAttach(r, s).list[x] = "finished" => r.list[x] = "finished"
         /\ Unlisted(r, s).list[x] = "finished" => r.list[x] = "finished"
         /\ FinishedAttach(r, s).list[x] = "finished" => x = s \/ r.list[x] = "finished"
         /\ SourceNext(r).list = r.list
         /\ Unlisted(r, s).list[s] # "finished"
<1>1. r.list \in [Source -> Lists]
  BY DEF Rota
<1>2. PICK U : U = Unlisted(r, s)
  OBVIOUS
<1>3. /\ U.list = [r.list EXCEPT ![s] = "none"]
      /\ [U EXCEPT !.list[s] = "blocked"].list = [U.list EXCEPT ![s] = "blocked"]
      /\ [U EXCEPT !.list[s] = "finished"].list = [U.list EXCEPT ![s] = "finished"]
  <2>1. U = ActiveDetach(r, s) \/ U = [r EXCEPT !.list[s] = "none"]
    BY <1>2 DEF Unlisted
  <2> QED
    BY <2>1 DEF ActiveDetach, Rota
<1>4. ActiveAttach(r, s).list = r.list \/ ActiveAttach(r, s).list = [r.list EXCEPT ![s] = "active"]
  BY DEF ActiveAttach
<1>5. BlockedAttach(r, s).list = r.list \/ BlockedAttach(r, s).list = [U.list EXCEPT ![s] = "blocked"]
  BY <1>2, <1>3 DEF BlockedAttach
<1>6. FinishedAttach(r, s).list = [U.list EXCEPT ![s] = "finished"]
  BY <1>2, <1>3 DEF FinishedAttach
<1>7. SourceNext(r).list = r.list
  BY DEF SourceNext, Rota
<1> QED
  BY <1>1, <1>2, <1>3, <1>4, <1>5, <1>6, <1>7

(* One source changes, and is finished if it is to go.                     *)
LEMMA OneClosing ==
  ASSUME Accounts, Closing, NEW s \in Source, NEW T, source' = [source EXCEPT ![s] = T],
         UNCHANGED <<src, cmd>> \/ cmd'.type # "probe" \/ src' = s,
         \A r \in Source : rota'.list[r] = "finished" => r = s \/ rota.list[r] = "finished",
         Ended(s)' => IsFinished(T) /\ ~(src' = s /\ cmd'.type = "probe"),
         \A r \in Source \ {s} : client'[r] = client[r],
         client'[s] = "none" => client[s] = "none",
         client'[s] = "attached" => T.open,
         Kind[s] = "control" /\ client'[s] = "none" => rota'.list[s] # "finished",
         rota'.list[s] = "finished" => ~T.cyclemon,
         \A r \in Source : abandoning' = r => client'[r] = "flush",
         \A r \in Source \ {s} : abandoning = r => abandoning' = r
  PROVE  Closing'
<1>1. source'[s] = T /\ \A r \in Source \ {s} : source'[r] = source[r]
  BY DEF Accounts, Shapes
<1>2. ASSUME NEW r \in Source, Ended(r)'
      PROVE  Over(r)'
  <2>1. CASE r = s
    BY <1>1, <1>2, <2>1 DEF Over
  <2>2. CASE r # s
    <3>1. Ended(r)
      BY <1>1, <1>2, <2>2 DEF Ended, Wanted
    <3>2. Over(r)
      BY <3>1 DEF Closing
    <3> QED
      BY <1>1, <2>2, <3>2 DEF Over, NoCmd
  <2> QED
    BY <2>1, <2>2
<1>3. Opened' /\ Unmade' /\ Leaving' /\ Spent'
  BY <1>1 DEF Closing, Opened, Unmade, Leaving, Spent
<1> QED
  BY <1>2, <1>3 DEF Closing

(* The sources stay as they are.                                           *)
LEMMA SameClosing ==
  ASSUME Closing, UNCHANGED <<source, client, abandoning>>,
         UNCHANGED <<src, cmd>> \/ cmd'.type # "probe",
         \A r \in Source : rota'.list[r] = "finished" => rota.list[r] = "finished"
  PROVE  Closing'
  BY DEF Closing, Ended, Wanted, Over, Opened, Unmade, Leaving, Spent

(* The monitor of a source that has nothing left is the source's alone.    *)
LEMMA MonitorLeft ==
  ASSUME Accounts, NEW s \in Source, source[s].tasks = <<>>, source[s].commands = <<>>,
         source[s].cyclemon, ~(src = s /\ cmd.type = "probe")
  PROVE  source[s].cm = 1
<1>1. Of(uses, s) = {}
  <2> SUFFICES ASSUME NEW t \in uses, SourceOf[t] = s PROVE FALSE
    BY DEF Of
  <2>1. t \in Task /\ life[t] = "alive"
    BY DEF Accounts, Shapes, Living, Alive
  <2>2. Count(<<>>, {t}) = 1
    BY <2>1 DEF Accounts, Living, Listed
  <2> QED
    BY <2>2, CountEmpty
<1>2. Uses(s) = 0
  BY <1>1, FS_EmptySet DEF Uses, Flag
<1>3. source[s].cm = Flag(source[s].cyclemon) + Count(<<>>, ProbeSet) + 0
  BY <1>2 DEF Accounts, Ledger, Balanced
<1> QED
  BY <1>3, CountEmpty DEF Flag

(* A source is told that no more comes, and finished if nothing is left.   *)
LEMMA EndClosing ==
  ASSUME Accounts, rota \in Rota, Closing, NEW s \in Source, NEW E \in Shape,
         E.tasks = source[s].tasks, E.commands = source[s].commands,
         E.open = source[s].open, E.tree = source[s].tree, source[s].eof => E.eof,
         E.cyclemon = source[s].cyclemon, cmd = NoCmd, UNCHANGED <<src, cmd>>,
         \/ source' = [source EXCEPT ![s] = E] /\ rota' = rota
         \/ IsFinished(E) /\ source' = [source EXCEPT ![s] = Unuse(E)]
              /\ rota' = FinishedAttach(rota, s),
         Kind[s] = "control" => client[s] # "none",
         \A r \in Source \ {s} : client'[r] = client[r],
         client'[s] # "none" \/ client'[s] = client[s],
         client'[s] = "attached" => client[s] = "attached",
         client'[s] = client[s] \/ abandoning' = s, abandoning = NoSource,
         \A r \in Source : abandoning' = r => client'[r] = "flush"
  PROVE  Closing'
<1>1. PICK T \in {E, Unuse(E)} :
        /\ source' = [source EXCEPT ![s] = T]
        /\ \/ T = E /\ rota' = rota
           \/ T = Unuse(E) /\ IsFinished(E) /\ rota' = FinishedAttach(rota, s)
  OBVIOUS
<1>2. T.open = source[s].open /\ T.tree = source[s].tree
  BY <1>1, UnuseKept
<1>3. source'[s] = T
  BY <1>1 DEF Accounts, Shapes
<1>4. Ended(s)' => IsFinished(T)
  <2>1. CASE T = E /\ rota' = rota
    <3>0. abandoning # s
      BY SourcesAssumption
    <3>1. Ended(s)' => Ended(s)
      BY <1>2, <1>3, <2>1, <3>0 DEF Ended, Wanted
    <3>2. Ended(s) => IsFinished(source[s])
      BY DEF Closing, Over
    <3> QED
      BY <2>1, <3>1, <3>2 DEF IsFinished
  <2>2. CASE T = Unuse(E) /\ IsFinished(E)
    BY <2>2, StaysFinished
  <2> QED
    BY <1>1, <2>1, <2>2
<1>5. \A r \in Source : rota'.list[r] = "finished" => r = s \/ rota.list[r] = "finished"
  BY <1>1, ListsEnd
<1>6. client'[s] = "attached" => T.open
  BY <1>2 DEF Closing, Opened
<1>7. cmd'.type # "probe"
  BY DEF NoCmd
<1>8. client'[s] = "none" => client[s] = "none"
  OBVIOUS
<1>9. ~(Kind[s] = "control" /\ client'[s] = "none")
  OBVIOUS
<1>10. rota'.list[s] = "finished" => ~T.cyclemon
  <2>1. CASE T = E /\ rota' = rota
    BY <2>1 DEF Closing, Spent
  <2>2. CASE T = Unuse(E)
    BY <2>2 DEF Unuse, Shape
  <2> QED
    BY <1>1, <2>1, <2>2
<1>11. \A r \in Source : abandoning # r
  BY SourcesAssumption
<1> QED
  BY <1>1, <1>4, <1>5, <1>6, <1>7, <1>8, <1>9, <1>10, <1>11, OneClosing

LEMMA DoneClosing ==
  ASSUME Accounts, rota \in Rota, Closing, fault = "none", NEW s \in Source,
         ClientDone(s) \/ ReadEnd(s)
  PROVE  Closing' /\ fault' = "none"
<1>1. PICK E : E = [source[s] EXCEPT !.eof = TRUE]
  OBVIOUS
<1>2. /\ E \in Shape /\ E.tasks = source[s].tasks /\ E.commands = source[s].commands
      /\ E.open = source[s].open /\ E.tree = source[s].tree /\ E.eof
      /\ E.cm = source[s].cm /\ E.cyclemon = source[s].cyclemon
  <2>1. source[s] \in Shape
    BY DEF Accounts, Shapes
  <2> QED
    BY <1>1, <2>1 DEF Shape
<1>3. /\ pc = "poll" /\ UNCHANGED <<src, cmd, client, abandoning>>
      /\ Kind[s] = "control" => client[s] # "none"
      /\ abandoning = NoSource
  BY DEF ClientDone, ReadEnd, Polling, Idle, scans, loops
<1>4. cmd = NoCmd
  BY <1>3 DEF Accounts, Ordered, HandEmpty
<1>5. \/ source' = [source EXCEPT ![s] = E] /\ rota' = rota /\ fault' = fault
      \/ /\ IsFinished(E) /\ source' = [source EXCEPT ![s] = Unuse(E)]
         /\ rota' = FinishedAttach(rota, s)
         /\ fault' = IF Asserts /\ E.cyclemon /\ E.cm # 1 THEN "cyclemon" ELSE fault
  BY <1>1 DEF ClientDone, ReadEnd, Finished
<1>6. IsFinished(E) /\ E.cyclemon => E.cm = 1
  BY <1>2, <1>4, MonitorLeft DEF IsFinished, NoCmd
<1>7. fault' = "none"
  BY <1>5, <1>6
<1>8. \A r \in Source : abandoning' = r => client'[r] = "flush"
  BY <1>3 DEF Closing, Leaving
<1> QED
  BY <1>2, <1>3, <1>4, <1>5, <1>7, <1>8, EndClosing

LEMMA CloseClosing ==
  ASSUME Accounts, rota \in Rota, Closing, NEW s \in Source, NEW fin \in BOOLEAN,
         ClientClose(s, fin)
  PROVE  Closing'
<1>1. PICK b \in BOOLEAN : b = (source[s].eof \/ (fin /\ source[s].open))
  OBVIOUS
<1>2. PICK E : E = [source[s] EXCEPT !.eof = b]
  OBVIOUS
<1>3. /\ E \in Shape /\ E.tasks = source[s].tasks /\ E.commands = source[s].commands
      /\ E.open = source[s].open /\ E.tree = source[s].tree /\ (source[s].eof => E.eof)
      /\ E.cyclemon = source[s].cyclemon
  <2>1. source[s] \in Shape
    BY DEF Accounts, Shapes
  <2>2. E \in Shape
    BY <1>2, <2>1, ShapeSet
  <2> QED
    BY <1>1, <1>2, <2>1, <2>2 DEF Shape
<1>4. /\ pc = "poll" /\ UNCHANGED <<src, cmd>> /\ client[s] = "attached" /\ abandoning' = s
      /\ client' = [client EXCEPT ![s] = "flush"] /\ abandoning = NoSource
  BY DEF ClientClose, Polling, Idle, scans
<1>5. cmd = NoCmd
  BY <1>4 DEF Accounts, Ordered, HandEmpty
<1>6. \/ source' = [source EXCEPT ![s] = E] /\ rota' = rota
      \/ /\ IsFinished(E) /\ source' = [source EXCEPT ![s] = Unuse(E)]
         /\ rota' = FinishedAttach(rota, s)
  <2>1. E = [source[s] EXCEPT !.eof = source[s].eof \/ (fin /\ source[s].open)]
    BY <1>1, <1>2
  <2> QED
    BY <2>1 DEF ClientClose, Finished
<1>7. client'[s] = "flush" /\ \A r \in Source \ {s} : client'[r] = client[r]
  BY <1>4 DEF Accounts, Shapes
<1>8. \A r \in Source : abandoning' = r => client'[r] = "flush"
  BY <1>4, <1>7
<1> QED
  BY <1>3, <1>4, <1>5, <1>6, <1>7, <1>8, EndClosing

LEMMA ClientClosing ==
  ASSUME Accounts, rota \in Rota, Closing, NEW s \in Source, Attach(s) \/ ClientFree(s)
  PROVE  Closing'
<1>1. source[s] \in Shape
  BY DEF Accounts, Shapes
<1>2. /\ pc = "poll" /\ UNCHANGED <<src, cmd, abandoning>> /\ abandoning = NoSource
  BY DEF Attach, ClientFree, Polling, Idle, scans, loops
<1>3. cmd = NoCmd /\ cmd'.type # "probe"
  BY <1>2 DEF Accounts, Ordered, HandEmpty, NoCmd
<1>4. \A r \in Source : abandoning' # r
  BY <1>2, SourcesAssumption
<1>5. CASE Attach(s)
  <2>1. PICK T : T = Fresh(2, TRUE)
    OBVIOUS
  <2>2. T.open /\ T.tree
    BY <2>1 DEF Fresh
  <2>3. /\ source' = [source EXCEPT ![s] = T] /\ rota' = ActiveAttach(rota, s)
        /\ client' = [client EXCEPT ![s] = "attached"]
        /\ Kind[s] = "control" /\ client[s] = "none"
    BY <1>5, <2>1 DEF Attach
  <2>4. \A r \in Source : rota'.list[r] = "finished" => rota.list[r] = "finished"
    BY <2>3, ListsEnd
  <2>5. ~Ended(s)'
    <3>1. rota'.list[s] # "finished"
      BY <2>3, <2>4 DEF Closing, Unmade
    <3>2. source'[s] = T
      BY <2>3 DEF Accounts, Shapes
    <3> QED
      BY <2>2, <3>1, <3>2 DEF Ended
  <2>6. client'[s] = "attached" /\ \A r \in Source \ {s} : client'[r] = client[r]
    BY <2>3 DEF Accounts, Shapes
  <2>7. rota'.list[s] # "finished"
    BY <2>3, <2>4 DEF Closing, Unmade
  <2> QED
    BY <1>2, <1>4, <2>2, <2>3, <2>4, <2>5, <2>6, <2>7, OneClosing
<1>6. CASE ClientFree(s)
  <2>1. PICK T : T = Unref(source[s])
    OBVIOUS
  <2>2. /\ source' = [source EXCEPT ![s] = T] /\ client[s] = "flush"
        /\ client' = [client EXCEPT ![s] = "gone"]
        /\ rota' = IF source[s].refcnt = 1 THEN Unlisted(rota, s) ELSE rota
    BY <1>6, <2>1 DEF ClientFree
  <2>3. \A r \in Source : rota'.list[r] = "finished" => rota.list[r] = "finished"
    BY <2>2, ListsEnd
  <2>4. client'[s] = "gone" /\ \A r \in Source \ {s} : client'[r] = client[r]
    BY <2>2 DEF Accounts, Shapes
  <2>5. source'[s] = T
    BY <2>2 DEF Accounts, Shapes
  <2>6. Ended(s)' => IsFinished(T)
    <3>1. Ended(s) => IsFinished(T)
      BY <1>1, <2>1, StaysFinished DEF Closing, Over
    <3>0. ~Wanted(s)
      BY <1>2, <2>2, SourcesAssumption DEF Wanted
    <3>2. CASE source[s].refcnt = 1
      <4>1. Len(source[s].tasks) \in Nat /\ Flag(source[s].tree) \in {0, 1}
        BY <1>1, FlagType, Countable
      <4>2. 1 = Len(source[s].tasks) + Flag(source[s].tree) + 1
        BY <2>2, <3>2 DEF Accounts, Ledger, Balanced, Refs, Flag
      <4>3. Flag(source[s].tree) = 0
        BY <4>1, <4>2
      <4> QED
        BY <3>0, <3>1, <4>3 DEF Ended, Flag
    <3>3. CASE source[s].refcnt # 1
      <4>1. T.open = source[s].open /\ T.tree = source[s].tree
        BY <1>1, <2>1, <3>3, UnrefCases
      <4> QED
        BY <2>3, <2>5, <3>0, <3>1, <4>1 DEF Ended
    <3> QED
      BY <3>2, <3>3
  <2>7. rota'.list[s] = "finished" => ~T.cyclemon
    <3>1. CASE source[s].refcnt = 1
      BY <2>2, <3>1, ListsEnd
    <3>2. CASE source[s].refcnt # 1
      BY <1>1, <2>1, <2>3, <3>2, UnrefCases DEF Closing, Spent
    <3> QED
      BY <3>1, <3>2
  <2> QED
    BY <1>2, <1>3, <1>4, <2>2, <2>3, <2>4, <2>6, <2>7, OneClosing
<1> QED
  BY <1>5, <1>6

(* A task that lives keeps its source.                                     *)
LEMMA AliveKeeps ==
  ASSUME Accounts, Closing, NEW t \in Task, life[t] = "alive"
  PROVE  /\ SourceOf[t] \in Source /\ source[SourceOf[t]].tasks # <<>>
         /\ ~Ended(SourceOf[t])
<1>1. SourceOf[t] \in Source
  BY SourcesAssumption
<1>2. Count(source[SourceOf[t]].tasks, {t}) = 1
  BY <1>1 DEF Accounts, Living, Listed
<1>3. source[SourceOf[t]].tasks # <<>>
  BY <1>2, CountEmpty
<1> QED
  BY <1>1, <1>3 DEF Closing, Over, IsFinished

(* A source that is not to go changes, and is still not to go.             *)
LEMMA GoingOn ==
  ASSUME Accounts, Closing, NEW s \in Source, ~Ended(s), NEW T,
         T.open = source[s].open, T.tree = source[s].tree, T.cyclemon = source[s].cyclemon,
         source' = [source EXCEPT ![s] = T],
         UNCHANGED <<src, cmd>> \/ cmd'.type # "probe" \/ src' = s,
         UNCHANGED <<client, abandoning>>,
         \A r \in Source : rota'.list[r] = "finished" => rota.list[r] = "finished"
  PROVE  Closing'
<1>1. source'[s] = T
  BY DEF Accounts, Shapes
<1>2. ~Ended(s)'
  BY <1>1 DEF Ended, Wanted
<1>4. rota'.list[s] # "finished"
  BY DEF Ended
<1>3. /\ client'[s] = "attached" => T.open
      /\ Kind[s] = "control" /\ client'[s] = "none" => rota'.list[s] # "finished"
      /\ \A r \in Source : abandoning' = r => client'[r] = "flush"
  BY DEF Closing, Opened, Unmade, Leaving
<1> QED
  BY <1>2, <1>3, <1>4, OneClosing

(* A client that is not flushing has a source that is not to go, also when *)
(* it said "done" before.                                                  *)
LEMMA CommandGoesOn ==
  ASSUME Accounts, Closing, NEW s \in Source, client[s] = "attached", cmd = NoCmd,
         ~Flushing(s)
  PROVE  ~Ended(s)
<1> SUFFICES ASSUME Ended(s) PROVE FALSE
  OBVIOUS
<1>1. source[s].open /\ Over(s) /\ source[s].cm # 0
  BY DEF Closing, Opened, Flushing
<1>2. source[s].commands = <<>> /\ source[s].tasks = <<>>
  BY <1>1 DEF Over, IsFinished
<1>3. Uses(s) = 0
  <2>1. Of(uses, s) = {}
    <3> SUFFICES ASSUME NEW t \in uses, SourceOf[t] = s PROVE FALSE
      BY DEF Of
    <3>1. t \in Task /\ life[t] = "alive"
      BY DEF Accounts, Shapes, Living, Alive
    <3>2. Count(<<>>, {t}) = 1
      BY <1>2, <3>1 DEF Accounts, Living, Listed
    <3> QED
      BY <3>2, CountEmpty
  <2> QED
    BY <2>1, FS_EmptySet DEF Uses, Flag, NoCmd
<1>4. source[s].cm = Flag(source[s].cyclemon) + Count(<<>>, ProbeSet) + 0
  BY <1>2, <1>3 DEF Accounts, Ledger, Balanced
<1>5. source[s].cyclemon
  BY <1>1, <1>4, CountEmpty DEF Flag
<1>6. rota.list[s] # "finished"
  BY <1>5 DEF Closing, Spent
<1> QED
  BY <1>1, <1>5, <1>6 DEF Ended, Wanted

LEMMA CommandClosing ==
  ASSUME Accounts, rota \in Rota, Closing, fault = "none", NEW s \in Source, NEW t \in Task,
         Command2(s, t) \/ HaltTask(s, t)
  PROVE  Closing' /\ fault' = "none"
<1>1. client[s] = "attached" /\ source[s].open
  BY DEF Command2, HaltTask, Closing, Opened
<1>2. source[s] \in Shape
  BY DEF Accounts, Shapes
<1>3. CASE Command2(s, t)
  <2>1. PICK A : A = AddTask(source[s], t)
    OBVIOUS
  <2>2. PICK S : S = Push(A, TaskCmd(t))
    OBVIOUS
  <2>3. PICK T : T = IF source[s].cyclemon THEN [S EXCEPT !.cm = S.cm + 1] ELSE S
    OBVIOUS
  <2>4. /\ source' = [source EXCEPT ![s] = T] /\ rota' = ActiveAttach(rota, s)
        /\ UNCHANGED <<src, cmd, client, abandoning, fault>> /\ ~Flushing(s) /\ pc = "poll"
    BY <1>1, <1>3, <2>1, <2>2, <2>3 DEF Command2, Polling, scans, loops
  <2>5. /\ A \in Shape /\ A.tree = source[s].tree /\ A.open = source[s].open
        /\ A.cyclemon = source[s].cyclemon
    <3>1. A \in Shape
      BY <1>2, <2>1, AddTaskKept
    <3> QED
      BY <1>2, <2>1, <3>1 DEF AddTask, Shape
  <2>6. S \in Shape /\ S.tree = A.tree /\ S.open = A.open /\ S.cyclemon = A.cyclemon
    <3>1. S \in Shape
      BY <2>2, <2>5, PushedCommands
    <3> QED
      BY <2>2, <2>5, <3>1 DEF Push, Shape
  <2>7. T.tree = source[s].tree /\ T.open = source[s].open /\ T.cyclemon = source[s].cyclemon
    BY <2>3, <2>5, <2>6 DEF Shape
  <2>8. ~Ended(s)
    <3>1. cmd = NoCmd
      BY <2>4 DEF Accounts, Ordered, HandEmpty
    <3> QED
      BY <1>1, <2>4, <3>1, CommandGoesOn
  <2>9. \A r \in Source : rota'.list[r] = "finished" => rota.list[r] = "finished"
    BY <2>4, ListsEnd
  <2> QED
    BY <2>4, <2>7, <2>8, <2>9, GoingOn
<1>4. CASE HaltTask(s, t)
  <2>1. PICK T : T = [source[s] EXCEPT !.commands = Without(source[s].commands, TaskCmd(t))]
    OBVIOUS
  <2>2. /\ source' = [source EXCEPT ![s] = T] /\ SourceOf[t] = s /\ life[t] = "alive"
        /\ UNCHANGED <<src, cmd, client, abandoning, fault, rota>>
    BY <1>1, <1>4, <2>1 DEF HaltTask, scans, loops, Accounts, Shapes
  <2>3. T.tree = source[s].tree /\ T.open = source[s].open /\ T.cyclemon = source[s].cyclemon
    BY <1>2, <2>1 DEF Shape
  <2>4. ~Ended(s)
    BY <2>2, AliveKeeps
  <2> QED
    BY <2>2, <2>3, <2>4, GoingOn
<1> QED
  BY <1>3, <1>4

LEMMA LineClosing ==
  ASSUME Accounts, rota \in Rota, Closing, NEW s \in Source, ReadLine(s)
  PROVE  Closing'
<1>1. source[s] \in Shape
  BY DEF Accounts, Shapes
<1>2. PICK T : T = AddLines(source[s], <<Head(Unsent(s))>>)
  OBVIOUS
<1>3. /\ source' = [source EXCEPT ![s] = T] /\ rota' = ActiveAttach(rota, s)
      /\ UNCHANGED <<src, cmd, client, abandoning>> /\ source[s].open /\ ~source[s].eof
  BY <1>2 DEF ReadLine, scans, loops, Accounts, Shapes
<1>4. T.tree = source[s].tree /\ T.open = source[s].open /\ T.cyclemon = source[s].cyclemon
  BY <1>1, <1>2 DEF AddLines, Shape
<1>5. ~Ended(s)
  BY <1>3 DEF Closing, Over, IsFinished
<1>6. \A r \in Source : rota'.list[r] = "finished" => rota.list[r] = "finished"
  BY <1>3, ListsEnd
<1> QED
  BY <1>3, <1>4, <1>5, <1>6, GoingOn

(* A held task's source still takes commands.                              *)
LEMMA UnholdClosing ==
  ASSUME Accounts, Scope, rota \in Rota, PlaceInv, Closing, fault = "none", Unhold
  PROVE  Closing' /\ fault' = "none"
<1>1. PICK b \in Task : b = freeing
  BY DEF Unhold, Scope
<1>2. onhold[b] \in Seq(Task) /\ onhold[b] # <<>>
  BY <1>1 DEF Unhold, Scope
<1>3. PICK t \in Task : t = Last(onhold[b])
  BY <1>1, HeldTask DEF Unhold
<1>4. Count(onhold[b], {t}) # 0
  <2>1. Len(onhold[b]) \in DOMAIN onhold[b] /\ onhold[b][Len(onhold[b])] = t
    BY <1>2, <1>3 DEF Last
  <2> QED
    BY <1>2, <2>1, CountType
<1>5. life[t] = "alive"
  BY <1>4 DEF PlaceInv, Place, NotAgain, Unheld
<1>6. PICK s \in Source : s = SourceOf[t]
  BY SourcesAssumption
<1>7. ~Ended(s) /\ source[s].open
  BY <1>5, <1>6, AliveKeeps DEF Ended
<1>8. PICK T : T = PushHead(source[s], TaskCmd(t))
  OBVIOUS
<1>9. /\ source' = [source EXCEPT ![s] = T] /\ rota' = ActiveAttach(rota, s)
      /\ UNCHANGED <<src, cmd, client, abandoning, fault>>
  BY <1>1, <1>3, <1>6, <1>7, <1>8 DEF Unhold, scans, loops, Accounts, Shapes
<1>10. T.tree = source[s].tree /\ T.open = source[s].open /\ T.cyclemon = source[s].cyclemon
  BY <1>8 DEF PushHead, Accounts, Shapes, Shape
<1>11. \A r \in Source : rota'.list[r] = "finished" => rota.list[r] = "finished"
  BY <1>9, ListsEnd
<1> QED
  BY <1>7, <1>9, <1>10, <1>11, GoingOn

(* Commands that are taken and handled are of a source that is not to go.  *)
LEMMA HandleClosing ==
  ASSUME Accounts, Scope, rota \in Rota, PlaceInv, Closing, fault = "none",
         PopCommand \/ \E t \in Task : HandleProbe(t) \/ HandleTask(t)
  PROVE  Closing' /\ fault' = "none"
<1>1. PICK s \in Source : s = src
  BY DEF PopCommand, HandleProbe, HandleTask, Scope
<1>2. source[s] \in Shape
  BY DEF Accounts, Shapes
<1>3. CASE PopCommand
  <2>1. PICK T : T = [source[s] EXCEPT !.commands = Tail(source[s].commands)]
    OBVIOUS
  <2>2. /\ source' = [source EXCEPT ![s] = T] /\ source[s].commands # <<>> /\ src' = s
        /\ UNCHANGED <<client, abandoning, fault, rota>>
    BY <1>1, <1>3, <2>1 DEF PopCommand, loops, Accounts, Shapes
  <2>3. T.tree = source[s].tree /\ T.open = source[s].open /\ T.cyclemon = source[s].cyclemon
    BY <1>2, <2>1 DEF Shape
  <2>4. ~Ended(s)
    BY <2>2 DEF Closing, Over, IsFinished
  <2> QED
    BY <2>2, <2>3, <2>4, GoingOn
<1>4. ASSUME NEW t \in Task, HandleProbe(t)
      PROVE  Closing' /\ fault' = "none"
  <2>1. PICK T : T = AddTask(source[s], t)
    OBVIOUS
  <2>2. /\ source' = [source EXCEPT ![s] = T] /\ cmd = ProbeCmd(t) /\ cmd' = NoCmd
        /\ UNCHANGED <<client, abandoning, fault>> /\ InstallOrHold(t)
    BY <1>1, <1>4, <2>1 DEF HandleProbe, loops, Accounts, Shapes
  <2>3. T.tree = source[s].tree /\ T.open = source[s].open /\ T.cyclemon = source[s].cyclemon
    BY <1>2, <2>1 DEF AddTask, Shape
  <2>4. ~Ended(s)
    BY <1>1, <2>2 DEF Closing, Over, ProbeCmd
  <2>5. rota'.list = rota.list
    BY <2>2 DEF InstallOrHold, Rota
  <2>6. cmd'.type # "probe"
    BY <2>2 DEF NoCmd
  <2> QED
    BY <2>2, <2>3, <2>4, <2>5, <2>6, GoingOn
<1>5. ASSUME NEW t \in Task, HandleTask(t)
      PROVE  Closing' /\ fault' = "none"
  <2>1. life[t] # "freed"
    <3>1. SUFFICES ASSUME life[t] = "freed" PROVE FALSE
      OBVIOUS
    <3>2. Hand(s, TaskCmd(t)) = 1 /\ Count(source[s].commands, {TaskCmd(t)}) \in Nat
      BY <1>1, <1>5, WaitingType DEF HandleTask, Hand, Accounts
    <3>3. Waiting(s, TaskCmd(t)) # 0
      BY <3>2 DEF Waiting
    <3>4. SourceOf[t] = s
      BY <3>3 DEF Accounts, Ordered, Tasking
    <3>5. abandoning # SourceOf[t]
      BY <1>5, <3>4, SourcesAssumption DEF HandleTask, PlaceInv, Phased
    <3> QED
      BY <3>1, <3>3, <3>4, <3>5 DEF PlaceInv, Place, NotAgain, Settled, Through, Waits
  <2>2. /\ UNCHANGED <<source, client, abandoning, fault>> /\ cmd' = NoCmd /\ InstallOrHold(t)
    BY <1>5, <2>1 DEF HandleTask, loops
  <2>3. rota'.list = rota.list /\ cmd'.type # "probe"
    BY <2>2 DEF InstallOrHold, Rota, NoCmd
  <2> QED
    BY <2>2, <2>3, SameClosing
<1> QED
  BY <1>3, <1>4, <1>5

(* A finished source leaves the lists, and stays open for its client.      *)
LEMMA LeaveClosing ==
  ASSUME Accounts, rota \in Rota, Closing, cmd.type # "probe", NEW s \in Source, NEW T,
         IsFinished(T), source' = [source EXCEPT ![s] = T], rota' = Unlisted(rota, s),
         client[s] = "attached" => T.open,
         UNCHANGED <<cmd, client>>,
         abandoning' = abandoning \/ (abandoning = s /\ abandoning' = NoSource)
  PROVE  Closing'
<1>1. \A r \in Source : rota'.list[r] = "finished" => rota.list[r] = "finished"
  BY ListsEnd
<1>2. /\ client'[s] = "attached" => T.open
      /\ Kind[s] = "control" /\ client'[s] = "none" => rota'.list[s] # "finished"
  BY <1>1 DEF Closing, Unmade
<1>4. \A r \in Source : abandoning' = r => client'[r] = "flush"
  <2>1. \A r \in Source : r # NoSource
    BY SourcesAssumption
  <2> QED
    BY <2>1 DEF Closing, Leaving
<1>3. cmd'.type # "probe"
  OBVIOUS
<1>5. rota'.list[s] # "finished"
  BY ListsEnd
<1> QED
  BY <1>1, <1>2, <1>3, <1>4, <1>5, OneClosing

LEMMA DetachClosing ==
  ASSUME Accounts, Scope, rota \in Rota, PlaceInv, Closing,
         AbandonEnd \/ Exhausted \/ \E s \in Source : DetachFinished(s)
  PROVE  Closing' /\ fault' = fault
<1>1. ASSUME NEW s \in Source, IsFinished(source[s])
      PROVE  /\ IsFinished(Detach(source[s]))
             /\ client[s] = "attached" => Detach(source[s]).open
  <2>1. source[s] \in Shape
    BY DEF Accounts, Shapes
  <2>2. CASE client[s] = "attached"
    <3>1. PICK u \in Nat : u = Uses(s)
      BY UsesType DEF Accounts
    <3>2. Refs(s) = 1
      BY <2>2 DEF Refs, Flag
    <3>3. Balanced(source[s], 1, u)
      BY <3>1, <3>2 DEF Accounts, Ledger
    <3>4. Detach(source[s]).open = source[s].open
      BY <2>1, <3>3, DetachOpen
    <3> QED
      BY <1>1, <2>1, <2>2, <3>4, StaysFinished DEF Closing, Opened
  <2> QED
    BY <1>1, <2>1, <2>2, StaysFinished
<1>2. CASE AbandonEnd
  <2>1. PICK s \in Source : s = abandoning
    BY <1>2 DEF AbandonEnd, Scope
  <2>2. pc = "poll"
    BY <2>1, SourcesAssumption DEF PlaceInv, Phased
  <2>3. cmd.type # "probe"
    BY <2>2 DEF Accounts, Ordered, HandEmpty, NoCmd
  <2>4. PICK F : F = FlushCommands(source[s])
    OBVIOUS
  <2>5. source[s] \in Shape /\ source[s].tasks = <<>>
    BY <1>2, <2>1 DEF AbandonEnd, Accounts, Shapes
  <2>6. F \in Shape /\ F.commands = <<>> /\ F.tasks = <<>> /\ ~F.open
    BY <2>4, <2>5, FlushKept DEF Kept
  <2>7. IsFinished(Detach(F))
    BY <2>6, StaysFinished DEF IsFinished
  <2>8. client[s] # "attached"
    BY <2>1 DEF Closing, Leaving
  <2>9. /\ source' = [source EXCEPT ![s] = Detach(F)] /\ rota' = Unlisted(rota, s)
        /\ UNCHANGED <<cmd, client, fault>> /\ abandoning' = NoSource
    BY <1>2, <2>1, <2>4 DEF AbandonEnd, scans, Accounts, Shapes
  <2> QED
    BY <2>1, <2>3, <2>7, <2>8, <2>9, LeaveClosing
<1>3. ASSUME NEW s \in Source, DetachFinished(s)
      PROVE  Closing' /\ fault' = fault
  <2>1. cmd.type # "probe"
    BY <1>3 DEF DetachFinished, Accounts, Ordered, HandEmpty, NoCmd
  <2>2. IsFinished(source[s])
    BY <1>3 DEF DetachFinished, Closing, Ended, Over
  <2>3. /\ source' = [source EXCEPT ![s] = Detach(source[s])] /\ rota' = Unlisted(rota, s)
        /\ UNCHANGED <<cmd, client, fault, abandoning>>
    BY <1>3 DEF DetachFinished, scans, loops, Accounts, Shapes
  <2> QED
    BY <1>1, <2>1, <2>2, <2>3, LeaveClosing
<1>4. CASE Exhausted
  <2>1. PICK s \in Source : s = src
    BY <1>4 DEF Exhausted, Scope
  <2>2. cmd.type # "probe"
    BY <1>4 DEF Exhausted, Accounts, Ordered, HandEmpty, NoCmd
  <2>3. UNCHANGED <<cmd, client, fault, abandoning>>
    BY <1>4 DEF Exhausted, Serve, loops
  <2>4. CASE IsFinished(source[s])
    <3>1. source' = [source EXCEPT ![s] = Detach(source[s])] /\ rota' = Unlisted(rota, s)
      BY <1>4, <2>1, <2>4 DEF Exhausted, Serve, Accounts, Shapes
    <3> QED
      BY <1>1, <2>2, <2>3, <2>4, <3>1, LeaveClosing
  <2>5. CASE ~IsFinished(source[s])
    <3>1. source' = source /\ rota' = BlockedAttach(rota, s)
      BY <1>4, <2>1, <2>5 DEF Exhausted, Serve
    <3>2. \A r \in Source : rota'.list[r] = "finished" => rota.list[r] = "finished"
      BY <3>1, ListsEnd
    <3> QED
      BY <2>2, <2>3, <3>1, <3>2, SameClosing
  <2> QED
    BY <2>4, <2>5
<1> QED
  BY <1>2, <1>3, <1>4

(* A task is freed with its source's count above 1, and the last task of a *)
(* finished source leaves its cycle monitor to the source.                 *)
LEMMA FreeClosing ==
  ASSUME Accounts, Scope, rota \in Rota, PlaceInv, Closing, fault = "none", FreeTask
  PROVE  Closing' /\ fault' = "none"
<1>1. PICK t \in Task : t = freeing
  BY DEF FreeTask, Scope
<1>2. PICK s \in Source : s = SourceOf[t]
  BY SourcesAssumption
<1>3. PICK R \in Shape : R = source[s]
  BY DEF Accounts, Shapes
<1>4. PICK k \in {0, 1} : k = IF t \in uses THEN 1 ELSE 0
  OBVIOUS
<1>5. PICK S : S = LoseTask(R, t, k)
  OBVIOUS
<1>6. pc \in {"poll", "done"}
  BY <1>1, SourcesAssumption DEF PlaceInv, Phased
<1>7. cmd.type # "probe"
  BY <1>6 DEF Accounts, Ordered, HandEmpty, NoCmd
<1>8. life[t] = "alive"
  <2>1. Count(done_queue, {t}) \in Nat
    BY CountType DEF Accounts, Shapes
  <2>2. Count(done_queue, {t}) + 1 <= IF life[t] = "alive" THEN 1 ELSE 0
    BY <1>1 DEF Accounts, Living, DoneOnce
  <2> QED
    BY <2>1, <2>2
<1>9. R.tasks # <<>> /\ ~Ended(s) /\ R.open /\ (R.tree \/ Refs(s) = 1)
  <2>1. R.tasks # <<>> /\ ~Ended(s)
    BY <1>2, <1>3, <1>8, AliveKeeps
  <2>2. R.open /\ (R.tree \/ Wanted(s))
    BY <1>3, <2>1 DEF Ended
  <2>3. Wanted(s) => Refs(s) = 1
    BY DEF Wanted, Closing, Leaving, Refs, Flag
  <2> QED
    BY <2>1, <2>2, <2>3
<1>10. Count(R.tasks, {t}) = 1
  BY <1>2, <1>3, <1>8 DEF Accounts, Living, Listed
<1>11. /\ S \in Shape /\ S.commands = R.commands /\ S.open = R.open /\ S.eof = R.eof
       /\ S.tasks = Without(R.tasks, t)
       /\ \A c, u \in Nat : Balanced(R, c, u + k) => Balanced(S, c, u)
  BY ONLY <1>5, <1>10, R \in Shape, t \in Task, k \in {0, 1}, LoseTaskKept
<1>12. S.refcnt = R.refcnt - 1 /\ S.tree = R.tree /\ S.cyclemon = R.cyclemon
  BY <1>5 DEF LoseTask, Shape
<1>13. /\ Uses(s) \in Nat /\ Refs(s) \in {0, 1} /\ Balanced(R, Refs(s), Uses(s))
  BY <1>3, UsesType
<1>14. S.refcnt # 0
  <2>1. PICK n \in Nat : n = Len(R.tasks) /\ n # 0
    <3>1. R.tasks \in Seq(Task) /\ Len(R.tasks) \in Nat
      BY Countable
    <3>2. Len(R.tasks) # 0
      BY <1>9, <3>1, EmptySeq
    <3> QED
      BY <3>1, <3>2
  <2>2. PICK c \in {0, 1} : c = Refs(s)
    BY <1>13
  <2>3. R.refcnt = n + 1 + c \/ R.refcnt = n + 1
    <3>1. R.refcnt = n + Flag(R.tree) + c
      BY <1>13, <2>1, <2>2 DEF Balanced
    <3>2. Flag(R.tree) = 1 \/ (Flag(R.tree) = 0 /\ c = 1)
      BY <1>9, <2>2 DEF Flag
    <3>3. CASE Flag(R.tree) = 1
      BY <3>1, <3>3
    <3>4. CASE Flag(R.tree) = 0 /\ c = 1
      BY <3>1, <3>4
    <3> QED
      BY <3>2, <3>3, <3>4
  <2> QED
    BY <1>12, <2>1, <2>2, <2>3
<1>15. SourceTaskFree(s, S) /\ UNCHANGED <<cmd, src, client, abandoning>>
  BY <1>1, <1>2, <1>3, <1>4, <1>5, <1>14 DEF FreeTask, LoseTask, scans
<1>16. CASE IsFinished(S)
  <2>1. S.commands = <<>> /\ S.tasks = <<>> /\ (S.open => S.eof)
    BY <1>16 DEF IsFinished
  <2>2. Of(uses \ {t}, s) = {}
    <3> SUFFICES ASSUME NEW u \in uses \ {t}, SourceOf[u] = s PROVE FALSE
      BY DEF Of
    <3>1. u \in Task /\ life[u] = "alive"
      BY DEF Accounts, Shapes, Living, Alive
    <3>2. Count(R.tasks, {u}) = 1
      BY <1>3, <3>1 DEF Accounts, Living, Listed
    <3>3. R.tasks \in Seq(Task)
      BY DEF Shape
    <3>4. t # u => Count(Without(R.tasks, t), {u}) = Count(R.tasks, {u})
      BY ONLY <3>3, WithoutOne, ZenonT(60)
    <3>5. Count(<<>>, {u}) = 1
      BY <1>11, <2>1, <3>2, <3>4
    <3> QED
      BY <3>5, CountEmpty
  <2>3. Uses(s) = k
    <3>1. IsFiniteSet(uses)
      BY DEF Accounts, Shapes
    <3>2. /\ t \in uses /\ SourceOf[t] = s
             => Cardinality(Of(uses \ {t}, s)) = Cardinality(Of(uses, s)) - 1
          /\ ~(t \in uses /\ SourceOf[t] = s)
             => Cardinality(Of(uses \ {t}, s)) = Cardinality(Of(uses, s))
      BY <3>1, OfRemove
    <3>3. Cardinality(Of(uses, s)) \in Nat
      BY <3>1, OfAdd
    <3>4. Cardinality(Of(uses \ {t}, s)) = 0
      BY <2>2, FS_EmptySet
    <3>5. Cardinality(Of(uses, s)) = k
      BY <1>2, <1>4, <3>2, <3>3, <3>4
    <3> QED
      BY <1>7, <3>3, <3>5 DEF Uses, Flag
  <2>4. PICK c \in Nat : c = Refs(s)
    BY <1>13
  <2>5. Balanced(S, c, 0)
    <3>1. Balanced(R, c, 0 + k)
      BY <1>13, <2>3, <2>4
    <3> QED
      BY <1>11, <3>1
  <2>6. S.cyclemon => S.cm = 1
    <3>1. S.cm = Flag(S.cyclemon) + Count(<<>>, ProbeSet) + 0
      BY <2>1, <2>5 DEF Balanced
    <3> QED
      BY <3>1, CountEmpty DEF Flag
  <2>7. PICK U : U = Unuse(S)
    OBVIOUS
  <2>8. U \in Shape /\ IsFinished(U) /\ U.open = S.open /\ Balanced(U, c, 0)
    BY <1>11, <1>16, <2>1, <2>5, <2>7, UnuseKept, StaysFinished DEF Kept
  <2>9. PICK T : T = Detach(U)
    OBVIOUS
  <2>10. IsFinished(T)
    BY <2>8, <2>9, StaysFinished
  <2>11. client[s] = "attached" => T.open
    <3>1. client[s] = "attached" => c = 1
      BY <2>4 DEF Refs, Flag
    <3>2. c = 1 => T.open = U.open
      BY <2>8, <2>9, DetachOpen
    <3> QED
      BY <1>9, <1>11, <2>8, <3>1, <3>2
  <2>12. /\ source' = [source EXCEPT ![s] = T] /\ rota' = Unlisted(rota, s)
         /\ fault' = "none"
    BY <1>15, <1>16, <2>6, <2>7, <2>9 DEF SourceTaskFree
  <2> QED
    BY <1>7, <1>15, <2>10, <2>11, <2>12, LeaveClosing
<1>17. CASE ~IsFinished(S)
  <2>1. source' = [source EXCEPT ![s] = S] /\ rota' = rota /\ fault' = fault
    BY <1>15, <1>17 DEF SourceTaskFree
  <2> QED
    BY <1>3, <1>9, <1>11, <1>12, <1>15, <2>1, GoingOn
<1> QED
  BY <1>16, <1>17

(* Steps that change no source.                                            *)
LEMMA StillClosing ==
  ASSUME Accounts, rota \in Rota, Closing,
         \/ GetTask \/ EndPoll \/ EndProbe \/ EndDone \/ StartScan \/ TakeNone \/ HandleCycle
         \/ \E t \in Task : TaskDone(t) \/ AbandonTask(t) \/ ProcessDone(t)
         \/ UNCHANGED vars
  PROVE  Closing' /\ fault' = fault
<1>1. CASE \/ TakeNone \/ \E t \in Task : TaskDone(t) \/ AbandonTask(t) \/ ProcessDone(t)
           \/ UNCHANGED vars
  <2>1. UNCHANGED <<source, client, abandoning, src, cmd, rota, fault>>
    BY <1>1 DEF TakeNone, TaskDone, AbandonTask, ProcessDone, scans, loops, vars
  <2> QED
    BY <2>1, SameClosing
<1>2. CASE GetTask \/ EndPoll \/ EndProbe \/ EndDone
  <2>1. UNCHANGED <<source, client, abandoning, src, cmd, rota, fault>>
    BY <1>2 DEF GetTask, EndPoll, EndProbe, EndDone, Phase, loops
  <2> QED
    BY <2>1, SameClosing
<1>3. CASE HandleCycle
  <2>1. UNCHANGED <<source, client, abandoning, rota, fault>> /\ cmd'.type # "probe"
    BY <1>3 DEF HandleCycle, loops, NoCmd
  <2> QED
    BY <2>1, SameClosing
<1>4. CASE StartScan
  <2>1. UNCHANGED <<source, client, abandoning, cmd, fault>> /\ pc = "gettask"
    BY <1>4 DEF StartScan, Serve, loops
  <2>2. cmd'.type # "probe"
    BY <2>1 DEF Accounts, Ordered, HandEmpty, NoCmd
  <2>3. rota' = SourceNext(rota) \/ rota' = rota
    BY <1>4 DEF StartScan, Serve
  <2>4. SourceNext(rota).list = rota.list
    BY DEF SourceNext, Rota
  <2> QED
    BY <2>1, <2>2, <2>3, <2>4, SameClosing
<1> QED
  BY <1>1, <1>2, <1>3, <1>4

(* The sources end as they should, whatever happens next.                  *)
LEMMA NextClosing ==
  ASSUME SourcesInv, PlaceInv, Closing, fault = "none", [Next]_vars, Plain
  PROVE  Closing' /\ fault' = "none"
<1>1. Accounts /\ Scope /\ rota \in Rota
  BY DEF SourcesInv, RotaInv, Sound
<1>2. ASSUME NEW s \in Source, ClientOp(s) \/ ReadLine(s) \/ ReadEnd(s)
      PROVE  Closing' /\ fault' = "none"
  <2>1. ASSUME NEW t \in Task, Command2(s, t) \/ HaltTask(s, t)
        PROVE  Closing' /\ fault' = "none"
    BY <1>1, <2>1, CommandClosing
  <2>2. CASE Attach(s) \/ ClientFree(s)
    <3>1. fault' = fault
      BY <2>2 DEF Attach, ClientFree
    <3> QED
      BY <1>1, <2>2, <3>1, ClientClosing
  <2>3. ASSUME NEW fin \in BOOLEAN, ClientClose(s, fin)
        PROVE  Closing' /\ fault' = "none"
    <3>1. fault' = fault
      BY <2>3 DEF ClientClose
    <3> QED
      BY <1>1, <2>3, <3>1, CloseClosing
  <2>4. CASE ReadLine(s)
    <3>1. fault' = fault
      BY <2>4 DEF ReadLine
    <3> QED
      BY <1>1, <2>4, <3>1, LineClosing
  <2> QED
    BY <1>1, <1>2, <2>1, <2>2, <2>3, <2>4, DoneClosing DEF ClientOp
<1>3. CASE MainStep
  <2>1. ~TakeChunk /\ ~TakeEnd
    <3> SUFFICES ASSUME TakeChunk \/ TakeEnd PROVE FALSE
      OBVIOUS
    <3>1. src \in Source
      BY <1>1 DEF TakeChunk, TakeEnd, Scope
    <3> QED
      BY <3>1 DEF TakeChunk, TakeEnd, Reads, Plain
  <2> QED
    BY <1>1, <1>3, <2>1, DetachClosing, UnholdClosing, FreeClosing, HandleClosing,
       StillClosing DEF MainStep
<1>4. ~ShutdownFlush
  BY DEF ShutdownFlush, Plain
<1> QED
  BY <1>1, <1>2, <1>3, <1>4, StillClosing DEF Next

LEMMA InitClosing == Init => Closing /\ fault = "none"
<1> SUFFICES ASSUME Init PROVE Closing /\ fault = "none"
  OBVIOUS
<1>1. ASSUME NEW s \in Source, Ended(s)
      PROVE  Over(s)
  <2>1. source[s] = Started(s) /\ cmd = NoCmd /\ rota.list[s] # "finished"
    BY DEF Init
  <2>2. CASE Kind[s] = "control"
    BY <2>1, <2>2 DEF Started, Absent, Over, IsFinished, NoCmd
  <2>3. CASE Kind[s] # "control"
    <3>1. Started(s).tree /\ Started(s).open
      BY <2>3 DEF Started, Fresh, AddLines
    <3> QED
      BY <1>1, <2>1, <3>1 DEF Ended
  <2> QED
    BY <2>2, <2>3
<1>2. Opened /\ Unmade /\ Leaving /\ Spent
  BY SourcesAssumption DEF Init, Opened, Unmade, Leaving, Spent
<1> QED
  BY <1>1, <1>2 DEF Init, Closing

(* NoFault, for sources that are not regular files (see the README): when  *)
(* a client does not halt a task that is on hold and nobody flushes the    *)
(* sources, no assertion of the sources code fails, no command is given to *)
(* a list that is gone, and nothing uses a source or a task that was freed.*)
THEOREM NoFaultHolds ==
  ASSUME Plain
  PROVE  Spec => []NoFault
<1>1. Init => SourcesInv /\ PlaceInv /\ Closing /\ fault = "none"
  BY InitAccounts, InitPlaces, InitClosing
<1>2. SourcesInv /\ PlaceInv /\ Closing /\ fault = "none" /\ [Next]_vars
      => (SourcesInv /\ PlaceInv /\ Closing /\ fault = "none")'
  <2> SUFFICES ASSUME SourcesInv, PlaceInv, Closing, fault = "none", [Next]_vars
               PROVE  (SourcesInv /\ PlaceInv /\ Closing /\ fault = "none")'
    OBVIOUS
  <2>1. SourcesInv' /\ Accounts /\ Scope
    BY NextAccounts DEF SourcesInv, RotaInv
  <2>2. "halt_held" \notin Allow
    BY DEF Plain
  <2>3. (\A t \in Task : Place(t)') /\ Phased'
    BY <2>1, <2>2, NextPlaced, NextPhased DEF PlaceInv
  <2>4. Closing' /\ fault' = "none"
    BY NextClosing
  <2> QED
    BY <2>1, <2>3, <2>4 DEF PlaceInv
<1>3. SourcesInv /\ PlaceInv /\ Closing /\ fault = "none" => NoFault
  BY DEF NoFault
<1> QED
  BY <1>1, <1>2, <1>3, PTL DEF Spec

-----------------------------------------------------------------------------
(* The order in which overlapping tasks of one source start.               *)

(* u is submitted before t, which may not overtake it.                     *)
Ahead(u, t) ==
  SourceOf[u] = SourceOf[t] /\ <<u, t>> \in Conflict /\ Order[u] < Order[t]

(* t has started, or never will.                                           *)
Begun(t) == t \in installed \/ life[t] = "freed" \/ Places(done_queue, t) # {} \/ freeing = t

CmdsOf(t) == {ProbeCmd(t), TaskCmd(t)}

(* Nothing of T is in the list but after something of U.                   *)
LinedUp(q, U, T) ==
  \A j \in DOMAIN q : q[j] \in T => \E i \in DOMAIN q : i < j /\ q[i] \in U

(* Where t is while u, ahead of it, has not started: behind u in every     *)
(* hold list, and in the commands unless u was taken from there.           *)
Behind(u, t) ==
  /\ \A b \in Task : LinedUp(onhold[b], {u}, {t})
  /\ cmd \in CmdsOf(t) => ~Unheld(u)
  /\ \/ ~Unheld(u) \/ cmd \in CmdsOf(u)
     \/ LinedUp(source[SourceOf[t]].commands, CmdsOf(u), CmdsOf(t))

(* A task holds those it overlaps.                                         *)
Holding == \A b, t \in Task : Count(onhold[b], {t}) # 0 => <<b, t>> \in Conflict

(* What is submitted, and has not started, is somewhere.                   *)
Present(t) ==
  life[t] \in {"line", "alive"} /\ source[SourceOf[t]].open =>
    \/ Begun(t) \/ ~Unheld(t) \/ cmd \in CmdsOf(t)
    \/ Count(source[SourceOf[t]].commands, CmdsOf(t)) # 0

Queueing ==
  /\ Holding
  /\ \A t \in Task : Present(t)
  /\ \A u, t \in Task : Ahead(u, t) => Begun(u) \/ Behind(u, t)

(* Overlapping is transitive, as for tasks with one destination it is.     *)
Chained ==
  \A u, t, v \in Task : <<u, t>> \in Conflict /\ <<t, v>> \in Conflict
                        => u = v \/ <<u, v>> \in Conflict

-----------------------------------------------------------------------------
(* The commands of one task are not those of another.                    *)
LEMMA CmdsApart ==
  ASSUME NEW t \in Task
  PROVE  /\ \A u \in Task : u # t => \A c \in CmdsOf(u) : c \notin CmdsOf(t)
         /\ NoCmd \notin CmdsOf(t) /\ CycleCmd \notin CmdsOf(t)
         /\ TaskCmd(t) \in CmdsOf(t) /\ CmdsOf(t) \subseteq Commands
<1>1. t # NoTask
  BY SourcesAssumption
<1>2. \A u : \A c \in CmdsOf(u) : c.task = u
  BY DEF CmdsOf, ProbeCmd, TaskCmd
<1>3. NoCmd.task = NoTask /\ CycleCmd.task = NoTask
  BY DEF NoCmd, CycleCmd
<1> QED
  BY <1>1, <1>2, <1>3 DEF CmdsOf, Commands

(* An empty list, or one other element.                                  *)
LEMMA LinedUpShort ==
  ASSUME NEW U, NEW T
  PROVE  LinedUp(<<>>, U, T) /\ \A c : c \notin T => LinedUp(<<c>>, U, T)
  BY DEF LinedUp

(* One list after another.                                                 *)
LEMMA LinedUpConcat ==
  ASSUME NEW S, NEW a \in Seq(S), NEW b \in Seq(S), NEW U, NEW T, LinedUp(a, U, T),
         (\E i \in DOMAIN a : a[i] \in U) \/ LinedUp(b, U, T)
  PROVE  LinedUp(a \o b, U, T)
<1>1. /\ Len(a) \in Nat /\ DOMAIN a = 1 .. Len(a) /\ Len(b) \in Nat /\ DOMAIN b = 1 .. Len(b)
      /\ DOMAIN (a \o b) = 1 .. Len(a) + Len(b)
      /\ \A i \in 1 .. Len(a) + Len(b) : (a \o b)[i] = IF i <= Len(a) THEN a[i] ELSE b[i - Len(a)]
  OBVIOUS
<1> DEFINE c == a \o b
<1> HIDE DEF c
<1>2. SUFFICES ASSUME NEW j \in 1 .. Len(a) + Len(b), c[j] \in T
               PROVE  \E i \in 1 .. Len(a) + Len(b) : i < j /\ c[i] \in U
  BY <1>1 DEF LinedUp, c
<1>3. \A i \in 1 .. Len(a) : i \in 1 .. Len(a) + Len(b) /\ c[i] = a[i]
  BY <1>1 DEF c
<1>4. \A i \in 1 .. Len(b) : Len(a) + i \in 1 .. Len(a) + Len(b) /\ c[Len(a) + i] = b[i]
  <2> SUFFICES ASSUME NEW i \in 1 .. Len(b)
               PROVE  Len(a) + i \in 1 .. Len(a) + Len(b) /\ c[Len(a) + i] = b[i]
    OBVIOUS
  <2>1. /\ Len(a) + i \in 1 .. Len(a) + Len(b)
        /\ ~(Len(a) + i <= Len(a)) /\ (Len(a) + i) - Len(a) = i
    BY <1>1
  <2> QED
    BY <1>1, <2>1 DEF c
<1>5. CASE j <= Len(a)
  <2>1. PICK i \in 1 .. Len(a) : i < j /\ a[i] \in U
    BY <1>1, <1>2, <1>3, <1>5 DEF LinedUp
  <2> QED
    BY <1>3, <2>1
<1>6. CASE ~(j <= Len(a))
  <2>1. PICK k \in 1 .. Len(b) : j = Len(a) + k
    <3>1. j - Len(a) \in 1 .. Len(b) /\ j = Len(a) + (j - Len(a))
      BY <1>1, <1>6
    <3> QED
      BY <3>1
  <2>2. CASE \E i \in DOMAIN a : a[i] \in U
    <3>1. PICK i \in 1 .. Len(a) : a[i] \in U
      BY <1>1, <2>2
    <3>2. i < j
      BY <1>1, <1>6
    <3> QED
      BY <1>3, <3>1, <3>2
  <2>3. CASE LinedUp(b, U, T)
    <3>1. PICK i \in 1 .. Len(b) : i < k /\ b[i] \in U
      BY <1>1, <1>2, <1>4, <2>1, <2>3 DEF LinedUp
    <3>2. Len(a) + i < j
      BY <1>1, <2>1, <3>1
    <3> QED
      BY <1>4, <3>1, <3>2
  <2> QED
    BY <2>2, <2>3
<1> QED
  BY <1>5, <1>6

(* One more element, at either end.                                        *)
LEMMA LinedUpMore ==
  ASSUME NEW S, NEW q \in Seq(S), NEW c \in S, NEW U, NEW T, LinedUp(q, U, T)
  PROVE  /\ c \notin T => LinedUp(<<c>> \o q, U, T)
         /\ c \notin T \/ Count(q, U) # 0 => LinedUp(Append(q, c), U, T)
<1>1. <<c>> \in Seq(S) /\ Append(q, c) = q \o <<c>>
  BY AppendIsConcat
<1>2. c \notin T => LinedUp(<<c>>, U, T)
  BY LinedUpShort
<1>3. Count(q, U) # 0 => \E i \in DOMAIN q : q[i] \in U
  BY CountType
<1> QED
  BY <1>1, <1>2, <1>3, LinedUpConcat

(* The first of U may be the first of the list.                            *)
LEMMA LinedUpFirst ==
  ASSUME NEW S, NEW q \in Seq(S), NEW c \in S, NEW U, NEW T, c \in U, c \notin T
  PROVE  LinedUp(<<c>> \o q, U, T)
<1>1. <<c>> \in Seq(S)
  OBVIOUS
<1>2. c \notin T => LinedUp(<<c>>, U, T)
  BY LinedUpShort
<1>3. \E i \in DOMAIN <<c>> : <<c>>[i] \in U
  OBVIOUS
<1> QED
  BY <1>1, <1>2, <1>3, LinedUpConcat

(* One element less, at either end.                                        *)
LEMMA LinedUpLess ==
  ASSUME NEW S, NEW q \in Seq(S), q # <<>>, NEW U, NEW T, LinedUp(q, U, T)
  PROVE  /\ Head(q) \notin T
         /\ Head(q) \notin U => LinedUp(Tail(q), U, T)
         /\ LinedUp(Front(q), U, T)
         /\ Last(q) \in T => \E i \in DOMAIN q : q[i] \in U
<1>1. /\ Len(q) \in Nat \ {0} /\ DOMAIN q = 1 .. Len(q)
      /\ Head(q) = q[1] /\ Last(q) = q[Len(q)]
  BY DEF Last
<1>2. /\ DOMAIN Tail(q) = 1 .. Len(q) - 1
      /\ \A i \in 1 .. Len(q) - 1 : Tail(q)[i] = q[i + 1]
  BY <1>1
<1>3. /\ DOMAIN Front(q) = 1 .. Len(q) - 1
      /\ \A i \in 1 .. Len(q) - 1 : Front(q)[i] = q[i]
  BY <1>1 DEF Front
<1>4. Head(q) \notin T
  BY <1>1 DEF LinedUp
<1>5. ASSUME Head(q) \notin U, NEW j \in 1 .. Len(q) - 1, Tail(q)[j] \in T
      PROVE  \E i \in 1 .. Len(q) - 1 : i < j /\ Tail(q)[i] \in U
  <2>1. j + 1 \in 1 .. Len(q) /\ q[j + 1] \in T
    BY <1>1, <1>2, <1>5
  <2>2. PICK i \in 1 .. Len(q) : i < j + 1 /\ q[i] \in U
    BY <1>1, <2>1 DEF LinedUp
  <2>3. i # 1
    BY <1>1, <1>5, <2>2
  <2>4. i - 1 \in 1 .. Len(q) - 1 /\ i - 1 < j /\ (i - 1) + 1 = i
    BY <1>1, <2>2, <2>3
  <2> QED
    BY <1>2, <2>2, <2>4
<1>6. ASSUME NEW j \in 1 .. Len(q) - 1, Front(q)[j] \in T
      PROVE  \E i \in 1 .. Len(q) - 1 : i < j /\ Front(q)[i] \in U
  <2>1. j \in 1 .. Len(q) /\ q[j] \in T
    BY <1>1, <1>3, <1>6
  <2>2. PICK i \in 1 .. Len(q) : i < j /\ q[i] \in U
    BY <1>1, <2>1 DEF LinedUp
  <2>3. i \in 1 .. Len(q) - 1
    BY <1>1, <2>2
  <2> QED
    BY <1>3, <2>2, <2>3
<1>7. Last(q) \in T => \E i \in DOMAIN q : q[i] \in U
  BY <1>1 DEF LinedUp
<1> QED
  BY <1>2, <1>3, <1>4, <1>5, <1>6, <1>7 DEF LinedUp

(* One element less, which is none of U.                                   *)
LEMMA LinedUpWithout ==
  ASSUME NEW S, NEW q \in Seq(S), NEW x, NEW U, NEW T, x \notin U, LinedUp(q, U, T)
  PROVE  LinedUp(Without(q, x), U, T)
<1>1. CASE Places(q, x) = {}
  BY <1>1 DEF Without
<1>2. CASE Places(q, x) # {}
  <2>1. PICK k \in DOMAIN q : q[k] = x /\ Without(q, x) = RemoveAt(q, k)
    BY <1>2 DEF Without, Places
  <2> DEFINE r == RemoveAt(q, k)
  <2>2. /\ Len(q) \in Nat /\ DOMAIN q = 1 .. Len(q) /\ r \in Seq(S) /\ Len(r) = Len(q) - 1
        /\ \A j \in 1 .. Len(q) - 1 : r[j] = IF j < k THEN q[j] ELSE q[j + 1]
    BY RemoveAtElements
  <2>3. DOMAIN r = 1 .. Len(q) - 1
    BY <2>2
  <2> HIDE DEF r
  <2>4. SUFFICES ASSUME NEW j \in 1 .. Len(q) - 1, r[j] \in T
                 PROVE  \E i \in 1 .. Len(q) - 1 : i < j /\ r[i] \in U
    BY <2>1, <2>3 DEF LinedUp, r
  <2>5. PICK m \in 1 .. Len(q) : q[m] \in T /\ m = IF j < k THEN j ELSE j + 1
    BY <2>2, <2>4
  <2>6. PICK i \in 1 .. Len(q) : i < m /\ q[i] \in U
    BY <2>2, <2>5 DEF LinedUp
  <2>7. i # k /\ k \in 1 .. Len(q)
    BY <2>1, <2>2, <2>6
  <2>8. CASE i < k
    <3>1. i \in 1 .. Len(q) - 1 /\ i < j
      BY <2>2, <2>5, <2>6, <2>7, <2>8
    <3> QED
      BY <2>2, <2>6, <2>8, <3>1
  <2>9. CASE ~(i < k)
    <3>1. i - 1 \in 1 .. Len(q) - 1 /\ i - 1 < j /\ ~(i - 1 < k) /\ (i - 1) + 1 = i
      BY <2>2, <2>5, <2>6, <2>7, <2>9
    <3> QED
      BY <2>2, <2>6, <3>1
  <2> QED
    BY <2>8, <2>9
<1> QED
  BY <1>1, <1>2

-----------------------------------------------------------------------------
(* Steps that put no task in a list, and take none from one that stays.    *)
LEMMA QuietOrder ==
  ASSUME Shapes, Queueing, UNCHANGED onhold,
         cmd' = cmd \/ (cmd' = NoCmd /\ \A t \in Task : cmd \notin CmdsOf(t)),
         \A t \in Task : Begun(t) => Begun(t)',
         \A t \in Task : life'[t] = life[t] \/ life'[t] = "freed",
         \A s \in Source :
           \/ Shut(source[s], source'[s])
           \/ source'[s].commands = <<CycleCmd>>
                /\ \A t \in Task : SourceOf[t] = s => life'[t] = "new"
  PROVE  Queueing'
<1>1. \A t \in Task : SourceOf[t] \in Source
  BY SourcesAssumption
<1>2. \A t \in Task : Unheld(t)' <=> Unheld(t)
  BY DEF Unheld
<1>3. Holding'
  BY DEF Queueing, Holding
<1>4. \A t \in Task : cmd' \in CmdsOf(t) <=> cmd \in CmdsOf(t)
  BY CmdsApart
<1>5. ASSUME NEW t \in Task
      PROVE  Present(t)'
  <2>1. Present(t)
    BY DEF Queueing
  <2>2. CASE Shut(source[SourceOf[t]], source'[SourceOf[t]])
    BY <1>1, <1>2, <1>4, <2>1, <2>2 DEF Present, Shut, Begun
  <2>3. CASE life'[t] = "new"
    BY <2>3 DEF Present
  <2> QED
    BY <1>1, <2>2, <2>3
<1>6. ASSUME NEW u \in Task, NEW t \in Task, Ahead(u, t)
      PROVE  Begun(u)' \/ Behind(u, t)'
  <2>1. SUFFICES ASSUME Behind(u, t)
                 PROVE  Behind(u, t)'
    BY <1>6 DEF Queueing
  <2>2. \/ source'[SourceOf[t]].commands = source[SourceOf[t]].commands
        \/ source'[SourceOf[t]].commands = <<>>
        \/ source'[SourceOf[t]].commands = <<CycleCmd>>
    BY <1>1 DEF Shut
  <2>3. CycleCmd \notin CmdsOf(t)
    BY CmdsApart
  <2>4. LinedUp(<<>>, CmdsOf(u), CmdsOf(t)) /\ LinedUp(<<CycleCmd>>, CmdsOf(u), CmdsOf(t))
    <3>1. PICK U, T : U = CmdsOf(u) /\ T = CmdsOf(t)
      OBVIOUS
    <3>2. CycleCmd \notin T
      BY <2>3, <3>1
    <3>3. LinedUp(<<>>, U, T) /\ LinedUp(<<CycleCmd>>, U, T)
      BY ONLY <3>2, LinedUpShort
    <3> QED
      BY <3>1, <3>3
  <2>5. LinedUp(source[SourceOf[t]].commands, CmdsOf(u), CmdsOf(t))
        => LinedUp(source'[SourceOf[t]].commands, CmdsOf(u), CmdsOf(t))
    BY <2>2, <2>4
  <2> QED
    BY <1>2, <1>4, <2>1, <2>5 DEF Behind, CmdsOf, ProbeCmd, TaskCmd
<1>7. \A u, t \in Task : Ahead(u, t)' <=> Ahead(u, t)
  BY DEF Ahead, Order
<1> QED
  BY <1>3, <1>5, <1>6 DEF Queueing, Ahead, Order

(* What q is for NextOf, and in the order of submission.                   *)
NextInOrder(s, q) ==
  /\ NextOf(s, q)
  /\ \A i \in DOMAIN q, u \in Task :
       SourceOf[u] = s /\ Order[u] < Order[q[i]] /\ life[u] = "new"
       => \E h \in DOMAIN q : h < i /\ q[h] = u

(* A task is where Order says among what its source submits.             *)
LEMMA OrderIs ==
  ASSUME NEW t \in Task
  PROVE  /\ SourceOf[t] \in Source /\ Order[t] \in 1 .. Len(Submits[SourceOf[t]])
         /\ Submits[SourceOf[t]][Order[t]] = t
<1>1. SourceOf[t] \in Source /\ Submits[SourceOf[t]] \in Seq(Task)
  BY SourcesAssumption
<1>2. \E i \in DOMAIN Submits[SourceOf[t]] : Submits[SourceOf[t]][i] = t
  BY <1>1, SourcesAssumption
<1>3. /\ Order[t] \in DOMAIN Submits[SourceOf[t]]
      /\ Submits[SourceOf[t]][Order[t]] = t
  BY <1>2 DEF Order
<1> QED
  BY <1>1, <1>3, LenProperties

(* The next lines come in the order of submission.                       *)
LEMMA NextLinesInOrder ==
  ASSUME Shapes, Submitted, NEW s \in Source, NEW k \in 0 .. Len(Unsent(s)),
         NEW q, q = SubSeq(Unsent(s), 1, k)
  PROVE  NextInOrder(s, q)
<1> DEFINE n == Unsent(s)
           z == Submits[s]
           m == Min(News(s))
<1>1. NextOf(s, q) /\ Len(q) = k
  BY NextLines
<1>2. q \in Seq(Task) /\ DOMAIN q = 1 .. k /\ k \in Nat
  BY <1>1 DEF NextOf
<1> HIDE DEF n, z, m
<1>3. SUFFICES ASSUME NEW i \in 1 .. k, NEW u \in Task,
                      SourceOf[u] = s, Order[u] < Order[q[i]], life[u] = "new"
               PROVE  \E h \in 1 .. k : h < i /\ q[h] = u
  <2>1. DOMAIN q = 1 .. k /\ NextOf(s, q)
    BY <1>1, <1>2
  <2> QED
    BY ONLY <2>1, <1>3 DEF NextInOrder
<1> USE DEF n, z, m
<1>4. Order[u] \in 1 .. Len(z) /\ z[Order[u]] = u
  BY <1>3, OrderIs
<1>5. Order[u] \in News(s) /\ z \in Seq(Task) /\ Len(z) \in Nat
  <2>1. z \in Seq(Task)
    BY SourcesAssumption
  <2>2. Len(z) \in Nat /\ DOMAIN z = 1 .. Len(z)
    BY <2>1, LenProperties
  <2> QED
    BY <1>3, <1>4, <2>1, <2>2 DEF News
<1>6. m \in 1 .. Len(z) /\ m <= Order[u]
  <2>1. News(s) # {}
    BY <1>5
  <2>2. m \in News(s) /\ \A j \in News(s) : m <= j
    BY <2>1, FirstNews
  <2> QED
    BY <1>5, <2>2 DEF News
<1>7. n = SubSeq(z, m, Len(z))
  BY <1>5 DEF Unsent
<1> HIDE DEF n, z, m
<1>8. Len(n) = Len(z) - m + 1 /\ \A j \in 1 .. Len(n) : n[j] = z[m + j - 1]
  BY <1>5, <1>6, <1>7, SubSeqProperties
<1>9. k <= Len(n) /\ q = SubSeq(n, 1, k)
  BY DEF n
<1>10. \A j \in 1 .. k : q[j] = n[j] /\ j \in 1 .. Len(n)
  BY <1>2, <1>5, <1>6, <1>7, <1>8, <1>9
<1>11. \A j \in 1 .. k : m + j - 1 \in 1 .. Len(z) /\ q[j] = z[m + j - 1]
  BY <1>2, <1>5, <1>6, <1>8, <1>9, <1>10
<1>12. Order[q[i]] = m + i - 1
  <2>1. q[i] \in Task /\ SourceOf[q[i]] = s
    BY <1>1, <1>2 DEF NextOf, Member
  <2>2. Order[q[i]] \in 1 .. Len(z) /\ z[Order[q[i]]] = q[i]
    BY <2>1, OrderIs DEF z
  <2>3. \A x, y \in DOMAIN z : z[x] = z[y] => x = y
    BY SourcesAssumption DEF z
  <2>4. DOMAIN z = 1 .. Len(z)
    BY <1>5
  <2> QED
    BY <1>11, <2>2, <2>3, <2>4
<1>13. PICK h \in 1 .. k : h = Order[u] - m + 1
  <2>1. Order[u] - m + 1 \in 1 .. k
    BY <1>2, <1>3, <1>4, <1>5, <1>6, <1>12
  <2> QED
    BY <2>1
<1>14. h < i /\ m + h - 1 = Order[u]
  BY <1>2, <1>3, <1>4, <1>5, <1>6, <1>12, <1>13
<1> QED
  BY <1>4, <1>11, <1>14

(* More commands, of new tasks, in their order.                            *)
LEMMA AddedOrder ==
  ASSUME Shapes, Queueing, NEW s \in Source, NEW q, NextInOrder(s, q),
         NEW X \in Seq(Commands), Len(X) = Len(q),
         \A i \in DOMAIN q : X[i] \in CmdsOf(q[i]),
         NEW T, T.commands = source[s].commands \o X, T.open = source[s].open, source[s].open,
         source' = [source EXCEPT ![s] = T],
         UNCHANGED <<cmd, onhold, installed, done_queue, freeing>>,
         \A t \in Task : life'[t] = life[t] \/ Member(q, t)
  PROVE  Queueing'
<1>1. source'[s] = T /\ \A r \in Source \ {s} : source'[r] = source[r]
  BY DEF Shapes
<1>2. \A t \in Task : SourceOf[t] \in Source
  BY SourcesAssumption
<1>3. PICK c \in Seq(Commands) : c = source[s].commands
  BY DEF Shapes, Shape
<1>4. q \in Seq(Task) /\ \A t : Member(q, t) => SourceOf[t] = s /\ life[t] = "new"
  BY DEF NextInOrder, NextOf
<1>5. DOMAIN X = DOMAIN q
  BY <1>4
<1>6. \A t \in Task : Begun(t) => Begun(t)'
  BY <1>4 DEF Begun
<1>7. \A t \in Task : Unheld(t)' <=> Unheld(t)
  BY DEF Unheld
<1>8. \A P : Count(c \o X, P) = Count(c, P) + Count(X, P)
              /\ Count(c, P) \in Nat /\ Count(X, P) \in Nat
  BY CountConcat, CountType
<1>9. Holding'
  BY DEF Queueing, Holding
<1>10. ASSUME NEW t \in Task
       PROVE  Present(t)'
  <2>1. Present(t)
    BY DEF Queueing
  <2>2. CASE Member(q, t)
    <3>1. PICK i \in DOMAIN X : X[i] \in CmdsOf(t)
      BY <1>5, <2>2 DEF Member
    <3>2. Count(X, CmdsOf(t)) # 0
      BY <3>1, CountType
    <3>3. Count(c \o X, CmdsOf(t)) # 0
      BY <1>8, <3>2
    <3> QED
      BY <1>1, <1>3, <1>4, <2>2, <3>3 DEF Present
  <2>3. CASE ~Member(q, t) /\ SourceOf[t] = s
    <3>1. Count(c, CmdsOf(t)) # 0 => Count(c \o X, CmdsOf(t)) # 0
      BY <1>8
    <3> QED
      BY <1>1, <1>3, <1>6, <1>7, <2>1, <2>3, <3>1 DEF Present
  <2>4. CASE ~Member(q, t) /\ SourceOf[t] # s
    BY <1>1, <1>2, <1>6, <1>7, <2>1, <2>4 DEF Present
  <2> QED
    BY <2>2, <2>3, <2>4
<1>11. ASSUME NEW u \in Task, NEW t \in Task, Ahead(u, t)
       PROVE  Begun(u)' \/ Behind(u, t)'
  <2>1. SUFFICES ASSUME ~Begun(u), Behind(u, t)
                 PROVE  Behind(u, t)'
    BY <1>6, <1>11 DEF Queueing
  <2>2. SUFFICES ASSUME Unheld(u), cmd \notin CmdsOf(u)
                 PROVE  LinedUp(source'[SourceOf[t]].commands, CmdsOf(u), CmdsOf(t))
    BY <1>7, <2>1 DEF Behind, CmdsOf, ProbeCmd, TaskCmd
  <2>3. LinedUp(source[SourceOf[t]].commands, CmdsOf(u), CmdsOf(t))
    BY <2>1, <2>2 DEF Behind
  <2>4. CASE SourceOf[t] = s
    <3>1. Count(c, CmdsOf(u)) # 0 \/ life[u] = "new"
      <4>1. Present(u) /\ SourceOf[u] = s
        BY <1>11, <2>4 DEF Queueing, Ahead
      <4> QED
        BY <1>3, <2>1, <2>2, <4>1 DEF Present, Begun, Shapes
    <3>2. ASSUME life[u] = "new", NEW j \in DOMAIN X, X[j] \in CmdsOf(t)
          PROVE  \E i \in DOMAIN X : i < j /\ X[i] \in CmdsOf(u)
      <4>1. q[j] \in Task /\ X[j] \in CmdsOf(q[j])
        BY <1>4, <1>5
      <4>2. q[j] = t
        BY <3>2, <4>1, CmdsApart
      <4>3. PICK h \in DOMAIN q : h < j /\ q[h] = u
        BY <1>5, <1>11, <2>4, <3>2, <4>2 DEF NextInOrder, Ahead
      <4> QED
        BY <1>5, <4>3
    <3>3. life[u] = "new" => LinedUp(X, CmdsOf(u), CmdsOf(t))
      BY <3>2 DEF LinedUp
    <3>4. LinedUp(c, CmdsOf(u), CmdsOf(t))
      BY <1>3, <2>3, <2>4
    <3>5. Count(c, CmdsOf(u)) # 0 => \E i \in DOMAIN c : c[i] \in CmdsOf(u)
      BY CountType
    <3>6. LinedUp(c \o X, CmdsOf(u), CmdsOf(t))
      BY <3>1, <3>3, <3>4, <3>5, LinedUpConcat
    <3> QED
      BY <1>1, <1>3, <2>4, <3>6
  <2>5. CASE SourceOf[t] # s
    BY <1>1, <1>2, <2>3, <2>5
  <2> QED
    BY <2>4, <2>5
<1> QED
  BY <1>9, <1>10, <1>11 DEF Queueing, Ahead, Order

(* The command at hand is of a task of the source that gettask serves.     *)
LEMMA OwnCommands ==
  ASSUME Accounts, NEW s \in Source, NEW t \in Task,
         (\E c \in CmdsOf(t) : Count(source[s].commands, {c}) # 0)
           \/ (src = s /\ cmd \in CmdsOf(t))
  PROVE  SourceOf[t] = s
<1>1. PICK c \in CmdsOf(t) : Count(source[s].commands, {c}) # 0 \/ (src = s /\ cmd = c)
  OBVIOUS
<1>2. Waiting(s, c) # 0
  <2>1. Waiting(s, c) = Count(source[s].commands, {c}) + Hand(s, c)
    BY DEF Waiting
  <2>2. Count(source[s].commands, {c}) \in Nat /\ Hand(s, c) \in {0, 1}
    BY WaitingType, HandType DEF Accounts
  <2>3. src = s /\ cmd = c => Hand(s, c) = 1
    BY DEF Hand
  <2> QED
    BY <1>1, <2>1, <2>2, <2>3
<1>3. CASE c = TaskCmd(t)
  BY <1>2, <1>3 DEF Accounts, Ordered, Tasking
<1>4. CASE c = ProbeCmd(t)
  <2>1. Waiting(s, ProbeCmd(t)) <= IF SourceOf[t] = s /\ life[t] = "line" THEN 1 ELSE 0
    BY DEF Accounts, Ordered, Probing
  <2>2. Waiting(s, c) \in Nat
    BY WaitingType DEF Accounts
  <2> QED
    BY <1>2, <1>4, <2>1, <2>2
<1> QED
  BY <1>1, <1>3, <1>4 DEF CmdsOf

(* gettask takes the first command.                                        *)
LEMMA PopOrder ==
  ASSUME Accounts, Scope, Queueing, PopCommand
  PROVE  Queueing'
<1>1. PICK s \in Source : s = src
  BY DEF PopCommand, Scope
<1>2. PICK c \in Seq(Commands) : c = source[s].commands /\ c # <<>>
  BY <1>1 DEF PopCommand, Accounts, Shapes, Shape
<1>3. PICK T : T = [source[s] EXCEPT !.commands = Tail(c)]
  OBVIOUS
<1>4. T.commands = Tail(c) /\ T.open = source[s].open
  BY <1>2, <1>3 DEF Accounts, Shapes, Shape
<1>5. /\ source' = [source EXCEPT ![s] = T] /\ cmd' = Head(c)
      /\ UNCHANGED <<src, life, onhold, installed, done_queue, freeing, abandoning>>
      /\ pc = "scan"
  BY <1>1, <1>2, <1>3 DEF PopCommand, works, loops
<1>6. source'[s] = T /\ \A r \in Source \ {s} : source'[r] = source[r]
  BY <1>5 DEF Accounts, Shapes
<1>7. cmd = NoCmd
  BY <1>5 DEF Accounts, Ordered, HandEmpty
<1>8. \A t \in Task : (Unheld(t)' <=> Unheld(t)) /\ (Begun(t)' <=> Begun(t))
  BY <1>5 DEF Unheld, Begun
<1>9. \A t \in Task : SourceOf[t] \in Source /\ cmd \notin CmdsOf(t)
  BY <1>7, SourcesAssumption, CmdsApart
<1>10. ASSUME NEW t \in Task, Head(c) \in CmdsOf(t)
       PROVE  SourceOf[t] = s
  <2>1. PICK h : h = Head(c)
    OBVIOUS
  <2>2. c[1] = h /\ 1 \in DOMAIN c
    BY <1>2, <2>1
  <2>3. Count(c, {h}) # 0
    BY <2>2, CountType
  <2> QED
    BY <1>2, <1>10, <2>1, <2>3, OwnCommands
<1>11. Holding'
  BY <1>5 DEF Queueing, Holding
<1>12. ASSUME NEW t \in Task
       PROVE  Present(t)'
  <2>1. Present(t)
    BY DEF Queueing
  <2>2. CASE SourceOf[t] = s
    <3>1. Head(c) \in CmdsOf(t) \/ (Count(c, CmdsOf(t)) # 0 => Count(Tail(c), CmdsOf(t)) # 0)
      <4>1. PICK P : P = CmdsOf(t)
        OBVIOUS
      <4>2. Count(Tail(c), P) = Count(c, P) - IF Head(c) \in P THEN 1 ELSE 0
        BY <1>2, CountEnds
      <4>3. Count(c, P) \in Nat
        BY CountType
      <4>4. Head(c) \in P \/ (Count(c, P) # 0 => Count(Tail(c), P) # 0)
        BY <4>2, <4>3
      <4> QED
        BY <4>1, <4>4
    <3> QED
      BY <1>2, <1>4, <1>5, <1>6, <1>8, <1>9, <2>1, <2>2, <3>1 DEF Present, CmdsOf, ProbeCmd, TaskCmd
  <2>3. CASE SourceOf[t] # s
    BY <1>5, <1>6, <1>8, <1>9, <2>1, <2>3 DEF Present
  <2> QED
    BY <2>2, <2>3
<1>13. ASSUME NEW u \in Task, NEW t \in Task, Ahead(u, t)
       PROVE  Begun(u)' \/ Behind(u, t)'
  <2>1. SUFFICES ASSUME Behind(u, t), Unheld(u)
                 PROVE  Behind(u, t)'
    BY <1>5, <1>8, <1>13 DEF Queueing, Behind
  <2>2. LinedUp(source[SourceOf[t]].commands, CmdsOf(u), CmdsOf(t))
    BY <1>9, <2>1 DEF Behind
  <2>3. /\ SourceOf[t] = s => Head(c) \notin CmdsOf(t)
        /\ SourceOf[t] = s /\ Head(c) \notin CmdsOf(u) => LinedUp(Tail(c), CmdsOf(u), CmdsOf(t))
    <3> SUFFICES ASSUME SourceOf[t] = s
                 PROVE  /\ Head(c) \notin CmdsOf(t)
                        /\ Head(c) \notin CmdsOf(u) => LinedUp(Tail(c), CmdsOf(u), CmdsOf(t))
      OBVIOUS
    <3>1. LinedUp(c, CmdsOf(u), CmdsOf(t))
      BY <1>2, <2>2
    <3>2. PICK U, V : U = CmdsOf(u) /\ V = CmdsOf(t)
      OBVIOUS
    <3>3. Head(c) \notin V /\ (Head(c) \notin U => LinedUp(Tail(c), U, V))
      BY <1>2, <3>1, <3>2, LinedUpLess
    <3> QED
      BY <3>2, <3>3
  <2>4. Head(c) \notin CmdsOf(t)
    BY <1>10, <2>3
  <2>5. CASE SourceOf[t] = s
    BY <1>4, <1>5, <1>6, <2>1, <2>3, <2>4, <2>5 DEF Behind, CmdsOf, ProbeCmd, TaskCmd
  <2>6. CASE SourceOf[t] # s
    BY <1>5, <1>6, <1>9, <2>1, <2>2, <2>4, <2>6 DEF Behind, CmdsOf, ProbeCmd, TaskCmd
  <2> QED
    BY <2>5, <2>6
<1> QED
  BY <1>11, <1>12, <1>13 DEF Queueing, Ahead, Order

(* What overlaps t and holds what is ahead of t overlaps t.                *)
LEMMA HolderRuns ==
  ASSUME Chained, Queueing, Blocking, onhold \in [Task -> Seq(Task)],
         NEW u \in Task, NEW t \in Task, Ahead(u, t), ~Unheld(u)
  PROVE  \E c \in Task : /\ c \in installed /\ Count(onhold[c], {u}) # 0
                         /\ c = t \/ <<c, t>> \in Conflict
<1>1. PICK c \in Task : Count(onhold[c], {u}) # 0
  BY DEF Unheld
<1>2. <<c, u>> \in Conflict /\ <<u, t>> \in Conflict
  BY <1>1 DEF Queueing, Holding, Ahead
<1>3. onhold[c] # <<>>
  BY <1>1, CountEmpty
<1> QED
  BY <1>1, <1>2, <1>3 DEF Chained, Blocking

(* gettask handles the command of t: t starts, or is held.                 *)
LEMMA HandleOrder ==
  ASSUME Chained, Exclusive, Accounts, Scope, Queueing, NEW t \in Task, InstallOrHold(t),
         cmd \in CmdsOf(t), cmd' = NoCmd, UNCHANGED <<done_queue, freeing>>,
         life'[t] = "alive", \A u \in Task \ {t} : life'[u] = life[u],
         life[t] # "freed", life[t] # "new",
         \A r \in Source : /\ source'[r].commands = source[r].commands
                           /\ source'[r].open = source[r].open
  PROVE  Queueing'
<1>1. /\ \A u \in Task : SourceOf[u] \in Source /\ cmd' \notin CmdsOf(u)
      /\ \A u \in Task \ {t} : cmd \notin CmdsOf(u)
  BY SourcesAssumption, CmdsApart
<1>2. onhold \in [Task -> Seq(Task)] /\ Blocking /\ installed \subseteq Task
  BY DEF Scope, Accounts, Living, Shapes
<1>3. CASE installed' = installed \cup {t} /\ UNCHANGED onhold
  <2>1. \A u \in Task : (Unheld(u)' <=> Unheld(u)) /\ (Begun(u) => Begun(u)') /\ Begun(t)'
    BY <1>3 DEF Unheld, Begun
  <2>2. Holding'
    BY <1>3 DEF Queueing, Holding
  <2>3. ASSUME NEW u \in Task
        PROVE  Present(u)'
    <3>1. Present(u)
      BY DEF Queueing
    <3>2. CASE u # t
      BY <1>1, <2>1, <3>1, <3>2 DEF Present
    <3> QED
      BY <2>1, <3>2 DEF Present
  <2>4. ASSUME NEW u \in Task, NEW v \in Task, Ahead(u, v)
        PROVE  Begun(u)' \/ Behind(u, v)'
    <3>1. SUFFICES ASSUME u # t, Behind(u, v)
                   PROVE  Behind(u, v)'
      BY <2>1, <2>4 DEF Queueing
    <3> QED
      BY <1>1, <1>3, <2>1, <3>1 DEF Behind, CmdsOf, ProbeCmd, TaskCmd
  <2> QED
    BY <2>2, <2>3, <2>4 DEF Queueing, Ahead, Order
<1>4. CASE installed' = installed /\ \E b \in SigBlock(t) : onhold' = [onhold EXCEPT ![b] = Append(@, t)]
  <2>1. PICK b \in Task : /\ b \in installed /\ <<b, t>> \in Conflict
                          /\ onhold' = [onhold EXCEPT ![b] = Append(onhold[b], t)]
    BY <1>2, <1>4 DEF SigBlock
  <2>2. PICK q \in Seq(Task) : q = onhold[b] /\ onhold'[b] = Append(q, t)
    BY <1>2, <2>1
  <2>3. \A c \in Task \ {b} : onhold'[c] = onhold[c]
    BY <1>2, <2>1
  <2>4. ASSUME NEW u
        PROVE  /\ u # t => Count(Append(q, t), {u}) = Count(q, {u})
               /\ Count(Append(q, t), {t}) # 0
    <3>1. PICK n \in Nat : n = Count(q, {t})
      BY CountType
    <3>2. Count(Append(q, t), {t}) = Count(q, {t}) + 1
      BY ONLY q \in Seq(Task), t \in Task, OneMore
    <3>3. u # t => Count(Append(q, t), {u}) = Count(q, {u})
      BY ONLY q \in Seq(Task), t \in Task, OneMore
    <3> QED
      BY <3>1, <3>2, <3>3
  <2>5. \A u \in Task : (~Unheld(u) => ~Unheld(u)') /\ ~Unheld(t)' /\ (Begun(u) => Begun(u)')
    BY <1>4, <2>2, <2>3, <2>4 DEF Unheld, Begun
  <2>6. Holding'
    <3> SUFFICES ASSUME NEW c \in Task, NEW u \in Task, Count(onhold'[c], {u}) # 0
                 PROVE  <<c, u>> \in Conflict
      BY DEF Holding
    <3>1. CASE c = b /\ u = t
      BY <2>1, <3>1
    <3>2. CASE c # b \/ u # t
      BY <2>2, <2>3, <2>4, <3>2 DEF Queueing, Holding
    <3> QED
      BY <3>1, <3>2
  <2>7. ASSUME NEW u \in Task
        PROVE  Present(u)'
    <3>1. Present(u)
      BY DEF Queueing
    <3>2. CASE u # t
      BY <1>1, <2>5, <3>1, <3>2 DEF Present
    <3> QED
      BY <2>5, <3>2 DEF Present
  <2>8. ASSUME NEW u \in Task, NEW v \in Task, Ahead(u, v)
        PROVE  Begun(u)' \/ Behind(u, v)'
    <3>1. SUFFICES ASSUME Behind(u, v)
                   PROVE  Behind(u, v)'
      BY <2>5, <2>8 DEF Queueing
    <3>2. LinedUp(Append(q, t), {u}, {v})
      <4>1. LinedUp(q, {u}, {v})
        BY <2>2, <3>1 DEF Behind
      <4>2. t # v \/ Count(q, {u}) # 0
        <5>1. SUFFICES ASSUME t = v
                       PROVE  Count(q, {u}) # 0
          OBVIOUS
        <5>2. ~Unheld(u)
          BY <3>1, <5>1 DEF Behind
        <5>3. PICK c \in Task : /\ c \in installed /\ Count(onhold[c], {u}) # 0
                                /\ c = t \/ <<c, t>> \in Conflict
          BY <1>2, <2>8, <5>1, <5>2, HolderRuns
        <5>4. <<t, b>> \in Conflict
          BY <2>1, SourcesAssumption
        <5>5. c = b
          BY <2>1, <5>3, <5>4 DEF Chained, Exclusive
        <5> QED
          BY <2>2, <5>3, <5>5
      <4>3. PICK U, V : U = {u} /\ V = {v}
        OBVIOUS
      <4>4. t \notin V \/ Count(q, U) # 0 => LinedUp(Append(q, t), U, V)
        BY ONLY <4>1, <4>3, q \in Seq(Task), t \in Task, LinedUpMore
      <4> QED
        BY <4>2, <4>3, <4>4
    <3>3. \A c \in Task : LinedUp(onhold'[c], {u}, {v})
      BY <2>2, <2>3, <3>1, <3>2 DEF Behind
    <3>4. \/ ~Unheld(u)' \/ cmd' \in CmdsOf(u)
          \/ LinedUp(source'[SourceOf[v]].commands, CmdsOf(u), CmdsOf(v))
      BY <1>1, <2>5, <3>1 DEF Behind
    <3> QED
      BY <1>1, <3>3, <3>4 DEF Behind, CmdsOf, ProbeCmd, TaskCmd
  <2> QED
    BY <2>6, <2>7, <2>8 DEF Queueing, Ahead, Order
<1> QED
  BY <1>3, <1>4 DEF InstallOrHold

(* A task is taken from its source and started, or held.                 *)
LEMMA HandlesOrder ==
  ASSUME Chained, Exclusive, Accounts, Scope, Queueing, NEW t \in Task,
         HandleProbe(t) \/ (HandleTask(t) /\ life[t] # "freed")
  PROVE  /\ Queueing' /\ pc = "handle" /\ cmd \in CmdsOf(t) /\ InstallOrHold(t)
         /\ UNCHANGED freeing
<1>1. PICK s \in Source : s = src
  BY DEF HandleProbe, HandleTask, Scope
<1>2. /\ pc = "handle" /\ cmd \in CmdsOf(t) /\ cmd' = NoCmd /\ InstallOrHold(t)
      /\ UNCHANGED <<done_queue, freeing>>
  BY DEF HandleProbe, HandleTask, loops, CmdsOf
<1>3. CASE HandleTask(t) /\ life[t] # "freed"
  <2>1. UNCHANGED <<source, life>> /\ cmd = TaskCmd(t)
    BY <1>3 DEF HandleTask
  <2>2. life[t] = "alive"
    <3>1. Hand(s, TaskCmd(t)) = 1 /\ Count(source[s].commands, {TaskCmd(t)}) \in Nat
      BY <1>1, <2>1, WaitingType DEF Hand, Accounts
    <3>2. Waiting(s, TaskCmd(t)) # 0
      BY <3>1 DEF Waiting
    <3> QED
      BY <1>3, <3>2 DEF Accounts, Ordered, Tasking, Early, Shapes
  <2> QED
    BY <1>2, <2>1, <2>2, HandleOrder
<1>4. CASE HandleProbe(t)
  <2>1. PICK T : T = AddTask(source[s], t)
    OBVIOUS
  <2>2. /\ cmd = ProbeCmd(t) /\ source' = [source EXCEPT ![s] = T]
        /\ life' = [life EXCEPT ![t] = "alive"]
    BY <1>1, <1>4, <2>1 DEF HandleProbe, Accounts, Shapes
  <2>3. T.commands = source[s].commands /\ T.open = source[s].open
    <3>1. source[s] \in Shape
      BY DEF Accounts, Shapes
    <3> QED
      BY <2>1, <3>1, AddTaskKept
  <2>4. \A r \in Source : /\ source'[r].commands = source[r].commands
                          /\ source'[r].open = source[r].open
    BY <2>2, <2>3 DEF Accounts, Shapes
  <2>5. life'[t] = "alive" /\ \A u \in Task \ {t} : life'[u] = life[u]
    BY <2>2 DEF Accounts, Shapes
  <2>6. life[t] = "line"
    <3>1. Hand(s, ProbeCmd(t)) = 1
      BY <1>1, <2>2 DEF Hand
    <3>2. Count(source[s].commands, {ProbeCmd(t)}) \in Nat
      BY WaitingType DEF Accounts
    <3>3. Waiting(s, ProbeCmd(t)) = Count(source[s].commands, {ProbeCmd(t)}) + 1
      BY <3>1 DEF Waiting
    <3>4. Waiting(s, ProbeCmd(t)) <= IF SourceOf[t] = s /\ life[t] = "line" THEN 1 ELSE 0
      BY DEF Accounts, Ordered, Probing
    <3> QED
      BY <3>2, <3>3, <3>4
  <2> QED
    BY <1>2, <2>4, <2>5, <2>6, HandleOrder
<1> QED
  BY <1>3, <1>4

(* A halted task is through; the others keep their places.                 *)
LEMMA HaltOrder ==
  ASSUME Accounts, Queueing, NEW s \in Source, NEW t \in Task, HaltTask(s, t), source[s].open
  PROVE  Queueing'
<1> DEFINE T == [source[s] EXCEPT !.commands = Without(source[s].commands, TaskCmd(t))]
<1>1. /\ source' = [source EXCEPT ![s] = T]
      /\ done_queue' = Append(Without(done_queue, t), t)
      /\ UNCHANGED <<life, onhold, installed, src, cmd, freeing>>
  BY DEF HaltTask, scans, loops
<1>2. done_queue \in Seq(Task)
  BY DEF Accounts, Shapes
<1>3. PICK c \in Seq(Commands) : c = source[s].commands
  BY DEF Accounts, Shapes, Shape
<1>4. T.commands = Without(c, TaskCmd(t)) /\ T.open = source[s].open
  BY <1>3 DEF Accounts, Shapes, Shape
<1> HIDE DEF T
<1>5. source'[s] = T /\ \A r \in Source \ {s} : source'[r] = source[r]
  BY <1>1 DEF Accounts, Shapes
<1>6. \A u \in Task : SourceOf[u] \in Source /\ (Unheld(u)' <=> Unheld(u))
  BY <1>1, SourcesAssumption DEF Unheld
<1>7. Begun(t)'
  <2>1. PICK q \in Seq(Task) : q = Without(done_queue, t)
    BY <1>2, WithoutSeq
  <2>2. Append(q, t)[Len(q) + 1] = t /\ Len(q) + 1 \in DOMAIN Append(q, t)
    BY <2>1
  <2>3. Places(done_queue', t) # {}
    BY <1>1, <2>1, <2>2 DEF Places
  <2> QED
    BY <2>3 DEF Begun
<1>8. \A u \in Task \ {t} : Begun(u) => Begun(u)'
  <2> SUFFICES ASSUME NEW u \in Task, u # t
               PROVE  Places(done_queue', u) # {} <=> Places(done_queue, u) # {}
    BY <1>1 DEF Begun
  <2>1. Places(Append(Without(done_queue, t), t), u) # {} <=> Places(done_queue, u) # {}
    BY <1>2, DonePlaces
  <2> QED
    BY <1>1, <2>1
<1>9. \A u \in Task \ {t} : TaskCmd(t) \notin CmdsOf(u)
  BY CmdsApart
<1>10. Holding'
  BY <1>1 DEF Queueing, Holding
<1>11. ASSUME NEW u \in Task
       PROVE  Present(u)'
  <2>1. Present(u)
    BY DEF Queueing
  <2>2. CASE u = t
    BY <1>7, <2>2 DEF Present
  <2>3. CASE u # t /\ SourceOf[u] = s
    <3>1. PICK P : P = CmdsOf(u)
      OBVIOUS
    <3>2. Count(Without(c, TaskCmd(t)), P) = Count(c, P)
      <4>1. TaskCmd(t) \notin P
        BY <1>9, <2>3, <3>1
      <4>2. PICK x : x = TaskCmd(t)
        OBVIOUS
      <4>3. x \notin P
        BY <4>1, <4>2
      <4>4. Count(Without(c, x), P) = Count(c, P)
        BY ONLY <4>3, c \in Seq(Commands), WithoutCount, ZenonT(60)
      <4> QED
        BY <4>2, <4>4
    <3> QED
      BY <1>1, <1>3, <1>4, <1>5, <1>6, <1>8, <2>1, <2>3, <3>1, <3>2 DEF Present
  <2>4. CASE u # t /\ SourceOf[u] # s
    BY <1>1, <1>5, <1>6, <1>8, <2>1, <2>4 DEF Present
  <2> QED
    BY <2>2, <2>3, <2>4
<1>12. ASSUME NEW u \in Task, NEW v \in Task, Ahead(u, v)
       PROVE  Begun(u)' \/ Behind(u, v)'
  <2>1. SUFFICES ASSUME u # t, Behind(u, v)
                 PROVE  Behind(u, v)'
    BY <1>7, <1>8, <1>12 DEF Queueing
  <2>2. LinedUp(source[SourceOf[v]].commands, CmdsOf(u), CmdsOf(v))
        => LinedUp(source'[SourceOf[v]].commands, CmdsOf(u), CmdsOf(v))
    <3>1. SUFFICES ASSUME LinedUp(source[SourceOf[v]].commands, CmdsOf(u), CmdsOf(v)), SourceOf[v] = s
                   PROVE  LinedUp(Without(c, TaskCmd(t)), CmdsOf(u), CmdsOf(v))
      BY <1>4, <1>5, <1>6
    <3>2. PICK U, V : U = CmdsOf(u) /\ V = CmdsOf(v)
      OBVIOUS
    <3>3. LinedUp(c, U, V) /\ TaskCmd(t) \notin U
      BY <1>3, <1>9, <2>1, <3>1, <3>2
    <3>4. LinedUp(Without(c, TaskCmd(t)), U, V)
      BY ONLY <3>3, c \in Seq(Commands), LinedUpWithout
    <3> QED
      BY <3>2, <3>4
  <2> QED
    BY <1>1, <1>6, <2>1, <2>2 DEF Behind, CmdsOf, ProbeCmd, TaskCmd
<1> QED
  BY <1>10, <1>11, <1>12 DEF Queueing, Ahead, Order

(* The task that was put on hold last goes first.                          *)
LEMMA UnholdOrder ==
  ASSUME Accounts, Scope, Phased, Queueing, Unhold, source[SourceOf[Last(onhold[freeing])]].open
  PROVE  Queueing'
<1>1. PICK b \in Task : b = freeing
  BY DEF Unhold, Scope
<1>2. onhold[b] \in Seq(Task) /\ onhold[b] # <<>> /\ onhold \in [Task -> Seq(Task)]
  BY <1>1 DEF Unhold, Scope
<1>3. PICK t \in Task : t = Last(onhold[b])
  BY <1>1, HeldTask DEF Unhold
<1>4. PICK s \in Source : s = SourceOf[t]
  BY SourcesAssumption
<1>5. PICK c \in Seq(Commands) : c = source[s].commands
  BY DEF Accounts, Shapes, Shape
<1>6. PICK T : T = PushHead(source[s], TaskCmd(t))
  OBVIOUS
<1>7. T.commands = <<TaskCmd(t)>> \o c /\ T.open = source[s].open
  BY <1>5, <1>6 DEF PushHead, Accounts, Shapes, Shape
<1>8. /\ onhold' = [onhold EXCEPT ![b] = Front(onhold[b])]
      /\ source' = [source EXCEPT ![s] = T]
      /\ UNCHANGED <<life, installed, done_queue, src, cmd, freeing, abandoning>>
  BY <1>1, <1>2, <1>3, <1>4, <1>6 DEF Unhold, Accounts, Shapes, scans, loops
<1>9. source'[s] = T /\ \A r \in Source \ {s} : source'[r] = source[r]
  BY <1>8 DEF Accounts, Shapes
<1>10. PICK q \in Seq(Task) : q = onhold[b] /\ q # <<>>
  BY <1>2
<1>11. onhold'[b] = Front(q) /\ \A a \in Task \ {b} : onhold'[a] = onhold[a]
  BY <1>2, <1>8, <1>10
<1>12. \A u : /\ t # u => Count(Front(q), {u}) = Count(q, {u})
              /\ Count(Front(q), {u}) # 0 => Count(q, {u}) # 0
  <2> SUFFICES ASSUME NEW u
               PROVE  /\ t # u => Count(Front(q), {u}) = Count(q, {u})
                      /\ Count(Front(q), {u}) # 0 => Count(q, {u}) # 0
    OBVIOUS
  <2>1. t # u => Count(Front(q), {u}) = Count(q, {u})
    BY <1>3, <1>10, OneLast
  <2>2. t = u => Count(q, {u}) # 0
    <3>1. Len(q) \in DOMAIN q /\ q[Len(q)] = t
      BY <1>3, <1>10 DEF Last
    <3> QED
      BY <3>1, CountType
  <2> QED
    BY <2>1, <2>2
<1>13. /\ \A u \in Task : SourceOf[u] \in Source /\ cmd \notin CmdsOf(u) /\ (Begun(u)' <=> Begun(u))
       /\ \A u \in Task \ {t} : Unheld(u)' <=> Unheld(u)
  <2>1. pc \in {"poll", "done"}
    BY <1>1, SourcesAssumption DEF Phased
  <2>2. cmd = NoCmd
    BY <2>1 DEF Accounts, Ordered, HandEmpty
  <2>3. \A u \in Task : SourceOf[u] \in Source /\ cmd \notin CmdsOf(u)
    BY <2>2, CmdsApart, SourcesAssumption
  <2>4. \A u \in Task : Begun(u)' <=> Begun(u)
    BY <1>8 DEF Begun
  <2>5. \A u \in Task \ {t} : \A a \in Task : Count(onhold'[a], {u}) = Count(onhold[a], {u})
    BY <1>10, <1>11, <1>12
  <2> QED
    BY <2>3, <2>4, <2>5 DEF Unheld
<1>14. TaskCmd(t) \in Commands /\ TaskCmd(t) \in CmdsOf(t)
       /\ \A u \in Task \ {t} : TaskCmd(t) \notin CmdsOf(u)
  BY CmdsApart
<1>15. Holding'
  BY <1>10, <1>11, <1>12 DEF Queueing, Holding
<1>16. ASSUME NEW u \in Task
       PROVE  Present(u)'
  <2>1. Present(u)
    BY DEF Queueing
  <2>2. ASSUME NEW P
        PROVE  TaskCmd(t) \in P \/ Count(c, P) # 0 => Count(<<TaskCmd(t)>> \o c, P) # 0
    <3>1. Count(<<TaskCmd(t)>> \o c, P) = Count(c, P) + IF TaskCmd(t) \in P THEN 1 ELSE 0
      BY <1>14, CountAppend
    <3>2. Count(c, P) \in Nat
      BY CountType
    <3> QED
      BY <3>1, <3>2
  <2>3. CASE u = t
    BY <1>4, <1>7, <1>9, <1>14, <2>2, <2>3 DEF Present
  <2>4. CASE u # t /\ SourceOf[u] = s
    BY <1>5, <1>7, <1>8, <1>9, <1>13, <2>1, <2>2, <2>4 DEF Present
  <2>5. CASE u # t /\ SourceOf[u] # s
    BY <1>8, <1>9, <1>13, <2>1, <2>5 DEF Present
  <2> QED
    BY <2>3, <2>4, <2>5
<1>17. ASSUME NEW u \in Task, NEW v \in Task, Ahead(u, v)
       PROVE  Begun(u)' \/ Behind(u, v)'
  <2>1. SUFFICES ASSUME Behind(u, v)
                 PROVE  Behind(u, v)'
    BY <1>13, <1>17 DEF Queueing
  <2>2. u # v /\ SourceOf[u] = SourceOf[v]
    BY <1>17, SourcesAssumption DEF Ahead
  <2>3. LinedUp(q, {u}, {v}) /\ LinedUp(Front(q), {u}, {v})
    <3>1. PICK U, V : U = {u} /\ V = {v}
      OBVIOUS
    <3>2. LinedUp(q, U, V)
      BY <1>10, <2>1, <3>1 DEF Behind
    <3>3. LinedUp(Front(q), U, V)
      BY ONLY <3>2, q \in Seq(Task), <1>10, LinedUpLess
    <3> QED
      BY <3>1, <3>2, <3>3
  <2>4. \A a \in Task : LinedUp(onhold'[a], {u}, {v})
    BY <1>11, <2>1, <2>3 DEF Behind
  <2>5. \/ ~Unheld(u)'
        \/ LinedUp(source'[SourceOf[v]].commands, CmdsOf(u), CmdsOf(v))
    <3>1. CASE u = t
      <4>1. PICK U, V : U = CmdsOf(u) /\ V = CmdsOf(v)
        OBVIOUS
      <4>2. TaskCmd(t) \in U /\ TaskCmd(t) \notin V
        BY <1>14, <2>2, <3>1, <4>1
      <4>3. LinedUp(<<TaskCmd(t)>> \o c, U, V)
        BY ONLY <4>2, <1>14, c \in Seq(Commands), LinedUpFirst
      <4> QED
        BY <1>4, <1>7, <1>9, <2>2, <3>1, <4>1, <4>3
    <3>2. CASE u # t /\ v = t
      <4>1. \E i \in DOMAIN q : q[i] \in {u}
        BY <1>3, <1>10, <2>3, <3>2, LinedUpLess
      <4>2. Count(q, {u}) # 0
        BY <4>1, CountType
      <4>3. ~Unheld(u)
        BY <1>10, <4>2 DEF Unheld
      <4> QED
        BY <1>13, <3>2, <4>3
    <3>3. CASE u # t /\ v # t
      <4>1. SUFFICES ASSUME LinedUp(source[SourceOf[v]].commands, CmdsOf(u), CmdsOf(v)), SourceOf[v] = s
                     PROVE  LinedUp(<<TaskCmd(t)>> \o c, CmdsOf(u), CmdsOf(v))
        BY <1>7, <1>9, <1>13, <2>1, <3>3 DEF Behind
      <4>2. PICK U, V : U = CmdsOf(u) /\ V = CmdsOf(v)
        OBVIOUS
      <4>3. LinedUp(c, U, V) /\ TaskCmd(t) \notin V
        BY <1>5, <1>14, <3>3, <4>1, <4>2
      <4>4. LinedUp(<<TaskCmd(t)>> \o c, U, V)
        BY ONLY <4>3, <1>14, c \in Seq(Commands), LinedUpMore
      <4> QED
        BY <4>2, <4>4
    <3> QED
      BY <3>1, <3>2, <3>3
  <2> QED
    BY <1>8, <1>13, <2>4, <2>5 DEF Behind, CmdsOf, ProbeCmd, TaskCmd
<1> QED
  BY <1>15, <1>16, <1>17 DEF Queueing, Ahead, Order

(* A task that is freed leaves every hold list, wherever it is in it.      *)
LEMMA FreeOrder ==
  ASSUME Accounts, Scope, Queueing, FreeTask, life' # life
  PROVE  Queueing'
<1>1. PICK t \in Task : t = freeing
  BY DEF FreeTask, Scope
<1>2. PICK s \in Source : s = SourceOf[t]
  BY SourcesAssumption
<1>3. PICK R \in Shape : R = source[s]
  BY DEF Accounts, Shapes
<1>4. PICK k \in {0, 1} : k = IF t \in uses THEN 1 ELSE 0
  OBVIOUS
<1>5. PICK S : S = LoseTask(R, t, k)
  OBVIOUS
<1>6. /\ SourceTaskFree(s, S) /\ life' = [life EXCEPT ![t] = "freed"]
      /\ onhold' = [b \in Task |-> Without(onhold[b], t)]
      /\ installed' = installed \ {t} /\ freeing' = NoTask
      /\ UNCHANGED <<done_queue, src, cmd, abandoning>>
  BY <1>1, <1>2, <1>3, <1>4, <1>5 DEF FreeTask, LoseTask, Crash, works, scans
<1>7. Count(R.tasks, {t}) = 1
  <2>1. Count(done_queue, {t}) \in Nat
    BY CountType DEF Accounts, Shapes
  <2>2. Count(done_queue, {t}) + 1 <= IF life[t] = "alive" THEN 1 ELSE 0
    BY <1>1 DEF Accounts, Living, DoneOnce
  <2>3. life[t] = "alive"
    BY <2>1, <2>2
  <2> QED
    BY <1>2, <1>3, <2>3 DEF Accounts, Living, Listed
<1>8. PICK T : source' = [source EXCEPT ![s] = T] /\ Shut(R, T)
  <2>1. S \in Shape /\ S.commands = R.commands /\ S.open = R.open
    BY ONLY <1>5, <1>7, R \in Shape, t \in Task, k \in {0, 1}, LoseTaskKept
  <2>2. PICK U : U = Unuse(S)
    OBVIOUS
  <2>3. U \in Shape /\ Shut(S, U) /\ Shut(U, Detach(U))
    BY <2>1, <2>2, UnuseKept, Shutting DEF Kept
  <2>4. source' = [source EXCEPT ![s] = S] \/ source' = [source EXCEPT ![s] = Detach(U)]
    BY <1>6, <2>2 DEF SourceTaskFree
  <2>5. Shut(R, S) /\ Shut(R, Detach(U))
    BY <2>1, <2>3 DEF Shut
  <2> QED
    BY <2>4, <2>5
<1>9. \A r \in Source : Shut(source[r], source'[r])
  BY <1>3, <1>8 DEF Accounts, Shapes, Shut
<1>10. life'[t] = "freed" /\ \A u \in Task \ {t} : life'[u] = life[u]
  BY <1>6 DEF Accounts, Shapes
<1>11. Begun(t)' /\ \A u \in Task \ {t} : Begun(u) => Begun(u)'
  BY <1>1, <1>6, <1>10 DEF Begun
<1>12. \A b \in Task : onhold[b] \in Seq(Task) /\ onhold'[b] = Without(onhold[b], t)
  BY <1>6 DEF Scope
<1>13. ASSUME NEW b \in Task, NEW u \in Task
       PROVE  /\ u # t => Count(onhold'[b], {u}) = Count(onhold[b], {u})
              /\ Count(onhold'[b], {u}) # 0 => Count(onhold[b], {u}) # 0
  <2>1. PICK q \in Seq(Task) : q = onhold[b] /\ onhold'[b] = Without(q, t)
    BY <1>12
  <2>2. t # u \/ Count(q, {u}) = 0 => Count(Without(q, t), {u}) = Count(q, {u})
    BY ONLY q \in Seq(Task), WithoutOne, ZenonT(60)
  <2> QED
    BY <2>1, <2>2
<1>14. \A u \in Task : SourceOf[u] \in Source
  BY SourcesAssumption
<1>15. \A u \in Task \ {t} : Unheld(u)' <=> Unheld(u)
  BY <1>13 DEF Unheld
<1>16. Holding'
  BY <1>13 DEF Queueing, Holding
<1>17. ASSUME NEW u \in Task
       PROVE  Present(u)'
  <2>1. Present(u)
    BY DEF Queueing
  <2>2. CASE u = t
    BY <1>11, <2>2 DEF Present
  <2>3. CASE u # t
    BY <1>6, <1>9, <1>10, <1>11, <1>14, <1>15, <2>1, <2>3 DEF Present, Shut
  <2> QED
    BY <2>2, <2>3
<1>18. ASSUME NEW u \in Task, NEW v \in Task, Ahead(u, v)
       PROVE  Begun(u)' \/ Behind(u, v)'
  <2>1. SUFFICES ASSUME u # t, Behind(u, v)
                 PROVE  Behind(u, v)'
    BY <1>11, <1>18 DEF Queueing
  <2>2. ASSUME NEW b \in Task
        PROVE  LinedUp(onhold'[b], {u}, {v})
    <3>1. PICK q \in Seq(Task) : q = onhold[b] /\ onhold'[b] = Without(q, t)
      BY <1>12
    <3>2. PICK U, V : U = {u} /\ V = {v}
      OBVIOUS
    <3>3. LinedUp(q, U, V) /\ t \notin U
      BY <2>1, <3>1, <3>2 DEF Behind
    <3>4. LinedUp(Without(q, t), U, V)
      BY ONLY <3>3, q \in Seq(Task), LinedUpWithout
    <3> QED
      BY <3>1, <3>2, <3>4
  <2>3. LinedUp(<<>>, CmdsOf(u), CmdsOf(v))
    BY LinedUpShort
  <2>4. LinedUp(source[SourceOf[v]].commands, CmdsOf(u), CmdsOf(v))
        => LinedUp(source'[SourceOf[v]].commands, CmdsOf(u), CmdsOf(v))
    BY <1>9, <1>14, <2>3 DEF Shut
  <2> QED
    BY <1>6, <1>15, <2>1, <2>2, <2>4 DEF Behind, CmdsOf, ProbeCmd, TaskCmd
<1> QED
  BY <1>16, <1>17, <1>18 DEF Queueing, Ahead, Order

(* The done queue: what enters it is through, what leaves it is freed.     *)
LEMMA DoneOrder ==
  ASSUME Accounts, Scope, Queueing, NEW t \in Task,
         TaskDone(t) \/ AbandonTask(t) \/ ProcessDone(t)
  PROVE  Queueing'
<1>1. UNCHANGED <<source, cmd, life, onhold, installed>>
  BY DEF TaskDone, AbandonTask, ProcessDone, loops, scans
<1>2. PICK q \in Seq(Task) : q = done_queue
  BY DEF Accounts, Shapes
<1>3. \/ done_queue' = Append(q, t) /\ freeing' = freeing
      \/ /\ freeing = NoTask /\ freeing' = t
         /\ \/ done_queue' = Without(q, t)
            \/ q # <<>> /\ t = Head(q) /\ done_queue' = Tail(q)
  BY <1>2 DEF TaskDone, AbandonTask, ProcessDone, Idle, loops
<1>4. ASSUME NEW u \in Task, Begun(u)
      PROVE  Begun(u)'
  <2>1. u # NoTask
    BY SourcesAssumption
  <2>2. CASE u # t
    <3>1. /\ Places(Append(q, t), u) # {} <=> Places(q, u) # {}
          /\ Places(Without(q, t), u) # {} <=> Places(q, u) # {}
          /\ q # <<>> /\ t = Head(q) => (Places(Tail(q), u) # {} <=> Places(q, u) # {})
      BY <2>2, DonePlaces
    <3> QED
      BY <1>1, <1>2, <1>3, <1>4, <2>1, <3>1 DEF Begun
  <2>3. CASE u = t /\ freeing' = t
    BY <2>3 DEF Begun
  <2>4. CASE u = t /\ done_queue' = Append(q, t)
    <3>1. Append(q, t)[Len(q) + 1] = t /\ Len(q) + 1 \in DOMAIN Append(q, t)
      OBVIOUS
    <3>2. Places(done_queue', u) # {}
      BY <2>4, <3>1 DEF Places
    <3> QED
      BY <3>2 DEF Begun
  <2> QED
    BY <1>3, <2>2, <2>3, <2>4
<1>5. Shapes /\ \A s \in Source : Shut(source[s], source'[s])
  BY <1>1 DEF Accounts, Shut
<1> QED
  BY <1>1, <1>4, <1>5, QuietOrder

(* Sources come, end and go, and the phases of main's loop follow.         *)
LEMMA StillOrder ==
  ASSUME Shapes, Queueing, UNCHANGED <<life, onhold, installed, done_queue, freeing>>,
         cmd' = cmd \/ (cmd' = NoCmd /\ \A t \in Task : cmd \notin CmdsOf(t)),
         UNCHANGED source \/ \E s \in Source : \E T :
           source' = [source EXCEPT ![s] = T] /\ Shut(source[s], T)
  PROVE  Queueing'
<1>1. \A s \in Source : Shut(source[s], source'[s])
  BY DEF Shapes, Shut
<1>2. \A t \in Task : Begun(t)' <=> Begun(t)
  BY DEF Begun
<1> QED
  BY <1>1, <1>2, QuietOrder

(* The input of a source ends, its client goes.                          *)
LEMMA EndOrder ==
  ASSUME Accounts, Queueing, NEW s \in Source,
         ClientDone(s) \/ ReadEnd(s) \/ ClientFree(s) \/ \E fin \in BOOLEAN : ClientClose(s, fin)
  PROVE  Queueing'
<1>1. source[s] \in Shape /\ Shapes
  BY DEF Accounts, Shapes
<1>2. CASE ClientFree(s)
  <2>1. Shut(source[s], Unref(source[s]))
    BY <1>1, Shutting
  <2>2. source' = [source EXCEPT ![s] = Unref(source[s])]
    BY <1>2 DEF ClientFree
  <2>3. UNCHANGED <<life, onhold, installed, done_queue, freeing, cmd>>
    BY <1>2 DEF ClientFree, works, scans, loops
  <2> QED
    BY <1>1, <2>1, <2>2, <2>3, StillOrder
<1>3. CASE ~ClientFree(s)
  <2>1. PICK b \in BOOLEAN : \E T \in {[source[s] EXCEPT !.eof = b], Unuse([source[s] EXCEPT !.eof = b])} :
          source' = [source EXCEPT ![s] = T]
    <3>1. CASE ClientDone(s) \/ ReadEnd(s)
      BY <3>1 DEF ClientDone, ReadEnd, Finished
    <3>2. ASSUME NEW fin \in BOOLEAN, ClientClose(s, fin)
          PROVE  \E T \in {[source[s] EXCEPT !.eof = source[s].eof \/ (fin /\ source[s].open)],
                           Unuse([source[s] EXCEPT !.eof = source[s].eof \/ (fin /\ source[s].open)])} :
                   source' = [source EXCEPT ![s] = T]
      BY <3>2 DEF ClientClose, Finished
    <3>3. ASSUME NEW fin \in BOOLEAN
          PROVE  (source[s].eof \/ (fin /\ source[s].open)) \in BOOLEAN
      OBVIOUS
    <3> QED
      BY <1>3, <3>1, <3>2, <3>3
  <2>2. PICK E : E = [source[s] EXCEPT !.eof = b]
    OBVIOUS
  <2>3. PICK T \in {E, Unuse(E)} : source' = [source EXCEPT ![s] = T]
    BY <2>1, <2>2
  <2>4. E \in Shape
    BY <1>1, <2>2, ShapeSet
  <2>5. E.commands = source[s].commands /\ E.open = source[s].open
    BY <1>1, <2>2 DEF Shape
  <2>6. Shut(source[s], T)
    BY <2>3, <2>4, <2>5, Shutting DEF Shut
  <2>7. UNCHANGED <<life, onhold, installed, done_queue, freeing, cmd>>
    BY <1>3 DEF ClientDone, ReadEnd, ClientClose, works, scans, loops
  <2> QED
    BY <1>1, <2>3, <2>6, <2>7, StillOrder
<1> QED
  BY <1>2, <1>3

(* A source is detached: at most its list is dropped.                    *)
LEMMA DetachOrder ==
  ASSUME Accounts, Scope, Queueing, AbandonEnd \/ Exhausted \/ \E s \in Source : DetachFinished(s)
  PROVE  Queueing'
<1>1. Shapes /\ \A s \in Source : source[s] \in Shape
  BY DEF Accounts, Shapes
<1>2. UNCHANGED <<life, onhold, installed, done_queue, freeing, cmd>>
  BY DEF AbandonEnd, Exhausted, Serve, DetachFinished, works, loops, scans
<1>3. CASE source' = source
  BY <1>1, <1>2, <1>3, StillOrder
<1>4. CASE source' # source
  <2>1. PICK s \in Source :
          \E T \in {Detach(source[s]), Detach(FlushCommands(source[s]))} :
            source' = [source EXCEPT ![s] = T]
    BY <1>4 DEF AbandonEnd, Exhausted, DetachFinished, Scope
  <2>2. PICK T \in {Detach(source[s]), Detach(FlushCommands(source[s]))} :
          source' = [source EXCEPT ![s] = T]
    BY <2>1
  <2>3. Shut(source[s], T)
    BY <1>1, <2>2, Shutting
  <2> QED
    BY <1>1, <1>2, <2>2, <2>3, StillOrder
<1> QED
  BY <1>3, <1>4

(* Steps of the loop that leave the sources alone.                       *)
LEMMA PhaseOrder ==
  ASSUME Accounts, Queueing,
         GetTask \/ EndPoll \/ EndProbe \/ EndDone \/ StartScan \/ TakeNone \/ HandleCycle
  PROVE  Queueing'
<1>1. Shapes /\ UNCHANGED <<source, life, onhold, installed, done_queue, freeing>>
  BY DEF Accounts, GetTask, EndPoll, EndProbe, EndDone, Phase, StartScan, Serve, TakeNone,
         HandleCycle, works, loops
<1>2. cmd' = cmd \/ (cmd' = NoCmd /\ \A t \in Task : cmd \notin CmdsOf(t))
  <2>1. CASE ~HandleCycle
    BY <2>1 DEF GetTask, EndPoll, EndProbe, EndDone, Phase, TakeNone, StartScan, Serve
  <2>2. CASE HandleCycle
    BY <2>2 DEF HandleCycle, CmdsOf, ProbeCmd, TaskCmd
  <2> QED
    BY <2>1, <2>2
<1> QED
  BY <1>1, <1>2, StillOrder

(* A client makes a source, which has submitted nothing.                 *)
LEMMA AttachOrder ==
  ASSUME Accounts, Queueing, NEW s \in Source, Attach(s)
  PROVE  Queueing'
<1>1. /\ Kind[s] = "control" /\ client[s] = "none"
      /\ source' = [source EXCEPT ![s] = Fresh(2, TRUE)]
      /\ UNCHANGED <<life, onhold, installed, done_queue, freeing, cmd>>
  BY DEF Attach, loops, works, scans
<1>2. Fresh(2, TRUE).commands = <<CycleCmd>>
  BY DEF Fresh
<1>3. \A r \in Source :
        \/ Shut(source[r], source'[r])
        \/ source'[r].commands = <<CycleCmd>> /\ \A t \in Task : SourceOf[t] = r => life'[t] = "new"
  BY <1>1, <1>2 DEF Accounts, Shapes, Submitted, Shut
<1>4. \A t \in Task : Begun(t)' <=> Begun(t)
  BY <1>1 DEF Begun
<1>5. Shapes
  BY DEF Accounts
<1> QED
  BY <1>1, <1>3, <1>4, <1>5, QuietOrder

(* All that waits is dropped.                                            *)
LEMMA FlushOrder ==
  ASSUME Accounts, Queueing, ShutdownFlush
  PROVE  Queueing'
<1>1. /\ \A s \in Source :
           source'[s] \in {source[s], Detach(source[s]), Detach(FlushCommands(source[s]))}
      /\ \A t \in Task : life'[t] = life[t] \/ life'[t] = "freed"
      /\ UNCHANGED <<onhold, installed, done_queue, freeing, cmd>>
  BY DEF ShutdownFlush, works, loops, scans
<1>2. Shapes /\ \A s \in Source : source[s] \in Shape
  BY DEF Accounts, Shapes
<1>3. ASSUME NEW s \in Source PROVE Shut(source[s], source'[s])
  <2>1. PICK S \in Shape : S = source[s]
    BY <1>2
  <2>2. Shut(S, S) /\ Shut(S, Detach(S)) /\ Shut(S, Detach(FlushCommands(S)))
    <3>1. Shut(S, S)
      BY DEF Shut
    <3> QED
      BY <3>1, Shutting
  <2> QED
    BY <1>1, <2>1, <2>2
<1>4. \A t \in Task : Begun(t) => Begun(t)'
  BY <1>1 DEF Begun
<1> QED
  BY <1>1, <1>2, <1>3, <1>4, QuietOrder

(* A client's task, or lines that are read, go to the end of the list.     *)
LEMMA CommandOrder ==
  ASSUME Accounts, Queueing, NEW s \in Source, NEW t \in Task, Command2(s, t), source[s].open
  PROVE  Queueing'
<1>1. PICK A : A = AddTask(source[s], t)
  OBVIOUS
<1>2. PICK S : S = Push(A, TaskCmd(t))
  OBVIOUS
<1>3. PICK T : T = IF source[s].cyclemon THEN [S EXCEPT !.cm = S.cm + 1] ELSE S
  OBVIOUS
<1>4. /\ source' = [source EXCEPT ![s] = T] /\ life' = [life EXCEPT ![t] = "alive"]
      /\ UNCHANGED <<cmd, onhold, installed, done_queue, freeing>>
  BY <1>1, <1>2, <1>3 DEF Command2, scans, loops
<1>5. NextInOrder(s, <<t>>)
  <2>1. PICK q : q = SubSeq(Unsent(s), 1, 1)
    OBVIOUS
  <2>2. 1 \in 0 .. Len(Unsent(s)) /\ q = <<t>>
    BY <2>1, UnsentSeq DEF Command2
  <2>3. NextInOrder(s, q)
    BY <2>1, <2>2, NextLinesInOrder DEF Accounts
  <2> QED
    BY <2>2, <2>3
<1>6. source[s] \in Shape
  BY DEF Accounts, Shapes
<1>7. A \in Shape /\ A.commands = source[s].commands /\ A.open = source[s].open
  BY <1>1, <1>6, AddTaskKept
<1>8. S \in Shape /\ S.open = A.open
  <2>1. S = Push(A, TaskCmd(t)) \/ S = PushHead(A, TaskCmd(t))
    BY <1>2
  <2> QED
    BY ONLY <1>7, <2>1, t \in Task, PushedCommands
<1>9. S.commands = Append(A.commands, TaskCmd(t))
  BY <1>2, <1>7 DEF Push, Shape
<1>10. T.commands = S.commands /\ T.open = S.open
  BY <1>3, <1>8 DEF Shape
<1>11. /\ <<TaskCmd(t)>> \in Seq(Commands) /\ Len(<<TaskCmd(t)>>) = Len(<<t>>)
       /\ \A i \in DOMAIN <<t>> : <<TaskCmd(t)>>[i] \in CmdsOf(<<t>>[i])
  <2>1. TaskCmd(t) \in Commands /\ TaskCmd(t) \in CmdsOf(t)
    BY CmdsApart
  <2> QED
    BY <2>1
<1>12. T.commands = source[s].commands \o <<TaskCmd(t)>>
  <2>1. source[s].commands \in Seq(Commands) /\ TaskCmd(t) \in Commands
    BY <1>6, CmdsApart DEF Shape
  <2> QED
    BY <1>7, <1>9, <1>10, <2>1, AppendIsConcat
<1>13. T.open = source[s].open
  BY <1>7, <1>8, <1>10
<1>14. \A u \in Task : life'[u] = life[u] \/ Member(<<t>>, u)
  BY <1>4 DEF Accounts, Shapes, Member
<1>15. Shapes
  BY DEF Accounts
<1> QED
  BY <1>4, <1>5, <1>11, <1>12, <1>13, <1>14, <1>15, AddedOrder

(* A source takes the next of its lines.                                 *)
LEMMA LinesOrder ==
  ASSUME Accounts, Queueing, NEW s \in Source, NEW q, NextInOrder(s, q), source[s].open,
         NEW T, T.commands = AddLines(source[s], q).commands, T.open = source[s].open,
         source' = [source EXCEPT ![s] = T],
         life' = [t \in Task |-> IF Places(q, t) # {} THEN "line" ELSE life[t]],
         UNCHANGED <<cmd, onhold, installed, done_queue, freeing>>
  PROVE  Queueing'
<1>1. source[s] \in Shape /\ Shapes
  BY DEF Accounts, Shapes
<1>2. q \in Seq(Task) /\ Distinct(q)
  BY DEF NextInOrder, NextOf
<1>3. PICK X : X = ProbeCmds(q)
  OBVIOUS
<1>4. X \in Seq(Commands)
  BY <1>2, <1>3, ProbeCmdsCount
<1>5. DOMAIN X = DOMAIN q /\ \A i \in DOMAIN q : X[i] \in CmdsOf(q[i])
  BY <1>3 DEF ProbeCmds, CmdsOf
<1>6. Len(X) = Len(q)
  BY <1>2, <1>4, <1>5, LenProperties
<1>7. T.commands = source[s].commands \o X
  BY <1>1, <1>3 DEF AddLines, Shape
<1>8. \A t \in Task : life'[t] = life[t] \/ Member(q, t)
  BY DEF Places, Member
<1> QED
  BY <1>1, <1>4, <1>5, <1>6, <1>7, <1>8, AddedOrder

(* A line of the standard input.                                         *)
LEMMA ReadOrder ==
  ASSUME Accounts, Queueing, NEW s \in Source, ReadLine(s)
  PROVE  Queueing'
<1>1. PICK q : q = SubSeq(Unsent(s), 1, 1)
  OBVIOUS
<1>2. 1 \in 0 .. Len(Unsent(s)) /\ q = <<Head(Unsent(s))>> /\ Head(Unsent(s)) \in Task
  BY <1>1, UnsentSeq DEF ReadLine
<1>3. PICK T : T = AddLines(source[s], q)
  OBVIOUS
<1>4. source[s].open /\ ~source[s].eof
  BY DEF ReadLine
<1>5. source[s] \in Shape /\ source[s].cyclemon /\ NextInOrder(s, q)
  BY <1>1, <1>2, <1>4, UsesType, NextLinesInOrder DEF Balanced, Accounts
<1>6. T.open = source[s].open
  BY <1>3, <1>5, AddLinesKept DEF NextInOrder, NextOf
<1>7. source' = [source EXCEPT ![s] = T]
  BY <1>2, <1>3 DEF ReadLine, Accounts, Shapes
<1>8. life' = [t \in Task |-> IF Places(q, t) # {} THEN "line" ELSE life[t]]
  <2>1. \A t : Places(q, t) # {} <=> t = Head(Unsent(s))
    BY <1>2 DEF Places
  <2>2. life' = [life EXCEPT ![Head(Unsent(s))] = "line"]
    BY DEF ReadLine
  <2> QED
    BY <1>2, <2>1, <2>2 DEF Accounts, Shapes
<1>9. UNCHANGED <<cmd, onhold, installed, done_queue, freeing>>
  BY DEF ReadLine, scans, loops
<1> QED
  BY <1>3, <1>4, <1>5, <1>6, <1>7, <1>8, <1>9, LinesOrder

(* A block of the file, or its end.                                      *)
LEMMA TakeOrder ==
  ASSUME Accounts, Scope, Queueing, TakeChunk \/ TakeEnd
  PROVE  Queueing'
<1>1. PICK s \in Source :
        /\ s = src /\ source[s].open /\ ~source[s].eof /\ Kind[s] = "file"
        /\ \E k \in 0 .. Len(Unsent(s)) :
             LET q == SubSeq(Unsent(s), 1, k)
                 A == AddLines(source[s], q)
                 E == [A EXCEPT !.eof = TRUE]
             IN  /\ source' \in {[source EXCEPT ![s] = A],
                                 [source EXCEPT ![s] = E],
                                 [source EXCEPT ![s] = Unuse(E)]}
                 /\ life' = [t \in Task |-> IF Places(q, t) # {} THEN "line" ELSE life[t]]
  BY TakeLines
<1>2. source[s].open /\ ~source[s].eof
  BY <1>1
<1>3. PICK k \in 0 .. Len(Unsent(s)) :
        LET q == SubSeq(Unsent(s), 1, k)
            A == AddLines(source[s], q)
            E == [A EXCEPT !.eof = TRUE]
        IN  /\ source' \in {[source EXCEPT ![s] = A],
                            [source EXCEPT ![s] = E],
                            [source EXCEPT ![s] = Unuse(E)]}
            /\ life' = [t \in Task |-> IF Places(q, t) # {} THEN "line" ELSE life[t]]
  BY <1>1
<1>4. PICK q : q = SubSeq(Unsent(s), 1, k)
  OBVIOUS
<1>5. PICK A : A = AddLines(source[s], q)
  OBVIOUS
<1>6. PICK E : E = [A EXCEPT !.eof = TRUE]
  OBVIOUS
<1>7. PICK T \in {A, E, Unuse(E)} : source' = [source EXCEPT ![s] = T]
  BY <1>3, <1>4, <1>5, <1>6
<1>8. source[s] \in Shape /\ source[s].cyclemon /\ NextInOrder(s, q)
  BY <1>2, <1>4, UsesType, NextLinesInOrder DEF Balanced, Accounts
<1>9. A \in Shape /\ A.open = source[s].open
  BY <1>5, <1>8, AddLinesKept DEF NextInOrder, NextOf
<1>10. E \in Shape /\ E.commands = A.commands /\ E.open = A.open
  BY <1>6, <1>9 DEF Shape
<1>11. T.commands = AddLines(source[s], q).commands /\ T.open = source[s].open
  BY <1>5, <1>7, <1>9, <1>10, UnuseKept
<1>12. life' = [t \in Task |-> IF Places(q, t) # {} THEN "line" ELSE life[t]]
  BY <1>3, <1>4
<1>13. UNCHANGED <<cmd, onhold, installed, done_queue, freeing>>
  BY DEF TakeChunk, TakeEnd, loops
<1> QED
  BY <1>2, <1>7, <1>8, <1>11, <1>12, <1>13, LinesOrder

-----------------------------------------------------------------------------
(* Every step keeps what is queued in order.                               *)
LEMMA NextOrder ==
  ASSUME Chained, Exclusive, Accounts, Scope, Phased, Queueing, [Next]_vars
  PROVE  Queueing'
<1>1. CASE UNCHANGED <<source, works, scans, loops>>
  <2>1. UNCHANGED <<source, life, onhold, installed, done_queue, freeing, cmd>>
    BY <1>1 DEF works, scans, loops
  <2> QED
    BY <2>1, StillOrder DEF Accounts
<1>2. CASE ~UNCHANGED <<source, works, scans, loops>> /\ Next
  <2>1. ASSUME NEW s \in Source, NEW t \in Task, Command2(s, t) \/ HaltTask(s, t)
        PROVE  Queueing'
    <3>1. source[s].open
      BY <1>2, <2>1 DEF Command2, HaltTask, Crash
    <3> QED
      BY <2>1, <3>1, CommandOrder, HaltOrder
  <2>2. ASSUME NEW s \in Source, ClientOp(s) \/ ReadLine(s) \/ ReadEnd(s)
        PROVE  Queueing'
    BY <2>1, <2>2, AttachOrder, EndOrder, ReadOrder DEF ClientOp
  <2>3. CASE MainStep
    <3>1. CASE Unhold
      <4>1. source[SourceOf[Last(onhold[freeing])]].open
        BY <1>2, <3>1 DEF Unhold, Crash
      <4> QED
        BY <3>1, <4>1, UnholdOrder
    <3>2. CASE FreeTask
      <4>1. life' # life
        <5>1. life' = [life EXCEPT ![freeing] = "freed"] /\ freeing \in Task
          BY <1>2, <3>2 DEF FreeTask, Crash, Scope
        <5>2. life[freeing] = "alive"
          <6>1. PICK t \in Task : t = freeing
            BY <5>1
          <6>2. Count(done_queue, {t}) \in Nat
            BY CountType DEF Accounts, Shapes
          <6>3. Count(done_queue, {t}) + 1 <= IF life[t] = "alive" THEN 1 ELSE 0
            BY <6>1 DEF Accounts, Living, DoneOnce
          <6> QED
            BY <6>1, <6>2, <6>3
        <5> QED
          BY <5>1, <5>2 DEF Accounts, Shapes
      <4> QED
        BY <3>2, <4>1, FreeOrder
    <3>3. ASSUME NEW t \in Task, HandleProbe(t) \/ HandleTask(t)
          PROVE  Queueing'
      <4>1. HandleTask(t) => life[t] # "freed"
        BY <1>2 DEF HandleTask, Crash
      <4> QED
        BY <3>3, <4>1, HandlesOrder
    <3> QED
      BY <2>3, <3>1, <3>2, <3>3, DetachOrder, PhaseOrder, PopOrder, TakeOrder, DoneOrder
      DEF MainStep
  <2> QED
    BY <1>2, <2>2, <2>3, FlushOrder, DoneOrder, PhaseOrder DEF Next
<1> QED
  BY <1>1, <1>2 DEF vars, works, scans, loops

(* At the start only lines are queued, as the command line has them.       *)
LEMMA InitOrder == Init => Queueing
<1> SUFFICES ASSUME Init PROVE Queueing
  OBVIOUS
<1>1. /\ \A s \in Source : source[s] = Started(s)
      /\ \A t \in Task : life[t] = IF Kind[SourceOf[t]] = "cmdline" THEN "line" ELSE "new"
      /\ \A t \in Task : onhold[t] = <<>>
      /\ cmd = NoCmd
  BY DEF Init
<1>2. Holding
  BY <1>1, CountEmpty DEF Holding
<1>3. ASSUME NEW s \in Source
      PROVE  source[s].commands = IF Kind[s] = "control" THEN <<>>
                                  ELSE IF Kind[s] = "cmdline"
                                       THEN <<CycleCmd>> \o ProbeCmds(Submits[s])
                                       ELSE <<CycleCmd>>
  <2>1. /\ Fresh(1, FALSE).commands = <<CycleCmd>> /\ Fresh(1, TRUE).commands = <<CycleCmd>>
        /\ Absent.commands = <<>>
    BY DEF Fresh, Absent
  <2>2. AddLines(Fresh(1, FALSE), Submits[s]).commands = <<CycleCmd>> \o ProbeCmds(Submits[s])
    BY DEF AddLines, Fresh
  <2> QED
    BY <1>1, <2>1, <2>2 DEF Started
<1>4. ASSUME NEW s \in Source, NEW t \in Task, SourceOf[t] = s, Kind[s] = "cmdline"
      PROVE  LET X == ProbeCmds(Submits[s])
             IN  /\ X \in Seq(Commands) /\ Order[t] \in DOMAIN X /\ X[Order[t]] \in CmdsOf(t)
                 /\ \A j \in DOMAIN X : X[j] \in CmdsOf(t) => j = Order[t]
  <2>1. PICK X : X = ProbeCmds(Submits[s])
    OBVIOUS
  <2>2. PICK z \in Seq(Task) : z = Submits[s]
    BY SourcesAssumption
  <2>3. X \in Seq(Commands)
    <3>1. Distinct(z)
      BY <2>2, SourcesAssumption DEF Distinct
    <3> QED
      BY <2>1, <2>2, <3>1, ProbeCmdsCount
  <2>4. DOMAIN X = DOMAIN z /\ \A j \in DOMAIN z : X[j] = ProbeCmd(z[j])
    BY <2>1, <2>2 DEF ProbeCmds
  <2>5. Order[t] \in DOMAIN z /\ z[Order[t]] = t
    BY <1>4, <2>2, OrderIs, LenProperties
  <2>6. \A i, j \in DOMAIN z : z[i] = z[j] => i = j
    BY <2>2, SourcesAssumption
  <2>7. \A j \in DOMAIN z : X[j] \in CmdsOf(t) => z[j] = t
    BY <2>4 DEF CmdsOf, ProbeCmd, TaskCmd
  <2>8. X[Order[t]] \in CmdsOf(t)
    BY <2>4, <2>5 DEF CmdsOf
  <2> QED
    BY <2>1, <2>3, <2>4, <2>5, <2>6, <2>7, <2>8
<1>5. ASSUME NEW t \in Task
      PROVE  Present(t)
  <2>1. PICK s \in Source : s = SourceOf[t]
    BY SourcesAssumption
  <2>2. CASE Kind[s] = "cmdline"
    <3>1. PICK X \in Seq(Commands) : X = ProbeCmds(Submits[s])
      BY <1>4, <2>1, <2>2
    <3>2. \E i \in DOMAIN X : X[i] \in CmdsOf(t)
      BY <1>4, <2>1, <2>2, <3>1
    <3>3. PICK P : P = CmdsOf(t)
      OBVIOUS
    <3>4. PICK y \in Seq(Commands) : y = <<CycleCmd>>
      <4>1. <<CycleCmd>> \in Seq(Commands)
        BY DEF Commands
      <4> QED
        BY <4>1
    <3>5. Count(X, P) # 0 /\ Count(X, P) \in Nat /\ Count(y, P) \in Nat
      BY <3>2, <3>3, CountType
    <3>6. Count(y \o X, P) = Count(y, P) + Count(X, P)
      BY CountConcat
    <3>7. Count(y \o X, P) # 0
      BY <3>5, <3>6
    <3>8. source[s].commands = y \o X
      BY <1>3, <2>2, <3>1, <3>4
    <3> QED
      BY <2>1, <3>3, <3>7, <3>8 DEF Present
  <2>3. CASE Kind[s] # "cmdline"
    BY <1>1, <2>1, <2>3 DEF Present
  <2> QED
    BY <2>2, <2>3
<1>6. ASSUME NEW u \in Task, NEW t \in Task, Ahead(u, t)
      PROVE  Behind(u, t)
  <2>1. PICK s \in Source : s = SourceOf[t] /\ s = SourceOf[u]
    BY <1>6, SourcesAssumption DEF Ahead
  <2>2. PICK U, T : U = CmdsOf(u) /\ T = CmdsOf(t)
    OBVIOUS
  <2>3. CycleCmd \notin T /\ cmd \notin T
    BY <1>1, <2>2, CmdsApart
  <2>4. LinedUp(<<>>, U, T) /\ LinedUp(<<CycleCmd>>, U, T)
    BY ONLY <2>3, LinedUpShort
  <2>5. LinedUp(source[s].commands, U, T)
    <3>1. CASE Kind[s] # "cmdline"
      BY <1>3, <2>4, <3>1
    <3>2. CASE Kind[s] = "cmdline"
      <4>1. PICK X \in Seq(Commands) : X = ProbeCmds(Submits[s])
        BY <1>4, <2>1, <3>2
      <4>2. /\ Order[u] \in DOMAIN X /\ X[Order[u]] \in U
            /\ \A j \in DOMAIN X : X[j] \in T => j = Order[t]
        BY <1>4, <2>1, <2>2, <3>2, <4>1
      <4>3. LinedUp(X, U, T)
        BY <1>6, <4>2 DEF LinedUp, Ahead
      <4>4. PICK y \in Seq(Commands) : y = <<CycleCmd>>
        <5>1. <<CycleCmd>> \in Seq(Commands)
          BY DEF Commands
        <5> QED
          BY <5>1
      <4>5. LinedUp(y \o X, U, T)
        <5>1. LinedUp(y, U, T)
          BY <2>4, <4>4
        <5> QED
          BY <4>3, <5>1, LinedUpConcat
      <4> QED
        BY <1>3, <3>2, <4>1, <4>4, <4>5
    <3> QED
      BY <3>1, <3>2
  <2>6. \A b \in Task : LinedUp(onhold[b], {u}, {t})
    BY <1>1 DEF LinedUp
  <2> QED
    BY <2>1, <2>2, <2>3, <2>5, <2>6 DEF Behind
<1> QED
  BY <1>2, <1>5, <1>6 DEF Queueing

(* A task that starts has behind it all that it may not overtake.          *)
LEMMA StartsInOrder ==
  ASSUME Chained, Exclusive, Accounts, Scope, Phased, Queueing, [Next]_vars,
         NEW t \in installed' \ installed, NEW u \in Task, Ahead(u, t)
  PROVE  u \in installed \/ life[u] = "freed" \/ Places(done_queue, u) # {}
<1>1. PICK v \in Task : HandleProbe(v) \/ (HandleTask(v) /\ life[v] # "freed")
  <2>1. CASE Unhold \/ AbandonEnd \/ FreeTask
    BY <2>1 DEF Unhold, AbandonEnd, FreeTask, Crash, works
  <2>2. ASSUME NEW s \in Source, ClientOp(s) \/ ReadLine(s) \/ ReadEnd(s) \/ DetachFinished(s)
        PROVE  FALSE
    BY <2>2 DEF ClientOp, Attach, Command2, HaltTask, ClientDone, ClientClose, ClientFree, Crash,
                ReadLine, ReadEnd, DetachFinished, works
  <2>3. CASE \E x \in Task : TaskDone(x) \/ AbandonTask(x) \/ ProcessDone(x)
    BY <2>3 DEF TaskDone, AbandonTask, ProcessDone
  <2>4. CASE GetTask \/ EndPoll \/ EndProbe \/ EndDone \/ StartScan \/ TakeNone \/ HandleCycle
    BY <2>4 DEF GetTask, EndPoll, EndProbe, EndDone, Phase, StartScan, Serve, TakeNone,
                HandleCycle, works
  <2>5. CASE ShutdownFlush \/ PopCommand \/ Exhausted \/ TakeChunk \/ TakeEnd
    BY <2>5 DEF ShutdownFlush, PopCommand, Exhausted, Serve, TakeChunk, TakeEnd, works
  <2>6. ASSUME NEW x \in Task, HandleTask(x), life[x] = "freed"
        PROVE  FALSE
    BY <2>6 DEF HandleTask, Crash, works
  <2>7. CASE UNCHANGED vars
    BY <2>7 DEF vars, works
  <2> QED
    BY <2>1, <2>2, <2>3, <2>4, <2>5, <2>6, <2>7 DEF Next, MainStep
<1>2. pc = "handle" /\ cmd \in CmdsOf(v) /\ InstallOrHold(v)
  BY <1>1, HandlesOrder
<1>3. t = v /\ SigBlock(t) = {}
  BY <1>2 DEF InstallOrHold
<1>4. freeing = NoTask /\ NoTask \notin Task
  BY <1>2, SourcesAssumption DEF Phased
<1>5. CASE Begun(u)
  BY <1>4, <1>5 DEF Begun
<1>6. CASE ~Begun(u)
  <2>1. ~Unheld(u)
    BY <1>2, <1>3, <1>6 DEF Queueing, Behind
  <2>2. PICK c \in Task : c \in installed /\ (c = t \/ <<c, t>> \in Conflict)
    <3>1. Blocking /\ onhold \in [Task -> Seq(Task)]
      BY DEF Accounts, Living, Scope
    <3> QED
      BY <1>3, <2>1, <3>1, HolderRuns
  <2> QED
    BY <1>3, <2>2 DEF SigBlock
<1> QED
  BY <1>5, <1>6

(* Tasks of one source that overlap start in the order of submission.  The *)
(* hypothesis is what the queue needs: tasks for one destination overlap   *)
(* each other, so when u overlaps t and t overlaps v, u overlaps v.        *)
THEOREM StartInOrderHolds ==
  ASSUME Chained
  PROVE  Spec => StartInOrder
<1> DEFINE A == \A t \in installed' \ installed : \A u \in Task :
                  SourceOf[u] = SourceOf[t] /\ <<u, t>> \in Conflict /\ Order[u] < Order[t]
                  => u \in installed \/ life[u] = "freed" \/ Places(done_queue, u) # {}
           I == Phased /\ Queueing
<1>1. Init => I
  BY InitOrder DEF Init, Phased
<1>2. SourcesInv /\ Exclusive /\ I /\ [Next]_vars => I' /\ [A]_vars
  <2> SUFFICES ASSUME SourcesInv, Exclusive, Phased, Queueing, [Next]_vars
               PROVE  I' /\ A
    OBVIOUS
  <2>1. Accounts /\ Scope
    BY DEF SourcesInv, RotaInv
  <2>2. I'
    BY <2>1, NextPhased, NextOrder
  <2>3. A
    BY <2>1, StartsInOrder DEF Ahead
  <2> QED
    BY <2>2, <2>3
<1>3. Spec => []SourcesInv
  BY SourcesInvHolds
<1>4. Spec => []Exclusive
  BY ExclusiveHolds
<1> QED
  BY <1>1, <1>2, <1>3, <1>4, PTL DEF Spec, StartInOrder

=============================================================================
