--------------------------- MODULE ControlInst ---------------------------
(***************************************************************************)
(* lib/libscamperctrl/libscamperctrl.c: a scamper_inst_t of a unix or inet *)
(* socket, used by a program, over the ClientConnection it is attached to. *)
(*                                                                         *)
(* A command waits in the queue of its descriptor, then in waitok until    *)
(* scamper answers; answers carry nothing that says which command they are *)
(* for, so the library takes the oldest.  A task that scamper gave an id   *)
(* waits in the tree for the DATA with that id.                            *)
(*                                                                         *)
(* An assertion that fails, and a reply the library cannot use, end the    *)
(* program: `fault' names it.  A line is sent whole, and multiplexed       *)
(* instances are left out.                                                 *)
(***************************************************************************)
EXTENDS ClientConnection

CONSTANTS
  MayHalt,   \* tasks the program may halt
  Patient    \* the program does not say "done" before it was asked for more

ASSUME InstAssumption == MayHalt \subseteq Task /\ Patient \in BOOLEAN

VARIABLES
  inst,      \* the scamper_inst_t
  write,     \* write of its sc_fd_t: it is polled for writing
  mine,      \* the scamper_task_t of each task, and what the program did
  fault

vars == <<daemon, rx, tx, shut, inst, write, mine, fault>>

(* inst.left is data_left, inst.data the task whose object is read; more is *)
(* set when the program is asked for a command, asked by scamper's MORE     *)
Init ==
  /\ ClientStart
  /\ inst = [queue |-> <<Attach>>, waitok |-> <<>>, done |-> FALSE, tree |-> {},
             data |-> {}, left |-> 0, more |-> FALSE, asked |-> FALSE, eof |-> FALSE]
  /\ write = TRUE
  /\ mine = [t \in Task |-> [st |-> "new", id |-> 0, halt |-> FALSE, data |-> 0]]
  /\ fault = "none"

Alive == fault = "none" /\ "client" \notin shut /\ ~inst.eof

-----------------------------------------------------------------------------
(* the program                                                             *)

(* scamper_inst_do *)
InstDo(t) ==
  /\ ~inst.done /\ mine[t].st = "new"
  /\ inst' = [inst EXCEPT !.queue = Append(@, Do(t)), !.more = FALSE]
  /\ write' = TRUE
  /\ mine' = [mine EXCEPT ![t].st = "queue"]

(* scamper_task_halt, of a task that has no DATA yet.  One that waits in   *)
(* the queue is taken out of it, and write stays as it is, also when the   *)
(* queue is then empty.  SCAMPER_TASK_FLAG_HALT, for a task that waits for *)
(* its id, is set and never looked at.                                     *)
(* Bound: a program halts a task once.                                     *)
TaskHalt(t) ==
  /\ t \in MayHalt /\ ~mine[t].halt
  /\ \/ /\ mine[t].st = "queue"
        /\ inst' = [inst EXCEPT !.queue = Without(@, Do(t))]
        /\ mine' = [mine EXCEPT ![t].st = "dropped", ![t].halt = TRUE]
        /\ UNCHANGED write
     \/ /\ mine[t].st = "waitok"
        /\ mine' = [mine EXCEPT ![t].halt = TRUE]
        /\ UNCHANGED <<inst, write>>
     \/ /\ mine[t].st = "gotid"
        /\ inst' = [inst EXCEPT !.queue = Append(@, Halt(t, mine[t].id))]
        /\ write' = TRUE
        /\ mine' = [mine EXCEPT ![t].halt = TRUE]

(* scamper_inst_done *)
InstDone ==
  /\ ~inst.done /\ (Patient => inst.asked)
  /\ inst' = [inst EXCEPT !.done = TRUE, !.queue = Append(@, Done)]
  /\ write' = TRUE
  /\ UNCHANGED mine

Program ==
  /\ Alive
  /\ InstDone \/ \E t \in Task : InstDo(t) \/ TaskHalt(t)
  /\ UNCHANGED <<daemon, rx, tx, shut, fault>>

(* scamper_inst_free *)
InstFree ==
  /\ Alive
  /\ shut' = shut \cup {"client"}
  /\ UNCHANGED <<daemon, rx, tx, inst, write, mine, fault>>

-----------------------------------------------------------------------------
(* the library                                                             *)

Fail(what) ==
  /\ fault' = what /\ shut' = shut \cup {"client"}
  /\ UNCHANGED <<inst, mine>>

Works == UNCHANGED <<fault, shut>>

(* fd_write, with a command to send; after the last it unsets write *)
FdSend ==
  /\ inst.queue # <<>> /\ "scamper" \notin shut
  /\ LET x == Head(inst.queue) IN
     /\ rx' = Append(rx, x)
     /\ inst' = [inst EXCEPT !.queue = Tail(@), !.waitok = Append(@, x)]
     /\ mine' = IF x.k = "task" THEN [mine EXCEPT ![x.task].st = "waitok"] ELSE mine
  /\ write' = (inst'.queue # <<>>)
  /\ UNCHANGED <<daemon, tx, shut, fault>>

(* fd_write, without one: tx != NULL fails *)
FdSendNothing ==
  /\ inst.queue = <<>>
  /\ Fail("no command")
  /\ UNCHANGED <<daemon, rx, tx, write>>

(* scamper_ctrl_wait: the descriptor is polled for writing, and ready *)
FdWrite == Alive /\ write /\ (FdSend \/ FdSendNothing)

(* a mutant: the id is given to the task that was sent last *)
RxOkIdLast(id) ==
  LET x == Last(inst.waitok) IN
  IF x.k # "task" THEN Fail("answer") ELSE
    /\ mine' = [mine EXCEPT ![x.task].st = "gotid", ![x.task].id = id]
    /\ inst' = [inst EXCEPT !.waitok = Front(@), !.tree = @ \cup {id}]
    /\ Works

(* inst_rx, "OK id-" *)
RxOkId(id) ==
  IF inst.waitok = <<>> \/ inst.waitok[1].k # "task" \/ id \in inst.tree
  THEN Fail("answer")
  ELSE LET t == Head(inst.waitok).task IN
    /\ mine' = [mine EXCEPT ![t].st = "gotid", ![t].id = id]
    /\ inst' = [inst EXCEPT !.waitok = Tail(@), !.tree = @ \cup {id}]
    /\ Works

(* inst_rx, "OK" *)
RxOk ==
  IF inst.waitok = <<>> \/ inst.waitok[1].k = "task" THEN Fail("answer")
  ELSE /\ inst' = [inst EXCEPT !.waitok = Tail(@)]
       /\ Works /\ UNCHANGED mine

(* inst_rx, "ERR": it takes the command to be a task.  The program is told *)
(* of the task and asked for another.                                      *)
RxErr ==
  IF inst.waitok = <<>> THEN Fail("answer")
  ELSE IF inst.waitok[1].k # "task" THEN Fail(inst.waitok[1].k)
  ELSE /\ mine' = [mine EXCEPT ![inst.waitok[1].task].st = "refused"]
       /\ inst' = [inst EXCEPT !.waitok = Tail(@), !.more = TRUE]
       /\ Works

(* inst_rx, "MORE" *)
RxMore ==
  /\ inst' = [inst EXCEPT !.more = TRUE, !.asked = TRUE]
  /\ Works /\ UNCHANGED mine

(* inst_rx, "DATA" *)
RxData(x) ==
  IF x.id # 0 /\ x.id \notin inst.tree THEN Fail("no task")
  ELSE /\ inst' = [inst EXCEPT !.left = x.len, !.tree = @ \ {x.id},
                               !.data = {t \in Task : mine[t].id = x.id /\ x.id # 0}]
       /\ Works /\ UNCHANGED mine

(* inst_rx, a line of data; the last one completes the object *)
RxPiece ==
  /\ inst' = [inst EXCEPT !.left = @ - 1, !.data = IF inst.left = 1 THEN {} ELSE @]
  /\ mine' = IF inst.left > 1 THEN mine
             ELSE [t \in Task |-> IF t \in inst.data
                                  THEN [mine[t] EXCEPT !.st = "data", !.data = @ + 1]
                                  ELSE mine[t]]
  /\ Works

(* scamper_inst_read *)
InstRead ==
  /\ Alive /\ tx # <<>>
  /\ tx' = Tail(tx)
  /\ LET x == Head(tx) IN
     IF inst.left > 0 \/ x.k = "piece"
     THEN IF inst.left > 0 /\ x.k = "piece" THEN RxPiece ELSE Fail("lost in data")
     ELSE \/ x.k = "OK id" /\ RxOkId(x.id)
          \/ x.k = "OK" /\ RxOk
          \/ x.k = "ERR" /\ RxErr
          \/ x.k = "MORE" /\ RxMore
          \/ x.k = "DATA" /\ RxData(x)
  /\ UNCHANGED <<daemon, rx, write>>

(* scamper_inst_read: recv returns 0 *)
InstEof ==
  /\ Alive /\ tx = <<>> /\ "scamper" \in shut
  /\ inst' = [inst EXCEPT !.eof = TRUE]
  /\ UNCHANGED <<daemon, rx, tx, shut, write, mine, fault>>

Library == FdWrite \/ InstRead \/ InstEof

Lib(A) == A /\ UNCHANGED <<inst, write, mine, fault>>

Next == Program \/ InstFree \/ Library \/ Lib(Daemon)

Spec == Init /\ [][Next]_vars

(* scamper's poll comes back to every descriptor, gettask and the queues of *)
(* tasks; a measurement ends.  A program polls its instance, and is not     *)
(* obliged to anything else.                                                *)
FairSpec ==
  /\ Spec
  /\ WF_vars(FdWrite) /\ WF_vars(InstRead) /\ WF_vars(InstEof)
  /\ WF_vars(Lib(ClientRead \/ ClientEof))
  /\ WF_vars(Lib(ClientWrite \/ ClientWriteFails))
  /\ WF_vars(Lib(GetTask)) /\ WF_vars(Lib(ProcessDone))
  /\ WF_vars(Lib(\E i \in DOMAIN task : TaskEnds(i)))

-----------------------------------------------------------------------------
(* properties                                                              *)

Line == {Attach, Done} \cup {Do(t) : t \in Task} \cup {Halt(t, i) : t \in Task, i \in Id}
Answer == {Ok, Err, More, Piece} \cup {OkId(i) : i \in Id}
            \cup {DataHeader(o) : o \in {CycleObj} \cup {Result(i) : i \in Id}}
Obj == {CycleObj} \cup {Result(i) : i \in Id}

(* Types, and bounds that follow from the order of things: no more ids    *)
(* than tasks, an object under way only while some of it is left.          *)
TypeOK ==
  /\ client.mode \in {"interactive", "attached", "flush", "freed"}
  /\ client.reads \in BOOLEAN /\ client.writes \in BOOLEAN
  /\ client.txt \in Seq(Answer) /\ client.wb \in Seq(Answer) /\ tx \in Seq(Answer)
  /\ client.objs \in Seq(Obj) /\ client.obj \in Obj \cup {NoObj}
  /\ client.off \in 0 .. Pieces - 1 /\ (client.off > 0) = (client.obj # NoObj)
  /\ source.commands \in Seq(Id \cup {Cycle}) /\ source.tasks \subseteq DOMAIN task
  /\ Len(task) <= Cardinality(Task) /\ done_queue \in Seq(Id)
  /\ rx \in Seq(Line) /\ inst.queue \in Seq(Line) /\ inst.waitok \in Seq(Line)
  /\ inst.left \in 0 .. Pieces /\ inst.tree \subseteq DOMAIN task
  /\ shut \subseteq {"client", "scamper"} /\ write \in BOOLEAN

Has(q, k) == \E i \in DOMAIN q : q[i].k = k

(* Lines carry nothing that pairs an answer with its command, nor marks    *)
(* the end of an object: both ends count.  However reads, writes, results, *)
(* halts and the end of the connection fall, no assertion of fd_write and  *)
(* inst_rx fails and no reply is one the library cannot use, in a program  *)
(* that halts nothing.  A halt can make the library fail in two ways: it   *)
(* was on its way when its task ended, and is answered with an ERR; or it  *)
(* took back a command that was not sent yet, and fd_write is called with  *)
(* an empty queue.                                                         *)
OnlyHaltsFail ==
  \/ fault = "none"
  \/ fault = "halt" /\ task[inst.waitok[1].id].st = "freed"
  \/ /\ fault = "no command" /\ inst.queue = <<>>
     /\ \E t \in MayHalt : mine[t].st = "dropped"

(* The id the library files a task under is the one scamper gave it, and   *)
(* a program never gets the result of one task as that of another.         *)
IdsAgree ==
  \A t \in Task : mine[t].id # 0 => task[mine[t].id].of = t

(* When scamper disconnects a program that said "done", nothing it was     *)
(* asked is lost: every task has its one result, or was refused, or the    *)
(* program took it back (libscamperctrl.3, scamper_inst_done).             *)
AllAnswered ==
  inst.eof => \A t \in Task :
                /\ mine[t].st \in {"new", "data", "refused", "dropped"}
                /\ mine[t].data = IF mine[t].st = "data" THEN 1 ELSE 0

(* A program that sends a command when it is asked for one is never left   *)
(* waiting: a source with nothing to do has said MORE, or an answer that   *)
(* stands for it is on its way.  (Halts are left out: one that takes the   *)
(* last command away says nothing.)                                        *)
MoreWhenIdle ==
  (/\ client.mode = "attached" /\ ~source.finished /\ source.commands = <<>>
   /\ ~Has(inst.queue, "task") /\ ~Has(rx, "task")
   /\ \A t \in Task : ~mine[t].halt)
  => \/ inst.more \/ fault # "none" \/ "client" \in shut
     \/ \E q \in {client.txt, client.wb, tx} : Has(q, "MORE") \/ Has(q, "ERR")

Over == inst.eof \/ fault # "none" \/ "client" \in shut

(* "done" ends in scamper's disconnect (libscamperctrl.3:137-140).         *)
DoneDisconnects == inst.done ~> Over

(* What scamper reads in the mode it is in: the first line attaches, and   *)
(* no other.                                                               *)
Understood(line) == client.mode # "flush" => (client.mode = "interactive") = (line = Attach)

(* What is due: the conditions under which a handler of the library or of  *)
(* scamper runs.  A descriptor that is polled is ready, or a list of the   *)
(* main loop is not empty, or a measurement is under way.                  *)
Due ==
  \/ Alive /\ (tx # <<>> \/ "scamper" \in shut \/ write)
  \/ client.reads /\ IF rx = <<>> THEN "client" \in shut ELSE Understood(Head(rx))
  \/ client.writes
  \/ source.commands # <<>> \/ done_queue # <<>> \/ \E i \in DOMAIN task : task[i].st = "running"

(* Nobody waits on everybody: while the program waits for an answer, a     *)
(* result or its disconnect, or scamper for the end of a client that has   *)
(* gone, some step of the library or of scamper is due.  A handler that    *)
(* forgets to poll for writing, a list that is left with a task no one     *)
(* looks at, or a cycle stop that is not written would break it.           *)
NeverStuck ==
  (\/ ~Over /\ (inst.done \/ \E t \in Task : mine[t].st \in {"queue", "waitok", "gotid"})
   \/ "client" \in shut /\ client.mode # "freed")
  => Due

(* What the library and scamper have left to do when the program does      *)
(* nothing: each line, command, task, object and answer counts for more    *)
(* than all that it may become.                                            *)
OfObject  == 3 * Pieces + 3              \* a header and pieces to write
OfEnding  == OfObject + 2                \* a result or the cycle stop
OfRunning == OfEnding + 1
OfCommand == OfRunning + 5               \* it is taken, and MORE said
OfLine    == OfCommand + OfEnding + 5    \* it attaches, or is answered

Flag(b)    == IF b THEN 1 ELSE 0
Running    == {i \in DOMAIN task : task[i].st = "running"}
PiecesLeft == IF client.off > 0 THEN client.obj.len - client.off ELSE 0

Work ==
  (OfLine + 1) * Len(inst.queue) + OfLine * Len(rx)
  + OfCommand * Len(source.commands) + OfRunning * Cardinality(Running)
  + OfEnding * Len(done_queue) + OfEnding * Flag(source.cyclemon)
  + OfObject * Len(client.objs) + 3 * PiecesLeft
  + 3 * Len(client.txt) + 2 * Len(client.wb) + Len(tx)
  + Flag(client.writes) + Flag(client.reads) + Flag(~inst.eof)

(* Nor do they go round in circles: a step of the library or of scamper,   *)
(* but the one that ends the program, leaves less work, so that between    *)
(* two calls of the program there are only so many, no list is walked      *)
(* without end, and what NeverStuck says is due gets done.                 *)
WorkRunsOut == [][Library \/ Lib(Daemon) => Work' < Work \/ fault' # fault]_vars

=============================================================================
