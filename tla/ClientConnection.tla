------------------------- MODULE ClientConnection -------------------------
(***************************************************************************)
(* scamper/scamper_control.c: a client_t of CLIENT_TYPE_SOCKET in attached *)
(* mode, with its source (scamper_source_control.c, scamper_sources.c) and *)
(* its write buffer (scamper_writebuf.c).                                  *)
(*                                                                         *)
(* A client writes lines.  Each is answered by a line ("OK", "OK id-1",    *)
(* "ERR"); "MORE" asks for another command; a result is a "DATA" line and  *)
(* as many pieces as it takes, one per call of client_write_do.  Answers   *)
(* and results wait in two lists, txt and sof_objs.                        *)
(*                                                                         *)
(* The scheduling of ScamperSources is reduced to what a client sees of    *)
(* it: commands are taken in order, and a task may end at any time.  The   *)
(* interactive commands other than attach are left out, and so are lines   *)
(* that are not printable.  The actions leave open what the other end does *)
(* with inst: ControlInst says that.                                       *)
(***************************************************************************)
EXTENDS Integers, SequencesExt, FiniteSets

CONSTANTS
  Task,     \* what the client wants measured
  Pieces    \* how many pieces a result is written in

ASSUME ClientAssumption ==
  /\ IsFiniteSet(Task)
  /\ Pieces \in Nat \ {0}

VARIABLES
  client,      \* the client_t
  source,      \* its scamper_source_t
  task,        \* where each task of the source is, by id, and what it measures
  done_queue,  \* ids, in the order they are written
  rx, tx,      \* the socket: lines to scamper, lines and pieces to the client
  shut         \* the ends of the socket that are closed

daemon == <<client, source, task, done_queue>>

Id == 1 .. Cardinality(Task)

Attach      == [k |-> "attach"]
Do(t)       == [k |-> "task", task |-> t]
Halt(t, id) == [k |-> "halt", task |-> t, id |-> id]
Done        == [k |-> "done"]

Ok     == [k |-> "OK"]
OkId(id) == [k |-> "OK id", id |-> id]
Err    == [k |-> "ERR"]
More   == [k |-> "MORE"]
DataHeader(o) == [k |-> "DATA", id |-> o.id, len |-> o.len]
Piece  == [k |-> "piece"]

(* client_obj_t: a cycle record has no id *)
NoObj     == [id |-> 0, len |-> 0]
CycleObj  == [id |-> 0, len |-> 1]
Result(i) == [id |-> i, len |-> Pieces]

Cycle == 0   \* COMMAND_CYCLE, in a list of commands

ClientStart ==
  /\ client = [mode |-> "interactive", txt |-> <<>>, objs |-> <<>>, obj |-> NoObj,
               off |-> 0, wb |-> <<>>, reads |-> TRUE, writes |-> FALSE]
  /\ source = [open |-> FALSE, commands |-> <<>>, tasks |-> {}, finished |-> FALSE,
               cyclemon |-> FALSE]
  /\ task = <<>>
  /\ done_queue = <<>>
  /\ rx = <<>> /\ tx = <<>>
  /\ shut = {}

-----------------------------------------------------------------------------
(* what the parts of a handler do to a client and its source               *)

(* dlist_node_pop: x is taken out of the list, if it is in it              *)
Without(q, x) ==
  LET p == {i \in DOMAIN q : q[i] = x}
  IN  IF p = {} THEN q ELSE RemoveAt(q, CHOOSE i \in p : TRUE)

(* client_send *)
Say(c, line) == [c EXCEPT !.txt = Append(@, line), !.writes = TRUE]

(* client_data_send; a cycle stop changes the mode *)
DataSend(c, o, stop) ==
  [c EXCEPT !.objs = Append(@, o), !.writes = TRUE,
            !.mode = IF stop THEN "flush" ELSE @]

(* a mutant: the tasks underway are not looked at *)
IsFinishedTasks(s) == s.commands = <<>> /\ (s.open => s.finished)

(* scamper_source_isfinished; a source that was abandoned has no data left *)
IsFinished(s) == s.commands = <<>> /\ s.tasks = {} /\ (s.open => s.finished)

(* a mutant: the source keeps its cycle monitor, and stops its cycle again *)
EndCycleKeeps(c, s) ==
  IF IsFinished(s) /\ s.cyclemon THEN [c |-> DataSend(c, CycleObj, TRUE), s |-> s]
  ELSE [c |-> c, s |-> s]

(* source_finished, scamper_sourcetask_free: a source that is finished     *)
(* gives its cycle monitor back, and the cycle stop is written             *)
EndCycle(c, s) ==
  IF IsFinished(s) /\ s.cyclemon
  THEN [c |-> DataSend(c, CycleObj, TRUE), s |-> [s EXCEPT !.cyclemon = FALSE]]
  ELSE [c |-> c, s |-> s]

(* scamper_source_control_finish *)
Finish(c, s) ==
  IF ~s.open \/ s.finished THEN [c |-> c, s |-> s]
  ELSE EndCycle(c, [s EXCEPT !.finished = TRUE])

(* scamper_source_abandon: the tasks go, then the commands *)
Abandon(c, s) ==
  LET e == IF s.tasks = {} THEN [c |-> c, s |-> s]
           ELSE EndCycle(c, [s EXCEPT !.tasks = {}])
  IN  [c |-> e.c, s |-> [e.s EXCEPT !.open = FALSE, !.commands = <<>>]]

Gone(q) == [i \in DOMAIN q |-> [q[i] EXCEPT !.st = "freed"]]

(* client_isdone *)
IsDone(c, s) ==
  c.wb = <<>> /\ IsFinished(s) /\ c.obj = NoObj /\ c.objs = <<>>

(* client_free: what it still owes is dropped, the socket closed *)
ClientFree ==
  /\ client' = [client EXCEPT !.mode = "freed", !.txt = <<>>, !.objs = <<>>, !.obj = NoObj,
                              !.off = 0, !.wb = <<>>, !.reads = FALSE, !.writes = FALSE]
  /\ source' = [source EXCEPT !.open = FALSE, !.commands = <<>>, !.tasks = {}, !.cyclemon = FALSE]
  /\ task' = Gone(task)
  /\ done_queue' = <<>>
  /\ shut' = shut \cup {"scamper"}

-----------------------------------------------------------------------------
(* client_read                                                             *)

(* command_attach: the source starts with the command of its cycle *)
CommandAttach ==
  /\ client' = Say([client EXCEPT !.mode = "attached"], Ok)
  /\ source' = [source EXCEPT !.open = TRUE, !.commands = <<Cycle>>, !.cyclemon = TRUE]
  /\ UNCHANGED <<task, done_queue>>

(* scamper_source_command2: the command is a task at once, or refused *)
Command2(t) ==
  \/ LET id == Len(task) + 1 IN
     /\ source' = [source EXCEPT !.commands = Append(@, id), !.tasks = @ \cup {id}]
     /\ task' = Append(task, [of |-> t, st |-> "queued"])
     /\ client' = Say(client, OkId(id))
     /\ UNCHANGED done_queue
  \/ /\ client' = Say(client, Err)
     /\ UNCHANGED <<source, task, done_queue>>

(* scamper_source_halttask *)
HaltTask(id) ==
  IF id \in source.tasks
  THEN /\ client' = Say(client, Ok)
       /\ source' = [source EXCEPT !.commands = Without(@, id)]
       /\ task' = [task EXCEPT ![id].st = "done"]
       /\ done_queue' = Append(Without(done_queue, id), id)
  ELSE client' = Say(client, Err) /\ UNCHANGED <<source, task, done_queue>>

(* client_attached_cb, "done" *)
CommandDone ==
  LET f == Finish(Say(client, Ok), source) IN
  /\ client' = f.c /\ source' = f.s
  /\ UNCHANGED <<task, done_queue>>

(* client_read_line: a client in mode flush is not listened to *)
ClientReadLine(line) ==
  \/ client.mode = "interactive" /\ line = Attach /\ CommandAttach
  \/ /\ client.mode = "attached"
     /\ \/ line.k = "task" /\ Command2(line.task)
        \/ line.k = "halt" /\ HaltTask(line.id)
        \/ line = Done /\ CommandDone
  \/ client.mode = "flush" /\ UNCHANGED daemon

(* client_read: one line of those that one recv may return *)
ClientRead ==
  /\ client.reads /\ rx # <<>>
  /\ ClientReadLine(Head(rx))
  /\ rx' = Tail(rx)
  /\ UNCHANGED <<tx, shut>>

(* client_read: end of file *)
ClientEof ==
  /\ client.reads /\ rx = <<>> /\ "client" \in shut
  /\ LET f == Finish(client, source)
         a == Abandon(f.c, f.s)
     IN  IF IsDone(a.c, a.s) THEN ClientFree
         ELSE /\ client' = [a.c EXCEPT !.mode = "flush", !.reads = FALSE]
              /\ source' = a.s
              /\ task' = Gone(task)
              /\ done_queue' = <<>>
              /\ UNCHANGED shut
  /\ UNCHANGED <<rx, tx>>

-----------------------------------------------------------------------------
(* client_write                                                            *)

(* a mutant: answers are put in wherever an object is *)
WriteDoAnytime(c) ==
  LET new == c.off = 0 /\ c.objs # <<>>
      o   == IF new THEN Head(c.objs) ELSE c.obj
      off == IF o = NoObj THEN 0 ELSE c.off + 1
  IN  [c EXCEPT !.txt  = <<>>,
                !.objs = IF new THEN Tail(@) ELSE @,
                !.obj  = IF off = o.len THEN NoObj ELSE o,
                !.off  = IF off = o.len THEN 0 ELSE off,
                !.wb   = c.txt \o (IF new THEN <<DataHeader(o)>> ELSE <<>>)
                               \o (IF o # NoObj THEN <<Piece>> ELSE <<>>)]

(* a mutant: the offset is kept when an object is finished *)
WriteDoKeepsOff(c) ==
  LET new == c.off = 0 /\ c.objs # <<>>
      o   == IF new THEN Head(c.objs) ELSE c.obj
      off == IF o = NoObj THEN 0 ELSE c.off + 1
  IN  [c EXCEPT !.txt  = IF c.off = 0 THEN <<>> ELSE @,
                !.objs = IF new THEN Tail(@) ELSE @,
                !.obj  = IF off = o.len THEN NoObj ELSE o,
                !.off  = off,
                !.wb   = (IF c.off = 0 THEN c.txt ELSE <<>>)
                         \o (IF new THEN <<DataHeader(o)>> ELSE <<>>)
                         \o (IF o # NoObj THEN <<Piece>> ELSE <<>>)]

(* client_write_do: between objects, the answers and then the next object; *)
(* within one, its next piece                                              *)
WriteDo(c) ==
  LET new == c.off = 0 /\ c.objs # <<>>
      o   == IF new THEN Head(c.objs) ELSE c.obj
      off == IF o = NoObj THEN 0 ELSE c.off + 1
  IN  [c EXCEPT !.txt  = IF c.off = 0 THEN <<>> ELSE @,
                !.objs = IF new THEN Tail(@) ELSE @,
                !.obj  = IF off = o.len THEN NoObj ELSE o,
                !.off  = IF off = o.len THEN 0 ELSE off,
                !.wb   = (IF c.off = 0 THEN c.txt ELSE <<>>)
                         \o (IF new THEN <<DataHeader(o)>> ELSE <<>>)
                         \o (IF o # NoObj THEN <<Piece>> ELSE <<>>)]

Refilled == IF client.wb = <<>> THEN WriteDo(client) ELSE client

(* client_write: the socket takes some of what the buffer holds *)
ClientWrite ==
  /\ client.writes /\ "client" \notin shut
  /\ \E n \in {1, Len(Refilled.wb)} \cap 0 .. Len(Refilled.wb) :
       LET c == [Refilled EXCEPT !.wb = SubSeq(@, n + 1, Len(@))]
           idle == c.wb = <<>> /\ c.txt = <<>> /\ c.off = 0 /\ c.objs = <<>>
       IN  /\ tx' = tx \o SubSeq(Refilled.wb, 1, n)
           /\ IF idle /\ c.mode = "flush" /\ IsDone(c, source) THEN ClientFree
              ELSE /\ client' = IF idle THEN [c EXCEPT !.writes = FALSE] ELSE c
                   /\ UNCHANGED <<source, task, done_queue, shut>>
  /\ UNCHANGED rx

(* client_write: the other end is closed, scamper_writebuf_write fails *)
ClientWriteFails ==
  /\ client.writes /\ "client" \in shut
  /\ ClientFree
  /\ UNCHANGED <<rx, tx>>

-----------------------------------------------------------------------------
(* the source and its tasks                                                *)

(* a mutant: MORE is sent while a command is left *)
TakeBefore(c, s) ==
  IF Len(s.commands) > 1 /\ ~s.finished THEN Say(c, More) ELSE c

(* ssc_take: scamper asks for more with the last command *)
Take(c, s) ==
  IF Len(s.commands) = 1 /\ ~s.finished THEN Say(c, More) ELSE c

(* scamper_sources_gettask, with command_cycle_handle and                  *)
(* command_task_handle.  A source that is finished now leaves the rotation *)
(* and keeps its cycle monitor.                                            *)
GetTask ==
  /\ source.commands # <<>>
  /\ source' = [source EXCEPT !.commands = Tail(@)]
  /\ LET i == Head(source.commands)
         c == Take(client, source)
     IN  IF i = Cycle
         THEN client' = DataSend(c, CycleObj, FALSE) /\ UNCHANGED task
         ELSE client' = c /\ task' = [task EXCEPT ![i].st = "running"]
  /\ UNCHANGED <<done_queue, rx, tx, shut>>

(* the measurement ends *)
TaskEnds(i) ==
  /\ task[i].st = "running"
  /\ task' = [task EXCEPT ![i].st = "done"]
  /\ done_queue' = Append(done_queue, i)
  /\ UNCHANGED <<client, source, rx, tx, shut>>

(* a mutant: the source is looked at before the task has left it *)
ProcessDoneEarly ==
  /\ done_queue # <<>>
  /\ LET i == Head(done_queue)
         e == EndCycle(DataSend(client, Result(i), FALSE), source)
     IN  /\ client' = e.c /\ source' = [e.s EXCEPT !.tasks = @ \ {i}]
         /\ task' = [task EXCEPT ![i].st = "freed"]
  /\ done_queue' = Tail(done_queue)
  /\ UNCHANGED <<rx, tx, shut>>

(* scamper_process_done: the result is written; scamper_task_free and      *)
(* scamper_sourcetask_free                                                 *)
ProcessDone ==
  /\ done_queue # <<>>
  /\ LET i == Head(done_queue)
         e == EndCycle(DataSend(client, Result(i), FALSE),
                       [source EXCEPT !.tasks = @ \ {i}])
     IN  /\ client' = e.c /\ source' = e.s
         /\ task' = [task EXCEPT ![i].st = "freed"]
  /\ done_queue' = Tail(done_queue)
  /\ UNCHANGED <<rx, tx, shut>>

Daemon ==
  \/ ClientRead \/ ClientEof \/ ClientWrite \/ ClientWriteFails
  \/ GetTask \/ ProcessDone \/ \E i \in DOMAIN task : TaskEnds(i)

=============================================================================
