--------------------------- MODULE ScamperSources ---------------------------
(***************************************************************************)
(* scamper/scamper_sources.c: where tasks come from, and in which order    *)
(* they start; with the hold list and the signatures of scamper_task.c,    *)
(* the cycle monitor, the control client's hold on its source and the part *)
(* of main's loop that calls them.                                         *)
(*                                                                         *)
(* A source owns a list of commands.  It is in the active list (a ring     *)
(* that main serves in turn, `priority' tasks at a time), in the blocked   *)
(* list (no command now), in the finished list (about to go), or in none.  *)
(* A command becomes a task; a task whose signature overlaps that of an    *)
(* installed task is put on hold by it, and goes back to the head of its   *)
(* source's commands when the blocker is freed.                            *)
(*                                                                         *)
(* One thread runs everything.  pc is the phase of main's loop: reading    *)
(* sockets and timers ("poll"), probing ("probe", with scamper_sources_    *)
(* gettask as "gettask" ... "handle"), writing and freeing what is done    *)
(* ("done").  The loops of the code take one step per iteration; freeing   *)
(* (scamper_task_free) and abandoning (scamper_source_abandon) are loops   *)
(* that run inside a phase and exclude everything else.                    *)
(*                                                                         *)
(* Undefined behaviour and failed assertions end the run: `fault' names    *)
(* them.  A failed malloc is left out, and so is a zero priority: nothing  *)
(* in the code sets one.                                                   *)
(***************************************************************************)
EXTENDS Integers, SequencesExt, FiniteSetsExt

CONSTANTS
  Source, NoSource,
  Task, NoTask,
  SourceOf,   \* the source a task comes from
  Submits,    \* what each source submits, in order
  Kind,       \* where a source's commands come from
  Priority,   \* tasks a source may start per turn
  Conflict,   \* pairs of tasks whose signatures overlap
  Pps,        \* a file is read while fewer commands than this are queued
  Asserts,    \* the build keeps its assertions (--enable-debug)
  Allow       \* which of the client behaviours below may happen

ASSUME SourcesAssumption ==
  /\ NoSource \notin Source
  /\ NoTask \notin Task
  /\ SourceOf \in [Task -> Source]
  /\ Submits \in [Source -> Seq(Task)]
  /\ Kind \in [Source -> {"cmdline", "file", "stdin", "control"}]
  /\ Priority \in [Source -> Nat \ {0}]
  /\ Conflict \subseteq Task \X Task
  /\ \A u, t \in Task : <<u, t>> \in Conflict => <<t, u>> \in Conflict
  /\ \A t \in Task : <<t, t>> \notin Conflict
  /\ \A r, s \in Source : Kind[r] # "control" /\ Kind[s] # "control" => r = s
  /\ \A s \in Source : \A i, j \in DOMAIN Submits[s] :
       Submits[s][i] = Submits[s][j] => i = j
  /\ \A s \in Source, t \in Task :
       SourceOf[t] = s <=> \E i \in DOMAIN Submits[s] : Submits[s][i] = t
  /\ Pps \in Nat
  /\ Asserts \in BOOLEAN
  /\ Allow \subseteq {"halt_held", "flush"}

VARIABLES
  source,      \* what each scamper_source_t holds: commands, tasks, references
  rota,        \* [list, active, cur, cnt]: source->list_, the ring, source_cur, source_cnt
  client,      \* the control client that reads from the source
  life,        \* new, line (a PROBE command), alive, freed
  uses,        \* the tasks with a cyclemon pointer
  onhold,      \* task->onhold: the tasks it blocks
  installed,   \* the tasks whose signatures are installed
  done_queue,  \* the done queue of scamper_queue.c
  pc, src, cmd,            \* phase; gettask's source and command
  freeing, abandoning,     \* the task and the source of the loop that runs
  fault

scans == <<pc, src, cmd>>
loops == <<freeing, abandoning>>
works == <<life, uses, onhold, installed, done_queue>>
vars  == <<source, rota, client, life, uses, onhold, installed, done_queue,
           pc, src, cmd, freeing, abandoning, fault>>

ProbeCmd(t) == [type |-> "probe", task |-> t]
TaskCmd(t)  == [type |-> "task",  task |-> t]
CycleCmd    == [type |-> "cycle", task |-> NoTask]
NoCmd       == [type |-> "none",  task |-> NoTask]

Commands == {ProbeCmd(t) : t \in Task} \cup {TaskCmd(t) : t \in Task} \cup {CycleCmd, NoCmd}

(* the place of a task in what its source submits                          *)
Order == [t \in Task |->
            CHOOSE i \in DOMAIN Submits[SourceOf[t]] : Submits[SourceOf[t]][i] = t]

(* the PROBE commands of a list of lines                                   *)
ProbeCmds(q)  == [i \in DOMAIN q |-> ProbeCmd(q[i])]
Places(c, x)  == {i \in DOMAIN c : c[i] = x}
Probes(c)     == {i \in DOMAIN c : c[i].type = "probe"}
Lines(c)      == {t \in Task : Places(c, ProbeCmd(t)) # {}}

(* dlist_node_pop: x is taken out of the list, if it is in it              *)
Without(q, x) ==
  IF Places(q, x) = {} THEN q ELSE RemoveAt(q, CHOOSE i \in Places(q, x) : TRUE)

-----------------------------------------------------------------------------
(* the rotation: what the list functions do to source_cur and source_cnt   *)

NodeNext(a, s) ==
  LET i == CHOOSE j \in DOMAIN a : a[j] = s IN a[(i % Len(a)) + 1]

(* a mutant: source_cur is left where it was                               *)
ActiveDetachStale(r, s) ==
  [r EXCEPT !.list[s] = "none", !.active = Without(r.active, s), !.cnt = 0]

ActiveDetach(r, s) ==
  LET n == NodeNext(r.active, s)
  IN  [list   |-> [r.list EXCEPT ![s] = "none"],
       active |-> Without(r.active, s),
       cur    |-> IF n = s THEN NoSource ELSE n,
       cnt    |-> 0]

Unlisted(r, s) ==
  IF r.list[s] = "active" THEN ActiveDetach(r, s) ELSE [r EXCEPT !.list[s] = "none"]

ActiveAttach(r, s) ==
  IF r.list[s] \in {"active", "finished"} THEN r
  ELSE [list   |-> [r.list EXCEPT ![s] = "active"],
        active |-> Append(r.active, s),
        cur    |-> IF r.cur = NoSource THEN s ELSE r.cur,
        cnt    |-> IF r.cur = NoSource THEN 0 ELSE r.cnt]

BlockedAttach(r, s) ==
  IF r.list[s] \in {"blocked", "finished"} THEN r
  ELSE [Unlisted(r, s) EXCEPT !.list[s] = "blocked"]

FinishedAttach(r, s) == [Unlisted(r, s) EXCEPT !.list[s] = "finished"]

SourceNext(r) == [r EXCEPT !.cur = NodeNext(r.active, r.cur), !.cnt = 0]

-----------------------------------------------------------------------------
(* what happens to one source; S is its record                             *)

(* source_flush_commands: no more commands, now or later.  A PROBE command *)
(* gives its reference to the cycle monitor back.                          *)
FlushCommands(S) ==
  [S EXCEPT !.commands = <<>>, !.open = FALSE, !.cm = @ - Cardinality(Probes(S.commands))]

(* a mutant: the pointer is kept                                           *)
UnuseKeep(S) == IF S.cyclemon THEN [S EXCEPT !.cm = @ - 1] ELSE S

(* scamper_cyclemon_unuse(source->cyclemon); source->cyclemon = NULL       *)
Unuse(S) == IF S.cyclemon THEN [S EXCEPT !.cm = @ - 1, !.cyclemon = FALSE] ELSE S

(* scamper_source_free, and source_free at the last reference              *)
Unref(S) ==
  IF S.refcnt = 1 THEN FlushCommands(Unuse([S EXCEPT !.refcnt = 0, !.tree = FALSE]))
                  ELSE [S EXCEPT !.refcnt = @ - 1]

(* source_detach: out of the tree, whose reference is given back           *)
Detach(S) == IF S.tree THEN Unref([S EXCEPT !.tree = FALSE]) ELSE S

(* scamper_source_isfinished *)
IsFinished(S) == S.commands = <<>> /\ S.tasks = <<>> /\ (S.open => S.eof)

Push(S, c)     == [S EXCEPT !.commands = Append(@, c)]
PushHead(S, c) == [S EXCEPT !.commands = <<c>> \o @]

(* scamper_source_command for each of the lines q                          *)
AddLines(S, q) ==
  [S EXCEPT !.commands = @ \o ProbeCmds(q),
            !.cm = @ + (IF S.cyclemon THEN Len(q) ELSE 0)]

(* a mutant: the task does not hold its source                             *)
AddTaskNoUse(S, t) == [S EXCEPT !.tasks = Append(@, t)]

(* sourcetask_alloc *)
AddTask(S, t) == [S EXCEPT !.tasks = Append(@, t), !.refcnt = @ + 1]

-----------------------------------------------------------------------------
(* scamper_source_alloc and scamper_sources_add; refs counts the tree and  *)
(* the client that made the source.                                        *)
Fresh(refs, more) ==
  [commands |-> <<CycleCmd>>, tasks |-> <<>>, open |-> TRUE, eof |-> ~more,
   tree |-> TRUE, refcnt |-> refs, cm |-> 1, cyclemon |-> TRUE]

Absent == [commands |-> <<>>, tasks |-> <<>>, open |-> FALSE, eof |-> FALSE,
           tree |-> FALSE, refcnt |-> 0, cm |-> 0, cyclemon |-> FALSE]

(* main makes the default source before its loop starts                    *)
Default == {s \in Source : Kind[s] # "control"}
Started(s) ==
  CASE Kind[s] = "control" -> Absent
    [] Kind[s] = "cmdline" -> AddLines(Fresh(1, FALSE), Submits[s])
    [] OTHER               -> Fresh(1, TRUE)

Init ==
  /\ source = [s \in Source |-> Started(s)]
  /\ rota = [list   |-> [s \in Source |-> IF s \in Default THEN "active" ELSE "none"],
             active |-> IF Default = {} THEN <<>> ELSE <<CHOOSE s \in Default : TRUE>>,
             cur    |-> IF Default = {} THEN NoSource ELSE CHOOSE s \in Default : TRUE,
             cnt    |-> 0]
  /\ client = [s \in Source |-> "none"]
  /\ life = [t \in Task |-> IF Kind[SourceOf[t]] = "cmdline" THEN "line" ELSE "new"]
  /\ uses = {}
  /\ onhold = [t \in Task |-> <<>>]
  /\ installed = {}
  /\ done_queue = <<>>
  /\ pc = "poll" /\ src = NoSource /\ cmd = NoCmd
  /\ freeing = NoTask /\ abandoning = NoSource
  /\ fault = "none"

(* an assertion fails, or a freed object or a null list is used            *)
Crash(what) ==
  /\ fault' = what
  /\ UNCHANGED <<source, rota, client, works, scans, loops>>

Idle    == freeing = NoTask /\ abandoning = NoSource
Polling == pc = "poll" /\ Idle

(* scamper_source_finished, with S and the rotation as they are by then    *)
Finished(s, S) ==
  /\ source' = [source EXCEPT ![s] = Unuse(S)]
  /\ rota' = FinishedAttach(rota, s)

-----------------------------------------------------------------------------
(* the phase in which sockets are read and timers run                      *)

(* command_attach: a client makes a source                                 *)
Attach(s) ==
  /\ Polling
  /\ Kind[s] = "control" /\ client[s] = "none"
  /\ client' = [client EXCEPT ![s] = "attached"]
  /\ source' = [source EXCEPT ![s] = Fresh(2, TRUE)]
  /\ rota' = ActiveAttach(rota, s)
  /\ UNCHANGED <<works, scans, loops, fault>>

(* what a source has not submitted yet: the first new task and the rest    *)
News(s)   == {i \in DOMAIN Submits[s] : life[Submits[s][i]] = "new"}
Unsent(s) == IF News(s) = {} THEN <<>>
             ELSE SubSeq(Submits[s], Min(News(s)), Len(Submits[s]))

(* a mutant: lines matter whatever the mode is                             *)
FlushingNever(s) == FALSE

(* CLIENT_MODE_FLUSH of a client that has not gone: client_data_send sets  *)
(* it at the cycle stop, which the last reference to the cycle monitor     *)
(* writes.  Nothing that is read matters then.                             *)
Flushing(s) == source[s].cm = 0

(* client_attached_cb, a measurement: scamper_source_command2.  A client   *)
(* that said "done" may still send one.                                    *)
Command2(s, t) ==
  /\ Polling
  /\ client[s] = "attached" /\ ~Flushing(s)
  /\ Unsent(s) # <<>> /\ t = Head(Unsent(s))
  /\ IF ~source[s].open THEN Crash("null_list") ELSE
     LET S == Push(AddTask(source[s], t), TaskCmd(t))
         C == source[s].cyclemon
     IN
     /\ source' = [source EXCEPT ![s] = IF C THEN [S EXCEPT !.cm = @ + 1] ELSE S]
     /\ uses' = IF C THEN uses \cup {t} ELSE uses
     /\ life' = [life EXCEPT ![t] = "alive"]
     /\ rota' = ActiveAttach(rota, s)
     /\ UNCHANGED <<client, onhold, installed, done_queue, scans, loops, fault>>

(* where a task is on hold: by which task, and at which place              *)
Held(t) == UNION {{b} \X Places(onhold[b], t) : b \in Task}

(* a mutant: the task's command stays queued                               *)
HaltTaskKeep(s, t) ==
  /\ Polling
  /\ client[s] = "attached" /\ SourceOf[t] = s /\ life[t] = "alive" /\ Held(t) = {}
  /\ done_queue' = Append(Without(done_queue, t), t)
  /\ UNCHANGED <<source, rota, client, life, uses, onhold, installed, scans, loops, fault>>

(* client_attached_cb, "halt": scamper_source_halttask.  The task's halt   *)
(* function puts it in the done queue; its command, if any, is removed.    *)
HaltTask(s, t) ==
  /\ Polling
  /\ client[s] = "attached" /\ SourceOf[t] = s /\ life[t] = "alive"
  /\ Held(t) # {} => "halt_held" \in Allow
  /\ IF ~source[s].open THEN Crash("null_list") ELSE
     /\ done_queue' = Append(Without(done_queue, t), t)
     /\ source' = [source EXCEPT ![s].commands = Without(@, TaskCmd(t))]
     /\ UNCHANGED <<rota, client, life, uses, onhold, installed, scans, loops, fault>>

(* client_attached_cb, "done": scamper_source_control_finish               *)
ClientDone(s) ==
  /\ Polling
  /\ client[s] = "attached" /\ source[s].open /\ ~source[s].eof
  /\ LET S == [source[s] EXCEPT !.eof = TRUE] IN
     IF ~IsFinished(S)
     THEN source' = [source EXCEPT ![s] = S] /\ UNCHANGED <<rota, fault>>
     ELSE /\ Finished(s, S)
          /\ fault' = IF Asserts /\ S.cyclemon /\ S.cm # 1 THEN "cyclemon" ELSE fault
  /\ UNCHANGED <<client, works, scans, loops>>

(* the client goes: by closing its socket (client_read calls               *)
(* scamper_source_control_finish first) or by "exit" or an error.  The     *)
(* loop of scamper_source_abandon starts.                                  *)
ClientClose(s, fin) ==
  /\ Polling
  /\ client[s] = "attached"
  /\ client' = [client EXCEPT ![s] = "flush"]
  /\ abandoning' = s
  /\ LET S == [source[s] EXCEPT !.eof = @ \/ (fin /\ source[s].open)]
     IN  IF S.eof /\ ~source[s].eof /\ IsFinished(S)
         THEN Finished(s, S)
         ELSE source' = [source EXCEPT ![s] = S] /\ UNCHANGED rota
  /\ UNCHANGED <<works, scans, freeing, fault>>

(* client_free: the client's reference                                     *)
ClientFree(s) ==
  /\ Polling
  /\ client[s] = "flush"
  /\ client' = [client EXCEPT ![s] = "gone"]
  /\ source' = [source EXCEPT ![s] = Unref(@)]
  /\ rota' = IF source[s].refcnt = 1 THEN Unlisted(rota, s) ELSE rota
  /\ UNCHANGED <<works, scans, loops, fault>>

(* source_flush_tasks, an iteration: the task is about to be freed         *)
AbandonTask(t) ==
  /\ abandoning # NoSource /\ freeing = NoTask
  /\ source[abandoning].tasks # <<>>
  /\ t = Head(source[abandoning].tasks)
  /\ freeing' = t
  /\ done_queue' = Without(done_queue, t)
  /\ UNCHANGED <<source, rota, client, life, uses, onhold, installed, scans,
                 abandoning, fault>>

(* source_flush_commands and source_detach, once no task is left           *)
AbandonEnd ==
  /\ abandoning # NoSource /\ freeing = NoTask
  /\ source[abandoning].tasks = <<>>
  /\ source' = [source EXCEPT ![abandoning] = Detach(FlushCommands(@))]
  /\ rota' = Unlisted(rota, abandoning)
  /\ abandoning' = NoSource
  /\ UNCHANGED <<client, works, scans, freeing, fault>>

(* ssf_read_stdin: a line, or the end                                      *)
ReadLine(s) ==
  /\ Polling
  /\ Kind[s] = "stdin" /\ source[s].open /\ ~source[s].eof
  /\ Unsent(s) # <<>>
  /\ source' = [source EXCEPT ![s] = AddLines(@, <<Head(Unsent(s))>>)]
  /\ life' = [life EXCEPT ![Head(Unsent(s))] = "line"]
  /\ rota' = ActiveAttach(rota, s)
  /\ UNCHANGED <<client, uses, onhold, installed, done_queue, scans, loops, fault>>

ReadEnd(s) ==
  /\ Polling
  /\ Kind[s] = "stdin" /\ source[s].open /\ ~source[s].eof
  /\ LET S == [source[s] EXCEPT !.eof = TRUE] IN
     IF ~IsFinished(S)
     THEN source' = [source EXCEPT ![s] = S] /\ UNCHANGED <<rota, fault>>
     ELSE /\ Finished(s, S)
          /\ fault' = IF Asserts /\ S.cyclemon /\ S.cm # 1 THEN "cyclemon" ELSE fault
  /\ UNCHANGED <<client, works, scans, loops>>

(* command_shutdown_flush: scamper_sources_empty                           *)
ShutdownFlush ==
  /\ Polling
  /\ "flush" \in Allow
  /\ \E s \in Source : rota.list[s] # "none"
  /\ LET flushed == {s \in Source : rota.list[s] \in {"active", "blocked"}}
     IN
     /\ source' = [s \in Source |->
          CASE s \in flushed               -> Detach(FlushCommands(source[s]))
            [] rota.list[s] = "finished"   -> Detach(source[s])
            [] OTHER                       -> source[s]]
     /\ life' = [t \in Task |-> IF life[t] = "line" /\ SourceOf[t] \in flushed
                                THEN "freed" ELSE life[t]]
  /\ rota' = [list |-> [s \in Source |-> "none"], active |-> <<>>,
              cur |-> NoSource, cnt |-> 0]
  /\ UNCHANGED <<client, uses, onhold, installed, done_queue, scans, loops, fault>>

(* a mutant: the signatures go with the last probe                         *)
TaskDoneDeinstall(t) ==
  /\ pc \in {"poll", "probe"} /\ Idle
  /\ t \in installed /\ Places(done_queue, t) = {}
  /\ done_queue' = Append(done_queue, t)
  /\ installed' = installed \ {t}
  /\ UNCHANGED <<source, rota, client, life, uses, onhold, scans, loops, fault>>

(* a handler, or the probe function, is through with a running task        *)
TaskDone(t) ==
  /\ pc \in {"poll", "probe"} /\ Idle
  /\ t \in installed /\ Places(done_queue, t) = {}
  /\ done_queue' = Append(done_queue, t)
  /\ UNCHANGED <<source, rota, client, life, uses, onhold, installed, scans,
                 loops, fault>>

-----------------------------------------------------------------------------
(* scamper_task_free                                                       *)

(* a mutant: held tasks are taken from the head                            *)
UnholdHead ==
  LET b == freeing
      t == Head(onhold[b])
      s == SourceOf[t]
  IN
  /\ b # NoTask /\ onhold[b] # <<>>
  /\ onhold' = [onhold EXCEPT ![b] = Tail(@)]
  /\ source' = [source EXCEPT ![s] = PushHead(@, TaskCmd(t))]
  /\ rota' = ActiveAttach(rota, s)
  /\ UNCHANGED <<client, life, uses, installed, done_queue, scans, loops, fault>>

(* the loop over the tasks it blocks: scamper_source_task_unhold           *)
Unhold ==
  LET b == freeing
      t == Last(onhold[b])
      s == SourceOf[t]
  IN
  /\ b # NoTask /\ onhold[b] # <<>>
  /\ IF ~source[s].open THEN Crash("null_list") ELSE
     /\ onhold' = [onhold EXCEPT ![b] = Front(@)]
     /\ source' = [source EXCEPT ![s] = PushHead(@, TaskCmd(t))]
     /\ rota' = ActiveAttach(rota, s)
     /\ UNCHANGED <<client, life, uses, installed, done_queue, scans, loops, fault>>

(* a mutant: the task stays in the hold list it is on                      *)
FreeTaskOnList ==
  LET t == freeing
      s == SourceOf[t]
      S == [source[s] EXCEPT !.tasks = Without(@, t), !.refcnt = @ - 1,
                             !.cm = @ - (IF t \in uses THEN 1 ELSE 0)]
  IN
  /\ t # NoTask /\ onhold[t] = <<>>
  /\ source' = [source EXCEPT ![s] = IF IsFinished(S) THEN Detach(Unuse(S)) ELSE S]
  /\ rota' = IF IsFinished(S) THEN Unlisted(rota, s) ELSE rota
  /\ life' = [life EXCEPT ![t] = "freed"]
  /\ uses' = uses \ {t}
  /\ installed' = installed \ {t}
  /\ freeing' = NoTask
  /\ UNCHANGED <<client, onhold, done_queue, scans, abandoning, fault>>

(* scamper_sourcetask_free: the source S has lost the task and its         *)
(* reference, and is looked at then.                                       *)
SourceTaskFree(s, S) ==
  IF IsFinished(S)
  THEN /\ source' = [source EXCEPT ![s] = Detach(Unuse(S))]
       /\ rota' = Unlisted(rota, s)
       /\ fault' = IF Asserts /\ S.cyclemon /\ S.cm # 1 THEN "cyclemon" ELSE fault
  ELSE /\ source' = [source EXCEPT ![s] = S]
       /\ UNCHANGED <<rota, fault>>

(* the rest: off the hold list it is on itself, the cycle monitor, the     *)
(* source, then the signatures                                             *)
FreeTask ==
  LET t == freeing
      s == SourceOf[t]
      S == [source[s] EXCEPT !.tasks = Without(@, t), !.refcnt = @ - 1,
                             !.cm = @ - (IF t \in uses THEN 1 ELSE 0)]
  IN
  /\ t # NoTask /\ onhold[t] = <<>>
  /\ IF S.refcnt = 0 THEN Crash("freed_source") ELSE
     /\ SourceTaskFree(s, S)
     /\ life' = [life EXCEPT ![t] = "freed"]
     /\ uses' = uses \ {t}
     /\ onhold' = [b \in Task |-> Without(onhold[b], t)]
     /\ installed' = installed \ {t}
     /\ freeing' = NoTask
     /\ UNCHANGED <<client, done_queue, scans, abandoning>>

-----------------------------------------------------------------------------
(* main's loop *)

Phase(from, to) ==
  /\ pc = from /\ Idle
  /\ pc' = to
  /\ UNCHANGED <<source, rota, client, works, src, cmd, loops, fault>>

EndPoll  == Phase("poll", "probe")
EndProbe == Phase("probe", "done")
EndDone  == Phase("done", "poll") /\ done_queue = <<>>

(* scamper_process_done, an iteration: write the result, free the task     *)
ProcessDone(t) ==
  /\ pc = "done" /\ Idle
  /\ done_queue # <<>> /\ t = Head(done_queue)
  /\ freeing' = t
  /\ done_queue' = Tail(done_queue)
  /\ UNCHANGED <<source, rota, client, life, uses, onhold, installed, scans,
                 abandoning, fault>>

(* scamper_sources_gettask is called: no task is ready, there is room in   *)
(* the window and it is time for a probe                                   *)
GetTask == Phase("probe", "gettask")

(* its loop over the finished sources                                      *)
DetachFinished(s) ==
  /\ pc = "gettask"
  /\ rota.list[s] = "finished"
  /\ source' = [source EXCEPT ![s] = Detach(@)]
  /\ rota' = Unlisted(rota, s)
  /\ UNCHANGED <<client, works, scans, loops, fault>>

(* gettask's local variable follows source_cur, and ends it when null      *)
Serve(r) ==
  /\ rota' = r
  /\ src' = r.cur
  /\ pc' = IF r.cur = NoSource THEN "done" ELSE "scan"
  /\ UNCHANGED <<client, works, cmd, loops, fault>>

(* a mutant: a source keeps its turn                                       *)
StartScanKeep ==
  /\ pc = "gettask"
  /\ \A s \in Source : rota.list[s] # "finished"
  /\ Serve(rota)
  /\ UNCHANGED source

StartScan ==
  /\ pc = "gettask"
  /\ \A s \in Source : rota.list[s] # "finished"
  /\ Serve(IF rota.cur # NoSource /\ rota.cnt >= Priority[rota.cur]
           THEN SourceNext(rota) ELSE rota)
  /\ UNCHANGED source

PopCommand ==
  /\ pc = "scan"
  /\ source[src].commands # <<>>
  /\ cmd' = Head(source[src].commands)
  /\ source' = [source EXCEPT ![src].commands = Tail(@)]
  /\ pc' = "take"
  /\ UNCHANGED <<rota, client, works, src, loops, fault>>

(* the source could not supply a command                                   *)
Exhausted ==
  /\ pc = "scan"
  /\ source[src].commands = <<>>
  /\ IF IsFinished(source[src])
     THEN /\ source' = [source EXCEPT ![src] = Detach(@)]
          /\ Serve(Unlisted(rota, src))
     ELSE /\ Serve(BlockedAttach(rota, src))
          /\ UNCHANGED source

Reads(s) ==
  /\ Kind[s] = "file" /\ source[s].open /\ ~source[s].eof
  /\ Len(source[s].commands) < Pps

(* source->take: ssf_take reads a block of the file, with any number of    *)
(* whole lines that are commands; the other sources add no command here.   *)
TakeChunk ==
  /\ pc = "take" /\ Reads(src)
  /\ \E k \in 0 .. Len(Unsent(src)) :
       LET q == SubSeq(Unsent(src), 1, k) IN
       /\ source' = [source EXCEPT ![src] = AddLines(@, q)]
       /\ life' = [t \in Task |-> IF Places(q, t) # {} THEN "line" ELSE life[t]]
       /\ rota' = IF k = 0 THEN rota ELSE ActiveAttach(rota, src)
  /\ pc' = "handle"
  /\ UNCHANGED <<client, uses, onhold, installed, done_queue, src, cmd, loops, fault>>

(* the end of the file, with a last line perhaps that has no newline       *)
TakeEnd ==
  /\ pc = "take" /\ Reads(src)
  /\ \E k \in {j \in {0, 1} : j <= Len(Unsent(src))} :
       LET q == SubSeq(Unsent(src), 1, k)
           S == [AddLines(source[src], q) EXCEPT !.eof = TRUE]
       IN
       /\ life' = [t \in Task |-> IF Places(q, t) # {} THEN "line" ELSE life[t]]
       /\ IF ~IsFinished(S)
          THEN /\ source' = [source EXCEPT ![src] = S]
               /\ rota' = IF k = 0 THEN rota ELSE ActiveAttach(rota, src)
               /\ UNCHANGED fault
          ELSE /\ Finished(src, S)
               /\ fault' = IF Asserts /\ S.cyclemon /\ S.cm # 1 THEN "cyclemon" ELSE fault
  /\ pc' = "handle"
  /\ UNCHANGED <<client, uses, onhold, installed, done_queue, src, cmd, loops>>

TakeNone ==
  /\ pc = "take" /\ ~Reads(src)
  /\ pc' = "handle"
  /\ UNCHANGED <<source, rota, client, works, src, cmd, loops, fault>>

(* a mutant: a task that is itself held may block                          *)
SigBlockAlive(t) == {b \in Task : life[b] = "alive" /\ b # t /\ <<b, t>> \in Conflict}

(* a mutant: one of the signatures is not looked up                        *)
SigBlockFirst(t) == {b \in installed : <<b, t>> \in Conflict /\ Order[b] < Order[t]}

(* scamper_task_sig_block: the tasks it may return                         *)
SigBlock(t) == {b \in installed : <<b, t>> \in Conflict}

(* source_task_install: the task starts, or is held by one that runs       *)
InstallOrHold(t) ==
  \/ /\ SigBlock(t) = {}
     /\ installed' = installed \cup {t}
     /\ rota' = [rota EXCEPT !.cnt = @ + 1]
     /\ pc' = "probe" /\ src' = NoSource
     /\ UNCHANGED onhold
  \/ /\ \E b \in SigBlock(t) : onhold' = [onhold EXCEPT ![b] = Append(@, t)]
     /\ pc' = "scan"
     /\ UNCHANGED <<installed, rota, src>>

(* command_probe_handle *)
HandleProbe(t) ==
  /\ pc = "handle" /\ cmd = ProbeCmd(t)
  /\ source' = [source EXCEPT ![src] = AddTask(@, t)]
  /\ life' = [life EXCEPT ![t] = "alive"]
  /\ uses' = uses \cup {t}
  /\ InstallOrHold(t)
  /\ cmd' = NoCmd
  /\ UNCHANGED <<client, done_queue, loops, fault>>

(* command_task_handle *)
HandleTask(t) ==
  /\ pc = "handle" /\ cmd = TaskCmd(t)
  /\ IF life[t] = "freed" THEN Crash("freed_task") ELSE
     /\ InstallOrHold(t)
     /\ cmd' = NoCmd
     /\ UNCHANGED <<source, client, life, uses, done_queue, loops, fault>>

(* command_cycle_handle *)
HandleCycle ==
  /\ pc = "handle" /\ cmd.type = "cycle"
  /\ pc' = "scan"
  /\ cmd' = NoCmd
  /\ UNCHANGED <<source, rota, client, works, src, loops, fault>>

-----------------------------------------------------------------------------
ClientOp(s) ==
  \/ Attach(s)
  \/ \E t \in Task : Command2(s, t) \/ HaltTask(s, t)
  \/ ClientDone(s)
  \/ \E fin \in BOOLEAN : ClientClose(s, fin)
  \/ ClientFree(s)

MainStep ==
  \/ AbandonEnd \/ Unhold \/ FreeTask
  \/ EndPoll \/ EndProbe \/ EndDone
  \/ \E s \in Source : DetachFinished(s)
  \/ StartScan \/ PopCommand \/ Exhausted
  \/ TakeChunk \/ TakeEnd \/ TakeNone
  \/ HandleCycle
  \/ \E t \in Task : AbandonTask(t) \/ ProcessDone(t) \/ HandleProbe(t) \/ HandleTask(t)

Next ==
  /\ fault = "none"
  /\ \/ \E s \in Source : ClientOp(s) \/ ReadLine(s) \/ ReadEnd(s)
     \/ ShutdownFlush
     \/ \E t \in Task : TaskDone(t)
     \/ GetTask
     \/ MainStep

Spec == Init /\ [][Next]_vars

(* Main's loop goes on; the pacing and the window let gettask in from time *)
(* to time; every probed task is through in the end.                       *)
FairSpec ==
  /\ Spec
  /\ WF_vars(fault = "none" /\ MainStep)
  /\ SF_vars(fault = "none" /\ GetTask)
  /\ \A t \in Task : SF_vars(fault = "none" /\ TaskDone(t))

-----------------------------------------------------------------------------
Lists == {"none", "active", "blocked", "finished"}

Record == [commands : Seq(Commands), tasks : Seq(Task), open : BOOLEAN, eof : BOOLEAN,
           tree : BOOLEAN, refcnt : Nat, cm : Nat, cyclemon : BOOLEAN]

Rota == [list : [Source -> Lists], active : Seq(Source),
         cur : Source \cup {NoSource}, cnt : Nat]

(* The state is well typed.                                                *)
TypeInv ==
  /\ source \in [Source -> Record]
  /\ rota \in Rota
  /\ client \in [Source -> {"none", "attached", "flush", "gone"}]
  /\ life \in [Task -> {"new", "line", "alive", "freed"}]
  /\ uses \subseteq Task /\ installed \subseteq Task
  /\ onhold \in [Task -> Seq(Task)]
  /\ done_queue \in Seq(Task)
  /\ pc \in {"poll", "probe", "gettask", "scan", "take", "handle", "done"}
  /\ src \in Source \cup {NoSource} /\ cmd \in Commands
  /\ freeing \in Task \cup {NoTask} /\ abandoning \in Source \cup {NoSource}
  /\ fault \in {"none", "cyclemon", "null_list", "freed_source", "freed_task"}

Member(q, x)  == \E i \in DOMAIN q : q[i] = x
Distinct(q)   == \A i, j \in DOMAIN q : q[i] = q[j] => i = j

(* The ring and source->list_ name the same sources, and source_cur is a   *)
(* member of the ring unless the ring is empty: what scamper_sources_      *)
(* isready and gettask take for granted after every detach.                *)
Ring(r) ==
  /\ \A s \in Source : r.list[s] = "active" <=> Member(r.active, s)
  /\ Distinct(r.active)
  /\ IF r.active = <<>> THEN r.cur = NoSource ELSE Member(r.active, r.cur)

RingKept == Ring(rota)

(* Two tasks whose signatures overlap never run at once, whatever is held, *)
(* unheld, halted or abandoned: a reply could not be told apart.           *)
Exclusive == \A t, u \in installed : <<t, u>> \notin Conflict

(* Only a running task blocks others, so that what is held has someone to  *)
(* release it.                                                             *)
BlockersRun == \A b \in Task : onhold[b] # <<>> => b \in installed /\ life[b] = "alive"

InHand(t) == IF cmd.task = t THEN 1 ELSE 0
Queued(t) == Cardinality(Places(source[SourceOf[t]].commands, TaskCmd(t))) + InHand(t)
Holds(t)  == Cardinality(Held(t))

(* A task of a source that still takes commands is in exactly one place:   *)
(* a command of its source, one hold list, or running; a halted one waits  *)
(* in the done queue.  Nothing is lost or started twice when tasks are     *)
(* held, released, halted and freed.                                       *)
Placed ==
  \A t \in Task :
    life[t] = "alive" /\ source[SourceOf[t]].open /\ SourceOf[t] # abandoning
    /\ fault = "none" =>
    IF t \in installed THEN Queued(t) = 0 /\ Holds(t) = 0
    ELSE IF Places(done_queue, t) # {} \/ freeing = t THEN Queued(t) = 0
    ELSE Queued(t) + Holds(t) = 1

(* No queued command refers to a task that is freed (but for the commands  *)
(* a closing source is about to drop).                                     *)
CommandsLive ==
  \A t \in Task : life[t] = "freed" /\ SourceOf[t] # abandoning => Queued(t) = 0

(* source->refcnt counts the tree, the client and the tasks; the cycle     *)
(* monitor counts the source's pointer, the PROBE commands and the tasks.  *)
(* An error makes a source vanish under its tasks, or a cycle end early.   *)
CountsExact ==
  \A s \in Source : LET S == source[s] IN
    fault = "none" =>
    /\ S.refcnt = Len(S.tasks) + (IF S.tree THEN 1 ELSE 0)
                               + (IF client[s] \in {"attached", "flush"} THEN 1 ELSE 0)
    /\ S.cm = (IF S.cyclemon THEN 1 ELSE 0) + Cardinality(Probes(S.commands))
              + Cardinality({t \in uses : SourceOf[t] = s})
              + (IF src = s /\ cmd.type = "probe" THEN 1 ELSE 0)

(* No source starts more tasks in its turn than its priority.              *)
Quantum == rota.cur # NoSource => rota.cnt <= Priority[rota.cur]

(* The assertions of the sources code hold and nothing freed is used.      *)
NoFault == fault = "none"

(* Overlapping tasks of one source start in the order they were submitted  *)
(* in: "this retains ordering", scamper_task_free.  (When each overlaps    *)
(* each, as tasks for one destination do; a task that overlaps two that do *)
(* not overlap may be overtaken by the second while the first holds it.)   *)
StartInOrder ==
  [][\A t \in installed' \ installed : \A u \in Task :
       SourceOf[u] = SourceOf[t] /\ <<u, t>> \in Conflict /\ Order[u] < Order[t]
       => u \in installed \/ life[u] = "freed" \/ Places(done_queue, u) # {}]_vars

(* What is submitted is freed in the end: run, written and forgotten, or   *)
(* dropped with its source.  No hold, no blocked list and no turn of       *)
(* another source keeps it for ever.                                       *)
AllEnd == \A t \in Task : (life[t] \in {"line", "alive"}) ~> (life[t] = "freed")

-----------------------------------------------------------------------------
(* ScamperSources implements TaskAdmission: a task runs while its          *)
(* signatures are installed.  Holding, releasing, taking turns and halting *)
(* change nothing but when a task starts.                                  *)
Stage(t) ==
  CASE t \in installed             -> "running"
    [] life[t] = "new"             -> "absent"
    [] life[t] = "freed"           -> "gone"
    [] OTHER                       -> "pending"

Admission == INSTANCE TaskAdmission WITH state <- [t \in Task |-> Stage(t)]
AdmissionSpec == Admission!Spec

-----------------------------------------------------------------------------
(* What comments, assertions and the manual say, and the code does not do. *)

(* scamper_queue.h (lines 39-40): the tasks of the done queue "have        *)
(* completed"; what is done does not become a command again.               *)
DoneStaysDone ==
  \A t \in Task : Places(done_queue, t) # {} => Queued(t) = 0

(* source_assert (lines 374-375): "check the source for valid refcnts",    *)
(* assert(s->refcnt > 0): nothing looks at a source that was freed.        *)
SourceReferenced == fault # "freed_source"

(* scamper.1 (line 377): the file is read "for target addresses, one per   *)
(* line": a file is read to its end.                                       *)
FileRead == \A s \in Source : Kind[s] = "file" => <>source[s].eof

=============================================================================
