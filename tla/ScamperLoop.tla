----------------------------- MODULE ScamperLoop -----------------------------
(***************************************************************************)
(* scamper/scamper.c: the loop of main.  It writes what is done, works out *)
(* how long it may sleep (scamper_timeout), polls, and then sends the      *)
(* probes that have become due at the configured rate, taking new tasks    *)
(* from the sources while the window has room.                             *)
(*                                                                         *)
(* Time is discrete and passes at any point (Tick); what the code keeps as *)
(* absolute times is kept as differences, so that nothing grows: `due' is  *)
(* the time until a waiting task expires, `since' the time since           *)
(* lastprobe, `lag' the time since the loop last read the clock.           *)
(*                                                                         *)
(* Abstracted: a task is its place and the probes it has left; a source    *)
(* supplies its tasks in some order (ScamperSources has the order); the    *)
(* callbacks of the event queue and all that reads descriptors are one     *)
(* event that wakes the loop.  A signal ends the loop at once and is left  *)
(* out, and so are changes of the rate while it runs.                      *)
(***************************************************************************)
EXTENDS Integers, SequencesExt, FiniteSetsExt

CONSTANTS
  Task,
  Attempts,    \* the probes of a task
  MaxWait,     \* the longest a task waits for a reply
  WaitBetween, \* wait_between, 1 / pps
  ProbeWindow, \* probe_window
  Window,      \* the tasks that may be probed in parallel; 0 is no limit
  MaxLag,      \* the time a pass through the loop takes, at most
  Control,     \* there is a control socket: commands come from clients
  Traffic,     \* descriptors become readable again and again
  Allow        \* which of the shutdown commands may come

ASSUME LoopAssumption ==
  /\ IsFiniteSet(Task)
  /\ Attempts \in Nat \ {0} /\ MaxWait \in Nat \ {0}
  /\ WaitBetween \in Nat /\ ProbeWindow \in Nat /\ WaitBetween <= ProbeWindow
  /\ Window \in Nat /\ MaxLag \in Nat
  /\ Control \in BOOLEAN /\ Traffic \in BOOLEAN
  /\ Allow \subseteq {"done", "cancel", "flush", "now"}

VARIABLES
  place,           \* where each task is
  probe_queue,     \* the probe queue, in order
  due,             \* the time until a waiting task's timeout
  left,            \* the probes a task has yet to send
  detached,        \* the tasks whose source is gone from the lists
  active,          \* a source is on the ring, or on the finished list
  exit_when_done,
  since,           \* the time since lastprobe
  lag,             \* the time since tv was read
  nap,             \* the time until poll returns by itself, or Never
  pc

tasks == <<place, probe_queue, due, left>>
clock == <<since, lag>>
sources == <<detached, active>>
vars  == <<place, probe_queue, due, left, detached, active, exit_when_done,
           since, lag, nap, pc>>

Never == -1

(* Beyond this, since is not told apart: the loop cuts it down to          *)
(* WaitBetween anyway.                                                     *)
Depth == ProbeWindow + MaxLag
Cap   == Depth + WaitBetween + 1

In(p) == {t \in Task : place[t] \in p}

Init ==
  /\ place = [t \in Task |-> IF Control THEN "new" ELSE "source"]
  /\ probe_queue = <<>>
  /\ due = [t \in Task |-> 0]
  /\ left = [t \in Task |-> Attempts]
  /\ detached = {}
  /\ active = ~Control
  /\ exit_when_done = ~Control
  /\ since = 0 /\ lag = 0
  /\ nap = Never
  /\ pc = "done"

Sooner(n, m) == IF n < m THEN n ELSE m
Less(n)      == IF n > 0 THEN n - 1 ELSE n

(* time passes, in poll or (a little) anywhere else                        *)
Tick ==
  /\ pc # "exit"
  /\ pc = "poll" \/ lag < MaxLag
  /\ since' = Sooner(since + 1, Cap)
  /\ lag' = IF pc = "poll" THEN lag ELSE lag + 1
  /\ due' = [t \in Task |-> Less(due[t])]
  /\ nap' = Less(nap)
  /\ UNCHANGED <<place, probe_queue, left, sources, exit_when_done, pc>>

-----------------------------------------------------------------------------
WindowCount == Cardinality(In({"probe", "wait"}))

(* a mutant: the last place of the window is not used                      *)
WindowRoomTight == Window = 0 \/ WindowCount + 1 < Window

WindowRoom == Window = 0 \/ WindowCount < Window

(* scamper_sources_isready: a source stays on the ring until gettask finds *)
(* that it has no command, and on the finished list until gettask runs.    *)
SourcesReady == active

(* scamper_sources_isempty: a source is listed while it has a command or a *)
(* task (a client is taken to say "done" at once; one that does not only   *)
(* keeps the loop going for longer).                                       *)
SourcesEmpty == In({"source", "probe", "wait", "done"}) \subseteq detached

(* scamper_process_done: a source that is freed of its last task goes from *)
(* the ring, if it is there.                                               *)
ProcessDone ==
  /\ pc = "done"
  /\ place' = [t \in Task |-> IF place[t] = "done" THEN "freed" ELSE place[t]]
  /\ pc' = "timeout"
  /\ UNCHANGED <<probe_queue, due, left, detached, exit_when_done, clock, nap>>
  /\ active' \in IF In({"source"}) # {} THEN {active}
                 ELSE IF SourcesEmpty' THEN {FALSE} ELSE {active, FALSE}

Expired == {t \in In({"wait"}) : due[t] = 0}

(* scamper_queue_readycount: the handler of an expired task leaves it to   *)
(* be probed again (the tasks R), or ends it.                              *)
ReadyCount ==
  \E R \in SUBSET {t \in Expired : left[t] > 0} : \E q \in SetToSeqs(R) :
    /\ probe_queue' = probe_queue \o q
    /\ place' = [t \in Task |-> IF t \in R THEN "probe"
                                ELSE IF t \in Expired THEN "done" ELSE place[t]]

(* the time until lastprobe + wait_between                                 *)
NextProbe == IF since < WaitBetween THEN WaitBetween - since ELSE 0

(* the times scamper_timeout considers, once readycount has run            *)
Until ==
  (IF probe_queue' # <<>> \/ (WindowRoom' /\ SourcesReady) THEN {NextProbe} ELSE {})
  \cup {due[t] : t \in In({"wait"})'}

(* a mutant: what waits is not looked at when there is something to probe  *)
TimeoutProbeOnly ==
  /\ pc = "timeout"
  /\ ReadyCount
  /\ UNCHANGED <<due, left, sources, exit_when_done, clock>>
  /\ IF Until = {} /\ exit_when_done /\ SourcesEmpty'
     THEN pc' = "exit" /\ nap' = Never
     ELSE /\ pc' = "poll"
          /\ nap' = CASE Until = {}                          -> Never
                      [] probe_queue' # <<>> \/ SourcesReady -> NextProbe
                      [] OTHER                                -> Min(Until)

(* a mutant: the sources are not asked whether they are empty              *)
TimeoutNoSources ==
  /\ pc = "timeout"
  /\ ReadyCount
  /\ UNCHANGED <<due, left, sources, exit_when_done, clock>>
  /\ IF Until = {} /\ exit_when_done
     THEN pc' = "exit" /\ nap' = Never
     ELSE pc' = "poll" /\ nap' = IF Until = {} THEN Never ELSE Min(Until)

(* scamper_timeout, and what main makes of it                              *)
Timeout ==
  /\ pc = "timeout"
  /\ ReadyCount
  /\ UNCHANGED <<due, left, sources, exit_when_done, clock>>
  /\ IF Until = {} /\ exit_when_done /\ SourcesEmpty'
     THEN pc' = "exit" /\ nap' = Never
     ELSE pc' = "poll" /\ nap' = IF Until = {} THEN Never ELSE Min(Until)

-----------------------------------------------------------------------------
(* scamper_fds_poll: it returns at its timeout, or after descriptors that  *)
(* are readable had their handlers called; main then reads the clock.      *)
PollTimeout ==
  /\ pc = "poll" /\ nap = 0
  /\ pc' = "ready" /\ lag' = 0 /\ nap' = Never
  /\ UNCHANGED <<tasks, sources, exit_when_done, since>>

PollEvent ==
  /\ pc = "poll"
  /\ pc' = "fds" /\ lag' = 0 /\ nap' = Never
  /\ UNCHANGED <<tasks, sources, exit_when_done, since>>

EndFds ==
  /\ pc = "fds"
  /\ pc' = "ready" /\ lag' = 0
  /\ UNCHANGED <<tasks, sources, exit_when_done, since, nap>>

(* a reply: the task is done, sends its next probe at once, or waits, here *)
(* for no longer than it would have.  A task that shutdown now took off    *)
(* its queue still has its handlers.                                       *)
Reply(t) ==
  /\ pc = "fds"
  /\ place[t] \in {"wait", "purged"}
  /\ \/ /\ place' = [place EXCEPT ![t] = "done"]
        /\ UNCHANGED probe_queue
        /\ UNCHANGED due
     \/ /\ left[t] > 0
        /\ place' = [place EXCEPT ![t] = "probe"]
        /\ probe_queue' = Append(probe_queue, t)
        /\ UNCHANGED due
     \/ /\ place' = [place EXCEPT ![t] = "wait"]
        /\ \E w \in 0 .. due[t] : due' = [due EXCEPT ![t] = w]
        /\ UNCHANGED probe_queue
  /\ UNCHANGED <<left, sources, exit_when_done, clock, nap, pc>>

(* a client submits a command                                              *)
Submit(t) ==
  /\ pc = "fds" /\ Control
  /\ place[t] = "new"
  /\ place' = [place EXCEPT ![t] = "source"]
  /\ active' = TRUE
  /\ UNCHANGED <<probe_queue, due, left, detached, exit_when_done, clock, nap, pc>>

(* a client attaches, or its source is found finished: gettask has a       *)
(* source to look at that has no command                                   *)
Attach ==
  /\ pc = "fds" /\ Control
  /\ active' = TRUE
  /\ UNCHANGED <<tasks, detached, exit_when_done, clock, nap, pc>>

(* command_shutdown_done, command_shutdown_cancel *)
ShutdownDone(on) ==
  /\ pc = "fds" /\ Control
  /\ (IF on THEN "done" ELSE "cancel") \in Allow
  /\ exit_when_done' = on
  /\ UNCHANGED <<tasks, sources, clock, nap, pc>>

Listed == In({"source", "probe", "wait", "done"})

(* command_shutdown_flush: scamper_sources_empty *)
ShutdownFlush ==
  /\ pc = "fds" /\ Control
  /\ "flush" \in Allow
  /\ place' = [t \in Task |-> IF place[t] = "source" THEN "freed" ELSE place[t]]
  /\ detached' = detached \cup Listed
  /\ active' = FALSE
  /\ exit_when_done' = TRUE
  /\ UNCHANGED <<probe_queue, due, left, clock, nap, pc>>

(* command_shutdown_now: scamper_queue_empty, then scamper_sources_empty   *)
ShutdownNow ==
  /\ pc = "fds" /\ Control
  /\ "now" \in Allow
  /\ place' = [t \in Task |-> CASE place[t] = "source"            -> "freed"
                                [] place[t] \in {"probe", "wait"} -> "purged"
                                [] OTHER                          -> place[t]]
  /\ probe_queue' = <<>>
  /\ detached' = detached \cup Listed
  /\ active' = FALSE
  /\ exit_when_done' = TRUE
  /\ UNCHANGED <<due, left, clock, nap, pc>>

-----------------------------------------------------------------------------
(* tv - lastprobe, when the loop looks at it                               *)
Elapsed == since - lag

(* a mutant: a long pause is made up for, however long                     *)
ReadyUncut ==
  /\ pc = "ready"
  /\ ReadyCount
  /\ pc' = IF probe_queue' # <<>> \/ SourcesReady THEN "probe" ELSE "done"
  /\ UNCHANGED <<due, left, sources, exit_when_done, clock, nap>>

(* readycount again; then, if there is something to probe, a pause longer  *)
(* than probe_window is cut down to one probe                              *)
Ready ==
  /\ pc = "ready"
  /\ ReadyCount
  /\ IF probe_queue' # <<>> \/ SourcesReady
     THEN /\ pc' = "probe"
          /\ since' = IF Elapsed > ProbeWindow THEN WaitBetween + lag ELSE since
     ELSE pc' = "done" /\ UNCHANGED since
  /\ UNCHANGED <<due, left, sources, exit_when_done, lag, nap>>

(* scamper_task_probe(t) and lastprobe = nextprobe: the task sends a probe *)
(* and waits for the reply, is done, or queues itself to be probed again;  *)
(* q is the probe queue without it.                                        *)
Sends(t, q) ==
  /\ left[t] > 0
  /\ left' = [left EXCEPT ![t] = @ - 1]
  /\ \/ /\ place' = [place EXCEPT ![t] = "wait"]
        /\ \E w \in 1 .. MaxWait : due' = [due EXCEPT ![t] = w]
        /\ probe_queue' = q
     \/ /\ place' = [place EXCEPT ![t] = "done"]
        /\ probe_queue' = q
        /\ UNCHANGED due
     \/ /\ left[t] > 1
        /\ place' = [place EXCEPT ![t] = "probe"]
        /\ probe_queue' = Append(q, t)
        /\ UNCHANGED due
  /\ since' = since - WaitBetween
  /\ UNCHANGED <<sources, exit_when_done, lag, nap, pc>>

(* a mutant: the next probe is sent before it is due *)
ProbingEager == pc = "probe"

Probing == pc = "probe" /\ Elapsed >= WaitBetween

(* scamper_queue_select *)
Select ==
  /\ Probing
  /\ probe_queue # <<>>
  /\ Sends(Head(probe_queue), Tail(probe_queue))

(* a mutant: the window is compared with > *)
StartOver(t) ==
  /\ Probing
  /\ probe_queue = <<>>
  /\ Window = 0 \/ WindowCount <= Window
  /\ place[t] = "source"
  /\ Sends(t, probe_queue)

(* scamper_sources_gettask: a task starts                                  *)
Start(t) ==
  /\ Probing
  /\ probe_queue = <<>>
  /\ WindowRoom
  /\ place[t] = "source"
  /\ Sends(t, probe_queue)

(* scamper_sources_gettask finds no command: no source is on the ring now  *)
NoTask ==
  /\ Probing
  /\ probe_queue = <<>>
  /\ WindowRoom
  /\ In({"source"}) = {}
  /\ active' = FALSE
  /\ pc' = "done"
  /\ UNCHANGED <<tasks, detached, exit_when_done, clock, nap>>

(* the next probe is not due, or the window is full                        *)
EndProbes ==
  /\ pc = "probe"
  /\ \/ Elapsed < WaitBetween
     \/ probe_queue = <<>> /\ ~WindowRoom
  /\ pc' = "done"
  /\ UNCHANGED <<tasks, sources, exit_when_done, clock, nap>>

-----------------------------------------------------------------------------
Command ==
  \/ Attach
  \/ \E t \in Task : Submit(t)
  \/ \E on \in BOOLEAN : ShutdownDone(on)
  \/ ShutdownFlush \/ ShutdownNow

MainStep ==
  \/ ProcessDone \/ Timeout \/ PollTimeout \/ EndFds
  \/ Ready \/ Select \/ NoTask \/ EndProbes
  \/ \E t \in Task : Start(t)

Next ==
  \/ Tick \/ MainStep \/ PollEvent \/ Command
  \/ \E t \in Task : Reply(t)

Spec == Init /\ [][Next]_vars

(* The loop runs and time passes.  Traffic says that poll is woken again   *)
(* and again: raw sockets receive the ICMP messages of the whole host.     *)
FairSpec ==
  /\ Spec
  /\ WF_vars(MainStep) /\ SF_vars(pc = "poll" /\ Tick)
  /\ Traffic => SF_vars(PollEvent)

-----------------------------------------------------------------------------
Places == {"new", "source", "probe", "wait", "done", "freed", "purged"}

(* The state is well typed.                                                *)
TypeInv ==
  /\ place \in [Task -> Places]
  /\ probe_queue \in Seq(Task)
  /\ due \in [Task -> 0 .. MaxWait]
  /\ left \in [Task -> 0 .. Attempts]
  /\ detached \subseteq Task /\ active \in BOOLEAN /\ exit_when_done \in BOOLEAN
  /\ since \in 0 .. Cap /\ lag \in 0 .. MaxLag
  /\ nap \in Nat \cup {Never}
  /\ pc \in {"done", "timeout", "poll", "fds", "ready", "probe", "exit"}

(* No more tasks are probed in parallel than the window allows, whatever   *)
(* expires, is answered or starts in the same pass.  A task whose source   *)
(* is gone does not count: a reply can bring one back that shutdown now    *)
(* took off its queue, when others fill the window.                        *)
WindowKept == Window # 0 => Cardinality(In({"probe", "wait"}) \ detached) <= Window

(* While it sleeps, the loop will wake for the first thing it can do by    *)
(* itself: the next timeout, and the next probe if there is one to send.   *)
WakesInTime ==
  pc = "poll" =>
    /\ \A t \in In({"wait"}) : nap # Never /\ nap <= due[t]
    /\ probe_queue # <<>> \/ (WindowRoom /\ SourcesReady) =>
         nap # Never /\ nap <= NextProbe

(* Scamper ends by itself only when nothing is probed or waits, and every  *)
(* task of a source that it still lists has been written and freed:        *)
(* shutdown done loses no result, and cancel takes it back.                *)
ExitsClean ==
  pc = "exit" => /\ In({"probe", "wait"}) = {}
                 /\ In({"source", "done"}) \subseteq detached

(* Whatever a client submits is written and freed, or purged by shutdown   *)
(* now, in the end: neither the window, nor tasks that are answered and    *)
(* probed again and again, nor a pause keeps a task for ever.  Only after  *)
(* shutdown flush or now may scamper end with a task unwritten.            *)
AllWritten ==
  \A t \in Task :
    place[t] = "source" ~>
      (place[t] \in {"freed", "purged"} \/ (pc = "exit" /\ t \in detached))

(* The probes are paced as ProbeBucket says.                               *)
Bucket == INSTANCE ProbeBucket
  WITH Wait <- WaitBetween, Depth <- Depth, level <- Sooner(since, Depth)
Paced == Bucket!Spec

-----------------------------------------------------------------------------
(* scamper.c (line 243): "exit scamper when current window of tasks is     *)
(* completed".                                                             *)
Exits == <>(pc = "exit")

=============================================================================
