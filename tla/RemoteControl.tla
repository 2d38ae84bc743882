--------------------------- MODULE RemoteControl ---------------------------
(***************************************************************************)
(* Channels over the link of RemoteLink.  The controller listens on a unix *)
(* socket for each master and gives every local process that connects a    *)
(* channel (sc_onechan_t); scamper runs each channel as a client with a    *)
(* control source (client_t of CLIENT_TYPE_CHANNEL).                       *)
(*                                                                         *)
(* A process writes lines: "cmd" is a measurement, "done" says that no     *)
(* more will come.  A client answers with a result for every measurement   *)
(* and, when its source has finished, a cycle stop, after which it is      *)
(* freed and the channel closed.  The short answers to lines are left out, *)
(* and an object is one message.                                           *)
(*                                                                         *)
(* Every action is one of the link with what the ends do about it.         *)
(***************************************************************************)
EXTENDS RemoteLink, FiniteSets

CONSTANTS
  Chan,       \* 1..n: channels of a master; n bounds the processes
  MaxLines,   \* bound: lines of a process
  MaxUsers    \* bound: processes that connect, over all sessions

ASSUME ControlAssumption ==
  /\ Chan # {} /\ IsFiniteSet(Chan) /\ Chan = 1 .. Cardinality(Chan)
  /\ MaxLines \in Nat /\ MaxUsers \in Nat
  /\ Body = [k : {"new", "fin"}, ch : Chan, v : {""}]
              \cup [k : {"data"}, ch : Chan, v : {"cmd", "done", "res", "stop"}]

VARIABLES
  chans,      \* the channels of each master, and their processes
  clients,    \* the clients of rm->list
  users       \* how many processes connected

control == <<chans, clients, users>>
vars == <<link, control>>

New(ch)     == [k |-> "new", ch |-> ch, v |-> ""]
Fin(ch)     == [k |-> "fin", ch |-> ch, v |-> ""]
Data(ch, v) == [k |-> "data", ch |-> ch, v |-> v]

(* sc_channel_t and sc_onechan_t: fd is unix_fd # NULL, reads whether it   *)
(* is polled for input, rx and tx the EOF flags, wb what is not written    *)
(* yet.  lines is how many the process wrote, got what it read.            *)
NoChannel == [st |-> "none", fd |-> FALSE, reads |-> FALSE, rx |-> FALSE,
              tx |-> FALSE, wb |-> <<>>, user |-> "none", lines |-> 0, got |-> <<>>]

OpenChannel == [NoChannel EXCEPT !.st = "open", !.fd = TRUE, !.reads = TRUE,
                                 !.user = "open"]

(* sc_onechan_free; the process sees the end of its input *)
Freed(cn) == [cn EXCEPT !.st = "freed", !.fd = FALSE, !.reads = FALSE, !.wb = <<>>]

(* a mutant: the channel counts as polled                                  *)
FdFreedPolled(cn) == [cn EXCEPT !.fd = FALSE, !.wb = <<>>]

(* unix_fd and unix_wb are freed, the channel stays for scamper's FIN *)
FdFreed(cn) == [cn EXCEPT !.fd = FALSE, !.reads = FALSE, !.wb = <<>>]

(* client_t: fin is what finished its source, tasks the commands without a *)
(* result, out the objects to send, cmds the commands it took.             *)
NoClient == [st |-> "none", fin |-> "no", tasks |-> 0, out |-> <<>>, cmds |-> 0]

(* remote_read_control_channel_new *)
NewClient == [NoClient EXCEPT !.st = "attached"]

Live(cl) == cl.st \in {"attached", "flush"}

(* scamper_source_finished ends the cycle: client_data_send queues the     *)
(* cycle stop and changes the mode                                         *)
StopIfFinished(cl) ==
  IF cl.fin # "no" /\ cl.tasks = 0 /\ cl.st = "attached"
  THEN [cl EXCEPT !.st = "flush", !.out = Append(@, "stop")]
  ELSE cl

(* scamper_source_control_finish *)
Finish(cl, why) ==
  IF cl.fin # "no" THEN cl ELSE StopIfFinished([cl EXCEPT !.fin = why])

(* client_attached_cb; in mode flush a line is ignored *)
Line(cl, v) ==
  IF cl.st # "attached" THEN cl
  ELSE IF v = "done" THEN Finish(cl, "done")
  ELSE [cl EXCEPT !.tasks = @ + 1, !.cmds = @ + 1]

(* what a message makes of the client of its channel *)
Gets(cl, b) ==
  IF b.k = "new" THEN NewClient
  ELSE IF ~Live(cl) THEN cl
  ELSE IF b.k = "fin" THEN Finish(cl, "fin")
  ELSE Line(cl, b.v)

ControlInit ==
  /\ Init
  /\ chans = [m \in Magic |-> [ch \in Chan |-> NoChannel]]
  /\ clients = [ch \in Chan |-> NoClient]
  /\ users = 0

-----------------------------------------------------------------------------
(* what a master that is freed, and a session that is given up, take along *)
Swept(cs) == [m \in Magic |-> IF m \in alive' THEN cs[m] ELSE [ch \in Chan |-> NoChannel]]

KeptClients(cl) == IF sc'.resume THEN cl ELSE [ch \in Chan |-> NoClient]

Quiet(A) ==
  /\ A
  /\ chans' = Swept(chans)
  /\ clients' = KeptClients(clients)
  /\ UNCHANGED users

-----------------------------------------------------------------------------
(* scamper *)

(* remote_read_control and remote_read_payload with a message: a channel   *)
(* that is not there fails the connection                                  *)
ScMessage ==
  /\ ScHas /\ sc.mode = "go" /\ ScHead.type = "MSG"
  /\ LET b == ScHead.body
     IN  /\ ScReadMsg(b.k # "new" /\ ~Live(clients[b.ch]))
         /\ clients' = [clients EXCEPT ![b.ch] = Gets(@, b)]
  /\ UNCHANGED <<chans, users>>

(* the result of a measurement is written, and the source may finish *)
TaskEnds(ch) ==
  LET cl == clients[ch]
  IN  /\ Live(cl) /\ cl.tasks > 0
      /\ clients' = [clients EXCEPT ![ch] =
           StopIfFinished([cl EXCEPT !.tasks = @ - 1, !.out = Append(@, "res")])]
      /\ UNCHANGED <<link, chans, users>>

(* remote_write, for one of the channels of its pass: client_write_do *)
ClientWrite(ch) ==
  /\ Live(clients[ch]) /\ clients[ch].out # <<>>
  /\ ScSend(Data(ch, Head(clients[ch].out)))
  /\ clients' = [clients EXCEPT ![ch].out = Tail(@)]
  /\ UNCHANGED <<chans, users>>

(* a mutant: does not wait for the objects                                 *)
IsDoneEarly(cl) == cl.st = "flush"

(* client_isdone, in mode flush *)
IsDone(cl) == cl.st = "flush" /\ cl.out = <<>>

(* remote_write: the client is freed and the channel closed *)
ClientClose(ch) ==
  /\ IsDone(clients[ch])
  /\ ScSend(Fin(ch))
  /\ clients' = [clients EXCEPT ![ch].st = "closed", ![ch].out = <<>>]
  /\ UNCHANGED <<chans, users>>

-----------------------------------------------------------------------------
(* the controller *)

SetChannel(m, ch, cn) == chans' = [chans EXCEPT ![m][ch] = cn]

(* sc_master_unix_accept_do; a zombie does not listen *)
Accept(m, ch) ==
  /\ m \in alive /\ at[m] # NoConn
  /\ chans[m][ch].st = "none" /\ \A d \in Chan : d < ch => chans[m][d].st # "none"
  /\ RtSend(m, New(ch))
  /\ SetChannel(m, ch, OpenChannel)
  /\ users < MaxUsers /\ users' = users + 1
  /\ UNCHANGED clients

(* the process writes a line and sc_onechan_unix_read_do passes it on *)
UserLine(m, ch, v) ==
  LET cn == chans[m][ch]
  IN  /\ cn.fd /\ cn.reads /\ cn.user = "open" /\ cn.lines < MaxLines
      /\ RtSend(m, Data(ch, v))
      /\ SetChannel(m, ch, [cn EXCEPT !.lines = @ + 1])
      /\ UNCHANGED <<clients, users>>

(* the process shuts down its side of the socket, or closes it *)
UserEnds(m, ch, how) ==
  LET cn == chans[m][ch]
  IN  /\ cn.st = "open" /\ cn.user # "gone" /\ cn.user # how
      /\ SetChannel(m, ch, [cn EXCEPT !.user = how])
      /\ UNCHANGED <<link, clients, users>>

(* a mutant: the descriptor is polled on, and the next end of file is sent *)
(* once more                                                               *)
EofTwice(cn, err) ==
  IF cn.rx THEN Freed(cn) ELSE IF err THEN FdFreed(cn) ELSE cn

(* what sc_onechan_unix_read_do leaves of the channel                      *)
Eof(cn, err) ==
  IF cn.rx THEN Freed(cn)
  ELSE IF err THEN [FdFreed(cn) EXCEPT !.tx = TRUE]
  ELSE [cn EXCEPT !.reads = FALSE, !.tx = TRUE]

(* sc_onechan_unix_read_do at the end of the input, or on an error *)
UserEof(m, ch, err) ==
  LET cn == chans[m][ch]
  IN  /\ cn.fd /\ cn.reads /\ cn.user # "open" /\ (err => cn.user = "gone")
      /\ IF cn.rx \/ cn.tx THEN UNCHANGED link ELSE RtSend(m, Fin(ch))
      /\ SetChannel(m, ch, Eof(cn, err))
      /\ UNCHANGED <<clients, users>>

(* sc_onechan_unix_write_do *)
UserWrite(m, ch) ==
  LET cn  == chans[m][ch]
      cn2 == IF cn.user = "gone" THEN FdFreed(cn)
                                 ELSE [cn EXCEPT !.got = @ \o cn.wb, !.wb = <<>>]
  IN  /\ cn.fd /\ cn.wb # <<>>
      /\ SetChannel(m, ch, IF cn.rx THEN Freed(cn2) ELSE cn2)
      /\ UNCHANGED <<link, clients, users>>


(* sc_master_control_channel_fin and onechan_fin *)
Finished(cn) ==
  IF cn.wb = <<>> THEN Freed([cn EXCEPT !.rx = TRUE])
                  ELSE [cn EXCEPT !.rx = TRUE, !.reads = FALSE]

(* sc_master_inet_read_cb with a message; a channel that is not there is   *)
(* passed over                                                             *)
RtMessage(m, c) ==
  /\ RtReadMsg(m, c)
  /\ LET b  == Head(up[c]).body
         cn == chans[m][b.ch]
     IN  SetChannel(m, b.ch,
           IF cn.st = "open" /\ b.k = "fin" THEN Finished(cn)
           ELSE IF cn.fd THEN [cn EXCEPT !.wb = Append(@, b.v)]
           ELSE cn)
  /\ UNCHANGED <<clients, users>>

-----------------------------------------------------------------------------
Controller ==
  \E m \in Magic :
    \/ \E c \in Conn : RtMessage(m, c)
    \/ \E ch \in Chan :
         \/ Accept(m, ch) \/ UserWrite(m, ch)
         \/ \E v \in {"cmd", "done"} : UserLine(m, ch, v)
         \/ \E how \in {"half", "gone"} : UserEnds(m, ch, how)
         \/ \E err \in BOOLEAN : UserEof(m, ch, err)

Scamper ==
  \/ ScMessage
  \/ \E ch \in Chan : TaskEnds(ch) \/ ClientWrite(ch) \/ ClientClose(ch)

Next == Quiet(LinkQuiet) \/ Controller \/ Scamper

(* Both event loops run every handler whose descriptor is ready or whose   *)
(* time has come.  Nothing makes a process write or leave, or a connection *)
(* fail.                                                                   *)
RemoteRead  == ScMessage \/ Quiet(ScRead) \/ Quiet(ScLose(TRUE))
InetRead(c) ==
  \/ Quiet(RtReadHandshake(c)) \/ Quiet(RtLose(c, TRUE))
  \/ \E m \in Magic : Quiet(RtRead(m, c)) \/ RtMessage(m, c)
UnixFd(ch) == \E m \in Magic : UserWrite(m, ch) \/ \E err \in BOOLEAN : UserEof(m, ch, err)

Fairness ==
  /\ WF_vars(Quiet(\E c \in Conn : Connect(c)))
  /\ WF_vars(RemoteRead)
  /\ \A c \in Conn : WF_vars(InetRead(c))
  /\ \A ch \in Chan :
       /\ WF_vars(TaskEnds(ch))
       /\ WF_vars(ClientWrite(ch) \/ ClientClose(ch))
       /\ WF_vars(UnixFd(ch))
  /\ WF_vars(\E m \in Magic : Quiet(Expire(m)))

Spec == ControlInit /\ [][Next]_vars /\ Fairness

-----------------------------------------------------------------------------
(* The type of the state. *)
TypeOK ==
  /\ LinkTypeOK
  /\ \A m \in Magic, ch \in Chan :
       LET cn == chans[m][ch]
       IN  /\ cn.st \in {"none", "open", "freed"}
           /\ cn.user \in {"none", "open", "half", "gone"}
           /\ cn.fd => cn.st = "open"
           /\ cn.reads => cn.fd
  /\ \A ch \in Chan :
       /\ clients[ch].st \in {"none", "attached", "flush", "closed"}
       /\ clients[ch].fin \in {"no", "done", "fin"}

Results(s) == Cardinality({i \in DOMAIN s : s[i] = "res"})

(* A process that stayed has every result of the commands scamper took,    *)
(* then the cycle stop, before the controller takes the channel's FIN      *)
(* (remote_write sends it when client_isdone), over any number of          *)
(* connections.                                                            *)
ResultsBeforeEnd ==
  \A m \in alive, ch \in Chan :
    LET cn == chans[m][ch]
        s  == cn.got \o cn.wb
    IN  m = sc.magic /\ cn.rx /\ cn.user \in {"open", "half"} =>
          /\ Results(s) = clients[ch].cmds /\ Len(s) = Results(s) + 1
          /\ s[Len(s)] = "stop"

(* scamper finds no channel for a message, and gives the connection up     *)
(* (scamper_control.c:2440, :2679), only when the process said "done" and  *)
(* the message crossed the FIN scamper then sent: never for a channel it   *)
(* was not told of, nor for one it closed because the controller did.      *)
RefusesOnlyAfterDone ==
  ScHas /\ sc.mode = "go" /\ ScHead.type = "MSG" /\ ScHead.body.k # "new" =>
    LET cl == clients[ScHead.body.ch]
    IN  Live(cl) \/ (cl.st = "closed" /\ cl.fin = "done")

(* Whatever was lost, the ends find each other: in the end both are in     *)
(* mode go on one connection, all messages have arrived and are            *)
(* acknowledged.  What scamper does not get over is a peer that falls      *)
(* silent between the greeting and its answer.                             *)
Settles ==
  <>[](\/ Hung
       \/ /\ sc.mode = "go" /\ sc.magic \in alive /\ at[sc.magic] = sc.conn
          /\ scEnd.una = Len(scEnd.log) /\ scEnd.rcv = Len(rtEnd[sc.magic].log)
          /\ rtEnd[sc.magic].una = scEnd.rcv /\ rtEnd[sc.magic].rcv = scEnd.una)


=============================================================================
