----------------------------- MODULE RemoteLink -----------------------------
(***************************************************************************)
(* The link between scamper (scamper/scamper_control.c, control_remote_t)  *)
(* and the controller (utils/sc_remoted/sc_remoted.c, sc_master_t): frames *)
(* with sequence numbers over a TCP connection that breaks, resumed on the *)
(* next connection.                                                        *)
(*                                                                         *)
(* A connection carries frames in order and loses what is in flight when   *)
(* it breaks.  Each end notices at its own time, and scamper may connect   *)
(* again while the controller still holds the old connection and reads     *)
(* what it left there.  Both read one frame at a time; the rest of a read  *)
(* buffer is what is still in flight.                                      *)
(*                                                                         *)
(* Both ends number the messages they want acknowledged and keep them;     *)
(* `log' holds all of a session, of which `una' on are the list messages.  *)
(* What a message says is left to RemoteControl.                           *)
(***************************************************************************)
EXTENDS Integers, Sequences

CONSTANTS
  Conn, NoConn,  \* names of TCP connections
  Magic,         \* the random value scamper names itself with
  Body,          \* what messages say
  MaxLog,        \* bound: messages of one end in a session
  MaxWire,       \* bound: frames in flight when an end sends one more
  MaxBreaks      \* bound: connections that fail, restarts of the controller

ASSUME LinkAssumption ==
  /\ Conn \subseteq Nat /\ NoConn \in Nat \ Conn
  /\ Magic # {}
  /\ MaxLog \in Nat /\ MaxWire \in Nat /\ MaxBreaks \in Nat

VARIABLES
  sc,          \* control_remote_t: [conn, mode, resume, magic], and whether
               \* its connection has gone silent
  scEnd,       \* its end of the session
  alive,       \* the magics of mstree
  at,          \* inet_fd of each master; NoConn in a zombie
  rtEnd,       \* its end of the session
  ropen,       \* connections the controller holds
  up, down,    \* frames in flight to the controller, to scamper
  breaks

link == <<sc, scEnd, alive, at, rtEnd, ropen, up, down, breaks>>

-----------------------------------------------------------------------------
(* one end of a session: the messages it sent (snd_nxt is how many), the   *)
(* first of them that is unacknowledged, the next it expects, and, as      *)
(* history, what it took.                                                  *)
NewEnd == [log |-> <<>>, una |-> 0, rcv |-> 0, got |-> <<>>]

Sent(e, b)  == [e EXCEPT !.log = Append(@, b)]
Taken(e, b) == [e EXCEPT !.rcv = @ + 1, !.got = Append(@, b)]
Acked(e)    == [e EXCEPT !.una = @ + 1]

(* an acknowledgement is for the oldest message of the list                *)
AckFits(e, n) == e.una < Len(e.log) /\ n = e.una

(* a mutant: drops the message the other end asks for next                 *)
TrimOver(e, n) ==
  [e EXCEPT !.una = IF n < @ THEN @ ELSE IF n >= Len(e.log) THEN Len(e.log) ELSE n + 1]

(* the frame is one that an end in mode go expects next                    *)
Fits(e, f) ==
  /\ f.type \in {"MSG", "ACK", "KEEPALIVE"} /\ f.seq = e.rcv
  /\ f.type = "ACK" => AckFits(e, f.ack)

(* drop the messages before n, which the other end has                     *)
Trim(e, n) ==
  [e EXCEPT !.una = IF n < @ THEN @ ELSE IF n > Len(e.log) THEN Len(e.log) ELSE n]

(* a mutant: numbered with the oldest message that is not acknowledged     *)
AckStale(e, q) == [type |-> "ACK", seq |-> e.una, ack |-> q]

Msg(q, b)    == [type |-> "MSG", seq |-> q, body |-> b]
Ack(e, q)    == [type |-> "ACK", seq |-> Len(e.log), ack |-> q]
Keepalive(e) == [type |-> "KEEPALIVE", seq |-> Len(e.log)]

MasterNew(m)    == [type |-> "MASTER_NEW", seq |-> 0, magic |-> m]
MasterRes(m, e) == [type |-> "MASTER_RES", seq |-> 0, magic |-> m, rcv_nxt |-> e.rcv,
                    snd_una |-> e.una, snd_nxt |-> Len(e.log)]
MasterId        == [type |-> "MASTER_ID", seq |-> 0]
MasterOk(e)     == [type |-> "MASTER_OK", seq |-> 0, rcv_nxt |-> e.rcv]
MasterRej       == [type |-> "MASTER_REJ", seq |-> 0]

(* the messages not acknowledged, sent again with their numbers            *)
Unacked(e) ==
  [i \in 1 .. Len(e.log) - e.una |-> Msg(e.una + i - 1, e.log[e.una + i])]

(* a mutant: the window scamper offers is open on the right                *)
ResumeFitsOpen(e, f) ==
  /\ f.rcv_nxt >= e.una /\ f.rcv_nxt <= Len(e.log)
  /\ f.snd_una <= e.rcv /\ e.rcv < f.snd_nxt

(* what scamper expects next is unacknowledged or not sent yet, and what   *)
(* the controller expects next is in the window scamper offers             *)
ResumeFits(e, f) ==
  /\ f.rcv_nxt >= e.una /\ f.rcv_nxt <= Len(e.log)
  /\ f.snd_una <= e.rcv /\ e.rcv <= f.snd_nxt

-----------------------------------------------------------------------------
Init ==
  /\ sc = [conn |-> NoConn, mode |-> "connect", resume |-> FALSE,
           magic |-> CHOOSE m \in Magic : TRUE, silent |-> FALSE]
  /\ scEnd = NewEnd
  /\ alive = {} /\ at = [m \in Magic |-> NoConn] /\ rtEnd = [m \in Magic |-> NewEnd]
  /\ ropen = {}
  /\ up = [c \in Conn |-> <<>>] /\ down = [c \in Conn |-> <<>>]
  /\ breaks = 0

master  == <<alive, at, rtEnd>>
scamper == <<sc, scEnd>>

(* what goes to an end that is closed is lost                              *)
PutUp(c, q)   == up'   = IF c \in ropen THEN [up EXCEPT ![c] = @ \o q] ELSE up
PutDown(c, q) == down' = IF c = sc.conn /\ c # NoConn THEN [down EXCEPT ![c] = @ \o q] ELSE down

(* A connection the other end closed is read to its end first (free);      *)
(* otherwise something failed, and what was in flight is lost.             *)
Breaks(free) ==
  IF free THEN UNCHANGED breaks ELSE breaks < MaxBreaks /\ breaks' = breaks + 1

-----------------------------------------------------------------------------
(* scamper                                                                 *)

(* remote_connect, when the time remote_retry set has come; the name of    *)
(* the connection is the first that is free.                               *)
Connect(c) ==
  /\ sc.conn = NoConn /\ c \notin ropen
  /\ \A d \in Conn \ ropen : c <= d
  /\ sc' = [sc EXCEPT !.conn = c]
  /\ ropen' = ropen \cup {c}
  /\ up' = [up EXCEPT ![c] = <<IF sc.resume THEN MasterRes(sc.magic, scEnd)
                                            ELSE MasterNew(sc.magic)>>]
  /\ UNCHANGED <<scEnd, master, down, breaks>>

(* a mutant: remote_free leaves the numbers of the session                 *)
ForgetNot(e) == [e EXCEPT !.una = Len(e.log)]

(* remote_free, REMOTE_FREE_RECONN *)
Forgotten(e) == NewEnd

(* remote_retry, with the session as e leaves it                           *)
Retry(e) ==
  /\ sc' = [sc EXCEPT !.conn = NoConn, !.mode = "connect", !.silent = FALSE]
  /\ scEnd' = IF sc.resume THEN e ELSE Forgotten(e)
  /\ down' = [down EXCEPT ![sc.conn] = <<>>]
  /\ UNCHANGED <<up, ropen, master>>

(* Nothing will arrive from a peer that went silent.  remote_rx_abort ends *)
(* the wait after 60 seconds, but only in REMOTE_MODE_GO: remote_write     *)
(* queues the next event when it has written something, and in             *)
(* REMOTE_MODE_CONNECT the one event that was queued, remote_tx_ka, writes *)
(* nothing.                                                                *)
Hung == sc.mode = "connect" /\ sc.silent

(* a mutant: nothing queues remote_rx_abort after remote_tx_ka             *)
ScLoseSilentNot(free) ==
  /\ sc.conn # NoConn /\ ~sc.silent
  /\ free <=> sc.conn \notin ropen /\ down[sc.conn] = <<>>
  /\ Breaks(free)
  /\ Retry(scEnd)

(* the connection is closed or reset, or remote_rx_abort gives it up       *)
ScLose(free) ==
  /\ sc.conn # NoConn /\ ~Hung
  /\ free <=> sc.conn \notin ropen /\ down[sc.conn] = <<>>
  /\ Breaks(free)
  /\ Retry(scEnd)

(* a magic unlike any the controller has seen; the numbers start over      *)
NewMagic ==
  \E m \in Magic \ (alive \cup {sc.magic}) :
    /\ \A c \in ropen : \A i \in DOMAIN up[c] :
         up[c][i].type \in {"MASTER_NEW", "MASTER_RES"} => up[c][i].magic # m
    /\ sc' = [conn |-> NoConn, mode |-> "connect", resume |-> FALSE, magic |-> m,
              silent |-> FALSE]
    /\ scEnd' = Forgotten(scEnd)
    /\ rtEnd' = [rtEnd EXCEPT ![m] = NewEnd]
    /\ down' = [down EXCEPT ![sc.conn] = <<>>]
    /\ UNCHANGED <<up, ropen, alive, at>>

(* remote_read_control in REMOTE_MODE_CONNECT *)
ScHandshake(f) ==
  \/ /\ f.type = "MASTER_ID"
     /\ sc' = [sc EXCEPT !.resume = TRUE, !.mode = "go"]
     /\ down' = [down EXCEPT ![sc.conn] = Tail(@)]
     /\ UNCHANGED <<scEnd, up, ropen, master>>
  \/ /\ f.type = "MASTER_OK"
     /\ sc' = [sc EXCEPT !.mode = "go"]
     /\ scEnd' = Trim(scEnd, f.rcv_nxt)
     /\ PutUp(sc.conn, Unacked(Trim(scEnd, f.rcv_nxt)))
     /\ down' = [down EXCEPT ![sc.conn] = Tail(@)]
     /\ UNCHANGED <<ropen, master>>
  \/ f.type = "MASTER_REJ" /\ NewMagic
  \/ f.type \notin {"MASTER_ID", "MASTER_OK", "MASTER_REJ"} /\ Retry(scEnd)

(* a message is acknowledged and counted, and then handed on; if whoever   *)
(* gets it refuses it, the connection is given up                          *)
ScTake(f, refuse) ==
  IF refuse THEN Retry(Taken(scEnd, f.body))
  ELSE /\ scEnd' = Taken(scEnd, f.body)
       /\ PutUp(sc.conn, <<Ack(scEnd, f.seq)>>)
       /\ down' = [down EXCEPT ![sc.conn] = Tail(@)]
       /\ UNCHANGED <<sc, ropen, master>>

(* remote_read_payload and remote_read_control in REMOTE_MODE_GO *)
ScFrame(f) ==
  \/ /\ f.seq = scEnd.rcv /\ f.type = "KEEPALIVE"
     /\ down' = [down EXCEPT ![sc.conn] = Tail(@)]
     /\ UNCHANGED <<scamper, up, ropen, master>>
  \/ /\ f.seq = scEnd.rcv /\ f.type = "ACK" /\ AckFits(scEnd, f.ack)
     /\ scEnd' = Acked(scEnd)
     /\ down' = [down EXCEPT ![sc.conn] = Tail(@)]
     /\ UNCHANGED <<sc, up, ropen, master>>
  \/ /\ \/ f.seq # scEnd.rcv
        \/ f.type \notin {"MSG", "KEEPALIVE", "ACK"}
        \/ f.type = "ACK" /\ ~AckFits(scEnd, f.ack)
     /\ Retry(scEnd)

ScMsg(f, refuse) == f.seq = scEnd.rcv /\ f.type = "MSG" /\ ScTake(f, refuse)

ScHas == sc.conn # NoConn /\ down[sc.conn] # <<>>
ScHead == Head(down[sc.conn])

ScRead ==
  /\ ScHas
  /\ IF sc.mode = "connect" THEN ScHandshake(ScHead) ELSE ScFrame(ScHead)
  /\ UNCHANGED breaks

ScReadMsg(refuse) ==
  /\ ScHas /\ sc.mode = "go"
  /\ ScMsg(ScHead, refuse)
  /\ UNCHANGED breaks

(* remote_sock_send with ack; remote_write calls it in REMOTE_MODE_GO only *)
ScSend(b) ==
  /\ sc.mode = "go" /\ Len(scEnd.log) < MaxLog /\ Len(up[sc.conn]) < MaxWire
  /\ scEnd' = Sent(scEnd, b)
  /\ PutUp(sc.conn, <<Msg(Len(scEnd.log), b)>>)
  /\ UNCHANGED <<sc, ropen, down, master, breaks>>

(* remote_tx_ka: nothing was sent for 30 seconds *)
ScKeepalive ==
  /\ sc.mode = "go" /\ up[sc.conn] = <<>> /\ down[sc.conn] = <<>>
  /\ PutUp(sc.conn, <<Keepalive(scEnd)>>)
  /\ UNCHANGED <<scamper, ropen, down, master, breaks>>

-----------------------------------------------------------------------------
(* the controller                                                          *)

Fresh(c) == \A m \in alive : at[m] # c

CloseConns(C) ==
  /\ ropen' = ropen \ C
  /\ up' = [c \in Conn |-> IF c \in C THEN <<>> ELSE up[c]]

(* sc_master_control_master: a magic that is in the tree is refused        *)
RtMasterNew(c, f) ==
  IF f.magic \in alive
  THEN CloseConns({c}) /\ UNCHANGED <<master, down>>
  ELSE /\ alive' = alive \cup {f.magic}
       /\ at' = [at EXCEPT ![f.magic] = c]
       /\ rtEnd' = [rtEnd EXCEPT ![f.magic] = NewEnd]
       /\ up' = [up EXCEPT ![c] = Tail(@)]
       /\ PutDown(c, <<MasterId>>)
       /\ UNCHANGED ropen

(* sc_master_control_resume: the master changes over to this connection,   *)
(* drops what scamper has and sends the rest again                         *)
RtMasterRes(c, f) ==
  IF f.magic \notin alive \/ ~ResumeFits(rtEnd[f.magic], f)
  THEN /\ PutDown(c, <<MasterRej>>)
       /\ CloseConns({c})
       /\ UNCHANGED master
  ELSE LET m == f.magic
           e == Trim(rtEnd[m], f.rcv_nxt)
       IN  /\ rtEnd' = [rtEnd EXCEPT ![m] = e]
           /\ at' = [at EXCEPT ![m] = c]
           /\ ropen' = ropen \ {at[m]}
           /\ up' = [d \in Conn |-> IF d = at[m] THEN <<>>
                                    ELSE IF d = c THEN Tail(up[d]) ELSE up[d]]
           /\ PutDown(c, <<MasterOk(e)>> \o Unacked(e))
           /\ UNCHANGED alive

RtHandshake(c, f) ==
  \/ f.type = "MASTER_NEW" /\ RtMasterNew(c, f)
  \/ f.type = "MASTER_RES" /\ RtMasterRes(c, f)
  \/ /\ f.type \notin {"MASTER_NEW", "MASTER_RES"}
     /\ CloseConns({c}) /\ UNCHANGED <<master, down>>

(* sc_master_inet_read_cb and sc_master_control in MASTER_MODE_GO; an      *)
(* error frees the master                                                  *)
RtFrame(m, c, f) ==
  \/ /\ f.seq = rtEnd[m].rcv /\ f.type = "KEEPALIVE"
     /\ up' = [up EXCEPT ![c] = Tail(@)]
     /\ UNCHANGED <<ropen, down, master>>
  \/ /\ f.seq = rtEnd[m].rcv /\ f.type = "ACK" /\ AckFits(rtEnd[m], f.ack)
     /\ rtEnd' = [rtEnd EXCEPT ![m] = Acked(@)]
     /\ up' = [up EXCEPT ![c] = Tail(@)]
     /\ UNCHANGED <<ropen, down, alive, at>>
  \/ /\ \/ f.seq # rtEnd[m].rcv
        \/ f.type \notin {"MSG", "KEEPALIVE", "ACK"}
        \/ f.type = "ACK" /\ ~AckFits(rtEnd[m], f.ack)
     /\ alive' = alive \ {m} /\ at' = [at EXCEPT ![m] = NoConn]
     /\ CloseConns({c})
     /\ UNCHANGED <<rtEnd, down>>

RtHas(c) == c \in ropen /\ up[c] # <<>>

RtReadHandshake(c) ==
  /\ RtHas(c) /\ Fresh(c)
  /\ RtHandshake(c, Head(up[c]))
  /\ UNCHANGED <<scamper, breaks>>

RtRead(m, c) ==
  /\ RtHas(c) /\ m \in alive /\ at[m] = c
  /\ RtFrame(m, c, Head(up[c]))
  /\ UNCHANGED <<scamper, breaks>>

RtReadMsg(m, c) ==
  /\ RtHas(c) /\ m \in alive /\ at[m] = c
  /\ LET f == Head(up[c])
     IN  /\ f.seq = rtEnd[m].rcv /\ f.type = "MSG"
         /\ rtEnd' = [rtEnd EXCEPT ![m] = Taken(@, f.body)]
         /\ PutDown(c, <<Ack(rtEnd[m], f.seq)>>)
  /\ up' = [up EXCEPT ![c] = Tail(@)]
  /\ UNCHANGED <<scamper, ropen, alive, at, breaks>>

(* sc_master_inet_send with ack; a zombie only keeps the message           *)
RtSend(m, b) ==
  /\ m \in alive /\ Len(rtEnd[m].log) < MaxLog
  /\ at[m] # NoConn => Len(down[at[m]]) < MaxWire
  /\ rtEnd' = [rtEnd EXCEPT ![m] = Sent(@, b)]
  /\ PutDown(at[m], <<Msg(Len(rtEnd[m].log), b)>>)
  /\ UNCHANGED <<scamper, up, ropen, alive, at, breaks>>

RtKeepalive(m) ==
  /\ m \in alive /\ at[m] # NoConn /\ at[m] = sc.conn
  /\ up[at[m]] = <<>> /\ down[at[m]] = <<>>
  /\ PutDown(at[m], <<Keepalive(rtEnd[m])>>)
  /\ UNCHANGED <<scamper, up, ropen, master, breaks>>

(* the connection is closed, reset, or silent for 60 seconds: a master     *)
(* stays as a zombie                                                       *)
RtLose(c, free) ==
  /\ c \in ropen
  /\ free <=> c # sc.conn /\ up[c] = <<>>
  /\ Breaks(free)
  /\ at' = [m \in Magic |-> IF at[m] = c THEN NoConn ELSE at[m]]
  /\ CloseConns({c})
  /\ UNCHANGED <<scamper, alive, rtEnd, down>>

(* a zombie is removed after 15 minutes.  No greeting of that age is still *)
(* on its way: an unidentified connection is dropped after 60 seconds.     *)
Expire(m) ==
  /\ m \in alive /\ at[m] = NoConn
  /\ \A c \in ropen \ {sc.conn} : \A i \in DOMAIN up[c] : up[c][i] # MasterNew(m)
  /\ alive' = alive \ {m}
  /\ UNCHANGED <<scamper, at, rtEnd, ropen, up, down, breaks>>

(* the controller ends and is started again *)
RtRestart ==
  /\ Breaks(FALSE)
  /\ alive' = {} /\ at' = [m \in Magic |-> NoConn]
  /\ CloseConns(Conn)
  /\ UNCHANGED <<scamper, rtEnd, down>>

(* The path or the controller's host fails, and nothing more gets through, *)
(* not even the end of the connection.  The controller gives it up after   *)
(* 60 seconds as in RtLose; scamper cannot see that.                       *)
Silence(c) ==
  /\ c = sc.conn /\ ~sc.silent
  /\ Breaks(FALSE)
  /\ sc' = [sc EXCEPT !.silent = TRUE]
  /\ at' = [m \in Magic |-> IF at[m] = c THEN NoConn ELSE at[m]]
  /\ CloseConns({c})
  /\ down' = [down EXCEPT ![c] = <<>>]
  /\ UNCHANGED <<scEnd, alive, rtEnd>>

-----------------------------------------------------------------------------
LinkQuiet ==
  \/ \E c \in Conn : Connect(c)
  \/ \E free \in BOOLEAN : ScLose(free)
  \/ ScRead \/ ScKeepalive
  \/ \E c \in Conn : RtReadHandshake(c)
  \/ \E m \in Magic, c \in Conn : RtRead(m, c)
  \/ \E c \in Conn, free \in BOOLEAN : RtLose(c, free)
  \/ \E m \in Magic : RtKeepalive(m) \/ Expire(m)
  \/ RtRestart
  \/ \E c \in Conn : Silence(c)

LinkNext ==
  \/ LinkQuiet
  \/ \E b \in Body : ScSend(b) \/ \E m \in Magic : RtSend(m, b)
  \/ \E refuse \in BOOLEAN : ScReadMsg(refuse)
  \/ \E m \in Magic, c \in Conn : RtReadMsg(m, c)

LinkSpec == Init /\ [][LinkNext]_link

-----------------------------------------------------------------------------
Ends == [log : Seq(Body), una : Nat, rcv : Nat, got : Seq(Body)]

(* The frames of both directions. *)
Frames ==
  [type : {"MSG"}, seq : Nat, body : Body]
    \cup [type : {"ACK"}, seq : Nat, ack : Nat]
    \cup [type : {"KEEPALIVE", "MASTER_ID", "MASTER_REJ"}, seq : Nat]
    \cup [type : {"MASTER_NEW"}, seq : Nat, magic : Magic]
    \cup [type : {"MASTER_RES"}, seq : Nat, magic : Magic,
          rcv_nxt : Nat, snd_una : Nat, snd_nxt : Nat]
    \cup [type : {"MASTER_OK"}, seq : Nat, rcv_nxt : Nat]

(* The type of the state; scamper is in mode go only with a connection and *)
(* a session to resume (control_remote_t), and its connection is all the   *)
(* controller can write to.                                                *)
LinkTypeOK ==
  /\ sc \in [conn : Conn \cup {NoConn}, mode : {"connect", "go"},
             resume : BOOLEAN, magic : Magic, silent : BOOLEAN]
  /\ scEnd \in Ends
  /\ alive \in SUBSET Magic
  /\ at \in [Magic -> Conn \cup {NoConn}]
  /\ rtEnd \in [Magic -> Ends]
  /\ ropen \in SUBSET Conn
  /\ up \in [Conn -> Seq(Frames)] /\ down \in [Conn -> Seq(Frames)]
  /\ breaks \in Nat

(* No sequence of lost connections, resumptions and crossing frames makes  *)
(* an end see a frame it does not expect: the errors "got seq %u expected  *)
(* %u", "nothing to ack" and "unhandled type" stay silent                  *)
(* (scamper_control.c:2474, :2584, :2609; sc_remoted.c:1883, :2129, :2165). *)
NoFault ==
  /\ sc.conn # NoConn /\ down[sc.conn] # <<>> =>
       IF sc.mode = "connect"
       THEN ScHead.type \in {"MASTER_ID", "MASTER_OK", "MASTER_REJ"}
       ELSE Fits(scEnd, ScHead)
  /\ \A c \in ropen : up[c] # <<>> =>
       IF Fresh(c)
       THEN Head(up[c]).type \in {"MASTER_NEW", "MASTER_RES"}
       ELSE \A m \in alive : at[m] = c => Fits(rtEnd[m], Head(up[c]))

(* The controller never refuses to resume a session it still has: the      *)
(* window checks of sc_master_control_resume (sc_remoted.c:1947-1981) fail *)
(* only for sessions it never had.  scamper then gives up every channel.   *)
RejOnlyIfGone ==
  sc.conn # NoConn /\ (\E i \in DOMAIN down[sc.conn] : down[sc.conn][i] = MasterRej)
    => sc.magic \notin alive

(* While the controller has the session, a message an end dropped as       *)
(* acknowledged has arrived, and none arrived that was not sent: every     *)
(* window of the two ends fits, whatever was lost with a connection.       *)
NothingLost ==
  sc.magic \in alive =>
    LET e == rtEnd[sc.magic]
    IN  /\ scEnd.una <= e.rcv /\ e.rcv <= Len(scEnd.log)
        /\ e.una <= scEnd.rcv /\ scEnd.rcv <= Len(e.log)

(* Over any number of connections the link is a pair of streams: what an   *)
(* end takes is what the other sent, in order, once and without a gap, and *)
(* scamper forgets a session only when the controller has.                 *)
Stream == INSTANCE RemoteStream WITH
  open <- sc.magic \in alive,
  upSent <- scEnd.log, upGot <- rtEnd[sc.magic].got,
  downSent <- rtEnd[sc.magic].log, downGot <- scEnd.got

StreamSpec == Stream!Spec

=============================================================================
