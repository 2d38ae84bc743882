---------------------------- MODULE RemoteProofs ----------------------------
(***************************************************************************)
(* Proofs about RemoteLink, and about RemoteControl that runs over it, for *)
(* any connections, magics, messages, channels and bounds.  Of the link:   *)
(* no frame is ever unexpected, no session that is kept is refused, and it *)
(* implements RemoteStream.  Of the channels: what is shown of the link    *)
(* holds under them, a message scamper finds no channel for crossed a FIN  *)
(* that scamper sent, and a process has all of its results when its        *)
(* channel ends.                                                           *)
(*                                                                         *)
(* The inductive invariant of the link says what is on each wire.  A wire  *)
(* is a flow from the sender's end to the receiver's: along it the         *)
(* sequence number and the number the next acknowledgement is for go up by *)
(* one with each message and each acknowledgement, from what the receiver  *)
(* expects to what the sender has (or had, on a connection it gave up).    *)
(***************************************************************************)
EXTENDS RemoteControl, ListLemmas

(* a frame of a flow, and the numbers before and after it                  *)
Carries(f, log, q, a, q2, a2) ==
  \/ f = [type |-> "KEEPALIVE", seq |-> q] /\ q2 = q /\ a2 = a
  \/ f = [type |-> "ACK", seq |-> q, ack |-> a] /\ q2 = q /\ a2 = a + 1
  \/ q < Len(log) /\ f = Msg(q, log[q + 1]) /\ q2 = q + 1 /\ a2 = a

(* along wire w the numbers go from q0 and a0 to q and a                   *)
Along(w, log, q0, a0, q, a) ==
  \E Q \in [1 .. Len(w) + 1 -> 0 .. q], A \in [1 .. Len(w) + 1 -> 0 .. a] :
    /\ Q[1] = q0 /\ A[1] = a0
    /\ Q[Len(w) + 1] = q /\ A[Len(w) + 1] = a
    /\ \A i \in 1 .. Len(w) : Carries(w[i], log, Q[i], A[i], Q[i + 1], A[i + 1])

(* wire w carries what r expects of s, and ends with the numbers q and a   *)
Flow(w, r, s, q, a) ==
  /\ q \in 0 .. Len(s.log) /\ a \in 0 .. s.rcv
  /\ Along(w, s.log, r.rcv, r.una, q, a)

R == rtEnd[sc.magic]
Held == at[sc.magic]

Shape ==
  /\ sc.conn = NoConn => sc.mode = "connect"
  /\ sc.mode = "go" => sc.resume
  /\ ~sc.resume => scEnd = NewEnd
  /\ alive \subseteq {sc.magic}
  /\ \A m \in Magic : at[m] # NoConn => m \in alive /\ at[m] \in ropen
  /\ \A c \in Conn : (c \notin ropen => up[c] = <<>>) /\ (c # sc.conn => down[c] = <<>>)

(* No acknowledgement is ahead of what it is for, at either end. *)
Window ==
  /\ scEnd.una <= R.rcv /\ R.rcv <= Len(scEnd.log)
  /\ R.una <= scEnd.rcv /\ scEnd.rcv <= Len(R.log)

(* What an end took is what the other sent. *)
GotInv ==
  /\ Len(scEnd.got) = scEnd.rcv /\ \A i \in 1 .. scEnd.rcv : scEnd.got[i] = R.log[i]
  /\ Len(R.got) = R.rcv /\ \A i \in 1 .. R.rcv : R.got[i] = scEnd.log[i]

(* scamper has or is about to have an answer to its first greeting *)
Greeted == sc.resume \/ (sc.conn # NoConn /\ down[sc.conn] # <<>>)

(* a greeting, also one that waits on a connection scamper gave up *)
Greeting(f) ==
  \/ f = MasterNew(sc.magic) /\ (Greeted => sc.magic \in alive)
  \/ f.type = "MASTER_RES" /\ (f.magic = sc.magic => sc.resume /\ f.rcv_nxt <= scEnd.rcv)

GreetsOn(c) == Len(up[c]) = 1 /\ Greeting(up[c][1])

Greets ==
  /\ \A c \in ropen : c # Held => GreetsOn(c)
  /\ sc.conn \in ropen /\ sc.conn # Held =>
       /\ sc.mode = "connect" /\ down[sc.conn] = <<>>
       /\ up[sc.conn] = <<IF sc.resume THEN MasterRes(sc.magic, scEnd)
                                       ELSE MasterNew(sc.magic)>>

DownGo ==
  \E q \in 0 .. Len(R.log), a \in 0 .. R.rcv :
    /\ Flow(down[sc.conn], scEnd, R, q, a)
    /\ Held = sc.conn => q = Len(R.log) /\ a = R.rcv

(* an answer to scamper's greeting, and what was sent after it *)
Answer ==
  /\ down[sc.conn] # <<>>
  /\ ScHead = IF sc.resume THEN MasterOk(R) ELSE MasterId
  /\ \E q \in 0 .. Len(R.log) :
       /\ Flow(Tail(down[sc.conn]), Trim(scEnd, R.rcv), R, q, R.rcv)
       /\ Held = sc.conn => q = Len(R.log) /\ R.una = scEnd.rcv
  /\ Held # NoConn => up[Held] = <<>>

DownWait ==
  \/ down[sc.conn] = <<>> /\ Held # sc.conn
  \/ down[sc.conn] = <<MasterRej>> /\ sc.resume /\ sc.magic \notin alive
  \/ Answer

DownInv == sc.conn # NoConn => IF sc.mode = "go" THEN DownGo ELSE DownWait

UpInv ==
  Held # NoConn =>
    \E q \in 0 .. Len(scEnd.log), a \in 0 .. scEnd.rcv :
      /\ Flow(up[Held], R, scEnd, q, a)
      /\ Held = sc.conn /\ sc.mode = "go" => q = Len(scEnd.log) /\ a = scEnd.rcv

(* The inductive invariant. *)
IInv ==
  /\ LinkTypeOK
  /\ Shape /\ Window /\ GotInv /\ Greets /\ DownInv /\ UpInv


-----------------------------------------------------------------------------
(* Flows.                                                                  *)

LEMMA AlongEmpty ==
  ASSUME NEW log, NEW q0, NEW a0, NEW q \in Nat, NEW a \in Nat
  PROVE  Along(<<>>, log, q0, a0, q, a) <=> q0 = q /\ a0 = a
<1>1. ASSUME q0 = q, a0 = a  PROVE Along(<<>>, log, q0, a0, q, a)
  <2> DEFINE Q == [i \in 1 .. 1 |-> q]
             A == [i \in 1 .. 1 |-> a]
  <2>1. Q \in [1 .. Len(<<>>) + 1 -> 0 .. q] /\ A \in [1 .. Len(<<>>) + 1 -> 0 .. a]
    OBVIOUS
  <2>2. Q[1] = q /\ A[1] = a /\ Len(<<>>) = 0
    OBVIOUS
  <2> HIDE DEF Q, A
  <2> QED BY <1>1, <2>1, <2>2 DEF Along
<1>2. ASSUME Along(<<>>, log, q0, a0, q, a)  PROVE q0 = q /\ a0 = a
  BY <1>2 DEF Along
<1> QED BY <1>1, <1>2

(* the head of a wire, and what follows it                                 *)
LEMMA AlongHead ==
  ASSUME NEW T, NEW w \in Seq(T), w # <<>>, NEW log, NEW q0, NEW a0,
         NEW q \in Nat, NEW a \in Nat, Along(w, log, q0, a0, q, a)
  PROVE  \E q1 \in 0 .. q, a1 \in 0 .. a :
           /\ q0 \in 0 .. q /\ a0 \in 0 .. a
           /\ Carries(Head(w), log, q0, a0, q1, a1)
           /\ Along(Tail(w), log, q1, a1, q, a)
<1>1. PICK Q \in [1 .. Len(w) + 1 -> 0 .. q], A \in [1 .. Len(w) + 1 -> 0 .. a] :
        /\ Q[1] = q0 /\ A[1] = a0
        /\ Q[Len(w) + 1] = q /\ A[Len(w) + 1] = a
        /\ \A i \in 1 .. Len(w) : Carries(w[i], log, Q[i], A[i], Q[i + 1], A[i + 1])
  BY DEF Along
<1>2. /\ Len(w) \in Nat /\ Len(w) >= 1 /\ Head(w) = w[1]
      /\ Tail(w) \in Seq(T) /\ Len(Tail(w)) = Len(w) - 1
      /\ \A i \in 1 .. Len(w) - 1 : Tail(w)[i] = w[i + 1]
  OBVIOUS
<1> DEFINE Q1 == [i \in 1 .. Len(w) |-> Q[i + 1]]
           A1 == [i \in 1 .. Len(w) |-> A[i + 1]]
<1>3. /\ Q1 \in [1 .. Len(Tail(w)) + 1 -> 0 .. q]
      /\ A1 \in [1 .. Len(Tail(w)) + 1 -> 0 .. a]
  BY <1>2
<1>4. /\ Q1[1] = Q[2] /\ A1[1] = A[2]
      /\ Q1[Len(Tail(w)) + 1] = q /\ A1[Len(Tail(w)) + 1] = a
  BY <1>1, <1>2
<1>5. ASSUME NEW i \in 1 .. Len(Tail(w))
      PROVE  Carries(Tail(w)[i], log, Q1[i], A1[i], Q1[i + 1], A1[i + 1])
  <2>1. i + 1 \in 1 .. Len(w) /\ Tail(w)[i] = w[i + 1]
    BY <1>2
  <2>2. Q1[i] = Q[i + 1] /\ A1[i] = A[i + 1] /\ Q1[i + 1] = Q[i + 1 + 1] /\ A1[i + 1] = A[i + 1 + 1]
    BY <1>2
  <2> HIDE DEF Q1, A1
  <2> QED BY <1>1, <2>1, <2>2
<1> HIDE DEF Q1, A1
<1>6. Along(Tail(w), log, Q[2], A[2], q, a)
  BY <1>3, <1>4, <1>5 DEF Along
<1>7. /\ Carries(Head(w), log, q0, a0, Q[2], A[2])
      /\ Q[2] \in 0 .. q /\ A[2] \in 0 .. a /\ q0 \in 0 .. q /\ a0 \in 0 .. a
  BY SMTT(60), <1>1, <1>2
<1> QED BY <1>6, <1>7

(* one more frame                                                          *)
LEMMA AlongAppend ==
  ASSUME NEW T, NEW w \in Seq(T), NEW f \in T, NEW log, NEW q0, NEW a0,
         NEW q \in Nat, NEW a \in Nat, NEW q2 \in Nat, NEW a2 \in Nat,
         q <= q2, a <= a2,
         Along(w, log, q0, a0, q, a), Carries(f, log, q, a, q2, a2)
  PROVE  Along(Append(w, f), log, q0, a0, q2, a2)
<1>1. PICK Q \in [1 .. Len(w) + 1 -> 0 .. q], A \in [1 .. Len(w) + 1 -> 0 .. a] :
        /\ Q[1] = q0 /\ A[1] = a0
        /\ Q[Len(w) + 1] = q /\ A[Len(w) + 1] = a
        /\ \A i \in 1 .. Len(w) : Carries(w[i], log, Q[i], A[i], Q[i + 1], A[i + 1])
  BY DEF Along
<1> DEFINE v  == Append(w, f)
           n  == Len(w) + 1
           Q1 == [i \in 1 .. n + 1 |-> IF i <= n THEN Q[i] ELSE q2]
           A1 == [i \in 1 .. n + 1 |-> IF i <= n THEN A[i] ELSE a2]
<1>2. /\ Len(w) \in Nat /\ n \in Nat /\ n >= 1 /\ Len(v) = n
      /\ v[n] = f /\ \A i \in 1 .. Len(w) : v[i] = w[i]
  OBVIOUS
<1>3. Q1 \in [1 .. Len(v) + 1 -> 0 .. q2] /\ A1 \in [1 .. Len(v) + 1 -> 0 .. a2]
  <2>1. \A i \in 1 .. n : Q[i] \in 0 .. q2 /\ A[i] \in 0 .. a2
    BY SMTT(60), <1>1, <1>2
  <2> QED BY <1>2, <2>1
<1>4. /\ Q1[1] = q0 /\ A1[1] = a0 /\ Q1[n] = q /\ A1[n] = a
      /\ Q1[n + 1] = q2 /\ A1[n + 1] = a2
  BY <1>1, <1>2
<1>5. ASSUME NEW i \in 1 .. Len(v)
      PROVE  Carries(v[i], log, Q1[i], A1[i], Q1[i + 1], A1[i + 1])
  <2>1. CASE i = n
    BY <1>2, <1>4, <2>1
  <2>2. CASE i # n
    <3>1. i \in 1 .. Len(w) /\ i + 1 <= n
      BY <1>2, <2>2
    <3>2. Q1[i] = Q[i] /\ A1[i] = A[i] /\ Q1[i + 1] = Q[i + 1] /\ A1[i + 1] = A[i + 1]
      BY <1>2, <3>1
    <3> HIDE DEF Q1, A1
    <3> QED BY <1>1, <1>2, <3>1, <3>2
  <2> QED BY <2>1, <2>2
<1> HIDE DEF Q1, A1, v
<1> QED BY <1>2, <1>3, <1>4, <1>5 DEF Along, v

(* the sender's log grows                                                  *)
LEMMA AlongLog ==
  ASSUME NEW T, NEW w, NEW log \in Seq(T), NEW b \in T, NEW q0, NEW a0,
         NEW q \in Nat, NEW a \in Nat, Len(w) \in Nat, Along(w, log, q0, a0, q, a)
  PROVE  Along(w, Append(log, b), q0, a0, q, a)
<1>1. PICK Q \in [1 .. Len(w) + 1 -> 0 .. q], A \in [1 .. Len(w) + 1 -> 0 .. a] :
        /\ Q[1] = q0 /\ A[1] = a0
        /\ Q[Len(w) + 1] = q /\ A[Len(w) + 1] = a
        /\ \A i \in 1 .. Len(w) : Carries(w[i], log, Q[i], A[i], Q[i + 1], A[i + 1])
  BY DEF Along
<1>2. ASSUME NEW i \in 1 .. Len(w)
      PROVE  Carries(w[i], Append(log, b), Q[i], A[i], Q[i + 1], A[i + 1])
  <2>1. Carries(w[i], log, Q[i], A[i], Q[i + 1], A[i + 1])
    BY <1>1
  <2>2. Q[i] \in Nat
    BY <1>1
  <2>3. Q[i] < Len(log) => Q[i] < Len(Append(log, b)) /\ Append(log, b)[Q[i] + 1] = log[Q[i] + 1]
    BY <2>2
  <2> QED BY <2>1, <2>3 DEF Carries
<1> QED BY <1>1, <1>2 DEF Along

(* what an end sends again                                                 *)
LEMMA AlongUnacked ==
  ASSUME NEW e \in Ends, e.una <= Len(e.log), NEW a \in Nat
  PROVE  Along(Unacked(e), e.log, e.una, a, Len(e.log), a)
<1> DEFINE n == Len(e.log) - e.una
           Q == [i \in 1 .. n + 1 |-> e.una + i - 1]
           A == [i \in 1 .. n + 1 |-> a]
<1>1. e.una \in Nat /\ Len(e.log) \in Nat /\ n \in Nat /\ Len(Unacked(e)) = n
  BY DEF Ends, Unacked
<1>2. Q \in [1 .. Len(Unacked(e)) + 1 -> 0 .. Len(e.log)] /\ A \in [1 .. Len(Unacked(e)) + 1 -> 0 .. a]
  BY <1>1
<1>3. Q[1] = e.una /\ A[1] = a /\ Q[n + 1] = Len(e.log) /\ A[n + 1] = a
  BY <1>1
<1>4. ASSUME NEW i \in 1 .. n
      PROVE  Carries(Unacked(e)[i], e.log, Q[i], A[i], Q[i + 1], A[i + 1])
  <2>1. /\ Q[i] = e.una + i - 1 /\ Q[i + 1] = Q[i] + 1 /\ A[i] = a /\ A[i + 1] = a
        /\ Q[i] < Len(e.log) /\ Q[i] + 1 = e.una + i
    <3>1. i \in 1 .. n + 1 /\ i + 1 \in 1 .. n + 1 /\ i \in Nat /\ i <= n
      BY <1>1
    <3>2. /\ Q[i] = e.una + i - 1 /\ Q[i + 1] = e.una + (i + 1) - 1
          /\ A[i] = a /\ A[i + 1] = a
      BY <3>1
    <3> HIDE DEF Q, A
    <3> QED BY <1>1, <3>1, <3>2
  <2>2. Unacked(e)[i] = Msg(e.una + i - 1, e.log[e.una + i])
    BY <1>1 DEF Unacked
  <2> HIDE DEF Q, A
  <2> QED BY <2>1, <2>2 DEF Carries
<1> HIDE DEF Q, A
<1> QED BY <1>1, <1>2, <1>3, <1>4 DEF Along

-----------------------------------------------------------------------------
(* The ends, the frames and the wires.                                     *)

LEMMA NewEndIs ==
  /\ NewEnd \in Ends /\ NewEnd.log = <<>> /\ NewEnd.una = 0 /\ NewEnd.rcv = 0
  /\ NewEnd.got = <<>> /\ Len(NewEnd.log) = 0 /\ Len(NewEnd.got) = 0
BY EmptySeq DEF Ends, NewEnd

LEMMA EndFields ==
  ASSUME NEW e \in Ends
  PROVE  /\ e.log \in Seq(Body) /\ Len(e.log) \in Nat /\ e.una \in Nat /\ e.rcv \in Nat
         /\ e.got \in Seq(Body) /\ Len(e.got) \in Nat
BY LenProperties DEF Ends

LEMMA SentIs ==
  ASSUME NEW e \in Ends, NEW b \in Body
  PROVE  /\ Sent(e, b) \in Ends /\ Sent(e, b).log = Append(e.log, b)
         /\ Len(Sent(e, b).log) = Len(e.log) + 1
         /\ Sent(e, b).log[Len(e.log) + 1] = b
         /\ \A i \in 1 .. Len(e.log) : Sent(e, b).log[i] = e.log[i]
         /\ Sent(e, b).una = e.una /\ Sent(e, b).rcv = e.rcv /\ Sent(e, b).got = e.got
<1>1. e.log \in Seq(Body) /\ Len(e.log) \in Nat
  BY EndFields
<1>2. Append(e.log, b) \in Seq(Body)
  BY <1>1, AppendProperties
<1>3. /\ Sent(e, b) \in Ends /\ Sent(e, b).log = Append(e.log, b)
      /\ Sent(e, b).una = e.una /\ Sent(e, b).rcv = e.rcv /\ Sent(e, b).got = e.got
  BY <1>2 DEF Ends, Sent
<1> QED BY <1>1, <1>3, AppendProperties

LEMMA TakenIs ==
  ASSUME NEW e \in Ends, NEW b \in Body
  PROVE  /\ Taken(e, b) \in Ends /\ Taken(e, b).log = e.log /\ Taken(e, b).una = e.una
         /\ Taken(e, b).rcv = e.rcv + 1 /\ Taken(e, b).got = Append(e.got, b)
         /\ Len(Taken(e, b).got) = Len(e.got) + 1
         /\ Taken(e, b).got[Len(e.got) + 1] = b
         /\ \A i \in 1 .. Len(e.got) : Taken(e, b).got[i] = e.got[i]
<1>1. e.got \in Seq(Body) /\ Len(e.got) \in Nat
  BY EndFields
<1>2. Append(e.got, b) \in Seq(Body)
  BY <1>1, AppendProperties
<1>3. e.rcv + 1 \in Nat
  BY EndFields
<1>4. Taken(e, b) \in Ends
  BY <1>2, <1>3 DEF Ends, Taken
<1>5. /\ Taken(e, b).log = e.log /\ Taken(e, b).una = e.una
      /\ Taken(e, b).rcv = e.rcv + 1 /\ Taken(e, b).got = Append(e.got, b)
  BY DEF Ends, Taken
<1> QED BY <1>1, <1>4, <1>5, AppendProperties

LEMMA AckedIs ==
  ASSUME NEW e \in Ends
  PROVE  /\ Acked(e) \in Ends /\ Acked(e).log = e.log /\ Acked(e).una = e.una + 1
         /\ Acked(e).rcv = e.rcv /\ Acked(e).got = e.got
BY DEF Ends, Acked

LEMMA TrimIs ==
  ASSUME NEW e \in Ends, NEW n \in Nat
  PROVE  /\ Trim(e, n) \in Ends /\ Trim(e, n).log = e.log
         /\ Trim(e, n).rcv = e.rcv /\ Trim(e, n).got = e.got
         /\ e.una <= n /\ n <= Len(e.log) => Trim(e, n).una = n
BY EndFields DEF Ends, Trim

LEMMA FrameTypes ==
  ASSUME NEW q \in Nat, NEW b \in Body, NEW e \in Ends
  PROVE  Msg(q, b) \in Frames /\ Ack(e, q) \in Frames /\ Keepalive(e) \in Frames
BY EndFields DEF Frames, Msg, Ack, Keepalive

LEMMA FrameFields ==
  ASSUME NEW f \in Frames
  PROVE  /\ f.seq \in Nat
         /\ f.type = "MSG" => f.body \in Body
         /\ f.type = "MASTER_OK" => f.rcv_nxt \in Nat
         /\ f.type = "MASTER_NEW" => f.magic \in Magic
         /\ f.type = "MASTER_RES" => f.magic \in Magic /\ f.rcv_nxt \in Nat
BY DEF Frames

LEMMA UnackedType ==
  ASSUME NEW e \in Ends
  PROVE  Unacked(e) \in Seq(Frames)
<1>1. e.una \in Nat /\ Len(e.log) \in Nat /\ e.log \in Seq(Body)
  BY EndFields
<1>2. ASSUME NEW i \in 1 .. Len(e.log) - e.una
      PROVE  Msg(e.una + i - 1, e.log[e.una + i]) \in Frames
  <2>1. e.una + i \in 1 .. Len(e.log) /\ e.una + i - 1 \in Nat
    BY <1>1
  <2>2. e.log[e.una + i] \in Body
    BY <1>1, <2>1, ElementOfSeq
  <2> QED BY <2>1, <2>2 DEF Frames, Msg
<1>3. CASE e.una <= Len(e.log)
  <2>1. Len(e.log) - e.una \in Nat
    BY <1>1, <1>3
  <2>2. Unacked(e) \in [1 .. Len(e.log) - e.una -> Frames]
    BY <1>2 DEF Unacked
  <2> QED BY <2>1, <2>2, SeqDef
<1>4. CASE ~(e.una <= Len(e.log))
  <2>1. 1 .. Len(e.log) - e.una = 1 .. 0
    BY <1>1, <1>4
  <2>2. Unacked(e) \in [1 .. 0 -> Frames]
    BY <1>2, <2>1 DEF Unacked
  <2> QED BY <2>2, SeqDef
<1> QED BY <1>3, <1>4

LEMMA Single ==
  ASSUME NEW T, NEW f \in T
  PROVE  <<f>> \in Seq(T) /\ Head(<<f>>) = f /\ Tail(<<f>>) = <<>> /\ <<f>> # <<>>
OBVIOUS

(* a sequence and one more element                                         *)
LEMMA One ==
  ASSUME NEW T, NEW s \in Seq(T), NEW f \in T
  PROVE  /\ s \o <<f>> = Append(s, f) /\ <<f>> \in Seq(T)
         /\ Append(s, f) \in Seq(T) /\ Append(s, f) # <<>>
         /\ s # <<>> => /\ Head(s) \in T /\ Tail(s) \in Seq(T)
                        /\ Head(Append(s, f)) = Head(s)
                        /\ Tail(Append(s, f)) = Append(Tail(s), f)
         /\ <<>> \o s = s /\ s \o <<>> = s
         /\ <<f>> \o s \in Seq(T) /\ <<f>> \o s # <<>>
         /\ Head(<<f>> \o s) = f /\ Tail(<<f>> \o s) = s
         /\ Head(<<f>>) = f /\ Tail(<<f>>) = <<>> /\ <<f>> # <<>>
<1>1. s \o <<f>> = Append(s, f)
  OBVIOUS
<1>2. <<f>> \in Seq(T)
  OBVIOUS
<1>3. Append(s, f) \in Seq(T) /\ Append(s, f) # <<>>
  BY AppendProperties
<1>4. s # <<>> => Head(s) \in T /\ Tail(s) \in Seq(T)
  BY HeadTailProperties
<1>5. s # <<>> => Head(Append(s, f)) = Head(s) /\ Tail(Append(s, f)) = Append(Tail(s), f)
  BY HeadTailAppend
<1>6. <<>> \o s = s /\ s \o <<>> = s
  BY ConcatEmptySeq
<1>7. <<f>> \o s \in Seq(T) /\ Len(<<f>> \o s) = Len(s) + 1 /\ Head(<<f>> \o s) = f
  OBVIOUS
<1>8. Tail(<<f>> \o s) = s
  OBVIOUS
<1>9. Head(<<f>>) = f /\ Tail(<<f>>) = <<>> /\ <<f>> # <<>>
  OBVIOUS
<1>10. <<f>> \o s # <<>>
  BY <1>7, EmptySeq, LenProperties
<1> QED BY <1>1, <1>2, <1>3, <1>4, <1>5, <1>6, <1>7, <1>8, <1>9, <1>10

-----------------------------------------------------------------------------
(* The type invariant.                                                     *)

(* frames written to a wire                                                *)
LEMMA PutUpIs ==
  ASSUME LinkTypeOK, NEW c \in Conn, NEW s \in Seq(Frames), PutUp(c, s)
  PROVE  /\ up' \in [Conn -> Seq(Frames)]
         /\ c \notin ropen => up' = up
         /\ c \in ropen => up'[c] = up[c] \o s
         /\ \A d \in Conn : d # c => up'[d] = up[d]
BY ConcatProperties DEF LinkTypeOK, PutUp

LEMMA PutDownIs ==
  ASSUME LinkTypeOK, NEW c \in Conn \cup {NoConn}, NEW s \in Seq(Frames), PutDown(c, s)
  PROVE  /\ down' \in [Conn -> Seq(Frames)]
         /\ c = NoConn \/ c # sc.conn => down' = down
         /\ c # NoConn /\ c = sc.conn => down'[c] = down[c] \o s
         /\ \A d \in Conn : d # c => down'[d] = down[d]
BY ConcatProperties DEF LinkTypeOK, PutDown

LEMMA CloseIs ==
  ASSUME LinkTypeOK, NEW C, CloseConns(C)
  PROVE  /\ ropen' \in SUBSET Conn /\ up' \in [Conn -> Seq(Frames)]
         /\ ropen' = ropen \ C
         /\ \A d \in Conn : up'[d] = IF d \in C THEN <<>> ELSE up[d]
BY EmptySeq DEF LinkTypeOK, CloseConns

LEMMA ScHasIs ==
  ASSUME LinkTypeOK, ScHas
  PROVE  /\ sc.conn \in Conn /\ down[sc.conn] \in Seq(Frames) /\ down[sc.conn] # <<>>
         /\ ScHead \in Frames /\ Tail(down[sc.conn]) \in Seq(Frames)
<1>1. sc.conn \in Conn /\ down[sc.conn] \in Seq(Frames) /\ down[sc.conn] # <<>>
  BY DEF LinkTypeOK, ScHas
<1> QED BY <1>1, HeadTailProperties DEF ScHead

LEMMA RtHasIs ==
  ASSUME LinkTypeOK, NEW c \in Conn, RtHas(c)
  PROVE  /\ up[c] \in Seq(Frames) /\ up[c] # <<>>
         /\ Head(up[c]) \in Frames /\ Tail(up[c]) \in Seq(Frames)
<1>1. up[c] \in Seq(Frames) /\ up[c] # <<>>
  BY DEF LinkTypeOK, RtHas
<1> QED BY <1>1, HeadTailProperties

LEMMA RetryType ==
  ASSUME LinkTypeOK, NEW e \in Ends, Retry(e), sc.conn \in Conn, breaks' \in Nat
  PROVE  LinkTypeOK'
BY NewEndIs, EmptySeq DEF LinkTypeOK, Retry, Forgotten, master

LEMMA InitType ==
  Init => LinkTypeOK
<1> SUFFICES ASSUME Init PROVE LinkTypeOK
  OBVIOUS
<1>1. (CHOOSE m \in Magic : TRUE) \in Magic
  BY LinkAssumption
<1> QED BY <1>1, NewEndIs, EmptySeq DEF Init, LinkTypeOK

LEMMA ScType ==
  ASSUME LinkTypeOK, NEW f \in Frames, f = ScHead, ScHas, breaks' = breaks,
         ScHandshake(f) \/ ScFrame(f) \/ (\E refuse \in BOOLEAN : ScMsg(f, refuse))
  PROVE  LinkTypeOK'
<1>0. /\ sc.conn \in Conn /\ down[sc.conn] \in Seq(Frames)
      /\ Tail(down[sc.conn]) \in Seq(Frames) /\ breaks' \in Nat
  BY ScHasIs DEF LinkTypeOK
<1>1. CASE ScHandshake(f)
  <2>1. CASE f.type = "MASTER_ID" /\ ScHandshake(f)
    BY ZenonT(60), <1>0, <2>1, RetryType DEF LinkTypeOK, ScHandshake, master
  <2>2. CASE f.type = "MASTER_OK" /\ ScHandshake(f)
    <3>1. f.rcv_nxt \in Nat
      BY <2>2, FrameFields
    <3>2. Trim(scEnd, f.rcv_nxt) \in Ends
      BY <3>1, TrimIs DEF LinkTypeOK
    <3>3. PutUp(sc.conn, Unacked(Trim(scEnd, f.rcv_nxt)))
      BY <2>2 DEF ScHandshake
    <3>4. up' \in [Conn -> Seq(Frames)]
      BY <1>0, <3>2, <3>3, PutUpIs, UnackedType
    <3> QED BY ZenonT(60), <1>0, <2>2, <3>2, <3>4 DEF LinkTypeOK, ScHandshake, master
  <2>3. CASE f.type = "MASTER_REJ" /\ ScHandshake(f)
    <3>1. NewMagic
      BY <2>3 DEF ScHandshake
    <3> QED BY <1>0, <3>1, NewEndIs, EmptySeq DEF LinkTypeOK, NewMagic, Forgotten
  <2>4. CASE Retry(scEnd)
    BY <1>0, <2>4, RetryType DEF LinkTypeOK
  <2> QED BY <1>1, <2>1, <2>2, <2>3, <2>4 DEF ScHandshake
<1>2. CASE ScFrame(f)
  <2>1. CASE Retry(scEnd)
    BY <1>0, <2>1, RetryType DEF LinkTypeOK
  <2>2. CASE ~Retry(scEnd)
    <3>1. Acked(scEnd) \in Ends
      BY AckedIs DEF LinkTypeOK
    <3> QED BY <1>0, <1>2, <2>2, <3>1 DEF LinkTypeOK, ScFrame, scamper, master
  <2> QED BY <2>1, <2>2
<1>3. ASSUME NEW refuse \in BOOLEAN, ScMsg(f, refuse)
      PROVE  LinkTypeOK'
  <2>1. f.body \in Body /\ f.seq \in Nat /\ scEnd \in Ends
    BY <1>3, FrameFields DEF ScMsg, LinkTypeOK
  <2>2. Taken(scEnd, f.body) \in Ends /\ Ack(scEnd, f.seq) \in Frames
    BY <2>1, TakenIs, FrameTypes DEF LinkTypeOK
  <2>3. CASE refuse
    BY <1>0, <1>3, <2>2, <2>3, RetryType DEF ScMsg, ScTake
  <2>4. CASE ~refuse
    <3>1. /\ scEnd' = Taken(scEnd, f.body) /\ PutUp(sc.conn, <<Ack(scEnd, f.seq)>>)
          /\ down' = [down EXCEPT ![sc.conn] = Tail(@)]
          /\ UNCHANGED <<sc, ropen, master>>
      BY <1>3, <2>4 DEF ScMsg, ScTake
    <3>2. up' \in [Conn -> Seq(Frames)]
      BY <1>0, <2>2, <3>1, PutUpIs, Single
    <3> QED BY <1>0, <2>2, <3>1, <3>2 DEF LinkTypeOK, master
  <2> QED BY <2>3, <2>4
<1> QED BY <1>1, <1>2, <1>3

LEMMA RtHandshakeType ==
  ASSUME LinkTypeOK, NEW c \in Conn, RtReadHandshake(c)
  PROVE  LinkTypeOK'
<1> DEFINE f == Head(up[c])
<1>0. /\ up[c] \in Seq(Frames) /\ Tail(up[c]) \in Seq(Frames) /\ f \in Frames
      /\ RtHandshake(c, f) /\ UNCHANGED <<scamper, breaks>>
  BY RtHasIs DEF RtReadHandshake
<1>1. CASE f.type = "MASTER_NEW"
  <2>1. RtMasterNew(c, f) /\ f.magic \in Magic
    BY <1>0, <1>1, FrameFields DEF RtHandshake
  <2>2. CASE f.magic \in alive
    <3>1. CloseConns({c}) /\ UNCHANGED <<master, down>>
      BY <2>1, <2>2 DEF RtMasterNew
    <3> QED BY <1>0, <3>1, CloseIs DEF LinkTypeOK, master, scamper
  <2>3. CASE f.magic \notin alive
    <3>1. PutDown(c, <<MasterId>>)
      BY <2>1, <2>3 DEF RtMasterNew
    <3>2. MasterId \in Frames
      BY DEF MasterId, Frames
    <3>3. down' \in [Conn -> Seq(Frames)]
      BY <3>1, <3>2, PutDownIs, Single
    <3>4. /\ alive' = alive \cup {f.magic} /\ at' = [at EXCEPT ![f.magic] = c]
          /\ rtEnd' = [rtEnd EXCEPT ![f.magic] = NewEnd]
          /\ up' = [up EXCEPT ![c] = Tail(@)] /\ UNCHANGED ropen
      BY <2>1, <2>3 DEF RtMasterNew
    <3> HIDE DEF f
    <3> QED BY <1>0, <2>1, <3>3, <3>4, NewEndIs DEF LinkTypeOK, scamper
  <2> QED BY <2>2, <2>3
<1>2. CASE f.type = "MASTER_RES"
  <2>1. RtMasterRes(c, f) /\ f.magic \in Magic /\ f.rcv_nxt \in Nat
    BY <1>0, <1>2, FrameFields DEF RtHandshake
  <2>2. CASE f.magic \notin alive \/ ~ResumeFits(rtEnd[f.magic], f)
    <3>1. PutDown(c, <<MasterRej>>) /\ CloseConns({c}) /\ UNCHANGED master
      BY <2>1, <2>2 DEF RtMasterRes
    <3>2. MasterRej \in Frames
      BY DEF MasterRej, Frames
    <3>3. down' \in [Conn -> Seq(Frames)]
      BY <3>1, <3>2, PutDownIs, Single
    <3> QED BY <1>0, <3>1, <3>3, CloseIs DEF LinkTypeOK, master, scamper
  <2>3. CASE ~(f.magic \notin alive \/ ~ResumeFits(rtEnd[f.magic], f))
    <3> DEFINE m == f.magic
               e == Trim(rtEnd[m], f.rcv_nxt)
    <3>1. /\ rtEnd' = [rtEnd EXCEPT ![m] = e]
          /\ at' = [at EXCEPT ![m] = c]
          /\ ropen' = ropen \ {at[m]}
          /\ up' = [d \in Conn |-> IF d = at[m] THEN <<>>
                                   ELSE IF d = c THEN Tail(up[d]) ELSE up[d]]
          /\ PutDown(c, <<MasterOk(e)>> \o Unacked(e))
          /\ UNCHANGED alive
      BY <2>1, <2>3 DEF RtMasterRes
    <3>2. e \in Ends
      BY <2>1, TrimIs DEF LinkTypeOK
    <3>3. MasterOk(e) \in Frames /\ Unacked(e) \in Seq(Frames)
      BY <3>2, UnackedType, EndFields DEF MasterOk, Frames
    <3>6. <<MasterOk(e)>> \o Unacked(e) \in Seq(Frames)
      BY <3>3, One
    <3> HIDE DEF e
    <3>4. down' \in [Conn -> Seq(Frames)]
      BY <3>1, <3>6, PutDownIs
    <3>5. up' \in [Conn -> Seq(Frames)]
      BY <1>0, <3>1, EmptySeq DEF LinkTypeOK
    <3> QED BY <1>0, <2>1, <3>1, <3>2, <3>4, <3>5 DEF LinkTypeOK, scamper
  <2> QED BY <2>2, <2>3
<1>3. CASE f.type \notin {"MASTER_NEW", "MASTER_RES"}
  <2>1. CloseConns({c}) /\ UNCHANGED <<master, down>>
    BY <1>0, <1>3 DEF RtHandshake
  <2> QED BY <1>0, <2>1, CloseIs DEF LinkTypeOK, master, scamper
<1> QED BY <1>1, <1>2, <1>3

LEMMA RtReadType ==
  ASSUME LinkTypeOK, NEW m \in Magic, NEW c \in Conn, RtRead(m, c) \/ RtReadMsg(m, c)
  PROVE  LinkTypeOK'
<1> DEFINE f == Head(up[c])
<1>0. /\ up[c] \in Seq(Frames) /\ Tail(up[c]) \in Seq(Frames) /\ f \in Frames
      /\ rtEnd[m] \in Ends /\ UNCHANGED <<scamper, breaks>>
  BY RtHasIs DEF RtRead, RtReadMsg, LinkTypeOK
<1>1. CASE RtRead(m, c)
  <2>1. CASE CloseConns({c}) /\ RtFrame(m, c, f)
    <3>1. alive' \in SUBSET Magic
      BY <2>1 DEF LinkTypeOK, RtFrame, master
    <3>2. at' \in [Magic -> Conn \cup {NoConn}]
      BY <2>1 DEF LinkTypeOK, RtFrame, master
    <3>3. rtEnd' \in [Magic -> Ends] /\ UNCHANGED down
      BY <1>0, <2>1, AckedIs DEF LinkTypeOK, RtFrame, master
    <3> QED BY <1>0, <2>1, <3>1, <3>2, <3>3, CloseIs DEF LinkTypeOK, scamper
  <2>2. CASE ~CloseConns({c})
    <3>1. Acked(rtEnd[m]) \in Ends /\ RtFrame(m, c, f)
      BY <1>0, <1>1, AckedIs DEF RtRead
    <3> QED BY ZenonT(60), <1>0, <2>2, <3>1 DEF LinkTypeOK, RtFrame, scamper, master
  <2> QED BY <1>1, <2>1, <2>2 DEF RtRead
<1>2. CASE RtReadMsg(m, c)
  <2>1. /\ rtEnd' = [rtEnd EXCEPT ![m] = Taken(@, f.body)]
        /\ PutDown(c, <<Ack(rtEnd[m], f.seq)>>) /\ f.type = "MSG"
        /\ up' = [up EXCEPT ![c] = Tail(@)] /\ UNCHANGED <<ropen, alive, at>>
    BY <1>2 DEF RtReadMsg
  <2>2. f.body \in Body /\ f.seq \in Nat
    BY <1>0, <2>1, FrameFields
  <2>3. Taken(rtEnd[m], f.body) \in Ends /\ Ack(rtEnd[m], f.seq) \in Frames
    BY <1>0, <2>2, TakenIs, FrameTypes
  <2>4. down' \in [Conn -> Seq(Frames)]
    BY <2>1, <2>3, PutDownIs, Single
  <2> QED BY <1>0, <2>1, <2>3, <2>4 DEF LinkTypeOK, scamper
<1> QED BY <1>1, <1>2

LEMMA SendType ==
  ASSUME LinkTypeOK, NEW b \in Body, ScSend(b) \/ (\E m \in Magic : RtSend(m, b))
  PROVE  LinkTypeOK'
<1>1. CASE ScSend(b)
  <2>1. scEnd \in Ends /\ Len(scEnd.log) \in Nat
    BY EndFields DEF LinkTypeOK
  <2>2. Sent(scEnd, b) \in Ends /\ <<Msg(Len(scEnd.log), b)>> \in Seq(Frames)
    BY <2>1, SentIs, FrameTypes, Single
  <2>3. up' \in [Conn -> Seq(Frames)]
    <3>1. CASE sc.conn \in Conn
      BY <1>1, <2>2, <3>1, PutUpIs DEF ScSend
    <3>2. CASE sc.conn \notin Conn
      BY <1>1, <3>2 DEF ScSend, PutUp, LinkTypeOK
    <3> QED BY <3>1, <3>2
  <2> QED BY <1>1, <2>2, <2>3 DEF LinkTypeOK, ScSend, master
<1>2. ASSUME NEW m \in Magic, RtSend(m, b)  PROVE LinkTypeOK'
  <2>1. rtEnd[m] \in Ends /\ Len(rtEnd[m].log) \in Nat /\ at[m] \in Conn \cup {NoConn}
    BY EndFields DEF LinkTypeOK
  <2>2. Sent(rtEnd[m], b) \in Ends /\ <<Msg(Len(rtEnd[m].log), b)>> \in Seq(Frames)
    BY <2>1, SentIs, FrameTypes, Single
  <2>3. down' \in [Conn -> Seq(Frames)]
    BY <1>2, <2>1, <2>2, PutDownIs DEF RtSend
  <2> QED BY <1>2, <2>2, <2>3 DEF LinkTypeOK, RtSend, scamper
<1> QED BY <1>1, <1>2

LEMMA QuietType ==
  ASSUME LinkTypeOK,
         \/ \E c \in Conn : Connect(c)
         \/ \E free \in BOOLEAN : ScLose(free)
         \/ ScKeepalive
         \/ \E c \in Conn, free \in BOOLEAN : RtLose(c, free)
         \/ \E m \in Magic : RtKeepalive(m) \/ Expire(m)
         \/ RtRestart
         \/ \E c \in Conn : Silence(c)
  PROVE  LinkTypeOK'
<1>1. ASSUME NEW c \in Conn, Connect(c)  PROVE LinkTypeOK'
  <2>1. <<IF sc.resume THEN MasterRes(sc.magic, scEnd) ELSE MasterNew(sc.magic)>>
          \in Seq(Frames)
    BY EndFields, Single DEF LinkTypeOK, MasterRes, MasterNew, Frames
  <2> QED BY <1>1, <2>1 DEF LinkTypeOK, Connect, master
<1>2. ASSUME NEW free \in BOOLEAN, ScLose(free)  PROVE LinkTypeOK'
  <2>1. sc.conn \in Conn /\ breaks' \in Nat /\ Retry(scEnd) /\ scEnd \in Ends
    BY <1>2 DEF LinkTypeOK, ScLose, Breaks
  <2> QED BY <2>1, RetryType
<1>3. CASE ScKeepalive
  <2>1. <<Keepalive(scEnd)>> \in Seq(Frames)
    BY EndFields, Single DEF LinkTypeOK, Keepalive, Frames
  <2>2. up' \in [Conn -> Seq(Frames)]
    <3>1. CASE sc.conn \in Conn
      BY <1>3, <2>1, <3>1, PutUpIs DEF ScKeepalive
    <3>2. CASE sc.conn \notin Conn
      BY <1>3, <3>2 DEF ScKeepalive, PutUp, LinkTypeOK
    <3> QED BY <3>1, <3>2
  <2> QED BY <1>3, <2>2 DEF LinkTypeOK, ScKeepalive, master, scamper
<1>4. ASSUME NEW c \in Conn, NEW free \in BOOLEAN, RtLose(c, free)  PROVE LinkTypeOK'
  BY <1>4, CloseIs DEF LinkTypeOK, RtLose, scamper, Breaks
<1>5. ASSUME NEW m \in Magic, RtKeepalive(m)  PROVE LinkTypeOK'
  <2>1. <<Keepalive(rtEnd[m])>> \in Seq(Frames) /\ at[m] \in Conn \cup {NoConn}
    BY EndFields, Single DEF LinkTypeOK, Keepalive, Frames
  <2>2. down' \in [Conn -> Seq(Frames)]
    BY <1>5, <2>1, PutDownIs DEF RtKeepalive
  <2> QED BY <1>5, <2>2 DEF LinkTypeOK, RtKeepalive, master, scamper
<1>6. ASSUME NEW m \in Magic, Expire(m)  PROVE LinkTypeOK'
  BY <1>6 DEF LinkTypeOK, Expire, scamper
<1>7. CASE RtRestart
  BY <1>7, CloseIs DEF LinkTypeOK, RtRestart, scamper, Breaks
<1>8. ASSUME NEW c \in Conn, Silence(c)  PROVE LinkTypeOK'
  <2>1. /\ CloseConns({c}) /\ Breaks(FALSE) /\ sc' = [sc EXCEPT !.silent = TRUE]
        /\ at' = [m \in Magic |-> IF at[m] = c THEN NoConn ELSE at[m]]
        /\ down' = [down EXCEPT ![c] = <<>>]
        /\ scEnd' = scEnd /\ alive' = alive /\ rtEnd' = rtEnd
    BY <1>8 DEF Silence
  <2>2. ropen' \in SUBSET Conn /\ up' \in [Conn -> Seq(Frames)]
    BY <2>1, CloseIs
  <2>3. at' \in [Magic -> Conn \cup {NoConn}] /\ breaks' \in Nat
    BY <2>1 DEF LinkTypeOK, Breaks
  <2>4. down' \in [Conn -> Seq(Frames)]
    <3>1. <<>> \in Seq(Frames)
      BY EmptySeq
    <3> QED BY <2>1, <3>1 DEF LinkTypeOK
  <2>5. sc' \in [conn : Conn \cup {NoConn}, mode : {"connect", "go"},
                 resume : BOOLEAN, magic : Magic, silent : BOOLEAN]
    BY <2>1 DEF LinkTypeOK
  <2> QED BY <2>1, <2>2, <2>3, <2>4, <2>5 DEF LinkTypeOK
<1> QED BY <1>1, <1>2, <1>3, <1>4, <1>5, <1>6, <1>7, <1>8

LEMMA TypeStep ==
  LinkTypeOK /\ [LinkNext]_link => LinkTypeOK'
<1> SUFFICES ASSUME LinkTypeOK, [LinkNext]_link  PROVE LinkTypeOK'
  OBVIOUS
<1>1. CASE UNCHANGED link
  BY <1>1 DEF LinkTypeOK, link
<1>2. CASE LinkQuiet
  <2>1. CASE ScRead
    BY <2>1, ScType, ScHasIs DEF ScRead
  <2> QED BY <1>2, <2>1, QuietType, RtHandshakeType, RtReadType DEF LinkQuiet
<1>3. ASSUME NEW refuse \in BOOLEAN, ScReadMsg(refuse)  PROVE LinkTypeOK'
  BY <1>3, ScType, ScHasIs DEF ScReadMsg
<1> QED BY <1>1, <1>2, <1>3, SendType, RtReadType DEF LinkNext

(* In every reachable state the frames, ends and connections are of their  *)
(* type (sc_remoted.c and scamper_control.c keep the numbers in uint32_t). *)
THEOREM LinkType == LinkSpec => []LinkTypeOK
BY InitType, TypeStep, PTL DEF LinkSpec

-----------------------------------------------------------------------------
(* What an end does to the flows it is at an end of.                       *)

LEMMA FlowNil ==
  ASSUME NEW r \in Ends, NEW s \in Ends
  PROVE  /\ r.rcv <= Len(s.log) /\ r.una <= s.rcv => Flow(<<>>, r, s, r.rcv, r.una)
         /\ \A q, a : Flow(<<>>, r, s, q, a) => q = r.rcv /\ a = r.una
<1>1. r.rcv \in Nat /\ r.una \in Nat /\ s.rcv \in Nat /\ Len(s.log) \in Nat
  BY EndFields
<1>2. ASSUME NEW q, NEW a, Flow(<<>>, r, s, q, a)  PROVE q = r.rcv /\ a = r.una
  <2>1. q \in Nat /\ a \in Nat
    BY <1>1, <1>2 DEF Flow
  <2> QED BY <1>1, <1>2, <2>1, AlongEmpty DEF Flow
<1>3. r.rcv <= Len(s.log) /\ r.una <= s.rcv => Flow(<<>>, r, s, r.rcv, r.una)
  BY <1>1, AlongEmpty DEF Flow
<1> QED BY <1>2, <1>3

(* the sender changes otherwise than by sending                            *)
LEMMA FlowSame ==
  ASSUME NEW w, NEW r \in Ends, NEW s \in Ends, NEW r2 \in Ends, NEW s2 \in Ends,
         r2.rcv = r.rcv, r2.una = r.una, s2.log = s.log, s.rcv <= s2.rcv,
         NEW q, NEW a, Flow(w, r, s, q, a)
  PROVE  Flow(w, r2, s2, q, a)
BY EndFields DEF Flow

LEMMA FlowSent ==
  ASSUME NEW w \in Seq(Frames), NEW r \in Ends, NEW s \in Ends, NEW b \in Body,
         NEW q, NEW a, Flow(w, r, s, q, a)
  PROVE  /\ Flow(w, r, Sent(s, b), q, a)
         /\ q = Len(s.log) => Flow(Append(w, Msg(Len(s.log), b)), r, Sent(s, b), q + 1, a)
<1>1. /\ s.log \in Seq(Body) /\ Len(s.log) \in Nat /\ s.rcv \in Nat
      /\ q \in Nat /\ a \in Nat /\ q <= Len(s.log)
  BY EndFields DEF Flow
<1>2. Along(w, Sent(s, b).log, r.rcv, r.una, q, a)
  <2>1. Len(w) \in Nat /\ Along(w, s.log, r.rcv, r.una, q, a)
    BY LenProperties DEF Flow
  <2>2. Along(w, Append(s.log, b), r.rcv, r.una, q, a)
    BY <1>1, <2>1, AlongLog
  <2> QED BY <2>2, SentIs
<1>3. Flow(w, r, Sent(s, b), q, a)
  BY <1>1, <1>2, SentIs DEF Flow
<1>4. ASSUME q = Len(s.log)
      PROVE  Flow(Append(w, Msg(Len(s.log), b)), r, Sent(s, b), q + 1, a)
  <2>1. Carries(Msg(Len(s.log), b), Sent(s, b).log, q, a, q + 1, a)
    BY <1>1, <1>4, SentIs DEF Carries
  <2>2. Along(Append(w, Msg(Len(s.log), b)), Sent(s, b).log, r.rcv, r.una, q + 1, a)
    <3>1. Msg(Len(s.log), b) \in Frames /\ q + 1 \in Nat /\ q <= q + 1 /\ a <= a
      BY <1>1, FrameTypes
    <3> QED BY <1>1, <1>2, <2>1, <3>1, AlongAppend
  <2> QED BY <1>1, <1>4, <2>2, SentIs DEF Flow
<1> QED BY <1>3, <1>4

LEMMA FlowKeepalive ==
  ASSUME NEW w \in Seq(Frames), NEW r \in Ends, NEW s \in Ends,
         NEW q, NEW a, Flow(w, r, s, q, a), q = Len(s.log)
  PROVE  Flow(Append(w, Keepalive(s)), r, s, q, a)
<1>1. Len(s.log) \in Nat /\ s.rcv \in Nat /\ q \in Nat /\ a \in Nat
  BY EndFields DEF Flow
<1>2. Carries(Keepalive(s), s.log, q, a, q, a) /\ Keepalive(s) \in Frames
  BY <1>1 DEF Carries, Keepalive, Frames
<1>3. Along(Append(w, Keepalive(s)), s.log, r.rcv, r.una, q, a)
  BY <1>1, <1>2, AlongAppend DEF Flow
<1> QED BY <1>3 DEF Flow

(* the sender took the other end's message, and acknowledges it            *)
LEMMA FlowTaken ==
  ASSUME NEW w \in Seq(Frames), NEW r \in Ends, NEW s \in Ends, NEW b \in Body,
         NEW q, NEW a, Flow(w, r, s, q, a)
  PROVE  /\ Flow(w, r, Taken(s, b), q, a)
         /\ q = Len(s.log) /\ a = s.rcv =>
              Flow(Append(w, Ack(s, s.rcv)), r, Taken(s, b), q, a + 1)
<1>1. Len(s.log) \in Nat /\ s.rcv \in Nat /\ q \in Nat /\ a \in Nat /\ a <= s.rcv
  BY EndFields DEF Flow
<1>2. Flow(w, r, Taken(s, b), q, a)
  BY <1>1, TakenIs DEF Flow
<1>3. ASSUME q = Len(s.log), a = s.rcv
      PROVE  Flow(Append(w, Ack(s, s.rcv)), r, Taken(s, b), q, a + 1)
  <2>1. Carries(Ack(s, s.rcv), s.log, q, a, q, a + 1) /\ Ack(s, s.rcv) \in Frames
    BY <1>1, <1>3, FrameTypes DEF Carries, Ack, Frames
  <2>2. Along(Append(w, Ack(s, s.rcv)), s.log, r.rcv, r.una, q, a + 1)
    <3>1. a + 1 \in Nat /\ a <= a + 1 /\ q <= q
      BY <1>1
    <3> QED BY <1>1, <2>1, <3>1, AlongAppend DEF Flow
  <2> QED BY <1>1, <1>3, <2>2, TakenIs DEF Flow
<1> QED BY <1>2, <1>3

(* what was not acknowledged, to an end that has what was                  *)
LEMMA FlowUnacked ==
  ASSUME NEW r \in Ends, NEW s \in Ends, s.una <= Len(s.log), r.rcv = s.una, r.una <= s.rcv
  PROVE  Flow(Unacked(s), r, s, Len(s.log), r.una)
BY EndFields, AlongUnacked DEF Flow

(* the receiver reads a frame                                              *)
LEMMA FlowRead ==
  ASSUME NEW w \in Seq(Frames), w # <<>>, NEW r \in Ends, NEW s \in Ends,
         NEW q, NEW a, Flow(w, r, s, q, a), NEW f, f = Head(w)
  PROVE  /\ f.type \in {"MSG", "ACK", "KEEPALIVE"} /\ f.seq = r.rcv
         /\ f.type = "KEEPALIVE" => Flow(Tail(w), r, s, q, a)
         /\ f.type = "ACK" => /\ f.ack = r.una /\ r.una < s.rcv
                              /\ Flow(Tail(w), Acked(r), s, q, a)
         /\ f.type = "MSG" => /\ r.rcv < Len(s.log) /\ f.body = s.log[r.rcv + 1]
                              /\ Flow(Tail(w), Taken(r, f.body), s, q, a)
<1>1. Len(s.log) \in Nat /\ s.rcv \in Nat /\ r.rcv \in Nat /\ r.una \in Nat
  BY EndFields
<1>2. q \in Nat /\ a \in Nat /\ q <= Len(s.log) /\ a <= s.rcv
  BY <1>1 DEF Flow
<1>3. PICK q1 \in 0 .. q, a1 \in 0 .. a :
        /\ Carries(f, s.log, r.rcv, r.una, q1, a1)
        /\ Along(Tail(w), s.log, q1, a1, q, a)
  BY <1>2, AlongHead DEF Flow
<1>4. /\ f.type = "KEEPALIVE" => f.seq = r.rcv /\ q1 = r.rcv /\ a1 = r.una
      /\ f.type = "ACK" => f.seq = r.rcv /\ f.ack = r.una /\ q1 = r.rcv /\ a1 = r.una + 1
      /\ f.type = "MSG" => /\ f.seq = r.rcv /\ r.rcv < Len(s.log) /\ f.body = s.log[r.rcv + 1]
                           /\ q1 = r.rcv + 1 /\ a1 = r.una
      /\ f.type \in {"MSG", "ACK", "KEEPALIVE"}
  BY <1>3 DEF Carries, Msg
<1>5. f.type = "KEEPALIVE" => Flow(Tail(w), r, s, q, a)
  BY <1>3, <1>4 DEF Flow
<1>6. f.type = "ACK" => r.una < s.rcv /\ Flow(Tail(w), Acked(r), s, q, a)
  <2>1. f.type = "ACK" => r.una < s.rcv
    BY <1>1, <1>2, <1>3, <1>4
  <2> QED BY <1>3, <1>4, <2>1, AckedIs DEF Flow
<1>7. ASSUME f.type = "MSG"  PROVE Flow(Tail(w), Taken(r, f.body), s, q, a)
  <2>1. r.rcv + 1 \in 1 .. Len(s.log) /\ s.log \in Seq(Body)
    BY <1>1, <1>4, <1>7, EndFields
  <2>2. f.body \in Body
    BY <1>4, <1>7, <2>1, ElementOfSeq
  <2> QED BY <1>3, <1>4, <1>7, <2>2, TakenIs DEF Flow
<1> QED BY <1>4, <1>5, <1>6, <1>7

-----------------------------------------------------------------------------
(* The inductive invariant, one action at a time.                          *)

LEMMA Ctx ==
  ASSUME IInv
  PROVE  /\ sc.conn \in Conn \cup {NoConn} /\ sc.magic \in Magic /\ NoConn \notin Conn
         /\ sc.mode \in {"connect", "go"} /\ sc.resume \in BOOLEAN
         /\ scEnd \in Ends /\ R \in Ends /\ R = rtEnd[sc.magic]
         /\ Held \in Conn \cup {NoConn} /\ Held = at[sc.magic]
         /\ Held # NoConn => sc.magic \in alive /\ Held \in ropen
         /\ ropen \subseteq Conn
         /\ \A m \in Magic : m \in alive => m = sc.magic
         /\ \A m \in Magic : m # sc.magic => at[m] = NoConn
         /\ \A c \in Conn : up[c] \in Seq(Frames) /\ down[c] \in Seq(Frames)
         /\ \A m \in Magic : rtEnd[m] \in Ends
BY LinkAssumption DEF IInv, LinkTypeOK, Shape, R, Held

(* a greeting that waits stays one                                         *)
LEMMA GreetingStays ==
  ASSUME IInv, LinkTypeOK', NEW c \in ropen, c # Held, up'[c] = up[c],
         sc'.magic = sc.magic, sc.resume => sc'.resume, scEnd.rcv <= scEnd'.rcv,
         Greeted' /\ sc.magic \notin alive' => Greeted /\ sc.magic \notin alive
  PROVE  GreetsOn(c)'
<1>1. Len(up[c]) = 1 /\ Greeting(up[c][1])
  BY DEF IInv, Greets, GreetsOn
<1>2. up[c][1] \in Frames
  BY <1>1, Ctx, ElementOfSeq
<1> DEFINE f == up[c][1]
<1>3. scEnd.rcv \in Nat /\ scEnd'.rcv \in Nat
  BY Ctx, EndFields DEF LinkTypeOK
<1>4. CASE f = MasterNew(sc.magic) /\ (Greeted => sc.magic \in alive)
  BY <1>1, <1>4 DEF Greeting, GreetsOn
<1>5. CASE f.type = "MASTER_RES" /\ (f.magic = sc.magic => sc.resume /\ f.rcv_nxt <= scEnd.rcv)
  <2>1. f.rcv_nxt \in Nat
    BY <1>2, <1>5, FrameFields
  <2> QED BY <1>1, <1>3, <1>5, <2>1 DEF Greeting, GreetsOn
<1> QED BY <1>1, <1>4, <1>5 DEF Greeting, GreetsOn

LEMMA InitInv == Init => IInv
<1> SUFFICES ASSUME Init PROVE IInv
  OBVIOUS
<1>1. LinkTypeOK
  BY InitType
<1>2. /\ sc.conn = NoConn /\ sc.mode = "connect" /\ ~sc.resume /\ sc.magic \in Magic
      /\ scEnd = NewEnd /\ R = NewEnd /\ Held = NoConn
  BY <1>1 DEF Init, R, Held, LinkTypeOK
<1>3. Shape
  BY <1>2 DEF Shape, Init
<1>4. Window /\ GotInv
  BY <1>2, NewEndIs DEF Window, GotInv
<1>5. Greets /\ DownInv /\ UpInv
  BY <1>2, LinkAssumption DEF Greets, DownInv, UpInv, Init
<1> QED BY <1>1, <1>3, <1>4, <1>5 DEF IInv

LEMMA ConnectInv ==
  ASSUME IInv, LinkTypeOK', NEW c \in Conn, Connect(c)
  PROVE  IInv'
<1>1. /\ sc.conn = NoConn /\ c \notin ropen /\ c # NoConn /\ c # Held
      /\ sc.mode = "connect" /\ down[c] = <<>>
  BY Ctx DEF Connect, IInv, Shape
<1>2. /\ sc'.conn = c /\ sc'.mode = "connect" /\ sc'.resume = sc.resume
      /\ sc'.magic = sc.magic /\ ropen' = ropen \cup {c}
      /\ scEnd' = scEnd /\ R' = R /\ Held' = Held /\ alive' = alive /\ at' = at
      /\ down' = down
  BY <1>1 DEF Connect, R, Held, master, IInv, LinkTypeOK
<1>3. /\ up'[c] = <<IF sc.resume THEN MasterRes(sc.magic, scEnd) ELSE MasterNew(sc.magic)>>
      /\ \A d \in Conn : d # c => up'[d] = up[d]
  BY DEF Connect, IInv, LinkTypeOK
<1>4. Shape'
  <2>1. IInv /\ Shape
    BY DEF IInv
  <2>2. \A d \in Conn : (d \notin ropen' => up'[d] = <<>>) /\ (d # c => down'[d] = <<>>)
    BY <2>1, <1>1, <1>2, <1>3, Ctx DEF Shape
  <2> QED BY <2>1, <2>2, <1>1, <1>2, Ctx DEF Shape
<1>5. Window' /\ GotInv'
  BY <1>2 DEF Window, GotInv, IInv
<1>6. Greets'
  <2>1. (Greeted' <=> sc.resume) /\ (sc.resume => Greeted)
    BY <1>1, <1>2 DEF Greeted
  <2>2. ASSUME NEW d \in ropen, d # Held
        PROVE  GreetsOn(d)'
    <3>1. d \in Conn /\ d # c /\ scEnd.rcv <= scEnd'.rcv
      BY <1>1, <1>2, Ctx, EndFields
    <3> QED BY <1>2, <1>3, <2>1, <2>2, <3>1, GreetingStays
  <2>3. GreetsOn(c)'
    <3>1. CASE sc.resume
      BY <1>2, <1>3, <2>1, <3>1, Ctx, EndFields DEF Greeting, GreetsOn, MasterRes
    <3>2. CASE ~sc.resume
      BY <1>2, <1>3, <2>1, <3>2 DEF Greeting, GreetsOn
    <3> QED BY <3>1, <3>2
  <2>4. /\ sc'.mode = "connect" /\ down'[c] = <<>>
        /\ up'[c] = <<IF sc'.resume THEN MasterRes(sc'.magic, scEnd')
                                    ELSE MasterNew(sc'.magic)>>
    BY <1>1, <1>2, <1>3
  <2> QED BY <1>2, <2>2, <2>3, <2>4 DEF Greets
<1>7. DownInv'
  BY <1>1, <1>2 DEF DownInv, DownWait
<1>8. UpInv'
  BY <1>1, <1>2, <1>3, Ctx DEF UpInv, IInv
<1> QED BY <1>4, <1>5, <1>6, <1>7, <1>8 DEF IInv

(* a connection given up, perhaps after one more message was taken         *)
LEMMA RetryInv ==
  ASSUME IInv, LinkTypeOK', NEW e \in Ends, Retry(e), sc.conn \in Conn,
         e.log = scEnd.log, e.una = scEnd.una, scEnd.rcv <= e.rcv, e.rcv <= Len(R.log),
         Len(e.got) = e.rcv, \A i \in 1 .. e.rcv : e.got[i] = R.log[i]
  PROVE  IInv'
<1>1. /\ sc'.conn = NoConn /\ sc'.mode = "connect" /\ sc'.resume = sc.resume
      /\ sc'.magic = sc.magic /\ ropen' = ropen /\ up' = up
      /\ R' = R /\ Held' = Held /\ alive' = alive /\ at' = at
  BY DEF Retry, R, Held, master, IInv, LinkTypeOK
<1>2. down'[sc.conn] = <<>> /\ \A d \in Conn : d # sc.conn => down'[d] = down[d]
  BY DEF Retry, IInv, LinkTypeOK
<1>3. scEnd' = IF sc.resume THEN e ELSE NewEnd
  BY DEF Retry, Forgotten
<1>4. /\ scEnd'.log = scEnd.log /\ scEnd'.una = scEnd.una /\ scEnd.rcv <= scEnd'.rcv
      /\ scEnd'.rcv <= Len(R.log) /\ Len(scEnd'.got) = scEnd'.rcv
      /\ \A i \in 1 .. scEnd'.rcv : scEnd'.got[i] = R.log[i]
  <2>1. CASE sc.resume
    BY <1>3, <2>1
  <2>2. CASE ~sc.resume
    BY <1>3, <2>2, NewEndIs, EndFields, Ctx DEF IInv, Shape
  <2> QED BY <2>1, <2>2
<1>5. Shape'
  BY <1>1, <1>2, <1>3, Ctx DEF Shape, IInv
<1>6. Window' /\ GotInv'
  BY <1>1, <1>4, Ctx, EndFields DEF Window, GotInv, IInv
<1>7. Greets'
  <2>2. Greeted' => Greeted
    BY <1>1 DEF Greeted
  <2>3. ASSUME NEW c \in ropen, c # Held
        PROVE  GreetsOn(c)'
    BY <1>1, <1>4, <2>2, <2>3, GreetingStays
  <2> QED BY <1>1, <2>3, Ctx DEF Greets
<1>8. DownInv'
  BY <1>1 DEF DownInv
<1>9. UpInv'
  <2>1. CASE Held = NoConn
    BY <1>1, <2>1 DEF UpInv
  <2>2. CASE Held # NoConn
    <3>1. PICK q \in 0 .. Len(scEnd.log), a \in 0 .. scEnd.rcv : Flow(up[Held], R, scEnd, q, a)
      BY <2>2 DEF IInv, UpInv
    <3>2. scEnd' \in Ends
      BY DEF LinkTypeOK
    <3>3. Flow(up[Held], R, scEnd', q, a)
      BY <1>4, <3>1, <3>2, FlowSame, Ctx
    <3>4. q \in 0 .. Len(scEnd'.log) /\ a \in 0 .. scEnd'.rcv
      BY <3>3 DEF Flow
    <3>5. sc'.mode # "go"
      BY <1>1
    <3> HIDE <3>1
    <3> QED BY <1>1, <3>3, <3>4, <3>5 DEF UpInv
  <2> QED BY <2>1, <2>2
<1> QED BY <1>5, <1>6, <1>7, <1>8, <1>9 DEF IInv

(* what waits for scamper before it is in mode go                          *)
LEMMA WaitIs ==
  ASSUME IInv, ScHas, sc.mode = "connect"
  PROVE  /\ sc.conn \in Conn /\ ScHead \in Frames
         /\ sc.conn \in ropen => sc.conn = Held
         /\ ScHead.type \in {"MASTER_ID", "MASTER_OK", "MASTER_REJ"}
         /\ ScHead.type = "MASTER_REJ" => sc.resume /\ sc.magic \notin alive
         /\ ScHead.type # "MASTER_REJ" => Answer
<1>1. sc.conn \in Conn /\ down[sc.conn] # <<>> /\ ScHead \in Frames /\ sc.conn # NoConn
  BY ScHasIs DEF IInv, ScHas
<1>2. sc.conn \in ropen => sc.conn = Held
  BY <1>1 DEF IInv, Greets
<1>3. (down[sc.conn] = <<MasterRej>> /\ sc.resume /\ sc.magic \notin alive) \/ Answer
  BY <1>1 DEF IInv, DownInv, DownWait
<1>4. CASE down[sc.conn] = <<MasterRej>> /\ sc.resume /\ sc.magic \notin alive
  <2>1. ScHead.type = "MASTER_REJ"
    BY <1>4 DEF ScHead, MasterRej
  <2> QED BY <1>1, <1>2, <1>4, <2>1
<1>5. CASE Answer
  <2>1. ScHead = IF sc.resume THEN MasterOk(R) ELSE MasterId
    BY <1>5 DEF Answer
  <2>2. ScHead.type \in {"MASTER_ID", "MASTER_OK"}
    BY <2>1 DEF MasterOk, MasterId
  <2> QED BY <1>1, <1>2, <1>5, <2>2
<1> QED BY <1>3, <1>4, <1>5

LEMMA MasterIdInv ==
  ASSUME IInv, LinkTypeOK', ScHas, sc.mode = "connect", ScHead.type = "MASTER_ID",
         ScHandshake(ScHead)
  PROVE  IInv'
<1> DEFINE c == sc.conn
<1>1. c \in Conn /\ c # NoConn /\ (c \in ropen => c = Held) /\ Answer
  BY WaitIs, Ctx DEF ScHas
<1>2. /\ sc' = [sc EXCEPT !.resume = TRUE, !.mode = "go"]
      /\ down' = [down EXCEPT ![sc.conn] = Tail(@)]
      /\ UNCHANGED <<scEnd, up, ropen, master>>
  BY DEF ScHandshake
<1>3. /\ sc'.conn = c /\ sc'.mode = "go" /\ sc'.resume /\ sc'.magic = sc.magic
      /\ R' = R /\ Held' = Held /\ scEnd' = scEnd /\ up' = up /\ ropen' = ropen
      /\ alive' = alive /\ at' = at
      /\ down'[c] = Tail(down[c]) /\ \A d \in Conn : d # c => down'[d] = down[d]
  BY <1>1, <1>2 DEF master, R, Held, IInv, LinkTypeOK
<1>4. ~sc.resume /\ scEnd = NewEnd
  <2>1. ~sc.resume
    BY <1>1 DEF Answer, MasterOk
  <2> QED BY <2>1 DEF IInv, Shape
<1>5. R.rcv = 0 /\ Trim(scEnd, R.rcv) = scEnd
  <2>1. R.rcv = 0
    BY <1>4, NewEndIs, Ctx, EndFields DEF IInv, Window
  <2>2. Trim(NewEnd, 0) = NewEnd
    BY NewEndIs DEF Trim, NewEnd
  <2> QED BY <1>4, <2>1, <2>2
<1>6. Shape'
  BY <1>1, <1>3, Ctx DEF Shape, IInv
<1>7. Window' /\ GotInv'
  BY <1>3 DEF Window, GotInv, IInv
<1>8. Greets'
  <2>1. Greeted
    BY <1>1 DEF Greeted, Answer
  <2>2. ASSUME NEW d \in ropen, d # Held  PROVE GreetsOn(d)'
    <3>1. scEnd.rcv <= scEnd'.rcv
      BY <1>3, Ctx, EndFields
    <3> QED BY <1>3, <2>1, <2>2, <3>1, GreetingStays
  <2> QED BY <1>1, <1>3, <2>2 DEF Greets
<1>9. DownInv'
  <2>1. PICK q \in 0 .. Len(R.log) :
          /\ Flow(Tail(down[c]), Trim(scEnd, R.rcv), R, q, R.rcv)
          /\ Held = c => q = Len(R.log) /\ R.una = scEnd.rcv
    BY <1>1 DEF Answer
  <2>2. DownGo'
    BY <1>3, <1>5, <2>1, Ctx, EndFields DEF DownGo
  <2> QED BY <1>3, <2>2 DEF DownInv
<1>10. UpInv'
  <2>1. CASE Held # NoConn
    <3>1. up[Held] = <<>> /\ (Held = c => R.una = scEnd.rcv)
      BY <1>1, <2>1 DEF Answer
    <3>2. Flow(<<>>, R, scEnd, R.rcv, R.una) /\ R.rcv = Len(scEnd.log)
      BY <1>4, <1>5, FlowNil, NewEndIs, Ctx, EndFields DEF IInv, Window
    <3>3. R.rcv \in 0 .. Len(scEnd.log) /\ R.una \in 0 .. scEnd.rcv
      BY <3>2 DEF Flow
    <3> QED BY <1>3, <3>1, <3>2, <3>3 DEF UpInv
  <2> QED BY <1>3, <2>1 DEF UpInv
<1> QED BY <1>6, <1>7, <1>8, <1>9, <1>10 DEF IInv

LEMMA MasterOkInv ==
  ASSUME IInv, LinkTypeOK', ScHas, sc.mode = "connect", ScHead.type = "MASTER_OK",
         ScHandshake(ScHead)
  PROVE  IInv'
<1> DEFINE c == sc.conn
           e == Trim(scEnd, R.rcv)
<1>1. c \in Conn /\ c # NoConn /\ (c \in ropen => c = Held) /\ Answer
  BY WaitIs, Ctx DEF ScHas
<1>2. sc.resume /\ ScHead.rcv_nxt = R.rcv
  BY <1>1 DEF Answer, MasterOk, MasterId
<1>3. /\ sc' = [sc EXCEPT !.mode = "go"] /\ scEnd' = e
      /\ PutUp(sc.conn, Unacked(e))
      /\ down' = [down EXCEPT ![sc.conn] = Tail(@)]
      /\ UNCHANGED <<ropen, master>>
  BY <1>2 DEF ScHandshake
<1>4. /\ sc'.conn = c /\ sc'.mode = "go" /\ sc'.resume /\ sc'.magic = sc.magic
      /\ R' = R /\ Held' = Held /\ ropen' = ropen /\ alive' = alive /\ at' = at
      /\ down'[c] = Tail(down[c]) /\ \A d \in Conn : d # c => down'[d] = down[d]
  BY <1>1, <1>2, <1>3 DEF master, R, Held, IInv, LinkTypeOK
<1>5. /\ e \in Ends /\ e.log = scEnd.log /\ e.una = R.rcv /\ e.rcv = scEnd.rcv
      /\ e.got = scEnd.got
  BY TrimIs, Ctx, EndFields DEF IInv, Window
<1>6. /\ c \notin ropen => up' = up
      /\ c \in ropen => up'[c] = up[c] \o Unacked(e)
      /\ \A d \in Conn : d # c => up'[d] = up[d]
  <2>1. Unacked(e) \in Seq(Frames) /\ LinkTypeOK
    BY <1>5, UnackedType DEF IInv
  <2> QED BY <1>1, <1>3, <2>1, PutUpIs
<1>7. Held # NoConn => up[Held] = <<>>
  BY <1>1 DEF Answer
<1> HIDE DEF e
<1>8. Shape'
  BY <1>1, <1>4, <1>6, Ctx DEF Shape, IInv
<1>9. Window' /\ GotInv'
  BY <1>3, <1>4, <1>5, Ctx, EndFields DEF Window, GotInv, IInv
<1>10. Greets'
  <2>1. Greeted
    BY <1>2 DEF Greeted
  <2>2. ASSUME NEW d \in ropen, d # Held  PROVE GreetsOn(d)'
    <3>1. scEnd.rcv <= scEnd'.rcv /\ d # c /\ d \in Conn
      BY <1>1, <1>3, <1>5, <2>2, Ctx, EndFields
    <3> QED BY <1>4, <1>6, <2>1, <2>2, <3>1, GreetingStays
  <2> QED BY <1>1, <1>4, <2>2 DEF Greets
<1>11. DownInv'
  <2>1. PICK q \in 0 .. Len(R.log) :
          /\ Flow(Tail(down[c]), e, R, q, R.rcv)
          /\ Held = c => q = Len(R.log)
    BY <1>1 DEF Answer, e
  <2>2. DownGo'
    BY <1>3, <1>4, <2>1, Ctx, EndFields DEF DownGo
  <2> QED BY <1>4, <2>2 DEF DownInv
<1>12. UpInv'
  <2>1. CASE Held = c
    <3>1. up'[c] = Unacked(e) /\ R.una = scEnd.rcv
      <4>1. c \in ropen /\ up[c] = <<>> /\ R.una = scEnd.rcv
        BY <1>1, <1>7, <2>1, Ctx DEF Answer
      <4> QED BY <1>5, <1>6, <4>1, UnackedType, ConcatEmptySeq
    <3>2. Flow(Unacked(e), R, e, Len(e.log), R.una)
      BY <1>5, <3>1, FlowUnacked, Ctx, EndFields DEF IInv, Window
    <3>3. Len(e.log) \in 0 .. Len(e.log) /\ R.una \in 0 .. e.rcv
      BY <3>2 DEF Flow
    <3> QED BY <1>3, <1>4, <1>5, <2>1, <3>1, <3>2, <3>3 DEF UpInv
  <2>2. CASE Held # c /\ Held # NoConn
    <3>1. PICK q \in 0 .. Len(scEnd.log), a \in 0 .. scEnd.rcv : Flow(up[Held], R, scEnd, q, a)
      BY <2>2 DEF IInv, UpInv
    <3>2. Flow(up[Held], R, e, q, a)
      BY <1>5, <3>1, FlowSame, Ctx, EndFields
    <3>3. up'[Held] = up[Held] /\ q \in 0 .. Len(e.log) /\ a \in 0 .. e.rcv
      BY <1>6, <2>2, <3>2, Ctx DEF Flow
    <3> HIDE <3>1
    <3> QED BY <1>3, <1>4, <2>2, <3>2, <3>3 DEF UpInv
  <2> QED BY <1>4, <2>1, <2>2 DEF UpInv
<1> QED BY <1>8, <1>9, <1>10, <1>11, <1>12 DEF IInv

LEMMA MasterRejInv ==
  ASSUME IInv, LinkTypeOK', ScHas, sc.mode = "connect", ScHead.type = "MASTER_REJ",
         ScHandshake(ScHead)
  PROVE  IInv'
<1>1. sc.conn \in Conn /\ sc.conn # NoConn /\ sc.resume /\ sc.magic \notin alive
  BY WaitIs, Ctx DEF ScHas
<1>2. NewMagic
  BY DEF ScHandshake
<1>3. PICK m \in Magic \ (alive \cup {sc.magic}) :
        /\ \A c \in ropen : \A i \in DOMAIN up[c] :
             up[c][i].type \in {"MASTER_NEW", "MASTER_RES"} => up[c][i].magic # m
        /\ sc' = [conn |-> NoConn, mode |-> "connect", resume |-> FALSE, magic |-> m,
                     silent |-> FALSE]
        /\ scEnd' = Forgotten(scEnd)
        /\ rtEnd' = [rtEnd EXCEPT ![m] = NewEnd]
        /\ down' = [down EXCEPT ![sc.conn] = <<>>]
        /\ UNCHANGED <<up, ropen, alive, at>>
  BY <1>2 DEF NewMagic
<1>4. alive = {} /\ \A k \in Magic : at[k] = NoConn
  BY <1>1, Ctx DEF IInv, LinkTypeOK
<1>5. /\ sc'.conn = NoConn /\ sc'.mode = "connect" /\ ~sc'.resume /\ sc'.magic = m
      /\ scEnd' = NewEnd /\ R' = NewEnd /\ Held' = NoConn /\ Held = NoConn
      /\ \A d \in Conn : down'[d] = IF d = sc.conn THEN <<>> ELSE down[d]
  BY <1>1, <1>3, <1>4, Ctx DEF Forgotten, R, Held, IInv, LinkTypeOK
<1>6. Shape'
  BY <1>3, <1>4, <1>5 DEF Shape, IInv
<1>7. Window' /\ GotInv'
  BY <1>5, NewEndIs DEF Window, GotInv
<1>8. Greets'
  <2>1. ASSUME NEW c \in ropen  PROVE GreetsOn(c)'
    <3>1. c # Held /\ c \in Conn
      BY <1>5, Ctx
    <3>2. Len(up[c]) = 1 /\ Greeting(up[c][1])
      BY <3>1 DEF IInv, Greets, GreetsOn
    <3>3. up[c][1].type = "MASTER_RES"
      BY <1>1, <3>2 DEF Greeting, Greeted
    <3>4. up[c][1].magic # m
      BY <1>3, <3>2, <3>3, <3>1, Ctx, LenProperties
    <3> QED BY <1>3, <1>5, <3>2, <3>3, <3>4 DEF GreetsOn, Greeting
  <2>2. NoConn \notin ropen
    BY Ctx
  <2> QED BY <1>3, <1>5, <2>1, <2>2 DEF Greets
<1>9. DownInv' /\ UpInv'
  BY <1>5 DEF DownInv, UpInv
<1> QED BY <1>6, <1>7, <1>8, <1>9 DEF IInv

(* what waits for scamper in mode go                                       *)
LEMMA GoIs ==
  ASSUME IInv, sc.mode = "go"
  PROVE  /\ sc.conn \in Conn /\ sc.conn # NoConn /\ sc.resume
         /\ sc.conn \in ropen => sc.conn = Held
         /\ \E q \in 0 .. Len(R.log), a \in 0 .. R.rcv :
              /\ Flow(down[sc.conn], scEnd, R, q, a)
              /\ Held = sc.conn => q = Len(R.log) /\ a = R.rcv
<1>1. sc.conn \in Conn /\ sc.conn # NoConn /\ sc.resume
  BY Ctx DEF IInv, Shape
<1> QED BY <1>1 DEF IInv, Greets, DownInv, DownGo

(* Frames that only scamper's end and its wire take part in.               *)
LEMMA ScEndStep ==
  ASSUME IInv, LinkTypeOK', sc.mode = "go", scEnd' \in Ends,
         scEnd'.log = scEnd.log, scEnd.una <= scEnd'.una, scEnd'.una <= R.rcv,
         scEnd'.rcv = scEnd.rcv, scEnd'.got = scEnd.got,
         UNCHANGED <<sc, up, ropen, master>>,
         down' = [down EXCEPT ![sc.conn] = Tail(@)],
         NEW q \in 0 .. Len(R.log), NEW a \in 0 .. R.rcv,
         Flow(Tail(down[sc.conn]), scEnd', R, q, a),
         Held = sc.conn => q = Len(R.log) /\ a = R.rcv
  PROVE  IInv'
<1> DEFINE c == sc.conn
<1>1. c \in Conn /\ c # NoConn /\ sc.resume /\ (c \in ropen => c = Held)
  BY GoIs
<1>2. /\ sc' = sc /\ up' = up /\ ropen' = ropen /\ alive' = alive /\ at' = at
      /\ R' = R /\ Held' = Held /\ down'[c] = Tail(down[c])
      /\ \A d \in Conn : d # c => down'[d] = down[d]
  BY <1>1 DEF master, R, Held, IInv, LinkTypeOK
<1>3. Shape'
  BY <1>1, <1>2, Ctx DEF Shape, IInv
<1>4. Window' /\ GotInv'
  BY <1>2, Ctx, EndFields DEF Window, GotInv, IInv
<1>5. Greets'
  <2>1. ASSUME NEW d \in ropen, d # Held  PROVE GreetsOn(d)'
    <3>1. scEnd.rcv <= scEnd'.rcv /\ Greeted
      BY <1>1, Ctx, EndFields DEF Greeted
    <3> QED BY <1>2, <2>1, <3>1, GreetingStays
  <2> QED BY <1>1, <1>2, <2>1 DEF Greets
<1>6. DownInv'
  BY <1>2 DEF DownInv, DownGo
<1>7. UpInv'
  <2>1. CASE Held # NoConn
    <3>1. PICK p \in 0 .. Len(scEnd.log), n \in 0 .. scEnd.rcv :
            /\ Flow(up[Held], R, scEnd, p, n)
            /\ Held = c => p = Len(scEnd.log) /\ n = scEnd.rcv
      BY <2>1 DEF IInv, UpInv
    <3>2. Flow(up[Held], R, scEnd', p, n)
      BY <3>1, FlowSame, Ctx, EndFields
    <3> QED BY <1>2, <3>1, <3>2 DEF UpInv
  <2> QED BY <1>2, <2>1 DEF UpInv
<1> QED BY <1>3, <1>4, <1>5, <1>6, <1>7 DEF IInv

LEMMA ScFrameInv ==
  ASSUME IInv, LinkTypeOK', ScHas, sc.mode = "go", ScFrame(ScHead)
  PROVE  IInv'
<1> DEFINE f == ScHead
<1>1. PICK q \in 0 .. Len(R.log), a \in 0 .. R.rcv :
        /\ Flow(down[sc.conn], scEnd, R, q, a)
        /\ Held = sc.conn => q = Len(R.log) /\ a = R.rcv
  BY GoIs
<1>2. /\ f.type \in {"MSG", "ACK", "KEEPALIVE"} /\ f.seq = scEnd.rcv
      /\ f.type = "KEEPALIVE" => Flow(Tail(down[sc.conn]), scEnd, R, q, a)
      /\ f.type = "ACK" => /\ f.ack = scEnd.una /\ scEnd.una < R.rcv
                           /\ Flow(Tail(down[sc.conn]), Acked(scEnd), R, q, a)
  BY <1>1, FlowRead, ScHasIs, Ctx DEF IInv, ScHead
<1>3. f.type = "ACK" => AckFits(scEnd, f.ack)
  BY <1>2, Ctx, EndFields DEF AckFits, IInv, Window
<1>4. CASE f.type = "KEEPALIVE"
  <2>1. /\ down' = [down EXCEPT ![sc.conn] = Tail(@)]
        /\ UNCHANGED <<scamper, up, ropen, master>>
    BY <1>2, <1>4 DEF ScFrame
  <2>2. scEnd' = scEnd /\ sc' = sc /\ scEnd.una <= R.rcv
    BY <2>1 DEF scamper, IInv, Window
  <2> QED BY <1>1, <1>2, <1>4, <2>1, <2>2, ScEndStep, Ctx, EndFields
<1>5. CASE f.type = "ACK"
  <2>1. /\ down' = [down EXCEPT ![sc.conn] = Tail(@)] /\ scEnd' = Acked(scEnd)
        /\ UNCHANGED <<sc, up, ropen, master>>
    BY <1>2, <1>3, <1>5 DEF ScFrame
  <2>2. /\ scEnd' \in Ends /\ scEnd'.log = scEnd.log /\ scEnd.una <= scEnd'.una
        /\ scEnd'.una <= R.rcv /\ scEnd'.rcv = scEnd.rcv /\ scEnd'.got = scEnd.got
    BY <1>2, <1>5, <2>1, AckedIs, Ctx, EndFields
  <2> QED BY <1>1, <1>2, <1>5, <2>1, <2>2, ScEndStep
<1>6. CASE f.type = "MSG"
  BY <1>2, <1>6 DEF ScFrame
<1> QED BY <1>2, <1>4, <1>5, <1>6

LEMMA ScReadMsgInv ==
  ASSUME IInv, LinkTypeOK', NEW refuse \in BOOLEAN, ScReadMsg(refuse)
  PROVE  IInv'
<1> DEFINE f == ScHead
           c == sc.conn
           e == Taken(scEnd, f.body)
<1>1. ScHas /\ sc.mode = "go" /\ f.type = "MSG" /\ ScTake(f, refuse)
  BY DEF ScReadMsg, ScMsg
<1>2. PICK q \in 0 .. Len(R.log), a \in 0 .. R.rcv :
        /\ Flow(down[c], scEnd, R, q, a)
        /\ Held = c => q = Len(R.log) /\ a = R.rcv
  BY <1>1, GoIs
<1>3. /\ f.seq = scEnd.rcv /\ scEnd.rcv < Len(R.log) /\ f.body = R.log[scEnd.rcv + 1]
      /\ Flow(Tail(down[c]), e, R, q, a)
  BY <1>1, <1>2, FlowRead, ScHasIs, Ctx DEF IInv, ScHead
<1>4. f.body \in Body
  BY <1>1, ScHasIs, FrameFields DEF IInv
<1>5. /\ e \in Ends /\ e.log = scEnd.log /\ e.una = scEnd.una /\ e.rcv = scEnd.rcv + 1
      /\ scEnd.rcv <= e.rcv /\ e.rcv <= Len(R.log)
  <2>1. /\ e \in Ends /\ e.log = scEnd.log /\ e.una = scEnd.una /\ e.rcv = scEnd.rcv + 1
    BY <1>4, TakenIs, Ctx
  <2>2. scEnd.rcv \in Nat /\ Len(R.log) \in Nat
    BY Ctx, EndFields
  <2> HIDE DEF e
  <2> QED BY <1>3, <2>1, <2>2
<1>6. Len(e.got) = e.rcv /\ \A i \in 1 .. e.rcv : e.got[i] = R.log[i]
  <2>1. Len(scEnd.got) = scEnd.rcv /\ \A i \in 1 .. scEnd.rcv : scEnd.got[i] = R.log[i]
    BY DEF IInv, GotInv
  <2>2. /\ Len(e.got) = Len(scEnd.got) + 1 /\ e.got[Len(scEnd.got) + 1] = f.body
        /\ \A i \in 1 .. Len(scEnd.got) : e.got[i] = scEnd.got[i]
    BY <1>4, TakenIs, Ctx
  <2>3. \A i \in 1 .. e.rcv : i = scEnd.rcv + 1 \/ i \in 1 .. scEnd.rcv
    BY <1>5, Ctx, EndFields
  <2> HIDE DEF e
  <2> QED BY <1>3, <1>5, <2>1, <2>2, <2>3
<1>7. c \in Conn /\ c # NoConn /\ sc.resume /\ (c \in ropen => c = Held)
  BY <1>1, GoIs
<1> HIDE DEF e
<1>8. CASE refuse
  <2>1. Retry(e)
    BY <1>1, <1>8 DEF ScTake, e
  <2> QED BY <1>5, <1>6, <1>7, <2>1, RetryInv
<1>9. CASE ~refuse
  <2>1. /\ scEnd' = e /\ PutUp(c, <<Ack(scEnd, scEnd.rcv)>>)
        /\ down' = [down EXCEPT ![c] = Tail(@)]
        /\ UNCHANGED <<sc, ropen, master>>
    BY <1>1, <1>3, <1>9 DEF ScTake, e
  <2>2. /\ sc' = sc /\ ropen' = ropen /\ alive' = alive /\ at' = at
        /\ R' = R /\ Held' = Held /\ down'[c] = Tail(down[c])
        /\ \A d \in Conn : d # c => down'[d] = down[d]
    BY <1>7, <2>1 DEF master, R, Held, IInv, LinkTypeOK
  <2>3. /\ c \notin ropen => up' = up
        /\ c \in ropen => up'[c] = Append(up[c], Ack(scEnd, scEnd.rcv))
        /\ \A d \in Conn : d # c => up'[d] = up[d]
    <3>1. Ack(scEnd, scEnd.rcv) \in Frames
      BY <1>4, FrameTypes, Ctx, EndFields
    <3>2. <<Ack(scEnd, scEnd.rcv)>> \in Seq(Frames) /\ LinkTypeOK /\ up[c] \in Seq(Frames)
      BY <1>7, <3>1, Single, Ctx DEF IInv
    <3>3. up[c] \o <<Ack(scEnd, scEnd.rcv)>> = Append(up[c], Ack(scEnd, scEnd.rcv))
      BY <3>1, <3>2, One
    <3> HIDE DEF f, c
    <3> QED BY <1>7, <2>1, <3>2, <3>3, PutUpIs DEF c
  <2>4. Shape'
    BY <1>7, <2>2, <2>3, Ctx DEF Shape, IInv
  <2>5. Window' /\ GotInv'
    <3>1. Window /\ GotInv /\ R.una \in Nat /\ scEnd.rcv \in Nat /\ e.rcv \in Nat
      BY <1>5, Ctx, EndFields DEF IInv
    <3>2. Window'
      BY <1>5, <2>1, <2>2, <3>1 DEF Window
    <3>3. GotInv'
      BY <1>5, <1>6, <2>1, <2>2, <3>1 DEF GotInv
    <3> QED BY <3>2, <3>3
  <2>6. Greets'
    <3>1. ASSUME NEW d \in ropen, d # Held  PROVE GreetsOn(d)'
      <4>1. scEnd.rcv <= scEnd'.rcv /\ Greeted /\ d # c /\ d \in Conn
        BY <1>5, <1>7, <2>1, <3>1, Ctx DEF Greeted
      <4> QED BY <2>2, <2>3, <3>1, <4>1, GreetingStays
    <3> QED BY <1>7, <2>2, <3>1 DEF Greets
  <2>7. DownInv'
    BY <1>1, <1>2, <1>3, <2>1, <2>2 DEF DownInv, DownGo
  <2>8. UpInv'
    <3>1. CASE Held # NoConn
      <4>1. PICK p \in 0 .. Len(scEnd.log), n \in 0 .. scEnd.rcv :
              /\ Flow(up[Held], R, scEnd, p, n)
              /\ Held = c => p = Len(scEnd.log) /\ n = scEnd.rcv
        BY <1>1, <3>1 DEF IInv, UpInv
      <4>2. up[Held] \in Seq(Frames) /\ Held \in ropen
        BY <3>1, Ctx
      <4>3. CASE Held = c
        <5>1. Flow(Append(up[c], Ack(scEnd, scEnd.rcv)), R, e, p, n + 1)
          BY <1>4, <4>1, <4>2, <4>3, FlowTaken, Ctx DEF e
        <5>2. p \in 0 .. Len(e.log) /\ n + 1 \in 0 .. e.rcv /\ p = Len(e.log) /\ n + 1 = e.rcv
          BY <1>5, <4>1, <4>3, <5>1 DEF Flow
        <5> QED BY <2>1, <2>2, <2>3, <4>2, <4>3, <5>1, <5>2 DEF UpInv
      <4>4. CASE Held # c
        <5>1. Flow(up[Held], R, e, p, n)
          BY <1>4, <4>1, <4>2, FlowTaken, Ctx DEF e
        <5>2. p \in 0 .. Len(e.log) /\ n \in 0 .. e.rcv /\ up'[Held] = up[Held]
          BY <2>3, <4>2, <4>4, <5>1, Ctx DEF Flow
        <5> QED BY <2>1, <2>2, <4>4, <5>1, <5>2 DEF UpInv
      <4> QED BY <4>3, <4>4
    <3> QED BY <2>2, <3>1 DEF UpInv
  <2> QED BY <2>4, <2>5, <2>6, <2>7, <2>8 DEF IInv
<1> QED BY <1>8, <1>9

(* one frame written                                                       *)
LEMMA PutUpOne ==
  ASSUME LinkTypeOK, NEW c \in Conn, NEW f \in Frames, PutUp(c, <<f>>)
  PROVE  /\ c \notin ropen => up' = up
         /\ c \in ropen => up'[c] = Append(up[c], f)
         /\ \A d \in Conn : d # c => up'[d] = up[d]
<1>1. up[c] \in Seq(Frames) /\ <<f>> \in Seq(Frames)
  BY Single DEF LinkTypeOK
<1>2. up[c] \o <<f>> = Append(up[c], f)
  BY <1>1, One
<1> QED BY <1>1, <1>2, PutUpIs

LEMMA PutDownOne ==
  ASSUME LinkTypeOK, NEW c \in Conn \cup {NoConn}, NEW f \in Frames, PutDown(c, <<f>>)
  PROVE  /\ c = NoConn \/ c # sc.conn => down' = down
         /\ c # NoConn /\ c = sc.conn => down'[c] = Append(down[c], f)
         /\ \A d \in Conn : d # c => down'[d] = down[d]
<1>1. <<f>> \in Seq(Frames) /\ (c # NoConn => down[c] \in Seq(Frames))
  BY Single DEF LinkTypeOK
<1>2. c # NoConn => down[c] \o <<f>> = Append(down[c], f)
  BY <1>1, One
<1> QED BY <1>1, <1>2, PutDownIs

(* a frame scamper writes in mode go                                       *)
LEMMA ScSendInv ==
  ASSUME IInv, LinkTypeOK', NEW b \in Body, ScSend(b)
  PROVE  IInv'
<1> DEFINE c == sc.conn
           e == Sent(scEnd, b)
           f == Msg(Len(scEnd.log), b)
<1>1. /\ sc.mode = "go" /\ scEnd' = e /\ PutUp(c, <<f>>)
      /\ UNCHANGED <<sc, ropen, down, master>>
  BY DEF ScSend
<1>2. c \in Conn /\ c # NoConn /\ sc.resume /\ (c \in ropen => c = Held)
  BY <1>1, GoIs
<1>3. /\ sc' = sc /\ ropen' = ropen /\ alive' = alive /\ at' = at
      /\ R' = R /\ Held' = Held /\ down' = down
  BY <1>1 DEF master, R, Held
<1>4. scEnd \in Ends /\ Len(scEnd.log) \in Nat /\ scEnd.rcv \in Nat /\ R.rcv \in Nat
  BY Ctx, EndFields
<1>5. f \in Frames
  BY <1>4, FrameTypes
<1>6. /\ c \notin ropen => up' = up
      /\ c \in ropen => up'[c] = Append(up[c], f)
      /\ \A d \in Conn : d # c => up'[d] = up[d]
  BY <1>1, <1>2, <1>5, PutUpOne DEF IInv
<1>7. /\ e \in Ends /\ Len(e.log) = Len(scEnd.log) + 1
      /\ \A i \in 1 .. Len(scEnd.log) : e.log[i] = scEnd.log[i]
      /\ e.una = scEnd.una /\ e.rcv = scEnd.rcv /\ e.got = scEnd.got
  BY <1>4, SentIs
<1> HIDE DEF e, f
<1>8. Shape'
  BY <1>2, <1>3, <1>6, Ctx DEF Shape, IInv
<1>9. Window'
  BY <1>1, <1>3, <1>4, <1>7 DEF Window, IInv
<1>10. GotInv'
  <2>1. GotInv /\ R.rcv <= Len(scEnd.log)
    BY DEF IInv, Window
  <2> QED BY <1>1, <1>3, <1>4, <1>7, <2>1 DEF GotInv
<1>11. Greets'
  <2>1. ASSUME NEW d \in ropen, d # Held  PROVE GreetsOn(d)'
    <3>1. scEnd.rcv <= scEnd'.rcv /\ Greeted /\ d # c /\ d \in Conn
      BY <1>1, <1>2, <1>4, <1>7, <2>1, Ctx DEF Greeted
    <3> QED BY <1>3, <1>6, <2>1, <3>1, GreetingStays
  <2> QED BY <1>2, <1>3, <2>1 DEF Greets
<1>12. DownInv'
  <2>1. PICK q \in 0 .. Len(R.log), a \in 0 .. R.rcv :
          /\ Flow(down[c], scEnd, R, q, a)
          /\ Held = c => q = Len(R.log) /\ a = R.rcv
    BY <1>1, GoIs
  <2>2. Flow(down[c], e, R, q, a)
    BY <1>7, <2>1 DEF Flow
  <2> QED BY <1>1, <1>3, <2>1, <2>2 DEF DownInv, DownGo
<1>13. UpInv'
  <2>1. CASE Held # NoConn
    <3>1. PICK p \in 0 .. Len(scEnd.log), n \in 0 .. scEnd.rcv :
            /\ Flow(up[Held], R, scEnd, p, n)
            /\ Held = c => p = Len(scEnd.log) /\ n = scEnd.rcv
      BY <1>1, <2>1 DEF IInv, UpInv
    <3>2. up[Held] \in Seq(Frames) /\ Held \in ropen
      BY <2>1, Ctx
    <3>3. CASE Held = c
      <4>1. Flow(Append(up[c], f), R, e, p + 1, n)
        BY <1>4, <3>1, <3>2, <3>3, FlowSent, Ctx DEF e, f
      <4>2. p + 1 \in 0 .. Len(e.log) /\ n \in 0 .. e.rcv /\ p + 1 = Len(e.log) /\ n = e.rcv
        BY <1>7, <3>1, <3>3, <4>1 DEF Flow
      <4> QED BY <1>1, <1>3, <1>6, <3>2, <3>3, <4>1, <4>2 DEF UpInv
    <3>4. CASE Held # c
      <4>1. Flow(up[Held], R, e, p, n)
        BY <3>1, <3>2, FlowSent, Ctx DEF e
      <4>2. p \in 0 .. Len(e.log) /\ n \in 0 .. e.rcv /\ up'[Held] = up[Held]
        BY <1>6, <3>2, <3>4, <4>1, Ctx DEF Flow
      <4> QED BY <1>1, <1>3, <3>4, <4>1, <4>2 DEF UpInv
    <3> QED BY <3>3, <3>4
  <2> QED BY <1>3, <2>1 DEF UpInv
<1> QED BY <1>8, <1>9, <1>10, <1>11, <1>12, <1>13 DEF IInv

LEMMA ScKeepaliveInv ==
  ASSUME IInv, LinkTypeOK', ScKeepalive
  PROVE  IInv'
<1> DEFINE c == sc.conn
           f == Keepalive(scEnd)
<1>1. /\ sc.mode = "go" /\ PutUp(c, <<f>>)
      /\ UNCHANGED <<scamper, ropen, down, master>>
  BY DEF ScKeepalive
<1>2. c \in Conn /\ c # NoConn /\ sc.resume /\ (c \in ropen => c = Held)
  BY <1>1, GoIs
<1>3. /\ sc' = sc /\ scEnd' = scEnd /\ ropen' = ropen /\ alive' = alive /\ at' = at
      /\ R' = R /\ Held' = Held /\ down' = down
  BY <1>1 DEF master, scamper, R, Held
<1>4. f \in Frames
  BY Ctx, EndFields DEF Keepalive, Frames
<1>5. /\ c \notin ropen => up' = up
      /\ c \in ropen => up'[c] = Append(up[c], f)
      /\ \A d \in Conn : d # c => up'[d] = up[d]
  BY <1>1, <1>2, <1>4, PutUpOne DEF IInv
<1> HIDE DEF f
<1>6. Shape'
  BY <1>2, <1>3, <1>5, Ctx DEF Shape, IInv
<1>7. Window' /\ GotInv'
  BY <1>3 DEF Window, GotInv, IInv
<1>8. Greets'
  <2>1. ASSUME NEW d \in ropen, d # Held  PROVE GreetsOn(d)'
    <3>1. scEnd.rcv <= scEnd'.rcv /\ Greeted /\ d # c /\ d \in Conn
      BY <1>2, <1>3, <2>1, Ctx, EndFields DEF Greeted
    <3> QED BY <1>3, <1>5, <2>1, <3>1, GreetingStays
  <2> QED BY <1>2, <1>3, <2>1 DEF Greets
<1>9. DownInv'
  BY <1>1, <1>3 DEF DownInv, DownGo, IInv
<1>10. UpInv'
  <2>1. CASE Held # NoConn
    <3>1. PICK p \in 0 .. Len(scEnd.log), n \in 0 .. scEnd.rcv :
            /\ Flow(up[Held], R, scEnd, p, n)
            /\ Held = c => p = Len(scEnd.log) /\ n = scEnd.rcv
      BY <1>1, <2>1 DEF IInv, UpInv
    <3>2. up[Held] \in Seq(Frames) /\ Held \in ropen
      BY <2>1, Ctx
    <3>3. CASE Held = c
      <4>1. Flow(Append(up[c], f), R, scEnd, p, n)
        BY <3>1, <3>2, <3>3, FlowKeepalive, Ctx DEF f
      <4> QED BY <1>3, <1>5, <3>1, <3>2, <3>3, <4>1 DEF UpInv
    <3>4. CASE Held # c
      BY <1>3, <1>5, <3>1, <3>2, <3>4, Ctx DEF UpInv
    <3> QED BY <3>3, <3>4
  <2> QED BY <1>3, <2>1 DEF UpInv
<1> QED BY <1>6, <1>7, <1>8, <1>9, <1>10 DEF IInv

(* a master reads from the connection it holds                             *)
LEMMA HeldIs ==
  ASSUME IInv, NEW m \in alive, NEW c \in Conn, at[m] = c
  PROVE  /\ m \in Magic /\ m = sc.magic /\ c = Held /\ c \in ropen /\ c # NoConn /\ R = rtEnd[m]
         /\ up[c] # <<>> => ~(sc.conn # NoConn /\ sc.mode = "connect" /\ Answer)
         /\ \E q \in 0 .. Len(scEnd.log), a \in 0 .. scEnd.rcv :
              /\ Flow(up[c], R, scEnd, q, a)
              /\ c = sc.conn /\ sc.mode = "go" => q = Len(scEnd.log) /\ a = scEnd.rcv
<1>1. m \in Magic
  BY DEF IInv, LinkTypeOK
<1>2. m = sc.magic /\ c = Held /\ c # NoConn /\ c \in ropen /\ R = rtEnd[m]
  BY <1>1, Ctx
<1>3. \E q \in 0 .. Len(scEnd.log), a \in 0 .. scEnd.rcv :
        /\ Flow(up[c], R, scEnd, q, a)
        /\ c = sc.conn /\ sc.mode = "go" => q = Len(scEnd.log) /\ a = scEnd.rcv
  BY <1>2 DEF IInv, UpInv
<1> QED BY <1>1, <1>2, <1>3 DEF Answer

(* Frames that only a master's end and its wire take part in.              *)
LEMMA RtEndStep ==
  ASSUME IInv, LinkTypeOK', NEW c \in Conn, NEW m \in alive, at[m] = c, up[c] # <<>>,
         NEW e \in Ends, e.log = R.log, R.una <= e.una, e.una <= scEnd.rcv,
         e.rcv = R.rcv, e.got = R.got,
         rtEnd' = [rtEnd EXCEPT ![m] = e], up' = [up EXCEPT ![c] = Tail(@)],
         UNCHANGED <<scamper, ropen, down, alive, at>>,
         NEW q \in 0 .. Len(scEnd.log), NEW a \in 0 .. scEnd.rcv,
         Flow(Tail(up[c]), e, scEnd, q, a),
         c = sc.conn /\ sc.mode = "go" => q = Len(scEnd.log) /\ a = scEnd.rcv
  PROVE  IInv'
<1>1. /\ m \in Magic /\ m = sc.magic /\ c = Held /\ c \in ropen /\ c # NoConn
      /\ ~(sc.conn # NoConn /\ sc.mode = "connect" /\ Answer)
  BY HeldIs
<1>2. /\ sc' = sc /\ scEnd' = scEnd /\ ropen' = ropen /\ alive' = alive /\ at' = at
      /\ down' = down /\ R' = e /\ Held' = Held /\ up'[c] = Tail(up[c])
      /\ \A d \in Conn : d # c => up'[d] = up[d]
  BY <1>1 DEF scamper, R, Held, IInv, LinkTypeOK
<1>3. Shape'
  BY <1>1, <1>2, Ctx DEF Shape, IInv
<1>4. Window' /\ GotInv'
  BY SMTT(60), <1>2, Ctx, EndFields DEF Window, GotInv, IInv
<1>5. Greets'
  <2>1. ASSUME NEW d \in ropen, d # Held  PROVE GreetsOn(d)'
    <3>1. scEnd.rcv <= scEnd'.rcv /\ d # c /\ d \in Conn
      BY <1>1, <1>2, <2>1, Ctx, EndFields
    <3>2. Greeted' => Greeted
      BY <1>2 DEF Greeted
    <3> QED BY <1>2, <2>1, <3>1, <3>2, GreetingStays
  <2> QED BY <1>1, <1>2, <2>1, Ctx DEF Greets, IInv
<1>6. DownInv'
  <2>1. CASE sc.conn # NoConn /\ sc.mode = "go"
    <3>1. PICK p \in 0 .. Len(R.log), n \in 0 .. R.rcv :
            /\ Flow(down[sc.conn], scEnd, R, p, n)
            /\ Held = sc.conn => p = Len(R.log) /\ n = R.rcv
      BY <2>1, GoIs
    <3>2. Flow(down[sc.conn], scEnd, e, p, n)
      BY <3>1 DEF Flow
    <3> QED BY <1>2, <2>1, <3>1, <3>2 DEF DownInv, DownGo
  <2>2. CASE sc.conn # NoConn /\ sc.mode # "go"
    <3>1. sc.mode = "connect"
      BY <2>2, Ctx
    <3>2. down[sc.conn] = <<>> /\ Held # sc.conn
      BY <1>1, <2>2, <3>1 DEF IInv, DownInv, DownWait
    <3> QED BY <1>2, <2>2, <3>2 DEF DownInv, DownWait
  <2>3. CASE sc.conn = NoConn
    BY <1>2, <2>3 DEF DownInv
  <2> QED BY <2>1, <2>2, <2>3
<1>7. UpInv'
  BY <1>1, <1>2 DEF UpInv
<1> QED BY <1>3, <1>4, <1>5, <1>6, <1>7 DEF IInv

LEMMA RtReadInv ==
  ASSUME IInv, LinkTypeOK', NEW m \in Magic, NEW c \in Conn, RtRead(m, c)
  PROVE  IInv'
<1> DEFINE f == Head(up[c])
<1>1. RtHas(c) /\ m \in alive /\ at[m] = c /\ RtFrame(m, c, f) /\ UNCHANGED <<scamper, breaks>>
  BY DEF RtRead
<1>2. /\ m = sc.magic /\ c = Held /\ R = rtEnd[m] /\ R \in Ends
      /\ up[c] # <<>> /\ up[c] \in Seq(Frames)
  BY <1>1, HeldIs, Ctx DEF RtHas
<1>3. PICK q \in 0 .. Len(scEnd.log), a \in 0 .. scEnd.rcv :
        /\ Flow(up[c], R, scEnd, q, a)
        /\ c = sc.conn /\ sc.mode = "go" => q = Len(scEnd.log) /\ a = scEnd.rcv
  BY <1>1, HeldIs
<1>4. /\ f.type \in {"MSG", "ACK", "KEEPALIVE"} /\ f.seq = R.rcv
      /\ f.type = "KEEPALIVE" => Flow(Tail(up[c]), R, scEnd, q, a)
      /\ f.type = "ACK" => /\ f.ack = R.una /\ R.una < scEnd.rcv
                           /\ Flow(Tail(up[c]), Acked(R), scEnd, q, a)
  BY <1>2, <1>3, FlowRead, Ctx
<1>5. f.type = "ACK" => AckFits(R, f.ack)
  BY <1>4, Ctx, EndFields DEF AckFits, IInv, Window
<1>6. CASE f.type = "KEEPALIVE"
  <2>1. up' = [up EXCEPT ![c] = Tail(@)] /\ UNCHANGED <<ropen, down, master>>
    BY <1>1, <1>2, <1>4, <1>6 DEF RtFrame
  <2>2. /\ rtEnd' = [rtEnd EXCEPT ![m] = R] /\ UNCHANGED <<scamper, ropen, down, alive, at>>
        /\ R.una <= R.una /\ R.una <= scEnd.rcv
    BY <1>1, <1>2, <2>1, Ctx, EndFields DEF master, IInv, LinkTypeOK, Window
  <2> QED BY <1>1, <1>2, <1>3, <1>4, <1>6, <2>1, <2>2, RtEndStep
<1>7. CASE f.type = "ACK"
  <2>1. /\ up' = [up EXCEPT ![c] = Tail(@)] /\ rtEnd' = [rtEnd EXCEPT ![m] = Acked(R)]
        /\ UNCHANGED <<scamper, ropen, down, alive, at>>
    BY <1>1, <1>2, <1>4, <1>5, <1>7 DEF RtFrame
  <2>2. /\ Acked(R) \in Ends /\ Acked(R).log = R.log /\ R.una <= Acked(R).una
        /\ Acked(R).una <= scEnd.rcv /\ Acked(R).rcv = R.rcv /\ Acked(R).got = R.got
    BY SMTT(60), <1>2, <1>4, <1>7, AckedIs, Ctx, EndFields
  <2> QED BY <1>1, <1>2, <1>3, <1>4, <1>7, <2>1, <2>2, RtEndStep
<1>8. CASE f.type = "MSG"
  BY <1>1, <1>2, <1>4, <1>8 DEF RtFrame
<1> QED BY <1>4, <1>6, <1>7, <1>8

(* an end that was s, and is e when it has written f                       *)
Writes(s, e, f) ==
  \A w \in Seq(Frames), r \in Ends : \A q, a :
    Flow(w, r, s, q, a) =>
      /\ Flow(w, r, e, q, a)
      /\ q = Len(s.log) /\ a = s.rcv => Flow(Append(w, f), r, e, Len(e.log), e.rcv)

(* A master writes f to its connection, if it holds one, and its end       *)
(* becomes e: what this does to scamper's side.                            *)
LEMMA RtWrites ==
  ASSUME IInv, LinkTypeOK', sc.magic \in alive, NEW f \in Frames, NEW e \in Ends,
         PutDown(Held, <<f>>), R' = e, UNCHANGED <<scamper, ropen, alive, at>>,
         e.una = R.una,
         \A d \in Conn : d # Held => up'[d] = up[d],
         \/ e.rcv = R.rcv /\ up' = up
         \/ Held # NoConn /\ up[Held] # <<>>,
         Writes(R, e, f)
  PROVE  Shape' /\ Greets' /\ DownInv'
<1> DEFINE c == sc.conn
<1>1. /\ sc' = sc /\ scEnd' = scEnd /\ ropen' = ropen /\ alive' = alive /\ at' = at
      /\ Held' = Held /\ R' = e
  BY DEF scamper, Held
<1>2. /\ Held = NoConn \/ Held # c => down' = down
      /\ Held # NoConn /\ Held = c => down'[c] = Append(down[c], f)
      /\ \A d \in Conn : d # Held => down'[d] = down[d]
  BY PutDownOne, Ctx DEF IInv
<1>3. c # NoConn => c \in Conn /\ down[c] \in Seq(Frames)
  BY Ctx
<1>4. e.rcv \in Nat /\ Len(e.log) \in Nat /\ R.rcv \in Nat /\ scEnd.rcv \in Nat
  BY Ctx, EndFields
<1>5. Shape'
  <2>1. \A d \in Conn : d \notin ropen => up'[d] = <<>>
    BY Ctx DEF IInv, Shape
  <2> QED BY <1>1, <1>2, <2>1, Ctx DEF Shape, IInv
<1>6. Greets'
  <2>1. ASSUME NEW d \in ropen, d # Held  PROVE GreetsOn(d)'
    <3>1. scEnd.rcv <= scEnd'.rcv /\ up'[d] = up[d]
      BY <1>1, <1>4, <2>1, Ctx
    <3> QED BY <1>1, <2>1, <3>1, GreetingStays
  <2> QED BY <1>1, <1>2, <2>1, Ctx DEF Greets, IInv
<1>7. DownInv'
  <2>1. CASE c # NoConn /\ sc.mode = "go"
    <3>1. PICK q \in 0 .. Len(R.log), a \in 0 .. R.rcv :
            /\ Flow(down[c], scEnd, R, q, a)
            /\ Held = c => q = Len(R.log) /\ a = R.rcv
      BY <2>1, GoIs
    <3>2. CASE Held = c
      <4>1. Flow(Append(down[c], f), scEnd, e, Len(e.log), e.rcv)
        BY <1>3, <2>1, <3>1, <3>2, Ctx DEF Writes
      <4>2. Len(e.log) \in 0 .. Len(e.log) /\ e.rcv \in 0 .. e.rcv
        BY <1>4
      <4> QED BY <1>1, <1>2, <2>1, <3>2, <4>1, <4>2 DEF DownInv, DownGo
    <3>3. CASE Held # c
      <4>1. Flow(down[c], scEnd, e, q, a)
        BY <1>3, <2>1, <3>1, Ctx DEF Writes
      <4>2. q \in 0 .. Len(e.log) /\ a \in 0 .. e.rcv
        BY <4>1 DEF Flow
      <4> HIDE <3>1
      <4> QED BY <1>1, <1>2, <2>1, <3>3, <4>1, <4>2 DEF DownInv, DownGo
    <3> QED BY <3>2, <3>3
  <2>2. CASE c # NoConn /\ sc.mode # "go" /\ ~Answer
    <3>1. down[c] = <<>> /\ Held # c
      BY <2>2 DEF IInv, DownInv, DownWait
    <3> QED BY <1>1, <1>2, <2>2, <3>1 DEF DownInv, DownWait
  <2>3. CASE c # NoConn /\ sc.mode # "go" /\ Answer
    <3>1. /\ down[c] # <<>>
          /\ Held # NoConn => up[Held] = <<>>
          /\ Head(down[c]) = IF sc.resume THEN MasterOk(R) ELSE MasterId
      BY <2>3 DEF Answer, ScHead
    <3>2. e.rcv = R.rcv /\ up' = up
      BY <3>1
    <3>3. MasterOk(e) = MasterOk(R)
      BY <3>2 DEF MasterOk
    <3>4. PICK q \in 0 .. Len(R.log) :
            /\ Flow(Tail(down[c]), Trim(scEnd, R.rcv), R, q, R.rcv)
            /\ Held = c => q = Len(R.log) /\ R.una = scEnd.rcv
      BY <2>3 DEF Answer
    <3>5. Tail(down[c]) \in Seq(Frames) /\ Trim(scEnd, R.rcv) \in Ends
      BY <1>3, <1>4, <2>3, <3>1, HeadTailProperties, TrimIs, Ctx
    <3>6. Answer'
      <4>1. CASE Held = c
        <5>1. /\ down'[c] = Append(down[c], f) /\ Head(down'[c]) = Head(down[c])
              /\ Tail(down'[c]) = Append(Tail(down[c]), f) /\ down'[c] # <<>>
          <6>1. down[c] \in Seq(Frames) /\ down'[c] = Append(down[c], f)
            BY <1>2, <1>3, <2>3, <4>1
          <6> QED BY <3>1, <6>1, One
        <5>2. Flow(Append(Tail(down[c]), f), Trim(scEnd, R.rcv), e, Len(e.log), e.rcv)
          BY <3>2, <3>4, <3>5, <4>1 DEF Writes
        <5>3. Len(e.log) \in 0 .. Len(e.log)
          BY <1>4
        <5>4. R.una = scEnd.rcv
          BY <3>4, <4>1
        <5> HIDE <3>4
        <5> QED BY <1>1, <3>1, <3>2, <3>3, <5>1, <5>2, <5>3, <5>4 DEF Answer, ScHead
      <4>2. CASE Held # c
        <5>1. down' = down
          BY <1>2, <4>2
        <5>2. Flow(Tail(down[c]), Trim(scEnd, R.rcv), e, q, e.rcv)
          BY <3>2, <3>4, <3>5 DEF Writes
        <5>3. q \in 0 .. Len(e.log)
          BY <5>2 DEF Flow
        <5> HIDE <3>4
        <5> QED BY <1>1, <3>1, <3>2, <3>3, <4>2, <5>1, <5>2, <5>3 DEF Answer, ScHead
      <4> QED BY <4>1, <4>2
    <3> QED BY <1>1, <2>3, <3>6 DEF DownInv, DownWait
  <2>4. CASE c = NoConn
    BY <1>1, <2>4 DEF DownInv
  <2> QED BY <2>1, <2>2, <2>3, <2>4
<1> QED BY <1>5, <1>6, <1>7

LEMMA RtReadMsgInv ==
  ASSUME IInv, LinkTypeOK', NEW m \in Magic, NEW c \in Conn, RtReadMsg(m, c)
  PROVE  IInv'
<1> DEFINE f == Head(up[c])
           e == Taken(R, f.body)
           g == Ack(R, R.rcv)
<1>1. /\ RtHas(c) /\ m \in alive /\ at[m] = c /\ f.type = "MSG" /\ f.seq = rtEnd[m].rcv
      /\ rtEnd' = [rtEnd EXCEPT ![m] = Taken(@, f.body)]
      /\ PutDown(c, <<Ack(rtEnd[m], f.seq)>>)
      /\ up' = [up EXCEPT ![c] = Tail(@)]
      /\ UNCHANGED <<scamper, ropen, alive, at, breaks>>
  BY DEF RtReadMsg
<1>2. /\ m = sc.magic /\ c = Held /\ R = rtEnd[m] /\ R \in Ends /\ c # NoConn /\ c \in ropen
      /\ up[c] # <<>> /\ up[c] \in Seq(Frames)
  BY <1>1, HeldIs, Ctx DEF RtHas
<1>3. PICK q \in 0 .. Len(scEnd.log), a \in 0 .. scEnd.rcv :
        /\ Flow(up[c], R, scEnd, q, a)
        /\ c = sc.conn /\ sc.mode = "go" => q = Len(scEnd.log) /\ a = scEnd.rcv
  BY <1>1, HeldIs
<1>4. /\ R.rcv < Len(scEnd.log) /\ f.body = scEnd.log[R.rcv + 1]
      /\ Flow(Tail(up[c]), e, scEnd, q, a)
  BY <1>1, <1>2, <1>3, FlowRead, Ctx
<1>5. f.body \in Body
  BY <1>1, RtHasIs, FrameFields DEF IInv
<1>6. /\ e \in Ends /\ e.log = R.log /\ e.una = R.una /\ e.rcv = R.rcv + 1
      /\ Len(e.got) = Len(R.got) + 1 /\ e.got[Len(R.got) + 1] = f.body
      /\ \A i \in 1 .. Len(R.got) : e.got[i] = R.got[i]
  <2>1. R \in Ends
    BY <1>2
  <2> QED BY <1>5, <2>1, TakenIs
<1>7. g \in Frames
  BY <1>2, <1>5, FrameTypes, EndFields
<1>8. R.rcv \in Nat /\ Len(R.log) \in Nat /\ scEnd.rcv \in Nat /\ Len(scEnd.log) \in Nat
      /\ R.una \in Nat /\ scEnd.una \in Nat
  BY Ctx, EndFields
<1>9. /\ R' = e /\ Held' = Held /\ sc' = sc /\ scEnd' = scEnd /\ up'[c] = Tail(up[c])
      /\ PutDown(Held, <<g>>) /\ \A d \in Conn : d # Held => up'[d] = up[d]
  BY <1>1, <1>2 DEF R, Held, scamper, IInv, LinkTypeOK
<1>10. Writes(R, e, g)
  <2>1. ASSUME NEW w \in Seq(Frames), NEW r \in Ends, NEW p, NEW n, Flow(w, r, R, p, n)
        PROVE  /\ Flow(w, r, e, p, n)
               /\ p = Len(R.log) /\ n = R.rcv => Flow(Append(w, g), r, e, p, n + 1)
    BY <1>2, <1>5, <2>1, FlowTaken
  <2> HIDE DEF e, g
  <2> QED BY <1>6, <2>1 DEF Writes
<1> HIDE DEF e, g
<1>11. Shape' /\ Greets' /\ DownInv'
  BY <1>1, <1>2, <1>6, <1>7, <1>9, <1>10, RtWrites
<1>12. Window'
  BY <1>4, <1>6, <1>8, <1>9 DEF IInv, Window
<1>13. GotInv'
  <2>1. GotInv
    BY DEF IInv
  <2>2. \A i \in 1 .. e.rcv : i = R.rcv + 1 \/ i \in 1 .. R.rcv
    BY <1>6, <1>8
  <2> QED BY SMTT(60), <1>4, <1>6, <1>8, <1>9, <2>1, <2>2 DEF GotInv
<1>14. UpInv'
  BY <1>2, <1>3, <1>4, <1>9 DEF UpInv
<1> QED BY <1>11, <1>12, <1>13, <1>14 DEF IInv

LEMMA RtSendInv ==
  ASSUME IInv, LinkTypeOK', NEW m \in Magic, NEW b \in Body, RtSend(m, b)
  PROVE  IInv'
<1> DEFINE e == Sent(R, b)
           g == Msg(Len(R.log), b)
<1>1. /\ m \in alive /\ m = sc.magic /\ R = rtEnd[m] /\ R \in Ends /\ Held = at[m]
  BY Ctx DEF RtSend
<1>2. /\ R' = e /\ Held' = Held /\ sc' = sc /\ scEnd' = scEnd /\ up' = up
      /\ UNCHANGED <<scamper, ropen, alive, at>> /\ PutDown(Held, <<g>>)
  BY <1>1 DEF RtSend, R, Held, scamper, IInv, LinkTypeOK
<1>3. /\ e \in Ends /\ Len(e.log) = Len(R.log) + 1
      /\ \A i \in 1 .. Len(R.log) : e.log[i] = R.log[i]
      /\ e.una = R.una /\ e.rcv = R.rcv /\ e.got = R.got
  BY <1>1, SentIs
<1>4. R.rcv \in Nat /\ Len(R.log) \in Nat /\ scEnd.rcv \in Nat /\ Len(scEnd.log) \in Nat
      /\ R.una \in Nat /\ scEnd.una \in Nat
  BY Ctx, EndFields
<1>5. g \in Frames
  BY <1>1, <1>4, FrameTypes
<1>6. Writes(R, e, g)
  <2>1. ASSUME NEW w \in Seq(Frames), NEW r \in Ends, NEW p, NEW n, Flow(w, r, R, p, n)
        PROVE  /\ Flow(w, r, e, p, n)
               /\ p = Len(R.log) => Flow(Append(w, g), r, e, p + 1, n)
    BY <1>1, <2>1, FlowSent
  <2> HIDE DEF e, g
  <2> QED BY <1>3, <2>1 DEF Writes
<1> HIDE DEF e, g
<1>7. Shape' /\ Greets' /\ DownInv'
  BY <1>1, <1>2, <1>3, <1>5, <1>6, RtWrites
<1>8. Window'
  BY <1>2, <1>3, <1>4 DEF IInv, Window
<1>9. GotInv'
  <2>1. GotInv /\ scEnd.rcv <= Len(R.log)
    BY DEF IInv, Window
  <2> QED BY <1>2, <1>3, <1>4, <2>1 DEF GotInv
<1>10. UpInv'
  <2>1. CASE Held # NoConn
    <3>1. PICK p \in 0 .. Len(scEnd.log), n \in 0 .. scEnd.rcv :
            /\ Flow(up[Held], R, scEnd, p, n)
            /\ Held = sc.conn /\ sc.mode = "go" => p = Len(scEnd.log) /\ n = scEnd.rcv
      BY <2>1 DEF IInv, UpInv
    <3>2. Flow(up[Held], e, scEnd, p, n)
      BY <1>3, <3>1 DEF Flow
    <3> QED BY <1>2, <3>1, <3>2 DEF UpInv
  <2> QED BY <1>2, <2>1 DEF UpInv
<1> QED BY <1>7, <1>8, <1>9, <1>10 DEF IInv

LEMMA RtKeepaliveInv ==
  ASSUME IInv, LinkTypeOK', NEW m \in Magic, RtKeepalive(m)
  PROVE  IInv'
<1> DEFINE g == Keepalive(R)
<1>1. /\ m \in alive /\ m = sc.magic /\ R = rtEnd[m] /\ R \in Ends /\ Held = at[m]
  BY Ctx DEF RtKeepalive
<1>2. /\ R' = R /\ Held' = Held /\ sc' = sc /\ scEnd' = scEnd /\ up' = up
      /\ UNCHANGED <<scamper, ropen, alive, at>> /\ PutDown(Held, <<g>>)
  BY <1>1 DEF RtKeepalive, R, Held, scamper, master
<1>3. g \in Frames
  BY <1>1, EndFields DEF Keepalive, Frames
<1>4. Writes(R, R, g)
  BY <1>1, FlowKeepalive DEF Writes
<1> HIDE DEF g
<1>5. Shape' /\ Greets' /\ DownInv'
  BY <1>1, <1>2, <1>3, <1>4, RtWrites
<1>6. Window' /\ GotInv' /\ UpInv'
  BY <1>2 DEF IInv, Window, GotInv, UpInv
<1> QED BY <1>5, <1>6 DEF IInv

(* a greeting waits on a connection no master holds                        *)
LEMMA WaitsIs ==
  ASSUME IInv, NEW c \in Conn, RtReadHandshake(c)
  PROVE  /\ c \in ropen /\ c # Held /\ c # NoConn /\ Head(up[c]) \in Frames
         /\ Len(up[c]) = 1 /\ Tail(up[c]) = <<>> /\ Greeting(Head(up[c]))
         /\ RtHandshake(c, Head(up[c])) /\ UNCHANGED <<scamper, breaks>>
         /\ Head(up[c]).type \in {"MASTER_NEW", "MASTER_RES"}
         /\ c = sc.conn => /\ sc.mode = "connect" /\ down[c] = <<>>
                           /\ Head(up[c]) = IF sc.resume THEN MasterRes(sc.magic, scEnd)
                                                         ELSE MasterNew(sc.magic)
<1>1. /\ c \in ropen /\ Fresh(c) /\ RtHandshake(c, Head(up[c]))
      /\ UNCHANGED <<scamper, breaks>> /\ c # NoConn
  BY Ctx DEF RtReadHandshake, RtHas
<1>2. c # Held
  BY <1>1, Ctx DEF Fresh
<1>3. Len(up[c]) = 1 /\ Greeting(up[c][1])
  BY <1>1, <1>2 DEF IInv, Greets, GreetsOn
<1>4. up[c] \in Seq(Frames) /\ up[c] # <<>>
  BY <1>3, Ctx, EmptySeq
<1>5. Head(up[c]) \in Frames /\ Head(up[c]) = up[c][1] /\ Tail(up[c]) = <<>>
  <2>1. Head(up[c]) = up[c][1] /\ Head(up[c]) \in Frames
    BY <1>4
  <2>2. Len(Tail(up[c])) = 0 /\ Tail(up[c]) \in Seq(Frames)
    BY <1>3, <1>4, HeadTailProperties
  <2>3. Tail(up[c]) = <<>>
    BY <2>2, EmptySeq
  <2> QED BY <2>1, <2>3
<1>6. Head(up[c]).type \in {"MASTER_NEW", "MASTER_RES"}
  BY <1>3, <1>5 DEF Greeting, MasterNew
<1>7. ASSUME c = sc.conn
      PROVE  /\ sc.mode = "connect" /\ down[c] = <<>>
             /\ Head(up[c]) = IF sc.resume THEN MasterRes(sc.magic, scEnd)
                                           ELSE MasterNew(sc.magic)
  <2>1. /\ sc.mode = "connect" /\ down[c] = <<>>
        /\ up[c] = <<IF sc.resume THEN MasterRes(sc.magic, scEnd) ELSE MasterNew(sc.magic)>>
    BY <1>1, <1>2, <1>7 DEF IInv, Greets
  <2> QED BY <2>1
<1> QED BY <1>1, <1>2, <1>3, <1>5, <1>6, <1>7

(* The controller closes a connection that no master holds, and may refuse *)
(* scamper's.                                                              *)
LEMMA CloseInv ==
  ASSUME IInv, LinkTypeOK', NEW c \in ropen, c # Held, CloseConns({c}),
         UNCHANGED <<scamper, master>>,
         \/ down' = down
         \/ /\ PutDown(c, <<MasterRej>>)
            /\ c = sc.conn => sc.resume /\ sc.magic \notin alive
  PROVE  IInv'
<1>1. /\ sc' = sc /\ scEnd' = scEnd /\ alive' = alive /\ at' = at /\ R' = R /\ Held' = Held
  BY DEF scamper, master, R, Held
<1>2. /\ ropen' = ropen \ {c} /\ up'[c] = <<>> /\ \A d \in Conn : d # c => up'[d] = up[d]
      /\ c \in Conn /\ c # NoConn
  BY CloseIs, Ctx DEF IInv
<1>3. /\ \A d \in Conn : d # c \/ c # sc.conn => down'[d] = down[d]
      /\ c = sc.conn => /\ sc.mode = "connect" /\ down[c] = <<>>
                        /\ \/ down'[c] = <<>>
                           \/ down'[c] = <<MasterRej>> /\ sc.resume /\ sc.magic \notin alive
  <2>1. c = sc.conn => sc.mode = "connect" /\ down[c] = <<>>
    BY DEF IInv, Greets
  <2>2. CASE down' = down
    BY <2>1, <2>2
  <2>3. CASE down' # down
    <3>1. MasterRej \in Frames /\ PutDown(c, <<MasterRej>>) /\ LinkTypeOK
      BY <2>3 DEF MasterRej, Frames, IInv
    <3>2. c = sc.conn => down'[c] = Append(down[c], MasterRej)
      BY <1>2, <3>1, PutDownOne
    <3>3. \A d \in Conn : d # c \/ c # sc.conn => down'[d] = down[d]
      BY <1>2, <3>1, PutDownOne
    <3>4. Append(<<>>, MasterRej) = <<MasterRej>>
      OBVIOUS
    <3> QED BY <2>1, <2>3, <3>2, <3>3, <3>4
  <2> QED BY <2>2, <2>3
<1>4. Shape'
  <2>1. \A d \in Conn : d \notin ropen' => up'[d] = <<>>
    BY <1>2 DEF IInv, Shape
  <2>2. \A d \in Conn : d # sc.conn => down'[d] = <<>>
    BY <1>3 DEF IInv, Shape
  <2>3. \A m \in Magic : at[m] # NoConn => m \in alive /\ at[m] \in ropen /\ at[m] # c
    BY Ctx DEF IInv, Shape
  <2> QED BY <1>1, <1>2, <2>1, <2>2, <2>3 DEF Shape, IInv
<1>5. Window' /\ GotInv'
  BY <1>1 DEF Window, GotInv, IInv
<1>6. Greets'
  <2>1. ASSUME NEW d \in ropen, d # c, d # Held  PROVE GreetsOn(d)'
    <3>1. scEnd.rcv <= scEnd'.rcv /\ up'[d] = up[d]
      BY <1>1, <1>2, <2>1, Ctx, EndFields
    <3>2. Greeted' /\ sc.magic \notin alive' => Greeted /\ sc.magic \notin alive
      BY <1>1, <1>2, <1>3, Ctx DEF Greeted
    <3> QED BY <1>1, <2>1, <3>1, <3>2, GreetingStays
  <2>2. sc.conn \in ropen' /\ sc.conn # Held =>
          down'[sc.conn] = down[sc.conn] /\ up'[sc.conn] = up[sc.conn]
    BY <1>2, <1>3, Ctx
  <2> QED BY <1>1, <1>2, <2>1, <2>2, Ctx DEF Greets, IInv
<1>7. DownInv'
  <2>1. CASE c = sc.conn
    BY <1>1, <1>3, <2>1 DEF DownInv, DownWait
  <2>2. CASE c # sc.conn /\ sc.conn # NoConn
    <3>1. down'[sc.conn] = down[sc.conn] /\ (Held # NoConn => up'[Held] = up[Held])
      BY <1>2, <1>3, <2>2, Ctx
    <3> QED BY <1>1, <3>1 DEF DownInv, DownWait, DownGo, Answer, ScHead, IInv
  <2>3. CASE sc.conn = NoConn
    BY <1>1, <2>3 DEF DownInv
  <2> QED BY <2>1, <2>2, <2>3
<1>8. UpInv'
  <2>1. Held # NoConn => up'[Held] = up[Held]
    BY <1>2, Ctx
  <2> QED BY <1>1, <2>1 DEF UpInv, IInv
<1> QED BY <1>4, <1>5, <1>6, <1>7, <1>8 DEF IInv

LEMMA MasterNewInv ==
  ASSUME IInv, LinkTypeOK', NEW c \in Conn, RtReadHandshake(c),
         Head(up[c]).type = "MASTER_NEW"
  PROVE  IInv'
<1> DEFINE f == Head(up[c])
<1>1. /\ c \in ropen /\ c # Held /\ c # NoConn /\ Tail(up[c]) = <<>>
      /\ Greeting(f) /\ RtMasterNew(c, f) /\ UNCHANGED <<scamper, breaks>>
  BY WaitsIs DEF RtHandshake
<1>2. f = MasterNew(sc.magic) /\ f.magic = sc.magic /\ (Greeted => sc.magic \in alive)
  BY <1>1 DEF Greeting, MasterNew
<1>3. CASE sc.magic \in alive
  <2>1. CloseConns({c}) /\ UNCHANGED <<scamper, master>> /\ down' = down
    BY <1>1, <1>2, <1>3 DEF RtMasterNew
  <2> QED BY <1>1, <2>1, CloseInv
<1>4. CASE sc.magic \notin alive
  <2>1. /\ alive' = alive \cup {sc.magic} /\ at' = [at EXCEPT ![sc.magic] = c]
        /\ rtEnd' = [rtEnd EXCEPT ![sc.magic] = NewEnd]
        /\ up' = [up EXCEPT ![c] = Tail(@)] /\ PutDown(c, <<MasterId>>)
        /\ UNCHANGED ropen
    BY <1>1, <1>2, <1>4 DEF RtMasterNew
  <2>2. ~sc.resume /\ sc.mode = "connect" /\ scEnd = NewEnd /\ Held = NoConn
        /\ (sc.conn # NoConn => down[sc.conn] = <<>>)
    BY <1>2, <1>4, Ctx DEF Greeted, IInv, Shape
  <2>3. /\ sc' = sc /\ scEnd' = scEnd /\ R' = NewEnd /\ Held' = c
        /\ alive' = {sc.magic} /\ \A m \in Magic : at'[m] = IF m = sc.magic THEN c ELSE NoConn
    BY <1>1, <1>4, <2>1, Ctx DEF scamper, R, Held, IInv, LinkTypeOK
  <2>4. up'[c] = <<>> /\ \A d \in Conn : d # c => up'[d] = up[d]
    BY <1>1, <2>1 DEF IInv, LinkTypeOK
  <2>5. /\ c = sc.conn => down'[c] = <<MasterId>>
        /\ \A d \in Conn : d # c \/ c # sc.conn => down'[d] = down[d]
    <3>1. MasterId \in Frames
      BY DEF MasterId, Frames
    <3>2. Append(<<>>, MasterId) = <<MasterId>>
      OBVIOUS
    <3> QED BY <1>1, <2>1, <2>2, <3>1, <3>2, PutDownOne DEF IInv
  <2>6. Shape'
    <3>1. \A d \in Conn : (d \notin ropen => up'[d] = <<>>) /\ (d # sc.conn => down'[d] = <<>>)
      BY <2>4, <2>5 DEF IInv, Shape
    <3> QED BY <1>1, <2>1, <2>2, <2>3, <3>1, Ctx DEF Shape, IInv
  <2>7. Window' /\ GotInv'
    BY <2>2, <2>3, NewEndIs DEF Window, GotInv
  <2>8. Flow(<<>>, NewEnd, NewEnd, 0, 0)
    BY NewEndIs, FlowNil
  <2>9. Trim(NewEnd, 0) = NewEnd
    BY NewEndIs DEF Trim, NewEnd
  <2>10. Greets'
    <3>1. ASSUME NEW d \in ropen, d # c  PROVE GreetsOn(d)'
      <4>1. scEnd.rcv <= scEnd'.rcv /\ up'[d] = up[d] /\ d # Held
        BY <2>2, <2>3, <2>4, <3>1, Ctx, EndFields
      <4> QED BY <2>3, <3>1, <4>1, GreetingStays
    <3>2. sc.conn \in ropen /\ sc.conn # c =>
            down'[sc.conn] = down[sc.conn] /\ up'[sc.conn] = up[sc.conn] /\ sc.conn # Held
      BY <2>2, <2>4, <2>5, Ctx
    <3> QED BY <2>1, <2>3, <3>1, <3>2 DEF Greets, IInv
  <2>11. DownInv'
    <3>1. CASE c = sc.conn
      <4>1. down'[c] = <<MasterId>> /\ Head(down'[c]) = MasterId /\ Tail(down'[c]) = <<>>
            /\ down'[c] # <<>>
        <5>1. MasterId \in Frames
          BY DEF MasterId, Frames
        <5> QED BY <2>5, <3>1, <5>1, Single
      <4>2. 0 \in 0 .. Len(NewEnd.log)
        BY NewEndIs
      <4>3. Answer'
        BY <2>2, <2>3, <2>4, <2>8, <2>9, <3>1, <4>1, <4>2, NewEndIs DEF Answer, ScHead
      <4> QED BY <1>1, <2>2, <2>3, <3>1, <4>3 DEF DownInv, DownWait
    <3>2. CASE c # sc.conn /\ sc.conn # NoConn
      <4>1. down'[sc.conn] = <<>>
        BY <2>2, <2>5, <3>2, Ctx
      <4> QED BY <2>2, <2>3, <3>2, <4>1 DEF DownInv, DownWait
    <3>3. CASE sc.conn = NoConn
      BY <2>3, <3>3 DEF DownInv
    <3> QED BY <3>1, <3>2, <3>3
  <2>12. UpInv'
    <3>1. 0 \in 0 .. Len(NewEnd.log) /\ 0 \in 0 .. NewEnd.rcv
      BY NewEndIs
    <3> QED BY <2>2, <2>3, <2>4, <2>8, <3>1 DEF UpInv
  <2> QED BY <2>6, <2>7, <2>10, <2>11, <2>12 DEF IInv
<1> QED BY <1>3, <1>4

LEMMA MasterResInv ==
  ASSUME IInv, LinkTypeOK', NEW c \in Conn, RtReadHandshake(c),
         Head(up[c]).type = "MASTER_RES"
  PROVE  IInv'
<1> DEFINE f == Head(up[c])
<1>1. /\ c \in ropen /\ c # Held /\ c # NoConn /\ Tail(up[c]) = <<>>
      /\ RtMasterRes(c, f) /\ UNCHANGED <<scamper, breaks>>
      /\ f.magic \in Magic /\ f.rcv_nxt \in Nat
  BY WaitsIs, FrameFields DEF RtHandshake
<1>2. f.magic = sc.magic => sc.resume /\ f.rcv_nxt <= scEnd.rcv
  BY WaitsIs DEF Greeting, MasterNew
<1>3. c = sc.conn => /\ sc.resume /\ f = MasterRes(sc.magic, scEnd)
                     /\ sc.mode = "connect" /\ down[c] = <<>>
  BY WaitsIs DEF MasterNew
<1>4. c = sc.conn => f.magic = sc.magic /\ f.rcv_nxt = scEnd.rcv /\ ResumeFits(R, f)
  <2>1. c = sc.conn => /\ f.magic = sc.magic /\ f.rcv_nxt = scEnd.rcv
                       /\ f.snd_una = scEnd.una /\ f.snd_nxt = Len(scEnd.log)
    BY <1>3 DEF MasterRes
  <2> QED BY <2>1, Ctx, EndFields DEF ResumeFits, IInv, Window
<1>5. CASE f.magic \notin alive \/ ~ResumeFits(rtEnd[f.magic], f)
  <2>1. CloseConns({c}) /\ PutDown(c, <<MasterRej>>) /\ UNCHANGED <<scamper, master>>
    BY <1>1, <1>5 DEF RtMasterRes
  <2>2. c = sc.conn => sc.resume /\ sc.magic \notin alive
    BY <1>3, <1>4, <1>5, Ctx
  <2> QED BY <1>1, <2>1, <2>2, CloseInv
<1>6. CASE f.magic \in alive /\ ResumeFits(rtEnd[f.magic], f)
  <2> DEFINE m == sc.magic
             n == f.rcv_nxt
             e == Trim(R, n)
  <2>1. f.magic = m /\ m \in alive /\ R = rtEnd[m] /\ sc.resume /\ n <= scEnd.rcv /\ n \in Nat
    BY <1>1, <1>2, <1>6, Ctx
  <2>2. /\ rtEnd' = [rtEnd EXCEPT ![m] = e] /\ at' = [at EXCEPT ![m] = c]
        /\ ropen' = ropen \ {Held}
        /\ up' = [d \in Conn |-> IF d = Held THEN <<>> ELSE IF d = c THEN Tail(up[d]) ELSE up[d]]
        /\ PutDown(c, <<MasterOk(e)>> \o Unacked(e))
        /\ UNCHANGED alive
    BY <1>1, <1>6, <2>1, Ctx DEF RtMasterRes
  <2>3. /\ e \in Ends /\ e.log = R.log /\ e.rcv = R.rcv /\ e.got = R.got /\ e.una = n
    BY ZenonT(60), <1>6, <2>1, TrimIs, Ctx DEF ResumeFits
  <2> HIDE DEF e, f, n
  <2>4. /\ sc' = sc /\ scEnd' = scEnd /\ R' = e /\ Held' = c /\ alive' = alive
        /\ \A k \in Magic : at'[k] = IF k = m THEN c ELSE NoConn
    BY <1>1, <2>1, <2>2, Ctx DEF scamper, R, Held, IInv, LinkTypeOK
  <2>5. up'[c] = <<>> /\ \A d \in Conn : d # c /\ d # Held => up'[d] = up[d]
    BY <1>1, <2>2
  <2>6. /\ c = sc.conn => down'[c] = <<MasterOk(e)>> \o Unacked(e)
        /\ \A d \in Conn : d # c \/ c # sc.conn => down'[d] = down[d]
    <3>1. Unacked(e) \in Seq(Frames) /\ MasterOk(e) \in Frames
      BY <2>3, UnackedType, EndFields DEF MasterOk, Frames
    <3>2. <<MasterOk(e)>> \o Unacked(e) \in Seq(Frames)
      BY <3>1, One
    <3>3. <<>> \o (<<MasterOk(e)>> \o Unacked(e)) = <<MasterOk(e)>> \o Unacked(e)
      BY <3>2, ConcatEmptySeq
    <3> DEFINE s == <<MasterOk(e)>> \o Unacked(e)
    <3>4. LinkTypeOK /\ c \in Conn \cup {NoConn} /\ PutDown(c, s) /\ s \in Seq(Frames)
      BY <2>2, <3>2 DEF IInv
    <3>5. <<>> \o s = s
      BY <3>3
    <3> HIDE DEF s
    <3>6. /\ c = sc.conn => down'[c] = s
          /\ \A d \in Conn : d # c \/ c # sc.conn => down'[d] = down[d]
      BY <1>1, <1>3, <3>4, <3>5, PutDownIs
    <3> QED BY <3>6 DEF s
  <2>7. Len(R.log) \in Nat /\ R.rcv \in Nat /\ scEnd.rcv \in Nat /\ Len(scEnd.log) \in Nat
    BY Ctx, EndFields
  <2>8. Shape'
    <3>1. \A d \in Conn : (d \notin ropen' => up'[d] = <<>>) /\ (d # sc.conn => down'[d] = <<>>)
      BY <1>1, <2>2, <2>5, <2>6 DEF IInv, Shape
    <3> QED BY <1>1, <2>1, <2>2, <2>4, <3>1, Ctx DEF Shape, IInv
  <2>9. Window' /\ GotInv'
    BY SMTT(60), <2>1, <2>3, <2>4 DEF Window, GotInv, IInv
  <2>10. Greets'
    <3>1. ASSUME NEW d \in ropen, d # Held, d # c  PROVE GreetsOn(d)'
      <4>1. scEnd.rcv <= scEnd'.rcv /\ up'[d] = up[d]
        BY <2>4, <2>5, <2>7, <3>1, Ctx
      <4> QED BY <2>1, <2>4, <3>1, <4>1, GreetingStays
    <3>2. sc.conn \in ropen /\ sc.conn # c /\ sc.conn # Held =>
            down'[sc.conn] = down[sc.conn] /\ up'[sc.conn] = up[sc.conn]
      BY <2>5, <2>6, Ctx
    <3> QED BY <2>2, <2>4, <3>1, <3>2 DEF Greets, IInv
  <2>11. DownInv'
    <3>1. CASE c = sc.conn
      <4>1. /\ down'[c] # <<>> /\ Head(down'[c]) = MasterOk(e) /\ Tail(down'[c]) = Unacked(e)
        <5>1. Unacked(e) \in Seq(Frames) /\ MasterOk(e) \in Frames
          BY <2>3, UnackedType, EndFields DEF MasterOk, Frames
        <5> QED BY <2>6, <3>1, <5>1, One
      <4>2. /\ Trim(scEnd, e.rcv) \in Ends /\ Trim(scEnd, e.rcv).rcv = e.una
            /\ Trim(scEnd, e.rcv).una = e.rcv
        <5>1. scEnd.una <= e.rcv /\ e.rcv <= Len(scEnd.log) /\ e.rcv \in Nat
          BY <2>3, <2>7 DEF IInv, Window
        <5>2. scEnd \in Ends /\ scEnd.rcv = e.una
          BY <1>4, <2>3, <3>1, Ctx DEF n
        <5> QED BY <5>1, <5>2, TrimIs
      <4>3. e.una <= Len(e.log) /\ scEnd.rcv = e.una
        BY <1>4, <2>3, <3>1 DEF IInv, Window, n
      <4>4. Flow(Unacked(e), Trim(scEnd, e.rcv), e, Len(e.log), e.rcv)
        <5>1. Trim(scEnd, e.rcv).una <= e.rcv
          BY <2>3, <2>7, <4>2
        <5> QED BY <2>3, <4>2, <4>3, <5>1, FlowUnacked
      <4>5. Len(e.log) \in 0 .. Len(e.log)
        BY <2>3, <2>7
      <4>6. Answer'
        BY <2>1, <2>4, <2>5, <3>1, <4>1, <4>3, <4>4, <4>5 DEF Answer, ScHead
      <4> QED BY <1>1, <1>3, <2>4, <3>1, <4>6 DEF DownInv, DownWait
    <3>2. CASE c # sc.conn /\ sc.conn # NoConn /\ sc.mode = "go"
      <4>1. PICK q \in 0 .. Len(R.log), a \in 0 .. R.rcv : Flow(down[sc.conn], scEnd, R, q, a)
        BY <3>2, GoIs
      <4>2. Flow(down[sc.conn], scEnd, e, q, a)
        BY <2>3, <4>1 DEF Flow
      <4>3. down'[sc.conn] = down[sc.conn] /\ q \in 0 .. Len(e.log) /\ a \in 0 .. e.rcv
        BY <2>3, <2>6, <3>2, <4>1, Ctx
      <4> QED BY <2>4, <3>2, <4>2, <4>3 DEF DownInv, DownGo
    <3>3. CASE c # sc.conn /\ sc.conn # NoConn /\ sc.mode # "go"
      <4>1. down'[sc.conn] = down[sc.conn]
        BY <2>6, <3>3, Ctx
      <4>2. down[sc.conn] = <<>> \/ Answer
        BY <2>1, <3>3 DEF IInv, DownInv, DownWait
      <4>3. CASE down[sc.conn] = <<>>
        BY <2>4, <3>3, <4>1, <4>3 DEF DownInv, DownWait
      <4>4. CASE Answer
        <5>1. PICK q \in 0 .. Len(R.log) : Flow(Tail(down[sc.conn]), Trim(scEnd, R.rcv), R, q, R.rcv)
          BY <4>4 DEF Answer
        <5>2. Flow(Tail(down[sc.conn]), Trim(scEnd, e.rcv), e, q, e.rcv)
          BY <2>3, <5>1 DEF Flow
        <5>3. q \in 0 .. Len(e.log)
          BY <5>2 DEF Flow
        <5>4. MasterOk(e) = MasterOk(R)
          BY <2>3 DEF MasterOk
        <5>5. Head(down[sc.conn]) = MasterOk(R) /\ down[sc.conn] # <<>>
          BY <2>1, <4>4 DEF Answer, ScHead
        <5>6. Answer'
          BY <2>1, <2>4, <2>5, <3>3, <4>1, <5>2, <5>3, <5>4, <5>5 DEF Answer, ScHead
        <5> QED BY <2>4, <3>3, <5>6 DEF DownInv, DownWait
      <4> QED BY <4>2, <4>3, <4>4
    <3>4. CASE sc.conn = NoConn
      BY <2>4, <3>4 DEF DownInv
    <3> QED BY <3>1, <3>2, <3>3, <3>4
  <2>12. UpInv'
    <3>1. Flow(<<>>, e, scEnd, e.rcv, e.una)
      <4>1. e.rcv <= Len(scEnd.log) /\ e.una <= scEnd.rcv
        BY <2>1, <2>3 DEF IInv, Window
      <4> QED BY <2>3, <4>1, FlowNil, Ctx
    <3>2. e.rcv \in 0 .. Len(scEnd.log) /\ e.una \in 0 .. scEnd.rcv
      BY <3>1 DEF Flow
    <3> QED BY <1>3, <2>4, <2>5, <3>1, <3>2 DEF UpInv
  <2> QED BY <2>8, <2>9, <2>10, <2>11, <2>12 DEF IInv
<1> QED BY <1>5, <1>6

LEMMA RtLoseInv ==
  ASSUME IInv, LinkTypeOK', NEW c \in Conn, NEW free \in BOOLEAN, RtLose(c, free)
  PROVE  IInv'
<1>1. /\ c \in ropen /\ c # NoConn /\ CloseConns({c})
      /\ at' = [m \in Magic |-> IF at[m] = c THEN NoConn ELSE at[m]]
      /\ UNCHANGED <<scamper, alive, rtEnd, down>>
  BY Ctx DEF RtLose
<1>2. /\ sc' = sc /\ scEnd' = scEnd /\ alive' = alive /\ down' = down /\ R' = R
      /\ Held' = IF Held = c THEN NoConn ELSE Held
      /\ ropen' = ropen \ {c} /\ \A d \in Conn : up'[d] = IF d = c THEN <<>> ELSE up[d]
  BY <1>1, CloseIs, Ctx DEF scamper, R, Held, IInv
<1>3. Shape'
  <2>1. \A d \in Conn : (d \notin ropen' => up'[d] = <<>>) /\ (d # sc.conn => down'[d] = <<>>)
    BY <1>2 DEF IInv, Shape
  <2>2. \A m \in Magic : at'[m] # NoConn => m \in alive' /\ at'[m] \in ropen'
    BY <1>1, <1>2 DEF IInv, Shape
  <2> QED BY <1>2, <2>1, <2>2 DEF IInv, Shape
<1>4. Window' /\ GotInv'
  BY <1>2 DEF Window, GotInv, IInv
<1>5. Greets'
  <2>1. ASSUME NEW d \in ropen, d # c, d # Held  PROVE GreetsOn(d)'
    <3>1. scEnd.rcv <= scEnd'.rcv /\ up'[d] = up[d] /\ (Greeted' => Greeted)
      BY <1>2, <2>1, Ctx, EndFields DEF Greeted
    <3> QED BY <1>2, <2>1, <3>1, GreetingStays
  <2>2. sc.conn \in ropen' => up'[sc.conn] = up[sc.conn] /\ sc.conn # c
    BY <1>2, Ctx
  <2> QED BY <1>2, <2>1, <2>2, Ctx DEF Greets, IInv
<1>6. DownInv'
  <2>1. Held' # NoConn => up'[Held'] = up[Held] /\ Held' = Held
    BY <1>2, Ctx
  <2>2. Held' = sc.conn /\ sc.conn # NoConn => Held = sc.conn
    BY <1>2
  <2>3. ASSUME sc.conn # NoConn, Answer  PROVE Answer'
    BY <1>2, <2>1, <2>2, <2>3 DEF Answer, ScHead
  <2>4. ASSUME sc.conn # NoConn, DownGo  PROVE DownGo'
    BY <1>2, <2>2, <2>4 DEF DownGo
  <2>5. ASSUME sc.conn # NoConn, DownWait  PROVE DownWait'
    BY <1>2, <2>2, <2>3, <2>5 DEF DownWait
  <2> QED BY <1>2, <2>4, <2>5 DEF DownInv, IInv
<1>7. UpInv'
  <2>1. Held' # NoConn => up'[Held'] = up[Held] /\ Held' = Held
    BY <1>2, Ctx
  <2> QED BY <1>2, <2>1 DEF UpInv, IInv
<1> QED BY <1>3, <1>4, <1>5, <1>6, <1>7 DEF IInv

LEMMA ExpireInv ==
  ASSUME IInv, LinkTypeOK', NEW m \in Magic, Expire(m)
  PROVE  IInv'
<1>1. /\ m \in alive /\ m = sc.magic /\ Held = NoConn /\ alive' = alive \ {m}
      /\ \A c \in ropen \ {sc.conn} : \A i \in DOMAIN up[c] : up[c][i] # MasterNew(m)
      /\ sc' = sc /\ scEnd' = scEnd /\ at' = at /\ rtEnd' = rtEnd /\ ropen' = ropen
      /\ up' = up /\ down' = down /\ R' = R /\ Held' = Held
  BY Ctx DEF Expire, scamper, R, Held
<1>2. Shape'
  BY <1>1, Ctx DEF Shape, IInv
<1>3. Window' /\ GotInv' /\ UpInv'
  BY <1>1 DEF Window, GotInv, UpInv, IInv
<1>4. Greets'
  <2>1. ASSUME NEW c \in ropen  PROVE GreetsOn(c)'
    <3>1. c # Held /\ c \in Conn /\ c # NoConn
      BY <1>1, Ctx
    <3>2. Len(up[c]) = 1 /\ Greeting(up[c][1]) /\ 1 \in DOMAIN up[c]
      <4>1. Len(up[c]) = 1 /\ Greeting(up[c][1])
        BY <3>1 DEF IInv, Greets, GreetsOn
      <4> QED BY <3>1, <4>1, Ctx, LenProperties
    <3>3. up[c][1] = MasterNew(sc.magic) => ~Greeted
      <4>1. CASE c # sc.conn
        BY <1>1, <3>2, <4>1
      <4>2. CASE c = sc.conn
        <5>1. /\ down[c] = <<>>
              /\ up[c][1] = IF sc.resume THEN MasterRes(sc.magic, scEnd) ELSE MasterNew(sc.magic)
          BY <3>1, <4>2 DEF IInv, Greets
        <5>2. up[c][1] = MasterNew(sc.magic) => ~sc.resume
          BY <5>1 DEF MasterRes, MasterNew
        <5> QED BY <4>2, <5>1, <5>2 DEF Greeted
      <4> QED BY <4>1, <4>2
    <3>4. Greeted' <=> Greeted
      BY <1>1 DEF Greeted
    <3> QED BY <1>1, <3>2, <3>3, <3>4 DEF GreetsOn, Greeting
  <2> QED BY <1>1, <2>1, Ctx DEF Greets, IInv
<1>5. DownInv'
  <2>1. Answer => Answer'
    BY <1>1 DEF Answer, ScHead
  <2>2. DownGo => DownGo'
    BY <1>1 DEF DownGo
  <2>3. DownWait => DownWait'
    BY <1>1, <2>1 DEF DownWait
  <2> QED BY <1>1, <2>2, <2>3 DEF DownInv, IInv
<1> QED BY <1>2, <1>3, <1>4, <1>5 DEF IInv

LEMMA RtRestartInv ==
  ASSUME IInv, LinkTypeOK', RtRestart
  PROVE  IInv'
<1>1. /\ alive' = {} /\ at' = [m \in Magic |-> NoConn] /\ CloseConns(Conn)
      /\ UNCHANGED <<scamper, rtEnd, down>>
  BY DEF RtRestart
<1>2. /\ sc' = sc /\ scEnd' = scEnd /\ down' = down /\ R' = R /\ Held' = NoConn
      /\ ropen' = {} /\ \A d \in Conn : up'[d] = <<>>
  BY <1>1, CloseIs, Ctx DEF scamper, R, Held, IInv
<1>3. Shape'
  BY <1>1, <1>2 DEF Shape, IInv
<1>4. Window' /\ GotInv' /\ UpInv' /\ Greets'
  BY <1>2 DEF Window, GotInv, UpInv, Greets, IInv
<1>5. DownInv'
  <2>1. ASSUME sc.conn # NoConn, Answer  PROVE Answer'
    BY <1>2, <2>1 DEF Answer, ScHead
  <2>2. ASSUME sc.conn # NoConn, DownGo  PROVE DownGo'
    BY <1>2, <2>2 DEF DownGo
  <2>3. ASSUME sc.conn # NoConn, DownWait  PROVE DownWait'
    BY <1>1, <1>2, <2>1, <2>3 DEF DownWait
  <2> QED BY <1>2, <2>2, <2>3 DEF DownInv, IInv
<1> QED BY <1>3, <1>4, <1>5 DEF IInv

LEMMA SilenceInv ==
  ASSUME IInv, LinkTypeOK', NEW c \in Conn, Silence(c)
  PROVE  IInv'
<1>1. /\ c = sc.conn /\ c # NoConn /\ CloseConns({c})
      /\ sc' = [sc EXCEPT !.silent = TRUE]
      /\ at' = [m \in Magic |-> IF at[m] = c THEN NoConn ELSE at[m]]
      /\ down' = [down EXCEPT ![c] = <<>>]
      /\ UNCHANGED <<scEnd, alive, rtEnd>>
  BY Ctx DEF Silence
<1>2. /\ sc'.conn = c /\ sc'.mode = sc.mode /\ sc'.resume = sc.resume /\ sc'.magic = sc.magic
      /\ scEnd' = scEnd /\ alive' = alive /\ R' = R
  BY <1>1 DEF R, IInv, LinkTypeOK
<1>3. /\ Held' = IF Held = c THEN NoConn ELSE Held
      /\ ropen' = ropen \ {c} /\ \A d \in Conn : up'[d] = IF d = c THEN <<>> ELSE up[d]
      /\ down'[c] = <<>> /\ \A d \in Conn : d # c => down'[d] = down[d]
  BY <1>1, <1>2, CloseIs, Ctx DEF Held, IInv, LinkTypeOK
<1>4. Shape'
  <2>1. \A d \in Conn : (d \notin ropen' => up'[d] = <<>>) /\ (d # sc'.conn => down'[d] = <<>>)
    BY <1>1, <1>2, <1>3 DEF IInv, Shape
  <2>2. \A m \in Magic : at'[m] # NoConn => m \in alive' /\ at'[m] \in ropen'
    BY <1>1, <1>3 DEF IInv, Shape
  <2> QED BY <1>1, <1>2, <2>1, <2>2 DEF IInv, Shape
<1>5. Window' /\ GotInv'
  BY <1>2 DEF Window, GotInv, IInv
<1>6. Greets'
  <2>1. ASSUME NEW d \in ropen, d # c, d # Held  PROVE GreetsOn(d)'
    <3>1. scEnd.rcv <= scEnd'.rcv /\ up'[d] = up[d] /\ (Greeted' => Greeted)
      BY <1>2, <1>3, <2>1, Ctx, EndFields DEF Greeted
    <3> QED BY <1>2, <2>1, <3>1, GreetingStays
  <2> QED BY <1>2, <1>3, <2>1, Ctx DEF Greets
<1>7. DownInv'
  <2>1. Held' # sc'.conn
    BY <1>1, <1>2, <1>3
  <2>2. Flow(<<>>, scEnd, R, scEnd.rcv, scEnd.una)
    BY FlowNil, Ctx DEF IInv, Window
  <2>3. scEnd.rcv \in 0 .. Len(R.log) /\ scEnd.una \in 0 .. R.rcv
    BY <2>2 DEF Flow
  <2>4. DownGo'
    BY <1>2, <1>3, <2>1, <2>2, <2>3 DEF DownGo
  <2>5. DownWait'
    BY <1>2, <1>3, <2>1 DEF DownWait
  <2> QED BY <2>4, <2>5 DEF DownInv
<1>8. UpInv'
  <2>1. Held' # NoConn => up'[Held'] = up[Held] /\ Held' = Held /\ Held' # sc'.conn
    BY <1>1, <1>2, <1>3, Ctx
  <2> QED BY <1>2, <2>1 DEF UpInv, IInv
<1> QED BY <1>4, <1>5, <1>6, <1>7, <1>8 DEF IInv

-----------------------------------------------------------------------------
(* The theorems.                                                           *)

LEMMA InvStep ==
  IInv /\ [LinkNext]_link => IInv'
<1> SUFFICES ASSUME IInv, [LinkNext]_link  PROVE IInv'
  OBVIOUS
<1>0. LinkTypeOK'
  BY TypeStep DEF IInv
<1>1. CASE UNCHANGED link
  <2>1. R' = R /\ Held' = Held /\ sc' = sc /\ scEnd' = scEnd /\ alive' = alive
        /\ at' = at /\ ropen' = ropen /\ up' = up /\ down' = down
    BY <1>1 DEF link, R, Held
  <2>2. Shape' /\ Window' /\ GotInv' /\ UpInv'
    BY <2>1 DEF IInv, Shape, Window, GotInv, UpInv
  <2>3. Greets'
    BY <2>1 DEF IInv, Greets, GreetsOn, Greeting, Greeted
  <2>4. DownInv'
    BY <2>1 DEF IInv, DownInv, DownGo, DownWait, Answer, ScHead
  <2> QED BY <1>0, <2>2, <2>3, <2>4 DEF IInv
<1>2. CASE LinkQuiet
  <2>1. ASSUME NEW c \in Conn, Connect(c)  PROVE IInv'
    BY <1>0, <2>1, ConnectInv
  <2>2. ASSUME NEW free \in BOOLEAN, ScLose(free)  PROVE IInv'
    <3>1. Retry(scEnd) /\ sc.conn \in Conn /\ scEnd.rcv <= scEnd.rcv
      BY <2>2, Ctx, EndFields DEF ScLose
    <3> QED BY <1>0, <3>1, RetryInv, Ctx DEF IInv, Window, GotInv
  <2>3. CASE ScRead
    <3>1. CASE sc.mode = "connect"
      <4>1. ScHas /\ ScHandshake(ScHead)
        BY <2>3, <3>1 DEF ScRead
      <4> QED BY <1>0, <3>1, <4>1, WaitIs, MasterIdInv, MasterOkInv, MasterRejInv
    <3>2. CASE sc.mode # "connect"
      BY <1>0, <2>3, <3>2, ScFrameInv, Ctx DEF ScRead
    <3> QED BY <3>1, <3>2
  <2>4. CASE ScKeepalive
    BY <1>0, <2>4, ScKeepaliveInv
  <2>5. ASSUME NEW c \in Conn, RtReadHandshake(c)  PROVE IInv'
    BY <1>0, <2>5, WaitsIs, MasterNewInv, MasterResInv
  <2>6. ASSUME NEW m \in Magic, NEW c \in Conn, RtRead(m, c)  PROVE IInv'
    BY <1>0, <2>6, RtReadInv
  <2>7. ASSUME NEW c \in Conn, NEW free \in BOOLEAN, RtLose(c, free)  PROVE IInv'
    BY <1>0, <2>7, RtLoseInv
  <2>8. ASSUME NEW m \in Magic, RtKeepalive(m)  PROVE IInv'
    BY <1>0, <2>8, RtKeepaliveInv
  <2>9. ASSUME NEW m \in Magic, Expire(m)  PROVE IInv'
    BY <1>0, <2>9, ExpireInv
  <2>10. CASE RtRestart
    BY <1>0, <2>10, RtRestartInv
  <2>11. ASSUME NEW c \in Conn, Silence(c)  PROVE IInv'
    BY <1>0, <2>11, SilenceInv
  <2> QED BY <1>2, <2>1, <2>2, <2>3, <2>4, <2>5, <2>6, <2>7, <2>8, <2>9, <2>10, <2>11
          DEF LinkQuiet
<1>3. ASSUME NEW b \in Body, ScSend(b)  PROVE IInv'
  BY <1>0, <1>3, ScSendInv
<1>4. ASSUME NEW b \in Body, NEW m \in Magic, RtSend(m, b)  PROVE IInv'
  BY <1>0, <1>4, RtSendInv
<1>5. ASSUME NEW refuse \in BOOLEAN, ScReadMsg(refuse)  PROVE IInv'
  BY <1>0, <1>5, ScReadMsgInv
<1>6. ASSUME NEW m \in Magic, NEW c \in Conn, RtReadMsg(m, c)  PROVE IInv'
  BY <1>0, <1>6, RtReadMsgInv
<1> QED BY <1>1, <1>2, <1>3, <1>4, <1>5, <1>6 DEF LinkNext

(* The inductive invariant of RemoteLink holds in every reachable state.   *)
THEOREM LinkInv == LinkSpec => []IInv
BY InitInv, InvStep, PTL DEF LinkSpec

(* No end ever gets a frame it does not expect, whatever connections are   *)
(* lost and sessions resumed (scamper_control.c:2474, :2584, :2609;        *)
(* sc_remoted.c:1883, :2129, :2165).                                       *)
THEOREM LinkNoFault == LinkSpec => []NoFault
<1>1. IInv => NoFault
  <2> SUFFICES ASSUME IInv PROVE NoFault
    OBVIOUS
  <2>1. ASSUME sc.conn # NoConn, down[sc.conn] # <<>>, sc.mode = "connect"
        PROVE  ScHead.type \in {"MASTER_ID", "MASTER_OK", "MASTER_REJ"}
    BY <2>1, WaitIs DEF ScHas
  <2>2. ASSUME sc.conn # NoConn, down[sc.conn] # <<>>, sc.mode # "connect"
        PROVE  Fits(scEnd, ScHead)
    <3>1. sc.mode = "go" /\ down[sc.conn] \in Seq(Frames)
      BY <2>2, Ctx
    <3>2. PICK q \in 0 .. Len(R.log), a \in 0 .. R.rcv : Flow(down[sc.conn], scEnd, R, q, a)
      BY <3>1, GoIs
    <3>3. /\ ScHead.type \in {"MSG", "ACK", "KEEPALIVE"} /\ ScHead.seq = scEnd.rcv
          /\ ScHead.type = "ACK" => ScHead.ack = scEnd.una /\ scEnd.una < R.rcv
      BY <2>2, <3>1, <3>2, FlowRead, Ctx DEF ScHead
    <3> QED BY <3>3, Ctx, EndFields DEF Fits, AckFits, IInv, Window
  <2>3. ASSUME NEW c \in ropen, up[c] # <<>>, Fresh(c)
        PROVE  Head(up[c]).type \in {"MASTER_NEW", "MASTER_RES"}
    <3>1. c \in Conn /\ c # Held /\ up[c] \in Seq(Frames)
      BY <2>3, Ctx DEF Fresh
    <3>2. Greeting(up[c][1]) /\ Head(up[c]) = up[c][1]
      BY <2>3, <3>1 DEF IInv, Greets, GreetsOn
    <3> QED BY <3>2 DEF Greeting, MasterNew
  <2>4. ASSUME NEW c \in ropen, up[c] # <<>>, NEW m \in alive, at[m] = c
        PROVE  Fits(rtEnd[m], Head(up[c]))
    <3>1. c \in Conn /\ up[c] \in Seq(Frames)
      BY Ctx
    <3>2. R = rtEnd[m] /\ \E q \in 0 .. Len(scEnd.log), a \in 0 .. scEnd.rcv :
                            Flow(up[c], R, scEnd, q, a)
      BY <2>4, <3>1, HeldIs
    <3>3. PICK q \in 0 .. Len(scEnd.log), a \in 0 .. scEnd.rcv : Flow(up[c], R, scEnd, q, a)
      BY <3>2
    <3>4. /\ Head(up[c]).type \in {"MSG", "ACK", "KEEPALIVE"} /\ Head(up[c]).seq = R.rcv
          /\ Head(up[c]).type = "ACK" => Head(up[c]).ack = R.una /\ R.una < scEnd.rcv
      BY <2>4, <3>1, <3>3, FlowRead, Ctx
    <3> QED BY <3>2, <3>4, Ctx, EndFields DEF Fits, AckFits, IInv, Window
  <2> QED BY <2>1, <2>2, <2>3, <2>4 DEF NoFault
<1> QED BY <1>1, LinkInv, PTL

(* A session the controller keeps is never refused: the window checks of   *)
(* sc_master_control_resume (sc_remoted.c:1947-1981) pass.                 *)
THEOREM LinkRejOnlyIfGone == LinkSpec => []RejOnlyIfGone
<1>1. IInv => RejOnlyIfGone
  <2> SUFFICES ASSUME IInv, sc.conn # NoConn, sc.magic \in alive,
                      NEW i \in DOMAIN down[sc.conn], down[sc.conn][i] = MasterRej
               PROVE  FALSE
    BY DEF RejOnlyIfGone
  <2>1. down[sc.conn] \in Seq(Frames) /\ down[sc.conn] # <<>> /\ i \in 1 .. Len(down[sc.conn])
    <3>1. down[sc.conn] \in Seq(Frames)
      BY Ctx
    <3>2. i \in 1 .. Len(down[sc.conn])
      BY <3>1, LenProperties
    <3> QED BY <3>1, <3>2, EmptySeq
  <2>2. ASSUME NEW w \in Seq(Frames), NEW r \in Ends, NEW s \in Ends, NEW q, NEW a,
               Flow(w, r, s, q, a), NEW j \in 1 .. Len(w)
        PROVE  w[j] # MasterRej
    <3>1. PICK Q \in [1 .. Len(w) + 1 -> 0 .. q], A \in [1 .. Len(w) + 1 -> 0 .. a] :
            \A k \in 1 .. Len(w) : Carries(w[k], s.log, Q[k], A[k], Q[k + 1], A[k + 1])
      BY <2>2 DEF Flow, Along
    <3>2. Carries(w[j], s.log, Q[j], A[j], Q[j + 1], A[j + 1])
      BY <3>1
    <3> QED BY <3>2 DEF Carries, Msg, MasterRej
  <2>3. CASE sc.mode = "go"
    <3>1. PICK q \in 0 .. Len(R.log), a \in 0 .. R.rcv : Flow(down[sc.conn], scEnd, R, q, a)
      BY <2>3, GoIs
    <3> QED BY <2>1, <2>2, <3>1, Ctx
  <2>4. CASE sc.mode # "go"
    <3>1. Answer
      BY <2>1, <2>4 DEF IInv, DownInv, DownWait
    <3>2. PICK q \in 0 .. Len(R.log) :
            Flow(Tail(down[sc.conn]), Trim(scEnd, R.rcv), R, q, R.rcv)
      BY <3>1 DEF Answer
    <3>3. Tail(down[sc.conn]) \in Seq(Frames) /\ Trim(scEnd, R.rcv) \in Ends
      BY <2>1, HeadTailProperties, TrimIs, Ctx, EndFields
    <3>4. CASE i = 1
      <4>1. ScHead.type \in {"MASTER_OK", "MASTER_ID"} /\ ScHead = MasterRej
        BY <2>1, <3>1, <3>4 DEF Answer, ScHead, MasterOk, MasterId
      <4> QED BY <4>1 DEF MasterRej
    <3>5. CASE i # 1
      <4>1. i - 1 \in 1 .. Len(Tail(down[sc.conn]))
            /\ Tail(down[sc.conn])[i - 1] = down[sc.conn][i]
        BY <2>1, <3>5
      <4> QED BY <2>2, <3>2, <3>3, <4>1, Ctx
    <3> QED BY <3>4, <3>5
  <2> QED BY <2>3, <2>4
<1> QED BY <1>1, LinkInv, PTL

(* A message an end dropped as acknowledged has arrived                    *)
(* (sc_master_control_ack, remote_read_control_ack, the trimming of both   *)
(* ends when a session is resumed).                                        *)
THEOREM LinkNothingLost == LinkSpec => []NothingLost
<1>1. IInv => NothingLost
  BY DEF IInv, Window, NothingLost, R
<1> QED BY <1>1, LinkInv, PTL

-----------------------------------------------------------------------------
(* The link implements the streams.                                        *)

LEMMA StreamInit == Init => Stream!Init
<1> SUFFICES ASSUME Init PROVE Stream!Init
  OBVIOUS
<1>1. sc.magic \in Magic /\ rtEnd[sc.magic] = NewEnd /\ scEnd = NewEnd /\ alive = {}
  BY InitType DEF Init, LinkTypeOK
<1> QED BY <1>1, NewEndIs DEF Stream!Init

(* What the streams do not see. *)
Same ==
  /\ sc'.magic \in alive' <=> sc.magic \in alive
  /\ scEnd'.log = scEnd.log /\ scEnd'.got = scEnd.got
  /\ R'.log = R.log /\ R'.got = R.got

LEMMA SameStutters == Same => [Stream!Next]_(Stream!vars)
BY DEF Same, R, Stream!vars

LEMMA SameRetry ==
  ASSUME IInv, Retry(scEnd)
  PROVE  Same
BY DEF Retry, Forgotten, master, IInv, Shape, LinkTypeOK, Same, R

LEMMA StreamScRead ==
  ASSUME IInv, ScRead
  PROVE  [Stream!Next]_(Stream!vars)
<1>1. CASE sc.mode = "connect" /\ ScHead.type = "MASTER_REJ"
  <2>1. NewMagic /\ sc.magic \notin alive
    BY <1>1, WaitIs DEF ScRead, ScHandshake
  <2>2. PICK m \in Magic \ (alive \cup {sc.magic}) :
          /\ sc' = [conn |-> NoConn, mode |-> "connect", resume |-> FALSE, magic |-> m,
                     silent |-> FALSE]
          /\ scEnd' = NewEnd /\ rtEnd' = [rtEnd EXCEPT ![m] = NewEnd]
          /\ alive' = alive
    BY <2>1 DEF NewMagic, Forgotten
  <2>3. sc'.magic = m /\ rtEnd'[m] = NewEnd /\ m \notin alive'
    BY <2>2 DEF IInv, LinkTypeOK
  <2>4. Stream!Forget
    BY <2>1, <2>2, <2>3, NewEndIs DEF Stream!Forget
  <2> QED BY <2>4 DEF Stream!Next
<1>2. CASE sc.mode = "connect" /\ ScHead.type # "MASTER_REJ"
  <2>1. /\ ScHandshake(ScHead) /\ ScHead.type \in {"MASTER_ID", "MASTER_OK"}
        /\ ScHead \in Frames
    BY <1>2, WaitIs DEF ScRead
  <2>2. scEnd'.log = scEnd.log /\ scEnd'.got = scEnd.got
    BY <2>1, TrimIs, FrameFields, Ctx DEF ScHandshake
  <2>3. sc'.magic = sc.magic /\ rtEnd' = rtEnd /\ alive' = alive
    <3>1. CASE ScHead.type = "MASTER_ID"
      BY <2>1, <3>1 DEF ScHandshake, master, IInv, LinkTypeOK
    <3>2. CASE ScHead.type = "MASTER_OK"
      BY <2>1, <3>2 DEF ScHandshake, master, IInv, LinkTypeOK
    <3> QED BY <2>1, <3>1, <3>2
  <2> QED BY <2>2, <2>3, SameStutters DEF Same, R
<1>3. CASE sc.mode # "connect"
  <2>1. ScFrame(ScHead)
    BY <1>3 DEF ScRead
  <2>2. CASE Retry(scEnd)
    BY <2>2, SameRetry, SameStutters
  <2>3. CASE ~Retry(scEnd)
    <3>1. /\ scEnd'.log = scEnd.log /\ scEnd'.got = scEnd.got
          /\ UNCHANGED <<sc, master>>
      BY <2>1, <2>3, AckedIs, Ctx DEF ScFrame, scamper
    <3> QED BY <3>1, SameStutters DEF Same, R, master
  <2> QED BY <2>2, <2>3
<1> QED BY <1>1, <1>2, <1>3

LEMMA StreamRtHandshake ==
  ASSUME IInv, NEW c \in Conn, RtReadHandshake(c)
  PROVE  [Stream!Next]_(Stream!vars)
<1> DEFINE f == Head(up[c])
<1>1. RtHandshake(c, f) /\ UNCHANGED <<scamper, breaks>> /\ sc' = sc /\ scEnd' = scEnd
  BY WaitsIs DEF scamper
<1>2. CASE UNCHANGED master
  BY <1>1, <1>2, SameStutters DEF Same, R, master
<1>3. CASE ~UNCHANGED master /\ f.type = "MASTER_NEW"
  <2>1. RtMasterNew(c, f) /\ f.magic \notin alive
    BY <1>1, <1>3 DEF RtHandshake, RtMasterNew
  <2>2. f.magic = sc.magic /\ ~Greeted /\ scEnd = NewEnd
    <3>1. Greeting(f)
      BY WaitsIs
    <3>2. f.magic = sc.magic /\ (Greeted => sc.magic \in alive)
      BY <1>3, <3>1 DEF Greeting, MasterNew
    <3> QED BY <2>1, <3>2 DEF Greeted, IInv, Shape
  <2>3. /\ alive' = alive \cup {sc.magic} /\ rtEnd' = [rtEnd EXCEPT ![sc.magic] = NewEnd]
    BY <2>1, <2>2 DEF RtMasterNew
  <2>4. sc'.magic \in alive' /\ rtEnd'[sc'.magic] = NewEnd
    BY <1>1, <2>3, Ctx DEF IInv, LinkTypeOK
  <2>5. Stream!Open
    BY <1>1, <2>1, <2>2, <2>4, NewEndIs DEF Stream!Open
  <2> QED BY <2>5 DEF Stream!Next
<1>4. CASE ~UNCHANGED master /\ f.type = "MASTER_RES"
  <2>1. /\ f.magic \in alive /\ rtEnd' = [rtEnd EXCEPT ![f.magic] = Trim(rtEnd[f.magic], f.rcv_nxt)]
        /\ alive' = alive
    BY <1>1, <1>4 DEF RtHandshake, RtMasterRes
  <2>2. f.magic \in Magic /\ f.rcv_nxt \in Nat /\ f.magic = sc.magic /\ R = rtEnd[f.magic]
    BY <1>4, <2>1, WaitsIs, FrameFields, Ctx
  <2>3. R' = Trim(R, f.rcv_nxt)
    BY <1>1, <2>1, <2>2 DEF R, IInv, LinkTypeOK
  <2>4. R'.log = R.log /\ R'.got = R.got
    BY <2>2, <2>3, TrimIs, Ctx
  <2> QED BY <1>1, <2>1, <2>4, SameStutters DEF Same
<1> QED BY <1>1, <1>2, <1>3, <1>4, WaitsIs

LEMMA StreamRtRead ==
  ASSUME IInv, NEW m \in Magic, NEW c \in Conn, RtRead(m, c)
  PROVE  [Stream!Next]_(Stream!vars)
<1> DEFINE f == Head(up[c])
<1>1. /\ RtFrame(m, c, f) /\ sc' = sc /\ scEnd' = scEnd /\ m \in alive
      /\ m = sc.magic /\ R = rtEnd[m] /\ R \in Ends
  BY Ctx DEF RtRead, scamper
<1>2. CASE UNCHANGED master
  BY <1>1, <1>2, SameStutters DEF Same, R, master
<1>3. CASE rtEnd' = [rtEnd EXCEPT ![m] = Acked(@)] /\ alive' = alive
  <2>1. R' = Acked(R)
    BY <1>1, <1>3 DEF R, IInv, LinkTypeOK
  <2> QED BY <1>1, <1>3, <2>1, AckedIs, SameStutters DEF Same
<1>4. CASE alive' = alive \ {m} /\ rtEnd' = rtEnd
  <2>1. Stream!Close
    BY <1>1, <1>4 DEF Stream!Close
  <2> QED BY <2>1 DEF Stream!Next
<1>5. UNCHANGED master \/ (rtEnd' = [rtEnd EXCEPT ![m] = Acked(@)] /\ alive' = alive)
      \/ (alive' = alive \ {m} /\ rtEnd' = rtEnd)
  BY <1>1 DEF RtFrame
<1> QED BY <1>2, <1>3, <1>4, <1>5

LEMMA StreamStep ==
  IInv /\ [LinkNext]_link => [Stream!Next]_(Stream!vars)
<1> SUFFICES ASSUME IInv, [LinkNext]_link  PROVE [Stream!Next]_(Stream!vars)
  OBVIOUS
<1>1. CASE UNCHANGED link
  BY <1>1, SameStutters DEF Same, R, link
<1>2. CASE LinkQuiet
  <2>1. ASSUME NEW c \in Conn, Connect(c)  PROVE Same
    BY <2>1, Ctx DEF Connect, master, IInv, LinkTypeOK, Same, R
  <2>2. ASSUME NEW free \in BOOLEAN, ScLose(free)  PROVE Same
    BY <2>2, SameRetry DEF ScLose
  <2>3. ASSUME ScKeepalive  PROVE Same
    BY <2>3 DEF ScKeepalive, master, scamper, Same, R
  <2>4. ASSUME NEW c \in Conn, NEW free \in BOOLEAN, RtLose(c, free)  PROVE Same
    BY <2>4 DEF RtLose, scamper, Same, R
  <2>5. ASSUME NEW m \in Magic, RtKeepalive(m)  PROVE Same
    BY <2>5 DEF RtKeepalive, scamper, master, Same, R
  <2>6. ASSUME NEW m \in Magic, Expire(m)  PROVE Stream!Close
    BY <2>6, Ctx DEF Expire, scamper, Stream!Close
  <2>7. ASSUME RtRestart  PROVE Same \/ Stream!Close
    BY <2>7 DEF RtRestart, scamper, Same, R, Stream!Close
  <2>8. (Same \/ Stream!Close) => [Stream!Next]_(Stream!vars)
    BY SameStutters DEF Stream!Next
  <2>9. ASSUME NEW c \in Conn, Silence(c)  PROVE Same
    BY <2>9 DEF Silence, IInv, LinkTypeOK, Same, R
  <2> QED BY <1>2, <2>1, <2>2, <2>3, <2>4, <2>5, <2>6, <2>7, <2>8, <2>9,
             StreamScRead, StreamRtHandshake, StreamRtRead DEF LinkQuiet
<1>3. ASSUME NEW b \in Body, ScSend(b)  PROVE Stream!SendUp(b)
  BY <1>3, SentIs, Ctx DEF ScSend, master, Stream!SendUp
<1>4. ASSUME NEW b \in Body, NEW m \in Magic, RtSend(m, b)  PROVE Stream!SendDown(b)
  <2>1. m = sc.magic /\ m \in alive /\ rtEnd[m] \in Ends
    BY <1>4, Ctx DEF RtSend
  <2>2. /\ sc' = sc /\ scEnd' = scEnd /\ alive' = alive
        /\ rtEnd'[m] = Sent(rtEnd[m], b)
    BY <1>4 DEF RtSend, scamper, IInv, LinkTypeOK
  <2> QED BY <2>1, <2>2, SentIs DEF Stream!SendDown
<1>5. ASSUME NEW refuse \in BOOLEAN, ScReadMsg(refuse)  PROVE Stream!DeliverDown
  <2> DEFINE f == ScHead
  <2>1. ScHas /\ sc.mode = "go" /\ f.type = "MSG" /\ ScTake(f, refuse) /\ sc.resume
    BY <1>5, GoIs DEF ScReadMsg, ScMsg
  <2>2. PICK q \in 0 .. Len(R.log), a \in 0 .. R.rcv : Flow(down[sc.conn], scEnd, R, q, a)
    BY <2>1, GoIs
  <2>3. scEnd.rcv < Len(R.log) /\ f.body = R.log[scEnd.rcv + 1] /\ f.body \in Body
    BY <2>1, <2>2, FlowRead, ScHasIs, FrameFields, Ctx DEF IInv, ScHead
  <2>4. /\ scEnd' = Taken(scEnd, f.body) /\ sc'.magic = sc.magic
        /\ alive' = alive /\ rtEnd' = rtEnd
    BY <2>1 DEF ScTake, Retry, master, IInv, LinkTypeOK
  <2>5. Len(scEnd.got) = scEnd.rcv
    BY DEF IInv, GotInv
  <2>6. scEnd'.log = scEnd.log /\ scEnd'.got = Append(scEnd.got, f.body)
    BY <2>3, <2>4, TakenIs, Ctx
  <2> HIDE DEF f
  <2> QED BY <2>3, <2>4, <2>5, <2>6 DEF Stream!DeliverDown, R
<1>6. ASSUME NEW m \in Magic, NEW c \in Conn, RtReadMsg(m, c)  PROVE Stream!DeliverUp
  <2> DEFINE f == Head(up[c])
  <2>1. /\ RtHas(c) /\ m \in alive /\ at[m] = c /\ f.type = "MSG"
        /\ rtEnd' = [rtEnd EXCEPT ![m] = Taken(@, f.body)]
        /\ sc' = sc /\ scEnd' = scEnd /\ alive' = alive
    BY <1>6 DEF RtReadMsg, scamper
  <2>2. /\ m = sc.magic /\ R = rtEnd[m] /\ R \in Ends /\ up[c] # <<>> /\ up[c] \in Seq(Frames)
    BY <2>1, HeldIs, Ctx DEF RtHas
  <2>3. \E q \in 0 .. Len(scEnd.log), a \in 0 .. scEnd.rcv : Flow(up[c], R, scEnd, q, a)
    BY <2>1, HeldIs
  <2>4. R.rcv < Len(scEnd.log) /\ f.body = scEnd.log[R.rcv + 1]
    BY <2>1, <2>2, <2>3, FlowRead, Ctx
  <2>5. f.body \in Body
    BY <2>1, RtHasIs, FrameFields DEF IInv
  <2>6. R' = Taken(R, f.body)
    BY <2>1, <2>2 DEF R, IInv, LinkTypeOK
  <2>7. R'.log = R.log /\ R'.got = Append(R.got, f.body) /\ Len(R.got) = R.rcv
    BY <2>2, <2>5, <2>6, TakenIs DEF IInv, GotInv
  <2> HIDE DEF f
  <2> QED BY <2>1, <2>2, <2>4, <2>7 DEF Stream!DeliverUp, R
<1> QED BY <1>1, <1>2, <1>3, <1>4, <1>5, <1>6 DEF LinkNext, Stream!Next

(* The link is a pair of streams: what an end takes is what the other sent,*)
(* in order, once and without a gap, and scamper forgets a session only    *)
(* when the controller has closed it (remote_read_control,                 *)
(* sc_master_control_resume).                                              *)
THEOREM LinkIsStream == LinkSpec => StreamSpec
<1>1. LinkSpec => []IInv
  BY LinkInv
<1>2. Init => Stream!Init
  BY StreamInit
<1>3. IInv /\ [LinkNext]_link => [Stream!Next]_(Stream!vars)
  BY StreamStep
<1> QED BY <1>1, <1>2, <1>3, PTL DEF LinkSpec, StreamSpec, Stream!Spec

-----------------------------------------------------------------------------
(* The channels: what the variables hold.                                  *)
Words == {"", "cmd", "done", "res", "stop"}

Client ==
  [st : {"none", "attached", "flush", "closed"}, fin : {"no", "done", "fin"},
   tasks : Nat, out : Seq({"res", "stop"}), cmds : Nat]

Channel ==
  [st : {"none", "open", "freed"}, fd : BOOLEAN, reads : BOOLEAN, rx : BOOLEAN,
   tx : BOOLEAN, wb : Seq(Words), user : {"none", "open", "half", "gone"},
   lines : Nat, got : Seq(Words)]

ClientType  == clients \in [Chan -> Client]

(* a descriptor is of an open channel; one that is polled is of a channel  *)
(* neither end has ended                                                   *)
ChannelOK(cn) ==
  /\ cn \in Channel
  /\ cn.fd => cn.st = "open"
  /\ cn.reads => cn.fd /\ ~cn.rx /\ ~cn.tx

ChannelsOK ==
  /\ chans \in [Magic -> [Chan -> Channel]]
  /\ \A m \in Magic, ch \in Chan : ChannelOK(chans[m][ch])

(* what the channels say is a message of the link                          *)
LEMMA BodyOf ==
  /\ \A ch \in Chan : New(ch) \in Body /\ Fin(ch) \in Body
  /\ \A ch \in Chan, v \in {"cmd", "done", "res", "stop"} : Data(ch, v) \in Body
  /\ \A b \in Body : b.ch \in Chan /\ b.v \in Words /\ b.k \in {"new", "fin", "data"}
BY ControlAssumption DEF New, Fin, Data, Words

-----------------------------------------------------------------------------
(* Types.                                                                  *)

(* the operators on a client stay in its type                              *)
LEMMA ClientOps ==
  ASSUME NEW cl \in Client
  PROVE  /\ StopIfFinished(cl) \in Client
         /\ \A why \in {"done", "fin"} : Finish(cl, why) \in Client
         /\ \A v \in Words : Line(cl, v) \in Client
         /\ NewClient \in Client /\ NoClient \in Client
<1>1. ASSUME NEW d \in Client  PROVE StopIfFinished(d) \in Client
  <2>1. Append(d.out, "stop") \in Seq({"res", "stop"})
    BY AppendProperties DEF Client
  <2> QED BY <2>1 DEF Client, StopIfFinished
<1>2. ASSUME NEW why \in {"done", "fin"}  PROVE Finish(cl, why) \in Client
  <2>1. [cl EXCEPT !.fin = why] \in Client
    BY DEF Client
  <2> QED BY <1>1, <2>1 DEF Finish
<1>3. ASSUME NEW v \in Words  PROVE Line(cl, v) \in Client
  <2>1. cl.tasks + 1 \in Nat /\ cl.cmds + 1 \in Nat
    BY DEF Client
  <2>2. [cl EXCEPT !.tasks = @ + 1, !.cmds = @ + 1] \in Client
    BY <2>1 DEF Client
  <2> QED BY <1>2, <2>2 DEF Line
<1>4. <<>> \in Seq({"res", "stop"})
  OBVIOUS
<1>5. NewClient \in Client /\ NoClient \in Client
  BY <1>4 DEF Client, NewClient, NoClient
<1> QED BY <1>1, <1>2, <1>3, <1>5

LEMMA ClientTypeStep ==
  ASSUME ClientType, LinkTypeOK, [Next]_vars
  PROVE  ClientType'
<1>3. CASE UNCHANGED clients
  BY <1>3 DEF ClientType
<1>4. CASE Quiet(LinkQuiet)
  BY <1>4, ClientOps DEF Quiet, KeptClients, ClientType
<1>5. CASE ScMessage
  <2> DEFINE b == ScHead.body
  <2>1. b \in Body /\ b.v \in Words
    BY <1>5, ScHasIs, FrameFields, BodyOf DEF ScMessage
  <2>2. clients' = [clients EXCEPT ![b.ch] = Gets(@, b)]
    BY <1>5 DEF ScMessage
  <2>3. ASSUME NEW cl \in Client  PROVE Gets(cl, b) \in Client
    BY <2>1, ClientOps DEF Gets
  <2> HIDE DEF b
  <2> QED BY <2>2, <2>3 DEF ClientType
<1>6. ASSUME NEW ch \in Chan, TaskEnds(ch) \/ ClientWrite(ch) \/ ClientClose(ch)
      PROVE  ClientType'
  <2>1. clients[ch] \in Client
    BY DEF ClientType
  <2>2. CASE TaskEnds(ch)
    <3> DEFINE d == [clients[ch] EXCEPT !.tasks = @ - 1, !.out = Append(@, "res")]
    <3>1. Append(clients[ch].out, "res") \in Seq({"res", "stop"})
      BY <2>1, AppendProperties DEF Client
    <3>2. clients[ch].tasks - 1 \in Nat
      BY <2>1, <2>2 DEF TaskEnds, Client
    <3>3. d \in Client
      BY <2>1, <3>1, <3>2 DEF Client
    <3>4. clients' = [clients EXCEPT ![ch] = StopIfFinished(d)]
      BY <2>2 DEF TaskEnds
    <3> HIDE DEF d
    <3> QED BY <3>3, <3>4, ClientOps DEF ClientType
  <2>3. CASE ClientWrite(ch)
    <3>1. Tail(clients[ch].out) \in Seq({"res", "stop"})
      BY <2>1, <2>3, HeadTailProperties DEF ClientWrite, Client
    <3> QED BY <2>1, <2>3, <3>1 DEF ClientWrite, Client, ClientType
  <2>4. CASE ClientClose(ch)
    <3>1. <<>> \in Seq({"res", "stop"})
      OBVIOUS
    <3> QED BY <2>1, <2>4, <3>1 DEF ClientClose, Client, ClientType
  <2> QED BY <1>6, <2>2, <2>3, <2>4
<1>7. CASE Controller
  <2>1. \A m \in Magic, c \in Conn : RtMessage(m, c) => UNCHANGED clients
    BY DEF RtMessage
  <2>2. \A m \in Magic, ch \in Chan :
          Accept(m, ch) \/ UserWrite(m, ch) => UNCHANGED clients
    BY DEF Accept, UserWrite
  <2>3. \A m \in Magic, ch \in Chan, v \in {"cmd", "done"} :
          UserLine(m, ch, v) => UNCHANGED clients
    BY DEF UserLine
  <2>4. \A m \in Magic, ch \in Chan, how \in {"half", "gone"} :
          UserEnds(m, ch, how) => UNCHANGED clients
    BY DEF UserEnds
  <2>5. \A m \in Magic, ch \in Chan, err \in BOOLEAN :
          UserEof(m, ch, err) => UNCHANGED clients
    BY DEF UserEof
  <2> QED BY <1>3, <1>7, <2>1, <2>2, <2>3, <2>4, <2>5 DEF Controller
<1> QED BY <1>3, <1>4, <1>5, <1>6, <1>7 DEF Next, Scamper, vars, control

(* every step of the channels is one of the link                           *)
LEMMA LinkStep ==
  ASSUME ClientType, LinkTypeOK, [Next]_vars
  PROVE  [LinkNext]_link
<1>1. CASE UNCHANGED vars
  BY <1>1 DEF vars
<1>2. CASE Quiet(LinkQuiet)
  BY <1>2 DEF Quiet, LinkNext
<1>3. CASE ScMessage
  <2>1. PICK refuse : refuse \in BOOLEAN /\ ScReadMsg(refuse)
    BY <1>3 DEF ScMessage
  <2> QED BY <2>1 DEF LinkNext
<1>4. ASSUME NEW ch \in Chan, TaskEnds(ch) \/ ClientWrite(ch) \/ ClientClose(ch)
      PROVE  [LinkNext]_link
  <2>1. CASE TaskEnds(ch)
    BY <2>1 DEF TaskEnds
  <2>2. CASE ClientWrite(ch)
    <3> DEFINE v == Head(clients[ch].out)
    <3>1. v \in {"res", "stop"} /\ ScSend(Data(ch, v))
      BY <2>2, HeadTailProperties DEF ClientWrite, ClientType, Client
    <3> QED BY <3>1, BodyOf DEF LinkNext
  <2>3. CASE ClientClose(ch)
    BY <2>3, BodyOf DEF ClientClose, LinkNext
  <2> QED BY <1>4, <2>1, <2>2, <2>3
<1>5. ASSUME NEW m \in Magic, NEW c \in Conn, RtMessage(m, c)
      PROVE  [LinkNext]_link
  BY <1>5 DEF RtMessage, LinkNext
<1>6. ASSUME NEW m \in Magic, NEW ch \in Chan, Accept(m, ch) \/ UserWrite(m, ch)
      PROVE  [LinkNext]_link
  BY <1>6, BodyOf DEF Accept, UserWrite, LinkNext
<1>7. ASSUME NEW m \in Magic, NEW ch \in Chan, NEW v \in {"cmd", "done"},
             UserLine(m, ch, v)
      PROVE  [LinkNext]_link
  BY <1>7, BodyOf DEF UserLine, LinkNext
<1>8. ASSUME NEW m \in Magic, NEW ch \in Chan, NEW how \in {"half", "gone"},
             UserEnds(m, ch, how)
      PROVE  [LinkNext]_link
  BY <1>8 DEF UserEnds
<1>9. ASSUME NEW m \in Magic, NEW ch \in Chan, NEW err \in BOOLEAN, UserEof(m, ch, err)
      PROVE  [LinkNext]_link
  BY <1>9, BodyOf DEF UserEof, LinkNext
<1> QED BY <1>1, <1>2, <1>3, <1>4, <1>5, <1>6, <1>7, <1>8, <1>9
        DEF Next, Controller, Scamper

LEMMA ControlTypes ==
  Spec => [](ClientType /\ IInv)
<1>1. ControlInit => ClientType /\ IInv
  <2>1. ControlInit => ClientType
    BY ClientOps DEF ControlInit, ClientType, NoClient, Client
  <2> QED BY <2>1, InitInv DEF ControlInit
<1>2. (ClientType /\ IInv) /\ [Next]_vars => (ClientType /\ IInv)'
  BY ClientTypeStep, LinkStep, InvStep DEF IInv
<1> QED BY <1>1, <1>2, PTL DEF Spec

(* The channels of RemoteControl use the link of RemoteLink: the messages  *)
(* remote_write and sc_remoted's unix sockets put on it are all it carries.*)
THEOREM ControlIsLink == Spec => LinkSpec
<1>1. ControlInit => Init
  BY DEF ControlInit
<1>2. ClientType /\ IInv /\ [Next]_vars => [LinkNext]_link
  BY LinkStep DEF IInv
<1> QED BY <1>1, <1>2, ControlTypes, PTL DEF Spec, LinkSpec

(* No frame is unexpected, whatever the processes do (NoFault).            *)
THEOREM ControlNoFault == Spec => []NoFault
BY ControlIsLink, LinkNoFault, PTL

(* A session the controller has is never refused (RejOnlyIfGone).          *)
THEOREM ControlRejOnlyIfGone == Spec => []RejOnlyIfGone
BY ControlIsLink, LinkRejOnlyIfGone, PTL

(* The windows of both ends fit (NothingLost).                             *)
THEOREM ControlNothingLost == Spec => []NothingLost
BY ControlIsLink, LinkNothingLost, PTL

(* The messages of all channels are two streams (StreamSpec).              *)
THEOREM ControlIsStream == Spec => StreamSpec
BY ControlIsLink, LinkIsStream, PTL

-----------------------------------------------------------------------------
(* The channels of the controller.                                         *)

LEMMA NoChannelOK == ChannelOK(NoChannel)
<1>1. <<>> \in Seq(Words)
  OBVIOUS
<1> QED BY <1>1 DEF ChannelOK, Channel, NoChannel

LEMMA SetChannelOK ==
  ASSUME ChannelsOK, NEW m \in Magic, NEW ch \in Chan, NEW cn, ChannelOK(cn),
         SetChannel(m, ch, cn)
  PROVE  /\ ChannelsOK'
         /\ chans'[m][ch] = cn
         /\ \A n \in Magic, d \in Chan : n # m \/ d # ch => chans'[n][d] = chans[n][d]
<1>1. chans' \in [Magic -> [Chan -> Channel]] /\ chans'[m][ch] = cn
      /\ \A n \in Magic, d \in Chan : n # m \/ d # ch => chans'[n][d] = chans[n][d]
  BY DEF SetChannel, ChannelsOK, ChannelOK
<1>2. \A n \in Magic, d \in Chan : ChannelOK(chans'[n][d])
  BY <1>1 DEF ChannelsOK
<1> QED BY <1>1, <1>2 DEF ChannelsOK, ChannelOK

(* the operators on a channel                                              *)
LEMMA ChannelOps ==
  ASSUME NEW cn, ChannelOK(cn)
  PROVE  /\ ChannelOK(OpenChannel)
         /\ ChannelOK(Freed(cn)) /\ ChannelOK(FdFreed(cn)) /\ ChannelOK(Finished(cn))
         /\ \A err \in BOOLEAN : ChannelOK(Eof(cn, err))
         /\ \A v \in Words : cn.fd => ChannelOK([cn EXCEPT !.wb = Append(@, v)])
         /\ ChannelOK([cn EXCEPT !.lines = @ + 1])
         /\ \A how \in {"half", "gone"} : ChannelOK([cn EXCEPT !.user = how])
         /\ ChannelOK([cn EXCEPT !.got = @ \o cn.wb, !.wb = <<>>])
<1>1. <<>> \in Seq(Words)
  OBVIOUS
<1>2. ChannelOK(OpenChannel)
  BY <1>1 DEF ChannelOK, Channel, NoChannel, OpenChannel
<1>3. ChannelOK(Freed(cn)) /\ ChannelOK(FdFreed(cn))
  BY <1>1 DEF ChannelOK, Channel, Freed, FdFreed
<1>4. ChannelOK(Finished(cn))
  <2>1. Freed([cn EXCEPT !.rx = TRUE]) = [Freed(cn) EXCEPT !.rx = TRUE]
    BY DEF Freed, ChannelOK, Channel
  <2>2. ChannelOK([Freed(cn) EXCEPT !.rx = TRUE])
    BY <1>1 DEF ChannelOK, Channel, Freed
  <2>3. ChannelOK([cn EXCEPT !.rx = TRUE, !.reads = FALSE])
    BY DEF ChannelOK, Channel
  <2> QED BY <2>1, <2>2, <2>3 DEF Finished
<1>5. ASSUME NEW err \in BOOLEAN  PROVE ChannelOK(Eof(cn, err))
  <2>1. ChannelOK([FdFreed(cn) EXCEPT !.tx = TRUE])
    BY <1>1 DEF ChannelOK, Channel, FdFreed
  <2>2. ChannelOK([cn EXCEPT !.reads = FALSE, !.tx = TRUE])
    BY DEF ChannelOK, Channel
  <2> QED BY <1>3, <2>1, <2>2 DEF Eof
<1>6. ASSUME NEW v \in Words, cn.fd
      PROVE  ChannelOK([cn EXCEPT !.wb = Append(@, v)])
  <2>1. Append(cn.wb, v) \in Seq(Words)
    BY AppendProperties DEF ChannelOK, Channel
  <2> QED BY <2>1 DEF ChannelOK, Channel
<1>7. ChannelOK([cn EXCEPT !.lines = @ + 1])
  <2>1. cn.lines + 1 \in Nat
    BY DEF ChannelOK, Channel
  <2> QED BY <2>1 DEF ChannelOK, Channel
<1>8. \A how \in {"half", "gone"} : ChannelOK([cn EXCEPT !.user = how])
  BY DEF ChannelOK, Channel
<1>9. ChannelOK([cn EXCEPT !.got = @ \o cn.wb, !.wb = <<>>])
  <2>1. cn.got \o cn.wb \in Seq(Words)
    BY ConcatProperties DEF ChannelOK, Channel
  <2> QED BY <1>1, <2>1 DEF ChannelOK, Channel
<1> QED BY <1>2, <1>3, <1>4, <1>5, <1>6, <1>7, <1>8, <1>9

LEMMA ChansStep ==
  ASSUME ChannelsOK, LinkTypeOK, LinkTypeOK', [Next]_vars
  PROVE  ChannelsOK'
<1>0. \A m \in Magic, ch \in Chan : ChannelOK(chans[m][ch])
  BY DEF ChannelsOK
<1>1. CASE UNCHANGED chans
  BY <1>1 DEF ChannelsOK
<1>2. CASE Quiet(LinkQuiet)
  <2>1. chans' = Swept(chans) /\ ChannelOK(NoChannel)
    BY <1>2, NoChannelOK DEF Quiet
  <2>2. chans' \in [Magic -> [Chan -> Channel]]
    BY <2>1 DEF Swept, ChannelOK, ChannelsOK
  <2>3. \A m \in Magic, ch \in Chan :
          chans'[m][ch] = chans[m][ch] \/ chans'[m][ch] = NoChannel
    BY <2>1 DEF Swept
  <2> QED BY <2>1, <2>2, <2>3 DEF ChannelsOK, ChannelOK
<1>3. ASSUME NEW m \in Magic, NEW c \in Conn, RtMessage(m, c)
      PROVE  ChannelsOK'
  <2> DEFINE b  == Head(up[c]).body
             cn == chans[m][b.ch]
  <2>1. RtReadMsg(m, c) /\ Head(up[c]).type = "MSG"
    BY <1>3 DEF RtMessage, RtReadMsg
  <2>2. b.ch \in Chan /\ b.v \in Words
    BY <2>1, RtHasIs, FrameFields, BodyOf DEF RtReadMsg
  <2>3. ChannelOK(cn)
    BY <1>0, <2>2
  <2>4. SetChannel(m, b.ch,
           IF cn.st = "open" /\ b.k = "fin" THEN Finished(cn)
           ELSE IF cn.fd THEN [cn EXCEPT !.wb = Append(@, b.v)]
           ELSE cn)
    BY <1>3 DEF RtMessage
  <2> HIDE DEF b
  <2>5. ChannelOK(IF cn.st = "open" /\ b.k = "fin" THEN Finished(cn)
           ELSE IF cn.fd THEN [cn EXCEPT !.wb = Append(@, b.v)]
           ELSE cn)
    BY <2>2, <2>3, ChannelOps
  <2> HIDE DEF cn
  <2> QED BY <2>2, <2>4, <2>5, SetChannelOK
<1>4. ASSUME NEW m \in Magic, NEW ch \in Chan, Accept(m, ch)
      PROVE  ChannelsOK'
  BY <1>0, <1>4, ChannelOps, SetChannelOK DEF Accept
<1>5. ASSUME NEW m \in Magic, NEW ch \in Chan, UserWrite(m, ch)
      PROVE  ChannelsOK'
  <2> DEFINE cn  == chans[m][ch]
             cn2 == IF cn.user = "gone" THEN FdFreed(cn)
                    ELSE [cn EXCEPT !.got = @ \o cn.wb, !.wb = <<>>]
  <2>1. ChannelOK(cn2)
    BY <1>0, ChannelOps
  <2>2. SetChannel(m, ch, IF cn.rx THEN Freed(cn2) ELSE cn2)
    BY <1>5 DEF UserWrite
  <2> HIDE DEF cn2
  <2>3. ChannelOK(IF cn.rx THEN Freed(cn2) ELSE cn2)
    BY <2>1, ChannelOps
  <2> QED BY <2>2, <2>3, SetChannelOK
<1>6. ASSUME NEW m \in Magic, NEW ch \in Chan, NEW v \in {"cmd", "done"},
             UserLine(m, ch, v)
      PROVE  ChannelsOK'
  <2>1. SetChannel(m, ch, [chans[m][ch] EXCEPT !.lines = @ + 1])
    BY <1>6 DEF UserLine
  <2> QED BY <1>0, <2>1, ChannelOps, SetChannelOK
<1>7. ASSUME NEW m \in Magic, NEW ch \in Chan, NEW how \in {"half", "gone"},
             UserEnds(m, ch, how)
      PROVE  ChannelsOK'
  BY <1>0, <1>7, ChannelOps, SetChannelOK DEF UserEnds
<1>8. ASSUME NEW m \in Magic, NEW ch \in Chan, NEW err \in BOOLEAN, UserEof(m, ch, err)
      PROVE  ChannelsOK'
  BY <1>0, <1>8, ChannelOps, SetChannelOK DEF UserEof
<1>9. CASE Scamper
  BY <1>1, <1>9 DEF Scamper, ScMessage, TaskEnds, ClientWrite, ClientClose
<1> QED BY <1>1, <1>2, <1>3, <1>4, <1>5, <1>6, <1>7, <1>8, <1>9
        DEF Next, Controller, vars, control

LEMMA ControlChans == Spec => []ChannelsOK
<1>1. ControlInit => ChannelsOK
  BY NoChannelOK DEF ControlInit, ChannelsOK, ChannelOK
<1>2. ChannelsOK /\ LinkTypeOK /\ LinkTypeOK' /\ [Next]_vars => ChannelsOK'
  BY ChansStep
<1>3. ClientType /\ IInv => LinkTypeOK
  BY DEF IInv
<1> QED BY <1>1, <1>2, <1>3, ControlTypes, PTL DEF Spec

(* Clients and channels are of their type; only an open channel has a      *)
(* descriptor, and only a descriptor is polled (sc_onechan_unix_read_do,   *)
(* sc_onechan_unix_write_do, onechan_fin).                                 *)
THEOREM ControlTypeOK == Spec => []TypeOK
<1>1. ClientType /\ IInv /\ ChannelsOK => TypeOK
  BY DEF ClientType, IInv, ChannelsOK, ChannelOK, TypeOK, Client, Channel
<1> QED BY <1>1, ControlTypes, ControlChans, PTL

-----------------------------------------------------------------------------
(* What the messages of a session say, and what the two sides of a channel *)
(* know of it.                                                             *)

(* a channel begins with "new", and nothing follows its "fin"              *)
Ordered(s) ==
  \A j \in 1 .. Len(s) :
    /\ s[j].k # "new" => \E i \in 1 .. j - 1 : s[i].k = "new" /\ s[i].ch = s[j].ch
    /\ \A i \in 1 .. j - 1 : s[i].ch = s[j].ch => s[i].k # "fin"

(* what the log of a session has of a channel of its master                *)
Told(s, ch, cn) ==
  /\ cn.st = "none" => \A i \in 1 .. Len(s) : s[i].ch # ch
  /\ cn.st # "none" => \E i \in 1 .. Len(s) : s[i].k = "new" /\ s[i].ch = ch
  /\ ~cn.tx => \A i \in 1 .. Len(s) : s[i].ch = ch => s[i].k # "fin"

(* what a client has of what scamper took                                  *)
Heard(s, ch, cl) ==
  /\ cl.st = "none" => \A i \in 1 .. Len(s) : ~(s[i].k = "new" /\ s[i].ch = ch)
  /\ cl.fin = "fin" => \E i \in 1 .. Len(s) : s[i].k = "fin" /\ s[i].ch = ch
  /\ cl.st \in {"flush", "closed"} => cl.fin # "no"

Said ==
  /\ Ordered(R.log)
  /\ \A m \in alive, ch \in Chan : Told(rtEnd[m].log, ch, chans[m][ch])
  /\ \A m \in Magic \ alive, ch \in Chan : chans[m][ch].st = "none"
  /\ \A ch \in Chan : Heard(scEnd.got, ch, clients[ch])

(* a step of the link alone: the session goes on, the controller may give  *)
(* it up, or there is a new one                                            *)
GoesOn ==
  /\ sc'.magic = sc.magic /\ alive' \subseteq alive
  /\ R'.log = R.log /\ scEnd'.got = scEnd.got
  /\ scEnd'.log = scEnd.log /\ R'.got = R.got

Anew ==
  /\ R'.log = <<>> /\ R'.got = <<>>
  /\ sc'.magic \notin alive /\ ~sc'.resume

LEMMA ScReadIs ==
  ASSUME IInv, ScRead
  PROVE  GoesOn \/ Anew
<1>1. CASE sc.mode = "connect" /\ ScHead.type = "MASTER_REJ"
  <2>1. PICK m \in Magic \ (alive \cup {sc.magic}) :
          /\ sc' = [conn |-> NoConn, mode |-> "connect", resume |-> FALSE, magic |-> m,
                     silent |-> FALSE]
          /\ rtEnd' = [rtEnd EXCEPT ![m] = NewEnd]
    BY <1>1, WaitIs DEF ScRead, ScHandshake, NewMagic
  <2>2. sc'.magic = m /\ ~sc'.resume /\ R' = NewEnd
    BY <2>1 DEF R, IInv, LinkTypeOK
  <2> QED BY <2>1, <2>2, NewEndIs DEF Anew
<1>2. CASE sc.mode = "connect" /\ ScHead.type # "MASTER_REJ"
  <2>1. /\ ScHandshake(ScHead) /\ ScHead.type \in {"MASTER_ID", "MASTER_OK"}
        /\ ScHead \in Frames
    BY <1>2, WaitIs DEF ScRead
  <2>2. CASE ScHead.type = "MASTER_ID"
    BY <2>1, <2>2 DEF ScHandshake, master, IInv, LinkTypeOK, GoesOn, R
  <2>3. CASE ScHead.type = "MASTER_OK"
    <3>1. scEnd'.got = scEnd.got /\ scEnd'.log = scEnd.log
      BY <2>1, <2>3, TrimIs, FrameFields, Ctx DEF ScHandshake
    <3> QED BY <2>1, <2>3, <3>1 DEF ScHandshake, master, IInv, LinkTypeOK, GoesOn, R
  <2> QED BY <2>1, <2>2, <2>3
<1>3. CASE sc.mode # "connect"
  <2>1. ScFrame(ScHead) /\ sc.resume
    BY <1>3, GoIs, Ctx DEF ScRead
  <2>2. CASE Retry(scEnd)
    BY <2>1, <2>2 DEF Retry, master, IInv, LinkTypeOK, GoesOn, R
  <2>3. CASE ~Retry(scEnd)
    <3>1. scEnd'.got = scEnd.got /\ scEnd'.log = scEnd.log /\ UNCHANGED <<sc, master>>
      BY <2>1, <2>3, AckedIs, Ctx DEF ScFrame, scamper
    <3> QED BY <3>1 DEF GoesOn, R, master
  <2> QED BY <2>2, <2>3
<1> QED BY <1>1, <1>2, <1>3

LEMMA HandshakeIs ==
  ASSUME IInv, NEW c \in Conn, RtReadHandshake(c)
  PROVE  GoesOn \/ Anew
<1> DEFINE f == Head(up[c])
<1>1. RtHandshake(c, f) /\ sc' = sc /\ scEnd' = scEnd
  BY WaitsIs DEF scamper
<1>2. CASE UNCHANGED master
  BY <1>1, <1>2 DEF GoesOn, R, master
<1>3. CASE ~UNCHANGED master /\ f.type = "MASTER_NEW"
  <2>1. RtMasterNew(c, f) /\ f.magic \notin alive
    BY <1>1, <1>3 DEF RtHandshake, RtMasterNew
  <2>2. Greeting(f)
    BY WaitsIs
  <2>3. f.magic = sc.magic /\ ~sc.resume
    BY <1>3, <2>1, <2>2 DEF Greeting, Greeted, MasterNew
  <2>4. rtEnd' = [rtEnd EXCEPT ![sc.magic] = NewEnd]
    BY <2>1, <2>3 DEF RtMasterNew
  <2>5. R' = NewEnd
    BY <1>1, <2>4, Ctx DEF R, IInv, LinkTypeOK
  <2> QED BY <1>1, <2>1, <2>3, <2>5, NewEndIs DEF Anew
<1>4. CASE ~UNCHANGED master /\ f.type = "MASTER_RES"
  <2>1. /\ f.magic \in alive /\ rtEnd' = [rtEnd EXCEPT ![f.magic] = Trim(rtEnd[f.magic], f.rcv_nxt)]
        /\ alive' = alive
    BY <1>1, <1>4 DEF RtHandshake, RtMasterRes
  <2>2. f.rcv_nxt \in Nat /\ f.magic = sc.magic /\ R = rtEnd[f.magic]
    BY <1>4, <2>1, WaitsIs, FrameFields, Ctx
  <2>3. R' = Trim(R, f.rcv_nxt)
    BY <1>1, <2>1, <2>2 DEF R, IInv, LinkTypeOK
  <2>4. R'.log = R.log /\ R'.got = R.got
    BY <2>2, <2>3, TrimIs, Ctx
  <2> QED BY <1>1, <2>1, <2>4 DEF GoesOn
<1> QED BY <1>2, <1>3, <1>4, WaitsIs

LEMMA QuietIs ==
  ASSUME IInv, LinkQuiet
  PROVE  GoesOn \/ Anew
<1>1. ASSUME NEW c \in Conn, Connect(c)  PROVE GoesOn
  BY <1>1, Ctx DEF Connect, master, IInv, LinkTypeOK, GoesOn, R
<1>2. ASSUME NEW free \in BOOLEAN, ScLose(free)  PROVE GoesOn \/ Anew
  BY <1>2, NewEndIs DEF ScLose, Retry, Forgotten, master, IInv, Shape, LinkTypeOK, GoesOn, R
<1>3. ASSUME ScKeepalive  PROVE GoesOn
  BY <1>3 DEF ScKeepalive, master, scamper, GoesOn, R
<1>4. ASSUME NEW c \in Conn, NEW free \in BOOLEAN, RtLose(c, free)  PROVE GoesOn
  BY <1>4 DEF RtLose, scamper, GoesOn, R
<1>5. ASSUME NEW m \in Magic, RtKeepalive(m)  PROVE GoesOn
  BY <1>5 DEF RtKeepalive, scamper, master, GoesOn, R
<1>6. ASSUME NEW m \in Magic, Expire(m)  PROVE GoesOn
  BY <1>6 DEF Expire, scamper, GoesOn, R
<1>7. ASSUME RtRestart  PROVE GoesOn
  BY <1>7 DEF RtRestart, scamper, GoesOn, R
<1>8. ASSUME NEW m \in Magic, NEW c \in Conn, RtRead(m, c)  PROVE GoesOn
  <2>1. /\ RtFrame(m, c, Head(up[c])) /\ sc' = sc /\ scEnd' = scEnd
        /\ m = sc.magic /\ R = rtEnd[m] /\ R \in Ends
    BY <1>8, Ctx DEF RtRead, scamper
  <2>2. alive' \subseteq alive
        /\ (rtEnd' = rtEnd \/ rtEnd' = [rtEnd EXCEPT ![m] = Acked(@)])
    BY <2>1 DEF RtFrame, master
  <2>3. R' = R \/ R' = Acked(R)
    BY <2>1, <2>2 DEF R, IInv, LinkTypeOK
  <2> QED BY <2>1, <2>2, <2>3, AckedIs DEF GoesOn
<1>9. ASSUME NEW c \in Conn, Silence(c)  PROVE GoesOn
  BY <1>9 DEF Silence, IInv, LinkTypeOK, GoesOn, R
<1> QED BY <1>1, <1>2, <1>3, <1>4, <1>5, <1>6, <1>7, <1>8, <1>9, ScReadIs, HandshakeIs
        DEF LinkQuiet

LEMMA SaidQuiet ==
  ASSUME IInv, IInv', Said, Quiet(LinkQuiet)
  PROVE  Said'
<1>1. /\ chans' = Swept(chans) /\ clients' = KeptClients(clients)
      /\ (GoesOn \/ Anew)
  BY QuietIs DEF Quiet
<1>2. \A m \in Magic \ alive', ch \in Chan : chans'[m][ch].st = "none"
  BY <1>1 DEF Swept, NoChannel
<1>3. \A m \in Magic, ch \in Chan : m \in alive' => chans'[m][ch] = chans[m][ch]
  BY <1>1 DEF Swept
<1>4. alive' \subseteq {sc'.magic} /\ sc'.magic \in Magic /\ sc'.resume \in BOOLEAN
  BY DEF IInv, Shape, LinkTypeOK
<1>5. \A ch \in Chan : Heard(scEnd'.got, ch, clients'[ch])
  <2>1. CASE sc'.resume
    BY <1>1, <2>1 DEF KeptClients, GoesOn, Anew, Said
  <2>2. CASE ~sc'.resume
    <3>1. scEnd'.got = <<>>
      BY <2>2, NewEndIs DEF IInv, Shape
    <3>2. \A ch \in Chan : clients'[ch] = NoClient
      BY <1>1, <2>2 DEF KeptClients
    <3> QED BY <3>1, <3>2 DEF Heard, NoClient
  <2> QED BY <1>4, <2>1, <2>2
<1>6. CASE GoesOn
  <2>1. \A m \in alive' : m \in alive /\ rtEnd'[m].log = rtEnd[m].log
    BY <1>4, <1>6 DEF GoesOn, R
  <2> QED BY <1>2, <1>3, <1>4, <1>5, <1>6, <2>1 DEF Said, GoesOn
<1>7. CASE Anew
  <2>1. \A m \in alive' : m \in Magic \ alive /\ rtEnd'[m].log = <<>>
    BY <1>4, <1>7 DEF Anew, R
  <2>2. \A m \in alive', ch \in Chan : Told(<<>>, ch, chans'[m][ch])
    BY <1>3, <2>1 DEF Told, Said
  <2>3. Ordered(<<>>)
    BY DEF Ordered
  <2> QED BY <1>2, <1>5, <1>7, <2>1, <2>2, <2>3 DEF Said, Anew
<1> QED BY <1>1, <1>6, <1>7

(* t is s with b after it                                                  *)
Grown(s, b, t) ==
  /\ Len(s) \in Nat /\ Len(t) = Len(s) + 1 /\ t[Len(s) + 1] = b
  /\ \A i \in 1 .. Len(s) : t[i] = s[i]

LEMMA HeardMore ==
  ASSUME NEW s, NEW b, NEW t, Grown(s, b, t), NEW ch, NEW cl, NEW d, Heard(s, ch, cl),
         d.st = "none" => cl.st = "none" /\ ~(b.k = "new" /\ b.ch = ch),
         d.fin = "fin" => cl.fin = "fin" \/ (b.k = "fin" /\ b.ch = ch),
         d.st \in {"flush", "closed"} => d.fin # "no"
  PROVE  Heard(t, ch, d)
BY DEF Grown, Heard

(* what the operators on a client make of its state                        *)
LEMMA ClientGoes ==
  ASSUME NEW cl \in Client, cl.st \in {"flush", "closed"} => cl.fin # "no", Live(cl)
  PROVE  /\ \A why \in {"done", "fin"} :
              LET d == Finish(cl, why)
              IN  /\ d.st # "none" /\ d.fin # "no"
                  /\ d.fin = cl.fin \/ d.fin = why
         /\ \A v \in Words :
              LET d == Line(cl, v)
              IN  /\ d.st # "none" /\ (d.st \in {"flush", "closed"} => d.fin # "no")
                  /\ d.fin = cl.fin \/ d.fin = "done"
<1>1. ASSUME NEW d \in Client, d.fin # "no", d.st # "none"
      PROVE  /\ StopIfFinished(d).fin = d.fin /\ StopIfFinished(d).st # "none"
  BY <1>1 DEF Client, StopIfFinished
<1>2. cl.st \in {"attached", "flush"}
  BY DEF Live
<1>3. ASSUME NEW why \in {"done", "fin"}
      PROVE  LET d == Finish(cl, why)
             IN  /\ d.st # "none" /\ d.fin # "no"
                 /\ d.fin = cl.fin \/ d.fin = why
  <2>1. LET d == [cl EXCEPT !.fin = why]
        IN  d \in Client /\ d.fin = why /\ d.st = cl.st
    BY DEF Client
  <2> QED BY <1>1, <1>2, <2>1 DEF Finish
<1>4. ASSUME NEW v \in Words
      PROVE  LET d == Line(cl, v)
             IN  /\ d.st # "none" /\ (d.st \in {"flush", "closed"} => d.fin # "no")
                 /\ d.fin = cl.fin \/ d.fin = "done"
  <2>1. LET d == [cl EXCEPT !.tasks = @ + 1, !.cmds = @ + 1]
        IN  d.fin = cl.fin /\ d.st = cl.st
    BY DEF Client
  <2> QED BY <1>2, <1>3, <2>1 DEF Line
<1> QED BY <1>3, <1>4

LEMMA SaidScMessage ==
  ASSUME IInv, ClientType, Said, ScMessage
  PROVE  Said'
<1> DEFINE b == ScHead.body
<1>1. PICK refuse \in BOOLEAN : ScReadMsg(refuse)
  BY DEF ScMessage
<1>2. ScHas /\ sc.mode = "go" /\ ScHead.type = "MSG" /\ ScTake(ScHead, refuse) /\ sc.resume
  BY <1>1, GoIs DEF ScReadMsg, ScMsg
<1>3. b \in Body /\ b.ch \in Chan /\ b.v \in Words /\ b.k \in {"new", "fin", "data"}
  BY <1>2, ScHasIs, FrameFields, BodyOf DEF IInv
<1>4. /\ scEnd' = Taken(scEnd, b) /\ sc'.magic = sc.magic
      /\ alive' = alive /\ rtEnd' = rtEnd
  BY <1>2 DEF ScTake, Retry, master, IInv, LinkTypeOK
<1>5. chans' = chans /\ clients' = [clients EXCEPT ![b.ch] = Gets(@, b)]
  BY DEF ScMessage
<1> HIDE DEF b
<1>6. Grown(scEnd.got, b, scEnd'.got)
  <2>1. scEnd \in Ends /\ Len(scEnd.got) \in Nat
    BY Ctx, EndFields
  <2>2. /\ Len(Taken(scEnd, b).got) = Len(scEnd.got) + 1
        /\ Taken(scEnd, b).got[Len(scEnd.got) + 1] = b
        /\ \A i \in 1 .. Len(scEnd.got) : Taken(scEnd, b).got[i] = scEnd.got[i]
    BY <1>3, <2>1, TakenIs
  <2> QED BY <1>4, <2>1, <2>2 DEF Grown
<1>7. ASSUME NEW ch \in Chan  PROVE Heard(scEnd'.got, ch, clients'[ch])
  <2> DEFINE cl == clients[ch]
  <2>1. cl \in Client /\ Heard(scEnd.got, ch, cl)
    BY DEF ClientType, Said
  <2>2. cl.st \in {"flush", "closed"} => cl.fin # "no"
    BY <2>1 DEF Heard
  <2>3. CASE ch # b.ch
    BY <1>5, <1>6, <2>1, <2>2, <2>3, HeardMore
  <2>4. CASE ch = b.ch
    <3>1. clients'[ch] = Gets(cl, b)
      BY <1>3, <1>5, <2>4 DEF ClientType
    <3> HIDE DEF cl
    <3>2. CASE b.k = "new"
      <4>1. clients'[ch].st = "attached" /\ clients'[ch].fin = "no"
        BY <3>1, <3>2 DEF Gets, NewClient, NoClient
      <4> QED BY <1>6, <2>1, <4>1, HeardMore
    <3>3. CASE b.k # "new" /\ ~Live(cl)
      <4>1. clients'[ch] = cl
        BY <3>1, <3>3 DEF Gets
      <4> QED BY <1>6, <2>1, <2>2, <3>3, <4>1, HeardMore
    <3>4. CASE b.k = "fin" /\ Live(cl)
      <4>1. clients'[ch] = Finish(cl, "fin")
        BY <3>1, <3>4 DEF Gets
      <4>2. LET d == clients'[ch]
            IN  d.st # "none" /\ d.fin # "no" /\ (d.fin = cl.fin \/ d.fin = "fin")
        BY <2>1, <2>2, <3>4, <4>1, ClientGoes
      <4> QED BY <1>6, <2>1, <2>4, <3>4, <4>2, HeardMore
    <3>5. CASE b.k = "data" /\ Live(cl)
      <4>1. clients'[ch] = Line(cl, b.v)
        BY <3>1, <3>5 DEF Gets
      <4>2. LET d == clients'[ch]
            IN  /\ d.st # "none" /\ (d.st \in {"flush", "closed"} => d.fin # "no")
                /\ (d.fin = cl.fin \/ d.fin = "done")
        BY <1>3, <2>1, <2>2, <3>5, <4>1, ClientGoes
      <4> QED BY <1>6, <2>1, <4>2, HeardMore
    <3> QED BY <1>3, <3>2, <3>3, <3>4, <3>5
  <2> QED BY <2>3, <2>4
<1> QED BY <1>4, <1>5, <1>7 DEF Said, R

LEMMA SaidClient ==
  ASSUME IInv, ClientType, Said, NEW ch \in Chan,
         TaskEnds(ch) \/ ClientWrite(ch) \/ ClientClose(ch)
  PROVE  Said'
<1> DEFINE cl == clients[ch]
<1>1. cl \in Client /\ Heard(scEnd.got, ch, cl)
  BY DEF ClientType, Said
<1>2. /\ chans' = chans /\ sc'.magic = sc.magic /\ alive' = alive /\ rtEnd' = rtEnd
      /\ scEnd'.got = scEnd.got
  BY SentIs, Ctx DEF TaskEnds, ClientWrite, ClientClose, ScSend, Sent, master, link, Ends
<1>3. /\ clients' = [clients EXCEPT ![ch] = clients'[ch]]
      /\ clients'[ch].fin = cl.fin
      /\ clients'[ch].st # "none"
      /\ clients'[ch].st \in {"flush", "closed"} => cl.fin # "no"
  <2>1. CASE TaskEnds(ch)
    <3> DEFINE d == [cl EXCEPT !.tasks = @ - 1, !.out = Append(@, "res")]
    <3>1. clients' = [clients EXCEPT ![ch] = StopIfFinished(d)] /\ Live(cl)
      BY <2>1 DEF TaskEnds
    <3>2. d.st = cl.st /\ d.fin = cl.fin
      BY <1>1 DEF Client
    <3>3. clients'[ch] = StopIfFinished(d)
      BY <3>1 DEF ClientType
    <3>4. /\ StopIfFinished(d).fin = d.fin
          /\ StopIfFinished(d).st = d.st \/ (StopIfFinished(d).st = "flush" /\ d.fin # "no")
      BY <1>1 DEF StopIfFinished, Client
    <3> HIDE DEF d
    <3> QED BY <1>1, <3>1, <3>2, <3>3, <3>4 DEF Live, Heard, ClientType
  <2>2. CASE ClientWrite(ch)
    BY <1>1, <2>2 DEF ClientWrite, Client, ClientType, Live, Heard
  <2>3. CASE ClientClose(ch)
    BY <1>1, <2>3 DEF ClientClose, Client, ClientType, IsDone, Heard
  <2> QED BY <2>1, <2>2, <2>3
<1>4. \A d \in Chan : Heard(scEnd'.got, d, clients'[d])
  <2>1. Heard(scEnd.got, ch, clients'[ch])
    BY <1>1, <1>3 DEF Heard
  <2> QED BY <1>2, <1>3, <2>1 DEF Said, ClientType
<1> QED BY <1>2, <1>4 DEF Said, R

(* a step that leaves the links' logs and the clients                      *)
LEMMA SaidChannel ==
  ASSUME IInv, ChannelsOK, Said, NEW m \in Magic, NEW ch \in Chan, NEW cn,
         SetChannel(m, ch, cn), cn.st = "none" <=> chans[m][ch].st = "none",
         cn.tx = chans[m][ch].tx,
         sc'.magic = sc.magic, alive' = alive, scEnd' = scEnd, clients' = clients,
         \A n \in Magic : rtEnd'[n].log = rtEnd[n].log
  PROVE  Said'
<1>1. \A n \in Magic, d \in Chan :
        /\ chans'[n][d].st = "none" <=> chans[n][d].st = "none"
        /\ chans'[n][d].tx = chans[n][d].tx
  BY DEF SetChannel, ChannelsOK
<1>2. alive \subseteq Magic /\ sc.magic \in Magic
  BY DEF IInv, LinkTypeOK
<1>3. \A n \in alive, d \in Chan : Told(rtEnd'[n].log, d, chans'[n][d])
  <2>1. ASSUME NEW n \in alive, NEW d \in Chan
        PROVE  Told(rtEnd'[n].log, d, chans'[n][d])
    <3>1. Told(rtEnd[n].log, d, chans[n][d]) /\ rtEnd'[n].log = rtEnd[n].log
      BY <1>2 DEF Said
    <3> QED BY <1>1, <1>2, <3>1 DEF Told
  <2> QED BY <2>1
<1>4. R'.log = R.log
  BY <1>2 DEF R
<1> QED BY <1>1, <1>3, <1>4 DEF Said

(* a step by which a master says something more about a channel            *)
LEMMA SaidMore ==
  ASSUME IInv, ChannelsOK, Said, NEW m \in Magic, NEW ch \in Chan, NEW cn, NEW b \in Body,
         RtSend(m, b), b.ch = ch, SetChannel(m, ch, cn), clients' = clients,
         cn.st # "none",
         \/ chans[m][ch].st = "none" /\ b.k = "new"
         \/ chans[m][ch].st # "none" /\ b.k # "new" /\ ~chans[m][ch].tx,
         cn.tx \/ b.k # "fin"
  PROVE  Said'
<1>1. /\ m \in alive /\ m = sc.magic /\ rtEnd[m] \in Ends /\ R = rtEnd[m]
      /\ sc' = sc /\ scEnd' = scEnd /\ alive' = alive
      /\ rtEnd' = [rtEnd EXCEPT ![m] = Sent(@, b)]
  BY Ctx DEF RtSend, scamper
<1>2. R' = Sent(R, b) /\ rtEnd'[m] = R'
  BY <1>1, Ctx DEF R, IInv, LinkTypeOK
<1> DEFINE s == R.log
           t == R'.log
<1>3. Grown(s, b, t)
  <2>1. Len(R.log) \in Nat
    BY <1>1, EndFields
  <2>2. /\ Len(Sent(R, b).log) = Len(R.log) + 1
        /\ Sent(R, b).log[Len(R.log) + 1] = b
        /\ \A i \in 1 .. Len(R.log) : Sent(R, b).log[i] = R.log[i]
    BY <1>1, SentIs
  <2> QED BY <1>2, <2>1, <2>2 DEF Grown
<1>4. (\A d \in Chan : Told(s, d, chans[m][d])) /\ Ordered(s)
  BY <1>1 DEF Said
<1>5. /\ chans'[m][ch] = cn
      /\ \A d \in Chan : d # ch => chans'[m][d] = chans[m][d]
      /\ \A n \in Magic, d \in Chan : n # m => chans'[n][d] = chans[n][d]
  BY DEF SetChannel, ChannelsOK
<1> HIDE DEF s, t
<1>6. \A i \in 1 .. Len(s) : s[i].ch = ch => s[i].k # "fin"
  BY <1>4 DEF Told
<1>7. b.k # "new" => \E i \in 1 .. Len(s) : s[i].k = "new" /\ s[i].ch = ch
  BY <1>4 DEF Told
<1>8. Ordered(t)
  <2>1. ASSUME NEW j \in 1 .. Len(t)
        PROVE  /\ t[j].k # "new" => \E i \in 1 .. j - 1 : t[i].k = "new" /\ t[i].ch = t[j].ch
               /\ \A i \in 1 .. j - 1 : t[i].ch = t[j].ch => t[i].k # "fin"
    <3>1. CASE j = Len(s) + 1
      BY <1>3, <1>6, <1>7, <3>1 DEF Grown
    <3>2. CASE j \in 1 .. Len(s)
      <4>1. \A i \in 1 .. j : t[i] = s[i]
        BY <1>3, <3>2 DEF Grown
      <4> QED BY <1>4, <3>2, <4>1 DEF Ordered
    <3> QED BY <1>3, <3>1, <3>2 DEF Grown
  <2> QED BY <2>1 DEF Ordered
<1>9. ASSUME NEW d \in Chan  PROVE Told(t, d, chans'[m][d])
  <2>1. CASE d = ch
    <3>1. \E i \in 1 .. Len(t) : t[i].k = "new" /\ t[i].ch = ch
      BY <1>3, <1>7 DEF Grown
    <3>2. ~cn.tx => \A i \in 1 .. Len(t) : t[i].ch = ch => t[i].k # "fin"
      BY <1>3, <1>6 DEF Grown
    <3> QED BY <1>5, <2>1, <3>1, <3>2 DEF Told
  <2>2. CASE d # ch
    <3> QED BY SMTT(60), <1>3, <1>4, <1>5, <2>2 DEF Told, Grown
  <2> QED BY <2>1, <2>2
<1>10. \A n \in alive : n = m
  BY <1>1 DEF IInv, Shape
<1>11. Ordered(R'.log)
  BY <1>8 DEF t
<1>12. \A n \in alive', d \in Chan : Told(rtEnd'[n].log, d, chans'[n][d])
  BY <1>1, <1>2, <1>9, <1>10 DEF t
<1>13. \A n \in Magic \ alive', d \in Chan : chans'[n][d].st = "none"
  BY <1>1, <1>5 DEF Said
<1> QED BY <1>1, <1>11, <1>12, <1>13 DEF Said

LEMMA SaidController ==
  ASSUME IInv, ChannelsOK, Said, Controller
  PROVE  Said'
<1>1. ASSUME NEW m \in Magic, NEW c \in Conn, RtMessage(m, c)
      PROVE  Said'
  <2> DEFINE b  == Head(up[c]).body
             cn == chans[m][b.ch]
  <2>1. RtReadMsg(m, c) /\ Head(up[c]).type = "MSG"
    BY <1>1 DEF RtMessage, RtReadMsg
  <2>2. b \in Body /\ b.ch \in Chan /\ b.v \in Words
    BY <2>1, RtHasIs, FrameFields, BodyOf DEF RtReadMsg, IInv
  <2>3. /\ sc' = sc /\ scEnd' = scEnd /\ alive' = alive
        /\ rtEnd' = [rtEnd EXCEPT ![m] = Taken(@, b)]
    BY <2>1 DEF RtReadMsg, scamper
  <2>4. \A n \in Magic : rtEnd'[n].log = rtEnd[n].log
    BY <2>2, <2>3, TakenIs, Ctx DEF IInv, LinkTypeOK
  <2>5. /\ SetChannel(m, b.ch,
           IF cn.st = "open" /\ b.k = "fin" THEN Finished(cn)
           ELSE IF cn.fd THEN [cn EXCEPT !.wb = Append(@, b.v)]
           ELSE cn)
        /\ clients' = clients
    BY <1>1 DEF RtMessage
  <2> HIDE DEF b
  <2>6. ChannelOK(cn)
    BY <2>2 DEF ChannelsOK
  <2>7. LET d == IF cn.st = "open" /\ b.k = "fin" THEN Finished(cn)
                 ELSE IF cn.fd THEN [cn EXCEPT !.wb = Append(@, b.v)]
                 ELSE cn
        IN  (d.st = "none" <=> cn.st = "none") /\ d.tx = cn.tx
    BY <2>6 DEF ChannelOK, Channel, Finished, Freed
  <2> QED BY <2>2, <2>3, <2>4, <2>5, <2>7, SaidChannel
<1>2. ASSUME NEW m \in Magic, NEW ch \in Chan, Accept(m, ch)
      PROVE  Said'
  <2>1. /\ RtSend(m, New(ch)) /\ New(ch) \in Body /\ New(ch).ch = ch /\ New(ch).k = "new"
        /\ SetChannel(m, ch, OpenChannel) /\ clients' = clients
        /\ chans[m][ch].st = "none"
    BY <1>2, BodyOf DEF Accept, New
  <2>2. OpenChannel.st = "open"
    BY DEF OpenChannel, NoChannel
  <2> QED BY <2>1, <2>2, SaidMore
<1>3. ASSUME NEW m \in Magic, NEW ch \in Chan, UserWrite(m, ch)
      PROVE  Said'
  <2> DEFINE cn  == chans[m][ch]
             cn2 == IF cn.user = "gone" THEN FdFreed(cn)
                    ELSE [cn EXCEPT !.got = @ \o cn.wb, !.wb = <<>>]
             d   == IF cn.rx THEN Freed(cn2) ELSE cn2
  <2>1. SetChannel(m, ch, d) /\ UNCHANGED link /\ clients' = clients /\ cn.st = "open"
    BY <1>3 DEF UserWrite, ChannelsOK, ChannelOK
  <2>2. cn2.st = "open" /\ cn2.tx = cn.tx
    BY <2>1 DEF ChannelsOK, Channel, FdFreed
  <2>3. d.st # "none" /\ d.tx = cn.tx
    <3>1. FdFreed(cn) \in Channel /\ [cn EXCEPT !.got = @ \o cn.wb, !.wb = <<>>] \in Channel
      BY ChannelOps DEF ChannelsOK, ChannelOK
    <3>2. cn2 \in Channel
      BY <3>1
    <3> HIDE DEF cn2
    <3> QED BY <2>2, <3>2 DEF Freed, Channel
  <2> HIDE DEF d
  <2> QED BY <2>1, <2>3, SaidChannel DEF link
<1>4. ASSUME NEW m \in Magic, NEW ch \in Chan, NEW v \in {"cmd", "done"},
             UserLine(m, ch, v)
      PROVE  Said'
  <2> DEFINE cn == chans[m][ch]
             d  == [cn EXCEPT !.lines = @ + 1]
  <2>1. /\ RtSend(m, Data(ch, v)) /\ Data(ch, v) \in Body /\ Data(ch, v).ch = ch
        /\ Data(ch, v).k = "data" /\ SetChannel(m, ch, d) /\ clients' = clients
    BY <1>4, BodyOf DEF UserLine, Data
  <2>2. cn \in Channel /\ cn.st = "open" /\ ~cn.tx
    BY <1>4 DEF UserLine, ChannelsOK, ChannelOK
  <2>3. d.st = "open"
    BY <2>2 DEF Channel
  <2> HIDE DEF d
  <2> QED BY <2>1, <2>2, <2>3, SaidMore
<1>5. ASSUME NEW m \in Magic, NEW ch \in Chan, NEW how \in {"half", "gone"},
             UserEnds(m, ch, how)
      PROVE  Said'
  <2> DEFINE cn == chans[m][ch]
             d  == [cn EXCEPT !.user = how]
  <2>1. cn \in Channel /\ SetChannel(m, ch, d) /\ UNCHANGED link /\ clients' = clients
    BY <1>5 DEF UserEnds, ChannelsOK, ChannelOK
  <2>2. d.st = cn.st /\ d.tx = cn.tx
    BY <2>1 DEF Channel
  <2> HIDE DEF d
  <2> QED BY <2>1, <2>2, SaidChannel DEF link
<1>6. ASSUME NEW m \in Magic, NEW ch \in Chan, NEW err \in BOOLEAN, UserEof(m, ch, err)
      PROVE  Said'
  <2> DEFINE cn == chans[m][ch]
             d  == Eof(cn, err)
  <2>1. cn \in Channel /\ cn.st = "open" /\ ~cn.tx /\ ~cn.rx
    BY <1>6 DEF UserEof, ChannelsOK, ChannelOK
  <2>2. /\ RtSend(m, Fin(ch)) /\ Fin(ch) \in Body /\ Fin(ch).ch = ch /\ Fin(ch).k = "fin"
        /\ SetChannel(m, ch, d) /\ clients' = clients
    BY <1>6, <2>1, BodyOf DEF UserEof, Fin
  <2>3. d.st = "open" /\ d.tx
    BY <2>1 DEF Eof, FdFreed, Channel
  <2> HIDE DEF d
  <2> QED BY <2>1, <2>2, <2>3, SaidMore
<1> QED BY <1>1, <1>2, <1>3, <1>4, <1>5, <1>6 DEF Controller

LEMMA ControlSaid == Spec => []Said
<1>1. ControlInit => Said
  <2>1. ASSUME ControlInit  PROVE Said
    <3>1. /\ R = NewEnd /\ scEnd = NewEnd /\ alive = {}
          /\ \A m \in Magic, ch \in Chan : chans[m][ch] = NoChannel
          /\ \A ch \in Chan : clients[ch] = NoClient
      BY <2>1, InitType DEF ControlInit, Init, R, LinkTypeOK
    <3> QED BY <3>1, NewEndIs DEF Said, Ordered, Heard, NoChannel, NoClient
  <2> QED BY <2>1
<1>2. (ClientType /\ IInv) /\ (ClientType /\ IInv)' /\ ChannelsOK /\ Said /\ [Next]_vars => Said'
  <2>1. CASE UNCHANGED vars
    BY <2>1 DEF vars, link, control, Said, R
  <2> QED BY <2>1, SaidQuiet, SaidController, SaidScMessage, SaidClient DEF Next, Scamper
<1> QED BY <1>1, <1>2, ControlTypes, ControlChans, PTL DEF Spec

(* scamper gives up a connection over a message for a channel it has not   *)
(* (scamper_control.c:2440, :2679) only if the message crossed the FIN it  *)
(* sent after "done": never for a channel it was not told of, nor for one  *)
(* it closed because the controller did.                                   *)
THEOREM ControlRefusesOnlyAfterDone == Spec => []RefusesOnlyAfterDone
<1>1. ASSUME ClientType, IInv, Said, ScHas, sc.mode = "go", ScHead.type = "MSG",
             ScHead.body.k # "new"
      PROVE  LET cl == clients[ScHead.body.ch]
             IN  Live(cl) \/ (cl.st = "closed" /\ cl.fin = "done")
  <2> DEFINE b  == ScHead.body
             n  == scEnd.rcv
             cl == clients[b.ch]
  <2>1. /\ n < Len(R.log) /\ b = R.log[n + 1] /\ b.ch \in Chan
        /\ n \in Nat /\ Len(R.log) \in Nat
    <3>1. PICK q \in 0 .. Len(R.log), a \in 0 .. R.rcv : Flow(down[sc.conn], scEnd, R, q, a)
      BY <1>1, GoIs
    <3>2. n < Len(R.log) /\ b = R.log[n + 1]
      BY <1>1, <3>1, FlowRead, ScHasIs, Ctx DEF ScHead, ScHas
    <3>3. b.ch \in Chan
      BY <1>1, ScHasIs, FrameFields, BodyOf DEF IInv
    <3> QED BY <1>1, <3>2, <3>3, EndFields, Ctx
  <2>2. Len(scEnd.got) = n /\ \A i \in 1 .. n : scEnd.got[i] = R.log[i]
    BY <1>1 DEF IInv, GotInv
  <2>3. Heard(scEnd.got, b.ch, cl) /\ Ordered(R.log) /\ cl \in Client
    BY <1>1, <2>1 DEF Said, ClientType
  <2> HIDE DEF b, n, cl
  <2>4. /\ \E i \in 1 .. n : R.log[i].k = "new" /\ R.log[i].ch = b.ch
        /\ \A i \in 1 .. n : R.log[i].ch = b.ch => R.log[i].k # "fin"
    BY <1>1, <2>1, <2>3 DEF Ordered, b
  <2>5. cl.st # "none" /\ cl.fin # "fin" /\ (cl.st = "closed" => cl.fin # "no")
    BY <2>2, <2>3, <2>4 DEF Heard
  <2> QED BY <2>3, <2>5 DEF Live, Client, cl, b
<1>2. ClientType /\ IInv /\ Said => RefusesOnlyAfterDone
  BY <1>1 DEF RefusesOnlyAfterDone
<1> QED BY <1>2, ControlTypes, ControlSaid, PTL

-----------------------------------------------------------------------------
(* Every result arrives.  The messages of scamper are followed from the    *)
(* client that measures, over the log of its end and what the controller   *)
(* took of it, to what the process has.                                    *)

Finds(s, b) == \E i \in 1 .. Len(s) : s[i] = b

(* a channel begins with its "new"                                         *)
NewFirst(s) ==
  \A j \in 1 .. Len(s) : \A i \in 1 .. j - 1 : s[i].ch = s[j].ch => s[j].k # "new"

(* of a channel scamper sends results, a cycle stop, then a fin            *)
Talk(s) ==
  \A j \in 1 .. Len(s) :
    /\ s[j] \in {Data(s[j].ch, "res"), Data(s[j].ch, "stop"), Fin(s[j].ch)}
    /\ \A i \in 1 .. j - 1 : s[i].ch = s[j].ch =>
         s[i].k # "fin" /\ (s[i].v = "stop" => s[j].k = "fin")

Sent1(s, ch, v) == Count(s, {Data(ch, v)})

(* what a client sent, has ready and still measures is what it was asked   *)
Owed(s, ch, cl) ==
  /\ cl.st = "none" => cl = NoClient /\ \A i \in 1 .. Len(s) : s[i].ch # ch
  /\ cl.cmds = Sent1(s, ch, "res") + Count(cl.out, {"res"}) + cl.tasks
  /\ Sent1(s, ch, "stop") + Count(cl.out, {"stop"})
       = IF cl.st \in {"flush", "closed"} THEN 1 ELSE 0
  /\ cl.st \in {"flush", "closed"} => cl.tasks = 0
  /\ \A i \in 1 .. Len(cl.out) - 1 : cl.out[i] = "res"
  /\ Sent1(s, ch, "stop") # 0 => cl.out = <<>>
  /\ Finds(s, Fin(ch)) => cl.st = "closed"
  /\ cl.st = "closed" => cl.out = <<>>

(* what a process that stayed has, or is about to, is what was taken       *)
Delivered(g, ch, cn) ==
  cn.user \in {"open", "half"} =>
    LET s == cn.got \o cn.wb
    IN  /\ Count(s, {"res"}) = Sent1(g, ch, "res")
        /\ Len(s) = Sent1(g, ch, "res") + Sent1(g, ch, "stop")
        /\ Sent1(g, ch, "stop") # 0 => Len(s) # 0 /\ s[Len(s)] = "stop"
        /\ IF cn.rx THEN Finds(g, Fin(ch)) ELSE cn.fd

Answering ==
  /\ NewFirst(R.log) /\ Talk(scEnd.log)
  /\ \A ch \in Chan : Owed(scEnd.log, ch, clients[ch])
  /\ \A ch \in Chan : clients[ch].st # "none" => Finds(scEnd.got, New(ch))
  /\ \A m \in alive, ch \in Chan : Delivered(rtEnd[m].got, ch, chans[m][ch])
  /\ \A m \in Magic, ch \in Chan : chans[m][ch].st = "none" <=> chans[m][ch].user = "none"

(* one more message                                                        *)
LEMMA LogMore ==
  ASSUME NEW s \in Seq(Body), NEW b \in Body
  PROVE  /\ Len(s) \in Nat /\ Append(s, b) \in Seq(Body)
         /\ Grown(s, b, Append(s, b))
         /\ \A c : Finds(Append(s, b), c) <=> Finds(s, c) \/ b = c
         /\ \A ch, v : /\ b = Data(ch, v) => Sent1(Append(s, b), ch, v) = Sent1(s, ch, v) + 1
                       /\ b # Data(ch, v) => Sent1(Append(s, b), ch, v) = Sent1(s, ch, v)
                       /\ Sent1(s, ch, v) \in Nat
                       /\ Sent1(s, ch, v) = 0 <=> ~Finds(s, Data(ch, v))
<1>1. Len(s) \in Nat /\ Append(s, b) \in Seq(Body) /\ Grown(s, b, Append(s, b))
  BY AppendProperties, LenProperties DEF Grown
<1>2. \A c : Finds(Append(s, b), c) <=> Finds(s, c) \/ b = c
  <2> DEFINE t == Append(s, b)
  <2>1. Grown(s, b, t)
    BY <1>1
  <2> HIDE DEF t
  <2>2. \A c : Finds(t, c) <=> Finds(s, c) \/ b = c
    BY <2>1 DEF Finds, Grown
  <2> QED BY <2>2 DEF t
<1>3. ASSUME NEW ch, NEW v
      PROVE  /\ b = Data(ch, v) => Sent1(Append(s, b), ch, v) = Sent1(s, ch, v) + 1
             /\ b # Data(ch, v) => Sent1(Append(s, b), ch, v) = Sent1(s, ch, v)
             /\ Sent1(s, ch, v) \in Nat
             /\ Sent1(s, ch, v) = 0 <=> ~Finds(s, Data(ch, v))
  <2> DEFINE P == {Data(ch, v)}
  <2>1. Count(Append(s, b), P) = Count(s, P) + IF b \in P THEN 1 ELSE 0
    BY CountAppend
  <2>2. /\ Count(s, P) \in Nat
        /\ Count(s, P) = 0 <=> \A i \in DOMAIN s : s[i] \notin P
    BY CountType
  <2>3. DOMAIN s = 1 .. Len(s)
    BY LenProperties
  <2> QED BY <2>1, <2>2, <2>3 DEF Sent1, Finds
<1> QED BY <1>1, <1>2, <1>3

-----------------------------------------------------------------------------
(* What is owed.                                                           *)

LEMMA OwedOther ==
  ASSUME NEW s \in Seq(Body), NEW b \in Body, NEW ch, b.ch # ch, NEW cl, Owed(s, ch, cl)
  PROVE  Owed(Append(s, b), ch, cl)
<1> DEFINE t == Append(s, b)
<1>1. b # Fin(ch) /\ b # Data(ch, "res") /\ b # Data(ch, "stop")
  <2>1. Fin(ch).ch = ch /\ Data(ch, "res").ch = ch /\ Data(ch, "stop").ch = ch
    BY DEF Fin, Data
  <2> QED BY <2>1
<1>2. /\ Sent1(t, ch, "res") = Sent1(s, ch, "res")
      /\ Sent1(t, ch, "stop") = Sent1(s, ch, "stop")
      /\ Finds(t, Fin(ch)) => Finds(s, Fin(ch))
      /\ Grown(s, b, t)
  BY <1>1, LogMore
<1>3. (\A i \in 1 .. Len(s) : s[i].ch # ch) => \A i \in 1 .. Len(t) : t[i].ch # ch
  <2> HIDE DEF t
  <2> QED BY <1>2 DEF Grown
<1> HIDE DEF t
<1>4. Owed(t, ch, cl)
  BY <1>2, <1>3 DEF Owed
<1> QED BY <1>4 DEF t

(* what is ready counts                                                    *)
LEMMA OutMore ==
  ASSUME NEW q \in Seq({"res", "stop"}), NEW v \in {"res", "stop"}
  PROVE  /\ Count(q, {"res"}) \in Nat /\ Count(q, {"stop"}) \in Nat /\ Len(q) \in Nat
         /\ Count(Append(q, "res"), {"res"}) = Count(q, {"res"}) + 1
         /\ Count(Append(q, "res"), {"stop"}) = Count(q, {"stop"})
         /\ Count(Append(q, "stop"), {"res"}) = Count(q, {"res"})
         /\ Count(Append(q, "stop"), {"stop"}) = Count(q, {"stop"}) + 1
         /\ (\A i \in 1 .. Len(q) : q[i] = "res") <=> Count(q, {"stop"}) = 0
         /\ Append(q, v) \in Seq({"res", "stop"})
         /\ Len(Append(q, v)) = Len(q) + 1
         /\ \A i \in 1 .. Len(q) : Append(q, v)[i] = q[i]
<1>1. /\ Count(q, {"res"}) \in Nat /\ Count(q, {"stop"}) \in Nat
      /\ Count(q, {"stop"}) = 0 <=> \A i \in DOMAIN q : q[i] \notin {"stop"}
  BY CountType
<1>2. DOMAIN q = 1 .. Len(q) /\ Len(q) \in Nat /\ \A i \in 1 .. Len(q) : q[i] \in {"res", "stop"}
  BY LenProperties, ElementOfSeq
<1>3. ASSUME NEW c \in {"res", "stop"}, NEW d \in {"res", "stop"}
      PROVE  Count(Append(q, c), {d}) = Count(q, {d}) + IF c \in {d} THEN 1 ELSE 0
  <2> DEFINE S == {"res", "stop"}
             P == {d}
  <2>1. c \in S /\ q \in Seq(S)
    OBVIOUS
  <2> HIDE DEF S, P
  <2>2. Count(Append(q, c), P) = Count(q, P) + IF c \in P THEN 1 ELSE 0
    BY <2>1, CountAppend
  <2> QED BY <2>2 DEF P
<1>4. /\ Count(Append(q, "res"), {"res"}) = Count(q, {"res"}) + 1
      /\ Count(Append(q, "res"), {"stop"}) = Count(q, {"stop"})
      /\ Count(Append(q, "stop"), {"res"}) = Count(q, {"res"})
      /\ Count(Append(q, "stop"), {"stop"}) = Count(q, {"stop"}) + 1
  BY <1>1, <1>3
<1>5. /\ Append(q, v) \in Seq({"res", "stop"})
      /\ Len(Append(q, v)) = Len(q) + 1
      /\ \A i \in 1 .. Len(q) : Append(q, v)[i] = q[i]
  BY AppendProperties
<1>6. (\A i \in 1 .. Len(q) : q[i] = "res") <=> Count(q, {"stop"}) = 0
  BY <1>1, <1>2
<1> QED BY <1>1, <1>2, <1>4, <1>5, <1>6

(* the source finishes, or not                                             *)
LEMMA OwedStop ==
  ASSUME NEW s \in Seq(Body), NEW ch, NEW cl \in Client, Owed(s, ch, cl)
  PROVE  Owed(s, ch, StopIfFinished(cl))
<1> DEFINE d == StopIfFinished(cl)
<1>1. CASE cl.fin # "no" /\ cl.tasks = 0 /\ cl.st = "attached"
  <2>1. /\ d.st = "flush" /\ d.out = Append(cl.out, "stop")
        /\ d.tasks = cl.tasks /\ d.cmds = cl.cmds
    BY <1>1 DEF StopIfFinished, Client
  <2>2. cl.out \in Seq({"res", "stop"})
    BY DEF Client
  <2> HIDE DEF d
  <2>3. /\ Count(d.out, {"res"}) = Count(cl.out, {"res"})
        /\ Count(d.out, {"stop"}) = Count(cl.out, {"stop"}) + 1
        /\ Count(cl.out, {"stop"}) \in Nat
    BY <2>1, <2>2, OutMore
  <2>10. /\ Len(d.out) - 1 = Len(cl.out)
         /\ \A i \in 1 .. Len(cl.out) : d.out[i] = cl.out[i]
    BY <2>1, <2>2, OutMore
  <2>4. Sent1(s, ch, "stop") \in Nat
    BY CountType DEF Sent1
  <2>5. Sent1(s, ch, "stop") = 0 /\ Count(cl.out, {"stop"}) = 0
    BY <1>1, <2>3, <2>4 DEF Owed
  <2>6. \A i \in 1 .. Len(cl.out) : cl.out[i] = "res"
    BY <2>2, <2>5, OutMore
  <2>7. ~Finds(s, Fin(ch)) /\ cl.cmds = Sent1(s, ch, "res") + Count(cl.out, {"res"}) + cl.tasks
    BY <1>1 DEF Owed
  <2>8. \A i \in 1 .. Len(d.out) - 1 : d.out[i] = "res"
    BY <2>6, <2>10
  <2>9. Owed(s, ch, d)
    <3>1. d.cmds = Sent1(s, ch, "res") + Count(d.out, {"res"}) + d.tasks
      BY <2>1, <2>3, <2>7
    <3>2. Sent1(s, ch, "stop") + Count(d.out, {"stop"}) = 1
      BY <2>3, <2>5
    <3> QED BY <1>1, <2>1, <2>5, <2>7, <2>8, <3>1, <3>2 DEF Owed
  <2> QED BY <2>9 DEF d
<1>2. CASE ~(cl.fin # "no" /\ cl.tasks = 0 /\ cl.st = "attached")
  BY <1>2 DEF StopIfFinished
<1> QED BY <1>1, <1>2

LEMMA OwedGets ==
  ASSUME NEW s \in Seq(Body), NEW b \in Body, NEW cl \in Client, Owed(s, b.ch, cl),
         b.k = "new" => cl.st = "none"
  PROVE  Owed(s, b.ch, Gets(cl, b))
<1> DEFINE ch == b.ch
<1>1. b.v \in Words /\ b.k \in {"new", "fin", "data"}
  BY BodyOf
<1>2. ASSUME Live(cl), NEW why \in {"done", "fin"}  PROVE Owed(s, ch, Finish(cl, why))
  <2> DEFINE d == [cl EXCEPT !.fin = why]
  <2>1. /\ d \in Client /\ d.st = cl.st /\ d.tasks = cl.tasks /\ d.cmds = cl.cmds
        /\ d.out = cl.out
    BY DEF Client
  <2>2. cl.st # "none"
    BY <1>2 DEF Live
  <2> HIDE DEF d
  <2>3. Owed(s, ch, d)
    BY <2>1, <2>2 DEF Owed
  <2>4. Owed(s, ch, StopIfFinished(d))
    BY <2>1, <2>3, OwedStop
  <2> QED BY <2>4 DEF Finish, d
<1>3. CASE b.k = "new"
  <2>1. cl = NoClient /\ cl.st = "none"
    BY <1>3 DEF Owed
  <2>2. NewClient.st = "attached" /\ NewClient.tasks = cl.tasks /\ NewClient.out = cl.out
        /\ NewClient.cmds = cl.cmds /\ cl.out = <<>>
    BY <2>1 DEF NewClient, NoClient
  <2>3. ~Finds(s, Fin(ch))
    <3>1. Fin(ch).ch = ch
      BY DEF Fin
    <3> QED BY <2>1, <3>1 DEF Owed, Finds
  <2>4. Owed(s, ch, NewClient)
    BY <2>1, <2>2, <2>3 DEF Owed
  <2> QED BY <1>3, <2>4 DEF Gets
<1>4. CASE b.k # "new" /\ ~Live(cl)
  BY <1>4 DEF Gets
<1>5. CASE b.k = "fin" /\ Live(cl)
  BY <1>2, <1>5 DEF Gets
<1>6. CASE b.k = "data" /\ Live(cl)
  <2>1. Gets(cl, b) = Line(cl, b.v)
    BY <1>6 DEF Gets
  <2>2. CASE cl.st = "attached" /\ b.v # "done"
    <3> DEFINE d == [cl EXCEPT !.tasks = @ + 1, !.cmds = @ + 1]
    <3>1. /\ d.st = cl.st /\ d.tasks = cl.tasks + 1 /\ d.cmds = cl.cmds + 1 /\ d.out = cl.out
          /\ cl.tasks \in Nat /\ cl.cmds \in Nat /\ cl.out \in Seq({"res", "stop"})
      BY DEF Client
    <3>2. Sent1(s, ch, "res") \in Nat /\ Count(cl.out, {"res"}) \in Nat
      BY <3>1, LogMore, OutMore
    <3> HIDE DEF d
    <3>3. Owed(s, ch, d)
      BY <2>2, <3>1, <3>2 DEF Owed
    <3> QED BY <2>1, <2>2, <3>3 DEF Line, d
  <2> QED BY <1>2, <1>6, <2>1, <2>2 DEF Line
<1> QED BY <1>1, <1>3, <1>4, <1>5, <1>6

(* the result of a measurement is ready                                    *)
LEMMA OwedTask ==
  ASSUME NEW s \in Seq(Body), NEW ch, NEW cl \in Client, Owed(s, ch, cl),
         Live(cl), cl.tasks > 0,
         NEW d, d.st = cl.st, d.tasks = cl.tasks - 1, d.cmds = cl.cmds,
         d.out = Append(cl.out, "res")
  PROVE  Owed(s, ch, d)
<1>1. /\ d.st = cl.st /\ d.tasks = cl.tasks - 1 /\ d.cmds = cl.cmds
      /\ d.out = Append(cl.out, "res")
      /\ cl.tasks \in Nat /\ cl.cmds \in Nat /\ cl.out \in Seq({"res", "stop"})
  BY DEF Client
<1>2. cl.st = "attached"
  BY <1>1 DEF Live, Owed
<1>3. /\ Sent1(s, ch, "res") \in Nat /\ Sent1(s, ch, "stop") \in Nat
      /\ Count(cl.out, {"res"}) \in Nat /\ Count(cl.out, {"stop"}) \in Nat
  BY <1>1, CountType DEF Sent1
<1>4. Sent1(s, ch, "stop") = 0 /\ Count(cl.out, {"stop"}) = 0 /\ ~Finds(s, Fin(ch))
  BY <1>2, <1>3 DEF Owed
<1>5. /\ Count(d.out, {"res"}) = Count(cl.out, {"res"}) + 1
      /\ Count(d.out, {"stop"}) = Count(cl.out, {"stop"})
  BY <1>1, OutMore
<1>6. \A i \in 1 .. Len(d.out) - 1 : d.out[i] = "res"
  <2>1. /\ Len(d.out) - 1 = Len(cl.out)
        /\ \A i \in 1 .. Len(cl.out) : d.out[i] = cl.out[i]
    BY <1>1, OutMore
  <2>2. \A i \in 1 .. Len(cl.out) : cl.out[i] = "res"
    BY <1>1, <1>4, OutMore
  <2> QED BY <2>1, <2>2
<1>7. d.cmds = Sent1(s, ch, "res") + Count(d.out, {"res"}) + d.tasks
  <2>1. cl.cmds = Sent1(s, ch, "res") + Count(cl.out, {"res"}) + cl.tasks
    BY DEF Owed
  <2>2. d.tasks = cl.tasks - 1 /\ d.cmds = cl.cmds /\ cl.tasks \in Nat
    BY <1>1
  <2> QED BY <1>3, <1>5, <2>1, <2>2
<1> QED BY <1>1, <1>2, <1>4, <1>5, <1>6, <1>7 DEF Owed

(* an object is sent                                                       *)
LEMMA OwedWrite ==
  ASSUME NEW s \in Seq(Body), NEW ch \in Chan, NEW cl \in Client, Owed(s, ch, cl),
         Live(cl), cl.out # <<>>
  PROVE  /\ Owed(Append(s, Data(ch, Head(cl.out))), ch, [cl EXCEPT !.out = Tail(@)])
         /\ Head(cl.out) \in {"res", "stop"} /\ Data(ch, Head(cl.out)) \in Body
         /\ ~Finds(s, Data(ch, "stop")) /\ ~Finds(s, Fin(ch))
<1> DEFINE d == [cl EXCEPT !.out = Tail(@)]
           q == cl.out
           v == Head(q)
           b == Data(ch, v)
           t == Append(s, b)
<1>1. /\ d.st = cl.st /\ d.tasks = cl.tasks /\ d.cmds = cl.cmds /\ d.out = Tail(q)
      /\ cl.tasks \in Nat /\ cl.cmds \in Nat /\ q \in Seq({"res", "stop"})
  BY DEF Client
<1>2. /\ v \in {"res", "stop"} /\ Tail(q) \in Seq({"res", "stop"})
      /\ Len(Tail(q)) = Len(q) - 1 /\ Len(q) \in Nat /\ Len(q) # 0
      /\ q[1] = v /\ \A i \in 1 .. Len(q) - 1 : Tail(q)[i] = q[i + 1]
  BY <1>1, HeadTailProperties
<1>3. /\ Count(Tail(q), {"res"}) = Count(q, {"res"}) - IF v \in {"res"} THEN 1 ELSE 0
      /\ Count(Tail(q), {"stop"}) = Count(q, {"stop"}) - IF v \in {"stop"} THEN 1 ELSE 0
      /\ Count(q, {"res"}) \in Nat /\ Count(q, {"stop"}) \in Nat
  <2> DEFINE S == {"res", "stop"}
  <2>1. q \in Seq(S)
    BY <1>1
  <2> HIDE DEF S
  <2> QED BY <2>1, CountEnds, CountType
<1>4. b \in Body
  BY <1>2, BodyOf
<1>5. b.ch = ch /\ b.k = "data" /\ b.v = v
  BY DEF Data
<1>6. b # Fin(ch) /\ (b = Data(ch, "res") <=> v = "res") /\ (b = Data(ch, "stop") <=> v = "stop")
  <2>1. /\ Fin(ch).k = "fin" /\ Data(ch, "res").v = "res" /\ Data(ch, "stop").v = "stop"
    BY DEF Data, Fin
  <2>2. b.k = "data" /\ b.v = v
    BY <1>5
  <2>3. (v = "res" => b = Data(ch, "res")) /\ (v = "stop" => b = Data(ch, "stop"))
    OBVIOUS
  <2> HIDE DEF b, v
  <2> QED BY <2>1, <2>2, <2>3
<1>7. Sent1(s, ch, "stop") = 0 /\ cl.st \in {"attached", "flush"} /\ ~Finds(s, Fin(ch))
  BY DEF Owed, Live
<1>8. ~Finds(s, Data(ch, "stop"))
  BY <1>4, <1>7, LogMore
<1> HIDE DEF d, b
<1>9. /\ b = Data(ch, "res") => Sent1(t, ch, "res") = Sent1(s, ch, "res") + 1
      /\ b # Data(ch, "res") => Sent1(t, ch, "res") = Sent1(s, ch, "res")
      /\ b = Data(ch, "stop") => Sent1(t, ch, "stop") = Sent1(s, ch, "stop") + 1
      /\ b # Data(ch, "stop") => Sent1(t, ch, "stop") = Sent1(s, ch, "stop")
      /\ Sent1(s, ch, "res") \in Nat
      /\ Finds(t, Fin(ch)) => Finds(s, Fin(ch)) \/ b = Fin(ch)
  BY <1>4, LogMore
<1> HIDE DEF t
<1>10. \A i \in 1 .. Len(q) - 1 : q[i] = "res"
  BY DEF Owed
<1>11. \A i \in 1 .. Len(d.out) - 1 : d.out[i] = "res"
  BY <1>1, <1>2, <1>10
<1>12. v = "stop" => Tail(q) = <<>>
  <2>1. ASSUME v = "stop"  PROVE Len(q) = 1
    <3>1. CASE 1 \in 1 .. Len(q) - 1
      <4>1. q[1] = "res" /\ q[1] = v
        BY <1>2, <1>10, <3>1
      <4> QED BY <2>1, <4>1
    <3>2. ASSUME NEW n \in Nat, n # 0, 1 \notin 1 .. n - 1  PROVE n = 1
      BY <3>2
    <3>3. Len(q) \in Nat /\ Len(q) # 0
      BY <1>2
    <3> HIDE DEF q
    <3> QED BY <3>1, <3>2, <3>3
  <2>2. Len(q) = 1 => Len(Tail(q)) = 0
    BY <1>2
  <2>3. Len(Tail(q)) = 0 => Tail(q) = <<>>
    BY <1>2, EmptySeq
  <2> QED BY <2>1, <2>2, <2>3
<1>13. d.cmds = Sent1(t, ch, "res") + Count(d.out, {"res"}) + d.tasks
  <2>1. cl.cmds = Sent1(s, ch, "res") + Count(q, {"res"}) + cl.tasks
    BY DEF Owed
  <2>2. d.tasks = cl.tasks /\ d.cmds = cl.cmds /\ d.out = Tail(q) /\ cl.tasks \in Nat
    BY <1>1
  <2>3. CASE v = "res"
    <3>1. Count(d.out, {"res"}) = Count(q, {"res"}) - 1
      BY <1>3, <2>2, <2>3
    <3>2. Sent1(t, ch, "res") = Sent1(s, ch, "res") + 1
      BY <1>6, <1>9, <2>3
    <3> QED BY <1>3, <1>9, <2>1, <2>2, <3>1, <3>2
  <2>4. CASE v = "stop"
    <3>1. Count(d.out, {"res"}) = Count(q, {"res"})
      BY <1>3, <2>2, <2>4
    <3>2. Sent1(t, ch, "res") = Sent1(s, ch, "res")
      BY <1>6, <1>9, <2>4
    <3> QED BY <2>1, <2>2, <3>1, <3>2
  <2> QED BY <1>2, <2>3, <2>4
<1>14. Sent1(t, ch, "stop") + Count(d.out, {"stop"})
         = IF d.st \in {"flush", "closed"} THEN 1 ELSE 0
  <2>1. Sent1(s, ch, "stop") + Count(q, {"stop"})
          = IF cl.st \in {"flush", "closed"} THEN 1 ELSE 0
    BY DEF Owed
  <2>2. d.st = cl.st /\ d.out = Tail(q)
    BY <1>1
  <2>3. CASE v = "res"
    <3>1. Count(d.out, {"stop"}) = Count(q, {"stop"})
      BY <1>3, <2>2, <2>3
    <3>2. Sent1(t, ch, "stop") = Sent1(s, ch, "stop")
      BY <1>6, <1>9, <2>3
    <3> QED BY <2>1, <2>2, <3>1, <3>2
  <2>4. CASE v = "stop"
    <3>1. Count(d.out, {"stop"}) = Count(q, {"stop"}) - 1
      BY <1>3, <2>2, <2>4
    <3>2. Sent1(t, ch, "stop") = 1
      BY <1>6, <1>7, <1>9, <2>4
    <3> QED BY <1>3, <1>7, <2>1, <2>2, <3>1, <3>2
  <2> QED BY <1>2, <2>3, <2>4
<1>15. Sent1(t, ch, "stop") # 0 => d.out = <<>>
  BY <1>1, <1>2, <1>6, <1>7, <1>9, <1>12
<1>16. d.st \in {"flush", "closed"} => d.tasks = 0
  BY <1>1 DEF Owed
<1>17. d.st # "none" /\ d.st # "closed" /\ ~Finds(t, Fin(ch))
  BY <1>1, <1>6, <1>7, <1>9
<1>18. Owed(t, ch, d)
  BY <1>11, <1>13, <1>14, <1>15, <1>16, <1>17 DEF Owed
<1> QED BY <1>2, <1>4, <1>7, <1>8, <1>18 DEF d, b, t

(* the client is done                                                      *)
LEMMA OwedClose ==
  ASSUME NEW s \in Seq(Body), NEW ch \in Chan, NEW cl \in Client, Owed(s, ch, cl), IsDone(cl),
         NEW d, d.st = "closed", d.tasks = cl.tasks, d.cmds = cl.cmds, d.out = <<>>
  PROVE  /\ Owed(Append(s, Fin(ch)), ch, d)
         /\ Fin(ch) \in Body /\ ~Finds(s, Fin(ch))
<1> DEFINE b == Fin(ch)
           t == Append(s, b)
<1>1. /\ d.st = "closed" /\ d.tasks = cl.tasks /\ d.cmds = cl.cmds /\ d.out = <<>>
      /\ cl.st = "flush" /\ cl.out = <<>>
  BY DEF Client, IsDone
<1>2. b \in Body /\ b # Data(ch, "res") /\ b # Data(ch, "stop")
  <2>1. /\ b.k = "fin" /\ Data(ch, "res").k = "data" /\ Data(ch, "stop").k = "data"
    BY DEF Data, Fin
  <2> QED BY <2>1, BodyOf
<1> HIDE DEF b
<1>3. /\ Sent1(t, ch, "res") = Sent1(s, ch, "res")
      /\ Sent1(t, ch, "stop") = Sent1(s, ch, "stop")
  BY <1>2, LogMore
<1> HIDE DEF t
<1>4. Len(d.out) = 0 /\ \A P : Count(d.out, P) = 0
  BY <1>1, CountEmpty
<1>5. Owed(t, ch, d)
  BY <1>1, <1>3, <1>4 DEF Owed
<1>6. ~Finds(s, Fin(ch))
  BY <1>1 DEF Owed
<1> QED BY <1>2, <1>5, <1>6 DEF b, t

-----------------------------------------------------------------------------
(* What is delivered.                                                      *)

(* what scamper may say next of a channel                                  *)
MayFollow(s, b) ==
  /\ b \in {Data(b.ch, "res"), Data(b.ch, "stop"), Fin(b.ch)}
  /\ ~Finds(s, Fin(b.ch))
  /\ Finds(s, Data(b.ch, "stop")) => b = Fin(b.ch)

LEMMA TalkMore ==
  ASSUME NEW s \in Seq(Body), NEW b \in Body, Talk(s), MayFollow(s, b)
  PROVE  Talk(Append(s, b))
<1> DEFINE t == Append(s, b)
<1>1. Grown(s, b, t)
  BY LogMore
<1> HIDE DEF t
<1>2. ASSUME NEW j \in 1 .. Len(t)
      PROVE  /\ t[j] \in {Data(t[j].ch, "res"), Data(t[j].ch, "stop"), Fin(t[j].ch)}
             /\ \A i \in 1 .. j - 1 : t[i].ch = t[j].ch =>
                  t[i].k # "fin" /\ (t[i].v = "stop" => t[j].k = "fin")
  <2>1. CASE j \in 1 .. Len(s)
    <3>1. \A i \in 1 .. j : i \in 1 .. Len(s) /\ t[i] = s[i]
      BY <1>1, <2>1 DEF Grown
    <3>2. j \in 1 .. j /\ \A i \in 1 .. j - 1 : i \in 1 .. j
      BY <1>1, <2>1 DEF Grown
    <3> QED BY <2>1, <3>1, <3>2 DEF Talk
  <2>2. CASE j = Len(s) + 1
    <3>1. t[j] = b
      BY <1>1, <2>2 DEF Grown
    <3>2. ASSUME NEW i \in 1 .. j - 1, t[i].ch = b.ch
          PROVE  t[i].k # "fin" /\ (t[i].v = "stop" => b.k = "fin")
      <4>1. i \in 1 .. Len(s) /\ t[i] = s[i]
        BY <1>1, <2>2 DEF Grown
      <4>2. s[i] \in {Data(b.ch, "res"), Data(b.ch, "stop"), Fin(b.ch)}
        BY <3>2, <4>1 DEF Talk
      <4>3. s[i] # Fin(b.ch) /\ (s[i] = Data(b.ch, "stop") => b = Fin(b.ch))
        BY <4>1 DEF MayFollow, Finds
      <4>4. Data(b.ch, "res").k = "data" /\ Data(b.ch, "stop").k = "data"
            /\ Data(b.ch, "res").v = "res" /\ Fin(b.ch).k = "fin"
        BY DEF Data, Fin
      <4> QED BY <4>1, <4>2, <4>3, <4>4
    <3> QED BY <3>1, <3>2 DEF MayFollow
  <2> QED BY <1>1, <2>1, <2>2 DEF Grown
<1>3. Talk(t)
  BY <1>2 DEF Talk
<1> QED BY <1>3 DEF t

(* what is taken of a log may be followed by its next message              *)
LEMMA TalkNext ==
  ASSUME NEW s, NEW g, Talk(s), Len(g) \in Nat, Len(g) + 1 \in 1 .. Len(s),
         \A i \in 1 .. Len(g) : g[i] = s[i]
  PROVE  MayFollow(g, s[Len(g) + 1])
<1> DEFINE n == Len(g)
           b == s[n + 1]
<1>1. /\ b \in {Data(b.ch, "res"), Data(b.ch, "stop"), Fin(b.ch)}
      /\ \A i \in 1 .. n : s[i].ch = b.ch => s[i].k # "fin" /\ (s[i].v = "stop" => b.k = "fin")
  <2>1. \A i \in 1 .. n : i \in 1 .. (n + 1) - 1
    OBVIOUS
  <2> QED BY <2>1 DEF Talk
<1>2. /\ Fin(b.ch).ch = b.ch /\ Fin(b.ch).k = "fin"
      /\ Data(b.ch, "stop").ch = b.ch /\ Data(b.ch, "stop").v = "stop"
      /\ Data(b.ch, "res").k = "data" /\ Data(b.ch, "stop").k = "data"
  BY DEF Fin, Data
<1> HIDE DEF b
<1>3. ~Finds(g, Fin(b.ch))
  BY <1>1, <1>2 DEF Finds
<1>4. Finds(g, Data(b.ch, "stop")) => b = Fin(b.ch)
  BY <1>1, <1>2 DEF Finds
<1>5. MayFollow(g, b)
  BY <1>1, <1>3, <1>4 DEF MayFollow
<1> QED BY <1>5 DEF b

LEMMA DeliveredSame ==
  ASSUME NEW g, NEW ch, NEW cn, NEW d, Delivered(g, ch, cn),
         d.user \in {"open", "half"} =>
           /\ cn.user \in {"open", "half"}
           /\ d.got \o d.wb = cn.got \o cn.wb
           /\ d.rx = cn.rx /\ (d.fd = cn.fd \/ d.rx)
  PROVE  Delivered(g, ch, d)
BY DEF Delivered

LEMMA DeliveredOther ==
  ASSUME NEW g \in Seq(Body), NEW b \in Body, NEW ch, b.ch # ch, NEW cn, Delivered(g, ch, cn)
  PROVE  Delivered(Append(g, b), ch, cn)
<1>1. b # Fin(ch) /\ b # Data(ch, "res") /\ b # Data(ch, "stop")
  <2>1. Fin(ch).ch = ch /\ Data(ch, "res").ch = ch /\ Data(ch, "stop").ch = ch
    BY DEF Fin, Data
  <2> QED BY <2>1
<1>2. /\ Sent1(Append(g, b), ch, "res") = Sent1(g, ch, "res")
      /\ Sent1(Append(g, b), ch, "stop") = Sent1(g, ch, "stop")
      /\ Finds(Append(g, b), Fin(ch)) <=> Finds(g, Fin(ch))
  BY <1>1, LogMore
<1> QED BY <1>2 DEF Delivered

LEMMA WordMore ==
  ASSUME NEW a \in Seq(Words), NEW b \in Seq(Words), NEW v \in Words
  PROVE  /\ a \o Append(b, v) = Append(a \o b, v)
         /\ v = "res" => Count(Append(a \o b, v), {"res"}) = Count(a \o b, {"res"}) + 1
         /\ v # "res" => Count(Append(a \o b, v), {"res"}) = Count(a \o b, {"res"})
<1>1. a \o b \in Seq(Words) /\ <<v>> \in Seq(Words)
  BY ConcatProperties
<1>2. Append(b, v) = b \o <<v>> /\ Append(a \o b, v) = (a \o b) \o <<v>>
  BY <1>1, AppendIsConcat
<1>3. (a \o b) \o <<v>> = a \o (b \o <<v>>)
  <2> DEFINE c == <<v>>
  <2>1. c \in Seq(Words)
    BY <1>1
  <2> HIDE DEF c
  <2> QED BY <2>1, ConcatAssociative
<1>4. ASSUME NEW s \in Seq(Words), NEW P
      PROVE  /\ Count(Append(s, v), P) = Count(s, P) + IF v \in P THEN 1 ELSE 0
             /\ Count(s, P) \in Nat
  <2>1. Count(Append(s, v), P) = Count(s, P) + IF v \in P THEN 1 ELSE 0
    BY CountAppend
  <2>2. Count(s, P) \in Nat
    BY CountType
  <2> QED BY <2>1, <2>2
<1>5. /\ Count(Append(a \o b, v), {"res"}) = Count(a \o b, {"res"}) + IF v \in {"res"} THEN 1 ELSE 0
      /\ Count(a \o b, {"res"}) \in Nat
  BY <1>1, <1>4
<1>6. /\ v = "res" => Count(Append(a \o b, v), {"res"}) = Count(a \o b, {"res"}) + 1
      /\ v # "res" => Count(Append(a \o b, v), {"res"}) = Count(a \o b, {"res"})
  BY <1>5
<1>7. a \o Append(b, v) = Append(a \o b, v)
  BY <1>2, <1>3
<1> QED BY <1>6, <1>7

LEMMA DeliveredTakes ==
  ASSUME NEW g \in Seq(Body), NEW b \in Body, MayFollow(g, b), NEW cn, ChannelOK(cn),
         Delivered(g, b.ch, cn)
  PROVE  Delivered(Append(g, b), b.ch,
           IF cn.st = "open" /\ b.k = "fin" THEN Finished(cn)
           ELSE IF cn.fd THEN [cn EXCEPT !.wb = Append(@, b.v)]
           ELSE cn)
<1> DEFINE ch == b.ch
           d  == IF cn.st = "open" /\ b.k = "fin" THEN Finished(cn)
                 ELSE IF cn.fd THEN [cn EXCEPT !.wb = Append(@, b.v)]
                 ELSE cn
           t  == Append(g, b)
           s  == cn.got \o cn.wb
<1> SUFFICES Delivered(t, ch, d)
  OBVIOUS
<1>1. /\ cn \in Channel /\ cn.got \in Seq(Words) /\ cn.wb \in Seq(Words)
      /\ s \in Seq(Words) /\ Len(s) \in Nat
  BY ConcatProperties, LenProperties DEF ChannelOK, Channel
<1>2. d.user = cn.user
  BY <1>1 DEF Finished, Freed, Channel
<1>3. CASE cn.user \notin {"open", "half"}
  BY <1>2, <1>3 DEF Delivered
<1>4. CASE cn.user \in {"open", "half"}
  <2>0. d.user \in {"open", "half"}
    BY <1>2, <1>4
  <2>1. /\ Count(s, {"res"}) = Sent1(g, ch, "res")
        /\ Len(s) = Sent1(g, ch, "res") + Sent1(g, ch, "stop")
        /\ Sent1(g, ch, "stop") # 0 => Len(s) # 0 /\ s[Len(s)] = "stop"
        /\ ~cn.rx /\ cn.fd
    BY <1>4 DEF Delivered, MayFollow
  <2>2. cn.st = "open"
    BY <2>1 DEF ChannelOK
  <2>3. /\ Sent1(g, ch, "res") \in Nat /\ Sent1(g, ch, "stop") \in Nat
        /\ b = Data(ch, "res") => Sent1(t, ch, "res") = Sent1(g, ch, "res") + 1
        /\ b # Data(ch, "res") => Sent1(t, ch, "res") = Sent1(g, ch, "res")
        /\ b = Data(ch, "stop") => Sent1(t, ch, "stop") = Sent1(g, ch, "stop") + 1
        /\ b # Data(ch, "stop") => Sent1(t, ch, "stop") = Sent1(g, ch, "stop")
        /\ Finds(t, Fin(ch)) <=> Finds(g, Fin(ch)) \/ b = Fin(ch)
        /\ Sent1(g, ch, "stop") = 0 <=> ~Finds(g, Data(ch, "stop"))
    BY LogMore
  <2>4. /\ Fin(ch).k = "fin" /\ Data(ch, "res").k = "data" /\ Data(ch, "stop").k = "data"
        /\ Data(ch, "res").v = "res" /\ Data(ch, "stop").v = "stop"
    BY DEF Fin, Data
  <2>5. CASE b = Fin(ch)
    <3>1. d = Finished(cn) /\ b # Data(ch, "res") /\ b # Data(ch, "stop")
      BY <2>2, <2>4, <2>5
    <3>2. d.rx /\ d.got = cn.got /\ d.wb = cn.wb
      BY <1>1, <3>1 DEF Finished, Freed, Channel
    <3>3. d.got \o d.wb = s
      BY <3>2
    <3> HIDE DEF d, t, s
    <3>4. Sent1(t, ch, "res") = Sent1(g, ch, "res") /\ Sent1(t, ch, "stop") = Sent1(g, ch, "stop")
          /\ Finds(t, Fin(ch))
      BY <2>3, <2>5, <3>1
    <3> QED BY <2>1, <3>2, <3>3, <3>4 DEF Delivered
  <2>6. CASE b \in {Data(ch, "res"), Data(ch, "stop")}
    <3> DEFINE v == b.v
    <3>1. /\ v \in {"res", "stop"} /\ v \in Words /\ b # Fin(ch)
          /\ (b = Data(ch, "res") <=> v = "res") /\ (b = Data(ch, "stop") <=> v = "stop")
      <4>1. CASE b = Data(ch, "res")
        <5>1. b.v = "res" /\ b.k = "data"
          BY <2>4, <4>1
        <5>2. b # Fin(ch) /\ b # Data(ch, "stop")
          BY <2>4, <5>1
        <5> QED BY <4>1, <5>1, <5>2 DEF Words
      <4>2. CASE b = Data(ch, "stop")
        <5>1. b.v = "stop" /\ b.k = "data"
          BY <2>4, <4>2
        <5>2. b # Fin(ch) /\ b # Data(ch, "res")
          BY <2>4, <5>1
        <5> QED BY <4>2, <5>1, <5>2 DEF Words
      <4> QED BY <2>6, <4>1, <4>2
    <3>2. d = [cn EXCEPT !.wb = Append(@, v)]
      BY <2>1, <2>4, <2>6
    <3>3. d.rx = cn.rx /\ d.got = cn.got /\ d.wb = Append(cn.wb, v) /\ d.fd = cn.fd
      BY <1>1, <3>2 DEF Channel
    <3>4. d.got \o d.wb = Append(s, v)
      <4> DEFINE x == cn.got
                 y == cn.wb
      <4>1. x \in Seq(Words) /\ y \in Seq(Words) /\ v \in Words
        BY <1>1, <3>1
      <4>2. d.got \o d.wb = x \o Append(y, v) /\ s = x \o y
        BY <3>3
      <4> HIDE DEF x, y, v, s, d
      <4> QED BY <4>1, <4>2, WordMore
    <3>5. /\ v = "res" => Count(Append(s, v), {"res"}) = Count(s, {"res"}) + 1
          /\ v # "res" => Count(Append(s, v), {"res"}) = Count(s, {"res"})
          /\ Len(Append(s, v)) = Len(s) + 1 /\ Append(s, v)[Len(s) + 1] = v
      <4> DEFINE x == cn.got
                 y == cn.wb
      <4>1. x \in Seq(Words) /\ y \in Seq(Words) /\ v \in Words /\ s \in Seq(Words)
        BY <1>1, <3>1
      <4>2. s = x \o y
        OBVIOUS
      <4> HIDE DEF x, y, v, s
      <4>3. Len(Append(s, v)) = Len(s) + 1 /\ Append(s, v)[Len(s) + 1] = v
        BY <4>1, AppendProperties
      <4> QED BY <4>1, <4>2, <4>3, WordMore
    <3>6. ~Finds(g, Data(ch, "stop")) /\ ~Finds(g, Fin(ch))
      BY <3>1 DEF MayFollow
    <3> HIDE DEF d, t, s, v
    <3>7. CASE v = "res"
      <4>1. Count(Append(s, v), {"res"}) = Count(s, {"res"}) + 1
        BY <3>5, <3>7
      <4>2. Sent1(t, ch, "res") = Sent1(g, ch, "res") + 1 /\ Sent1(t, ch, "stop") = 0
            /\ Sent1(g, ch, "stop") = 0
        BY <2>3, <3>1, <3>6, <3>7
      <4>3. Len(Append(s, v)) = Sent1(t, ch, "res") + Sent1(t, ch, "stop")
        BY <2>1, <2>3, <3>5, <4>2
      <4> QED BY <2>1, <3>3, <3>4, <4>1, <4>2, <4>3 DEF Delivered
    <3>8. CASE v = "stop"
      <4>1. Count(Append(s, v), {"res"}) = Count(s, {"res"})
        BY <3>5, <3>8
      <4>2. Sent1(t, ch, "res") = Sent1(g, ch, "res") /\ Sent1(t, ch, "stop") = 1
            /\ Sent1(g, ch, "stop") = 0
        BY <2>3, <3>1, <3>6, <3>8
      <4>3. Len(Append(s, v)) = Sent1(t, ch, "res") + Sent1(t, ch, "stop")
        BY <2>1, <2>3, <3>5, <4>2
      <4>4. Len(Append(s, v)) # 0 /\ Append(s, v)[Len(Append(s, v))] = "stop"
        BY <1>1, <3>5, <3>8
      <4> QED BY <2>1, <3>3, <3>4, <4>1, <4>2, <4>3, <4>4 DEF Delivered
    <3> QED BY <3>1, <3>7, <3>8
  <2> QED BY <2>5, <2>6 DEF MayFollow
<1> QED BY <1>3, <1>4

-----------------------------------------------------------------------------
(* The steps.                                                              *)

LEMMA AnswerQuiet ==
  ASSUME IInv, IInv', Said, Answering, Quiet(LinkQuiet)
  PROVE  Answering'
<1>1. /\ chans' = Swept(chans) /\ clients' = KeptClients(clients)
      /\ (GoesOn \/ Anew)
  BY QuietIs DEF Quiet
<1>2. alive' \subseteq {sc'.magic} /\ sc'.magic \in Magic /\ sc'.resume \in BOOLEAN
  BY DEF IInv, Shape, LinkTypeOK
<1>3. \A m \in Magic, ch \in Chan :
        /\ m \in alive' => chans'[m][ch] = chans[m][ch]
        /\ chans'[m][ch] = chans[m][ch] \/ chans'[m][ch] = NoChannel
  BY <1>1 DEF Swept
<1>4. \A m \in Magic, ch \in Chan :
        chans'[m][ch].st = "none" <=> chans'[m][ch].user = "none"
  BY <1>3 DEF Answering, NoChannel
<1>5. NewFirst(R'.log)
  <2>1. CASE GoesOn
    BY <2>1 DEF GoesOn, Answering
  <2>2. CASE Anew
    BY <2>2 DEF Anew, NewFirst
  <2> QED BY <1>1, <2>1, <2>2
<1>6. /\ Talk(scEnd'.log)
      /\ \A ch \in Chan : Owed(scEnd'.log, ch, clients'[ch])
      /\ \A ch \in Chan : clients'[ch].st # "none" => Finds(scEnd'.got, New(ch))
  <2>1. CASE sc'.resume
    <3>1. GoesOn /\ clients' = clients
      BY <1>1, <2>1 DEF Anew, KeptClients
    <3> QED BY <3>1 DEF GoesOn, Answering
  <2>2. CASE ~sc'.resume
    <3>1. scEnd'.log = <<>> /\ scEnd'.got = <<>>
      BY <2>2, NewEndIs DEF IInv, Shape
    <3>2. \A ch \in Chan : clients'[ch] = NoClient
      BY <1>1, <2>2 DEF KeptClients
    <3>3. ASSUME NEW ch \in Chan  PROVE Owed(<<>>, ch, NoClient)
      <4>1. /\ NoClient.st = "none" /\ NoClient.tasks = 0 /\ NoClient.cmds = 0
            /\ NoClient.out = <<>> /\ Len(<<>>) = 0
        BY DEF NoClient
      <4>2. /\ Sent1(<<>>, ch, "res") = 0 /\ Sent1(<<>>, ch, "stop") = 0
            /\ Count(NoClient.out, {"res"}) = 0 /\ Count(NoClient.out, {"stop"}) = 0
        BY <4>1, CountEmpty DEF Sent1
      <4> QED BY <4>1, <4>2 DEF Owed, Finds
    <3>4. Talk(<<>>)
      BY DEF Talk
    <3>5. NoClient.st = "none"
      BY DEF NoClient
    <3> QED BY <3>1, <3>2, <3>3, <3>4, <3>5
  <2> QED BY <1>2, <2>1, <2>2
<1>7. ASSUME NEW m \in alive', NEW ch \in Chan
      PROVE  Delivered(rtEnd'[m].got, ch, chans'[m][ch])
  <2>1. m = sc'.magic /\ m \in Magic /\ chans'[m][ch] = chans[m][ch]
    BY <1>2, <1>3
  <2>2. CASE GoesOn
    <3>1. m \in alive /\ m = sc.magic /\ rtEnd'[m].got = rtEnd[m].got
      BY <2>1, <2>2 DEF GoesOn, R
    <3> QED BY <2>1, <3>1 DEF Answering
  <2>3. CASE Anew
    <3>1. chans[m][ch].st = "none"
      BY <2>1, <2>3 DEF Anew, Said
    <3>2. chans'[m][ch].user = "none"
      BY <2>1, <3>1 DEF Answering
    <3> QED BY <3>2 DEF Delivered
  <2> QED BY <1>1, <2>2, <2>3
<1> QED BY <1>4, <1>5, <1>6, <1>7 DEF Answering

(* a step of one client                                                    *)
LEMMA AnswerClientStep ==
  ASSUME ClientType, Answering, NEW ch \in Chan, NEW d, clients' = [clients EXCEPT ![ch] = d],
         chans' = chans, sc'.magic = sc.magic, alive' = alive, rtEnd' = rtEnd,
         Talk(scEnd'.log), Owed(scEnd'.log, ch, d),
         \A e \in Chan : e # ch => Owed(scEnd'.log, e, clients[e]),
         \A e \in Chan : Finds(scEnd.got, New(e)) => Finds(scEnd'.got, New(e)),
         d.st # "none" => Finds(scEnd'.got, New(ch))
  PROVE  Answering'
<1>1. \A e \in Chan : clients'[e] = IF e = ch THEN d ELSE clients[e]
  BY DEF ClientType
<1>2. R' = R
  BY DEF R
<1>3. \A e \in Chan : Owed(scEnd'.log, e, clients'[e])
  BY <1>1
<1>4. \A e \in Chan : clients'[e].st # "none" => Finds(scEnd'.got, New(e))
  BY <1>1 DEF Answering
<1> QED BY <1>2, <1>3, <1>4 DEF Answering

(* the message scamper reads is the next of the controller                 *)
LEMMA HeadIs ==
  ASSUME IInv, ScHas, sc.mode = "go", ScHead.type = "MSG"
  PROVE  /\ scEnd.rcv < Len(R.log) /\ ScHead.body = R.log[scEnd.rcv + 1]
         /\ scEnd.rcv \in Nat /\ Len(R.log) \in Nat
         /\ Len(scEnd.got) = scEnd.rcv /\ \A i \in 1 .. scEnd.rcv : scEnd.got[i] = R.log[i]
<1>1. PICK q \in 0 .. Len(R.log), a \in 0 .. R.rcv : Flow(down[sc.conn], scEnd, R, q, a)
  BY GoIs
<1>2. scEnd.rcv < Len(R.log) /\ ScHead.body = R.log[scEnd.rcv + 1]
  BY <1>1, FlowRead, ScHasIs, Ctx DEF ScHead, ScHas
<1>3. Len(scEnd.got) = scEnd.rcv /\ \A i \in 1 .. scEnd.rcv : scEnd.got[i] = R.log[i]
  BY DEF IInv, GotInv
<1> QED BY <1>2, <1>3, EndFields, Ctx

LEMMA NewIs ==
  ASSUME NEW b \in Body, b.k = "new"
  PROVE  b = New(b.ch)
<1>1. \E z : /\ New(b.ch) = [k |-> "new", ch |-> b.ch, v |-> z]
             /\ Body = [k : {"new", "fin"}, ch : Chan, v : {z}]
                         \cup [k : {"data"}, ch : Chan, v : {"cmd", "done", "res", "stop"}]
  <2> DEFINE e == ""
  <2>1. /\ New(b.ch) = [k |-> "new", ch |-> b.ch, v |-> e]
        /\ Body = [k : {"new", "fin"}, ch : Chan, v : {e}]
                    \cup [k : {"data"}, ch : Chan, v : {"cmd", "done", "res", "stop"}]
    BY ControlAssumption, Zenon DEF New
  <2> HIDE DEF e
  <2> QED BY <2>1
<1>2. PICK z : /\ New(b.ch) = [k |-> "new", ch |-> b.ch, v |-> z]
               /\ Body = [k : {"new", "fin"}, ch : Chan, v : {z}]
                           \cup [k : {"data"}, ch : Chan, v : {"cmd", "done", "res", "stop"}]
  BY <1>1, Zenon
<1>3. b \in [k : {"new", "fin"}, ch : Chan, v : {z}]
  BY <1>2
<1>4. b = [k |-> "new", ch |-> b.ch, v |-> z]
  BY <1>3
<1> QED BY <1>2, <1>4

LEMMA AnswerScMessage ==
  ASSUME IInv, ClientType, Answering, ScMessage
  PROVE  Answering'
<1> DEFINE b  == ScHead.body
           ch == b.ch
           cl == clients[ch]
<1>1. PICK refuse \in BOOLEAN :
        /\ ScReadMsg(refuse)
        /\ refuse = (b.k # "new" /\ ~Live(clients[b.ch]))
  BY DEF ScMessage, Live
<1>2. ScHas /\ sc.mode = "go" /\ ScHead.type = "MSG" /\ ScTake(ScHead, refuse) /\ sc.resume
  BY <1>1, GoIs DEF ScReadMsg, ScMsg
<1>3. b \in Body /\ ch \in Chan /\ b.v \in Words /\ b.k \in {"new", "fin", "data"}
  BY <1>2, ScHasIs, FrameFields, BodyOf DEF IInv
<1>4. /\ scEnd' = Taken(scEnd, b) /\ sc'.magic = sc.magic
      /\ alive' = alive /\ rtEnd' = rtEnd
  BY <1>2 DEF ScTake, Retry, master, IInv, LinkTypeOK
<1>5. /\ chans' = chans
      /\ clients' = [clients EXCEPT ![ch] = Gets(clients[ch], b)]
  BY DEF ScMessage
<1>6. /\ scEnd.rcv < Len(R.log) /\ b = R.log[scEnd.rcv + 1]
      /\ scEnd.rcv \in Nat /\ Len(R.log) \in Nat
      /\ Len(scEnd.got) = scEnd.rcv /\ \A i \in 1 .. scEnd.rcv : scEnd.got[i] = R.log[i]
  BY <1>2, HeadIs
<1>7. cl \in Client /\ Owed(scEnd.log, ch, cl) /\ scEnd.log \in Seq(Body) /\ scEnd.got \in Seq(Body)
  BY <1>3, Ctx, EndFields DEF ClientType, Answering
<1> HIDE DEF b
<1>8. scEnd'.log = scEnd.log /\ scEnd'.got = Append(scEnd.got, b)
  BY <1>3, <1>4, Ctx, TakenIs
<1>9. /\ \A c : Finds(scEnd'.got, c) <=> Finds(scEnd.got, c) \/ b = c
  BY <1>3, <1>7, <1>8, LogMore
<1>10. b.k = "new" => cl.st = "none"
  <2> SUFFICES ASSUME b.k = "new", cl.st # "none"  PROVE FALSE
    BY DEF cl
  <2>1. PICK i \in 1 .. Len(scEnd.got) : scEnd.got[i] = New(ch)
    BY <1>3 DEF Answering, Finds
  <2>2. New(ch).ch = ch
    BY DEF New
  <2>3. i \in 1 .. scEnd.rcv /\ R.log[i].ch = ch
    BY <1>6, <2>1, <2>2
  <2>4. scEnd.rcv + 1 \in 1 .. Len(R.log) /\ i \in 1 .. (scEnd.rcv + 1) - 1
    BY <1>6, <2>3
  <2> QED BY <1>6, <2>3, <2>4 DEF Answering, NewFirst
<1>11. Owed(scEnd'.log, ch, Gets(cl, b))
  BY <1>3, <1>7, <1>8, <1>10, OwedGets
<1>12. Gets(cl, b).st # "none" => Finds(scEnd'.got, New(ch))
  <2>1. CASE b.k = "new"
    <3>1. b = New(ch)
      BY <1>3, <2>1, NewIs
    <3> QED BY <1>9, <3>1
  <2>2. CASE b.k # "new" /\ cl.st = "none"
    BY <2>2 DEF Gets, Live
  <2>3. CASE cl.st # "none"
    BY <1>3, <1>9, <2>3 DEF Answering
  <2> QED BY <2>1, <2>2, <2>3
<1>13. Talk(scEnd'.log) /\ \A e \in Chan : Owed(scEnd'.log, e, clients[e])
  BY <1>8 DEF Answering
<1>14. \A e \in Chan : Finds(scEnd.got, New(e)) => Finds(scEnd'.got, New(e))
  BY <1>9
<1> DEFINE d == Gets(cl, b)
<1>15. clients' = [clients EXCEPT ![ch] = d]
  BY <1>5
<1>16. Owed(scEnd'.log, ch, d) /\ (d.st # "none" => Finds(scEnd'.got, New(ch)))
  BY <1>11, <1>12
<1> HIDE DEF d, cl, ch
<1> QED BY <1>3, <1>4, <1>5, <1>13, <1>14, <1>15, <1>16, AnswerClientStep DEF ch

LEMMA AnswerClient ==
  ASSUME IInv, ClientType, Answering, NEW ch \in Chan,
         TaskEnds(ch) \/ ClientWrite(ch) \/ ClientClose(ch)
  PROVE  Answering'
<1> DEFINE cl == clients[ch]
           s  == scEnd.log
<1>1. cl \in Client /\ Owed(s, ch, cl) /\ s \in Seq(Body) /\ Talk(s) /\ scEnd \in Ends
  BY Ctx, EndFields DEF ClientType, Answering
<1>2. Live(cl) \/ IsDone(cl)
  BY DEF TaskEnds, ClientWrite, ClientClose
<1>3. cl.st # "none" /\ Finds(scEnd.got, New(ch))
  BY <1>2 DEF Live, IsDone, Answering
<1>4. CASE TaskEnds(ch)
  <2> DEFINE e == [cl EXCEPT !.tasks = @ - 1, !.out = Append(@, "res")]
             d == StopIfFinished(e)
  <2>1. clients' = [clients EXCEPT ![ch] = d] /\ UNCHANGED <<link, chans>>
    BY <1>4 DEF TaskEnds
  <2>2. Owed(s, ch, e)
    <3>1. Live(cl) /\ cl.tasks > 0
      BY <1>4 DEF TaskEnds
    <3>2. /\ e.st = cl.st /\ e.tasks = cl.tasks - 1 /\ e.cmds = cl.cmds
          /\ e.out = Append(cl.out, "res")
      BY <1>1 DEF Client
    <3> HIDE DEF cl, s, e
    <3> QED BY <1>1, <3>1, <3>2, OwedTask
  <2>3. e \in Client
    <3>1. Append(cl.out, "res") \in Seq({"res", "stop"})
      BY <1>1, AppendProperties DEF Client
    <3>2. cl.tasks - 1 \in Nat
      BY <1>1, <1>4 DEF TaskEnds, Client
    <3> QED BY <1>1, <3>1, <3>2 DEF Client
  <2> HIDE DEF e
  <2>4. Owed(s, ch, d)
    BY <1>1, <2>2, <2>3, OwedStop
  <2>5. /\ sc' = sc /\ alive' = alive /\ rtEnd' = rtEnd /\ scEnd' = scEnd /\ chans' = chans
    BY <2>1 DEF link
  <2>6. \A x \in Chan : Owed(scEnd'.log, x, clients[x])
    BY <2>5 DEF Answering
  <2> HIDE DEF d
  <2> QED BY <1>1, <1>3, <2>1, <2>4, <2>5, <2>6, AnswerClientStep
<1>5. ASSUME NEW b \in Body, ScSend(b), b.ch = ch, MayFollow(s, b), NEW d,
             clients' = [clients EXCEPT ![ch] = d], chans' = chans,
             Owed(Append(s, b), ch, d)
      PROVE  Answering'
  <2>1. scEnd' = Sent(scEnd, b) /\ sc' = sc /\ alive' = alive /\ rtEnd' = rtEnd
    BY <1>5 DEF ScSend, master
  <2>2. scEnd'.log = Append(s, b) /\ scEnd'.got = scEnd.got
    BY <1>1, <2>1, SentIs
  <2>3. Talk(scEnd'.log)
    BY <1>1, <1>5, <2>2, TalkMore
  <2>4. ASSUME NEW x \in Chan, x # ch  PROVE Owed(scEnd'.log, x, clients[x])
    <3>1. Owed(s, x, clients[x])
      BY DEF Answering
    <3> QED BY <1>1, <1>5, <2>2, <2>4, <3>1, OwedOther
  <2> QED BY <1>3, <1>5, <2>1, <2>2, <2>3, <2>4, AnswerClientStep
<1>6. CASE ClientWrite(ch)
  <2> DEFINE b == Data(ch, Head(cl.out))
             d == [cl EXCEPT !.out = Tail(@)]
  <2>1. /\ ScSend(b) /\ Live(cl) /\ cl.out # <<>> /\ chans' = chans
        /\ clients' = [clients EXCEPT ![ch] = d]
    BY <1>1, <1>6 DEF ClientWrite, ClientType
  <2>2. /\ Owed(Append(s, b), ch, d) /\ b \in Body
        /\ Head(cl.out) \in {"res", "stop"}
        /\ ~Finds(s, Data(ch, "stop")) /\ ~Finds(s, Fin(ch))
    BY <1>1, <2>1, OwedWrite
  <2>3. b.ch = ch
    BY DEF Data
  <2>4. MayFollow(s, b)
    BY <2>2, <2>3 DEF MayFollow
  <2> HIDE DEF b, d
  <2> QED BY <1>5, <2>1, <2>2, <2>3, <2>4
<1>7. CASE ClientClose(ch)
  <2> DEFINE b == Fin(ch)
             d == [cl EXCEPT !.st = "closed", !.out = <<>>]
  <2>1. /\ ScSend(b) /\ IsDone(cl) /\ chans' = chans
        /\ clients' = [clients EXCEPT ![ch] = d]
    BY <1>1, <1>7 DEF ClientClose, ClientType
  <2>2. /\ Owed(Append(s, b), ch, d) /\ b \in Body /\ ~Finds(s, Fin(ch))
    <3>1. d.st = "closed" /\ d.tasks = cl.tasks /\ d.cmds = cl.cmds /\ d.out = <<>>
      BY <1>1 DEF Client
    <3> HIDE DEF cl, s, d
    <3> QED BY <1>1, <2>1, <3>1, OwedClose
  <2>3. b.ch = ch
    BY DEF Fin
  <2>4. MayFollow(s, b)
    BY <2>2, <2>3 DEF MayFollow
  <2> HIDE DEF b, d
  <2> QED BY <1>5, <2>1, <2>2, <2>3, <2>4
<1> QED BY <1>4, <1>6, <1>7

(* a step of one channel                                                   *)
LEMMA AnswerChannel ==
  ASSUME IInv, ChannelsOK, Answering, NEW m \in Magic, NEW ch \in Chan, NEW cn,
         SetChannel(m, ch, cn), cn.st = "none" <=> cn.user = "none",
         sc'.magic = sc.magic, alive' = alive, scEnd' = scEnd, clients' = clients,
         NewFirst(R'.log),
         \A n \in alive, d \in Chan :
           n # m \/ d # ch => Delivered(rtEnd'[n].got, d, chans[n][d]),
         m \in alive => Delivered(rtEnd'[m].got, ch, cn)
  PROVE  Answering'
<1>1. /\ chans'[m][ch] = cn
      /\ \A n \in Magic, d \in Chan : n # m \/ d # ch => chans'[n][d] = chans[n][d]
  BY DEF SetChannel, ChannelsOK
<1>2. alive \subseteq Magic
  BY DEF IInv, LinkTypeOK
<1>3. \A n \in alive', d \in Chan : Delivered(rtEnd'[n].got, d, chans'[n][d])
  BY <1>1, <1>2
<1>4. \A n \in Magic, d \in Chan :
        chans'[n][d].st = "none" <=> chans'[n][d].user = "none"
  BY <1>1 DEF Answering
<1> QED BY <1>3, <1>4 DEF Answering

LEMMA NewFirstMore ==
  ASSUME NEW s \in Seq(Body), NEW b \in Body, NewFirst(s),
         b.k = "new" => \A i \in 1 .. Len(s) : s[i].ch # b.ch
  PROVE  NewFirst(Append(s, b))
<1> DEFINE t == Append(s, b)
<1>1. Grown(s, b, t)
  BY LogMore
<1> HIDE DEF t
<1>2. ASSUME NEW j \in 1 .. Len(t), NEW i \in 1 .. j - 1, t[i].ch = t[j].ch
      PROVE  t[j].k # "new"
  <2>1. i \in 1 .. Len(s) /\ t[i] = s[i]
    BY <1>1 DEF Grown
  <2>2. CASE j \in 1 .. Len(s)
    BY <1>1, <1>2, <2>1, <2>2 DEF Grown, NewFirst
  <2>3. CASE j = Len(s) + 1
    BY <1>1, <1>2, <2>1, <2>3 DEF Grown
  <2> QED BY <1>1, <2>2, <2>3 DEF Grown
<1>3. NewFirst(t)
  BY <1>2 DEF NewFirst
<1> QED BY <1>3 DEF t

(* a step by which a master says something more about a channel            *)
LEMMA AnswerMore ==
  ASSUME IInv, ChannelsOK, Answering, NEW m \in Magic, NEW ch \in Chan, NEW cn, NEW b \in Body,
         RtSend(m, b), b.ch = ch, SetChannel(m, ch, cn), clients' = clients,
         cn.st = "none" <=> cn.user = "none",
         b.k = "new" => \A i \in 1 .. Len(R.log) : R.log[i].ch # ch,
         Delivered(R.got, ch, cn)
  PROVE  Answering'
<1>1. /\ m \in alive /\ m = sc.magic /\ R = rtEnd[m] /\ R \in Ends
      /\ sc' = sc /\ scEnd' = scEnd /\ alive' = alive
      /\ rtEnd' = [rtEnd EXCEPT ![m] = Sent(@, b)]
  BY Ctx DEF RtSend, scamper
<1>2. R' = Sent(R, b) /\ rtEnd'[m] = R' /\ \A n \in alive : n = m
  BY <1>1, Ctx DEF R, IInv, LinkTypeOK
<1>3. R'.log = Append(R.log, b) /\ R'.got = R.got /\ R.log \in Seq(Body)
  <2>1. Sent(R, b).log = Append(R.log, b) /\ Sent(R, b).got = R.got
    BY <1>1, SentIs
  <2>2. R.log \in Seq(Body)
    BY <1>1, EndFields
  <2> QED BY <1>2, <2>1, <2>2
<1>4. NewFirst(R'.log)
  BY <1>3, NewFirstMore DEF Answering
<1>5. \A n \in alive, d \in Chan : rtEnd'[n].got = rtEnd[n].got
  BY <1>1, <1>2, <1>3
<1>6. \A n \in alive, d \in Chan : Delivered(rtEnd'[n].got, d, chans[n][d])
  BY <1>5 DEF Answering
<1>7. Delivered(rtEnd'[m].got, ch, cn)
  BY <1>2, <1>3
<1> QED BY <1>1, <1>4, <1>6, <1>7, AnswerChannel

LEMMA AnswerRtMessage ==
  ASSUME IInv, ChannelsOK, Answering, NEW m \in Magic, NEW c \in Conn, RtMessage(m, c)
  PROVE  Answering'
<1> DEFINE b  == Head(up[c]).body
           ch == b.ch
           cn == chans[m][ch]
           d  == IF cn.st = "open" /\ b.k = "fin" THEN Finished(cn)
                 ELSE IF cn.fd THEN [cn EXCEPT !.wb = Append(@, b.v)]
                 ELSE cn
<1>0. RtReadMsg(m, c) /\ clients' = clients /\ SetChannel(m, ch, d)
  BY DEF RtMessage
<1>1. /\ RtReadMsg(m, c) /\ Head(up[c]).type = "MSG" /\ RtHas(c) /\ at[m] = c /\ m \in alive
  BY <1>0 DEF RtReadMsg
<1>2. b \in Body /\ ch \in Chan
  BY <1>1, RtHasIs, FrameFields, BodyOf DEF IInv
<1>3. /\ sc' = sc /\ scEnd' = scEnd /\ alive' = alive /\ clients' = clients
      /\ rtEnd' = [rtEnd EXCEPT ![m] = Taken(@, b)]
  BY <1>0 DEF RtReadMsg, scamper
<1>4. SetChannel(m, ch, d)
  BY <1>0
<1>5. m = sc.magic /\ R = rtEnd[m] /\ R \in Ends /\ scEnd \in Ends /\ c = Held
      /\ \A n \in alive : n = m
  BY <1>1, Ctx DEF IInv, LinkTypeOK, Shape
<1>6. R.rcv < Len(scEnd.log) /\ b = scEnd.log[R.rcv + 1]
  <2>1. PICK q \in 0 .. Len(scEnd.log), a \in 0 .. scEnd.rcv : Flow(up[c], R, scEnd, q, a)
    BY <1>1, <1>5, HeldIs
  <2> QED BY <1>1, <1>5, <2>1, FlowRead, RtHasIs DEF IInv
<1>7. Len(R.got) = R.rcv /\ R.rcv \in Nat /\ \A i \in 1 .. R.rcv : R.got[i] = scEnd.log[i]
  BY <1>5, EndFields DEF IInv, GotInv
<1> HIDE DEF b
<1>8. MayFollow(R.got, b)
  <2>1. Len(scEnd.log) \in Nat
    BY <1>5, EndFields
  <2>2. Len(R.got) + 1 \in 1 .. Len(scEnd.log)
    BY <1>6, <1>7, <2>1
  <2>3. MayFollow(R.got, scEnd.log[Len(R.got) + 1])
    BY <1>7, <2>2, TalkNext DEF Answering
  <2> QED BY <1>6, <1>7, <2>3
<1>9. /\ R' = Taken(R, b) /\ rtEnd'[m] = R' /\ R'.got = Append(R.got, b) /\ R'.log = R.log
      /\ R.got \in Seq(Body)
  <2>1. R' = Taken(R, b) /\ rtEnd'[m] = R'
    BY <1>3, <1>5 DEF R, IInv, LinkTypeOK
  <2>2. Taken(R, b).got = Append(R.got, b) /\ Taken(R, b).log = R.log
    BY <1>2, <1>5, TakenIs
  <2>3. R.got \in Seq(Body)
    BY <1>5, EndFields
  <2> QED BY <2>1, <2>2, <2>3
<1>10. ChannelOK(cn) /\ Delivered(R.got, ch, cn)
  BY <1>1, <1>2, <1>5 DEF ChannelsOK, Answering
<1>11. Delivered(R'.got, ch, d)
  BY <1>2, <1>8, <1>9, <1>10, DeliveredTakes
<1>12. d.st = "none" <=> d.user = "none"
  <2>1. cn.st = "none" <=> cn.user = "none"
    BY <1>2 DEF Answering
  <2>2. (d.st = "none" <=> cn.st = "none") /\ d.user = cn.user
    BY <1>10 DEF ChannelOK, Channel, Finished, Freed
  <2> QED BY <2>1, <2>2
<1>13. ASSUME NEW n \in alive, NEW e \in Chan, n # m \/ e # ch
       PROVE  Delivered(rtEnd'[n].got, e, chans[n][e])
  <2>1. n = m /\ e # ch /\ Delivered(R.got, e, chans[n][e])
    BY <1>5, <1>13 DEF Answering
  <2> QED BY <1>2, <1>9, <2>1, DeliveredOther
<1>14. NewFirst(R'.log)
  BY <1>9 DEF Answering
<1>15. Delivered(rtEnd'[m].got, ch, d)
  BY <1>9, <1>11
<1> HIDE DEF d, ch
<1> QED BY <1>2, <1>3, <1>4, <1>12, <1>13, <1>14, <1>15, AnswerChannel

(* what scamper sent of a channel it was not told of                       *)
LEMMA Untold ==
  ASSUME IInv, Said, Answering, NEW m \in alive, NEW ch \in Chan, chans[m][ch].st = "none"
  PROVE  /\ \A i \in 1 .. Len(R.log) : R.log[i].ch # ch
         /\ \A i \in 1 .. Len(R.got) : R.got[i].ch # ch
<1>1. m = sc.magic /\ R = rtEnd[m] /\ R \in Ends /\ scEnd \in Ends
  BY Ctx DEF IInv, LinkTypeOK, Shape
<1>2. \A i \in 1 .. Len(R.log) : R.log[i].ch # ch
  BY <1>1 DEF Said, Told
<1>3. /\ Len(scEnd.got) = scEnd.rcv /\ scEnd.rcv \in Nat /\ scEnd.rcv <= Len(R.log)
      /\ \A i \in 1 .. scEnd.rcv : scEnd.got[i] = R.log[i]
      /\ Len(R.got) = R.rcv /\ R.rcv \in Nat /\ R.rcv <= Len(scEnd.log)
      /\ \A i \in 1 .. R.rcv : R.got[i] = scEnd.log[i]
      /\ Len(R.log) \in Nat /\ Len(scEnd.log) \in Nat
  BY <1>1, EndFields DEF IInv, GotInv, Window
<1>4. ~Finds(scEnd.got, New(ch))
  <2>1. New(ch).ch = ch
    BY DEF New
  <2> QED BY <1>2, <1>3, <2>1 DEF Finds
<1>5. clients[ch].st = "none"
  BY <1>4 DEF Answering
<1>6. \A i \in 1 .. Len(scEnd.log) : scEnd.log[i].ch # ch
  BY <1>5 DEF Answering, Owed
<1> QED BY <1>2, <1>3, <1>6

LEMMA AnswerController ==
  ASSUME IInv, ChannelsOK, Said, Answering, Controller
  PROVE  Answering'
<1>0. \A m \in Magic, ch \in Chan :
        /\ ChannelOK(chans[m][ch]) /\ chans[m][ch] \in Channel
        /\ chans[m][ch].st = "none" <=> chans[m][ch].user = "none"
  BY DEF ChannelsOK, ChannelOK, Answering
<1>1. \A m \in alive : m = sc.magic /\ m \in Magic /\ R = rtEnd[m]
  BY Ctx DEF IInv, LinkTypeOK, Shape
<1>2. \A m \in alive, ch \in Chan :
        Delivered(R.got, ch, chans[m][ch]) /\ Delivered(rtEnd[m].got, ch, chans[m][ch])
  BY <1>1 DEF Answering
(* the link is left alone                                                  *)
<1>3. ASSUME NEW m \in Magic, NEW ch \in Chan, NEW d, SetChannel(m, ch, d), UNCHANGED link,
             clients' = clients, d.st = "none" <=> d.user = "none",
             d.user \in {"open", "half"} =>
               LET cn == chans[m][ch]
               IN  /\ cn.user \in {"open", "half"} /\ d.got \o d.wb = cn.got \o cn.wb
                   /\ d.rx = cn.rx /\ (d.fd = cn.fd \/ d.rx)
      PROVE  Answering'
  <2>1. sc' = sc /\ alive' = alive /\ scEnd' = scEnd /\ rtEnd' = rtEnd /\ R' = R
    BY <1>3 DEF link, R
  <2>2. m \in alive => Delivered(rtEnd'[m].got, ch, d)
    BY <1>2, <1>3, <2>1, DeliveredSame
  <2>3. NewFirst(R'.log) /\ \A n \in alive, e \in Chan : Delivered(rtEnd'[n].got, e, chans[n][e])
    BY <1>2, <2>1 DEF Answering
  <2> QED BY <1>3, <2>1, <2>2, <2>3, AnswerChannel
<1>4. ASSUME NEW m \in Magic, NEW ch \in Chan, Accept(m, ch)
      PROVE  Answering'
  <2>1. /\ RtSend(m, New(ch)) /\ New(ch) \in Body /\ New(ch).ch = ch /\ m \in alive
        /\ SetChannel(m, ch, OpenChannel) /\ clients' = clients
        /\ chans[m][ch].st = "none"
    <3>1. New(ch) \in Body /\ New(ch).ch = ch
      BY BodyOf, Zenon DEF New
    <3> QED BY <1>4, <3>1 DEF Accept, RtSend
  <2>2. /\ \A i \in 1 .. Len(R.log) : R.log[i].ch # ch
        /\ \A i \in 1 .. Len(R.got) : R.got[i].ch # ch
    BY <2>1, Untold
  <2>3. /\ OpenChannel.st = "open" /\ OpenChannel.user = "open" /\ OpenChannel.fd
        /\ ~OpenChannel.rx /\ OpenChannel.got = <<>> /\ OpenChannel.wb = <<>>
    BY DEF OpenChannel, NoChannel
  <2>4. Delivered(R.got, ch, OpenChannel)
    <3>1. OpenChannel.got \o OpenChannel.wb = <<>>
      BY <2>3
    <3>2. R.got \in Seq(Body) /\ Data(ch, "res").ch = ch /\ Data(ch, "stop").ch = ch
      BY Ctx, EndFields DEF Data
    <3>3. ~Finds(R.got, Data(ch, "res")) /\ ~Finds(R.got, Data(ch, "stop"))
      BY <2>2, <3>2 DEF Finds
    <3>4. Sent1(R.got, ch, "res") = 0 /\ Sent1(R.got, ch, "stop") = 0
      BY <2>1, <3>2, <3>3, LogMore
    <3>5. Count(<<>>, {"res"}) = 0 /\ Len(<<>>) = 0
      BY CountEmpty
    <3> QED BY <2>3, <3>1, <3>4, <3>5 DEF Delivered
  <2> QED BY <2>1, <2>2, <2>3, <2>4, AnswerMore
<1>5. ASSUME NEW m \in Magic, NEW ch \in Chan, UserWrite(m, ch)
      PROVE  Answering'
  <2> DEFINE cn  == chans[m][ch]
             cn2 == IF cn.user = "gone" THEN FdFreed(cn)
                    ELSE [cn EXCEPT !.got = @ \o cn.wb, !.wb = <<>>]
             d   == IF cn.rx THEN Freed(cn2) ELSE cn2
  <2>1. SetChannel(m, ch, d) /\ UNCHANGED link /\ clients' = clients
        /\ cn \in Channel /\ cn.fd /\ cn.st = "open" /\ cn.user # "none"
    BY <1>0, <1>5 DEF UserWrite, ChannelOK
  <2>2. CASE cn.user = "gone"
    <3>1. d.st # "none" /\ d.user = "gone"
      BY <2>1, <2>2 DEF FdFreed, Freed, Channel
    <3> HIDE DEF d
    <3> QED BY <1>3, <2>1, <3>1
  <2>3. CASE cn.user # "gone"
    <3> DEFINE w == cn.got \o cn.wb
    <3>1. cn.got \in Seq(Words) /\ cn.wb \in Seq(Words)
      BY <2>1 DEF Channel
    <3>2. w \in Seq(Words) /\ w \o <<>> = w
      BY <3>1, ConcatProperties, ConcatEmptySeq
    <3>3. cn2 = [cn EXCEPT !.got = w, !.wb = <<>>]
      BY <2>3
    <3> HIDE DEF w, cn2
    <3>4. /\ cn2.st = "open" /\ cn2.user = cn.user /\ cn2.got = w /\ cn2.wb = <<>>
          /\ cn2.rx = cn.rx /\ cn2.fd = cn.fd
      BY <2>1, <3>3 DEF Channel
    <3>5. cn2 \in Channel
      <4>1. <<>> \in Seq(Words)
        OBVIOUS
      <4> QED BY <2>1, <3>2, <3>3, <4>1 DEF Channel
    <3>6. /\ d.st # "none" /\ d.user = cn.user /\ d.got = w /\ d.wb = <<>>
          /\ d.rx = cn.rx /\ (d.fd = cn.fd \/ d.rx)
      BY <2>1, <3>4, <3>5 DEF Freed, Channel
    <3>7. d.got \o d.wb = cn.got \o cn.wb
      BY <3>2, <3>6 DEF w
    <3>8. cn.user \in {"open", "half"}
      BY <2>1, <2>3 DEF Channel
    <3> HIDE DEF d
    <3> QED BY <1>3, <2>1, <3>6, <3>7, <3>8
  <2> QED BY <2>2, <2>3
<1>6. ASSUME NEW m \in Magic, NEW ch \in Chan, NEW v \in {"cmd", "done"},
             UserLine(m, ch, v)
      PROVE  Answering'
  <2> DEFINE cn == chans[m][ch]
             d  == [cn EXCEPT !.lines = @ + 1]
  <2>1. /\ RtSend(m, Data(ch, v)) /\ Data(ch, v) \in Body /\ Data(ch, v).ch = ch
        /\ Data(ch, v).k = "data" /\ SetChannel(m, ch, d) /\ clients' = clients
        /\ m \in alive /\ cn \in Channel
    BY <1>0, <1>6, BodyOf DEF UserLine, Data, RtSend
  <2>2. /\ d.st = cn.st /\ d.user = cn.user /\ d.got = cn.got /\ d.wb = cn.wb
        /\ d.rx = cn.rx /\ d.fd = cn.fd
    BY <2>1 DEF Channel
  <2> HIDE DEF d
  <2>3. Delivered(R.got, ch, d) /\ (d.st = "none" <=> d.user = "none")
    <3>1. d.got \o d.wb = cn.got \o cn.wb
      BY <2>2
    <3> QED BY <1>0, <1>2, <2>1, <2>2, <3>1, DeliveredSame
  <2> QED BY <2>1, <2>3, AnswerMore
<1>7. ASSUME NEW m \in Magic, NEW ch \in Chan, NEW how \in {"half", "gone"},
             UserEnds(m, ch, how)
      PROVE  Answering'
  <2> DEFINE cn == chans[m][ch]
             d  == [cn EXCEPT !.user = how]
  <2>1. SetChannel(m, ch, d) /\ UNCHANGED link /\ clients' = clients
        /\ cn \in Channel /\ cn.st = "open" /\ cn.user \notin {"none", "gone"}
    BY <1>0, <1>7 DEF UserEnds
  <2>2. /\ d.st = "open" /\ d.user = how /\ d.got = cn.got /\ d.wb = cn.wb
        /\ d.rx = cn.rx /\ d.fd = cn.fd
    BY <2>1 DEF Channel
  <2>3. cn.user \in {"open", "half"} /\ how # "none"
    BY <2>1 DEF Channel
  <2> HIDE DEF d
  <2>4. d.got \o d.wb = cn.got \o cn.wb
    BY <2>2
  <2> QED BY <1>3, <2>1, <2>2, <2>3, <2>4
<1>8. ASSUME NEW m \in Magic, NEW ch \in Chan, NEW err \in BOOLEAN, UserEof(m, ch, err)
      PROVE  Answering'
  <2> DEFINE cn == chans[m][ch]
             d  == Eof(cn, err)
  <2>1. cn \in Channel /\ cn.st = "open" /\ ~cn.tx /\ ~cn.rx /\ cn.user # "none"
        /\ (err => cn.user = "gone")
    BY <1>0, <1>8 DEF UserEof, ChannelOK
  <2>2. /\ RtSend(m, Fin(ch)) /\ Fin(ch) \in Body /\ Fin(ch).ch = ch /\ Fin(ch).k # "new"
        /\ SetChannel(m, ch, d) /\ clients' = clients /\ m \in alive
    <3>1. Fin(ch) \in Body /\ Fin(ch).ch = ch /\ Fin(ch).k = "fin"
      BY BodyOf, Zenon DEF Fin
    <3> QED BY <1>8, <2>1, <3>1 DEF UserEof, RtSend
  <2>3. d.st = "open" /\ d.user = cn.user
    BY <2>1 DEF Eof, FdFreed, Channel
  <2>4. Delivered(R.got, ch, d)
    <3>1. CASE err
      BY <2>1, <2>3, <3>1 DEF Delivered
    <3>2. CASE ~err
      <4>1. d.got = cn.got /\ d.wb = cn.wb /\ d.rx = cn.rx /\ d.fd = cn.fd
        BY <2>1, <3>2 DEF Eof, Channel
      <4> HIDE DEF d
      <4>2. d.got \o d.wb = cn.got \o cn.wb
        BY <4>1
      <4> QED BY <1>2, <2>2, <2>3, <4>1, <4>2, DeliveredSame
    <3> QED BY <3>1, <3>2
  <2> HIDE DEF d
  <2> QED BY <2>1, <2>2, <2>3, <2>4, AnswerMore
<1> QED BY <1>4, <1>5, <1>6, <1>7, <1>8, AnswerRtMessage DEF Controller

LEMMA AnswerInit ==
  ASSUME ControlInit
  PROVE  Answering
<1>1. /\ R = NewEnd /\ scEnd = NewEnd /\ alive = {}
      /\ \A m \in Magic, ch \in Chan : chans[m][ch] = NoChannel
      /\ \A ch \in Chan : clients[ch] = NoClient
  BY InitType DEF ControlInit, Init, R, LinkTypeOK
<1>2. NewFirst(R.log) /\ Talk(scEnd.log)
  BY <1>1, NewEndIs DEF NewFirst, Talk
<1>3. ASSUME NEW ch \in Chan  PROVE Owed(<<>>, ch, NoClient)
  <2>1. /\ NoClient.st = "none" /\ NoClient.tasks = 0 /\ NoClient.cmds = 0
        /\ NoClient.out = <<>> /\ Len(<<>>) = 0
    BY DEF NoClient
  <2>2. /\ Sent1(<<>>, ch, "res") = 0 /\ Sent1(<<>>, ch, "stop") = 0
        /\ Count(NoClient.out, {"res"}) = 0 /\ Count(NoClient.out, {"stop"}) = 0
    BY <2>1, CountEmpty DEF Sent1
  <2> QED BY <2>1, <2>2 DEF Owed, Finds
<1>4. /\ \A ch \in Chan : clients[ch].st = "none"
      /\ \A m \in Magic, ch \in Chan : chans[m][ch].st = "none" /\ chans[m][ch].user = "none"
  BY <1>1 DEF NoClient, NoChannel
<1> QED BY <1>1, <1>2, <1>3, <1>4, NewEndIs DEF Answering

LEMMA ControlAnswering == Spec => []Answering
<1>1. ControlInit => Answering
  BY AnswerInit
<1>2. (ClientType /\ IInv) /\ (ClientType /\ IInv)' /\ ChannelsOK /\ Said /\ Answering
      /\ [Next]_vars => Answering'
  <2>1. CASE UNCHANGED vars
    BY <2>1 DEF vars, link, control, Answering, R
  <2> QED BY <2>1, AnswerQuiet, AnswerController, AnswerScMessage, AnswerClient
          DEF Next, Scamper
<1> QED BY <1>1, <1>2, ControlTypes, ControlChans, ControlSaid, PTL DEF Spec

(* a part of a log that has the fin of a channel has all of it             *)
LEMMA AllTaken ==
  ASSUME NEW s \in Seq(Body), NEW g \in Seq(Body), Talk(s), Len(g) <= Len(s),
         \A i \in 1 .. Len(g) : g[i] = s[i], NEW ch \in Chan, Finds(g, Fin(ch)),
         NEW v
  PROVE  Sent1(g, ch, v) = Sent1(s, ch, v) /\ Finds(s, Fin(ch))
<1>1. Len(g) \in Nat /\ Len(s) \in Nat /\ DOMAIN g = 1 .. Len(g) /\ DOMAIN s = 1 .. Len(s)
  BY LenProperties
<1>2. PICK f \in 1 .. Len(g) : g[f] = Fin(ch)
  BY DEF Finds
<1>3. Fin(ch).ch = ch /\ Fin(ch).k = "fin" /\ Data(ch, v).ch = ch /\ Data(ch, v).k = "data"
  BY Zenon DEF Fin, Data
<1>4. f \in 1 .. Len(s) /\ s[f] = Fin(ch)
  BY <1>1, <1>2
<1>5. \A j \in 1 .. Len(s) : j > Len(g) => s[j] # Data(ch, v)
  <2> SUFFICES ASSUME NEW j \in 1 .. Len(s), j > Len(g), s[j] = Data(ch, v)
               PROVE  FALSE
    OBVIOUS
  <2>1. f \in 1 .. j - 1 /\ s[f].ch = s[j].ch /\ s[f].k = "fin"
    BY <1>1, <1>2, <1>3, <1>4
  <2> QED BY <2>1 DEF Talk
<1>6. At(g, {Data(ch, v)}) = At(s, {Data(ch, v)})
  <2>1. \A i : i \in 1 .. Len(g) <=> i \in 1 .. Len(s) /\ ~(i > Len(g))
    BY <1>1
  <2> DEFINE P == {Data(ch, v)}
  <2>2. \A i : i \in At(g, P) <=> i \in 1 .. Len(g) /\ s[i] \in P
    BY <1>1 DEF At
  <2>3. \A i : i \in At(s, P) <=> i \in 1 .. Len(s) /\ s[i] \in P
    BY <1>1 DEF At
  <2>4. \A i : i \in At(g, P) <=> i \in At(s, P)
    BY <1>5, <2>1, <2>2, <2>3
  <2>5. At(g, P) \subseteq DOMAIN g /\ At(s, P) \subseteq DOMAIN s
    BY DEF At
  <2> HIDE DEF P
  <2>6. At(g, P) = At(s, P)
    BY <2>4
  <2> QED BY <2>6 DEF P
<1> QED BY <1>4, <1>6 DEF Sent1, Count, Finds

(* A process that stayed has every result of the commands scamper took,    *)
(* then the cycle stop, when the controller takes the channel's FIN        *)
(* (remote_write sends it after client_isdone; sc_onechan_unix_write_do    *)
(* still writes what was read before), over any number of connections.     *)
THEOREM ControlResultsBeforeEnd == Spec => []ResultsBeforeEnd
<1>1. ASSUME ClientType, IInv, ChannelsOK, Answering, NEW m \in alive, NEW ch \in Chan,
             m = sc.magic, chans[m][ch].rx, chans[m][ch].user \in {"open", "half"},
             NEW s, s = chans[m][ch].got \o chans[m][ch].wb
      PROVE  Results(s) = clients[ch].cmds /\ Len(s) = Results(s) + 1 /\ s[Len(s)] = "stop"
  <2> DEFINE g == R.got
             t == scEnd.log
             cl == clients[ch]
  <2>1. /\ R = rtEnd[m] /\ g \in Seq(Body) /\ t \in Seq(Body) /\ Talk(t)
        /\ Owed(t, ch, cl) /\ cl \in Client /\ Delivered(g, ch, chans[m][ch])
    BY <1>1, Ctx, EndFields DEF Answering, ClientType
  <2>2. Len(g) <= Len(t) /\ \A i \in 1 .. Len(g) : g[i] = t[i]
    BY <1>1 DEF IInv, GotInv, Window
  <2>3. /\ Count(s, {"res"}) = Sent1(g, ch, "res")
        /\ Len(s) = Sent1(g, ch, "res") + Sent1(g, ch, "stop")
        /\ Sent1(g, ch, "stop") # 0 => s[Len(s)] = "stop"
        /\ Finds(g, Fin(ch))
    BY <1>1, <2>1 DEF Delivered
  <2> HIDE DEF g, t, cl
  <2>4. /\ Sent1(g, ch, "res") = Sent1(t, ch, "res")
        /\ Sent1(g, ch, "stop") = Sent1(t, ch, "stop")
        /\ Finds(t, Fin(ch))
    BY <2>1, <2>2, <2>3, AllTaken
  <2>5. cl.st = "closed" /\ cl.out = <<>> /\ cl.tasks = 0
    BY <2>1, <2>4 DEF Owed
  <2>6. Count(cl.out, {"res"}) = 0 /\ Count(cl.out, {"stop"}) = 0
    BY <2>5, CountEmpty
  <2>7. Sent1(t, ch, "res") \in Nat /\ Sent1(t, ch, "stop") \in Nat
    BY <2>1, CountType DEF Sent1
  <2>8. cl.cmds = Sent1(t, ch, "res") /\ Sent1(t, ch, "stop") = 1
    <3>1. cl.cmds = Sent1(t, ch, "res") + Count(cl.out, {"res"}) + cl.tasks
      BY <2>1 DEF Owed
    <3>2. Sent1(t, ch, "stop") + Count(cl.out, {"stop"}) = 1
      BY <2>1, <2>5 DEF Owed
    <3> QED BY <2>5, <2>6, <2>7, <3>1, <3>2
  <2>9. Results(s) = Count(s, {"res"})
    <3>1. {i \in DOMAIN s : s[i] = "res"} = At(s, {"res"})
      BY DEF At
    <3> QED BY <3>1 DEF Results, Count
  <2>10. Results(s) = cl.cmds /\ Len(s) = Results(s) + 1 /\ s[Len(s)] = "stop"
    BY <2>3, <2>4, <2>7, <2>8, <2>9
  <2> QED BY <2>10 DEF cl
<1>2. ClientType /\ IInv /\ ChannelsOK /\ Answering => ResultsBeforeEnd
  BY <1>1 DEF ResultsBeforeEnd
<1> QED BY <1>2, ControlTypes, ControlChans, ControlAnswering, PTL
=============================================================================
