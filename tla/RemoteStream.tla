---------------------------- MODULE RemoteStream ----------------------------
(***************************************************************************)
(* What remote control promises, with no connection, sequence number or    *)
(* acknowledgement in sight: while the controller keeps a session, what    *)
(* one end sends arrives at the other in order, once and without a gap;    *)
(* scamper forgets a session only when the controller has closed it, and   *)
(* both begin a new one with nothing.  RemoteLink implements this.         *)
(***************************************************************************)
EXTENDS Sequences, Naturals

CONSTANT Body

VARIABLES
  open,                \* the controller keeps the session
  upSent, upGot,       \* scamper to controller: sent, and arrived
  downSent, downGot    \* controller to scamper: sent, and arrived

vars == <<open, upSent, upGot, downSent, downGot>>

Init ==
  /\ open = FALSE
  /\ upSent = <<>> /\ upGot = <<>> /\ downSent = <<>> /\ downGot = <<>>

Open ==
  /\ ~open /\ upSent = <<>> /\ downGot = <<>>
  /\ open' = TRUE /\ upGot' = <<>> /\ downSent' = <<>>
  /\ UNCHANGED <<upSent, downGot>>

SendUp(b) ==
  /\ upSent' = Append(upSent, b)
  /\ UNCHANGED <<open, upGot, downSent, downGot>>

SendDown(b) ==
  /\ open
  /\ downSent' = Append(downSent, b)
  /\ UNCHANGED <<open, upSent, upGot, downGot>>

DeliverUp ==
  /\ open /\ Len(upGot) < Len(upSent)
  /\ upGot' = Append(upGot, upSent[Len(upGot) + 1])
  /\ UNCHANGED <<open, upSent, downSent, downGot>>

DeliverDown ==
  /\ Len(downGot) < Len(downSent)
  /\ downGot' = Append(downGot, downSent[Len(downGot) + 1])
  /\ UNCHANGED <<open, upSent, upGot, downSent>>

(* the controller gives up on scamper, or is restarted                     *)
Close ==
  /\ open /\ open' = FALSE
  /\ UNCHANGED <<upSent, upGot, downSent, downGot>>

(* scamper is told so                                                      *)
Forget ==
  /\ ~open
  /\ upSent' = <<>> /\ upGot' = <<>> /\ downSent' = <<>> /\ downGot' = <<>>
  /\ UNCHANGED open

Next ==
  \/ Open \/ Close \/ Forget \/ DeliverUp \/ DeliverDown
  \/ \E b \in Body : SendUp(b) \/ SendDown(b)

Spec == Init /\ [][Next]_vars

=============================================================================
