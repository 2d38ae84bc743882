-------------------------- MODULE MCRemoteControl --------------------------
(* One local process, any of the failures of RemoteLink. *)
EXTENDS RemoteControl

CONSTANTS ma, mb

MCMagic == {ma, mb}
MCConn == 1 .. 3
MCChan == {1}
MCBody == [k : {"new", "fin"}, ch : MCChan, v : {""}]
            \cup [k : {"data"}, ch : MCChan, v : {"cmd", "done", "res", "stop"}]

=============================================================================
