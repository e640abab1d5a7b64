---------------------------- MODULE Connection ----------------------------
(***************************************************************************)
(* What connections promise to the code that creates them.  ProtoConn is   *)
(* shown to implement this module; Dispatch builds on it.                  *)
(*                                                                         *)
(* A connection is being set up, then open in both directions, and dies    *)
(* once, for one reason.  A direction that reaches the end of its input    *)
(* is half closed, and the connection stays open for the other one.        *)
(***************************************************************************)
CONSTANT Conn

VARIABLES
    phase,      \* where each connection stands
    eof,        \* the directions that have reached the end of their input
    reason      \* the reason given to callback_dead

convars == <<phase, eof, reason>>

Direction == {"f", "r"}

Reason == {"CLOSED", "CONNECT_FAILED", "HANDSHAKE_FAILED", "ERROR",
           "CANCELLED"}

Init ==
    /\ phase = [i \in Conn |-> "none"]
    /\ eof = [i \in Conn |-> {}]
    /\ reason = [i \in Conn |-> "NONE"]

Begin(i) ==
    /\ phase[i] = "none"
    /\ phase' = [phase EXCEPT ![i] = "setup"]
    /\ UNCHANGED <<eof, reason>>

Refuse(i) ==
    /\ phase[i] = "none"
    /\ phase' = [phase EXCEPT ![i] = "refused"]
    /\ UNCHANGED <<eof, reason>>

Create(i) == Begin(i) \/ Refuse(i)

Establish(i) ==
    /\ phase[i] = "setup"
    /\ phase' = [phase EXCEPT ![i] = "open"]
    /\ UNCHANGED <<eof, reason>>

HalfClose(i, d) ==
    /\ phase[i] = "open"
    /\ eof[i] = {}
    /\ eof' = [eof EXCEPT ![i] = {d}]
    /\ UNCHANGED <<phase, reason>>

(* The second direction ends: the only way to die with reason CLOSED.      *)
Close(i) ==
    /\ phase[i] = "open"
    /\ eof[i] # {}
    /\ eof' = [eof EXCEPT ![i] = Direction]
    /\ phase' = [phase EXCEPT ![i] = "dead"]
    /\ reason' = [reason EXCEPT ![i] = "CLOSED"]

(* A connection dies for another reason; connecting and shaking hands can  *)
(* fail only while it is being set up.                                     *)
Die(i, why) ==
    /\ phase[i] \in {"setup", "open"}
    /\ why \in {"CONNECT_FAILED", "HANDSHAKE_FAILED"} => phase[i] = "setup"
    /\ phase' = [phase EXCEPT ![i] = "dead"]
    /\ reason' = [reason EXCEPT ![i] = why]
    /\ UNCHANGED eof

Next ==
    \E i \in Conn :
        \/ Create(i)
        \/ Establish(i)
        \/ \E d \in Direction : HalfClose(i, d)
        \/ Close(i)
        \/ \E why \in Reason \ {"CLOSED"} : Die(i, why)

Spec == Init /\ [][Next]_convars
=============================================================================
