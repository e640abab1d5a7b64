---------------------------- MODULE MCProtoPipe ----------------------------
(***************************************************************************)
(* A pair of pipes with packets of two bytes in three, an output buffer of *)
(* two packets, and a read buffer that no number of packets fills exactly; *)
(* the key stream the packets are encrypted with; and a reader in other    *)
(* hands, with waits for nothing, for less than the buffer holds, for all  *)
(* it holds, for more, and for more than twice as much.  Only one of them  *)
(* moves, so that they are checked side by side, not multiplied.           *)
(***************************************************************************)
EXTENDS ProtoPipe, NetbufReader, AesCtr

VARIABLE part   \* the one that moves

(* While the key stream is looked at the source has not written anything. *)
MCInit ==
    /\ Init
    /\ CtrInit
    /\ ReaderInit
    /\ part \in {"pipe", "stream", "reader"}
    /\ owned => part = "reader"

MCNext ==
    \/ part = "pipe" /\ Next /\ UNCHANGED <<ctrvars, readervars, part>>
    \/ part = "stream" /\ CtrNext /\ UNCHANGED <<vars, readervars, part>>
    \/ part = "reader" /\ ReaderNext /\ UNCHANGED <<vars, ctrvars, part>>

MCSpec ==
    /\ MCInit
    /\ [][MCNext]_<<vars, ctrvars, readervars, part>>
    /\ WF_vars(SendRefused)
    /\ \A d \in Pipe : WF_vars(PipeNext(d))
=============================================================================
