------------------------------ MODULE Programs ------------------------------
(***************************************************************************)
(* The two programs: the running server, which is module Dispatch, and a   *)
(* client from start to end, which is module Spipe.  They run in different *)
(* processes and share no state.                                           *)
(***************************************************************************)
EXTENDS Dispatch

VARIABLES
    cphase, ceof, creason, at, cloop, et_conndone, connection_error, stopped, thr,
    cancelled, after, gs_timer_cookie, gs_should_shutdown, gs_handler, initialized,
    sigterm, code

clientvars ==
    <<cphase, ceof, creason, at, cloop, et_conndone, connection_error, stopped, thr,
      cancelled, after, gs_timer_cookie, gs_should_shutdown, gs_handler, initialized,
      sigterm, code>>

Client == INSTANCE Spipe

(* What the status of a client says, and whether all data was copied; see  *)
(* Spipe.                                                                  *)
ClientExitsRight == Client!ClientExitsRight
=============================================================================
