--------------------------- MODULE CreateBlocking ---------------------------
(***************************************************************************)
(* lib/util/pthread_create_blocking_np.c: start a thread and wait until it *)
(* runs; with its caller pushbits, which hands over the structure arg to   *)
(* the thread, or frees it if the thread was not started.                  *)
(*                                                                         *)
(* Parent and thread share the structure U.  Unlike elsewhere, functions   *)
(* of the pthread library may fail here, since the code handles that; a    *)
(* function that fails has no effect.  failed tells which ones have, so    *)
(* that the properties can say which failures they withstand.              *)
(***************************************************************************)
EXTENDS Naturals

VARIABLES
    ppc,        \* where the parent is
    cpc,        \* where the thread is
    U,          \* "none", "alive" or "freed"
    mutex,      \* who holds U->mutex
    running,    \* U->running
    rc_sync,    \* U->rc_sync # 0
    cancel,     \* the thread was cancelled
    ran,        \* start_routine was called
    frees,      \* how often arg was freed
    failed      \* the functions that have failed

vars == <<ppc, cpc, U, mutex, running, rc_sync, cancel, ran, frees, failed>>

Init ==
    /\ ppc = "start"
    /\ cpc = "none"
    /\ U = "none"
    /\ mutex = "none"
    /\ running = FALSE
    /\ rc_sync = FALSE
    /\ cancel = FALSE
    /\ ran = FALSE
    /\ frees = 0
    /\ failed = {}

Fails(f) == failed' = failed \cup {f}

-----------------------------------------------------------------------------
(* The thread                                                              *)

wrapped_thread_lock ==
    /\ cpc = "lock"
    /\ \/ mutex = "none" /\ mutex' = "thread" /\ cpc' = "signal" /\ UNCHANGED failed
       \/ Fails("lock") /\ cpc' = "err1" /\ UNCHANGED mutex
    /\ UNCHANGED <<ppc, U, running, rc_sync, cancel, ran, frees>>

(* Mutant: the parent is not woken up.                                     *)
wrapped_thread_signal_none ==
    /\ cpc = "signal"
    /\ running' = TRUE
    /\ cpc' = "unlock"
    /\ UNCHANGED <<ppc, U, mutex, rc_sync, cancel, ran, frees, failed>>

(* A signal wakes up the parent, if it waits; it must lock the mutex then. *)
wrapped_thread_signal ==
    /\ cpc = "signal"
    /\ running' = TRUE
    /\ \/ /\ ppc' = IF ppc = "wait" THEN "woken" ELSE ppc
          /\ cpc' = "unlock"
          /\ UNCHANGED <<mutex, failed>>
       \/ /\ Fails("signal")
          /\ cpc' = "err1"
          /\ \/ mutex' = "none"
             \/ UNCHANGED mutex
          /\ UNCHANGED ppc
    /\ UNCHANGED <<U, rc_sync, cancel, ran, frees>>

wrapped_thread_unlock ==
    /\ cpc = "unlock"
    /\ \/ mutex' = "none" /\ cpc' = "run" /\ UNCHANGED failed
       \/ Fails("unlock") /\ cpc' = "err1" /\ UNCHANGED mutex
    /\ UNCHANGED <<ppc, U, running, rc_sync, cancel, ran, frees>>

wrapped_thread_err1 ==
    /\ cpc = "err1"
    /\ rc_sync' = TRUE
    /\ cpc' = "ended"
    /\ UNCHANGED <<ppc, U, mutex, running, cancel, ran, frees, failed>>

(* start_routine is called with a copy of the pointer arg.  It runs until  *)
(* its input ends or it notices that it was cancelled, and then frees arg. *)
start_routine ==
    /\ \/ cpc = "run" /\ ran' = TRUE /\ cpc' = "routine" /\ UNCHANGED frees
       \/ cpc = "routine" /\ cpc' = "ended" /\ frees' = frees + 1 /\ UNCHANGED ran
    /\ UNCHANGED <<ppc, U, mutex, running, rc_sync, cancel, failed>>

-----------------------------------------------------------------------------
(* The parent                                                              *)

(* U is allocated and initialized, the mutex locked and the thread         *)
(* created, or everything undone.                                          *)
pthread_create ==
    /\ ppc = "start"
    /\ \/ /\ ppc' = "loop" /\ cpc' = "lock"
          /\ U' = "alive" /\ mutex' = "parent"
       \/ /\ ppc' = "error"
          /\ UNCHANGED <<cpc, U, mutex>>
    /\ UNCHANGED <<running, rc_sync, cancel, ran, frees, failed>>

(* The loop: wait while the thread is not running.  The wait may also end  *)
(* for no reason.                                                          *)
pthread_cond_wait ==
    /\ \/ ppc = "loop" /\ ~running /\ ppc' = "wait" /\ mutex' = "none" /\ UNCHANGED failed
       \/ ppc = "loop" /\ ~running /\ Fails("wait") /\ ppc' = "err5" /\ UNCHANGED mutex
       \/ ppc = "wait" /\ ppc' = "woken" /\ UNCHANGED <<mutex, failed>>
       \/ /\ ppc = "woken" /\ mutex = "none"
          /\ mutex' = "parent"
          /\ ppc' = IF rc_sync THEN "err5" ELSE "loop"
          /\ UNCHANGED failed
       \/ ppc = "loop" /\ running /\ ppc' = "unlock" /\ UNCHANGED <<mutex, failed>>
    /\ UNCHANGED <<cpc, U, running, rc_sync, cancel, ran, frees>>

(* Mutant: an error in the clean-up is reported to the caller.             *)
pthread_mutex_unlock_error ==
    /\ ppc = "unlock"
    /\ \/ mutex' = "none" /\ ppc' = "success" /\ UNCHANGED failed
       \/ Fails("unlock") /\ ppc' = "error" /\ UNCHANGED mutex
    /\ U' = "freed"
    /\ UNCHANGED <<cpc, running, rc_sync, cancel, ran, frees>>

(* Success, whatever becomes of the synchronization variables.             *)
pthread_mutex_unlock ==
    /\ ppc = "unlock"
    /\ \/ mutex' = "none" /\ UNCHANGED failed
       \/ Fails("unlock") /\ UNCHANGED mutex
    /\ U' = "freed"
    /\ ppc' = "success"
    /\ UNCHANGED <<cpc, running, rc_sync, cancel, ran, frees>>

(* Unlock, cancel, wait for the thread, and undo everything.               *)
err5 ==
    /\ \/ /\ ppc = "err5"
          /\ \/ mutex' = "none" /\ UNCHANGED failed
             \/ Fails("unlock") /\ UNCHANGED mutex
          /\ cancel' = TRUE
          /\ ppc' = "join"
          /\ UNCHANGED U
       \/ /\ ppc = "join" /\ cpc = "ended"
          /\ U' = "freed"
          /\ ppc' = "error"
          /\ UNCHANGED <<mutex, cancel, failed>>
    /\ UNCHANGED <<cpc, running, rc_sync, ran, frees>>

(* pushbits returns; if the thread was not started it frees arg.           *)
pushbits ==
    /\ \/ ppc = "success" /\ ppc' = "returned_0" /\ UNCHANGED frees
       \/ ppc = "error" /\ ppc' = "returned_err" /\ frees' = frees + 1
    /\ UNCHANGED <<cpc, U, mutex, running, rc_sync, cancel, ran, failed>>

Child ==
    \/ wrapped_thread_lock
    \/ wrapped_thread_signal
    \/ wrapped_thread_unlock
    \/ wrapped_thread_err1
    \/ start_routine

Parent ==
    \/ pthread_create
    \/ pthread_cond_wait
    \/ pthread_mutex_unlock
    \/ err5
    \/ pushbits

Next == Child \/ Parent

Spec == Init /\ [][Next]_vars

-----------------------------------------------------------------------------
(* "U will not be valid after we signal the parent thread": the thread is  *)
(* done with U when the parent frees it, unless the signal failed.         *)
UIsValid ==
    U = "freed" /\ "signal" \notin failed => cpc \in {"run", "routine", "ended"}

(* The caller is told of success only when the thread is past its last     *)
(* error, and so runs start_routine; unless the signal failed.             *)
SuccessMeansStarted ==
    ppc \in {"success", "returned_0"} /\ "signal" \notin failed =>
        cpc \in {"run", "routine"} \/ (cpc = "ended" /\ ran)

(* "on failure the provided routine was not run"; unless pthread_cond_wait *)
(* has failed.                                                             *)
FailureMeansNotRun ==
    ppc \in {"error", "returned_err"} /\ "wait" \notin failed =>
        ~ran /\ cpc \in {"none", "ended"}

(* The structure handed over is freed by the thread or by pushbits, never  *)
(* by both and never while the thread uses it; unless pthread_cond_wait    *)
(* has failed.                                                             *)
ArgHasOneOwner ==
    "wait" \notin failed => frees <= 1 /\ (frees = 1 => cpc \in {"none", "ended"})

(* What the caller may rely on, and under which failures: all four.        *)
CreateIsSafe == UIsValid /\ SuccessMeansStarted /\ FailureMeansNotRun /\ ArgHasOneOwner

(* The call returns, unless the thread's own locking or signalling failed. *)
CallReturns ==
    <>(ppc \in {"returned_0", "returned_err"} \/ failed \cap {"lock", "signal", "unlock"} # {})
=============================================================================
