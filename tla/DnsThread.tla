------------------------------ MODULE DnsThread ------------------------------
(***************************************************************************)
(* The resolver thread: lib/dnsthread/dnsthread.c.                         *)
(*                                                                         *)
(* Two threads share the structure T: the main thread, which runs the      *)
(* event loop, and the worker.  A step of the model is what a thread does  *)
(* between two operations on the mutex, the condition variable or the      *)
(* wakeup sockets.  The functions of the pthread library do not fail; the  *)
(* code ends the process if they do.                                       *)
(***************************************************************************)
EXTENDS Naturals

CONSTANTS
    Request,    \* the requests that may ever be made; also, their results
    NULL,
    Users       \* the kinds of callers considered, out of User

(* A "timer" caller makes its next request after the answer to the last    *)
(* one, and kills the thread after its event loop has ended: dispatch.c.   *)
(* A "once" caller is dnsthread_resolve: one request, and the callback     *)
(* kills the thread.  An "eager" caller makes requests whenever it likes.  *)
User == {"timer", "once", "eager"}

ASSUME RequestAssumption == NULL \notin Request /\ Users \subseteq User

VARIABLES
    user,       \* who uses the thread
    mpc,        \* where the main thread is
    wpc,        \* where the worker is
    mtx,        \* who holds T->mtx
    T,          \* "none", "alive" or "freed"
    state,      \* T->state
    addr,       \* T->addr; NULL if there is none, or it was freed
    cb,         \* T->callback and T->cookie
    sas,        \* T->sas
    work,       \* the worker's addr
    result,     \* the worker's sas
    wakeups,    \* bytes in the wakeup sockets
    registered, \* callback_resolveone is registered for the wakeup socket
    status      \* what became of each request

local == <<work, result>>
shared == <<mtx, T, state, addr, cb, sas>>
dnsthreadvars == <<user, mpc, wpc, shared, local, wakeups, registered, status>>

DnsInit ==
    /\ user \in Users
    /\ mpc = "spawn"
    /\ wpc = "none"
    /\ mtx = "none"
    /\ T = "none"
    /\ state = "SLEEPING"
    /\ addr = NULL /\ cb = NULL /\ sas = NULL
    /\ work = NULL /\ result = NULL
    /\ wakeups = 0
    /\ registered = FALSE
    /\ status = [r \in Request |-> "new"]

-----------------------------------------------------------------------------
(* The worker                                                              *)

workthread_lock ==
    /\ wpc \in {"start", "woken"}
    /\ mtx = "none"
    /\ mtx' = "worker"
    /\ wpc' = "loop"
    /\ UNCHANGED <<user, mpc, T, state, addr, cb, sas, local, wakeups, registered, status>>

(* pthread_cond_wait releases the mutex and waits, in one step.            *)
workthread_wait ==
    /\ wpc = "loop"
    /\ state = "SLEEPING"
    /\ mtx' = "none"
    /\ wpc' = "waiting"
    /\ UNCHANGED <<user, mpc, T, state, addr, cb, sas, local, wakeups, registered, status>>

(* It may return although nobody has signalled.                            *)
spurious_wakeup ==
    /\ wpc = "waiting"
    /\ wpc' = "woken"
    /\ UNCHANGED <<user, mpc, shared, local, wakeups, registered, status>>

workthread_grab ==
    /\ wpc = "loop"
    /\ state = "HASWORK"
    /\ work' = addr
    /\ mtx' = "none"
    /\ wpc' = "resolve"
    /\ UNCHANGED <<user, mpc, T, state, addr, cb, sas, result, wakeups, registered, status>>

(* Mutant: a failed lookup leaves the last result in place.                *)
workthread_resolve_stale ==
    /\ wpc = "resolve"
    /\ result' \in {work, result}
    /\ wpc' = "relock"
    /\ UNCHANGED <<user, mpc, shared, work, wakeups, registered, status>>

(* sock_resolve finds the addresses or fails.                              *)
workthread_resolve ==
    /\ wpc = "resolve"
    /\ result' \in {work, NULL}
    /\ wpc' = "relock"
    /\ UNCHANGED <<user, mpc, shared, work, wakeups, registered, status>>

(* Mutant: no completion message is sent.                                  *)
workthread_answer_silent ==
    /\ wpc = "relock"
    /\ mtx = "none"
    /\ mtx' = "worker"
    /\ sas' = result
    /\ wpc' = "answered"
    /\ UNCHANGED <<user, mpc, T, state, addr, cb, local, wakeups, registered, status>>

(* The answer is written back, and a completion message is sent; the mutex *)
(* is held until the worker sleeps again.                                  *)
workthread_answer ==
    /\ wpc = "relock"
    /\ mtx = "none"
    /\ mtx' = "worker"
    /\ sas' = result
    /\ wakeups' = wakeups + 1
    /\ wpc' = "answered"
    /\ UNCHANGED <<user, mpc, T, state, addr, cb, local, registered, status>>

workthread_sleep ==
    /\ wpc = "answered"
    /\ state' = IF state # "SUICIDE" THEN "SLEEPING" ELSE state
    /\ wpc' = "loop"
    /\ UNCHANGED <<user, mpc, mtx, T, addr, cb, sas, local, wakeups, registered, status>>

(* Mutant: a wakeup without work is taken for an instruction to die.       *)
workthread_die_spurious ==
    /\ wpc = "loop"
    /\ state # "HASWORK"
    /\ mtx' = "none"
    /\ wakeups' = 0
    /\ wpc' = "dying"
    /\ UNCHANGED <<user, mpc, T, state, addr, cb, sas, local, registered, status>>

(* The worker leaves its loop, closes the sockets, destroys the condition  *)
(* variable and releases the mutex,                                        *)
workthread_die ==
    /\ wpc = "loop"
    /\ state = "SUICIDE"
    /\ mtx' = "none"
    /\ wakeups' = 0
    /\ wpc' = "dying"
    /\ UNCHANGED <<user, mpc, T, state, addr, cb, sas, local, registered, status>>

(* destroys the mutex and frees T.                                         *)
workthread_free ==
    /\ wpc = "dying"
    /\ T' = "freed"
    /\ wpc' = "dead"
    /\ UNCHANGED <<user, mpc, mtx, state, addr, cb, sas, local, wakeups, registered, status>>

Worker ==
    \/ workthread_lock
    \/ workthread_wait
    \/ workthread_grab
    \/ workthread_resolve
    \/ workthread_answer
    \/ workthread_sleep
    \/ workthread_die
    \/ workthread_free

-----------------------------------------------------------------------------
(* The main thread                                                         *)

pthread_cond_signal == wpc' = IF wpc = "waiting" THEN "woken" ELSE wpc

(* The thread is created with the mutex held, or not at all.               *)
dnsthread_spawn ==
    /\ mpc = "spawn"
    /\ \/ /\ T' = "alive"
          /\ mtx' = "main"
          /\ wpc' = "start"
          /\ mpc' = "spawned"
       \/ /\ mpc' = "gone"
          /\ UNCHANGED <<T, mtx, wpc>>
    /\ UNCHANGED <<user, state, addr, cb, sas, local, wakeups, registered, status>>

dnsthread_spawn_unlock ==
    /\ mpc = "spawned"
    /\ mtx' = "none"
    /\ mpc' = "idle"
    /\ UNCHANGED <<user, wpc, T, state, addr, cb, sas, local, wakeups, registered, status>>

(* The caller makes request r.  The mutex is held from here to the return. *)
MayAsk(r) ==
    /\ mpc = "idle"
    /\ mtx = "none"
    /\ status[r] = "new"
    /\ user = "timer" => \A q \in Request : status[q] # "asked"
    /\ user = "once" => \A q \in Request : status[q] = "new"

(* What a caller does when dnsthread_resolveone has failed: a callback of  *)
(* dispatch.c returns -1 and the loop ends; dnsthread_resolve kills.       *)
AfterFailure == mpc' = IF user = "eager" THEN "idle" ELSE "kill"

dnsthread_resolveone_ealready(r) ==
    /\ MayAsk(r)
    /\ state = "HASWORK"
    /\ status' = [status EXCEPT ![r] = "refused"]
    /\ UNCHANGED <<user, mpc, wpc, shared, local, wakeups, registered>>

(* strdup fails.                                                           *)
dnsthread_resolveone_strdup(r) ==
    /\ MayAsk(r)
    /\ state # "HASWORK"
    /\ addr' = NULL
    /\ status' = [status EXCEPT ![r] = "refused"]
    /\ AfterFailure
    /\ UNCHANGED <<user, wpc, mtx, T, state, cb, sas, local, wakeups, registered>>

(* Registering the event fails if it is registered already, or for want of *)
(* memory; the worker is not told, and does the work.                      *)
dnsthread_resolveone(r) ==
    /\ MayAsk(r)
    /\ state # "HASWORK"
    /\ addr' = r /\ cb' = r
    /\ state' = "HASWORK"
    /\ pthread_cond_signal
    /\ \/ /\ ~registered
          /\ registered' = TRUE
          /\ status' = [status EXCEPT ![r] = "asked"]
          /\ UNCHANGED mpc
       \/ /\ status' = [status EXCEPT ![r] = "refused"]
          /\ AfterFailure
          /\ UNCHANGED registered
    /\ UNCHANGED <<user, mtx, T, sas, local, wakeups>>

(* The event loop sees the byte; it is drained before the mutex is locked. *)
callback_resolveone_drain ==
    /\ mpc = "idle"
    /\ registered /\ wakeups > 0
    /\ registered' = FALSE
    /\ wakeups' = wakeups - 1
    /\ mpc' = "callback"
    /\ UNCHANGED <<user, wpc, shared, local, status>>

(* The address is freed, and the callback is called with the result.       *)
callback_resolveone ==
    /\ mpc = "callback"
    /\ mtx = "none"
    /\ addr' = NULL
    /\ status' = [status EXCEPT ![cb] =
                     IF @ = "asked" /\ sas \in {cb, NULL} THEN "answered" ELSE "wrong"]
    /\ mpc' = IF user = "once" THEN "kill" ELSE "idle"
    /\ UNCHANGED <<user, wpc, mtx, T, state, cb, sas, local, wakeups, registered>>

(* Callers other than dnsthread_resolve kill the thread when their event   *)
(* loop has ended, at any time.                                            *)
dnsthread_kill ==
    /\ mpc = "kill" \/ (mpc = "idle" /\ user # "once")
    /\ mtx = "none"
    /\ state' = "SUICIDE"
    /\ pthread_cond_signal
    /\ mpc' = IF state = "SLEEPING" THEN "join" ELSE "gone"
    /\ UNCHANGED <<user, mtx, T, addr, cb, sas, local, wakeups, registered, status>>

pthread_join ==
    /\ mpc = "join"
    /\ wpc = "dead"
    /\ mpc' = "gone"
    /\ UNCHANGED <<user, wpc, shared, local, wakeups, registered, status>>

MainReturns ==
    \/ dnsthread_spawn
    \/ dnsthread_spawn_unlock
    \/ callback_resolveone_drain
    \/ callback_resolveone
    \/ pthread_join
    \/ mpc = "kill" /\ dnsthread_kill

DnsNext ==
    \/ Worker
    \/ spurious_wakeup
    \/ MainReturns
    \/ \E r \in Request : \/ dnsthread_resolveone(r)
                          \/ dnsthread_resolveone_ealready(r)
                          \/ dnsthread_resolveone_strdup(r)
    \/ dnsthread_kill

DnsSpec == DnsInit /\ [][DnsNext]_dnsthreadvars

(* Both threads run; the mutex is given to a thread that keeps asking for  *)
(* it; names are resolved or not, but not forever.  Callers need not make  *)
(* requests nor end their event loop.                                      *)
DnsFairness ==
    /\ WF_dnsthreadvars(MainReturns) /\ SF_dnsthreadvars(callback_resolveone)
    /\ WF_dnsthreadvars(Worker) /\ SF_dnsthreadvars(workthread_lock) /\ SF_dnsthreadvars(workthread_answer)

-----------------------------------------------------------------------------
DnsTypeOK ==
    /\ user \in User
    /\ mpc \in {"spawn", "spawned", "idle", "callback", "kill", "join", "gone"}
    /\ wpc \in {"none", "start", "loop", "waiting", "woken", "resolve", "relock",
                "answered", "dying", "dead"}
    /\ mtx \in {"none", "main", "worker"}
    /\ T \in {"none", "alive", "freed"}
    /\ state \in {"SLEEPING", "HASWORK", "SUICIDE"}
    /\ addr \in Request \cup {NULL} /\ cb \in Request \cup {NULL}
    /\ sas \in Request \cup {NULL}
    /\ work \in Request \cup {NULL} /\ result \in Request \cup {NULL}
    /\ wakeups \in Nat
    /\ registered \in BOOLEAN
    /\ status \in [Request -> {"new", "asked", "refused", "answered", "wrong"}]

(* The main thread is at a place from which it will use T: a callback is   *)
(* running, or will when the event loop sees the wakeup socket, or the     *)
(* thread is still to be killed.                                           *)
UsesT == mpc \in {"spawned", "idle", "callback", "kill"}

(* The worker frees T, and destroys its mutex, only when the main thread   *)
(* will never again use it, and the worker has left it as well: whether    *)
(* dnsthread_kill found the worker asleep, at work, or on its way back.    *)
NoUseAfterFree ==
    wpc \in {"dying", "dead"} => ~UsesT /\ mtx = "none" /\ (T = "freed" <=> wpc = "dead")

(* The worker waits on the condition variable only while there is nothing  *)
(* to do: no request and no instruction to die is missed.                  *)
NoLostWakeup == wpc = "waiting" => state = "SLEEPING"

(* Both, for any caller: what the threads share outlives its last use, and *)
(* nothing said to the worker is slept through.                            *)
SharingIsSafe == NoUseAfterFree /\ NoLostWakeup

(* A callback is called only for a request that was accepted, once, and    *)
(* with the result for that request, not a stale or foreign one.           *)
OwnAnswer == \A r \in Request : status[r] # "wrong"

(* callback_resolveone does not free the address the worker is using.      *)
AddressIsKept == wpc = "resolve" => addr = work /\ addr # NULL

(* When callback_resolveone gets the mutex the worker has returned to      *)
(* sleep, although the byte that woke up the main thread is sent before:   *)
(* a callback may make the next request, and is not told EALREADY.         *)
CallbackMayAskAgain == mpc = "callback" /\ mtx = "none" => state = "SLEEPING"

(* The three together, for the callers of this code base: they wait for    *)
(* the answer before they make the next request.                           *)
AnswersAreRight ==
    user # "eager" => OwnAnswer /\ AddressIsKept /\ CallbackMayAskAgain

(* Nobody waits for ever: a thread that is told to die does, and then      *)
(* nobody waits for it; and the request of a caller that waits is answered *)
(* unless the thread is killed.                                            *)
ThreadMakesProgress ==
    /\ state = "SUICIDE" ~> (T = "freed" /\ mpc = "gone")
    /\ \A r \in Request :
          (status[r] = "asked" /\ user # "eager")
              ~> (status[r] = "answered" \/ state = "SUICIDE")
=============================================================================
