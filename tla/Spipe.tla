-------------------------------- MODULE Spipe --------------------------------
(***************************************************************************)
(* The client process: spipe/main.c, spipe/pushbits.c and the part of      *)
(* lib/util/graceful_shutdown.c it uses.                                   *)
(*                                                                         *)
(* One connection of module Connection; thread 0 copies stdin to the       *)
(* connection, thread 1 copies the connection to stdout.  Direction "f" of *)
(* the connection ends when thread 0 has shut down its socket.  The main   *)
(* thread runs the event loop, and joins the two threads.                  *)
(***************************************************************************)
EXTENDS Naturals

VARIABLES
    cphase, ceof, creason,  \* the connection
    at,                  \* where main is
    cloop,               \* "run", or "error" after a callback returned -1
    et_conndone, connection_error, stopped,  \* struct events_threads
    thr,                 \* the threads
    cancelled,           \* the threads that were cancelled
    after,               \* what the caller of callback_graceful_shutdown returns
    gs_timer_cookie,     \* graceful_shutdown's timer is running
    gs_should_shutdown,  \* graceful_shutdown's flag
    gs_handler,          \* graceful_shutdown_handler is installed
    initialized,         \* graceful_shutdown_initialize was called
    sigterm,             \* SIGTERM was received
    code                 \* exit status

convars == <<cphase, ceof, creason>>
etvars == <<et_conndone, connection_error, stopped>>
gsvars == <<gs_timer_cookie, gs_should_shutdown, gs_handler, initialized, sigterm>>
thrvars == <<thr, cancelled>>
vars == <<convars, at, cloop, etvars, thrvars, after, gsvars, code>>

conn == "conn"
C ==
    INSTANCE Connection
    WITH Conn <- {conn}, phase <- cphase, eof <- ceof, reason <- creason

Thread == {0, 1}

(* "killed": SIGTERM had its default effect.  "joined_twice" and "dropped  *)
(* twice": what happens next is not defined.  "assert": an assert failed.  *)
Ended == at \in {"exit", "killed", "joined_twice", "dropped_twice", "assert"}

Init ==
    /\ C!Init
    /\ at = "setup"
    /\ cloop = "run"
    /\ et_conndone = FALSE /\ connection_error = FALSE /\ stopped = FALSE
    /\ thr = [i \in Thread |-> "none"]
    /\ cancelled = {}
    /\ after = 0
    /\ gs_timer_cookie = FALSE /\ gs_should_shutdown = FALSE
    /\ gs_handler = FALSE /\ initialized = FALSE /\ sigterm = FALSE
    /\ code = 0

-----------------------------------------------------------------------------
(* pushbits.c                                                              *)

(* Thread 0 meets the end of stdin whenever it likes; thread 1 the end of  *)
(* what the connection has for it.  The cleanup function shuts down the    *)
(* socket written to.                                                      *)
workthread_eof(i) ==
    /\ ~Ended
    /\ thr[i] = "running"
    /\ i = 1 => "r" \in ceof[conn] \/ cphase[conn] = "dead"
    /\ thr' = [thr EXCEPT ![i] = "ended"]
    /\ UNCHANGED <<convars, at, cloop, etvars, cancelled, after, gsvars, code>>

(* A cancelled thread ends at its next read or write, even a blocked one.  *)
workthread_cleanup(i) ==
    /\ ~Ended
    /\ thr[i] = "running"
    /\ i \in cancelled
    /\ thr' = [thr EXCEPT ![i] = "ended"]
    /\ UNCHANGED <<convars, at, cloop, etvars, cancelled, after, gsvars, code>>

(* Reading or writing fails: the process exits.                            *)
workthread_fails(i) ==
    /\ ~Ended
    /\ thr[i] = "running"
    /\ at' = "exit"
    /\ code' = 1
    /\ UNCHANGED <<convars, cloop, etvars, thrvars, after, gsvars>>

(* The thread runs when pushbits returns.                                  *)
pushbits(i) == thr' = [thr EXCEPT ![i] = "running"]

-----------------------------------------------------------------------------
(* The callbacks of main.c, and their callers in graceful_shutdown.c       *)

Running == at = "spin" /\ cloop = "run"

(* Mutant: the threads are waited for but not cancelled.                   *)
callback_graceful_shutdown_wait(rc) ==
    /\ at' = IF \E i \in Thread : thr[i] = "joined" THEN "joined_twice" ELSE "begin0"
    /\ after' = rc
    /\ UNCHANGED <<et_conndone, stopped, gs_handler, cloop, thr, cancelled>>

(* callback_graceful_shutdown cancels the threads, then waits for them.    *)
(* rc is what its caller will return to the event loop.  To cancel or join *)
(* a thread that was joined has no defined effect.                         *)
callback_graceful_shutdown(rc) ==
    /\ at' = IF \E i \in Thread : thr[i] = "joined" THEN "joined_twice" ELSE "begin0"
    /\ cancelled' = Thread
    /\ after' = rc
    /\ UNCHANGED <<et_conndone, stopped, gs_handler, cloop, thr>>

(* graceful_shutdown calls it for the flag it has just set.                *)
graceful_shutdown_manual(rc) ==
    /\ gs_timer_cookie' = FALSE
    /\ gs_should_shutdown' = TRUE
    /\ IF initialized THEN callback_graceful_shutdown(rc)
       ELSE at' = "assert" /\ UNCHANGED <<et_conndone, stopped, gs_handler, cloop, thrvars, after>>

Failure == {"CONNECT_FAILED", "HANDSHAKE_FAILED", "ERROR"}

(* Mutant: the error is not remembered.                                    *)
callback_conndied_forget(why, rc, next) ==
    /\ UNCHANGED connection_error
    /\ IF why \in Failure THEN graceful_shutdown_manual(rc)
       ELSE /\ et_conndone' = TRUE
            /\ cloop' = IF rc = 0 THEN cloop ELSE "error"
            /\ at' = next
            /\ UNCHANGED <<stopped, thrvars, after, gs_timer_cookie, gs_should_shutdown, gs_handler>>

(* The connection is dead; rc goes to the event loop in the end, and main  *)
(* goes on at next.                                                        *)
callback_conndied(why, rc, next) ==
    /\ connection_error' = (connection_error \/ why \in Failure)
    /\ IF connection_error' THEN graceful_shutdown_manual(rc)
       ELSE /\ et_conndone' = TRUE
            /\ cloop' = IF rc = 0 THEN cloop ELSE "error"
            /\ at' = next
            /\ UNCHANGED <<stopped, thrvars, after, gs_timer_cookie, gs_should_shutdown, gs_handler>>

(* The connection gets further.                                            *)
Readable(d) == d = "f" => thr[0] \in {"ended", "joined"}

ConnectionMoves ==
    /\ Running
    /\ C!Establish(conn) \/ \E d \in C!Direction : Readable(d) /\ C!HalfClose(conn, d)
    /\ UNCHANGED <<at, cloop, etvars, thrvars, after, gsvars, code>>

ConnectionCloses ==
    /\ Running
    /\ \A d \in C!Direction \ ceof[conn] : Readable(d)
    /\ C!Close(conn)
    /\ callback_conndied("CLOSED", 0, "spin")
    /\ UNCHANGED <<initialized, sigterm, code>>

(* Where proto_conn fails in a callback of its own it returns -1 as well.  *)
ConnectionFails ==
    /\ Running
    /\ \E why \in Failure, rc \in {0, 1} :
          /\ rc = 1 => why = "ERROR"
          /\ C!Die(conn, why)
          /\ callback_conndied(why, rc, "spin")
    /\ UNCHANGED <<initialized, sigterm, code>>

(* The event loop itself fails, or the timer cannot be started again.      *)
EventsFail ==
    /\ Running
    /\ cloop' = "error"
    /\ gs_timer_cookie' \in {FALSE, gs_timer_cookie}
    /\ UNCHANGED <<convars, at, etvars, thrvars, after, gs_should_shutdown, gs_handler,
                   initialized, sigterm, code>>

(* The timer expires after SIGTERM; otherwise it is started again.         *)
graceful_shutdown ==
    /\ Running
    /\ gs_timer_cookie
    /\ gs_should_shutdown
    /\ gs_timer_cookie' = FALSE
    /\ callback_graceful_shutdown(0)
    /\ UNCHANGED <<convars, connection_error, gs_should_shutdown, initialized, sigterm, code>>

graceful_shutdown_handler ==
    /\ ~Ended
    /\ sigterm' = TRUE
    /\ IF gs_handler THEN gs_should_shutdown' = TRUE /\ UNCHANGED at
       ELSE at' = "killed" /\ UNCHANGED gs_should_shutdown
    /\ UNCHANGED <<convars, cloop, etvars, thrvars, after, gs_timer_cookie, gs_handler,
                   initialized, code>>

-----------------------------------------------------------------------------
(* main                                                                    *)

(* What main does until the event loop runs: each step may fail, and the   *)
(* first ones (the options, the addresses, the key, the socket pair) leave *)
(* nothing to undo here.                                                   *)
setup ==
    /\ at = "setup"
    /\ \/ at' = "create" /\ UNCHANGED code
       \/ at' = "exit" /\ code' = 1
    /\ UNCHANGED <<convars, cloop, etvars, thrvars, after, gsvars>>

proto_conn_create ==
    /\ at = "create"
    /\ \/ C!Begin(conn) /\ at' = "push1" /\ UNCHANGED code
       \/ C!Refuse(conn) /\ at' = "exit" /\ code' = 1
    /\ UNCHANGED <<cloop, etvars, thrvars, after, gsvars>>

push ==
    /\ \/ at = "push1" /\ pushbits(1) /\ at' = "push0"
       \/ at = "push0" /\ pushbits(0) /\ at' = "init"
       \/ at = "push1" /\ at' = "err5" /\ UNCHANGED thr
       \/ at = "push0" /\ at' = "err6" /\ UNCHANGED thr
    /\ UNCHANGED <<convars, cloop, etvars, cancelled, after, gsvars, code>>

graceful_shutdown_initialize ==
    /\ at = "init"
    /\ initialized' = TRUE
    /\ gs_handler' \in BOOLEAN
    /\ \/ gs_handler' /\ gs_timer_cookie' = TRUE /\ at' = "spin"
       \/ UNCHANGED gs_timer_cookie /\ at' = "err7"
    /\ UNCHANGED <<convars, cloop, etvars, thrvars, after, gs_should_shutdown, sigterm, code>>

events_spin_returns ==
    /\ at = "spin"
    /\ et_conndone \/ cloop = "error"
    /\ at' = CASE cloop = "error" -> "err5"
               [] cloop = "run" /\ stopped -> "cleanup"
               [] OTHER -> "join0"
    /\ UNCHANGED <<convars, cloop, etvars, thrvars, after, gsvars, code>>

(* err7 and err6 cancel a thread and wait for it.                          *)
CancelThread ==
    /\ \/ at = "err7" /\ cancelled' = cancelled \cup {0} /\ at' = "err7_join"
       \/ at = "err6" /\ cancelled' = cancelled \cup {1} /\ at' = "err6_join"
    /\ UNCHANGED <<convars, cloop, etvars, thr, after, gsvars, code>>

Join(i, from, to) ==
    /\ at = from
    /\ thr[i] = "ended"
    /\ thr' = [thr EXCEPT ![i] = "joined"]
    /\ at' = to

(* The places where main waits for a thread; callback_graceful_shutdown    *)
(* and its callers return after the second.                                *)
pthread_join ==
    /\ \/ /\ \/ Join(0, "begin0", "begin1")
             \/ Join(0, "join0", "join1")
             \/ Join(1, "join1", "cleanup")
             \/ Join(0, "err7_join", "err6")
             \/ Join(1, "err6_join", "err5")
          /\ UNCHANGED <<stopped, et_conndone, gs_handler, cloop>>
       \/ /\ Join(1, "begin1", "spin")
          /\ stopped' = TRUE
          /\ et_conndone' = TRUE
          /\ gs_handler' = FALSE
          /\ cloop' = IF after = 0 THEN cloop ELSE "error"
    /\ UNCHANGED <<convars, connection_error, cancelled, after, gs_timer_cookie,
                   gs_should_shutdown, initialized, sigterm, code>>

(* err5: to drop a connection that has died has no defined effect.         *)
err5 ==
    /\ at = "err5"
    /\ \/ /\ cphase[conn] = "dead"
          /\ at' = "dropped_twice"
          /\ UNCHANGED <<convars, etvars, thrvars, after, cloop, gs_timer_cookie,
                         gs_should_shutdown, gs_handler, code>>
       \/ /\ C!Die(conn, "CANCELLED")
          /\ callback_conndied("CANCELLED", 0, "exit")
          /\ code' = 1
    /\ UNCHANGED <<initialized, sigterm>>

exit ==
    /\ at = "cleanup"
    /\ at' = "exit"
    /\ code' = IF connection_error THEN 1 ELSE 0
    /\ gs_timer_cookie' = FALSE
    /\ UNCHANGED <<convars, cloop, etvars, thrvars, after, gs_should_shutdown, gs_handler,
                   initialized, sigterm>>

MainNext ==
    \/ setup
    \/ proto_conn_create
    \/ push
    \/ graceful_shutdown_initialize
    \/ events_spin_returns
    \/ CancelThread
    \/ pthread_join
    \/ err5
    \/ exit

Next ==
    \/ MainNext
    \/ ConnectionMoves
    \/ ConnectionCloses
    \/ ConnectionFails
    \/ EventsFail
    \/ graceful_shutdown
    \/ graceful_shutdown_handler
    \/ \E i \in Thread : workthread_eof(i) \/ workthread_cleanup(i) \/ workthread_fails(i)

(* The main thread runs, its timer expires, cancelled threads end, and     *)
(* somebody takes what is written to stdout.  Stdin need not end.          *)
Fairness ==
    /\ WF_vars(MainNext)
    /\ WF_vars(graceful_shutdown)
    /\ WF_vars(workthread_eof(1))
    /\ \A i \in Thread : WF_vars(workthread_cleanup(i))

Spec == Init /\ [][Next]_vars

-----------------------------------------------------------------------------
(* graceful_shutdown_manual asserts that it has been initialized: however  *)
(* set-up fails, the connection is not dropped in a way that calls it.     *)
ManualIsInitialized == at # "assert"

(* spipe exits with status 0 only after the connection was closed by both  *)
(* sides or SIGTERM came, and not after a connection error.                *)
StatusIsRight ==
    at = "exit" /\ code = 0 =>
        ~connection_error /\ creason[conn] \notin Failure
            /\ (creason[conn] = "CLOSED" \/ sigterm)

(* Without SIGTERM nothing is cut short: a successful spipe exits after    *)
(* both threads have ended by themselves, with all data copied.            *)
NothingCutShort ==
    at = "exit" /\ code = 0 /\ ~sigterm =>
        cancelled = {} /\ \A i \in Thread : thr[i] = "joined"

(* The three together: however spipe leaves, it is what it seems.          *)
ClientExitsRight == ManualIsInitialized /\ StatusIsRight /\ NothingCutShort

(* When the connection is dead spipe exits, although stdin may be open and *)
(* thread 0 waiting for it; and SIGTERM ends it whatever its threads are   *)
(* doing.                                                                  *)
ClientEnds ==
    /\ cphase[conn] = "dead" ~> Ended
    /\ sigterm ~> Ended

(* "a Thread ID should still be valid ... if pthread_join() has not yet    *)
(* been called": the threads are cancelled and joined once.                *)
ThreadsJoinedOnce == at # "joined_twice"

(* proto_conn_drop frees the connection; it is called once.                *)
ConnectionDroppedOnce == at # "dropped_twice"
=============================================================================
