------------------------------ MODULE Dispatch ------------------------------
(***************************************************************************)
(* The server process: spiped/dispatch.c, the part of spiped/main.c that   *)
(* starts, runs and ends it, network/network_accept.c and                  *)
(* lib/util/graceful_shutdown.c.                                           *)
(*                                                                         *)
(* Connections are those of module Connection, which ProtoConn implements: *)
(* phase[i] tells what connection i is doing, and when it dies             *)
(* callback_conndied runs.  The resolver thread is module DnsThread; here  *)
(* only the lookup that is under way counts.                               *)
(***************************************************************************)
EXTENDS Integers, FiniteSets

CONSTANTS
    Conn,       \* the connections that may ever be accepted
    nconn_max   \* limit on connections at a time

ASSUME MaxAssumption == nconn_max \in Nat /\ IsFiniteSet(Conn)

VARIABLES
    phase, eof, reason,  \* the connections
    nconn,               \* A->nconn
    conn_cookies,        \* the connections in the list A->conn_cookies
    accept_cookie,       \* an accept is in progress
    shutdown_requested,  \* A->shutdown_requested
    rtime,               \* the target is resolved again from time to time
    dnstimer_cookie,     \* the timer for the next lookup is running
    lookup,              \* a lookup is under way
    conndone,            \* main's conndone
    timer_cookie,        \* graceful_shutdown's timer is running
    should_shutdown,     \* SIGTERM was received
    handler,             \* graceful_shutdown_handler is installed
    stage,               \* how far main is
    loop,                \* "run", or "error" after a callback returned -1
    owner,               \* who has to release s and sas
    released             \* how often they were released

convars == <<phase, eof, reason>>
dnsvars == <<rtime, dnstimer_cookie, lookup>>
gsvars == <<timer_cookie, should_shutdown, handler>>
vars == <<convars, nconn, conn_cookies, accept_cookie, shutdown_requested,
          dnsvars, conndone, gsvars, stage, loop, owner, released>>

C == INSTANCE Connection

Init ==
    /\ C!Init
    /\ nconn = 0
    /\ conn_cookies = {}
    /\ accept_cookie = FALSE
    /\ shutdown_requested = FALSE
    /\ rtime \in BOOLEAN
    /\ dnstimer_cookie = FALSE
    /\ lookup = FALSE
    /\ conndone = FALSE
    /\ timer_cookie = FALSE
    /\ should_shutdown = FALSE
    /\ handler = FALSE
    /\ stage = "start"
    /\ loop = "run"
    /\ owner = "main"
    /\ released = 0

(* The event loop is running callbacks.  It goes on until events_spin sees *)
(* conndone, which it looks at only between rounds.                        *)
Running == stage = "spin" /\ loop = "run"

(* A callback hands rc to the event loop.                                  *)
Returns(rc) == loop' = IF rc = 0 THEN loop ELSE "error"

-----------------------------------------------------------------------------
(* dispatch.c                                                              *)

(* The conditions of doaccept.                                             *)
MayAccept(n, ac) == n < nconn_max /\ ~ac /\ ~shutdown_requested

(* doaccept with n connections, accept_cookie being ac; rc is its result.  *)
doaccept(n, ac, rc) ==
    \/ MayAccept(n, ac) /\ accept_cookie' = (rc = 0)
    \/ ~MayAccept(n, ac) /\ rc = 0 /\ accept_cookie' = ac

(* Mutant: no new accept when a connection has died.                       *)
callback_conndied_noaccept(i, rc) ==
    /\ nconn' = nconn - 1
    /\ conn_cookies' = conn_cookies \ {i}
    /\ conndone' = (conndone \/ (shutdown_requested /\ nconn' = 0))
    /\ rc = 0 /\ UNCHANGED accept_cookie

callback_conndied(i, rc) ==
    /\ nconn' = nconn - 1
    /\ conn_cookies' = conn_cookies \ {i}
    /\ conndone' = (conndone \/ (shutdown_requested /\ nconn' = 0))
    /\ doaccept(nconn', accept_cookie, rc)

(* accept has no connection to give after all; the event is registered     *)
(* again, or cannot be.                                                    *)
callback_accept_tryagain ==
    /\ Running
    /\ accept_cookie
    /\ loop' = "error"
    /\ UNCHANGED <<convars, nconn, conn_cookies, accept_cookie, shutdown_requested,
                   dnsvars, conndone, gsvars, stage, owner, released>>

(* accept fails, or the connection cannot be set up: callback_gotconn      *)
(* undoes what it has done and returns -1.                                 *)
callback_gotconn_fails ==
    /\ Running
    /\ accept_cookie
    /\ accept_cookie' = FALSE
    /\ loop' = "error"
    /\ UNCHANGED <<convars, nconn, conn_cookies, shutdown_requested,
                   dnsvars, conndone, gsvars, stage, owner, released>>

(* Mutant: a connection that was refused keeps being counted.              *)
callback_gotconn_count(i) ==
    /\ Running
    /\ accept_cookie
    /\ C!Create(i)
    /\ nconn' = nconn + 1
    /\ \/ /\ phase'[i] = "setup"
          /\ conn_cookies' = conn_cookies \cup {i}
          /\ \E rc \in {0, -1} : doaccept(nconn', FALSE, rc) /\ Returns(rc)
       \/ /\ phase'[i] = "refused"
          /\ accept_cookie' = FALSE
          /\ UNCHANGED conn_cookies
          /\ Returns(-1)
    /\ UNCHANGED <<shutdown_requested, dnsvars, conndone, gsvars, stage, owner, released>>

(* A connection is accepted and proto_conn_create is called for it.        *)
callback_gotconn(i) ==
    /\ Running
    /\ accept_cookie
    /\ C!Create(i)
    /\ \/ /\ phase'[i] = "setup"
          /\ nconn' = nconn + 1
          /\ conn_cookies' = conn_cookies \cup {i}
          /\ \E rc \in {0, -1} : doaccept(nconn', FALSE, rc) /\ Returns(rc)
       \/ /\ phase'[i] = "refused"
          /\ accept_cookie' = FALSE
          /\ UNCHANGED <<nconn, conn_cookies>>
          /\ Returns(-1)
    /\ UNCHANGED <<shutdown_requested, dnsvars, conndone, gsvars, stage, owner, released>>

(* A connection gets further.                                              *)
ConnectionMoves(i) ==
    /\ Running
    /\ C!Establish(i) \/ \E d \in C!Direction : C!HalfClose(i, d)
    /\ UNCHANGED <<nconn, conn_cookies, accept_cookie, shutdown_requested,
                   dnsvars, conndone, gsvars, stage, loop, owner, released>>

(* A connection dies.  After an error in a callback of its own it may hand *)
(* -1 to the event loop even if callback_conndied does not.                *)
ConnectionDies(i) ==
    /\ Running
    /\ \E rc \in {0, -1} :
          /\ callback_conndied(i, rc)
          /\ \/ C!Close(i) /\ Returns(rc)
             \/ \E why \in C!Reason \ {"CLOSED", "CANCELLED"} :
                   C!Die(i, why) /\ (Returns(rc) \/ (why = "ERROR" /\ Returns(-1)))
    /\ UNCHANGED <<shutdown_requested, dnsvars, gsvars, stage, owner, released>>

(* The timer starts a lookup; the lookup ends and starts the timer.        *)
callback_resolveagain ==
    /\ Running
    /\ dnstimer_cookie
    /\ dnstimer_cookie' = FALSE
    /\ \/ lookup' = TRUE /\ Returns(0)
       \/ UNCHANGED lookup /\ Returns(-1)
    /\ UNCHANGED <<convars, nconn, conn_cookies, accept_cookie, shutdown_requested,
                   rtime, conndone, gsvars, stage, owner, released>>

callback_resolve ==
    /\ Running
    /\ lookup
    /\ lookup' = FALSE
    /\ \/ dnstimer_cookie' = TRUE /\ Returns(0)
       \/ UNCHANGED dnstimer_cookie /\ Returns(-1)
    /\ UNCHANGED <<convars, nconn, conn_cookies, accept_cookie, shutdown_requested,
                   rtime, conndone, gsvars, stage, owner, released>>

dispatch_request_shutdown ==
    /\ shutdown_requested' = TRUE
    /\ accept_cookie' = FALSE
    /\ conndone' = (conndone \/ nconn = 0)

(* dispatch_shutdown drops the connections one by one; callback_conndied   *)
(* may start a new accept meanwhile.                                       *)
dispatch_shutdown_drop(i) ==
    /\ stage = "down"
    /\ i \in conn_cookies
    /\ C!Die(i, "CANCELLED")
    /\ \E rc \in {0, -1} : callback_conndied(i, rc)
    /\ UNCHANGED <<shutdown_requested, dnsvars, gsvars, stage, loop, owner, released>>

(* Mutant: the accept is cancelled before the connections are dropped.     *)
dispatch_shutdown_early ==
    /\ stage = "down"
    /\ conn_cookies = {}
    /\ dnstimer_cookie' = FALSE
    /\ owner' = "none"
    /\ released' = released + 1
    /\ stage' = "cleanup"
    /\ UNCHANGED <<convars, nconn, conn_cookies, accept_cookie, shutdown_requested,
                   rtime, lookup, conndone, gsvars, loop>>

(* Then it cancels the accept and the timer, tells the resolver thread to  *)
(* die and releases the listening socket and the addresses.  A lookup that *)
(* is under way goes on in that thread, and nobody waits for its result.   *)
dispatch_shutdown ==
    /\ stage = "down"
    /\ conn_cookies = {}
    /\ accept_cookie' = FALSE
    /\ dnstimer_cookie' = FALSE
    /\ owner' = "none"
    /\ released' = released + 1
    /\ stage' = "cleanup"
    /\ UNCHANGED <<convars, nconn, conn_cookies, shutdown_requested, rtime,
                   lookup, conndone, gsvars, loop>>

-----------------------------------------------------------------------------
(* graceful_shutdown.c                                                     *)

(* The signal handler; without it the signal ends the process.             *)
graceful_shutdown_handler ==
    /\ stage \notin {"exit", "killed"}
    /\ IF handler THEN should_shutdown' = TRUE /\ UNCHANGED stage
       ELSE stage' = "killed" /\ UNCHANGED should_shutdown
    /\ UNCHANGED <<convars, nconn, conn_cookies, accept_cookie, shutdown_requested,
                   dnsvars, conndone, timer_cookie, handler, loop, owner, released>>

(* Mutant: the timer is not started again.                                 *)
graceful_shutdown_once ==
    /\ Running
    /\ timer_cookie
    /\ timer_cookie' = FALSE
    /\ \/ should_shutdown /\ dispatch_request_shutdown /\ handler' = FALSE
       \/ ~should_shutdown /\ UNCHANGED <<shutdown_requested, accept_cookie, conndone, handler>>
    /\ UNCHANGED <<convars, nconn, conn_cookies, dnsvars, should_shutdown,
                   stage, loop, owner, released>>

(* The timer expires: look for SIGTERM, or look again a second later.      *)
graceful_shutdown ==
    /\ Running
    /\ timer_cookie
    /\ \/ /\ should_shutdown
          /\ dispatch_request_shutdown
          /\ timer_cookie' = FALSE
          /\ handler' = FALSE
          /\ Returns(0)
       \/ /\ ~should_shutdown
          /\ timer_cookie' \in BOOLEAN
          /\ Returns(IF timer_cookie' THEN 0 ELSE -1)
          /\ UNCHANGED <<shutdown_requested, accept_cookie, conndone, handler>>
    /\ UNCHANGED <<convars, nconn, conn_cookies, dnsvars, should_shutdown,
                   stage, owner, released>>

graceful_shutdown_initialize ==
    /\ stage = "init"
    /\ \/ /\ handler' = TRUE /\ timer_cookie' = TRUE /\ stage' = "spin"
       \/ /\ handler' \in BOOLEAN /\ UNCHANGED timer_cookie /\ stage' = "down"
    /\ UNCHANGED <<convars, nconn, conn_cookies, accept_cookie, shutdown_requested,
                   dnsvars, conndone, should_shutdown, loop, owner, released>>

-----------------------------------------------------------------------------
(* main                                                                    *)

(* dispatch_accept takes over s and sas, or fails with nothing running.    *)
dispatch_accept ==
    /\ stage = "start"
    /\ \/ /\ dnstimer_cookie' = rtime
          /\ doaccept(0, FALSE, 0)
          /\ owner' = "dispatch"
          /\ stage' = "init"
       \/ /\ stage' = "cleanup"
          /\ UNCHANGED <<dnstimer_cookie, accept_cookie, owner>>
    /\ UNCHANGED <<convars, nconn, conn_cookies, shutdown_requested, rtime, lookup,
                   conndone, gsvars, loop, released>>

(* events_spin returns because conndone is set or a callback has failed.   *)
events_spin_returns ==
    /\ stage = "spin"
    /\ conndone \/ loop = "error"
    /\ stage' = "down"
    /\ UNCHANGED <<convars, nconn, conn_cookies, accept_cookie, shutdown_requested,
                   dnsvars, conndone, gsvars, loop, owner, released>>

(* main releases what is still its own; graceful_shutdown_atexit runs.     *)
exit ==
    /\ stage = "cleanup"
    /\ stage' = "exit"
    /\ timer_cookie' = FALSE
    /\ owner' = "none"
    /\ released' = IF owner = "main" THEN released + 1 ELSE released
    /\ UNCHANGED <<convars, nconn, conn_cookies, accept_cookie, shutdown_requested,
                   dnsvars, conndone, should_shutdown, handler, loop>>

MainNext ==
    \/ dispatch_accept
    \/ graceful_shutdown_initialize
    \/ events_spin_returns
    \/ \E i \in Conn : dispatch_shutdown_drop(i)
    \/ dispatch_shutdown
    \/ exit

Next ==
    \/ MainNext
    \/ callback_accept_tryagain
    \/ callback_gotconn_fails
    \/ \E i \in Conn : callback_gotconn(i) \/ ConnectionMoves(i) \/ ConnectionDies(i)
    \/ callback_resolveagain
    \/ callback_resolve
    \/ graceful_shutdown
    \/ graceful_shutdown_handler

Spec == Init /\ [][Next]_vars

(* The process runs, and timers expire.                                    *)
FairSpec == Spec /\ WF_vars(MainNext) /\ WF_vars(graceful_shutdown)

-----------------------------------------------------------------------------
Stage == {"start", "init", "spin", "down", "cleanup", "exit", "killed"}

TypeOK ==
    /\ phase \in [Conn -> {"none", "setup", "open", "refused", "dead"}]
    /\ nconn \in Nat
    /\ conn_cookies \in SUBSET Conn
    /\ accept_cookie \in BOOLEAN
    /\ shutdown_requested \in BOOLEAN
    /\ rtime \in BOOLEAN /\ dnstimer_cookie \in BOOLEAN /\ lookup \in BOOLEAN
    /\ conndone \in BOOLEAN
    /\ timer_cookie \in BOOLEAN /\ should_shutdown \in BOOLEAN /\ handler \in BOOLEAN
    /\ stage \in Stage
    /\ loop \in {"run", "error"}
    /\ owner \in {"main", "dispatch", "none"}
    /\ released \in {0, 1}

(* The list holds exactly the connections that are alive, and nconn is     *)
(* its length: no connection is counted twice, forgotten, or counted after *)
(* it died or was refused, and there are never more than nconn_max (-n).   *)
CountIsExact ==
    /\ conn_cookies = {i \in Conn : phase[i] \in {"setup", "open"}}
    /\ nconn = Cardinality(conn_cookies)
    /\ nconn <= nconn_max

(* While the server runs it waits for the next connection exactly when it  *)
(* has room for one and was not told to shut down: it never goes deaf, and *)
(* never accepts what it would have no room for.                           *)
AcceptsWhenItMay ==
    Running => (accept_cookie <=> (nconn < nconn_max /\ ~shutdown_requested))

(* The loop is told to end exactly when a shutdown was requested and the   *)
(* last connection is gone.                                                *)
DoneWhenDrained ==
    stage = "spin" => (conndone <=> (shutdown_requested /\ nconn = 0))

(* With re-resolution enabled there is always either a timer for the next  *)
(* lookup or a lookup under way, never both: lookups neither stop nor      *)
(* overlap.                                                                *)
LookupsGoOn ==
    Running => (rtime <=> (dnstimer_cookie \/ lookup)) /\ ~(dnstimer_cookie /\ lookup)

(* The three together: while the server runs it has what it needs to go on *)
(* serving, or to end.                                                     *)
ServerGoesOn == AcceptsWhenItMay /\ DoneWhenDrained /\ LookupsGoOn

(* The server counts its connections right, and goes on by that count.     *)
ServerIsSound == CountIsExact /\ ServerGoesOn

(* When main has finished, no accept and no timer is left, every           *)
(* connection is dead, and the listening socket and the addresses were     *)
(* released once, whichever of main and dispatch had them.                 *)
CleanExit ==
    stage = "exit" =>
        /\ ~accept_cookie /\ ~dnstimer_cookie /\ ~timer_cookie
        /\ conn_cookies = {} /\ nconn = 0
        /\ released = 1

(* After a shutdown was requested no connection is created.                *)
NoNewConnections ==
    [][shutdown_requested =>
          \A i \in Conn : phase[i] = "none" => phase'[i] = "none"]_vars

(* SIGTERM ends the server, as soon as the connections are gone: if there  *)
(* are again and again none, then it exits.                                *)
ShutdownCompletes ==
    []<>(nconn = 0) /\ <>should_shutdown => <>(stage \in {"exit", "killed"})
=============================================================================
