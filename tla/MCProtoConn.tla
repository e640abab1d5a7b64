---------------------------- MODULE MCProtoConn ----------------------------
(***************************************************************************)
(* Connections and what they rest on: two connections on one event loop,   *)
(* one call of network_connect, the resolver thread, or the start of a     *)
(* thread.  The parts that are not looked at rest in a state from which    *)
(* they take no step, so that they are checked side by side, not           *)
(* multiplied.                                                             *)
(***************************************************************************)
EXTENDS ProtoConn, DnsThread, Sequences

CONSTANT MaxAddr    \* no list of addresses is longer than this

ASSUME AddrAssumption == MaxAddr \in Nat

VARIABLES
    naddr, timeo_enabled, cookie, nsas, s, cookie_timeo, cookie_immediate, timers,
    immediate, writable, sock, upstream, caller, nloop,
    ppc, cpc, U, mutex, running, rc_sync, cancel, ran, frees, failed

attemptvars ==
    <<naddr, timeo_enabled, cookie, nsas, s, cookie_timeo, cookie_immediate, timers,
      immediate, writable, sock, upstream, caller, nloop>>

createvars == <<ppc, cpc, U, mutex, running, rc_sync, cancel, ran, frees, failed>>

Attempt == INSTANCE NetworkConnect WITH C <- cookie, sas <- nsas, loop <- nloop
Create == INSTANCE CreateBlocking

(* The event loop has ended before any connection came.                    *)
NoConnections == C = [i \in Conn |-> New(FALSE)] /\ loop = "stop"

(* network_connect could not allocate its cookie.                          *)
NoAttempt ==
    /\ naddr = 0 /\ timeo_enabled = FALSE
    /\ cookie = "none" /\ nsas = 1 /\ s = -1
    /\ cookie_timeo = FALSE /\ cookie_immediate = FALSE
    /\ timers = 0 /\ immediate = FALSE /\ writable = {}
    /\ sock = [a \in 1 .. MaxAddr |-> "none"]
    /\ upstream = <<>>
    /\ caller = "refused"
    /\ nloop = "runs"

(* The resolver thread could not be created.                               *)
NoWorker ==
    /\ user = CHOOSE u \in Users : TRUE
    /\ mpc = "gone" /\ wpc = "none"
    /\ mtx = "none" /\ T = "none" /\ state = "SLEEPING"
    /\ addr = NULL /\ cb = NULL /\ sas = NULL
    /\ work = NULL /\ result = NULL
    /\ wakeups = 0 /\ registered = FALSE
    /\ status = [r \in Request |-> "new"]

(* pthread_create has failed, and pushbits has returned.                   *)
NoCreate ==
    /\ ppc = "returned_err" /\ cpc = "none"
    /\ U = "none" /\ mutex = "none"
    /\ running = FALSE /\ rc_sync = FALSE /\ cancel = FALSE /\ ran = FALSE
    /\ frees = 1 /\ failed = {}

MCInit ==
    \/ Init /\ NoAttempt /\ NoWorker /\ NoCreate
    \/ NoConnections /\ Attempt!Init /\ NoWorker /\ NoCreate
    \/ NoConnections /\ NoAttempt /\ DnsInit /\ NoCreate
    \/ NoConnections /\ NoAttempt /\ NoWorker /\ Create!Init

MCNext ==
    \/ Next /\ UNCHANGED <<attemptvars, dnsthreadvars, createvars>>
    \/ Attempt!Next /\ UNCHANGED <<connvars, dnsthreadvars, createvars>>
    \/ DnsNext /\ UNCHANGED <<connvars, attemptvars, createvars>>
    \/ Create!Next /\ UNCHANGED <<connvars, attemptvars, dnsthreadvars>>

(* The fairness of each: timers expire, the owner drops connections, the   *)
(* event loop runs the callbacks of an attempt, and threads run and get a  *)
(* mutex that is free again and again.  Operations need not fail, and      *)
(* waits need not end for no reason.                                       *)
MCSpec ==
    /\ MCInit
    /\ [][MCNext]_<<connvars, attemptvars, dnsthreadvars, createvars>>
    /\ Fairness
    /\ WF_attemptvars(Attempt!Callbacks)
    /\ DnsFairness
    /\ SF_createvars(Create!Child /\ failed' = failed)
    /\ SF_createvars(ppc # "wait" /\ Create!Parent /\ failed' = failed)

(* network_connect: see the properties of these names in NetworkConnect.   *)
AttemptIsClean == Attempt!AttemptIsClean

(* The answer of network_connect; see NetworkConnect.                      *)
AnswerIsRight == Attempt!AnswerIsRight

(* With a time limit there is an answer; see NetworkConnect.               *)
Answered == Attempt!Answered

(* What pthread_create_blocking_np promises; see CreateBlocking.           *)
CreateIsSafe == Create!CreateIsSafe

(* The resolver thread answers, and pthread_create_blocking_np returns;    *)
(* see DnsThread and CreateBlocking.                                       *)
ThreadsGoOn == ThreadMakesProgress /\ Create!CallReturns
=============================================================================
