--------------------------- MODULE NetworkConnect ---------------------------
(***************************************************************************)
(* libcperciva/network/network_connect.c: try to connect to a list of      *)
(* addresses, one after the other, with an optional time limit for each.   *)
(*                                                                         *)
(* Addresses are 1 .. naddr, and a socket is named after the address it    *)
(* was opened for.  Whatever registers an event may fail; so may           *)
(* getsockopt.  A failure inside a callback is returned to the event loop  *)
(* and ends the program (loop = "failed").                                 *)
(***************************************************************************)
EXTENDS Integers, Sequences

CONSTANT MaxAddr    \* no list of addresses is longer than this

Addr == 1 .. MaxAddr

VARIABLES
    naddr,              \* how many addresses there are
    timeo_enabled,      \* C->timeo_enabled
    C,                  \* the cookie: "none", "alive" or "freed"
    sas,                \* C->sas, as an index; naddr + 1 is the final NULL
    s,                  \* C->s
    cookie_timeo,       \* C->cookie_timeo # NULL
    cookie_immediate,   \* C->cookie_immediate # NULL
    timers,             \* how many timers are registered for C
    immediate,          \* an immediate event is registered for C
    writable,           \* the sockets registered for writing
    sock,               \* the kernel's sockets
    upstream,           \* what the callback was called with, in order
    caller,             \* "none", "waiting", "refused", "done" or "cancelled"
    loop                \* the event loop: "runs" or "failed"

vars == <<naddr, timeo_enabled, C, sas, s, cookie_timeo, cookie_immediate, timers,
          immediate, writable, sock, upstream, caller, loop>>

Init ==
    /\ naddr \in 0 .. MaxAddr
    /\ timeo_enabled \in BOOLEAN
    /\ C = "none"
    /\ sas = 1 /\ s = -1
    /\ cookie_timeo = FALSE /\ cookie_immediate = FALSE
    /\ timers = 0 /\ immediate = FALSE /\ writable = {}
    /\ sock = [a \in Addr |-> "none"]
    /\ upstream = <<>>
    /\ caller = "none"
    /\ loop = "runs"

-----------------------------------------------------------------------------
(* The kernel                                                              *)

(* connect succeeds or fails some time after it was called.                *)
Decide ==
    /\ \E a \in Addr : /\ sock[a] = "connecting"
                       /\ \E r \in {"connected", "refused"} : sock' = [sock EXCEPT ![a] = r]
    /\ UNCHANGED <<naddr, timeo_enabled, C, sas, s, cookie_timeo, cookie_immediate, timers,
                   immediate, writable, upstream, caller, loop>>

-----------------------------------------------------------------------------
(* Trying addresses                                                        *)

(* sock_connect_bind_nb returns -1 at once for the addresses a .. k - 1.   *)
Skip(sk, a, k) == [b \in Addr |-> IF b \in a .. (k - 1) THEN "unopened" ELSE sk[b]]

(* The addresses at which the loop which starts at a may end.              *)
Tries(a) == a .. (naddr + 1)

(* tryconnect, called with C->sas = a, C->s = d, the timer cookie tc, tm   *)
(* timers, w registered for writing, and the sockets sk.  It returns 0 iff *)
(* ok.                                                                     *)
tryconnect(a, d, tc, tm, w, sk, ok) ==
    \E k \in Tries(a) :
        /\ sas' = k
        /\ \/ /\ k <= naddr /\ ok
              /\ C' = "alive"
              /\ s' = k
              /\ sock' = [Skip(sk, a, k) EXCEPT ![k] = "connecting"]
              /\ cookie_timeo' = timeo_enabled
              /\ timers' = IF timeo_enabled THEN tm + 1 ELSE tm
              /\ writable' = w \cup {k}
              /\ UNCHANGED <<cookie_immediate, immediate>>
           \/ /\ k > naddr /\ ok
              /\ C' = "alive"
              /\ s' = IF a = k THEN d ELSE -1
              /\ sock' = Skip(sk, a, k)
              /\ cookie_timeo' = tc
              /\ timers' = tm
              /\ writable' = w
              /\ cookie_immediate' = TRUE /\ immediate' = TRUE
           \/ /\ ~ok
              /\ C' = "freed"
              /\ s' = IF k <= naddr THEN k ELSE IF a = k THEN d ELSE -1
              /\ sock' = IF s' # -1 THEN [Skip(sk, a, k) EXCEPT ![s'] = "closed"] ELSE Skip(sk, a, k)
              /\ cookie_timeo' = tc
              /\ timers' = tm
              /\ writable' = w
              /\ UNCHANGED <<cookie_immediate, immediate>>
    /\ UNCHANGED <<naddr, timeo_enabled>>

(* The caller is told of a failure; its callback is not called.            *)
network_connect_internal ==
    /\ caller = "none"
    /\ \E ok \in BOOLEAN :
          /\ \/ tryconnect(1, -1, FALSE, timers, writable, sock, ok)
             \/ /\ ~ok
                /\ UNCHANGED <<naddr, timeo_enabled, C, sas, s, cookie_timeo, cookie_immediate,
                               timers, immediate, writable, sock>>
          /\ caller' = IF ok THEN "waiting" ELSE "refused"
    /\ UNCHANGED <<upstream, loop>>

(* Mutant: the remaining addresses are not tried.                          *)
dofailed_giveup(tc, tm, w, ok) ==
    tryconnect(naddr + 1, -1, tc, tm, w, [sock EXCEPT ![s] = "closed"], ok)

dofailed(tc, tm, w, ok) ==
    tryconnect(sas + 1, -1, tc, tm, w, [sock EXCEPT ![s] = "closed"], ok)

-----------------------------------------------------------------------------
(* Callbacks from the event loop                                           *)

(* The upstream callback may fail, too.                                    *)
docallback(tc, tm, w) ==
    /\ upstream' = Append(upstream, s)
    /\ sock' = IF s # -1 THEN [sock EXCEPT ![s] = "upstream"] ELSE sock
    /\ C' = "freed"
    /\ caller' = "done"
    /\ loop' \in {"runs", "failed"}
    /\ cookie_timeo' = tc /\ timers' = tm /\ writable' = w
    /\ UNCHANGED <<naddr, timeo_enabled, sas, s, cookie_immediate>>

callback_immediate ==
    /\ loop = "runs" /\ immediate
    /\ immediate' = FALSE
    /\ docallback(cookie_timeo, timers, writable)

Ready == loop = "runs" /\ s \in writable /\ sock[s] \in {"connected", "refused"}

(* A failed dofailed or getsockopt ends the program.                       *)
Retried(tc, tm, w) ==
    /\ \E ok \in BOOLEAN : /\ dofailed(tc, tm, w, ok)
                           /\ loop' = IF ok THEN "runs" ELSE "failed"
    /\ UNCHANGED <<upstream, caller>>

GetsockoptFails(tm) ==
    /\ loop' = "failed"
    /\ C' = "freed"
    /\ sock' = [sock EXCEPT ![s] = "closed"]
    /\ cookie_timeo' = FALSE /\ timers' = tm /\ writable' = writable \ {s}
    /\ UNCHANGED <<naddr, timeo_enabled, sas, s, cookie_immediate, immediate, upstream, caller>>

(* Mutant: the timer goes on.                                              *)
callback_connect_timer ==
    /\ Ready
    /\ \/ sock[s] = "refused" /\ Retried(cookie_timeo, timers, writable \ {s})
       \/ /\ sock[s] = "connected"
          /\ docallback(FALSE, IF cookie_timeo THEN timers - 1 ELSE timers, writable \ {s})
          /\ UNCHANGED immediate

(* The event loop drops the registration of the event it runs.             *)
callback_connect ==
    LET tm == IF cookie_timeo THEN timers - 1 ELSE timers IN
    /\ Ready
    /\ \/ GetsockoptFails(tm)
       \/ sock[s] = "refused" /\ Retried(FALSE, tm, writable \ {s})
       \/ sock[s] = "connected" /\ docallback(FALSE, tm, writable \ {s}) /\ UNCHANGED immediate

(* Mutant: the timer is set again.                                         *)
callback_timeo_again ==
    /\ loop = "runs" /\ timers > 0
    /\ UNCHANGED vars

callback_timeo ==
    /\ loop = "runs" /\ timers > 0
    /\ Retried(FALSE, timers - 1, writable \ {s})

(* Called by the caller that waits, from a callback of its own.            *)
network_connect_cancel ==
    /\ caller = "waiting" /\ loop = "runs"
    /\ caller' = "cancelled"
    /\ C' = "freed"
    /\ timers' = IF cookie_timeo THEN timers - 1 ELSE timers
    /\ immediate' = (immediate /\ ~cookie_immediate)
    /\ writable' = writable \ {s}
    /\ sock' = IF s # -1 THEN [sock EXCEPT ![s] = "closed"] ELSE sock
    /\ UNCHANGED <<naddr, timeo_enabled, sas, s, cookie_timeo, cookie_immediate, upstream, loop>>

Callbacks == callback_immediate \/ callback_connect \/ callback_timeo

Next ==
    \/ Decide
    \/ network_connect_internal
    \/ callback_immediate
    \/ callback_connect
    \/ callback_timeo
    \/ network_connect_cancel

Spec == Init /\ [][Next]_vars

(* The event loop runs a callback that can be run, and timers expire.      *)
(* Nothing is assumed of the kernel or the peers.                          *)
FairSpec == Spec /\ WF_vars(Callbacks)

-----------------------------------------------------------------------------
TypeOK ==
    /\ naddr \in 0 .. MaxAddr /\ timeo_enabled \in BOOLEAN
    /\ C \in {"none", "alive", "freed"}
    /\ sas \in 1 .. (naddr + 1)
    /\ s \in Addr \cup {-1}
    /\ cookie_timeo \in BOOLEAN /\ cookie_immediate \in BOOLEAN
    /\ timers \in Nat /\ immediate \in BOOLEAN
    /\ writable \in SUBSET Addr
    /\ sock \in [Addr -> {"none", "unopened", "connecting", "connected", "refused", "closed",
                          "upstream"}]
    /\ upstream \in Seq(Addr \cup {-1})
    /\ caller \in {"none", "waiting", "refused", "done", "cancelled"}
    /\ loop \in {"runs", "failed"}

(* What network_connect_cancel asserts, whenever it may be called: "either *)
(* an immediate callback or a socket", and not both.                       *)
CancelAsserts ==
    C = "alive" => (cookie_immediate <=> s = -1)

(* Exactly the events that C says are registered are registered: an        *)
(* attempt waits for its own socket and, iff asked to, for one timer; and  *)
(* nothing is left behind when the cookie is freed.                        *)
EventsMatchCookie ==
    IF C = "alive"
    THEN /\ immediate <=> cookie_immediate
         /\ writable = IF s = -1 THEN {} ELSE {s}
         /\ timers = IF timeo_enabled /\ s # -1 THEN 1 ELSE 0
         /\ cookie_timeo <=> timers = 1
    ELSE timers = 0 /\ ~immediate /\ writable = {}

(* Every socket that is open is either the attempt in progress or was      *)
(* handed over: a timeout, a failure or a cancellation leaks none.         *)
NoSocketLeaks ==
    \A a \in Addr :
        sock[a] \in {"connecting", "connected", "refused"} => C = "alive" /\ s = a

(* The three together: whatever races with whatever else, the attempt owns *)
(* what its cookie names and the end of the attempt leaves nothing behind. *)
AttemptIsClean == CancelAsserts /\ EventsMatchCookie /\ NoSocketLeaks

(* The callback is called only while the caller waits, hence once, with    *)
(* the connected socket of the first address that worked, or with -1 after *)
(* every address has failed.                                               *)
AnswerIsRight ==
    [][upstream' # upstream =>
          LET answer == upstream'[Len(upstream')]
              before == IF answer = -1 THEN naddr ELSE answer - 1
          IN  /\ caller = "waiting"
              /\ answer # -1 => sock[answer] = "connected"
              /\ \A a \in 1 .. before : sock[a] \in {"unopened", "closed"}]_vars

(* With a time limit the caller gets an answer, even if no connect is ever *)
(* decided; unless the program ends or the caller gives up.                *)
Answered ==
    caller = "waiting" /\ timeo_enabled ~> caller \in {"done", "cancelled"} \/ loop = "failed"
=============================================================================
