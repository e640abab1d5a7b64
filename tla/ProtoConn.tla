----------------------------- MODULE ProtoConn -----------------------------
(***************************************************************************)
(* The life of connections: lib/proto/proto_conn.c.  Conn is the set of    *)
(* connections the program ever makes; they share one event loop.          *)
(*                                                                         *)
(* A connection starts up to six operations of the layers below it, each   *)
(* of which answers through a callback that is given the conn_state C:     *)
(*     connect, connect_timeout        network_connect, its timer          *)
(*     handshake, handshake_timeout    proto_handshake, its timer          *)
(*     pipe_f, pipe_r                  proto_pipe, one per direction       *)
(* C.cookie is the set of those whose cookie in C is not NULL, C.live the  *)
(* set of those that exist in the layer below.  The code is correct if the *)
(* two never part: a cookie that is not live is cancelled after it was     *)
(* freed, a live operation without a cookie outlives C and calls back into *)
(* freed memory.                                                           *)
(*                                                                         *)
(* A callback is one step: the event loop runs it to its end.  It stops    *)
(* the loop if it returns non-zero, and the owner of the connections then  *)
(* drops what is left (dispatch_shutdown in spiped/dispatch.c).            *)
(***************************************************************************)
EXTENDS Integers

CONSTANT Conn

VARIABLES
    C,          \* C[i]: the conn_state of i and what it owns; see New
    loop        \* the event loop: "run", or "stop" once a callback failed

connvars == <<C, loop>>

Setup == {"connect", "connect_timeout", "handshake", "handshake_timeout"}

Pipe == {"pipe_f", "pipe_r"}

Key == {"k_f", "k_r"}

New(d) ==
    [mem    |-> "none",     \* the conn_state itself
     decr   |-> d,
     cookie |-> {},
     live   |-> {},
     s      |-> "open",     \* the incoming connection
     t      |-> "none",     \* the outgoing one: none is -1
     sas    |-> FALSE,      \* C->sas is not NULL
     addrs  |-> "caller",   \* who owns the address list it points to
     keys   |-> {},         \* protocol keys allocated
     stat   |-> [p \in Pipe |-> 1],
     dead   |-> 0,          \* calls of callback_dead
     reason |-> "NONE"]

Init ==
    /\ \E d \in BOOLEAN : C = [i \in Conn |-> New(d)]
    /\ loop = "run"

-----------------------------------------------------------------------------
(* A handler leaves connection i as c and returns rc.                      *)
Returns(i, c, rc) ==
    /\ C' = [C EXCEPT ![i] = c]
    /\ loop' = IF rc = 0 THEN loop ELSE "stop"

With(c, ops) == [c EXCEPT !.cookie = @ \cup ops, !.live = @ \cup ops]

Without(c, ops) == [c EXCEPT !.cookie = @ \ ops, !.live = @ \ ops]

(* Mutant: the outgoing connection is left open.                           *)
dropped_leak(c, why) ==
    [mem |-> "freed", decr |-> c.decr, cookie |-> {},
     live |-> c.live \ c.cookie, s |-> "closed", t |-> c.t, sas |-> FALSE,
     addrs |-> IF c.sas THEN "freed" ELSE c.addrs, keys |-> {},
     stat |-> c.stat, dead |-> c.dead + 1, reason |-> why]

(* What proto_conn_drop leaves: everything C names is closed, cancelled or *)
(* freed, callback_dead has been called, C is freed.                       *)
dropped(c, why) ==
    [mem |-> "freed", decr |-> c.decr, cookie |-> {},
     live |-> c.live \ c.cookie, s |-> "closed",
     t |-> IF c.t = "open" THEN "closed" ELSE c.t, sas |-> FALSE,
     addrs |-> IF c.sas THEN "freed" ELSE c.addrs, keys |-> {},
     stat |-> c.stat, dead |-> c.dead + 1, reason |-> why]

(* proto_conn_drop returns what callback_dead returned.                    *)
proto_conn_drop(i, c, why) == \E rc \in {0, 1} : Returns(i, dropped(c, why), rc)

(* Start the handshake and its timer, or fail with neither running.        *)
starthandshake(i, c) ==
    \/ Returns(i, With(c, {"handshake", "handshake_timeout"}), 0)
    \/ Returns(i, dropped(c, "ERROR"), 1)

(* Mutant: the cookie of the second pipe is not kept.                      *)
launchpipes_lost(i, c) ==
    Returns(i, [With(c, {"pipe_f"}) EXCEPT !.live = @ \cup {"pipe_r"}], 0)

(* Start both pipes; if one cannot be, drop what was started.              *)
launchpipes(i, c) ==
    \/ Returns(i, With(c, Pipe), 0)
    \/ \E made \in {{}, {"pipe_f"}} :
          Returns(i, dropped(With(c, made), "ERROR"), 1)

(* The operations proto_conn_create starts, and the sets of them that have *)
(* been started when one after the other succeeds.                         *)
Wanted(d) == IF d THEN Setup ELSE {"connect", "connect_timeout"}

Started(d) ==
    {ops \in SUBSET Wanted(d) :
        /\ "connect" \in ops => "connect_timeout" \in ops
        /\ "handshake_timeout" \in ops => "connect" \in ops
        /\ "handshake" \in ops => "handshake_timeout" \in ops}

(* What is left once err3, err2 and err1 of starthandshake have cancelled. *)
Unwound(ops) == ops \ {"connect", "connect_timeout", "handshake_timeout"}

(* The operations in ops are started and the next one, if any, fails.      *)
proto_conn_create(i, ops) ==
    /\ C[i].mem = "none"
    /\ loop = "run"
    /\ ops \in Started(C[i].decr)
    /\ IF ops = Wanted(C[i].decr)
       THEN Returns(i, [With(C[i], ops) EXCEPT
                            !.mem = "alloc", !.sas = TRUE, !.addrs = "held"], 0)
       ELSE Returns(i, [C[i] EXCEPT !.mem = "refused", !.live = Unwound(ops)], 1)

-----------------------------------------------------------------------------
(* Callbacks.  One is run only for an operation that exists.               *)
Runs(i, op) == loop = "run" /\ op \in C[i].live

(* Mutant: the pipes wait for the handshake although it has finished.      *)
callback_connect_done_wait(i, tt) ==
    /\ Runs(i, "connect")
    /\ LET c == [Without(C[i], {"connect", "connect_timeout"}) EXCEPT
                     !.sas = FALSE, !.addrs = "freed", !.t = tt]
       IN  \/ tt = "none" /\ proto_conn_drop(i, c, "CONNECT_FAILED")
           \/ tt = "open" /\ ~c.decr /\ starthandshake(i, c)
           \/ tt = "open" /\ c.decr /\ Returns(i, c, 0)

(* The attempt to connect is over: tt is "none" if it failed.  The side    *)
(* that encrypts starts its handshake now; the side that decrypts started  *)
(* it in proto_conn_create, and it may have finished.                      *)
callback_connect_done(i, tt) ==
    /\ Runs(i, "connect")
    /\ LET c == [Without(C[i], {"connect", "connect_timeout"}) EXCEPT
                     !.sas = FALSE, !.addrs = "freed", !.t = tt]
       IN  \/ tt = "none" /\ proto_conn_drop(i, c, "CONNECT_FAILED")
           \/ tt = "open" /\ ~c.decr /\ starthandshake(i, c)
           \/ tt = "open" /\ c.decr /\ c.keys = Key /\ launchpipes(i, c)
           \/ tt = "open" /\ c.decr /\ c.keys # Key /\ Returns(i, c, 0)

(* network_connect gives up on a fatal error (getsockopt, or registering   *)
(* with the event loop): it frees its cookie and returns -1 to the event   *)
(* loop without calling back.                                              *)
connect_fatal(i) ==
    /\ Runs(i, "connect")
    /\ Returns(i, [C[i] EXCEPT !.live = @ \ {"connect"}], 1)

callback_connect_timeout(i) ==
    /\ Runs(i, "connect_timeout")
    /\ proto_conn_drop(i, Without(C[i], {"connect_timeout"}), "ERROR")

(* The handshake is over, and has produced both keys or neither.           *)
callback_handshake_done(i, ks) ==
    /\ Runs(i, "handshake")
    /\ LET c == Without(C[i], {"handshake", "handshake_timeout"})
       IN  \/ ks = {} /\ proto_conn_drop(i, c, "HANDSHAKE_FAILED")
           \/ /\ ks = Key
              /\ c.t = "open"
              /\ launchpipes(i, [c EXCEPT !.keys = ks])
           \/ /\ ks = Key
              /\ c.t # "open"
              /\ Returns(i, [c EXCEPT !.keys = ks], 0)

(* Mutant: the timer of the handshake starts over.                         *)
callback_handshake_timeout_again(i) ==
    Runs(i, "handshake_timeout") /\ Returns(i, C[i], 0)

callback_handshake_timeout(i) ==
    /\ Runs(i, "handshake_timeout")
    /\ proto_conn_drop(i, Without(C[i], {"handshake_timeout"}), "ERROR")

(* Mutant: one direction at its end closes the connection.                 *)
callback_pipestatus_either(i, c) ==
    IF \E p \in Pipe : c.stat[p] = -1
    THEN proto_conn_drop(i, c, "ERROR")
    ELSE IF \E p \in Pipe : c.stat[p] = 0
         THEN proto_conn_drop(i, c, "CLOSED")
         ELSE Returns(i, c, 0)

callback_pipestatus(i, c) ==
    IF \E p \in Pipe : c.stat[p] = -1
    THEN proto_conn_drop(i, c, "ERROR")
    ELSE IF \A p \in Pipe : c.stat[p] = 0
         THEN proto_conn_drop(i, c, "CLOSED")
         ELSE Returns(i, c, 0)

(* Pipe p, until then at status 1, sets its status to st and calls back.   *)
PipeStatus(i, p, st) ==
    /\ Runs(i, p)
    /\ C[i].stat[p] = 1
    /\ callback_pipestatus(i, [C[i] EXCEPT !.stat[p] = st])

(* err1 of the pipe's own callbacks: as above, but -1 is returned.         *)
PipeError(i, p) ==
    /\ Runs(i, p)
    /\ C[i].stat[p] = 1
    /\ Returns(i, dropped([C[i] EXCEPT !.stat[p] = -1], "ERROR"), 1)

-----------------------------------------------------------------------------
(* The loop ends for another reason: another connection's callback failed, *)
(* or the program is done.                                                 *)
events_spin_ends == loop = "run" /\ loop' = "stop" /\ UNCHANGED C

(* The owner drops the connection after the loop has ended.                *)
owner_drop(i) ==
    /\ loop = "stop"
    /\ C[i].mem = "alloc"
    /\ proto_conn_drop(i, C[i], "CANCELLED")

ConnNext(i) ==
    \/ \E ops \in SUBSET Setup : proto_conn_create(i, ops)
    \/ \E tt \in {"none", "open"} : callback_connect_done(i, tt)
    \/ connect_fatal(i)
    \/ callback_connect_timeout(i)
    \/ \E ks \in {{}, Key} : callback_handshake_done(i, ks)
    \/ callback_handshake_timeout(i)
    \/ \E p \in Pipe, st \in {0, -1} : PipeStatus(i, p, st)
    \/ \E p \in Pipe : PipeError(i, p)
    \/ owner_drop(i)

Next == (\E i \in Conn : ConnNext(i)) \/ events_spin_ends

(* A registered timer expires, and after the loop has ended the owner      *)
(* drops every connection.  Nothing is assumed of the network.             *)
Fairness ==
    \A i \in Conn :
        /\ WF_connvars(callback_connect_timeout(i))
        /\ WF_connvars(callback_handshake_timeout(i))
        /\ WF_connvars(owner_drop(i))

Spec == Init /\ [][Next]_connvars

FairSpec == Spec /\ Fairness

-----------------------------------------------------------------------------
ConnState ==
    [mem : {"none", "refused", "alloc", "freed"}, decr : BOOLEAN,
     cookie : SUBSET (Setup \cup Pipe), live : SUBSET (Setup \cup Pipe),
     s : {"open", "closed"}, t : {"none", "open", "closed"},
     sas : BOOLEAN, addrs : {"caller", "held", "freed"},
     keys : SUBSET Key, stat : [Pipe -> {1, 0, -1}],
     dead : {0, 1},
     reason : {"NONE", "CLOSED", "CONNECT_FAILED", "HANDSHAKE_FAILED",
               "ERROR", "CANCELLED"}]

(* Types; in particular callback_dead is called at most once.              *)
TypeOK ==
    /\ C \in [Conn -> ConnState]
    /\ loop \in {"run", "stop"}

(* While the event loop runs, the cookies in C are exactly the operations  *)
(* that exist, so no callback comes as a surprise and every cancellation   *)
(* in proto_conn_drop finds its operation; after the loop has stopped that *)
(* still holds of everything but an attempt to connect.                    *)
CookiesMatch ==
    \A i \in Conn : C[i].mem = "alloc" =>
        /\ loop = "run" => C[i].cookie = C[i].live
        /\ C[i].cookie \ {"connect"} = C[i].live \ {"connect"}

(* Once C is freed, or was never returned to the caller, no operation that *)
(* would call back into it exists.                                         *)
NoLateCallback == \A i \in Conn : C[i].mem # "alloc" => C[i].live = {}

(* A dropped connection has closed both descriptors and freed the          *)
(* addresses and the keys, each whichever callback got there first, and    *)
(* callback_dead has been called exactly once.                             *)
DroppedReleasesAll ==
    \A i \in Conn : C[i].mem = "freed" =>
        /\ C[i].s = "closed" /\ C[i].t # "open"
        /\ C[i].addrs = "freed" /\ C[i].keys = {}
        /\ C[i].dead = 1

(* What C points to is still there while C is: neither descriptor has been *)
(* closed, C->sas is NULL exactly when the list has been freed, so nothing *)
(* is closed or freed twice by proto_conn_drop.                            *)
OwnsWhatItNames ==
    \A i \in Conn : C[i].mem = "alloc" =>
        /\ C[i].s = "open" /\ C[i].t # "closed" /\ C[i].dead = 0
        /\ C[i].sas <=> C[i].addrs = "held"
        /\ C[i].addrs # "caller"

(* The three together: whichever way a connection ends, nothing of it is   *)
(* left and nothing was released twice.                                    *)
ReleasedOnce == NoLateCallback /\ OwnsWhatItNames /\ DroppedReleasesAll

(* A connection is what its cookies say while it lives, and leaves nothing *)
(* behind when it is dropped, in whatever order its callbacks came.        *)
ConnectionIsClean == CookiesMatch /\ ReleasedOnce

(* An operation of the set-up and its timer come and go together, so the   *)
(* unconditional events_timer_cancel of callback_connect_done and          *)
(* callback_handshake_done never meets a NULL cookie, and neither          *)
(* operation can hang without a timer.                                     *)
TimerGuardsOperation ==
    \A i \in Conn : C[i].mem = "alloc" =>
        /\ "connect" \in C[i].cookie <=> "connect_timeout" \in C[i].cookie
        /\ "handshake" \in C[i].cookie <=> "handshake_timeout" \in C[i].cookie

(* The pipes run exactly when the outgoing connection is open and the      *)
(* handshake has delivered its keys, whichever of the two came last; a     *)
(* connection with neither an operation nor a pipe left would never end.   *)
PipesExactlyWhenReady ==
    \A i \in Conn : C[i].mem = "alloc" =>
        /\ C[i].t = "open" /\ C[i].keys = Key => C[i].cookie = Pipe
        /\ C[i].cookie \cap Pipe # {} =>
              C[i].cookie = Pipe /\ C[i].t = "open" /\ C[i].keys = Key
        /\ C[i].cookie # {}
        /\ C[i].cookie = Pipe => \E p \in Pipe : C[i].stat[p] = 1

(* The two together: at any time the set-up waits for something that will  *)
(* happen.                                                                 *)
SetupGuarded == TimerGuardsOperation /\ PipesExactlyWhenReady

(* How a conn_state reads as a connection of Connection.                   *)
Phase(c) ==
    IF c.mem = "alloc" THEN IF c.cookie = Pipe THEN "open" ELSE "setup"
    ELSE IF c.mem = "freed" THEN "dead" ELSE c.mem

Eof(c) == {d \in {"f", "r"} :
              c.stat[IF d = "f" THEN "pipe_f" ELSE "pipe_r"] = 0}

Abstract ==
    INSTANCE Connection WITH
        phase <- [i \in Conn |-> Phase(C[i])],
        eof <- [i \in Conn |-> Eof(C[i])],
        reason <- [i \in Conn |-> C[i].reason]

(* The connections do what Connection promises their owner: a connection   *)
(* is open once it has been connected and shaken hands, a direction at its *)
(* end leaves the other one open, CLOSED means that both have ended, and   *)
(* nothing happens to a connection after its one callback_dead.            *)
ImplementsConnection == Abstract!Spec

(* A connection that has been created is established or dropped in the     *)
(* end, whatever the network does: the timers see to it, as the comment    *)
(* on proto_conn_create promises ("Drop the connection if the handshake    *)
(* or connecting to the target takes more than ${timeo} seconds").         *)
SetupEnds ==
    \A i \in Conn :
        C[i].mem = "alloc" ~>
            C[i].mem = "freed" \/ (C[i].mem = "alloc" /\ C[i].cookie = Pipe)

(* The cookie that network_connect returned stays valid until the callback *)
(* is called or the owner cancels it.                                      *)
ConnectAnswers ==
    \A i \in Conn :
        C[i].mem = "alloc" /\ "connect" \in C[i].cookie => "connect" \in C[i].live
=============================================================================
