-------------------------- MODULE ProtoConnProofs --------------------------
(***************************************************************************)
(* Proofs about connections and what they rest on: ProtoConn, for any set  *)
(* of connections; DnsThread, for any number of requests; NetworkConnect,  *)
(* for any number of addresses; and CreateBlocking.                        *)
(*                                                                         *)
(* The invariant of ProtoConn says of one connection, by the state of its  *)
(* conn_state, what it owns and which operations it has running.  A step   *)
(* changes one connection, and may stop the event loop for the others,     *)
(* which only weakens what is asked of them.                               *)
(***************************************************************************)
EXTENDS MCProtoConn, TLAPS

(* Before proto_conn_create, and after it has failed.                      *)
Fresh(c) ==
    /\ c.cookie = {} /\ c.live = {}
    /\ c.s = "open" /\ c.t = "none"
    /\ c.keys = {} /\ c.dead = 0 /\ c.reason = "NONE"
    /\ \A p \in Pipe : c.stat[p] = 1

(* While the conn_state is allocated and the event loop is in state lp.    *)
Alive(c, lp) ==
    /\ c.live \subseteq c.cookie
    /\ c.cookie \ {"connect"} \subseteq c.live
    /\ lp = "run" => c.cookie \subseteq c.live
    /\ c.s = "open" /\ c.t \in {"none", "open"}
    /\ c.dead = 0 /\ c.reason = "NONE"
    /\ c.addrs = IF c.sas THEN "held" ELSE "freed"
    /\ "connect" \in c.cookie <=> "connect_timeout" \in c.cookie
    /\ "handshake" \in c.cookie <=> "handshake_timeout" \in c.cookie
    /\ "connect" \in c.cookie <=> c.t = "none"
    /\ c.sas <=> c.t = "none"
    /\ c.keys \in {{}, Key}
    /\ "handshake" \in c.cookie => c.keys = {}
    /\ ~c.decr /\ c.t = "none" => c.keys = {} /\ "handshake" \notin c.cookie
    /\ c.keys = {} /\ (c.decr \/ c.t = "open") => "handshake" \in c.cookie
    /\ IF c.t = "open" /\ c.keys = Key
       THEN /\ c.cookie = Pipe
            /\ \E p \in Pipe : c.stat[p] = 1
            /\ \A p \in Pipe : c.stat[p] # -1
       ELSE /\ c.cookie \cap Pipe = {}
            /\ \A p \in Pipe : c.stat[p] = 1

(* After proto_conn_drop.                                                  *)
Gone(c) ==
    /\ c.cookie = {} /\ c.live = {}
    /\ c.s = "closed" /\ c.t # "open"
    /\ c.addrs = "freed" /\ c.keys = {} /\ c.dead = 1

(* What holds of a connection in each state of its memory.                 *)
Good(c, lp) ==
    /\ c \in ConnState
    /\ c.mem \in {"none", "refused"} => Fresh(c)
    /\ c.mem = "alloc" => Alive(c, lp)
    /\ c.mem = "freed" => Gone(c)

(* The inductive invariant.                                                *)
Inv ==
    /\ loop \in {"run", "stop"}
    /\ DOMAIN C = Conn
    /\ C = [i \in Conn |-> C[i]]
    /\ \A i \in Conn : Good(C[i], loop)

-----------------------------------------------------------------------------
(* A step that replaces one connection by a good one, and keeps the loop   *)
(* running or stops it, keeps the invariant.                               *)
LEMMA ReturnsInv ==
    ASSUME Inv, NEW i \in Conn, NEW c, NEW rc \in {0, 1},
           Returns(i, c, rc), Good(c, loop')
    PROVE  Inv'
    <1>1. /\ C' = [C EXCEPT ![i] = c]
          /\ loop' \in {"run", "stop"}
          /\ loop' = "run" => loop = "run"
        BY DEF Returns, Inv
    <1>2. DOMAIN C' = Conn /\ C' = [k \in Conn |-> C'[k]]
        BY <1>1 DEF Inv
    <1>3. ASSUME NEW k \in Conn
          PROVE  Good(C'[k], loop')
        <2>1. CASE k = i
            BY <1>1, <2>1 DEF Inv
        <2>2. CASE k # i
            <3>1. C'[k] = C[k] /\ Good(C[k], loop)
                BY <1>1, <2>2 DEF Inv
            <3> QED
                BY <1>1, <3>1 DEF Good, Alive
        <2> QED
            BY <2>1, <2>2
    <1> QED
        BY <1>1, <1>2, <1>3 DEF Inv

(* What proto_conn_drop needs of the connection it is given: every         *)
(* operation has a cookie, and what C names has not been released.         *)
Droppable(c) ==
    /\ c \in ConnState
    /\ c.live \subseteq c.cookie
    /\ c.t \in {"none", "open"}
    /\ c.dead = 0
    /\ c.sas \/ c.addrs = "freed"

(* proto_conn_drop releases everything the connection owned.               *)
LEMMA DroppedGood ==
    ASSUME NEW c, Droppable(c), NEW lp,
           NEW why \in {"CLOSED", "CONNECT_FAILED", "HANDSHAKE_FAILED",
                        "ERROR", "CANCELLED"}
    PROVE  Good(dropped(c, why), lp)
    <1> DEFINE d == dropped(c, why)
    <1>1. d \in ConnState
        BY DEF Droppable, ConnState, dropped
    <1>2. /\ d.mem = "freed" /\ d.cookie = {} /\ d.live = {}
          /\ d.s = "closed" /\ d.t # "open"
          /\ d.addrs = "freed" /\ d.keys = {} /\ d.dead = 1
        BY DEF Droppable, ConnState, dropped
    <1> QED
        BY <1>1, <1>2 DEF Good, Gone

(* A callback that ends in proto_conn_drop keeps the invariant.            *)
LEMMA DropInv ==
    ASSUME Inv, NEW i \in Conn, NEW c, Droppable(c),
           NEW why \in {"CLOSED", "CONNECT_FAILED", "HANDSHAKE_FAILED",
                        "ERROR", "CANCELLED"},
           proto_conn_drop(i, c, why)
    PROVE  Inv'
    <1>1. PICK rc \in {0, 1} : Returns(i, dropped(c, why), rc)
        BY DEF proto_conn_drop
    <1>2. Good(dropped(c, why), loop')
        BY DroppedGood
    <1> QED
        BY <1>1, <1>2, ReturnsInv

(* So does one that drops the connection and returns an error.             *)
LEMMA FailInv ==
    ASSUME Inv, NEW i \in Conn, NEW c, Droppable(c),
           Returns(i, dropped(c, "ERROR"), 1)
    PROVE  Inv'
    <1>1. Good(dropped(c, "ERROR"), loop')
        BY DroppedGood
    <1> QED
        BY <1>1, ReturnsInv

(* The two handlers that go on with the set-up.                            *)
LEMMA StarthandshakeInv ==
    ASSUME Inv, NEW i \in Conn, NEW c, Droppable(c),
           starthandshake(i, c),
           Good(With(c, {"handshake", "handshake_timeout"}), loop)
    PROVE  Inv'
    <1>1. CASE Returns(i, With(c, {"handshake", "handshake_timeout"}), 0)
        <2>1. loop' = loop
            BY <1>1 DEF Returns
        <2> QED
            BY <1>1, <2>1, ReturnsInv
    <1>2. CASE Returns(i, dropped(c, "ERROR"), 1)
        BY <1>2, FailInv
    <1> QED
        BY <1>1, <1>2 DEF starthandshake

(* launchpipes keeps the invariant, whichever of the two pipes cannot be   *)
(* started.                                                                *)
LEMMA LaunchpipesInv ==
    ASSUME Inv, NEW i \in Conn, NEW c, Droppable(c),
           launchpipes(i, c), Good(With(c, Pipe), loop)
    PROVE  Inv'
    <1>1. CASE Returns(i, With(c, Pipe), 0)
        <2>1. loop' = loop
            BY <1>1 DEF Returns
        <2> QED
            BY <1>1, <2>1, ReturnsInv
    <1>2. ASSUME NEW made \in {{}, {"pipe_f"}},
                 Returns(i, dropped(With(c, made), "ERROR"), 1)
          PROVE  Inv'
        <2>1. Droppable(With(c, made))
            BY <1>2, Zenon DEF Droppable, ConnState, With, Pipe
        <2> QED
            BY <1>2, <2>1, FailInv
    <1> QED
        BY <1>1, <1>2 DEF launchpipes

(* A connection that is alive may be dropped.                              *)
LEMMA AliveDroppable ==
    ASSUME NEW c, NEW lp, Good(c, lp), c.mem = "alloc"
    PROVE  Droppable(c)
    BY DEF Good, Alive, Droppable

(* An operation is live only in a connection that is alive.                *)
LEMMA RunsAlive ==
    ASSUME Inv, NEW i \in Conn, NEW op, Runs(i, op)
    PROVE  /\ C[i] \in ConnState /\ C[i].mem = "alloc" /\ loop = "run"
           /\ Alive(C[i], "run") /\ op \in C[i].cookie /\ C[i].live = C[i].cookie
    <1>1. Good(C[i], loop)
        BY DEF Inv
    <1>2. C[i].mem = "alloc"
        BY <1>1 DEF Runs, Good, ConnState, Fresh, Gone
    <1> QED
        BY <1>1, <1>2, Zenon DEF Runs, Good, Alive
-----------------------------------------------------------------------------
(* One lemma per callback.                                                 *)
LEMMA CreateInv ==
    ASSUME Inv, NEW i \in Conn, NEW ops, proto_conn_create(i, ops)
    PROVE  Inv'
    <1>1. /\ C[i] \in ConnState /\ C[i].mem = "none" /\ Fresh(C[i])
          /\ loop = "run" /\ ops \in Started(C[i].decr)
          /\ C[i].decr \in BOOLEAN
        BY DEF proto_conn_create, Inv, Good, ConnState
    <1>2. CASE ops = Wanted(C[i].decr)
        <2> DEFINE c == [With(C[i], ops) EXCEPT
                            !.mem = "alloc", !.sas = TRUE, !.addrs = "held"]
        <2>1. Returns(i, c, 0) /\ loop' = "run"
            BY <1>1, <1>2 DEF proto_conn_create, Returns
        <2>2. ops \in SUBSET Setup
            BY <1>1, <1>2 DEF Wanted, Setup
        <2>3. c \in ConnState
            BY <1>1, <2>2, Zenon DEF ConnState, With
        <2>4. /\ c.mem = "alloc" /\ c.sas = TRUE /\ c.addrs = "held"
              /\ c.cookie = ops /\ c.live = ops /\ c.decr = C[i].decr
              /\ c.s = "open" /\ c.t = "none" /\ c.keys = {} /\ c.dead = 0
              /\ c.reason = "NONE" /\ c.stat = C[i].stat
            BY <1>1, <2>2 DEF ConnState, With, Fresh
        <2>5. Alive(c, "run")
            BY <1>1, <1>2, <2>4 DEF Alive, Wanted, Setup, Pipe, Key, Fresh
        <2>6. Good(c, loop')
            BY <2>1, <2>3, <2>4, <2>5 DEF Good
        <2> QED
            BY <2>1, <2>6, ReturnsInv
    <1>3. CASE ops # Wanted(C[i].decr)
        <2> DEFINE c == [C[i] EXCEPT !.mem = "refused", !.live = Unwound(ops)]
        <2>1. Returns(i, c, 1)
            BY <1>1, <1>3 DEF proto_conn_create
        <2>2. Unwound(ops) = {}
            BY <1>1, <1>3 DEF Unwound, Started, Wanted, Setup
        <2>3. c \in ConnState /\ c.mem = "refused" /\ Fresh(c)
            BY <1>1, <2>2, Zenon DEF ConnState, Fresh
        <2>4. Good(c, loop')
            BY <2>3 DEF Good
        <2> QED
            BY <2>1, <2>4, ReturnsInv
    <1> QED
        BY <1>2, <1>3

(* callback_connect_done keeps the invariant.                              *)
LEMMA ConnectDoneInv ==
    ASSUME Inv, NEW i \in Conn, NEW tt \in {"none", "open"},
           callback_connect_done(i, tt)
    PROVE  Inv'
    <1> DEFINE w == Without(C[i], {"connect", "connect_timeout"})
               c == [w EXCEPT !.sas = FALSE, !.addrs = "freed", !.t = tt]
    <1>1. /\ C[i] \in ConnState /\ C[i].mem = "alloc" /\ loop = "run"
          /\ Alive(C[i], "run") /\ "connect" \in C[i].cookie
          /\ C[i].live = C[i].cookie
        BY RunsAlive DEF callback_connect_done
    <1>2. w \in ConnState
        BY <1>1, Zenon DEF ConnState, Without
    <1>3. c \in ConnState
        BY <1>2, Zenon DEF ConnState
    <1>4. /\ c.mem = "alloc" /\ c.decr = C[i].decr /\ c.sas = FALSE
          /\ c.addrs = "freed" /\ c.t = tt /\ c.live = c.cookie
          /\ c.cookie = C[i].cookie \ {"connect", "connect_timeout"}
          /\ c.s = "open" /\ c.dead = 0 /\ c.reason = "NONE"
          /\ c.keys = C[i].keys /\ c.stat = C[i].stat
        BY <1>1 DEF ConnState, Without, Alive
    <1>5. Droppable(c)
        BY <1>3, <1>4 DEF Droppable
    <1>6. CASE tt = "none" /\ proto_conn_drop(i, c, "CONNECT_FAILED")
        BY <1>5, <1>6, DropInv
    <1>7. CASE tt = "open" /\ ~c.decr /\ starthandshake(i, c)
        <2> DEFINE h == With(c, {"handshake", "handshake_timeout"})
        <2>1. h \in ConnState
            BY <1>3, Zenon DEF ConnState, With, Setup
        <2>2. /\ h.mem = "alloc" /\ h.decr = c.decr /\ h.sas = FALSE
              /\ h.addrs = "freed" /\ h.t = "open" /\ h.live = h.cookie
              /\ h.cookie = c.cookie \cup {"handshake", "handshake_timeout"}
              /\ h.s = "open" /\ h.dead = 0 /\ h.reason = "NONE"
              /\ h.keys = C[i].keys /\ h.stat = C[i].stat
            BY <1>3, <1>4, <1>7 DEF ConnState, With
        <2>3. C[i].keys = {} /\ \A p \in Pipe : C[i].stat[p] = 1
            BY <1>1, <1>4, <1>7 DEF Alive, Key
        <2>4. h.cookie = {"handshake", "handshake_timeout"}
            BY <1>1, <1>4, <1>7, <2>2 DEF Alive, ConnState, Setup, Pipe, Key
        <2>5. Alive(h, "run")
            BY <2>2, <2>3, <2>4 DEF Alive, Pipe, Key
        <2>6. Good(h, loop)
            BY <1>1, <2>1, <2>2, <2>5 DEF Good
        <2> QED
            BY <1>5, <1>7, <2>6, StarthandshakeInv
    <1>8. CASE tt = "open" /\ c.decr /\ c.keys = Key /\ launchpipes(i, c)
        <2> DEFINE h == With(c, Pipe)
        <2>1. h \in ConnState
            BY <1>3, Zenon DEF ConnState, With
        <2>2. /\ h.mem = "alloc" /\ h.decr = c.decr /\ h.sas = FALSE
              /\ h.addrs = "freed" /\ h.t = "open" /\ h.live = h.cookie
              /\ h.cookie = c.cookie \cup Pipe
              /\ h.s = "open" /\ h.dead = 0 /\ h.reason = "NONE"
              /\ h.keys = Key /\ h.stat = C[i].stat
            BY <1>3, <1>4, <1>8 DEF ConnState, With
        <2>3. \A p \in Pipe : C[i].stat[p] = 1
            BY <1>1 DEF Alive
        <2>4. c.cookie = {}
            BY <1>1, <1>4, <1>8 DEF Alive, ConnState, Setup, Pipe, Key
        <2>5. Alive(h, "run")
            BY <2>2, <2>3, <2>4 DEF Alive, Pipe, Key
        <2>6. Good(h, loop)
            BY <1>1, <2>1, <2>2, <2>5 DEF Good
        <2> QED
            BY <1>5, <1>8, <2>6, LaunchpipesInv
    <1>9. CASE tt = "open" /\ c.decr /\ c.keys # Key /\ Returns(i, c, 0)
        <2>1. Alive(c, "run")
            BY <1>1, <1>4, <1>9 DEF Alive, Pipe, Key
        <2>2. loop' = "run"
            BY <1>1, <1>9 DEF Returns
        <2>3. Good(c, loop')
            BY <1>3, <1>4, <2>1, <2>2 DEF Good
        <2> QED
            BY <1>9, <2>3, ReturnsInv
    <1> QED
        BY <1>6, <1>7, <1>8, <1>9 DEF callback_connect_done

(* callback_handshake_done keeps the invariant.                            *)
LEMMA HandshakeDoneInv ==
    ASSUME Inv, NEW i \in Conn, NEW ks \in {{}, Key},
           callback_handshake_done(i, ks)
    PROVE  Inv'
    <1> DEFINE w == Without(C[i], {"handshake", "handshake_timeout"})
               c == [w EXCEPT !.keys = ks]
    <1>1. /\ C[i] \in ConnState /\ C[i].mem = "alloc" /\ loop = "run"
          /\ Alive(C[i], "run") /\ "handshake" \in C[i].cookie
          /\ C[i].live = C[i].cookie
        BY RunsAlive DEF callback_handshake_done
    <1>2. /\ w \in ConnState /\ w.live = w.cookie /\ w.t = C[i].t
          /\ w.dead = 0 /\ w.sas = C[i].sas /\ w.addrs = C[i].addrs
        BY <1>1, Zenon DEF ConnState, Without, Alive
    <1>3. c \in ConnState
        BY <1>2 DEF ConnState, Key
    <1>4. /\ c.mem = "alloc" /\ c.decr = C[i].decr /\ c.sas = C[i].sas
          /\ c.addrs = C[i].addrs /\ c.t = C[i].t /\ c.live = c.cookie
          /\ c.cookie = C[i].cookie \ {"handshake", "handshake_timeout"}
          /\ c.s = "open" /\ c.dead = 0 /\ c.reason = "NONE"
          /\ c.keys = ks /\ c.stat = C[i].stat
        BY <1>1 DEF ConnState, Without, Alive
    <1>5. Droppable(c) /\ Droppable(w)
        BY <1>1, <1>2, <1>3, <1>4 DEF Droppable, Alive
    <1>6. CASE ks = {} /\ proto_conn_drop(i, w, "HANDSHAKE_FAILED")
        BY <1>5, <1>6, DropInv
    <1>7. CASE ks = Key /\ w.t = "open" /\ launchpipes(i, c)
        <2> DEFINE h == With(c, Pipe)
        <2>1. h \in ConnState
            BY <1>3, Zenon DEF ConnState, With
        <2>2. /\ h.mem = "alloc" /\ h.decr = c.decr /\ h.sas = C[i].sas
              /\ h.addrs = C[i].addrs /\ h.t = C[i].t /\ h.live = h.cookie
              /\ h.cookie = c.cookie \cup Pipe
              /\ h.s = "open" /\ h.dead = 0 /\ h.reason = "NONE"
              /\ h.keys = Key /\ h.stat = C[i].stat
            BY <1>3, <1>4, <1>7 DEF ConnState, With
        <2>3. (\A p \in Pipe : C[i].stat[p] = 1) /\ C[i].t = "open"
            BY <1>1, <1>2, <1>7 DEF Alive, Key
        <2>4. c.cookie = {}
            BY <1>1, <1>4, <2>3 DEF Alive, ConnState, Setup, Pipe, Key
        <2>5. Alive(h, "run")
            BY <1>1, <2>2, <2>3, <2>4 DEF Alive, Pipe, Key
        <2>6. Good(h, loop)
            BY <1>1, <2>1, <2>2, <2>5 DEF Good
        <2> QED
            BY <1>5, <1>7, <2>6, LaunchpipesInv
    <1>8. CASE ks = Key /\ w.t # "open" /\ Returns(i, c, 0)
        <2>1. Alive(c, "run")
            BY <1>1, <1>2, <1>4, <1>8 DEF Alive, Pipe, Key
        <2>2. loop' = "run"
            BY <1>1, <1>8 DEF Returns
        <2>3. Good(c, loop')
            BY <1>3, <1>4, <2>1, <2>2 DEF Good
        <2> QED
            BY <1>8, <2>3, ReturnsInv
    <1> QED
        BY <1>6, <1>7, <1>8 DEF callback_handshake_done

(* A connect that fails for want of memory keeps the invariant.            *)
LEMMA ConnectFatalInv ==
    ASSUME Inv, NEW i \in Conn, connect_fatal(i)
    PROVE  Inv'
    <1> DEFINE c == [C[i] EXCEPT !.live = @ \ {"connect"}]
    <1>1. /\ C[i] \in ConnState /\ C[i].mem = "alloc"
          /\ Alive(C[i], "run") /\ C[i].live = C[i].cookie
        BY RunsAlive DEF connect_fatal
    <1>2. Returns(i, c, 1) /\ loop' = "stop"
        BY DEF connect_fatal, Returns
    <1>3. /\ c \in ConnState /\ c.mem = "alloc"
          /\ Alive(c, "stop")
        BY <1>1 DEF ConnState, Alive
    <1>4. Good(c, loop')
        BY <1>2, <1>3 DEF Good
    <1> QED
        BY <1>2, <1>4, ReturnsInv

(* The two timeouts keep the invariant.                                    *)
LEMMA TimeoutInv ==
    ASSUME Inv, NEW i \in Conn,
           NEW op \in {"connect_timeout", "handshake_timeout"}, Runs(i, op),
           proto_conn_drop(i, Without(C[i], {op}), "ERROR")
    PROVE  Inv'
    <1>1. /\ C[i] \in ConnState /\ Alive(C[i], "run")
        BY RunsAlive
    <1>2. Droppable(Without(C[i], {op}))
        BY <1>1, Zenon DEF Droppable, Without, Alive, ConnState
    <1> QED
        BY <1>2, DropInv

(* callback_pipestatus keeps the invariant: it drops the connection once   *)
(* neither direction is alive, and on the first error.                     *)
LEMMA PipeStatusInv ==
    ASSUME Inv, NEW i \in Conn, NEW p \in Pipe, NEW st \in {0, -1},
           PipeStatus(i, p, st)
    PROVE  Inv'
    <1> DEFINE c == [C[i] EXCEPT !.stat[p] = st]
    <1>1. /\ C[i] \in ConnState /\ C[i].mem = "alloc" /\ loop = "run"
          /\ Alive(C[i], "run") /\ p \in C[i].cookie
        BY RunsAlive DEF PipeStatus
    <1>2. /\ c \in ConnState /\ c.mem = "alloc" /\ c.decr = C[i].decr
          /\ c.sas = C[i].sas /\ c.addrs = C[i].addrs /\ c.t = C[i].t
          /\ c.live = C[i].live /\ c.cookie = C[i].cookie
          /\ c.s = "open" /\ c.dead = 0 /\ c.reason = "NONE"
          /\ c.keys = C[i].keys /\ c.stat = [C[i].stat EXCEPT ![p] = st]
        BY <1>1 DEF ConnState, Alive
    <1>3. Droppable(c)
        BY <1>1, <1>2 DEF Droppable, Alive
    <1>4. CASE proto_conn_drop(i, c, "ERROR") \/ proto_conn_drop(i, c, "CLOSED")
        BY <1>3, <1>4, DropInv
    <1>5. CASE /\ ~ \E q \in Pipe : c.stat[q] = -1
               /\ ~ \A q \in Pipe : c.stat[q] = 0
               /\ Returns(i, c, 0)
        <2>1. C[i].stat \in [Pipe -> {1, 0, -1}] /\ c.stat \in [Pipe -> {1, 0, -1}]
            BY <1>1, <1>2 DEF ConnState
        <2>2. \E q \in Pipe : c.stat[q] = 1
            BY <1>5, <2>1
        <2>3. c.t = "open" /\ c.keys = Key
            BY <1>1, <1>2 DEF Alive
        <2>4. Alive(c, "run")
            BY <1>1, <1>2, <1>5, <2>2, <2>3 DEF Alive
        <2>5. loop' = "run"
            BY <1>1, <1>5 DEF Returns
        <2>6. Good(c, loop')
            BY <1>2, <2>4, <2>5 DEF Good
        <2> QED
            BY <1>5, <2>6, ReturnsInv
    <1> QED
        BY <1>4, <1>5 DEF PipeStatus, callback_pipestatus

(* A pipe that reports an internal error keeps the invariant.              *)
LEMMA PipeErrorInv ==
    ASSUME Inv, NEW i \in Conn, NEW p \in Pipe, PipeError(i, p)
    PROVE  Inv'
    <1>1. C[i] \in ConnState /\ Alive(C[i], "run")
        BY RunsAlive DEF PipeError
    <1>2. Droppable([C[i] EXCEPT !.stat[p] = -1])
        BY <1>1 DEF Droppable, Alive, ConnState
    <1> QED
        BY <1>2, FailInv DEF PipeError

(* A drop that the owner of the connection asks for keeps the invariant.   *)
LEMMA OwnerDropInv ==
    ASSUME Inv, NEW i \in Conn, owner_drop(i)
    PROVE  Inv'
    <1>1. Good(C[i], loop) /\ C[i].mem = "alloc"
        BY DEF Inv, owner_drop
    <1>2. Droppable(C[i])
        BY <1>1, AliveDroppable
    <1> QED
        BY <1>2, DropInv DEF owner_drop
-----------------------------------------------------------------------------
(* The invariant holds before any connection is made.                      *)
LEMMA InitInv ==
    ASSUME Init
    PROVE  Inv
    <1>1. PICK d \in BOOLEAN : C = [i \in Conn |-> New(d)]
        BY DEF Init
    <1>2. New(d) \in ConnState /\ New(d).mem = "none" /\ Fresh(New(d))
        BY DEF New, ConnState, Fresh
    <1>3. Good(New(d), loop)
        BY <1>2 DEF Good
    <1> QED
        BY <1>1, <1>3 DEF Init, Inv

(* Every step of one connection keeps the invariant.                       *)
LEMMA ConnNextInv ==
    ASSUME Inv, NEW i \in Conn, ConnNext(i)
    PROVE  Inv'
    <1>1. ASSUME NEW ops \in SUBSET Setup, proto_conn_create(i, ops)
          PROVE  Inv'
        BY <1>1, CreateInv
    <1>2. ASSUME NEW tt \in {"none", "open"}, callback_connect_done(i, tt)
          PROVE  Inv'
        BY <1>2, ConnectDoneInv
    <1>3. CASE connect_fatal(i)
        BY <1>3, ConnectFatalInv
    <1>4. CASE callback_connect_timeout(i)
        BY <1>4, TimeoutInv DEF callback_connect_timeout
    <1>5. ASSUME NEW ks \in {{}, Key}, callback_handshake_done(i, ks)
          PROVE  Inv'
        BY <1>5, HandshakeDoneInv
    <1>6. CASE callback_handshake_timeout(i)
        BY <1>6, TimeoutInv DEF callback_handshake_timeout
    <1>7. ASSUME NEW p \in Pipe, NEW st \in {0, -1}, PipeStatus(i, p, st)
          PROVE  Inv'
        BY <1>7, PipeStatusInv
    <1>8. ASSUME NEW p \in Pipe, PipeError(i, p)
          PROVE  Inv'
        BY <1>8, PipeErrorInv
    <1>9. CASE owner_drop(i)
        BY <1>9, OwnerDropInv
    <1> QED
        BY <1>1, <1>2, <1>3, <1>4, <1>5, <1>6, <1>7, <1>8, <1>9 DEF ConnNext

(* Every step of the system does.                                          *)
LEMMA NextInv ==
    ASSUME Inv, [Next]_connvars
    PROVE  Inv'
    <1>1. ASSUME NEW i \in Conn, ConnNext(i)
          PROVE  Inv'
        BY <1>1, ConnNextInv
    <1>2. CASE events_spin_ends
        BY <1>2 DEF events_spin_ends, Inv, Good, Alive
    <1>3. CASE UNCHANGED connvars
        BY <1>3 DEF connvars, Inv
    <1> QED
        BY <1>1, <1>2, <1>3 DEF Next

(* So the invariant always holds.                                          *)
LEMMA InvAlways == Spec => []Inv
    BY InitInv, NextInv, PTL DEF Spec

(* For any connections and any order of their callbacks: no operation      *)
(* outlives the conn_state that would be called back, every cancellation   *)
(* of proto_conn_drop finds its operation (but a connect attempt that died *)
(* with the loop), everything a connection owns is released once, and      *)
(* callback_dead is called once.                                           *)
THEOREM ConnectionsAreClean ==
    Spec => [](TypeOK /\ ConnectionIsClean)
    <1>1. Inv => TypeOK /\ ConnectionIsClean
        <2> SUFFICES ASSUME Inv
                     PROVE  TypeOK /\ ConnectionIsClean
            OBVIOUS
        <2>1. TypeOK
            BY DEF TypeOK, Inv, Good
        <2>2. CookiesMatch
            <3>1. ASSUME NEW i \in Conn, C[i].mem = "alloc"
                  PROVE  /\ C[i].live \subseteq C[i].cookie
                         /\ C[i].cookie \ {"connect"} \subseteq C[i].live
                         /\ loop = "run" => C[i].cookie \subseteq C[i].live
                BY <3>1 DEF Inv, Good, Alive
            <3> QED
                BY <3>1, Zenon DEF CookiesMatch
        <2>3. NoLateCallback
            BY DEF NoLateCallback, Inv, Good, ConnState, Fresh, Gone
        <2>4. DroppedReleasesAll
            BY DEF DroppedReleasesAll, Inv, Good, Gone
        <2>5. OwnsWhatItNames
            BY DEF OwnsWhatItNames, Inv, Good, Alive
        <2> QED
            BY <2>1, <2>2, <2>3, <2>4, <2>5 DEF ConnectionIsClean, ReleasedOnce
    <1> QED
        BY <1>1, InvAlways, PTL

(* A connection in its set-up always has a timer running for each          *)
(* operation it waits for, and its pipes run exactly when it is connected  *)
(* and has its keys: no order of callbacks leaves it with nothing to wait  *)
(* for.                                                                    *)
THEOREM ConnectionsNeverWedge ==
    Spec => []SetupGuarded
    <1>1. Inv => SetupGuarded
        <2> SUFFICES ASSUME Inv
                     PROVE  TimerGuardsOperation /\ PipesExactlyWhenReady
            BY DEF SetupGuarded
        <2>1. TimerGuardsOperation
            BY DEF TimerGuardsOperation, Inv, Good, Alive
        <2>2. PipesExactlyWhenReady
            BY DEF PipesExactlyWhenReady, Inv, Good, Alive, Pipe, Key
        <2> QED
            BY <2>1, <2>2
    <1> QED
        BY <1>1, InvAlways, PTL
-----------------------------------------------------------------------------
(* The refinement.  What a step may do to the connection it changes, in    *)
(* the terms of Connection.                                                *)
AbstractStep(i, c) ==
    LET keep == Eof(c) = Eof(C[i]) /\ c.reason = C[i].reason
    IN  \/ Phase(c) = Phase(C[i]) /\ keep
        \/ Phase(C[i]) = "none" /\ Phase(c) \in {"setup", "refused"} /\ keep
        \/ Phase(C[i]) = "setup" /\ Phase(c) = "open" /\ keep
        \/ /\ Phase(C[i]) = "open" /\ Phase(c) = "open"
           /\ Eof(C[i]) = {} /\ Eof(c) \in {{"f"}, {"r"}}
           /\ c.reason = C[i].reason
        \/ /\ Phase(C[i]) = "open" /\ Phase(c) = "dead"
           /\ Eof(C[i]) # {} /\ Eof(c) = {"f", "r"}
           /\ c.reason = "CLOSED"
        \/ /\ Phase(C[i]) \in {"setup", "open"} /\ Phase(c) = "dead"
           /\ Eof(c) = Eof(C[i])
           /\ c.reason \in {"CONNECT_FAILED", "HANDSHAKE_FAILED", "ERROR",
                            "CANCELLED"}
           /\ c.reason \in {"CONNECT_FAILED", "HANDSHAKE_FAILED"} =>
                 Phase(C[i]) = "setup"

(* A step of one connection that the abstract connection may take is a     *)
(* step of the abstract system.                                            *)
LEMMA ReturnsAbstract ==
    ASSUME Inv, NEW i \in Conn, NEW c, NEW rc \in {0, 1},
           Returns(i, c, rc), AbstractStep(i, c)
    PROVE  [Abstract!Next]_Abstract!convars
    <1> DEFINE ph == [k \in Conn |-> Phase(C[k])]
               eo == [k \in Conn |-> Eof(C[k])]
               re == [k \in Conn |-> C[k].reason]
    <1>1. C' = [C EXCEPT ![i] = c] /\ DOMAIN C = Conn
        BY DEF Returns, Inv
    <1>2. \A k \in Conn : C'[k] = IF k = i THEN c ELSE C[k]
        BY <1>1 DEF Inv
    <1>3. ph' = [ph EXCEPT ![i] = Phase(c)]
        BY <1>2, Zenon
    <1>4. eo' = [eo EXCEPT ![i] = Eof(c)]
        BY <1>2, Zenon
    <1>5. re' = [re EXCEPT ![i] = c.reason]
        BY <1>2, Zenon
    <1>6. ph[i] = Phase(C[i]) /\ eo[i] = Eof(C[i]) /\ re[i] = C[i].reason
        OBVIOUS
    <1>7. \/ ph' = ph /\ eo' = eo /\ re' = re
          \/ Abstract!Next
        <2> HIDE DEF ph, eo, re
        <2>1. /\ DOMAIN ph = Conn /\ DOMAIN eo = Conn /\ DOMAIN re = Conn
              /\ ph = [k \in Conn |-> ph[k]] /\ eo = [k \in Conn |-> eo[k]]
              /\ re = [k \in Conn |-> re[k]]
            BY DEF ph, eo, re
        <2>2. CASE /\ Phase(c) = Phase(C[i])
                   /\ Eof(c) = Eof(C[i]) /\ c.reason = C[i].reason
            BY <1>3, <1>4, <1>5, <1>6, <2>1, <2>2, Zenon
        <2>3. CASE Phase(C[i]) = "none" /\ Phase(c) \in {"setup", "refused"}
                   /\ Eof(c) = Eof(C[i]) /\ c.reason = C[i].reason
            <3>1. eo' = eo /\ re' = re
                BY <1>4, <1>5, <1>6, <2>1, <2>3, Zenon
            <3>2. Abstract!Create(i)
                BY <1>3, <1>6, <2>3, <3>1, Zenon DEF Abstract!Create, Abstract!Begin,
                   Abstract!Refuse, ph,
                   eo, re
            <3> QED
                BY <3>2 DEF Abstract!Next
        <2>4. CASE Phase(C[i]) = "setup" /\ Phase(c) = "open"
                   /\ Eof(c) = Eof(C[i]) /\ c.reason = C[i].reason
            <3>1. eo' = eo /\ re' = re
                BY <1>4, <1>5, <1>6, <2>1, <2>4, Zenon
            <3>2. Abstract!Establish(i)
                BY <1>3, <1>6, <2>4, <3>1 DEF Abstract!Establish, ph, eo, re
            <3> QED
                BY <3>2 DEF Abstract!Next
        <2>5. CASE /\ Phase(C[i]) = "open" /\ Phase(c) = "open"
                   /\ Eof(C[i]) = {} /\ Eof(c) \in {{"f"}, {"r"}}
                   /\ c.reason = C[i].reason
            <3>1. ph' = ph /\ re' = re
                BY <1>3, <1>5, <1>6, <2>1, <2>5, Zenon
            <3>2. PICK d \in {"f", "r"} : Eof(c) = {d}
                BY <2>5
            <3>3. Abstract!HalfClose(i, d)
                BY <1>4, <1>6, <2>5, <3>1, <3>2
                DEF Abstract!HalfClose, ph, eo, re
            <3> QED
                BY <3>3 DEF Abstract!Next, Abstract!Direction
        <2>6. CASE /\ Phase(C[i]) = "open" /\ Phase(c) = "dead"
                   /\ Eof(C[i]) # {} /\ Eof(c) = {"f", "r"}
                   /\ c.reason = "CLOSED"
            <3>1. Abstract!Close(i)
                BY <1>3, <1>4, <1>5, <1>6, <2>6
                DEF Abstract!Close, Abstract!Direction, ph, eo, re
            <3> QED
                BY <3>1 DEF Abstract!Next
        <2>7. CASE /\ Phase(C[i]) \in {"setup", "open"} /\ Phase(c) = "dead"
                   /\ Eof(c) = Eof(C[i])
                   /\ c.reason \in {"CONNECT_FAILED", "HANDSHAKE_FAILED",
                                    "ERROR", "CANCELLED"}
                   /\ c.reason \in {"CONNECT_FAILED", "HANDSHAKE_FAILED"} =>
                         Phase(C[i]) = "setup"
            <3>1. eo' = eo
                BY <1>4, <1>6, <2>1, <2>7
            <3>2. Abstract!Die(i, c.reason)
                BY <1>3, <1>5, <1>6, <2>7, <3>1 DEF Abstract!Die, ph, eo, re
            <3>3. c.reason \in Abstract!Reason \ {"CLOSED"}
                BY <2>7 DEF Abstract!Reason
            <3> QED
                BY <3>2, <3>3 DEF Abstract!Next
        <2> QED
            BY <2>2, <2>3, <2>4, <2>5, <2>6, <2>7 DEF AbstractStep
    <1> QED
        BY <1>7 DEF Abstract!convars
(* Dropping connection i for a reason other than CLOSED, with its statuses *)
(* as they were, is a Die step.                                            *)
LEMMA DieAbstract ==
    ASSUME Inv, NEW i \in Conn, C[i].mem = "alloc",
           NEW c, Eof(c) = Eof(C[i]),
           NEW why \in {"CONNECT_FAILED", "HANDSHAKE_FAILED", "ERROR", "CANCELLED"},
           why \in {"CONNECT_FAILED", "HANDSHAKE_FAILED"} => C[i].cookie # Pipe,
           NEW rc \in {0, 1}, Returns(i, dropped(c, why), rc)
    PROVE  [Abstract!Next]_Abstract!convars
    <1>1. Phase(dropped(c, why)) = "dead" /\ dropped(c, why).reason = why
        BY DEF Phase, dropped
    <1>2. Eof(dropped(c, why)) = Eof(C[i])
        BY DEF Eof, dropped
    <1>3. /\ Phase(C[i]) \in {"setup", "open"}
          /\ why \in {"CONNECT_FAILED", "HANDSHAKE_FAILED"} => Phase(C[i]) = "setup"
        BY DEF Phase
    <1>4. AbstractStep(i, dropped(c, why))
        BY <1>1, <1>2, <1>3 DEF AbstractStep
    <1> QED
        BY <1>4, ReturnsAbstract

(* launchpipes takes the abstract connection from its setup to transfer,   *)
(* or closes it.                                                           *)
LEMMA LaunchAbstract ==
    ASSUME Inv, NEW i \in Conn, C[i].mem = "alloc", C[i].cookie # Pipe,
           NEW c \in ConnState, c.mem = "alloc", c.cookie \cap Setup = {},
           c.stat = C[i].stat, c.reason = C[i].reason, launchpipes(i, c)
    PROVE  [Abstract!Next]_Abstract!convars
    <1>1. CASE Returns(i, With(c, Pipe), 0)
        <2>1. With(c, Pipe).cookie = Pipe
            BY DEF With, ConnState
        <2>2. /\ With(c, Pipe).mem = "alloc" /\ With(c, Pipe).stat = C[i].stat
              /\ With(c, Pipe).reason = C[i].reason
            BY DEF With, ConnState
        <2>3. Phase(With(c, Pipe)) = "open" /\ Phase(C[i]) = "setup"
            BY <2>1, <2>2 DEF Phase
        <2>4. Eof(With(c, Pipe)) = Eof(C[i])
            BY <2>2 DEF Eof
        <2>5. AbstractStep(i, With(c, Pipe))
            BY <2>2, <2>3, <2>4 DEF AbstractStep
        <2> QED
            BY <1>1, <2>5, ReturnsAbstract
    <1>2. ASSUME NEW made \in {{}, {"pipe_f"}},
                 Returns(i, dropped(With(c, made), "ERROR"), 1)
          PROVE  [Abstract!Next]_Abstract!convars
        <2>1. Eof(With(c, made)) = Eof(C[i])
            BY DEF With, ConnState, Eof
        <2> QED
            BY <1>2, <2>1, DieAbstract
    <1> QED
        BY <1>1, <1>2 DEF launchpipes

(* Every step of one connection is a step of the abstract system, or none. *)
LEMMA ConnNextAbstract ==
    ASSUME Inv, NEW i \in Conn, ConnNext(i)
    PROVE  [Abstract!Next]_Abstract!convars
    <1>1. Good(C[i], loop) /\ C[i] \in ConnState
        BY DEF Inv, Good
    <1>2. ASSUME NEW ops \in SUBSET Setup, proto_conn_create(i, ops)
          PROVE  [Abstract!Next]_Abstract!convars
        <2> DEFINE a == [With(C[i], ops) EXCEPT
                            !.mem = "alloc", !.sas = TRUE, !.addrs = "held"]
                   r == [C[i] EXCEPT !.mem = "refused", !.live = Unwound(ops)]
        <2>1. C[i].mem = "none" /\ Fresh(C[i])
            BY <1>2, <1>1 DEF proto_conn_create, Good
        <2>2. /\ a.mem = "alloc" /\ a.cookie = ops
              /\ a.stat = C[i].stat /\ a.reason = C[i].reason
            BY <1>1, <2>1 DEF With, ConnState, Fresh
        <2>3. /\ r.mem = "refused" /\ r.stat = C[i].stat /\ r.reason = C[i].reason
            BY <1>1 DEF ConnState
        <2>4. Phase(a) = "setup" /\ Phase(r) = "refused" /\ Phase(C[i]) = "none"
            BY <2>1, <2>2, <2>3 DEF Phase, Setup, Pipe
        <2>5. Eof(a) = Eof(C[i]) /\ Eof(r) = Eof(C[i])
            BY <2>2, <2>3 DEF Eof
        <2>6. AbstractStep(i, a) /\ AbstractStep(i, r)
            BY <2>2, <2>3, <2>4, <2>5 DEF AbstractStep
        <2>7. Returns(i, a, 0) \/ Returns(i, r, 1)
            BY <1>2 DEF proto_conn_create
        <2> QED
            BY <2>6, <2>7, ReturnsAbstract
    <1>3. ASSUME NEW tt \in {"none", "open"}, callback_connect_done(i, tt)
          PROVE  [Abstract!Next]_Abstract!convars
        <2> DEFINE w == Without(C[i], {"connect", "connect_timeout"})
                   c == [w EXCEPT !.sas = FALSE, !.addrs = "freed", !.t = tt]
                   h == With(c, {"handshake", "handshake_timeout"})
        <2>1. /\ C[i].mem = "alloc" /\ Alive(C[i], "run")
              /\ "connect" \in C[i].cookie
            BY <1>3, RunsAlive DEF callback_connect_done
        <2>2. w \in ConnState
            BY <1>1, Zenon DEF ConnState, Without
        <2>3. /\ c \in ConnState /\ c.mem = "alloc"
              /\ c.cookie = C[i].cookie \ {"connect", "connect_timeout"}
              /\ c.stat = C[i].stat /\ c.reason = C[i].reason
              /\ c.keys = C[i].keys
            BY <1>1, <2>1, <2>2, Zenon DEF ConnState, Without
        <2>4. Eof(c) = Eof(C[i]) /\ C[i].cookie # Pipe /\ Phase(C[i]) = "setup"
            BY <2>1, <2>3 DEF Eof, Phase, Pipe
        <2>5. CASE proto_conn_drop(i, c, "CONNECT_FAILED")
            BY <2>1, <2>4, <2>5, DieAbstract DEF proto_conn_drop
        <2>6. CASE Returns(i, dropped(c, "ERROR"), 1)
            BY <2>1, <2>4, <2>6, DieAbstract
        <2>7. CASE Returns(i, h, 0)
            <3>1. /\ h.mem = "alloc" /\ "handshake" \in h.cookie
                  /\ h.stat = C[i].stat /\ h.reason = C[i].reason
                BY <2>3 DEF ConnState, With
            <3>2. AbstractStep(i, h)
                BY <2>4, <3>1 DEF AbstractStep, Phase, Eof, Pipe
            <3> QED
                BY <2>7, <3>2, ReturnsAbstract
        <2>8. CASE c.keys = Key /\ launchpipes(i, c)
            <3>1. c.cookie \cap Setup = {}
                BY <2>1, <2>3, <2>8 DEF Alive, Setup, Key
            <3> QED
                BY <2>1, <2>3, <2>4, <2>8, <3>1, LaunchAbstract, Zenon
        <2>9. CASE tt = "open" /\ c.decr /\ c.keys # Key /\ Returns(i, c, 0)
            <3>1. "handshake" \in c.cookie
                BY <1>1, <2>1, <2>3, <2>9 DEF Alive, Without, ConnState
            <3>2. AbstractStep(i, c)
                BY <2>3, <2>4, <3>1 DEF AbstractStep, Phase, Pipe
            <3> QED
                BY <2>9, <3>2, ReturnsAbstract
        <2> QED
            BY <1>3, <2>5, <2>6, <2>7, <2>8, <2>9
            DEF callback_connect_done, starthandshake
    <1>4. CASE connect_fatal(i)
        <2> DEFINE c == [C[i] EXCEPT !.live = @ \ {"connect"}]
        <2>1. /\ c.mem = C[i].mem /\ c.cookie = C[i].cookie
              /\ c.stat = C[i].stat /\ c.reason = C[i].reason
            BY <1>1 DEF ConnState
        <2>2. AbstractStep(i, c)
            BY <2>1 DEF AbstractStep, Phase, Eof
        <2> QED
            BY <1>4, <2>2, ReturnsAbstract DEF connect_fatal
    <1>5. CASE callback_connect_timeout(i) \/ callback_handshake_timeout(i)
        <2>1. PICK op \in {"connect_timeout", "handshake_timeout"} :
                 Runs(i, op) /\ proto_conn_drop(i, Without(C[i], {op}), "ERROR")
            BY <1>5 DEF callback_connect_timeout, callback_handshake_timeout
        <2>2. C[i].mem = "alloc"
            BY <2>1, RunsAlive
        <2>3. Eof(Without(C[i], {op})) = Eof(C[i])
            BY <1>1 DEF Without, ConnState, Eof
        <2> QED
            BY <2>1, <2>2, <2>3, DieAbstract DEF proto_conn_drop
    <1>6. ASSUME NEW ks \in {{}, Key}, callback_handshake_done(i, ks)
          PROVE  [Abstract!Next]_Abstract!convars
        <2> DEFINE w == Without(C[i], {"handshake", "handshake_timeout"})
                   c == [w EXCEPT !.keys = ks]
        <2>1. /\ C[i].mem = "alloc" /\ Alive(C[i], "run")
              /\ "handshake" \in C[i].cookie
            BY <1>6, RunsAlive DEF callback_handshake_done
        <2>2. w \in ConnState /\ w.stat = C[i].stat /\ w.t = C[i].t
            BY <1>1, Zenon DEF ConnState, Without
        <2>3. /\ c \in ConnState /\ c.mem = "alloc"
              /\ c.cookie = C[i].cookie \ {"handshake", "handshake_timeout"}
              /\ c.stat = C[i].stat /\ c.reason = C[i].reason
            BY <1>1, <2>1, <2>2, Zenon DEF ConnState, Without, Key
        <2>4. /\ Eof(c) = Eof(C[i]) /\ Eof(w) = Eof(C[i])
              /\ C[i].cookie # Pipe /\ Phase(C[i]) = "setup"
            BY <2>1, <2>2, <2>3 DEF Eof, Phase, Pipe
        <2>5. CASE proto_conn_drop(i, w, "HANDSHAKE_FAILED")
            BY <2>1, <2>4, <2>5, DieAbstract DEF proto_conn_drop
        <2>6. CASE w.t = "open" /\ launchpipes(i, c)
            <3>1. c.cookie \cap Setup = {}
                BY <2>1, <2>2, <2>3, <2>6 DEF Alive, Setup
            <3> QED
                BY <2>1, <2>3, <2>4, <2>6, <3>1, LaunchAbstract, Zenon
        <2>7. CASE w.t # "open" /\ Returns(i, c, 0)
            <3>1. "connect" \in c.cookie
                BY <2>1, <2>2, <2>3, <2>7 DEF Alive
            <3>2. AbstractStep(i, c)
                BY <2>3, <2>4, <3>1 DEF AbstractStep, Phase, Pipe
            <3> QED
                BY <2>7, <3>2, ReturnsAbstract
        <2> QED
            BY <1>6, <2>5, <2>6, <2>7 DEF callback_handshake_done
    <1>7. ASSUME NEW p \in Pipe, NEW st \in {0, -1}, Runs(i, p), C[i].stat[p] = 1
          PROVE  LET c == [C[i] EXCEPT !.stat[p] = st]
                 IN  /\ C[i].mem = "alloc" /\ Phase(C[i]) = "open"
                     /\ C[i].reason = "NONE" /\ c.reason = "NONE"
                     /\ c.mem = "alloc" /\ c.cookie = C[i].cookie
                     /\ c.stat = [C[i].stat EXCEPT ![p] = st]
                     /\ C[i].stat \in [Pipe -> {1, 0, -1}]
                     /\ \A q \in Pipe : C[i].stat[q] # -1
                     /\ st = -1 => Eof(c) = Eof(C[i])
        <2> DEFINE c == [C[i] EXCEPT !.stat[p] = st]
        <2>1. /\ C[i].mem = "alloc" /\ Alive(C[i], "run") /\ p \in C[i].cookie
            BY <1>7, RunsAlive
        <2>2. /\ C[i].cookie = Pipe /\ C[i].reason = "NONE"
              /\ \A q \in Pipe : C[i].stat[q] # -1
            BY <2>1 DEF Alive
        <2>3. /\ c.mem = "alloc" /\ c.cookie = C[i].cookie /\ c.reason = "NONE"
              /\ c.stat = [C[i].stat EXCEPT ![p] = st]
              /\ C[i].stat \in [Pipe -> {1, 0, -1}]
            BY <1>1, <2>1, <2>2 DEF ConnState
        <2>4. st = -1 => Eof(c) = Eof(C[i])
            BY <1>7, <2>3 DEF Eof, Pipe
        <2> QED
            BY <2>1, <2>2, <2>3, <2>4 DEF Phase
    <1>8. ASSUME NEW p \in Pipe, NEW st \in {0, -1}, PipeStatus(i, p, st)
          PROVE  [Abstract!Next]_Abstract!convars
        <2> DEFINE c == [C[i] EXCEPT !.stat[p] = st]
        <2>1. /\ C[i].mem = "alloc" /\ Phase(C[i]) = "open"
              /\ C[i].reason = "NONE" /\ c.reason = "NONE"
              /\ c.mem = "alloc" /\ c.cookie = C[i].cookie
              /\ c.stat = [C[i].stat EXCEPT ![p] = st]
              /\ C[i].stat \in [Pipe -> {1, 0, -1}]
              /\ \A q \in Pipe : C[i].stat[q] # -1
              /\ st = -1 => Eof(c) = Eof(C[i])
              /\ C[i].stat[p] = 1
            BY <1>7, <1>8, Zenon DEF PipeStatus
        <2>2. CASE st = -1
            <3>1. c.stat[p] = -1
                BY <2>1, <2>2
            <3>2. proto_conn_drop(i, c, "ERROR")
                BY <1>8, <3>1 DEF PipeStatus, callback_pipestatus
            <3> QED
                BY <2>1, <2>2, <3>2, DieAbstract DEF proto_conn_drop
        <2>3. CASE st = 0 /\ \A q \in Pipe : c.stat[q] = 0
            <3>1. \A q \in Pipe : c.stat[q] # -1
                BY <2>3
            <3>2. PICK rc \in {0, 1} : Returns(i, dropped(c, "CLOSED"), rc)
                BY <1>8, <2>3, <3>1
                DEF PipeStatus, callback_pipestatus, proto_conn_drop
            <3>3. Eof(C[i]) # {}
                <4>1. PICK q \in Pipe : q # p
                    BY DEF Pipe
                <4>2. C[i].stat[q] = 0
                    BY <2>1, <2>3, <4>1
                <4> QED
                    BY <4>1, <4>2 DEF Eof, Pipe
            <3>4. Eof(dropped(c, "CLOSED")) = {"f", "r"}
                BY <2>3 DEF Eof, dropped, Pipe
            <3>5. AbstractStep(i, dropped(c, "CLOSED"))
                BY <2>1, <3>3, <3>4, Zenon DEF AbstractStep, Phase, dropped
            <3> QED
                BY <3>2, <3>5, ReturnsAbstract
        <2>4. CASE st = 0 /\ ~ \A q \in Pipe : c.stat[q] = 0
            <3>1. \A q \in Pipe : c.stat[q] # -1
                BY <2>1, <2>4
            <3>2. Returns(i, c, 0)
                BY <1>8, <2>4, <3>1 DEF PipeStatus, callback_pipestatus
            <3>3. Phase(c) = "open"
                BY <2>1 DEF Phase
            <3>4. Eof(C[i]) = {} /\ Eof(c) \in {{"f"}, {"r"}}
                BY <2>1, <2>4 DEF Eof, Pipe
            <3>5. AbstractStep(i, c)
                BY <2>1, <3>3, <3>4 DEF AbstractStep
            <3> QED
                BY <3>2, <3>5, ReturnsAbstract
        <2> QED
            BY <2>2, <2>3, <2>4
    <1>9. ASSUME NEW p \in Pipe, PipeError(i, p)
          PROVE  [Abstract!Next]_Abstract!convars
        <2>1. /\ C[i].mem = "alloc"
              /\ Eof([C[i] EXCEPT !.stat[p] = -1]) = Eof(C[i])
            BY <1>7, <1>9 DEF PipeError
        <2> QED
            BY <1>9, <2>1, DieAbstract DEF PipeError
    <1>10. CASE owner_drop(i)
        BY <1>10, DieAbstract DEF owner_drop, proto_conn_drop
    <1> QED
        BY <1>2, <1>3, <1>4, <1>5, <1>6, <1>8, <1>9, <1>10 DEF ConnNext

(* proto_conn.c implements Connection: whatever the order of callbacks,    *)
(* its owner sees a connection that is set up, is open, may be half        *)
(* closed, and dies once for the reason that Connection allows.            *)
THEOREM ConnectionRefinement == Spec => ImplementsConnection
    <1>1. Init => Abstract!Init
        <2> SUFFICES ASSUME Init
                     PROVE  Abstract!Init
            OBVIOUS
        <2>1. PICK d \in BOOLEAN : C = [i \in Conn |-> New(d)]
            BY DEF Init
        <2>2. Phase(New(d)) = "none" /\ Eof(New(d)) = {} /\ New(d).reason = "NONE"
            BY DEF Phase, Eof, New, Pipe
        <2> QED
            BY <2>1, <2>2 DEF Abstract!Init
    <1>2. Inv /\ [Next]_connvars => [Abstract!Next]_Abstract!convars
        <2> SUFFICES ASSUME Inv, [Next]_connvars
                     PROVE  [Abstract!Next]_Abstract!convars
            OBVIOUS
        <2>1. ASSUME NEW i \in Conn, ConnNext(i)
              PROVE  [Abstract!Next]_Abstract!convars
            BY <2>1, ConnNextAbstract
        <2>2. CASE events_spin_ends \/ UNCHANGED connvars
            BY <2>2 DEF events_spin_ends, connvars, Abstract!convars
        <2> QED
            BY <2>1, <2>2 DEF Next
    <1> QED
        BY <1>1, <1>2, InvAlways, PTL DEF Spec, ImplementsConnection, Abstract!Spec

-----------------------------------------------------------------------------
(* DnsThread.  Two invariants, one for any user of the thread and one for  *)
(* users who wait for the answer before they ask again.                    *)

(* Who holds the mutex, and what the worker's place says about the main    *)
(* thread's: the worker dies only when told to, and it is told to last.    *)
Life ==
    /\ mtx = "worker" <=> wpc \in {"loop", "answered"}
    /\ mtx = "main" <=> mpc = "spawned"
    /\ T = "freed" <=> wpc = "dead"
    /\ wpc = "none" => mpc \in {"spawn", "gone"}
    /\ mpc = "spawn" => wpc = "none"
    /\ state = "SUICIDE" => mpc \in {"join", "gone"}
    /\ wpc \in {"dying", "dead"} => state = "SUICIDE"
    /\ wpc = "waiting" => state = "SLEEPING"

(* The inductive invariant of the thread and its controller.               *)
Safe == DnsTypeOK /\ Life

(* It holds before the thread is created.                                  *)
LEMMA SafeInit == DnsInit => Safe
<1> SUFFICES ASSUME DnsInit PROVE Safe
    OBVIOUS
<1>1. registered \in BOOLEAN /\ user \in User
    BY RequestAssumption, Zenon DEF DnsInit
<1>2. DnsTypeOK
    BY <1>1 DEF DnsInit, DnsTypeOK
<1>3. Life
    BY DEF DnsInit, Life
<1> QED
    BY <1>2, <1>3 DEF Safe

(* Every step of the program, of the worker and of the condition variable  *)
(* keeps it.                                                               *)
LEMMA SafeStep == Safe /\ [DnsNext]_dnsthreadvars => Safe'
<1> SUFFICES ASSUME Safe, [DnsNext]_dnsthreadvars PROVE Safe'
    OBVIOUS
<1> USE DEF shared, local
<1>1. CASE Worker
    <2>1. CASE workthread_lock \/ workthread_wait \/ workthread_grab
        BY <2>1 DEF workthread_lock, workthread_wait, workthread_grab, Safe, DnsTypeOK, Life
    <2>2. CASE workthread_resolve \/ workthread_answer \/ workthread_sleep
        BY <2>2 DEF workthread_resolve, workthread_answer, workthread_sleep, Safe, DnsTypeOK, Life
    <2>3. CASE workthread_die \/ workthread_free
        BY <2>3 DEF workthread_die, workthread_free, Safe, DnsTypeOK, Life
    <2> QED
        BY <1>1, <2>1, <2>2, <2>3 DEF Worker
<1>2. CASE spurious_wakeup
    BY <1>2 DEF spurious_wakeup, Safe, DnsTypeOK, Life
<1>3. CASE dnsthread_spawn \/ dnsthread_spawn_unlock
    BY <1>3 DEF dnsthread_spawn, dnsthread_spawn_unlock, Safe, DnsTypeOK, Life
<1>4. CASE callback_resolveone_drain
    <2>1. wakeups' \in Nat
        BY <1>4 DEF callback_resolveone_drain, Safe, DnsTypeOK
    <2>2. registered' \in BOOLEAN
        BY <1>4, Zenon DEF callback_resolveone_drain
    <2> QED
        BY <1>4, <2>1, <2>2 DEF callback_resolveone_drain, Safe, DnsTypeOK, Life
<1>5. CASE callback_resolveone
    <2>1. status' \in [Request -> {"new", "asked", "refused", "answered", "wrong"}]
        BY <1>5, Zenon DEF callback_resolveone, Safe, DnsTypeOK
    <2> QED
        BY <1>5, <2>1 DEF callback_resolveone, Safe, DnsTypeOK, Life
<1>6. CASE pthread_join
    BY <1>6 DEF pthread_join, Safe, DnsTypeOK, Life
<1>7. CASE dnsthread_kill
    BY <1>7 DEF dnsthread_kill, pthread_cond_signal, Safe, DnsTypeOK, Life
<1>8. ASSUME NEW r \in Request,
             dnsthread_resolveone(r) \/ dnsthread_resolveone_ealready(r)
                \/ dnsthread_resolveone_strdup(r)
      PROVE  Safe'
    <2>1. status' \in [Request -> {"new", "asked", "refused", "answered", "wrong"}]
        BY <1>8 DEF dnsthread_resolveone, dnsthread_resolveone_ealready,
           dnsthread_resolveone_strdup, Safe, DnsTypeOK
    <2>2. CASE dnsthread_resolveone(r)
        BY <2>1, <2>2, Zenon DEF dnsthread_resolveone, MayAsk, AfterFailure, pthread_cond_signal,
           Safe, DnsTypeOK, Life
    <2>3. CASE dnsthread_resolveone_ealready(r)
        BY <2>1, <2>3 DEF dnsthread_resolveone_ealready, MayAsk, Safe, DnsTypeOK, Life
    <2>4. CASE dnsthread_resolveone_strdup(r)
        BY <2>1, <2>4 DEF dnsthread_resolveone_strdup, MayAsk, AfterFailure, Safe, DnsTypeOK, Life
    <2> QED
        BY <1>8, <2>2, <2>3, <2>4
<1>9. CASE UNCHANGED dnsthreadvars
    BY <1>9 DEF dnsthreadvars, Safe, DnsTypeOK, Life
<1> QED
    BY <1>1, <1>2, <1>3, <1>4, <1>5, <1>6, <1>7, <1>8, <1>9 DEF DnsNext, MainReturns

(* Whatever the caller does: T is freed when neither thread will use it    *)
(* again, and the worker sleeps only while there is nothing to do.         *)
THEOREM ThreadIsSafe == DnsSpec => [](DnsTypeOK /\ SharingIsSafe)
<1>1. Safe => DnsTypeOK /\ SharingIsSafe
    BY DEF SharingIsSafe, Safe, DnsTypeOK, Life, NoUseAfterFree, NoLostWakeup, UsesT
<1> QED
    BY <1>1, SafeInit, SafeStep, PTL DEF DnsSpec

-----------------------------------------------------------------------------
(* The request at hand, for a caller that waits for the answer: whose      *)
(* callback it is, what the worker has of it, and what the byte means.     *)
Working == wpc \in {"resolve", "relock", "answered"}

(* The request that is asked is the one whose callback is kept.            *)
Pending ==
    /\ \A r \in Request : status[r] = "asked" => r = cb
    /\ \A r \in Request : status[r] # "wrong"
    /\ registered => cb # NULL
    /\ registered /\ cb # NULL => status[cb] = "asked"
    /\ mpc = "callback" => cb # NULL /\ ~registered
    /\ mpc = "callback" /\ cb # NULL => status[cb] = "asked"

(* What the worker has in hand is that request, and its result is the      *)
(* answer to it.                                                           *)
Work ==
    /\ Working => state \in {"HASWORK", "SUICIDE"}
    /\ state = "HASWORK" => addr = cb /\ addr # NULL
    /\ wpc = "resolve" => addr = cb /\ addr # NULL /\ work = cb
    /\ wpc = "relock" => result \in {cb, NULL}
    /\ wpc = "answered" => sas \in {cb, NULL}

(* A byte in the socket pair says that the answer to the request is there. *)
Wakeup ==
    /\ mpc \in {"spawn", "spawned", "idle"} =>
         /\ wakeups \in {0, 1}
         /\ wakeups > 0 => registered /\ sas \in {cb, NULL} /\ (wpc = "answered" \/ ~Working)
         /\ wakeups > 0 /\ wpc # "answered" => state = "SLEEPING"
         /\ ~registered => state = "SLEEPING"
    /\ mpc = "callback" =>
         /\ sas \in {cb, NULL}
         /\ wakeups = 0
         /\ wpc # "answered" => state = "SLEEPING"

(* The inductive invariant, for a caller that waits for its answer.        *)
Answering == user # "eager" /\ Pending /\ Work /\ Wakeup

(* It holds before the first request.                                      *)
LEMMA AnsweringInit == ASSUME DnsInit, user # "eager" PROVE Answering
<1>1. user # "eager" /\ Pending
    BY DEF DnsInit, Pending
<1>2. Work /\ Wakeup
    BY DEF DnsInit, Work, Wakeup, Working
<1> QED
    BY <1>1, <1>2 DEF Answering

(* The steps of the worker thread keep it.                                 *)
LEMMA WorkerAnswers == ASSUME Safe, Answering, Worker \/ spurious_wakeup PROVE Answering'
<1> USE DEF shared, local, Answering
<1>1. user' # "eager" /\ UNCHANGED <<cb, status, registered, mpc, addr>>
    BY DEF Worker, spurious_wakeup, workthread_lock, workthread_wait, workthread_grab,
       workthread_resolve, workthread_answer, workthread_sleep, workthread_die, workthread_free
<1>2. Pending'
    BY <1>1 DEF Pending
<1>3. Work' /\ Wakeup'
    <2>1. CASE workthread_lock \/ workthread_wait \/ spurious_wakeup
        BY <2>1 DEF workthread_lock, workthread_wait, spurious_wakeup, Work, Wakeup, Working,
           Safe, DnsTypeOK
    <2>2. CASE workthread_grab
        BY <2>2 DEF workthread_grab, Work, Wakeup, Working, Safe, DnsTypeOK
    <2>3. CASE workthread_resolve
        BY <2>3 DEF workthread_resolve, Work, Wakeup, Working, Safe, DnsTypeOK
    <2>4. CASE workthread_answer
        BY <2>4 DEF workthread_answer, Work, Wakeup, Working, Safe, DnsTypeOK, Life
    <2>5. CASE workthread_sleep
        BY <2>5 DEF workthread_sleep, Work, Wakeup, Working, Safe, DnsTypeOK, Life
    <2>6. CASE workthread_die \/ workthread_free
        BY <2>6 DEF workthread_die, workthread_free, Work, Wakeup, Working, Safe, DnsTypeOK, Life
    <2> QED
        BY <2>1, <2>2, <2>3, <2>4, <2>5, <2>6 DEF Worker
<1> QED
    BY <1>1, <1>2, <1>3

(* A request keeps it, accepted or refused.                                *)
LEMMA RequestAnswers ==
    ASSUME Safe, Answering, NEW r \in Request,
           dnsthread_resolveone(r) \/ dnsthread_resolveone_ealready(r)
              \/ dnsthread_resolveone_strdup(r)
    PROVE  Answering'
<1> USE DEF shared, local, Answering
<1>1. mpc = "idle" /\ mtx = "none" /\ status[r] = "new" /\ user' # "eager"
    BY DEF dnsthread_resolveone, dnsthread_resolveone_ealready, dnsthread_resolveone_strdup, MayAsk
<1>2. \A q \in Request : status[q] # "asked"
    BY DEF dnsthread_resolveone, dnsthread_resolveone_ealready, dnsthread_resolveone_strdup,
       MayAsk, Safe, DnsTypeOK, User
<1>3. ~registered /\ wakeups = 0 /\ state = "SLEEPING" /\ ~Working
    BY <1>1, <1>2 DEF Pending, Wakeup, Work, Safe, DnsTypeOK
<1>4. r # NULL
    BY RequestAssumption
<1>5. CASE dnsthread_resolveone(r)
    <2>1. CASE registered' = TRUE /\ status' = [status EXCEPT ![r] = "asked"] /\ UNCHANGED mpc
        <3>1. Pending'
            BY <1>1, <1>2, <1>4, <1>5, <2>1 DEF dnsthread_resolveone, Pending, Safe, DnsTypeOK
        <3>2. Work' /\ Wakeup'
            BY <1>1, <1>3, <1>4, <1>5, <2>1 DEF dnsthread_resolveone, pthread_cond_signal,
               Work, Wakeup, Working, Safe, DnsTypeOK
        <3> QED
            BY <1>1, <3>1, <3>2
    <2>2. CASE /\ status' = [status EXCEPT ![r] = "refused"]
               /\ AfterFailure /\ UNCHANGED registered
        <3>1. Pending' /\ mpc' = "kill"
            BY <1>1, <1>2, <1>3, <1>5, <2>2 DEF dnsthread_resolveone, AfterFailure, Pending,
               Safe, DnsTypeOK
        <3>2. Work' /\ Wakeup'
            BY <1>1, <1>3, <1>4, <1>5, <2>2, <3>1 DEF dnsthread_resolveone,
               pthread_cond_signal, Work, Wakeup, Working, Safe, DnsTypeOK
        <3> QED
            BY <1>1, <3>1, <3>2
    <2> QED
        BY <1>5, <2>1, <2>2, Zenon DEF dnsthread_resolveone
<1>6. CASE dnsthread_resolveone_ealready(r)
    BY <1>3, <1>6 DEF dnsthread_resolveone_ealready
<1>7. CASE dnsthread_resolveone_strdup(r)
    <2>1. Pending' /\ mpc' = "kill"
        BY <1>1, <1>2, <1>3, <1>7 DEF dnsthread_resolveone_strdup, AfterFailure, Pending,
           Safe, DnsTypeOK
    <2>2. Work' /\ Wakeup'
        BY <1>1, <1>3, <1>7, <2>1 DEF dnsthread_resolveone_strdup, Work, Wakeup, Working,
           Safe, DnsTypeOK
    <2> QED
        BY <1>1, <2>1, <2>2
<1> QED
    BY <1>5, <1>6, <1>7

(* The other steps of the main thread keep it.                             *)
LEMMA MainAnswers ==
    ASSUME Safe, Answering, MainReturns \/ dnsthread_kill
    PROVE  Answering'
<1> USE DEF shared, local, Answering
<1>1. CASE dnsthread_spawn \/ dnsthread_spawn_unlock
    <2>1. Pending'
        BY <1>1 DEF dnsthread_spawn, dnsthread_spawn_unlock, Pending
    <2>2. Work' /\ Wakeup'
        BY <1>1 DEF dnsthread_spawn, dnsthread_spawn_unlock, Work, Wakeup, Working, Life, Safe
    <2> QED
        BY <1>1, <2>1, <2>2 DEF dnsthread_spawn, dnsthread_spawn_unlock
<1>2. CASE callback_resolveone_drain
    <2>1. registered /\ registered' = FALSE /\ wakeups = 1 /\ wakeups' = 0
        BY <1>2 DEF callback_resolveone_drain, Wakeup, Safe, DnsTypeOK
    <2>2. Pending'
        BY <1>2, <2>1 DEF callback_resolveone_drain, Pending
    <2>3. Work' /\ Wakeup'
        BY <1>2, <2>1 DEF callback_resolveone_drain, Work, Wakeup, Working
    <2> QED
        BY <1>2, <2>2, <2>3 DEF callback_resolveone_drain
<1>3. CASE callback_resolveone
    <2>1. state = "SLEEPING" /\ ~Working /\ wakeups = 0 /\ sas \in {cb, NULL}
        BY <1>3 DEF callback_resolveone, Wakeup, Work, Safe, Life
    <2>2. cb \in Request /\ status[cb] = "asked" /\ ~registered
        BY <1>3 DEF callback_resolveone, Pending, Safe, DnsTypeOK
    <2>3. status' = [status EXCEPT ![cb] = "answered"]
        BY <1>3, <2>1, <2>2 DEF callback_resolveone
    <2>4. Pending'
        BY <1>3, <2>2, <2>3 DEF callback_resolveone, Pending, Safe, DnsTypeOK
    <2>5. Work' /\ Wakeup'
        BY <1>3, <2>1 DEF callback_resolveone, Work, Wakeup, Working
    <2> QED
        BY <1>3, <2>4, <2>5 DEF callback_resolveone
<1>4. CASE pthread_join
    BY <1>4 DEF pthread_join, Pending, Work, Wakeup, Working
<1>5. CASE dnsthread_kill
    <2>1. Pending'
        BY <1>5 DEF dnsthread_kill, Pending
    <2>2. Work' /\ Wakeup'
        BY <1>5 DEF dnsthread_kill, pthread_cond_signal, Work, Wakeup, Working
    <2> QED
        BY <1>5, <2>1, <2>2 DEF dnsthread_kill
<1> QED
    BY <1>1, <1>2, <1>3, <1>4, <1>5 DEF MainReturns

(* For callers that wait for the answer: each request that was accepted is *)
(* answered at most once and with its own result, the worker's address is  *)
(* not freed under it, and callbacks find the worker asleep.               *)
THEOREM AnswersCorrect == DnsSpec => []AnswersAreRight
<1> DEFINE AnswersInv == Safe /\ (user = "eager" \/ Answering)
<1>1. DnsInit => AnswersInv
    BY SafeInit, AnsweringInit
<1>2. AnswersInv /\ [DnsNext]_dnsthreadvars => AnswersInv'
    <2> SUFFICES ASSUME Safe, user = "eager" \/ Answering, [DnsNext]_dnsthreadvars
                 PROVE  Safe' /\ (user = "eager" \/ Answering)'
        OBVIOUS
    <2>1. Safe'
        BY SafeStep
    <2>2. CASE user = "eager"
        <3>1. user' = user
            BY DEF DnsNext, dnsthreadvars, Worker, spurious_wakeup, MainReturns, workthread_lock,
               workthread_wait, workthread_grab, workthread_resolve, workthread_answer,
               workthread_sleep, workthread_die, workthread_free, dnsthread_spawn,
               dnsthread_spawn_unlock, callback_resolveone_drain, callback_resolveone,
               pthread_join, dnsthread_kill, dnsthread_resolveone,
               dnsthread_resolveone_ealready, dnsthread_resolveone_strdup
        <3> QED
            BY <2>1, <2>2, <3>1
    <2>3. CASE Answering /\ UNCHANGED dnsthreadvars
        BY <2>1, <2>3 DEF dnsthreadvars, shared, local, Answering, Pending, Work, Wakeup, Working
    <2>4. CASE Answering /\ DnsNext
        BY <2>1, <2>4, WorkerAnswers, RequestAnswers, MainAnswers DEF DnsNext
    <2> QED
        BY <2>2, <2>3, <2>4
<1>3. AnswersInv => AnswersAreRight
    BY DEF Safe, Life, Answering, Pending, Work, Wakeup, AnswersAreRight, OwnAnswer,
       AddressIsKept, CallbackMayAskAgain
<1> QED
    BY <1>1, <1>2, <1>3, PTL DEF DnsSpec

-----------------------------------------------------------------------------
(* NetworkConnect: one call of network_connect.                            *)

(* The states of a socket that is open.                                    *)
OpenSocket == {"connecting", "connected", "refused"}

(* All states of a socket.                                                 *)
SocketState == {"none", "unopened", "closed", "upstream"} \cup OpenSocket

(* The types of the counters and sockets of one call.                      *)
AttemptTypes ==
    /\ naddr \in 0 .. MaxAddr
    /\ nsas \in 1 .. (naddr + 1)
    /\ s \in Attempt!Addr \cup {-1}
    /\ sock \in [Attempt!Addr -> SocketState]
    /\ upstream \in Seq(Attempt!Addr \cup {-1})

(* The flags of the cookie and of the event loop.                          *)
AttemptFlags ==
    /\ timeo_enabled \in BOOLEAN /\ cookie_timeo \in BOOLEAN
    /\ cookie_immediate \in BOOLEAN /\ immediate \in BOOLEAN

(* Before network_connect is called.                                       *)
NotCalled ==
    /\ cookie = "none" /\ nsas = 1 /\ s = -1
    /\ ~cookie_immediate
    /\ \A a \in Attempt!Addr : sock[a] = "none"

(* The connect to the address sas is under way: its socket is open, and    *)
(* there is a callback for it and, with a time limit, a timer.             *)
WaitsForSocket ==
    /\ s = nsas /\ nsas <= naddr
    /\ sock[s] \in OpenSocket
    /\ ~cookie_immediate /\ ~immediate
    /\ writable = {s}
    /\ timers = IF timeo_enabled THEN 1 ELSE 0
    /\ cookie_timeo <=> timeo_enabled

(* All addresses were tried; the callback is only waiting to be called.    *)
AllRefused ==
    /\ s = -1 /\ nsas = naddr + 1
    /\ cookie_immediate /\ immediate
    /\ writable = {} /\ timers = 0 /\ ~cookie_timeo
    /\ nsas \in Attempt!Addr => sock[nsas] = "none"

(* The cookie of an attempt that is under way: the sockets of the          *)
(* addresses before sas are closed or were never opened, and those behind  *)
(* were not tried.                                                         *)
Attempting ==
    /\ cookie = "alive"
    /\ WaitsForSocket \/ AllRefused
    /\ \A a \in Attempt!Addr : a < nsas => sock[a] \in {"unopened", "closed"}
    /\ \A a \in Attempt!Addr : a > nsas => sock[a] = "none"

(* No cookie, nothing registered with the event loop, and no socket open.  *)
AttemptOver ==
    /\ cookie # "alive"
    /\ timers = 0 /\ ~immediate /\ writable = {}
    /\ \A a \in Attempt!Addr : sock[a] \notin OpenSocket

(* The inductive invariant: what the cookie and the event loop hold, by    *)
(* what the caller has been told.                                          *)
AttemptInv ==
    /\ AttemptTypes
    /\ AttemptFlags
    /\ \/ caller = "none" /\ NotCalled /\ AttemptOver
       \/ caller = "waiting" /\ Attempting
       \/ caller \in {"refused", "done", "cancelled"} /\ AttemptOver
       \/ caller = "waiting" /\ nloop = "failed" /\ AttemptOver

(* The invariant holds before network_connect is called.                   *)
LEMMA AttemptInit == Attempt!Init => AttemptInv
<1> SUFFICES ASSUME Attempt!Init PROVE AttemptInv
  OBVIOUS
<1> USE AddrAssumption DEF Attempt!Init
<1>1. AttemptFlags
  BY Zenon DEF AttemptFlags
<1>2. AttemptTypes
  BY DEF AttemptTypes, Attempt!Addr, SocketState
<1>3. NotCalled /\ AttemptOver
  BY DEF NotCalled, AttemptOver, OpenSocket, Attempt!Addr
<1> QED
  BY <1>1, <1>2, <1>3 DEF AttemptInv

(* tryconnect, which skips the addresses to which no connect can be begun: *)
(* it waits for the first socket that can, or for the callback; or it      *)
(* fails and leaves nothing behind.                                        *)
LEMMA TryStep ==
  ASSUME AttemptTypes, AttemptFlags,
         NEW a \in 1 .. (naddr + 1), NEW tm, NEW w, NEW sk \in [Attempt!Addr -> SocketState],
         NEW ok \in BOOLEAN,
         ~cookie_immediate, ~immediate, tm = 0, w = {},
         \A b \in Attempt!Addr : b < a => sk[b] \in {"unopened", "closed"},
         \A b \in Attempt!Addr : b >= a => sk[b] = "none",
         UNCHANGED upstream,
         Attempt!tryconnect(a, -1, FALSE, tm, w, sk, ok)
  PROVE  /\ AttemptTypes'
         /\ AttemptFlags'
         /\ ok => Attempting'
         /\ ~ok => AttemptOver'
<1>1. PICK k \in Attempt!Tries(a) : 
        /\ nsas' = k
        /\ \/ /\ k <= naddr /\ ok
              /\ cookie' = "alive"
              /\ s' = k
              /\ sock' = [Attempt!Skip(sk, a, k) EXCEPT ![k] = "connecting"]
              /\ cookie_timeo' = timeo_enabled
              /\ timers' = IF timeo_enabled THEN tm + 1 ELSE tm
              /\ writable' = w \cup {k}
              /\ UNCHANGED <<cookie_immediate, immediate>>
           \/ /\ k > naddr /\ ok
              /\ cookie' = "alive"
              /\ s' = -1
              /\ sock' = Attempt!Skip(sk, a, k)
              /\ cookie_timeo' = FALSE
              /\ timers' = tm
              /\ writable' = w
              /\ cookie_immediate' = TRUE /\ immediate' = TRUE
           \/ /\ ~ok
              /\ cookie' = "freed"
              /\ s' = IF k <= naddr THEN k ELSE -1
              /\ sock' = IF s' # -1 THEN [Attempt!Skip(sk, a, k) EXCEPT ![s'] = "closed"] ELSE Attempt!Skip(sk, a, k)
              /\ cookie_timeo' = FALSE
              /\ timers' = tm
              /\ writable' = w
              /\ UNCHANGED <<cookie_immediate, immediate>>
  BY DEF Attempt!tryconnect
<1>2. naddr' = naddr /\ timeo_enabled' = timeo_enabled
  BY DEF Attempt!tryconnect
<1>3. k \in 1 .. (naddr + 1) /\ k >= a /\ naddr \in 0 .. MaxAddr /\ MaxAddr \in Nat
  BY AddrAssumption DEF Attempt!Tries, AttemptTypes
<1>4. Attempt!Skip(sk, a, k) \in [Attempt!Addr -> SocketState]
  BY DEF Attempt!Skip, SocketState
<1>5. \A b \in Attempt!Addr : b < k => Attempt!Skip(sk, a, k)[b] \in {"unopened", "closed"}
  BY <1>3, AddrAssumption DEF Attempt!Skip, Attempt!Addr
<1>6. \A b \in Attempt!Addr : b >= k => Attempt!Skip(sk, a, k)[b] = "none"
  BY <1>3, AddrAssumption DEF Attempt!Skip, Attempt!Addr
<1>7. k <= naddr => k \in Attempt!Addr /\ k # -1
  BY <1>3 DEF Attempt!Addr
<1>8. AttemptFlags'
  <2>1. CASE ok /\ k <= naddr
    BY <1>1, <1>2, <2>1, Zenon DEF AttemptFlags
  <2> QED BY <1>1, <1>2, <1>3, Zenon DEF AttemptFlags
<1> HIDE DEF Attempt!Skip
<1>9. AttemptTypes'
  BY <1>1, <1>2, <1>3, <1>4, <1>7 DEF AttemptTypes, SocketState, OpenSocket
<1>10. ASSUME ok PROVE Attempting'
  <2>1. CASE k <= naddr
    <3>1. k \in Attempt!Addr /\ sock' = [Attempt!Skip(sk, a, k) EXCEPT ![k] = "connecting"]
      BY <1>1, <1>3, <1>7, <1>10, <2>1
    <3>2. sock'[k] = "connecting" /\ \A b \in Attempt!Addr \ {k} : sock'[b] = Attempt!Skip(sk, a, k)[b]
      BY <3>1, <1>4
    <3>3. \A b \in Attempt!Addr : (b < k => sock'[b] \in {"unopened", "closed"}) /\ (b > k => sock'[b] = "none")
      BY <3>2, <1>5, <1>6, <1>3 DEF Attempt!Addr
    <3>4. WaitsForSocket'
      BY <1>1, <1>2, <1>3, <1>10, <2>1, <3>2 DEF WaitsForSocket, OpenSocket, AttemptFlags
    <3> QED BY <3>3, <3>4, <1>1, <1>3, <1>10, <2>1 DEF Attempting
  <2>2. CASE k > naddr
    <3>1. AllRefused'
      BY <1>1, <1>2, <1>3, <1>6, <1>10, <2>2 DEF AllRefused
    <3> QED BY <3>1, <1>1, <1>3, <1>5, <1>6, <1>10, <2>2, AddrAssumption
         DEF Attempting, Attempt!Addr
  <2> QED BY <1>3, <2>1, <2>2
<1>11. ASSUME ~ok PROVE AttemptOver'
  <2>1. \A b \in Attempt!Addr : Attempt!Skip(sk, a, k)[b] \notin OpenSocket
    BY <1>3, <1>5, <1>6, AddrAssumption DEF OpenSocket, Attempt!Addr
  <2>2. \A b \in Attempt!Addr : sock'[b] \notin OpenSocket
    BY <2>1, <1>1, <1>3, <1>4, <1>7, <1>11 DEF OpenSocket
  <2> QED BY <2>2, <1>1, <1>11 DEF AttemptOver
<1> QED BY <1>8, <1>9, <1>10, <1>11

(* No socket but C->s is open.                                             *)
LEMMA OneSocket ==
  ASSUME AttemptTypes, Attempting, NEW a \in Attempt!Addr, a # s
  PROVE  sock[a] \notin OpenSocket
<1>1. a \in Int /\ nsas \in Int
  BY AddrAssumption DEF Attempt!Addr, AttemptTypes
<1>2. CASE a < nsas
  BY <1>2 DEF Attempting, OpenSocket
<1>3. CASE a > nsas
  BY <1>3 DEF Attempting, OpenSocket
<1>4. CASE a = nsas
  BY <1>4 DEF Attempting, WaitsForSocket, AllRefused, OpenSocket
<1> QED
  BY <1>1, <1>2, <1>3, <1>4

(* dofailed, of a connect that was refused or that took too long.          *)
LEMMA RetriedStep ==
  ASSUME AttemptInv, caller = "waiting", Attempting, WaitsForSocket,
         NEW tm, tm = 0, Attempt!Retried(FALSE, tm, writable \ {s})
  PROVE  AttemptInv'
<1> USE AddrAssumption
<1> DEFINE sk == [sock EXCEPT ![s] = "closed"]
           w == writable \ {s}
           next == nsas + 1
<1>1. PICK ok \in BOOLEAN : /\ Attempt!dofailed(FALSE, tm, writable \ {s}, ok)
                            /\ nloop' = IF ok THEN "runs" ELSE "failed"
  BY Zenon DEF Attempt!Retried
<1>2. UNCHANGED upstream /\ caller' = "waiting"
  BY DEF Attempt!Retried
<1>3. s \in Attempt!Addr /\ s = nsas /\ next \in 1 .. (naddr + 1) /\ AttemptTypes /\ AttemptFlags
  BY DEF AttemptInv, AttemptTypes, WaitsForSocket, Attempt!Addr
<1>4. sk \in [Attempt!Addr -> SocketState]
  BY <1>3 DEF AttemptTypes, SocketState
<1>5. /\ \A b \in Attempt!Addr : b < next => sk[b] \in {"unopened", "closed"}
      /\ \A b \in Attempt!Addr : b >= next => sk[b] = "none"
  BY <1>3 DEF Attempting, AttemptTypes, Attempt!Addr
<1>6. w = {} /\ ~cookie_immediate /\ ~immediate
  BY DEF WaitsForSocket
<1>7. Attempt!tryconnect(next, -1, FALSE, tm, w, sk, ok)
  BY <1>1, Zenon DEF Attempt!dofailed
<1> HIDE DEF sk, w, next
<1>8. AttemptTypes' /\ AttemptFlags' /\ (ok => Attempting') /\ (~ok => AttemptOver')
  BY <1>2, <1>3, <1>4, <1>5, <1>6, <1>7, TryStep, Zenon
<1> QED
  BY <1>1, <1>2, <1>8 DEF AttemptInv

(* docallback, which hands over the socket, or -1, and frees the cookie.   *)
LEMMA DocallbackStep ==
  ASSUME AttemptInv, caller = "waiting", Attempting,
         NEW tc \in BOOLEAN, NEW tm, NEW w, tm = 0, w = {}, Attempt!docallback(tc, tm, w),
         immediate' = FALSE
  PROVE  AttemptInv'
<1> USE AddrAssumption
<1>1. AttemptTypes'
  BY DEF AttemptInv, AttemptTypes, Attempt!docallback, SocketState
<1>2. AttemptFlags'
  BY Zenon DEF AttemptInv, AttemptFlags, Attempt!docallback
<1>3. AttemptOver'
  <2>1. \A a \in Attempt!Addr : a # s => sock[a] \notin OpenSocket
    BY OneSocket DEF AttemptInv
  <2>2. \A a \in Attempt!Addr : sock'[a] \notin OpenSocket
    BY <2>1 DEF Attempt!docallback, OpenSocket, AttemptInv, AttemptTypes
  <2> QED BY <2>2 DEF AttemptOver, Attempt!docallback
<1> QED BY <1>1, <1>2, <1>3 DEF AttemptInv, Attempt!docallback

(* The callback for the socket finds the attempt waiting for it.           *)
LEMMA ReadyMeansWaiting ==
  ASSUME AttemptInv, Attempt!Ready
  PROVE  caller = "waiting" /\ Attempting /\ WaitsForSocket
BY DEF AttemptInv, Attempt!Ready, AttemptOver, Attempting, AllRefused

(* Every callback, and network_connect_cancel, keeps the invariant.        *)
LEMMA AttemptStep == AttemptInv /\ [Attempt!Next]_(Attempt!vars) => AttemptInv'
<1> SUFFICES ASSUME AttemptInv, [Attempt!Next]_(Attempt!vars) PROVE AttemptInv'
  OBVIOUS
<1> USE AddrAssumption
<1>1. CASE Attempt!Decide
  <2>1. PICK a \in Attempt!Addr, r \in {"connected", "refused"} :
           sock[a] = "connecting" /\ sock' = [sock EXCEPT ![a] = r]
    BY <1>1, Zenon DEF Attempt!Decide
  <2>2. AttemptTypes' /\ AttemptFlags'
    BY <1>1, <2>1 DEF Attempt!Decide, AttemptInv, AttemptTypes, AttemptFlags, SocketState,
       OpenSocket
  <2>3. caller = "waiting" /\ Attempting /\ a = s
    BY <2>1, OneSocket DEF AttemptInv, AttemptOver, OpenSocket
  <2>4. WaitsForSocket
    BY <2>1, <2>3, AddrAssumption DEF Attempting, AllRefused, Attempt!Addr
  <2>5. WaitsForSocket'
    BY <1>1, <2>1, <2>3, <2>4 DEF Attempt!Decide, WaitsForSocket, OpenSocket, AttemptInv,
       AttemptTypes
  <2>6. Attempting'
    BY <1>1, <2>1, <2>3, <2>4, <2>5 DEF Attempt!Decide, Attempting, AttemptInv, AttemptTypes,
       WaitsForSocket, Attempt!Addr
  <2> QED BY <1>1, <2>2, <2>3, <2>6 DEF Attempt!Decide, AttemptInv
<1>2. CASE Attempt!network_connect_internal
  <2>1. NotCalled /\ AttemptOver /\ AttemptTypes /\ AttemptFlags
    BY <1>2 DEF Attempt!network_connect_internal, AttemptInv
  <2>2. PICK ok \in BOOLEAN :
          /\ \/ Attempt!tryconnect(1, -1, FALSE, timers, writable, sock, ok)
             \/ /\ ~ok
                /\ UNCHANGED <<naddr, timeo_enabled, cookie, nsas, s, cookie_timeo, cookie_immediate,
                               timers, immediate, writable, sock>>
          /\ caller' = IF ok THEN "waiting" ELSE "refused"
    BY <1>2, Zenon DEF Attempt!network_connect_internal
  <2>3. UNCHANGED <<upstream, nloop>>
    BY <1>2 DEF Attempt!network_connect_internal
  <2>4. CASE Attempt!tryconnect(1, -1, FALSE, timers, writable, sock, ok)
    <3>1. /\ 1 \in 1 .. (naddr + 1) /\ sock \in [Attempt!Addr -> SocketState]
          /\ ~cookie_immediate /\ ~immediate /\ timers = 0 /\ writable = {}
          /\ \A b \in Attempt!Addr : b < 1 => sock[b] \in {"unopened", "closed"}
          /\ \A b \in Attempt!Addr : b >= 1 => sock[b] = "none"
      BY <2>1 DEF NotCalled, AttemptOver, AttemptTypes, Attempt!Addr
    <3>2. AttemptTypes' /\ AttemptFlags' /\ (ok => Attempting') /\ (~ok => AttemptOver')
      BY <2>1, <2>3, <2>4, <3>1, TryStep, Zenon
    <3> QED BY <2>2, <3>2 DEF AttemptInv
  <2>5. CASE /\ ~ok
             /\ UNCHANGED <<naddr, timeo_enabled, cookie, nsas, s, cookie_timeo, cookie_immediate,
                            timers, immediate, writable, sock>>
    BY <2>1, <2>2, <2>3, <2>5 DEF AttemptInv, AttemptTypes, AttemptFlags, AttemptOver
  <2> QED BY <2>2, <2>4, <2>5, Zenon
<1>3. CASE Attempt!callback_immediate
  <2>1. caller = "waiting" /\ Attempting /\ AllRefused
    BY <1>3 DEF Attempt!callback_immediate, AttemptInv, AttemptOver, Attempting, WaitsForSocket
  <2>2. cookie_timeo \in BOOLEAN /\ timers = 0 /\ writable = {}
    BY <2>1 DEF AllRefused, AttemptInv, AttemptFlags
  <2> QED BY <1>3, <2>1, <2>2, DocallbackStep, Zenon DEF Attempt!callback_immediate
<1>4. CASE Attempt!callback_connect
  <2> DEFINE tm == IF cookie_timeo THEN timers - 1 ELSE timers
  <2>1. caller = "waiting" /\ Attempting /\ WaitsForSocket
    BY <1>4, ReadyMeansWaiting DEF Attempt!callback_connect
  <2>2. tm = 0 /\ writable \ {s} = {}
    BY <2>1 DEF WaitsForSocket
  <2>3. CASE Attempt!GetsockoptFails(tm)
    <3>1. AttemptTypes' /\ AttemptFlags'
      BY <2>3, Zenon DEF Attempt!GetsockoptFails, AttemptInv, AttemptTypes, AttemptFlags,
         SocketState
    <3>2. s \in Attempt!Addr /\ (\A a \in Attempt!Addr : a # s => sock[a] \notin OpenSocket)
      BY <2>1 DEF Attempting, WaitsForSocket, OpenSocket, AttemptInv, AttemptTypes, Attempt!Addr
    <3>3. \A a \in Attempt!Addr : sock'[a] \notin OpenSocket
      BY <2>3, <3>2 DEF Attempt!GetsockoptFails, OpenSocket, AttemptInv, AttemptTypes
    <3>4. AttemptOver'
      BY <2>1, <2>2, <2>3, <3>3 DEF Attempt!GetsockoptFails, AttemptOver, WaitsForSocket
    <3> QED BY <2>1, <2>3, <3>1, <3>4 DEF Attempt!GetsockoptFails, AttemptInv
  <2>4. CASE Attempt!Retried(FALSE, tm, writable \ {s})
    BY <2>1, <2>2, <2>4, RetriedStep, Zenon
  <2>5. CASE Attempt!docallback(FALSE, tm, writable \ {s}) /\ UNCHANGED immediate
    <3>1. immediate' = FALSE
      BY <2>1, <2>5 DEF WaitsForSocket, AttemptInv, AttemptFlags
    <3> QED BY <2>1, <2>2, <2>5, <3>1, DocallbackStep, Zenon
  <2> QED BY <1>4, <2>3, <2>4, <2>5, Zenon DEF Attempt!callback_connect
<1>5. CASE Attempt!callback_timeo
  <2>1. caller = "waiting" /\ Attempting /\ WaitsForSocket
    BY <1>5 DEF Attempt!callback_timeo, AttemptInv, AttemptOver, Attempting, AllRefused
  <2>2. timers - 1 = 0
    BY <1>5, <2>1 DEF Attempt!callback_timeo, WaitsForSocket
  <2> QED BY <1>5, <2>1, <2>2, RetriedStep, Zenon DEF Attempt!callback_timeo
<1>6. CASE Attempt!network_connect_cancel
  <2>1. Attempting /\ caller' = "cancelled"
    BY <1>6 DEF Attempt!network_connect_cancel, AttemptInv
  <2>2. AttemptTypes'
    BY <1>6 DEF Attempt!network_connect_cancel, AttemptInv, AttemptTypes, SocketState
  <2>3. AttemptFlags'
    BY <1>6 DEF Attempt!network_connect_cancel, AttemptInv, AttemptFlags
  <2>4. \A a \in Attempt!Addr : a # s => sock[a] \notin OpenSocket
    BY <2>1, OneSocket DEF AttemptInv
  <2>5. \A a \in Attempt!Addr : sock'[a] \notin OpenSocket
    BY <1>6, <2>4 DEF Attempt!network_connect_cancel, OpenSocket, AttemptInv, AttemptTypes
  <2>6. timers' = 0 /\ writable' = {} /\ cookie' # "alive"
    BY <1>6, <2>1 DEF Attempt!network_connect_cancel, Attempting, WaitsForSocket, AllRefused
  <2>7. ~immediate'
    BY <1>6, <2>1, Zenon DEF Attempt!network_connect_cancel, Attempting, WaitsForSocket, AllRefused
  <2> QED BY <2>1, <2>2, <2>3, <2>5, <2>6, <2>7 DEF AttemptInv, AttemptOver
<1>7. CASE UNCHANGED Attempt!vars
  BY <1>7 DEF Attempt!vars, AttemptInv, AttemptTypes, AttemptFlags, NotCalled, AttemptOver,
     Attempting, WaitsForSocket, AllRefused
<1> QED
  BY <1>1, <1>2, <1>3, <1>4, <1>5, <1>6, <1>7 DEF Attempt!Next

(* So it always holds.                                                     *)
LEMMA AttemptAlways == Attempt!Spec => []AttemptInv
BY AttemptInit, AttemptStep, PTL DEF Attempt!Spec

(* However the connects end and whenever the caller cancels: the           *)
(* assertions of network_connect_cancel hold, the event loop knows of      *)
(* exactly what the cookie says, and no socket is lost, for any number of  *)
(* addresses.                                                              *)
THEOREM AttemptCorrect == Attempt!Spec => []AttemptIsClean
<1>1. AttemptInv => AttemptIsClean
  <2> SUFFICES ASSUME AttemptInv PROVE AttemptIsClean
    OBVIOUS
  <2>1. Attempt!CancelAsserts
    BY AddrAssumption DEF Attempt!CancelAsserts, AttemptInv, AttemptTypes, Attempting,
       WaitsForSocket, AllRefused, AttemptOver, NotCalled, Attempt!Addr
  <2>2. Attempt!EventsMatchCookie
    BY AddrAssumption DEF Attempt!EventsMatchCookie, AttemptInv, AttemptTypes, AttemptFlags,
       Attempting, WaitsForSocket, AllRefused, AttemptOver, Attempt!Addr
  <2>3. Attempt!NoSocketLeaks
    BY OneSocket DEF Attempt!NoSocketLeaks, AttemptInv, Attempting, AttemptOver, OpenSocket
  <2> QED BY <2>1, <2>2, <2>3 DEF AttemptIsClean, Attempt!AttemptIsClean
<1> QED
  BY <1>1, AttemptAlways, PTL

(* The caller is given the first socket that could be connected, after all *)
(* addresses before it have failed, or -1 after all have; for any number   *)
(* of addresses.                                                           *)
THEOREM AnswerCorrect == Attempt!Spec => AnswerIsRight
<1> DEFINE answer == upstream'[Len(upstream')]
           before == IF answer = -1 THEN naddr ELSE answer - 1
           Right ==  /\ caller = "waiting"
                     /\ answer # -1 => sock[answer] = "connected"
                     /\ \A a \in 1 .. before : sock[a] \in {"unopened", "closed"}
<1>1. ASSUME AttemptInv, [Attempt!Next]_(Attempt!vars), upstream' # upstream
      PROVE  Right
  <2>1. CASE Attempt!callback_immediate
    <3>1. caller = "waiting" /\ Attempting /\ AllRefused
      BY <1>1, <2>1 DEF Attempt!callback_immediate, AttemptInv, AttemptOver, Attempting,
         WaitsForSocket
    <3>2. answer = -1
      BY <1>1, <2>1, <3>1 DEF Attempt!callback_immediate, Attempt!docallback, AllRefused,
         AttemptInv, AttemptTypes
    <3> QED BY <1>1, <3>1, <3>2, AddrAssumption DEF Attempting, AllRefused, AttemptInv,
         AttemptTypes, Attempt!Addr
  <2>2. CASE Attempt!callback_connect
    <3>1. caller = "waiting" /\ Attempting /\ WaitsForSocket
      BY <1>1, <2>2, ReadyMeansWaiting DEF Attempt!callback_connect
    <3>2. upstream' = Append(upstream, s) /\ sock[s] = "connected"
      BY <1>1, <2>2, Zenon DEF Attempt!callback_connect, Attempt!docallback,
         Attempt!GetsockoptFails,
         Attempt!Retried
    <3>3. answer = s
      BY <1>1, <3>2 DEF AttemptInv, AttemptTypes
    <3>4. s \in 1 .. naddr /\ s # -1 /\ s = nsas
      BY <1>1, <3>1, AddrAssumption DEF WaitsForSocket, AttemptInv, AttemptTypes, Attempt!Addr
    <3> HIDE DEF answer
    <3> QED BY <1>1, <3>1, <3>2, <3>3, <3>4, AddrAssumption
         DEF Attempting, AttemptInv, AttemptTypes, Attempt!Addr
  <2> QED BY <1>1, <2>1, <2>2, Zenon DEF Attempt!Next, Attempt!vars, Attempt!Decide,
       Attempt!network_connect_internal, Attempt!callback_timeo, Attempt!Retried,
       Attempt!network_connect_cancel
<1>2. AttemptInv /\ [Attempt!Next]_(Attempt!vars) => [upstream' # upstream => Right]_(Attempt!vars)
  BY <1>1
<1> HIDE DEF Right
<1>3. Attempt!Spec => [][upstream' # upstream => Right]_(Attempt!vars)
  BY <1>2, AttemptAlways, PTL DEF Attempt!Spec
<1> QED BY <1>3 DEF AnswerIsRight, Attempt!AnswerIsRight, Right

-----------------------------------------------------------------------------
(* CreateBlocking: pthread_create_blocking_np and the thread it starts.    *)

(* Where the caller and the new thread are.                                *)
ParentAt == {"start", "loop", "wait", "woken", "unlock", "err5", "join", "success", "error",
             "returned_0", "returned_err"}
ThreadAt == {"none", "lock", "signal", "unlock", "err1", "run", "routine", "ended"}

(* The thread has begun to run start_routine.                              *)
ThreadStarted == cpc \in {"run", "routine"} \/ (cpc = "ended" /\ ran)

(* Who frees the argument counts for one.                                  *)
FreedBy(b) == IF b THEN 1 ELSE 0

(* The inductive invariant: who has the mutex by where the two threads     *)
(* are, what running and rc say, and who has freed the argument.           *)
BlockingInv ==
    /\ ppc \in ParentAt /\ cpc \in ThreadAt
    /\ ppc = "start" => cpc = "none"
    /\ cpc = "none" => ppc \in {"start", "error", "returned_err"}
    /\ U = "freed" => cpc # "none" /\ (ppc \in {"success", "returned_0"} \/ cpc = "ended")
    /\ ppc \in {"loop", "unlock", "err5"} => mutex = "parent"
    /\ cpc \in {"signal", "unlock"} => mutex = "thread"
    /\ ppc = "unlock" => running
    /\ running => cpc \notin {"none", "lock", "signal"}
    /\ "signal" \notin failed /\ running =>
          ThreadStarted \/ (cpc \in {"unlock", "err1", "ended"} /\ mutex = "thread")
    /\ ran => cpc \in {"routine", "ended"}
    /\ cpc = "routine" => ran
    /\ rc_sync => cpc = "ended" /\ ~ran
    /\ "wait" \notin failed /\ ppc \in {"err5", "join"} => rc_sync
    /\ Create!SuccessMeansStarted
    /\ Create!FailureMeansNotRun
    /\ frees = FreedBy(ran /\ cpc = "ended") + FreedBy(ppc = "returned_err")

(* The invariant holds before the call.                                    *)
LEMMA BlockingInit == Create!Init => BlockingInv
BY DEF Create!Init, BlockingInv, ParentAt, ThreadAt, ThreadStarted, FreedBy,
   Create!SuccessMeansStarted, Create!FailureMeansNotRun

(* Every step of either thread keeps it, the ones in which a call of the   *)
(* thread library fails included.                                          *)
LEMMA BlockingStep == BlockingInv /\ [Create!Next]_(Create!vars) => BlockingInv'
<1> SUFFICES ASSUME BlockingInv, [Create!Next]_(Create!vars) PROVE BlockingInv'
  OBVIOUS
<1> USE DEF BlockingInv, ParentAt, ThreadAt, ThreadStarted, FreedBy, Create!SuccessMeansStarted, Create!FailureMeansNotRun
<1>1. CASE Create!wrapped_thread_lock
  BY <1>1 DEF Create!wrapped_thread_lock, Create!Fails
<1>2. CASE Create!wrapped_thread_signal
  BY <1>2 DEF Create!wrapped_thread_signal, Create!Fails
<1>3. CASE Create!wrapped_thread_unlock
  BY <1>3 DEF Create!wrapped_thread_unlock, Create!Fails
<1>4. CASE Create!wrapped_thread_err1
  BY <1>4 DEF Create!wrapped_thread_err1
<1>5. CASE Create!start_routine
  <2>1. CASE cpc = "run"
    BY <1>5, <2>1 DEF Create!start_routine
  <2>2. CASE cpc = "routine"
    BY <1>5, <2>2 DEF Create!start_routine
  <2> QED
    BY <1>5, <2>1, <2>2 DEF Create!start_routine
<1>6. CASE Create!pthread_create
  BY <1>6 DEF Create!pthread_create
<1>7. CASE Create!pthread_cond_wait
  BY <1>7 DEF Create!pthread_cond_wait, Create!Fails
<1>8. CASE Create!pthread_mutex_unlock
  BY <1>8 DEF Create!pthread_mutex_unlock, Create!Fails
<1>9. CASE Create!err5
  BY <1>9 DEF Create!err5, Create!Fails
<1>10. CASE Create!pushbits
  BY <1>10 DEF Create!pushbits
<1>11. CASE UNCHANGED Create!vars
  BY <1>11 DEF Create!vars
<1> QED
  BY <1>1, <1>2, <1>3, <1>4, <1>5, <1>6, <1>7, <1>8, <1>9, <1>10, <1>11, Zenon
     DEF Create!Next, Create!Child, Create!Parent

(* For every interleaving and every failure of the thread library: U is    *)
(* not used after it was freed, a call that returns 0 has started the      *)
(* thread, one that fails has not run it, and the argument is freed once.  *)
THEOREM CreateCorrect == Create!Spec => []CreateIsSafe
<1>1. BlockingInv => CreateIsSafe
  BY DEF BlockingInv, ParentAt, ThreadAt, ThreadStarted, FreedBy, CreateIsSafe, Create!CreateIsSafe,
         Create!UIsValid, Create!SuccessMeansStarted, Create!FailureMeansNotRun, Create!ArgHasOneOwner
<1> QED
  BY <1>1, BlockingInit, BlockingStep, PTL DEF Create!Spec
=============================================================================
