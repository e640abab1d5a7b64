--------------------------- MODULE ProgramsProofs ---------------------------
(***************************************************************************)
(* Proofs about the server for any set of connections and any limit, and   *)
(* about the client.                                                       *)
(*                                                                         *)
(* The invariants of Dispatch speak of the running server.  What makes     *)
(* them inductive is what holds before and after it runs: an accept in     *)
(* progress implies room for a connection in every stage (AcceptHasRoom),  *)
(* the server starts without connections (Fresh), and what dispatch_       *)
(* shutdown has cancelled stays cancelled (Down).                          *)
(***************************************************************************)
EXTENDS Programs, FiniteSetTheorems, TLAPS

(* An accept is in progress only if there is room for a connection and no  *)
(* shutdown was requested.                                                 *)
AcceptHasRoom == accept_cookie => nconn < nconn_max /\ ~shutdown_requested

(* Until the loop runs nothing has happened.                               *)
Fresh ==
    stage \in {"start", "init"} =>
        /\ loop = "run" /\ nconn = 0 /\ conn_cookies = {}
        /\ ~shutdown_requested /\ ~conndone /\ ~lookup
        /\ stage = "start" => ~accept_cookie /\ ~dnstimer_cookie

(* AcceptsWhenItMay and LookupsGoOn from the moment dispatch_accept is     *)
(* done.                                                                   *)
Listening ==
    stage \in {"init", "spin"} /\ loop = "run" =>
        /\ accept_cookie <=> (nconn < nconn_max /\ ~shutdown_requested)
        /\ rtime <=> (dnstimer_cookie \/ lookup)
        /\ ~(dnstimer_cookie /\ lookup)

(* After dispatch_shutdown, or if dispatch_accept failed.                  *)
Down ==
    /\ stage \in {"cleanup", "exit"} =>
          conn_cookies = {} /\ ~accept_cookie /\ ~dnstimer_cookie
    /\ stage = "exit" => ~timer_cookie

(* Who has the socket and the addresses.                                   *)
Owned ==
    /\ released = (IF owner = "none" THEN 1 ELSE 0)
    /\ stage = "start" => owner = "main"
    /\ stage \in {"init", "spin", "down"} => owner = "dispatch"
    /\ stage = "cleanup" => owner \in {"main", "none"}
    /\ stage = "exit" => owner = "none"

(* The inductive invariant of the server.                                  *)
Inv ==
    /\ TypeOK
    /\ CountIsExact
    /\ AcceptHasRoom
    /\ Fresh
    /\ Listening
    /\ DoneWhenDrained
    /\ Down
    /\ Owned

-----------------------------------------------------------------------------
(* Sets of connections are finite.                                         *)
LEMMA CookiesFinite ==
    ASSUME TypeOK
    PROVE  IsFiniteSet(conn_cookies)
BY MaxAssumption, FS_Subset DEF TypeOK

(* The server before it is set up.                                         *)
LEMMA InitInv == Init => Inv
<1> SUFFICES ASSUME Init PROVE Inv
    OBVIOUS
<1> USE DEF Init, C!Init
<1>1. TypeOK
    <2>1. phase \in [Conn -> {"none", "setup", "open", "refused", "dead"}]
        OBVIOUS
    <2>2. nconn \in Nat /\ released \in {0, 1} /\ conn_cookies \in SUBSET Conn
        OBVIOUS
    <2> QED
        BY <2>1, <2>2, Zenon DEF TypeOK, Stage
<1>2. CountIsExact
    BY FS_EmptySet, MaxAssumption DEF CountIsExact
<1>3. AcceptHasRoom /\ Fresh /\ Listening /\ DoneWhenDrained /\ Down /\ Owned
    BY DEF AcceptHasRoom, Fresh, Listening, DoneWhenDrained, Down, Owned
<1> QED
    BY <1>1, <1>2, <1>3 DEF Inv

(* A step that changes neither connections nor their list.                 *)
LEMMA SameCount ==
    ASSUME CountIsExact, UNCHANGED <<phase, nconn, conn_cookies>>
    PROVE  CountIsExact'
BY DEF CountIsExact

(* A connection is added to the list.                                      *)
LEMMA OneMore ==
    ASSUME TypeOK, CountIsExact, nconn < nconn_max,
           NEW i \in Conn, C!Create(i), phase'[i] = "setup",
           nconn' = nconn + 1, conn_cookies' = conn_cookies \cup {i}
    PROVE  CountIsExact' /\ nconn' \in Nat
<1>1. phase[i] = "none" /\ phase' = [phase EXCEPT ![i] = "setup"]
    BY DEF C!Create, C!Begin, C!Refuse, TypeOK
<1>2. i \notin conn_cookies
    BY <1>1 DEF CountIsExact
<1>3. IsFiniteSet(conn_cookies)
    BY CookiesFinite
<1>4. Cardinality(conn_cookies') = Cardinality(conn_cookies) + 1
    BY <1>2, <1>3, FS_AddElement, Zenon
<1>5. conn_cookies' = {j \in Conn : phase'[j] \in {"setup", "open"}}
    BY <1>1 DEF CountIsExact, TypeOK
<1>6. nconn' <= nconn_max /\ nconn' \in Nat
    BY MaxAssumption DEF TypeOK
<1> QED
    BY <1>4, <1>5, <1>6 DEF CountIsExact

(* A connection of the list dies.                                          *)
LEMMA OneLess ==
    ASSUME TypeOK, CountIsExact, NEW i \in Conn, phase[i] \in {"setup", "open"},
           phase' = [phase EXCEPT ![i] = "dead"],
           nconn' = nconn - 1, conn_cookies' = conn_cookies \ {i}
    PROVE  CountIsExact' /\ nconn' \in Nat /\ nconn' < nconn_max
<1>1. i \in conn_cookies
    BY DEF CountIsExact
<1>2. IsFiniteSet(conn_cookies)
    BY CookiesFinite
<1>3. Cardinality(conn_cookies') = Cardinality(conn_cookies) - 1
    BY <1>1, <1>2, FS_RemoveElement
<1>4. conn_cookies' = {j \in Conn : phase'[j] \in {"setup", "open"}}
    BY DEF CountIsExact, TypeOK
<1>5. nconn # 0
    BY <1>1, <1>2, FS_EmptySet DEF CountIsExact
<1>6. nconn' \in Nat /\ nconn' < nconn_max
    BY <1>5, MaxAssumption DEF TypeOK, CountIsExact
<1>7. nconn' <= nconn_max
    BY <1>6, MaxAssumption
<1> QED
    BY <1>3, <1>4, <1>6, <1>7 DEF CountIsExact

-----------------------------------------------------------------------------
(* Steps of the event loop and of main that leave the list alone.          *)
LEMMA QuietSteps ==
    ASSUME Inv,
           \/ callback_accept_tryagain \/ callback_gotconn_fails
           \/ callback_resolveagain \/ callback_resolve
           \/ graceful_shutdown_handler \/ graceful_shutdown_initialize
           \/ events_spin_returns \/ dispatch_shutdown \/ exit
    PROVE  Inv'
<1> USE MaxAssumption DEF Inv, convars, dnsvars, gsvars
<1>1. CountIsExact'
    BY SameCount DEF callback_accept_tryagain, callback_gotconn_fails,
       callback_resolveagain, callback_resolve, graceful_shutdown_handler,
       graceful_shutdown_initialize, events_spin_returns, dispatch_shutdown, exit
<1> USE DEF TypeOK, Stage, AcceptHasRoom, Fresh, Listening, DoneWhenDrained,
            Down, Owned, Running, Returns
<1>2. CASE callback_accept_tryagain
    BY <1>1, <1>2 DEF callback_accept_tryagain
<1>3. CASE callback_gotconn_fails
    BY <1>1, <1>3, Zenon DEF callback_gotconn_fails
<1>4. CASE callback_resolveagain
    <2> USE <1>4 DEF callback_resolveagain
    <2>1. TypeOK'
        BY Zenon
    <2>2. AcceptHasRoom' /\ Fresh' /\ DoneWhenDrained' /\ Down'
        OBVIOUS
    <2>3. Listening'
        OBVIOUS
    <2>4. Owned'
        OBVIOUS
    <2> QED
        BY <1>1, <2>1, <2>2, <2>3, <2>4
<1>5. CASE callback_resolve
    <2> USE <1>5 DEF callback_resolve
    <2>1. TypeOK'
        BY Zenon
    <2>2. AcceptHasRoom' /\ Fresh' /\ DoneWhenDrained' /\ Down'
        OBVIOUS
    <2>3. Listening'
        OBVIOUS
    <2>4. Owned'
        OBVIOUS
    <2> QED
        BY <1>1, <2>1, <2>2, <2>3, <2>4
<1>6. CASE graceful_shutdown_handler
    <2> USE <1>6 DEF graceful_shutdown_handler
    <2>1. TypeOK'
        <3>1. should_shutdown' \in BOOLEAN /\ stage' \in Stage
            BY ONLY TypeOK, graceful_shutdown_handler, Zenon
               DEF TypeOK, graceful_shutdown_handler, Stage
        <3> QED
            BY ONLY TypeOK, graceful_shutdown_handler, <3>1, Zenon
               DEF TypeOK, graceful_shutdown_handler, convars, dnsvars
    <2>2. AcceptHasRoom' /\ Fresh' /\ DoneWhenDrained' /\ Down'
        OBVIOUS
    <2>3. Listening'
        OBVIOUS
    <2>4. Owned'
        OBVIOUS
    <2> QED
        BY <1>1, <2>1, <2>2, <2>3, <2>4
<1>7. CASE graceful_shutdown_initialize
    <2> USE <1>7 DEF graceful_shutdown_initialize
    <2>1. TypeOK'
        BY Zenon
    <2>2. AcceptHasRoom' /\ Fresh' /\ DoneWhenDrained' /\ Down'
        OBVIOUS
    <2>3. Listening'
        OBVIOUS
    <2>4. Owned'
        OBVIOUS
    <2> QED
        BY <1>1, <2>1, <2>2, <2>3, <2>4
<1>8. CASE events_spin_returns
    <2> USE <1>8 DEF events_spin_returns
    <2>1. TypeOK'
        OBVIOUS
    <2>2. AcceptHasRoom' /\ Fresh' /\ DoneWhenDrained' /\ Down'
        OBVIOUS
    <2>3. Listening'
        OBVIOUS
    <2>4. Owned'
        OBVIOUS
    <2> QED
        BY <1>1, <2>1, <2>2, <2>3, <2>4
<1>9. CASE dispatch_shutdown
    <2> USE <1>9 DEF dispatch_shutdown
    <2>1. released' = 1
        OBVIOUS
    <2>2. TypeOK'
        BY <2>1, Zenon
    <2>3. AcceptHasRoom' /\ Fresh' /\ DoneWhenDrained' /\ Down'
        OBVIOUS
    <2>4. Listening'
        OBVIOUS
    <2>5. Owned'
        OBVIOUS
    <2> QED
        BY <1>1, <2>2, <2>3, <2>4, <2>5
<1>10. CASE exit
    <2> USE <1>10 DEF exit
    <2>1. released' = 1
        OBVIOUS
    <2>2. TypeOK'
        BY <2>1, Zenon
    <2>3. AcceptHasRoom' /\ Fresh' /\ DoneWhenDrained' /\ Down' /\ Listening'
        OBVIOUS
    <2>4. Owned'
        BY <2>1
    <2> QED
        BY <1>1, <2>2, <2>3, <2>4
<1> QED
    BY <1>2, <1>3, <1>4, <1>5, <1>6, <1>7, <1>8, <1>9, <1>10

(* The steps that set or clear the accept.                                 *)
LEMMA ShutdownSteps ==
    ASSUME Inv, graceful_shutdown \/ dispatch_accept
    PROVE  Inv'
<1> USE MaxAssumption DEF Inv, convars, dnsvars, gsvars
<1>1. CountIsExact'
    BY SameCount, Zenon DEF graceful_shutdown, dispatch_accept
<1> USE DEF TypeOK, Stage, AcceptHasRoom, Fresh, Listening, DoneWhenDrained,
            Down, Owned, Running, Returns
<1>2. CASE graceful_shutdown
    <2> USE <1>2 DEF graceful_shutdown, dispatch_request_shutdown
    <2>1. TypeOK'
        BY Zenon
    <2>2. AcceptHasRoom' /\ Fresh' /\ Down' /\ Owned'
        OBVIOUS
    <2>3. Listening'
        OBVIOUS
    <2>4. DoneWhenDrained'
        OBVIOUS
    <2> QED
        BY <1>1, <2>1, <2>2, <2>3, <2>4
<1>3. CASE dispatch_accept
    <2> USE <1>3 DEF dispatch_accept, doaccept, MayAccept
    <2>1. TypeOK'
        BY Zenon
    <2>2. AcceptHasRoom'
        BY Zenon
    <2>3. Fresh'
        OBVIOUS
    <2>4. Down' /\ Owned'
        OBVIOUS
    <2>5. Listening'
        BY Zenon
    <2>6. DoneWhenDrained'
        OBVIOUS
    <2> QED
        BY <1>1, <2>1, <2>2, <2>5, <2>6, <2>3, <2>4
<1> QED
    BY <1>2, <1>3

(* What callback_conndied does, in the loop or in dispatch_shutdown.       *)
LEMMA ConnectionLost ==
    ASSUME Inv, NEW i \in Conn, NEW rc \in {0, -1},
           phase[i] \in {"setup", "open"}, phase' = [phase EXCEPT ![i] = "dead"],
           callback_conndied(i, rc), UNCHANGED shutdown_requested
    PROVE  /\ CountIsExact' /\ nconn' \in Nat
           /\ phase' \in [Conn -> {"none", "setup", "open", "refused", "dead"}]
           /\ conn_cookies' \in SUBSET Conn
           /\ accept_cookie' \in BOOLEAN /\ conndone' \in BOOLEAN
           /\ AcceptHasRoom'
           /\ rc = 0 =>
                 (accept_cookie' <=> (nconn' < nconn_max /\ ~shutdown_requested'))
<1>1. CountIsExact' /\ nconn' \in Nat /\ nconn' < nconn_max
    BY OneLess, Zenon DEF callback_conndied, Inv
<1>2. phase' \in [Conn -> {"none", "setup", "open", "refused", "dead"}]
    BY DEF Inv, TypeOK
<1>3. conn_cookies' \in SUBSET Conn
    BY DEF callback_conndied, Inv, TypeOK
<1>4. conndone' \in BOOLEAN
    BY DEF callback_conndied, Inv, TypeOK
<1>5. nconn' = nconn - 1 /\ nconn \in Nat
    BY DEF callback_conndied, Inv, TypeOK
<1>6. /\ accept_cookie' \in BOOLEAN
      /\ accept_cookie' => ~shutdown_requested
      /\ rc = 0 => (accept_cookie' <=> ~shutdown_requested)
    <2>1. doaccept(nconn', accept_cookie, rc)
        BY DEF callback_conndied
    <2>2. MayAccept(nconn', accept_cookie) <=> (~accept_cookie /\ ~shutdown_requested)
        BY <1>1 DEF MayAccept
    <2>3. accept_cookie \in BOOLEAN /\ shutdown_requested \in BOOLEAN
        BY DEF Inv, TypeOK
    <2>4. accept_cookie => ~shutdown_requested
        BY DEF Inv, AcceptHasRoom
    <2>5. CASE MayAccept(nconn', accept_cookie)
        <3>1. accept_cookie' = (rc = 0)
            BY <2>1, <2>5 DEF doaccept
        <3> QED
            BY <3>1, <2>2, <2>3, <2>5, Zenon
    <2>6. CASE ~MayAccept(nconn', accept_cookie)
        <3>1. accept_cookie' = accept_cookie
            BY <2>1, <2>6 DEF doaccept
        <3> QED
            BY <3>1, <2>2, <2>3, <2>4, <2>6
    <2> QED
        BY <2>5, <2>6
<1> QED
    BY <1>1, <1>2, <1>3, <1>4, <1>6 DEF AcceptHasRoom

(* A connection of the running server dies.                                *)
LEMMA DiesStep ==
    ASSUME Inv, NEW i \in Conn, ConnectionDies(i)
    PROVE  Inv'
<1>1. PICK rc \in {0, -1} :
        /\ callback_conndied(i, rc)
        /\ \/ C!Close(i) /\ Returns(rc)
           \/ \E why \in C!Reason \ {"CLOSED", "CANCELLED"} :
                 C!Die(i, why) /\ (Returns(rc) \/ (why = "ERROR" /\ Returns(-1)))
    BY DEF ConnectionDies
<1>2. phase[i] \in {"setup", "open"} /\ phase' = [phase EXCEPT ![i] = "dead"]
    BY <1>1 DEF C!Close, C!Die
<1>3. UNCHANGED <<shutdown_requested, rtime, dnstimer_cookie, lookup, timer_cookie,
                  should_shutdown, handler, stage, owner, released>>
    BY DEF ConnectionDies, dnsvars, gsvars
<1>4. Running
    BY DEF ConnectionDies
<1>5. loop' \in {"run", "error"} /\ (loop' = "run" => rc = 0)
    BY <1>1, <1>4 DEF Returns, Running
<1>6. /\ CountIsExact' /\ nconn' \in Nat
      /\ phase' \in [Conn -> {"none", "setup", "open", "refused", "dead"}]
      /\ conn_cookies' \in SUBSET Conn
      /\ accept_cookie' \in BOOLEAN /\ conndone' \in BOOLEAN
      /\ AcceptHasRoom'
      /\ rc = 0 =>
            (accept_cookie' <=> (nconn' < nconn_max /\ ~shutdown_requested'))
    BY <1>1, <1>2, <1>3, ConnectionLost, Zenon
<1>7. TypeOK'
    BY <1>3, <1>5, <1>6 DEF Inv, TypeOK
<1>8. Fresh' /\ Down' /\ Owned'
    BY <1>3, <1>4 DEF Inv, Fresh, Down, Owned, Running
<1>9. Listening'
    BY <1>3, <1>4, <1>5, <1>6 DEF Inv, Listening, Running
<1>10. DoneWhenDrained'
    <2>1. nconn' = nconn - 1 /\ nconn \in Nat /\ nconn' \in Nat
        BY <1>1, <1>6 DEF callback_conndied, Inv, TypeOK
    <2>2. conndone' = (conndone \/ (shutdown_requested /\ nconn' = 0))
        BY <1>1 DEF callback_conndied
    <2>3. conndone <=> (shutdown_requested /\ nconn = 0)
        BY <1>4 DEF Inv, DoneWhenDrained, Running
    <2>4. nconn # 0
        BY <2>1
    <2>5. ~conndone
        BY <2>3, <2>4
    <2> QED
        BY <1>3, <2>2, <2>5, Zenon DEF DoneWhenDrained
<1> QED
    BY <1>6, <1>7, <1>8, <1>9, <1>10 DEF Inv

(* dispatch_shutdown drops a connection.                                   *)
LEMMA DropStep ==
    ASSUME Inv, NEW i \in Conn, dispatch_shutdown_drop(i)
    PROVE  Inv'
<1>1. PICK rc \in {0, -1} : callback_conndied(i, rc)
    BY DEF dispatch_shutdown_drop
<1>2. phase[i] \in {"setup", "open"} /\ phase' = [phase EXCEPT ![i] = "dead"]
    BY DEF dispatch_shutdown_drop, C!Die
<1>3. UNCHANGED <<shutdown_requested, rtime, dnstimer_cookie, lookup, timer_cookie,
                  should_shutdown, handler, stage, loop, owner, released>>
    BY DEF dispatch_shutdown_drop, dnsvars, gsvars
<1>4. stage = "down"
    BY DEF dispatch_shutdown_drop
<1>5. /\ CountIsExact' /\ nconn' \in Nat
      /\ phase' \in [Conn -> {"none", "setup", "open", "refused", "dead"}]
      /\ conn_cookies' \in SUBSET Conn
      /\ accept_cookie' \in BOOLEAN /\ conndone' \in BOOLEAN
      /\ AcceptHasRoom'
    BY <1>1, <1>2, <1>3, ConnectionLost, Zenon
<1>6. TypeOK'
    BY <1>3, <1>5 DEF Inv, TypeOK
<1>7. Fresh' /\ Listening' /\ DoneWhenDrained' /\ Down' /\ Owned'
    BY <1>3, <1>4 DEF Inv, Fresh, Listening, DoneWhenDrained, Down, Owned
<1> QED
    BY <1>5, <1>6, <1>7 DEF Inv

(* A connection is accepted, and set up or refused.                        *)
LEMMA ArrivesStep ==
    ASSUME Inv, NEW i \in Conn, callback_gotconn(i)
    PROVE  Inv'
<1>1. /\ Running /\ accept_cookie /\ C!Create(i)
      /\ UNCHANGED <<shutdown_requested, rtime, dnstimer_cookie, lookup, conndone,
                     timer_cookie, should_shutdown, handler, stage, owner, released>>
    BY DEF callback_gotconn, dnsvars, gsvars
<1>2. nconn < nconn_max /\ ~shutdown_requested
    BY <1>1 DEF Inv, AcceptHasRoom
<1>3. phase' \in [Conn -> {"none", "setup", "open", "refused", "dead"}]
    BY <1>1 DEF C!Create, C!Begin, C!Refuse, Inv, TypeOK
<1>4. ~conndone
    BY <1>1, <1>2 DEF Inv, DoneWhenDrained, Running
<1>5. Fresh' /\ Down' /\ Owned'
    BY <1>1 DEF Inv, Fresh, Down, Owned, Running
<1>6. DoneWhenDrained'
    BY <1>1, <1>2, <1>4 DEF DoneWhenDrained
<1>7. CASE phase'[i] = "setup"
    <2>1. /\ nconn' = nconn + 1
          /\ conn_cookies' = conn_cookies \cup {i}
          /\ \E rc \in {0, -1} : doaccept(nconn', FALSE, rc) /\ Returns(rc)
        BY <1>7, Zenon DEF callback_gotconn
    <2>2. PICK rc \in {0, -1} : doaccept(nconn', FALSE, rc) /\ Returns(rc)
        BY <2>1, Zenon
    <2>3. CountIsExact' /\ nconn' \in Nat
        BY <1>1, <1>2, <1>7, <2>1, OneMore DEF Inv
    <2>4. conn_cookies' \in SUBSET Conn
        BY <2>1 DEF Inv, TypeOK
    <2>5. loop' \in {"run", "error"} /\ (loop' = "run" => rc = 0)
        BY <1>1, <2>2 DEF Returns, Running
    <2>6. /\ accept_cookie' \in BOOLEAN
          /\ accept_cookie' => nconn' < nconn_max
          /\ rc = 0 => (accept_cookie' <=> nconn' < nconn_max)
        BY <1>2, <2>2, Zenon DEF doaccept, MayAccept
    <2>7. TypeOK'
        BY <1>1, <1>3, <2>3, <2>4, <2>5, <2>6 DEF Inv, TypeOK
    <2>8. AcceptHasRoom'
        BY <1>1, <1>2, <2>6 DEF AcceptHasRoom
    <2>9. Listening'
        BY <1>1, <1>2, <2>5, <2>6 DEF Inv, Listening, Running
    <2> QED
        BY <1>5, <1>6, <2>3, <2>7, <2>8, <2>9 DEF Inv
<1>8. CASE phase'[i] # "setup"
    <2>1. /\ phase'[i] = "refused" /\ accept_cookie' = FALSE
          /\ UNCHANGED <<nconn, conn_cookies>>
          /\ Returns(-1)
        BY <1>8, Zenon DEF callback_gotconn
    <2>2. /\ phase'[i] = "refused" /\ ~accept_cookie' /\ accept_cookie' \in BOOLEAN
          /\ UNCHANGED <<nconn, conn_cookies>>
          /\ loop' = "error"
        <3>1. loop' = "error"
            BY <2>1, 0 # -1 DEF Returns
        <3> QED
            BY <2>1, <3>1, Zenon
    <2>3. phase[i] = "none" /\ phase' = [phase EXCEPT ![i] = "refused"]
        BY <1>1, <1>8 DEF C!Create, C!Begin, C!Refuse, Inv, TypeOK
    <2>4. CountIsExact'
        <3>1. {j \in Conn : phase'[j] \in {"setup", "open"}}
                 = {j \in Conn : phase[j] \in {"setup", "open"}}
            BY <2>3 DEF Inv, TypeOK
        <3> QED
            BY <2>2, <3>1 DEF Inv, CountIsExact
    <2>5. TypeOK'
        BY <1>1, <1>3, <2>2 DEF Inv, TypeOK
    <2>6. AcceptHasRoom' /\ Listening'
        BY <2>2 DEF AcceptHasRoom, Listening
    <2> QED
        BY <1>5, <1>6, <2>4, <2>5, <2>6 DEF Inv
<1> QED
    BY <1>7, <1>8

(* A connection gets further.                                              *)
LEMMA MovesStep ==
    ASSUME Inv, NEW i \in Conn, ConnectionMoves(i)
    PROVE  Inv'
<1>1. UNCHANGED <<nconn, conn_cookies, accept_cookie, shutdown_requested, rtime,
                  dnstimer_cookie, lookup, conndone, timer_cookie, should_shutdown,
                  handler, stage, loop, owner, released>>
    BY DEF ConnectionMoves, dnsvars, gsvars
<1>2. \/ UNCHANGED phase
      \/ phase[i] = "setup" /\ phase' = [phase EXCEPT ![i] = "open"]
    BY DEF ConnectionMoves, C!Establish, C!HalfClose
<1>3. phase' \in [Conn -> {"none", "setup", "open", "refused", "dead"}]
    BY <1>2 DEF Inv, TypeOK
<1>4. {j \in Conn : phase'[j] \in {"setup", "open"}}
         = {j \in Conn : phase[j] \in {"setup", "open"}}
    BY <1>2 DEF Inv, TypeOK
<1>5. CountIsExact'
    BY <1>1, <1>4 DEF Inv, CountIsExact
<1>6. TypeOK'
    BY <1>1, <1>3 DEF Inv, TypeOK
<1>7. AcceptHasRoom' /\ Fresh' /\ Listening' /\ DoneWhenDrained' /\ Down' /\ Owned'
    BY <1>1 DEF Inv, AcceptHasRoom, Fresh, Listening, DoneWhenDrained, Down, Owned
<1> QED
    BY <1>5, <1>6, <1>7 DEF Inv

(* Every step keeps the invariant.                                         *)
LEMMA StepInv == Inv /\ [Next]_vars => Inv'
<1> SUFFICES ASSUME Inv, [Next]_vars PROVE Inv'
    OBVIOUS
<1>1. CASE UNCHANGED vars
    BY <1>1 DEF vars, convars, dnsvars, gsvars, Inv, TypeOK, CountIsExact, AcceptHasRoom,
       Fresh, Listening, DoneWhenDrained, Down, Owned
<1>2. CASE \E i \in Conn : callback_gotconn(i) \/ ConnectionMoves(i) \/ ConnectionDies(i)
    BY <1>2, ArrivesStep, MovesStep, DiesStep
<1>3. CASE \E i \in Conn : dispatch_shutdown_drop(i)
    BY <1>3, DropStep
<1>4. CASE graceful_shutdown \/ dispatch_accept
    BY <1>4, ShutdownSteps
<1> QED
    BY <1>1, <1>2, <1>3, <1>4, QuietSteps DEF Next, MainNext

(* So it always holds.                                                     *)
THEOREM AlwaysInv == Spec => []Inv
BY InitInv, StepInv, PTL DEF Spec

(* The server counts its connections exactly and keeps the limit, listens  *)
(* exactly when it has room and was not told to shut down, ends its loop   *)
(* exactly when a requested shutdown has drained it, and looks up its      *)
(* target again and again without two lookups at a time.                   *)
THEOREM DispatcherCorrect ==
    Spec => [](TypeOK /\ ServerIsSound)
<1>1. ASSUME Inv PROVE TypeOK /\ ServerIsSound
    <2>1. TypeOK /\ CountIsExact /\ AcceptsWhenItMay /\ DoneWhenDrained
        BY <1>1 DEF Inv, Listening, AcceptsWhenItMay, Running
    <2>2. LookupsGoOn
        BY <1>1 DEF Inv, Listening, LookupsGoOn, Running
    <2> QED
        BY <2>1, <2>2 DEF ServerIsSound, ServerGoesOn
<1> QED
    BY <1>1, AlwaysInv, PTL

(* However the process exits, nothing is left running and everything was   *)
(* released once.                                                          *)
THEOREM ExitIsClean == Spec => []CleanExit
<1>1. ASSUME Inv PROVE CleanExit
    <2>1. stage = "exit" => nconn = 0
        BY <1>1, FS_EmptySet DEF Inv, Down, CountIsExact
    <2> QED
        BY <1>1, <2>1 DEF Inv, Down, Owned, CleanExit
<1> QED
    BY <1>1, AlwaysInv, PTL

(* After a shutdown was requested no connection is created.                *)
THEOREM ShutdownIsFinal == Spec => NoNewConnections
<1>1. ASSUME Inv, [Next]_vars, shutdown_requested, NEW i \in Conn, phase[i] = "none"
      PROVE  phase'[i] = "none"
    <2>1. ~accept_cookie
        BY <1>1 DEF Inv, AcceptHasRoom
    <2>2. \A j \in Conn : ~callback_gotconn(j)
        BY <2>1, Zenon DEF callback_gotconn
    <2>3. CASE \E j \in Conn : ConnectionMoves(j)
        BY <1>1, <2>3 DEF ConnectionMoves, C!Establish, C!HalfClose, Inv, TypeOK
    <2>4. CASE \E j \in Conn : ConnectionDies(j)
        BY <1>1, <2>4 DEF ConnectionDies, C!Close, C!Die, Inv, TypeOK
    <2>5. CASE \E j \in Conn : dispatch_shutdown_drop(j)
        BY <1>1, <2>5 DEF dispatch_shutdown_drop, C!Die, Inv, TypeOK
    <2>6. CASE UNCHANGED phase
        BY <1>1, <2>6
    <2> QED
        BY <1>1, <2>2, <2>3, <2>4, <2>5, <2>6, Zenon DEF Next, MainNext, vars, convars,
           callback_accept_tryagain, callback_gotconn_fails, callback_resolveagain,
           callback_resolve, graceful_shutdown, graceful_shutdown_handler,
           dispatch_accept, graceful_shutdown_initialize, events_spin_returns,
           dispatch_shutdown, exit
<1>2. Inv /\ [Next]_vars =>
        [shutdown_requested =>
            \A i \in Conn : phase[i] = "none" => phase'[i] = "none"]_vars
    BY <1>1
<1> QED
    BY <1>2, AlwaysInv, PTL DEF Spec, NoNewConnections

-----------------------------------------------------------------------------
(* Spipe: the client.                                                      *)

(* Main has left the event loop or not reached it because something        *)
(* failed.                                                                 *)
GivesUp == {"err7", "err7_join", "err6", "err6_join", "err5"}

(* There is a reason not to copy all data.                                 *)
Excused == sigterm \/ connection_error

(* The inductive invariant: what main may conclude from where it is.  It   *)
(* joins the threads only after the connection was closed, and not because *)
(* of a signal or an error, which are remembered.                          *)
ClientInv ==
    /\ DOMAIN creason = {Client!conn} /\ DOMAIN cphase = {Client!conn}
    /\ DOMAIN thr = Client!Thread
    /\ cloop \in {"run", "error"}
    /\ at # "assert"
    /\ at \in {"spin", "begin0", "begin1"} \/ connection_error => initialized
    /\ at \in {"setup", "create", "push1", "push0", "init"} => ~initialized
    /\ creason[Client!conn] = "CLOSED" => cphase[Client!conn] = "dead"
    /\ creason[Client!conn] \in Client!Failure => connection_error
    /\ gs_should_shutdown \/ stopped \/ at \in {"begin0", "begin1"} => Excused
    /\ at = "spin" /\ connection_error => stopped
    /\ et_conndone /\ at # "exit" => stopped \/ creason[Client!conn] = "CLOSED"
    /\ at \in {"join0", "join1"} => ~stopped /\ creason[Client!conn] = "CLOSED"
    /\ at = "join1" => thr[0] = "joined"
    /\ at = "cleanup" => Excused \/ (creason[Client!conn] = "CLOSED" /\ \A i \in Client!Thread : thr[i] = "joined")
    /\ cancelled # {} => Excused \/ at \in GivesUp \cup {"dropped_twice"} \/ (at = "exit" /\ code = 1)
    /\ Client!StatusIsRight
    /\ Client!NothingCutShort

(* The client before it is set up.                                         *)
LEMMA ClientInit == Client!Init => ClientInv
BY DEF Client!Init, Client!C!Init, ClientInv, Excused, GivesUp, Client!StatusIsRight,
   Client!NothingCutShort, Client!Failure, Client!conn

(* Every step of main, of the threads and of the event loop keeps it.      *)
LEMMA ClientStep == ClientInv /\ [Client!Next]_(Client!vars) => ClientInv'
<1> SUFFICES ASSUME ClientInv, [Client!Next]_(Client!vars) PROVE ClientInv'
  OBVIOUS
<1> USE DEF ClientInv, Excused, GivesUp, Client!StatusIsRight, Client!NothingCutShort, Client!Failure, Client!conn, Client!Thread, Client!convars, Client!etvars, Client!gsvars, Client!thrvars
<1>1. CASE Client!setup
  BY <1>1 DEF Client!setup
<1>2. CASE Client!proto_conn_create
  BY <1>2 DEF Client!proto_conn_create, Client!C!Begin, Client!C!Refuse
<1>3. CASE Client!push
  BY <1>3 DEF Client!push, Client!pushbits
<1>4. CASE Client!graceful_shutdown_initialize
  BY <1>4 DEF Client!graceful_shutdown_initialize
<1>5. CASE Client!events_spin_returns
  BY <1>5 DEF Client!events_spin_returns
<1>6. CASE Client!CancelThread
  <2>1. CASE at = "err7"
    BY <1>6, <2>1 DEF Client!CancelThread
  <2>2. CASE at = "err6"
    BY <1>6, <2>2 DEF Client!CancelThread
  <2> QED BY <1>6, <2>1, <2>2 DEF Client!CancelThread
<1>7. CASE Client!pthread_join
  BY <1>7 DEF Client!pthread_join, Client!Join
<1>8. CASE Client!err5
  <2>1. CASE at' = "dropped_twice"
    BY <1>8, <2>1 DEF Client!err5, Client!C!Die, Client!callback_conndied,
       Client!graceful_shutdown_manual, Client!callback_graceful_shutdown
  <2>2. CASE ~connection_error /\ at' # "dropped_twice"
    <3>1. ~connection_error'
      BY <1>8, <2>2, Zenon DEF Client!err5, Client!callback_conndied
    <3>2. /\ at' = "exit" /\ code' = 1 /\ at = "err5" /\ et_conndone' = TRUE /\ cloop' = cloop
          /\ UNCHANGED <<stopped, Client!thrvars, after, gs_timer_cookie, gs_should_shutdown, gs_handler, initialized, sigterm>>
      BY <1>8, <2>2, <3>1 DEF Client!err5, Client!callback_conndied
    <3>3. /\ DOMAIN creason' = {Client!conn} /\ creason'[Client!conn] = "CANCELLED"
          /\ DOMAIN cphase' = {Client!conn} /\ cphase'[Client!conn] = "dead" /\ cphase[Client!conn] # "dead"
      BY <1>8, <2>2 DEF Client!err5, Client!C!Die
    <3> QED BY <2>2, <3>1, <3>2, <3>3
  <2>3. CASE connection_error /\ at' # "dropped_twice"
    <3>1. connection_error'
      BY <1>8, <2>3, Zenon DEF Client!err5, Client!callback_conndied
    <3>2. Client!graceful_shutdown_manual(0) /\ UNCHANGED <<initialized, sigterm>> /\ at = "err5"
      BY <1>8, <2>3, <3>1, Zenon DEF Client!err5, Client!callback_conndied
    <3>3. /\ DOMAIN creason' = {Client!conn} /\ creason'[Client!conn] = "CANCELLED"
          /\ DOMAIN cphase' = {Client!conn} /\ cphase'[Client!conn] = "dead" /\ cphase[Client!conn] # "dead"
      BY <1>8, <2>3, Zenon DEF Client!err5, Client!C!Die
    <3> QED BY <2>3, <3>1, <3>2, <3>3 DEF Client!graceful_shutdown_manual,
         Client!callback_graceful_shutdown
  <2> QED BY <2>1, <2>2, <2>3
<1>9. CASE Client!exit
  BY <1>9 DEF Client!exit
<1>10. CASE Client!ConnectionMoves
  BY <1>10 DEF Client!ConnectionMoves, Client!Running, Client!C!Establish, Client!C!HalfClose
<1>11. CASE Client!ConnectionCloses
  BY <1>11, Zenon DEF Client!ConnectionCloses, Client!Running, Client!C!Close,
     Client!callback_conndied,
     Client!graceful_shutdown_manual, Client!callback_graceful_shutdown
<1>12. CASE Client!ConnectionFails
  BY <1>12, Zenon DEF Client!ConnectionFails, Client!Running, Client!C!Die,
     Client!callback_conndied,
     Client!graceful_shutdown_manual, Client!callback_graceful_shutdown
<1>13. CASE Client!EventsFail
  BY <1>13 DEF Client!EventsFail, Client!Running
<1>14. CASE Client!graceful_shutdown
  BY <1>14 DEF Client!graceful_shutdown, Client!Running, Client!callback_graceful_shutdown
<1>15. CASE Client!graceful_shutdown_handler
  BY <1>15 DEF Client!graceful_shutdown_handler, Client!Ended
<1>16. ASSUME NEW i \in Client!Thread, Client!workthread_eof(i) \/ Client!workthread_cleanup(i) PROVE ClientInv'
  BY <1>16 DEF Client!workthread_eof, Client!workthread_cleanup, Client!Ended
<1>17. ASSUME NEW i \in Client!Thread, Client!workthread_fails(i) PROVE ClientInv'
  BY <1>17 DEF Client!workthread_fails, Client!Ended
<1>18. CASE UNCHANGED Client!vars
  BY <1>18 DEF Client!vars
<1> QED
  BY <1>1, <1>2, <1>3, <1>4, <1>5, <1>6, <1>7, <1>8, <1>9, <1>10, <1>11, <1>12, <1>13, <1>14, Zenon,
     <1>15, <1>16, <1>17, <1>18 DEF Client!Next, Client!MainNext

(* However the threads of spipe, its connection and SIGTERM interleave: it *)
(* exits with status 0 only if all data was copied or a signal asked for   *)
(* it, and graceful_shutdown_manual is called only after                   *)
(* graceful_shutdown_initialize.                                           *)
THEOREM ClientCorrect == Client!Spec => []ClientExitsRight
<1>1. ClientInv => ClientExitsRight
  BY DEF ClientInv, ClientExitsRight, Client!ClientExitsRight, Client!ManualIsInitialized
<1> QED
  BY <1>1, ClientInit, ClientStep, PTL DEF Client!Spec
=============================================================================
