----------------------------- MODULE EventsLoop -----------------------------
(***************************************************************************)
(* The event loop of libcperciva/events: events_spin and                   *)
(* events_run_internal (events.c), the queues of immediate events          *)
(* (events_immediate.c) and the timers (events_timer.c).                   *)
(*                                                                         *)
(* Sockets are abstracted to what the loop sees of them: which are         *)
(* registered, and which the last poll has found ready (EventsNetwork      *)
(* models how).  The heap of timers is abstracted to the deadline of each  *)
(* (TimerQueue models it); of timers with the same deadline any may come   *)
(* first.  Events are numbered in the order in which they are registered.  *)
(* A call that cannot allocate memory leaves the state as it is.           *)
(***************************************************************************)
EXTENDS Integers, Sequences, FiniteSets

CONSTANTS
    NPrio,      \* number of priorities (32 in the code)
    Sock,       \* sockets
    Delay,      \* the times for which timers are set
    TimeMax,    \* the largest time_t; also, the end of time in the model
    MaxReg,     \* how many events are registered in all
    MaxSig      \* how many signals arrive in all

ASSUME LoopAssumption ==
    /\ NPrio \in Nat \ {0}
    /\ Delay \subseteq Nat
    /\ TimeMax \in Nat /\ MaxReg \in Nat /\ MaxSig \in Nat

Ev == 1 .. MaxReg
Prio == 0 .. (NPrio - 1)

VARIABLES
    pc,         \* where the loop is
    from,       \* the loop from which the callback was called
    cur,        \* the event whose callback runs
    rc,         \* its status
    done,       \* what events_spin is to wait for
    interrupt_requested,
    heads,      \* heads[p]: the queue of immediate events of priority p
    minq,       \* no queue below this one has events
    deadline,   \* deadline[e]: when the timer e expires, -1 if it is no timer
    tv_orig,    \* tv_orig[e]: the time for which the timer e is set
    net,        \* net[s]: the event registered for the socket s, or 0
    ready,      \* sockets found ready by poll, not yet handed out
    kready,     \* sockets that are ready
    now,        \* the clock
    timeout,    \* how long poll waits, -1 if without limit
    until,      \* when poll stops to wait, -1 if it does not
    eintr,      \* a signal has arrived during poll
    status,     \* status[e]: "unused", "pending" or "over" (ran or cancelled)
    prio,       \* prio[e]: priority of the immediate event e
    signals,    \* number of signals so far
    promised,   \* history: this call of events_run_internal found something to run
    ran,        \* history: and has run an event
    late        \* history: events started since an interrupt was requested

loopvars == <<pc, from, cur, rc, done>>
immvars == <<heads, minq, prio>>
timervars == <<deadline, tv_orig>>
netvars == <<net, ready>>
pollvars == <<timeout, until, eintr>>
world == <<kready, now, signals>>
history == <<promised, ran, late>>
vars == <<loopvars, interrupt_requested, immvars, timervars, netvars, pollvars, world, status, history>>

Init ==
    /\ pc = "setup" /\ from = "first" /\ cur = 0 /\ rc = 0 /\ done = FALSE
    /\ interrupt_requested = FALSE
    /\ heads = [p \in Prio |-> <<>>] /\ minq = NPrio
    /\ prio = [e \in Ev |-> 0]
    /\ deadline = [e \in Ev |-> -1] /\ tv_orig = [e \in Ev |-> 0]
    /\ net = [s \in Sock |-> 0] /\ ready = {}
    /\ timeout = -1 /\ until = -1 /\ eintr = FALSE
    /\ kready = {} /\ now = 0 /\ signals = 0
    /\ status = [e \in Ev |-> "unused"]
    /\ promised = FALSE /\ ran = FALSE /\ late = 0

Immediates == {e \in Ev : \E p \in Prio : \E i \in DOMAIN heads[p] : heads[p][i] = e}
Timers == {e \in Ev : deadline[e] # -1}
Expired == {e \in Timers : deadline[e] <= now}
Registered == {s \in Sock : net[s] # 0}

-----------------------------------------------------------------------------
(* What a program, or a callback, may do with events                       *)

App == pc \in {"setup", "callback"}

(* The next event; none after the last one.                                *)
New(e) == status[e] = "unused" /\ \A d \in 1 .. (e - 1) : status[d] # "unused"

events_immediate_register(p) ==
    /\ App
    /\ \E e \in Ev :
          /\ New(e)
          /\ status' = [status EXCEPT ![e] = "pending"]
          /\ prio' = [prio EXCEPT ![e] = p]
          /\ heads' = [heads EXCEPT ![p] = Append(@, e)]
    /\ minq' = IF p < minq THEN p ELSE minq
    /\ UNCHANGED <<loopvars, interrupt_requested, timervars, netvars, pollvars, world, history>>

(* minq stays, though the queue may have become empty.                     *)
events_immediate_cancel(e) ==
    /\ App /\ e \in Immediates
    /\ status' = [status EXCEPT ![e] = "over"]
    /\ \E i \in DOMAIN heads[prio[e]] :
          /\ heads[prio[e]][i] = e
          /\ heads' = [heads EXCEPT ![prio[e]] = SubSeq(@, 1, i - 1) \o SubSeq(@, i + 1, Len(@))]
    /\ prio' = [prio EXCEPT ![e] = 0]
    /\ UNCHANGED <<loopvars, interrupt_requested, minq, timervars, netvars, pollvars, world,
                   history>>

(* gettimeout refuses a time that time_t cannot hold.                      *)
gettimeout(d) == IF now + d <= TimeMax THEN now + d ELSE -1

events_timer_register(d) ==
    /\ App /\ gettimeout(d) # -1
    /\ \E e \in Ev :
          /\ New(e)
          /\ status' = [status EXCEPT ![e] = "pending"]
          /\ deadline' = [deadline EXCEPT ![e] = gettimeout(d)]
          /\ tv_orig' = [tv_orig EXCEPT ![e] = d]
    /\ UNCHANGED <<loopvars, interrupt_requested, immvars, netvars, pollvars, world, history>>

events_timer_cancel(e) ==
    /\ App /\ e \in Timers
    /\ status' = [status EXCEPT ![e] = "over"]
    /\ deadline' = [deadline EXCEPT ![e] = -1]
    /\ tv_orig' = [tv_orig EXCEPT ![e] = 0]
    /\ UNCHANGED <<loopvars, interrupt_requested, immvars, netvars, pollvars, world, history>>

events_timer_reset(e) ==
    /\ App /\ e \in Timers /\ gettimeout(tv_orig[e]) # -1
    /\ deadline' = [deadline EXCEPT ![e] = gettimeout(tv_orig[e])]
    /\ UNCHANGED <<loopvars, interrupt_requested, immvars, tv_orig, netvars, pollvars, world,
                   status, history>>

events_network_register(s) ==
    /\ App /\ net[s] = 0
    /\ \E e \in Ev :
          /\ New(e)
          /\ status' = [status EXCEPT ![e] = "pending"]
          /\ net' = [net EXCEPT ![s] = e]
    /\ UNCHANGED <<loopvars, interrupt_requested, immvars, timervars, ready, pollvars, world, history>>

events_network_cancel(s) ==
    /\ App /\ net[s] # 0
    /\ status' = [status EXCEPT ![net[s]] = "over"]
    /\ net' = [net EXCEPT ![s] = 0]
    /\ ready' = ready \ {s}
    /\ UNCHANGED <<loopvars, interrupt_requested, immvars, timervars, pollvars, world, history>>

-----------------------------------------------------------------------------
(* The loop                                                                *)

(* doevent: the callback of e is called from the loop f.                   *)
doevent(e, f) ==
    /\ pc' = "callback" /\ cur' = e /\ from' = f
    /\ status' = [status EXCEPT ![e] = "over"]
    /\ ran' = TRUE
    /\ late' = IF interrupt_requested THEN late + 1 ELSE late
    /\ UNCHANGED <<rc, done, promised>>

(* Go to l, with status r.                                                 *)
Goto(l, r) ==
    /\ pc' = l /\ rc' = r /\ from' = "first" /\ cur' = 0
    /\ UNCHANGED <<done, status, history>>

(* events_immediate_get advances minq to the first queue with events.      *)
Advanced ==
    CHOOSE q \in minq .. NPrio :
        /\ q = NPrio \/ heads[q] # <<>>
        /\ \A i \in minq .. (q - 1) : heads[i] = <<>>

events_immediate_get(f) ==
    /\ Advanced < NPrio
    /\ minq' = Advanced
    /\ heads' = [heads EXCEPT ![Advanced] = Tail(@)]
    /\ doevent(Head(heads[Advanced]), f)
    /\ prio' = [prio EXCEPT ![Head(heads[Advanced])] = 0]
    /\ UNCHANGED <<timervars, netvars>>

NoImmediate == Advanced = NPrio /\ minq' = NPrio /\ UNCHANGED <<heads, prio>>

(* Setting up is over: the program calls events_spin.                      *)
Start ==
    /\ pc = "setup"
    /\ Goto("spin", 0)
    /\ UNCHANGED <<interrupt_requested, immvars, timervars, netvars, pollvars, world>>

events_spin ==
    /\ pc = "spin"
    /\ \/ /\ ~done /\ rc = 0 /\ ~interrupt_requested
          /\ pc' = "entry"
          /\ promised' = (Immediates # {} \/ Expired # {} \/ Registered \cap kready # {})
          /\ ran' = FALSE
          /\ UNCHANGED <<interrupt_requested, late>>
       \/ /\ done \/ rc # 0 \/ interrupt_requested
          /\ pc' = "end"
          /\ interrupt_requested' = FALSE
          /\ UNCHANGED history
    /\ UNCHANGED <<from, cur, rc, done, status, immvars, timervars, netvars, pollvars, world>>

(* events_timer_min: the time for which poll may wait.                     *)
events_timer_min ==
    LET first == CHOOSE d \in {deadline[e] : e \in Timers} :
                    \A e \in Timers : d <= deadline[e] IN
    IF Timers = {} THEN -1 ELSE IF now > first THEN 0 ELSE first - now

(* If there are immediate events, run them all; otherwise wait.            *)
events_run_internal ==
    /\ \/ /\ pc = "entry"
          /\ events_immediate_get("first")
          /\ UNCHANGED pollvars
       \/ /\ pc = "entry" /\ NoImmediate
          /\ \/ /\ Goto("poll", 0)
                /\ timeout' = events_timer_min
                /\ until' = IF events_timer_min = -1 THEN -1 ELSE now + events_timer_min
                /\ eintr' = FALSE
             \/ Goto("spin", -1) /\ UNCHANGED pollvars
          /\ UNCHANGED <<timervars, netvars>>
       \/ /\ pc = "first"
          /\ \/ events_immediate_get("first")
             \/ NoImmediate /\ Goto("spin", 0) /\ UNCHANGED <<timervars, netvars>>
          /\ UNCHANGED pollvars
    /\ UNCHANGED <<interrupt_requested, world>>

EndPoll == timeout' = -1 /\ until' = -1 /\ eintr' = FALSE

(* Mutant: after a signal poll waits without limit.                       *)
events_network_select_forever ==
    /\ pc = "poll"
    /\ \/ /\ Registered \cap kready # {} \/ (until # -1 /\ now >= until)
          /\ Goto("loop", 0) /\ EndPoll
          /\ ready' = Registered \cap kready
          /\ UNCHANGED net
       \/ /\ eintr /\ interrupt_requested
          /\ Goto("loop", 0) /\ EndPoll
          /\ UNCHANGED netvars
       \/ /\ eintr /\ ~interrupt_requested
          /\ eintr' = FALSE
          /\ until' = -1
          /\ UNCHANGED <<loopvars, status, history, timeout, netvars>>
       \/ Goto("spin", -1) /\ EndPoll /\ UNCHANGED netvars
    /\ UNCHANGED <<interrupt_requested, immvars, timervars, world>>

(* events_network_select: poll, again after a signal that requests no      *)
(* interrupt, and again for the whole time.                                *)
events_network_select ==
    /\ pc = "poll"
    /\ \/ /\ Registered \cap kready # {} \/ (until # -1 /\ now >= until)
          /\ Goto("loop", 0) /\ EndPoll
          /\ ready' = Registered \cap kready
          /\ UNCHANGED net
       \/ /\ eintr /\ interrupt_requested
          /\ Goto("loop", 0) /\ EndPoll
          /\ UNCHANGED netvars
       \/ /\ eintr /\ ~interrupt_requested
          /\ eintr' = FALSE
          /\ until' = IF timeout = -1 THEN -1 ELSE now + timeout
          /\ UNCHANGED <<loopvars, status, history, timeout, netvars>>
       \/ Goto("spin", -1) /\ EndPoll /\ UNCHANGED netvars
    /\ UNCHANGED <<interrupt_requested, immvars, timervars, world>>

(* events_network_get hands out a socket that was found ready.  Its        *)
(* callback need not use up what made it ready.                            *)
events_network_get ==
    \E s \in ready :
        /\ doevent(net[s], "loop")
        /\ net' = [net EXCEPT ![s] = 0]
        /\ ready' = ready \ {s}
        /\ kready' \in {kready, kready \ {s}}
        /\ UNCHANGED <<timervars, now, signals>>

(* Mutant: immediate events wait for network events.                      *)
run_loop_netfirst ==
    /\ pc = "loop"
    /\ \/ /\ interrupt_requested
          /\ Goto("spin", 0)
          /\ UNCHANGED <<immvars, timervars, netvars, world>>
       \/ ~interrupt_requested /\ events_immediate_get("loop") /\ UNCHANGED world
       \/ ~interrupt_requested /\ events_network_get /\ UNCHANGED immvars
       \/ /\ ~interrupt_requested /\ NoImmediate
          /\ \/ /\ ready = {}
                /\ \/ Goto("recheck", 0) /\ ready' = Registered \cap kready
                   \/ Goto("spin", -1) /\ UNCHANGED ready
                /\ UNCHANGED <<net, timervars, world>>
    /\ UNCHANGED <<interrupt_requested, pollvars>>

(* The loop after poll, up to the second poll.                             *)
run_loop ==
    /\ pc = "loop"
    /\ \/ /\ interrupt_requested
          /\ Goto("spin", 0)
          /\ UNCHANGED <<immvars, timervars, netvars, world>>
       \/ ~interrupt_requested /\ events_immediate_get("loop") /\ UNCHANGED world
       \/ /\ ~interrupt_requested /\ NoImmediate
          /\ \/ events_network_get
             \/ /\ ready = {}
                /\ \/ Goto("recheck", 0) /\ ready' = Registered \cap kready
                   \/ Goto("spin", -1) /\ UNCHANGED ready
                /\ UNCHANGED <<net, timervars, world>>
    /\ UNCHANGED <<interrupt_requested, pollvars>>

events_timer_get ==
    \E e \in Expired :
        /\ \A d \in Expired : deadline[e] <= deadline[d]
        /\ doevent(e, "loop")
        /\ deadline' = [deadline EXCEPT ![e] = -1]
        /\ tv_orig' = [tv_orig EXCEPT ![e] = 0]
        /\ UNCHANGED <<netvars, world>>

(* The rest of the loop.                                                   *)
run_recheck ==
    /\ pc = "recheck"
    /\ \/ events_network_get
       \/ /\ ready = {}
          /\ \/ events_timer_get
             \/ Expired = {} /\ Goto("spin", 0) /\ UNCHANGED <<timervars, netvars, world>>
             \/ Goto("spin", -1) /\ UNCHANGED <<timervars, netvars, world>>
    /\ UNCHANGED <<interrupt_requested, immvars, pollvars>>

(* Mutant: the first loop does not look at interrupt_requested.           *)
Return_onward(r) ==
    /\ pc = "callback"
    /\ Goto(IF r # 0 THEN "spin"
            ELSE IF from = "loop" THEN "loop" ELSE "first", r)
    /\ UNCHANGED <<interrupt_requested, immvars, timervars, netvars, pollvars, world>>

(* The callback returns.                                                   *)
Return(r) ==
    /\ pc = "callback"
    /\ Goto(IF r # 0 THEN "spin"
            ELSE IF from = "loop" THEN "loop"
            ELSE IF interrupt_requested THEN "spin" ELSE "first", r)
    /\ UNCHANGED <<interrupt_requested, immvars, timervars, netvars, pollvars, world>>

-----------------------------------------------------------------------------
(* The rest of the program, and the world                                  *)

Done ==
    /\ pc = "callback" /\ ~done
    /\ done' = TRUE
    /\ UNCHANGED <<pc, from, cur, rc, interrupt_requested, immvars, timervars, netvars, pollvars,
                   world, status, history>>

(* A signal, whose handler may call events_interrupt.  In poll it is       *)
(* noticed.                                                                *)
Signal(interrupt) ==
    /\ pc \notin {"setup", "end"} /\ signals < MaxSig /\ now <= TimeMax
    /\ signals' = signals + 1
    /\ interrupt_requested' = (interrupt_requested \/ interrupt)
    /\ eintr' = (pc = "poll")
    /\ UNCHANGED <<loopvars, immvars, timervars, netvars, timeout, until, kready, now, status,
                   history>>

(* No time passes between a signal and the end of poll.                    *)
Tick ==
    /\ pc # "end" /\ now < 2 * TimeMax /\ ~(pc = "poll" /\ eintr)
    /\ now' = now + 1
    /\ UNCHANGED <<loopvars, interrupt_requested, immvars, timervars, netvars, pollvars, kready,
                   signals, status, history>>

BecomesReady(s) ==
    /\ pc # "end" /\ s \notin kready
    /\ kready' = kready \cup {s}
    /\ UNCHANGED <<loopvars, interrupt_requested, immvars, timervars, netvars, pollvars, now,
                   signals, status, history>>

Loop ==
    \/ Start \/ events_spin \/ events_run_internal \/ events_network_select
    \/ run_loop \/ run_recheck

Next ==
    \/ \E p \in Prio : events_immediate_register(p)
    \/ \E e \in Ev : events_immediate_cancel(e) \/ events_timer_cancel(e) \/ events_timer_reset(e)
    \/ \E d \in Delay : events_timer_register(d)
    \/ \E s \in Sock : events_network_register(s) \/ events_network_cancel(s) \/ BecomesReady(s)
    \/ Start
    \/ events_spin
    \/ events_run_internal
    \/ events_network_select
    \/ run_loop
    \/ run_recheck
    \/ \E r \in {0, -1} : Return(r)
    \/ Done
    \/ \E i \in BOOLEAN : Signal(i)
    \/ Tick

Spec == Init /\ [][Next]_vars

(* The loop takes its steps, callbacks return, and time passes.  Nothing   *)
(* is assumed of sockets, signals and errors.                              *)
FairSpec ==
    /\ Spec
    /\ WF_vars(Loop /\ rc' = rc)
    /\ WF_vars(Return(0))
    /\ WF_vars(Tick)

-----------------------------------------------------------------------------
TypeOK ==
    /\ pc \in {"setup", "spin", "entry", "first", "poll", "loop", "recheck", "callback", "end"}
    /\ from \in {"first", "loop"} /\ cur \in Ev \cup {0} /\ rc \in {0, -1} /\ done \in BOOLEAN
    /\ interrupt_requested \in BOOLEAN
    /\ heads \in [Prio -> Seq(Ev)] /\ minq \in 0 .. NPrio /\ prio \in [Ev -> Prio]
    /\ deadline \in [Ev -> {-1} \cup 0 .. TimeMax] /\ tv_orig \in [Ev -> Delay \cup {0}]
    /\ net \in [Sock -> Ev \cup {0}] /\ ready \subseteq Sock /\ kready \subseteq Sock
    /\ timeout \in {-1} \cup 0 .. TimeMax /\ until \in {-1} \cup Nat /\ eintr \in BOOLEAN
    /\ now \in Nat /\ signals \in 0 .. MaxSig
    /\ status \in [Ev -> {"unused", "pending", "over"}]
    /\ promised \in BOOLEAN /\ ran \in BOOLEAN /\ late \in Nat

(* "For i < minq, heads[i] == NULL": no immediate event is overlooked.     *)
MinqInvariant == \A p \in 0 .. (minq - 1) : heads[p] = <<>>

(* An event is pending iff exactly one of the three queues has it, once;   *)
(* ready sockets still have their events.                                  *)
PendingIsQueued ==
    /\ \A e \in Ev :
          LET imm == {x \in Prio \X (1 .. MaxReg) :
                         x[2] <= Len(heads[x[1]]) /\ heads[x[1]][x[2]] = e}
              nets == {s \in Sock : net[s] = e}
              n == Cardinality(imm) + Cardinality(nets) + (IF e \in Timers THEN 1 ELSE 0)
          IN  n = IF status[e] = "pending" THEN 1 ELSE 0
    /\ ready \subseteq Registered

(* Whose turn it is: an immediate event runs only if none of a smaller     *)
(* prio value, and none registered earlier with the same, is waiting; a    *)
(* network event only if no immediate event is; a timer only if neither is *)
(* and it has expired, the earliest first.                                 *)
Order ==
    [][pc # "callback" /\ pc' = "callback" =>
         LET e == cur' IN
         /\ status[e] = "pending"
         /\ e \in Immediates =>
               \A d \in Immediates : <<prio[d], d>> # <<prio[e], e>> =>
                   prio[e] < prio[d] \/ (prio[e] = prio[d] /\ e < d)
         /\ e \notin Immediates => Immediates = {}
         /\ e \in Timers => /\ ready = {}
                            /\ deadline[e] <= now
                            /\ \A d \in Timers : deadline[e] <= deadline[d]]_vars

(* "If there are runnable events, events_run() is guaranteed to run at     *)
(* least one", unless it fails or is interrupted.                          *)
AtLeastOne ==
    pc = "spin" /\ promised /\ rc = 0 /\ ~interrupt_requested => ran

(* After an interrupt was requested at most one more callback is started.  *)
AtMostOneMore == late <= 1

(* poll waits no longer than to the first deadline, unless signals arrive. *)
NoOversleep ==
    pc = "poll" /\ signals = 0 => \A e \in Timers : until # -1 /\ (until <= deadline[e] \/ timeout = 0)

(* The five together.                                                      *)
LoopIsSound == MinqInvariant /\ PendingIsQueued /\ AtLeastOne /\ AtMostOneMore /\ NoOversleep

(* Every immediate event and every timer is eventually run or cancelled,   *)
(* unless the loop ends.                                                   *)
AllHandled ==
    \A e \in Ev : e \in Immediates \cup Timers ~> e \notin Immediates \cup Timers \/ pc = "end"
=============================================================================
