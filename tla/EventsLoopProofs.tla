-------------------------- MODULE EventsLoopProofs --------------------------
(***************************************************************************)
(* Proofs about EventsLoop, for any number of priorities, of sockets and   *)
(* of registrations.                                                       *)
(*                                                                         *)
(* The invariant has two halves.  QueueInv is about the three modules that *)
(* keep events, and does not mention where events_run is: every call keeps *)
(* it, from a callback or from outside.  ControlInv is about events_run    *)
(* and events_spin.                                                        *)
(***************************************************************************)
EXTENDS EventsLoop, FiniteSetTheorems, SequenceTheorems, WellFoundedInduction, TLAPS

(* Each queue of immediate events holds pending events of its priority,    *)
(* oldest first.  That the ith is not before event i bounds its length.    *)
Queues ==
    \A p \in Prio : \A i \in 1 .. Len(heads[p]) :
        /\ status[heads[p][i]] = "pending" /\ prio[heads[p][i]] = p
        /\ i <= heads[p][i]
        /\ \A j \in 1 .. Len(heads[p]) : i < j => heads[p][i] < heads[p][j]

(* A pending event is in exactly one place: a queue, the heap of timers,   *)
(* or the slot of one socket; and only pending events are in any.          *)
Owned ==
    \A e \in Ev :
        /\ e \in Timers => status[e] = "pending" /\ e \notin Immediates
        /\ \A s \in Sock : net[s] = e =>
              status[e] = "pending" /\ e \notin Immediates /\ e \notin Timers
        /\ \A s, t \in Sock : net[s] = e /\ net[t] = e => s = t
        /\ status[e] = "pending" => e \in Immediates \/ e \in Timers \/ \E s \in Sock : net[s] = e

(* Events are numbered in the order they were registered.                  *)
Numbered == \A d, e \in Ev : d < e /\ status[e] # "unused" => status[d] # "unused"

(* The invariant of the queues, which every call of the three modules      *)
(* keeps, whoever makes it and from where.                                 *)
QueueInv == Queues /\ MinqInvariant /\ Owned /\ Numbered /\ ready \subseteq Registered

(* There is something to run.                                              *)
Something == Immediates # {} \/ Expired # {} \/ Registered \cap kready # {}

(* What the promise that events_run runs something needs at each place of  *)
(* it: up to the poll there is something to run, and after it the timers   *)
(* or the sockets the poll has found are still there.                      *)
Kept ==
    /\ pc \in {"first", "callback"} => ran
    /\ pc = "setup" => ~promised
    /\ promised /\ ~ran /\ ~interrupt_requested =>
          /\ pc \in {"entry", "poll", "loop"} => Something
          /\ pc = "recheck" => Expired # {} \/ ready # {}
          /\ pc = "spin" => rc # 0

(* How many callbacks were begun since events_interrupt, and where the one *)
(* that was may be.                                                        *)
Stopping ==
    \/ late = 0
    \/ late = 1 /\ pc = "end"
    \/ late = 1 /\ interrupt_requested /\ pc \in {"callback", "spin", "loop"}

(* The poll is entered with no immediate event, and does not outlast the   *)
(* first timer.                                                            *)
Sleeping ==
    /\ pc \in {"poll", "recheck"} => Immediates = {}
    /\ eintr => signals # 0
    /\ NoOversleep

(* The invariant of events_run and events_spin.                            *)
ControlInv == Kept /\ Stopping /\ Sleeping

(* The inductive invariant.                                                *)
LoopInv == TypeOK /\ QueueInv /\ ControlInv

(* A set of numbers has a least one.                                       *)
LEMMA LeastNumber ==
  ASSUME NEW S, S \subseteq Nat, S # {}
  PROVE  \E x \in S : \A y \in S : x <= y
<1>1. IsWellFoundedOn(OpToRel(<, Nat), Nat)
  BY NatLessThanWellFounded, Zenon
<1>2. PICK x \in S : \A y \in S : ~(<<y, x>> \in OpToRel(<, Nat))
  BY <1>1, WFMin, Zenon
<1>3. \A y \in S : ~(y < x)
  BY <1>2, Zenon DEF OpToRel
<1> QED BY <1>3

(* events_immediate_get finds the first queue that is not empty, or that   *)
(* all are.                                                                *)
LEMMA AdvancedFinds ==
  ASSUME TypeOK, MinqInvariant
  PROVE  /\ Advanced \in 0 .. NPrio
         /\ Advanced < NPrio => Advanced \in Prio /\ heads[Advanced] # <<>>
         /\ \A p \in Prio : p < Advanced => heads[p] = <<>>
         /\ Advanced = NPrio => Immediates = {}
<1> USE LoopAssumption
<1>1. minq \in 0 .. NPrio
  BY DEF TypeOK
<1> DEFINE S == {q \in minq .. NPrio : q = NPrio \/ heads[q] # <<>>}
<1>2. S \subseteq Nat /\ NPrio \in S
  BY <1>1
<1>3. PICK x \in S : \A y \in S : x <= y
  <2> HIDE DEF S
  <2> QED BY <1>2, LeastNumber, Zenon
<1>4. /\ x \in minq .. NPrio /\ (x = NPrio \/ heads[x] # <<>>)
      /\ \A i \in minq .. (x - 1) : heads[i] = <<>>
  <2>1. x \in minq .. NPrio /\ (x = NPrio \/ heads[x] # <<>>)
    BY <1>3
  <2>2. ASSUME NEW i \in minq .. (x - 1) PROVE heads[i] = <<>>
    <3>1. i \in minq .. NPrio /\ ~(x <= i)
      BY <1>1, <2>1
    <3> QED BY <1>3, <3>1
  <2> QED BY <2>1, <2>2
<1>5. /\ Advanced \in minq .. NPrio /\ (Advanced = NPrio \/ heads[Advanced] # <<>>)
      /\ \A i \in minq .. (Advanced - 1) : heads[i] = <<>>
  BY <1>4 DEF Advanced
<1> DEFINE a == Advanced
<1> HIDE DEF S
<1>6. a \in minq .. NPrio /\ (a = NPrio \/ heads[a] # <<>>)
      /\ \A i \in minq .. (a - 1) : heads[i] = <<>>
  BY <1>5
<1> HIDE DEF a
<1>7. ASSUME NEW p \in Prio, p < a PROVE heads[p] = <<>>
  <2>1. p \in 0 .. (minq - 1) \/ p \in minq .. (a - 1)
    BY <1>1, <1>6, <1>7 DEF Prio
  <2> QED BY <1>6, <2>1 DEF MinqInvariant
<1>8. a = NPrio => Immediates = {}
  BY <1>7 DEF Immediates, Prio
<1>9. a \in 0 .. NPrio /\ (a < NPrio => a \in Prio /\ heads[a] # <<>>)
  BY <1>1, <1>6 DEF Prio
<1> QED BY <1>7, <1>8, <1>9 DEF a

(* events_timer_min returns the time to the first timer.                   *)
LEMMA TimerMin ==
  ASSUME TypeOK
  PROVE  /\ Timers = {} => events_timer_min = -1
         /\ Timers # {} =>
              \E m \in Timers :
                  /\ \A e \in Timers : deadline[m] <= deadline[e]
                  /\ deadline[m] \in 0 .. TimeMax
                  /\ events_timer_min = IF now > deadline[m] THEN 0 ELSE deadline[m] - now
<1> USE LoopAssumption
<1>1. Timers = {} => events_timer_min = -1
  BY DEF events_timer_min
<1>2. ASSUME Timers # {}
      PROVE  \E m \in Timers :
                  /\ \A e \in Timers : deadline[m] <= deadline[e]
                  /\ deadline[m] \in 0 .. TimeMax
                  /\ events_timer_min = IF now > deadline[m] THEN 0 ELSE deadline[m] - now
  <2> DEFINE S == {deadline[e] : e \in Timers}
             first == CHOOSE d \in S : \A e \in Timers : d <= deadline[e]
  <2>1. \A e \in Timers : deadline[e] \in 0 .. TimeMax
    BY DEF TypeOK, Timers
  <2>2. S \subseteq Nat /\ S # {}
    BY <1>2, <2>1
  <2>3. PICK x \in S : \A y \in S : x <= y
    <3> HIDE DEF S
    <3> QED BY <2>2, LeastNumber, Zenon
  <2>4. x \in S /\ \A e \in Timers : x <= deadline[e]
    BY <2>3
  <2>5. first \in S /\ \A e \in Timers : first <= deadline[e]
    <3> HIDE DEF S
    <3> QED BY <2>4
  <2>6. events_timer_min = IF now > first THEN 0 ELSE first - now
    BY <1>2 DEF events_timer_min
  <2> HIDE DEF first
  <2>7. PICK m \in Timers : first = deadline[m]
    BY <2>5
  <2> QED BY <2>1, <2>5, <2>6, <2>7
<1> QED BY <1>1, <1>2

(* Where an event is among the immediate ones.                             *)
LEMMA ImmediatesAre ==
  ASSUME TypeOK
  PROVE  \A e \in Ev : e \in Immediates <=> \E p \in Prio : \E i \in 1 .. Len(heads[p]) : heads[p][i] = e
<1>1. \A p \in Prio : DOMAIN heads[p] = 1 .. Len(heads[p])
  BY DEF TypeOK
<1> QED BY <1>1 DEF Immediates

(* A sequence without its ith element.                                     *)
LEMMA CutOut ==
  ASSUME NEW T, NEW q \in Seq(T), NEW i \in 1 .. Len(q)
  PROVE  LET w == SubSeq(q, 1, i - 1) \o SubSeq(q, i + 1, Len(q))
         IN  /\ w \in Seq(T) /\ Len(w) = Len(q) - 1
             /\ \A j \in 1 .. Len(w) : w[j] = IF j < i THEN q[j] ELSE q[j + 1]
<1> DEFINE n == Len(q)
           a == SubSeq(q, 1, i - 1)
           b == SubSeq(q, i + 1, n)
<1>1. n \in Nat /\ i \in 1 .. n
  OBVIOUS
<1>2. a \in Seq(T) /\ Len(a) = i - 1 /\ \A j \in 1 .. (i - 1) : a[j] = q[j]
  OBVIOUS
<1>3. b \in Seq(T) /\ Len(b) = n - i /\ \A j \in 1 .. (n - i) : b[j] = q[i + j]
  OBVIOUS
<1> HIDE DEF a, b
<1>4. /\ a \o b \in Seq(T) /\ Len(a \o b) = n - 1
      /\ \A j \in 1 .. (n - 1) : (a \o b)[j] = IF j <= i - 1 THEN a[j] ELSE b[j - (i - 1)]
  <2>1. /\ a \o b \in Seq(T) /\ Len(a \o b) = Len(a) + Len(b)
        /\ \A j \in 1 .. Len(a) + Len(b) :
              (a \o b)[j] = IF j <= Len(a) THEN a[j] ELSE b[j - Len(a)]
    BY <1>2, <1>3, ConcatProperties
  <2>2. Len(a) + Len(b) = n - 1
    BY <1>1, <1>2, <1>3
  <2> QED BY <1>2, <2>1, <2>2
<1>5. \A j \in 1 .. (n - 1) : (a \o b)[j] = IF j < i THEN q[j] ELSE q[j + 1]
  <2> TAKE j \in 1 .. (n - 1)
  <2>1. CASE j < i
    BY <1>1, <1>2, <1>4, <2>1
  <2>2. CASE ~(j < i)
    <3>1. j - (i - 1) \in 1 .. (n - i) /\ i + (j - (i - 1)) = j + 1
      BY <1>1, <2>2
    <3> QED BY <1>1, <1>3, <1>4, <2>2, <3>1
  <2> QED BY <2>1, <2>2, Zenon
<1> QED BY <1>1, <1>4, <1>5, Zenon DEF a, b

(* No immediate events, no queues.                                         *)
LEMMA NoneImmediate ==
  ASSUME TypeOK, Immediates = {}
  PROVE  \A p \in Prio : heads[p] = <<>>
<1> SUFFICES ASSUME NEW p \in Prio, heads[p] # <<>> PROVE FALSE
  OBVIOUS
<1>1. heads[p] \in Seq(Ev)
  BY DEF TypeOK
<1>2. 1 \in 1 .. Len(heads[p]) /\ heads[p][1] \in Ev
  BY <1>1
<1> QED BY <1>2, ImmediatesAre

(* A new event, the last in its queue, keeps the queues in order,          *)
LEMMA Appended ==
  ASSUME TypeOK, QueueInv, NEW p \in Prio, NEW e \in Ev, New(e),
         status' = [status EXCEPT ![e] = "pending"], prio' = [prio EXCEPT ![e] = p],
         heads' = [heads EXCEPT ![p] = Append(@, e)]
  PROVE  Queues' /\ Immediates' = Immediates \cup {e} /\ e \notin Immediates
<1>1. /\ heads \in [Prio -> Seq(Ev)] /\ status \in [Ev -> {"unused", "pending", "over"}]
      /\ prio \in [Ev -> Prio]
  BY DEF TypeOK
<1>2. status[e] = "unused"
  BY DEF New
<1>3. \A d \in Ev : status[d] # "unused" => d < e
  <2> SUFFICES ASSUME NEW d \in Ev, status[d] # "unused", ~(d < e) PROVE FALSE
    OBVIOUS
  <2>1. d > e
    BY <1>2 DEF Ev
  <2> QED BY <1>2, <2>1 DEF QueueInv, Numbered
<1>4. \A q \in Prio : \A i \in 1 .. Len(heads[q]) :
        heads[q][i] \in Ev /\ heads[q][i] < e /\ heads[q][i] # e
  <2> SUFFICES ASSUME NEW q \in Prio, NEW i \in 1 .. Len(heads[q])
               PROVE  heads[q][i] \in Ev /\ heads[q][i] < e /\ heads[q][i] # e
    OBVIOUS
  <2>1. heads[q][i] \in Ev
    BY <1>1
  <2>2. status[heads[q][i]] = "pending"
    BY DEF QueueInv, Queues
  <2>3. heads[q][i] < e
    BY <1>3, <2>1, <2>2
  <2> QED BY <2>1, <2>3 DEF Ev
<1> DEFINE n == Len(heads[p])
<1>5. n \in Nat /\ heads'[p] \in Seq(Ev) /\ Len(heads'[p]) = n + 1
      /\ \A i \in 1 .. (n + 1) : heads'[p][i] = IF i <= n THEN heads[p][i] ELSE e
  BY <1>1
<1>6. \A q \in Prio \ {p} : heads'[q] = heads[q]
  BY <1>1
<1>7. n + 1 <= e
  <2>1. CASE n = 0
    BY <2>1 DEF Ev
  <2>2. CASE n # 0
    <3>1. n \in 1 .. n
      BY <1>5, <2>2
    <3>2. n <= heads[p][n]
      BY <3>1 DEF QueueInv, Queues
    <3>3. heads[p][n] < e /\ heads[p][n] \in Ev
      BY <1>4, <3>1
    <3> HIDE DEF n
    <3> QED BY <1>5, <3>2, <3>3 DEF Ev
  <2> QED BY <2>1, <2>2
<1>8. Queues'
  <2> SUFFICES ASSUME NEW q \in Prio, NEW i \in 1 .. Len(heads'[q])
               PROVE  /\ status'[heads'[q][i]] = "pending" /\ prio'[heads'[q][i]] = q
                      /\ i <= heads'[q][i]
                      /\ \A j \in 1 .. Len(heads'[q]) : i < j => heads'[q][i] < heads'[q][j]
    BY DEF Queues
  <2>1. \A k \in 1 .. Len(heads[q]) :
           /\ status[heads[q][k]] = "pending" /\ prio[heads[q][k]] = q /\ k <= heads[q][k]
           /\ \A j \in 1 .. Len(heads[q]) : k < j => heads[q][k] < heads[q][j]
    BY DEF QueueInv, Queues
  <2>2. CASE q # p
    <3>1. heads'[q] = heads[q]
      BY <1>6, <2>2
    <3>2. heads[q][i] \in Ev /\ heads[q][i] # e
      BY <1>4, <3>1, Zenon
    <3> QED BY <1>1, <2>1, <3>1, <3>2
  <2>3. CASE q = p /\ i <= n
    <3>1. i \in 1 .. n /\ heads'[q][i] = heads[p][i]
      BY <1>5, <2>3
    <3>2. heads[p][i] \in Ev /\ heads[p][i] # e /\ heads[p][i] < e
      BY <1>4, <3>1
    <3>3. /\ status[heads[p][i]] = "pending" /\ prio[heads[p][i]] = p /\ i <= heads[p][i]
          /\ \A j \in 1 .. n : i < j => heads[p][i] < heads[p][j]
      BY <2>1, <2>3, <3>1
    <3>4. \A j \in 1 .. (n + 1) : i < j => heads[p][i] < heads'[p][j]
      BY <1>5, <3>2, <3>3
    <3> QED BY <1>1, <1>5, <2>3, <3>1, <3>2, <3>3, <3>4, Zenon
  <2>4. CASE q = p /\ ~(i <= n)
    <3>1. i = n + 1 /\ heads'[q][i] = e
      BY <1>5, <2>4
    <3>2. ~ \E j \in 1 .. Len(heads'[q]) : i < j
      BY <1>5, <2>4, <3>1
    <3> QED BY <1>1, <1>7, <2>4, <3>1, <3>2
  <2> QED BY <2>2, <2>3, <2>4
<1>9. e \notin Immediates
  BY <1>4, ImmediatesAre
<1>10. Immediates' = Immediates \cup {e}
  <2>1. ASSUME NEW d \in Ev
        PROVE  (\E q \in Prio : \E i \in 1 .. Len(heads'[q]) : heads'[q][i] = d)
                   <=> (\E q \in Prio : \E i \in 1 .. Len(heads[q]) : heads[q][i] = d) \/ d = e
    <3>1. ASSUME NEW q \in Prio, NEW i \in 1 .. Len(heads'[q]), heads'[q][i] = d, d # e
          PROVE  \E k \in 1 .. Len(heads[q]) : heads[q][k] = d
      BY <1>5, <1>6, <3>1
    <3>2. ASSUME NEW q \in Prio, NEW i \in 1 .. Len(heads[q]), heads[q][i] = d
          PROVE  \E k \in 1 .. Len(heads'[q]) : heads'[q][k] = d
      BY <1>5, <1>6, <3>2
    <3>3. n + 1 \in 1 .. Len(heads'[p]) /\ heads'[p][n + 1] = e
      BY <1>5
    <3> QED BY <3>1, <3>2, <3>3
  <2>2. \A q \in Prio : DOMAIN heads[q] = 1 .. Len(heads[q]) /\ DOMAIN heads'[q] = 1 .. Len(heads'[q])
    BY <1>1, <1>5, <1>6
  <2>3. \A d \in Ev : d \in Immediates' <=> (d \in Immediates \/ d = e)
    BY <2>1, <2>2 DEF Immediates
  <2>4. Immediates \subseteq Ev /\ Immediates' \subseteq Ev
    BY DEF Immediates
  <2> QED BY <2>3, <2>4
<1> QED BY <1>8, <1>9, <1>10

(* and so does one that is taken out, from anywhere.                       *)
LEMMA Removed ==
  ASSUME TypeOK, QueueInv, NEW p \in Prio, NEW i \in 1 .. Len(heads[p]), NEW w \in Seq(Ev),
         Len(w) = Len(heads[p]) - 1,
         \A j \in 1 .. Len(w) : w[j] = IF j < i THEN heads[p][j] ELSE heads[p][j + 1],
         heads' = [heads EXCEPT ![p] = w],
         status' = [status EXCEPT ![heads[p][i]] = "over"],
         prio' = [prio EXCEPT ![heads[p][i]] = 0]
  PROVE  Queues' /\ Immediates' = Immediates \ {heads[p][i]} /\ heads[p][i] \in Immediates
<1> DEFINE e == heads[p][i]
           n == Len(heads[p])
<1>1. /\ heads \in [Prio -> Seq(Ev)] /\ status \in [Ev -> {"unused", "pending", "over"}]
      /\ prio \in [Ev -> Prio]
  BY DEF TypeOK
<1>2. e \in Ev /\ n \in Nat /\ i \in 1 .. n
  BY <1>1
<1>3. \A q \in Prio : \A k \in 1 .. Len(heads[q]) :
        /\ heads[q][k] \in Ev /\ status[heads[q][k]] = "pending" /\ prio[heads[q][k]] = q
        /\ k <= heads[q][k]
        /\ \A j \in 1 .. Len(heads[q]) : k < j => heads[q][k] < heads[q][j]
  BY <1>1 DEF QueueInv, Queues
<1>4. \A q \in Prio : \A k \in 1 .. Len(heads[q]) : heads[q][k] = e => q = p /\ k = i
  <2> SUFFICES ASSUME NEW q \in Prio, NEW k \in 1 .. Len(heads[q]), heads[q][k] = e
               PROVE  q = p /\ k = i
    OBVIOUS
  <2>1. q = p
    BY <1>2, <1>3
  <2>2. ~(k < i) /\ ~(i < k)
    <3>1. k < i => heads[p][k] < heads[p][i]
      BY <1>2, <1>3, <2>1
    <3>2. i < k => heads[p][i] < heads[p][k]
      BY <1>2, <1>3, <2>1
    <3>3. e \in Nat
      BY <1>2 DEF Ev
    <3> QED BY <2>1, <3>1, <3>2, <3>3
  <2> QED BY <1>2, <2>1, <2>2
<1>5. heads'[p] = w /\ \A q \in Prio \ {p} : heads'[q] = heads[q]
  BY <1>1
<1>6. Len(w) = n - 1 /\ \A j \in 1 .. (n - 1) : w[j] = IF j < i THEN heads[p][j] ELSE heads[p][j + 1]
  OBVIOUS
<1>7. \A j \in 1 .. (n - 1) : \E k \in 1 .. n : /\ k # i /\ w[j] = heads[p][k] /\ j <= k
                                                /\ k = IF j < i THEN j ELSE j + 1
  <2> TAKE j \in 1 .. (n - 1)
  <2>1. CASE j < i
    BY <1>2, <1>6, <2>1
  <2>2. CASE ~(j < i)
    <3>1. j + 1 \in 1 .. n /\ j + 1 # i
      BY <1>2, <2>2
    <3> QED BY <1>6, <2>2, <3>1
  <2> QED BY <2>1, <2>2
<1> HIDE DEF e, n
<1>8. Queues'
  <2> SUFFICES ASSUME NEW q \in Prio, NEW k \in 1 .. Len(heads'[q])
               PROVE  /\ status'[heads'[q][k]] = "pending" /\ prio'[heads'[q][k]] = q
                      /\ k <= heads'[q][k]
                      /\ \A j \in 1 .. Len(heads'[q]) : k < j => heads'[q][k] < heads'[q][j]
    BY DEF Queues
  <2>1. status' = [status EXCEPT ![e] = "over"] /\ prio' = [prio EXCEPT ![e] = 0]
    BY DEF e
  <2>2. CASE q # p
    <3>1. heads'[q] = heads[q]
      BY <1>5, <2>2
    <3>2. heads[q][k] # e
      BY <1>4, <2>2, <3>1
    <3> QED BY <1>1, <1>3, <2>1, <3>1, <3>2
  <2>3. CASE q = p
    <3>1. heads'[q] = w /\ k \in 1 .. (n - 1) /\ Len(heads[p]) = n
      BY <1>5, <1>6, <2>3 DEF n
    <3>2. PICK m \in 1 .. n : /\ m # i /\ w[k] = heads[p][m] /\ k <= m
                              /\ m = IF k < i THEN k ELSE k + 1
      BY <1>7, <3>1
    <3>3. /\ heads[p][m] \in Ev /\ status[heads[p][m]] = "pending" /\ prio[heads[p][m]] = p
          /\ m <= heads[p][m]
      BY <1>3, <3>1, <3>2
    <3>4. heads[p][m] # e
      BY <1>4, <3>1, <3>2
    <3>5. ASSUME NEW j \in 1 .. (n - 1), k < j PROVE w[k] < w[j]
      <4>1. PICK l \in 1 .. n : w[j] = heads[p][l] /\ l = IF j < i THEN j ELSE j + 1
        BY <1>7
      <4>2. m < l
        BY <1>2, <3>1, <3>2, <3>5, <4>1
      <4> QED BY <1>3, <3>1, <3>2, <4>1, <4>2
    <3>6. k <= heads[p][m]
      BY <1>2, <3>1, <3>2, <3>3 DEF Ev
    <3> QED BY <1>1, <1>6, <2>1, <2>3, <3>1, <3>2, <3>3, <3>4, <3>5, <3>6
  <2> QED BY <2>2, <2>3
<1>9. e \in Immediates
  BY <1>2, ImmediatesAre DEF e, n
<1>10. Immediates' = Immediates \ {e}
  <2>1. ASSUME NEW d \in Ev
        PROVE  (\E q \in Prio : \E k \in 1 .. Len(heads'[q]) : heads'[q][k] = d)
                   <=> (\E q \in Prio : \E k \in 1 .. Len(heads[q]) : heads[q][k] = d) /\ d # e
    <3>1. ASSUME NEW q \in Prio, NEW k \in 1 .. Len(heads'[q]), heads'[q][k] = d
          PROVE  (\E m \in 1 .. Len(heads[q]) : heads[q][m] = d) /\ d # e
      <4>1. CASE q # p
        BY <1>4, <1>5, <3>1, <4>1
      <4>2. CASE q = p
        <5>1. k \in 1 .. (n - 1) /\ w[k] = d
          BY <1>5, <1>6, <3>1, <4>2
        <5>2. PICK m \in 1 .. n : m # i /\ w[k] = heads[p][m]
          BY <1>7, <5>1
        <5> QED BY <1>4, <4>2, <5>1, <5>2 DEF n
      <4> QED BY <4>1, <4>2
    <3>2. ASSUME NEW q \in Prio, NEW k \in 1 .. Len(heads[q]), heads[q][k] = d, d # e
          PROVE  \E m \in 1 .. Len(heads'[q]) : heads'[q][m] = d
      <4>1. CASE q # p
        BY <1>5, <3>2, <4>1
      <4>2. CASE q = p
        <5>1. k \in 1 .. n /\ k # i
          BY <3>2, <4>2 DEF n, e
        <5>2. CASE k < i
          <6>1. k \in 1 .. (n - 1) /\ w[k] = heads[p][k]
            BY <1>2, <1>6, <5>1, <5>2
          <6> QED BY <1>5, <1>6, <3>2, <4>2, <6>1
        <5>3. CASE i < k
          <6>1. k - 1 \in 1 .. (n - 1) /\ ~(k - 1 < i) /\ (k - 1) + 1 = k
            BY <1>2, <5>1, <5>3
          <6>2. w[k - 1] = heads[p][k]
            BY <1>6, <6>1
          <6> QED BY <1>5, <1>6, <3>2, <4>2, <6>1, <6>2
        <5> QED BY <1>2, <5>1, <5>2, <5>3
      <4> QED BY <4>1, <4>2
    <3> QED BY <3>1, <3>2
  <2>2. \A q \in Prio : DOMAIN heads[q] = 1 .. Len(heads[q]) /\ DOMAIN heads'[q] = 1 .. Len(heads'[q])
    BY <1>1, <1>5
  <2>3. \A d \in Ev : d \in Immediates' <=> (d \in Immediates /\ d # e)
    BY <2>1, <2>2 DEF Immediates
  <2>4. Immediates \subseteq Ev /\ Immediates' \subseteq Ev
    BY DEF Immediates
  <2> QED BY <2>3, <2>4
<1> QED BY <1>8, <1>9, <1>10 DEF e

(* Events that are registered.                                             *)
LEMMA NewIsLast ==
  ASSUME TypeOK, QueueInv, NEW e \in Ev, New(e), status' = [status EXCEPT ![e] = "pending"]
  PROVE  /\ Numbered' /\ e \notin Immediates /\ e \notin Timers /\ \A s \in Sock : net[s] # e
         /\ status[e] = "unused"
<1>1. status[e] = "unused" /\ \A d \in 1 .. (e - 1) : status[d] # "unused"
  BY DEF New
<1>2. Numbered'
  <2> SUFFICES ASSUME NEW d \in Ev, NEW f \in Ev, d < f, status'[f] # "unused"
               PROVE  status'[d] # "unused"
    BY DEF Numbered
  <2>1. status \in [Ev -> {"unused", "pending", "over"}]
    BY DEF TypeOK
  <2>2. CASE f = e
    <3>1. d \in 1 .. (e - 1) /\ d # e
      BY <2>2 DEF Ev
    <3> QED BY <1>1, <2>1, <3>1
  <2>3. CASE f # e
    BY <2>1, <2>3 DEF QueueInv, Numbered
  <2> QED BY <2>2, <2>3
<1>3. e \notin Immediates
  <2>1. \A p \in Prio : \A i \in 1 .. Len(heads[p]) : status[heads[p][i]] = "pending"
    BY DEF QueueInv, Queues
  <2> QED BY <1>1, <2>1, ImmediatesAre
<1>4. e \notin Timers /\ \A s \in Sock : net[s] # e
  BY <1>1 DEF QueueInv, Owned
<1> QED BY <1>1, <1>2, <1>3, <1>4

(* An event that is over keeps its number.                                 *)
LEMMA OverIsNumbered ==
  ASSUME TypeOK, QueueInv, NEW e \in Ev, status[e] = "pending",
         status' = [status EXCEPT ![e] = "over"]
  PROVE  Numbered'
<1>1. status \in [Ev -> {"unused", "pending", "over"}]
  BY DEF TypeOK
<1> QED BY <1>1 DEF QueueInv, Numbered

(* A socket is registered if it has an event.                              *)
LEMMA NetIsRegistered ==
  ASSUME TypeOK
  PROVE  \A s \in Sock : s \in Registered <=> net[s] \in Ev
BY DEF TypeOK, Registered, Ev

(* The calls of events_immediate.c,                                        *)
LEMMA ImmediateRegistered ==
  ASSUME TypeOK, QueueInv, NEW p \in Prio, events_immediate_register(p)
  PROVE  QueueInv'
<1> USE LoopAssumption
<1>1. PICK e \in Ev : /\ New(e)
                      /\ status' = [status EXCEPT ![e] = "pending"]
                      /\ prio' = [prio EXCEPT ![e] = p]
                      /\ heads' = [heads EXCEPT ![p] = Append(@, e)]
  BY Zenon DEF events_immediate_register
<1>2. /\ minq' = IF p < minq THEN p ELSE minq
      /\ UNCHANGED <<deadline, net, ready>>
  BY DEF events_immediate_register, timervars, netvars
<1>3. Queues' /\ Immediates' = Immediates \cup {e} /\ e \notin Immediates
  BY <1>1, Appended, Zenon
<1>4. Numbered' /\ e \notin Timers /\ (\A s \in Sock : net[s] # e) /\ status[e] = "unused"
  BY <1>1, NewIsLast, Zenon
<1>5. Timers' = Timers /\ Registered' = Registered
  BY <1>2 DEF Timers, Registered
<1>6. Owned'
  <2>1. status \in [Ev -> {"unused", "pending", "over"}]
    BY DEF TypeOK
  <2> QED BY <1>1, <1>2, <1>3, <1>4, <1>5, <2>1 DEF Owned, QueueInv
<1>7. MinqInvariant'
  <2>1. heads \in [Prio -> Seq(Ev)] /\ minq \in 0 .. NPrio
    BY DEF TypeOK
  <2>2. ASSUME NEW q \in 0 .. (minq' - 1) PROVE heads'[q] = <<>>
    <3>1. q \in 0 .. (minq - 1) /\ q # p /\ q \in Prio
      BY <1>2, <2>1 DEF Prio
    <3> QED BY <1>1, <2>1, <3>1 DEF QueueInv, MinqInvariant
  <2> QED BY <2>2 DEF MinqInvariant
<1> QED BY <1>2, <1>3, <1>4, <1>5, <1>6, <1>7 DEF QueueInv

(* What Owned says when an immediate event is over.                        *)
LEMMA ImmediateOver ==
  ASSUME TypeOK, QueueInv, NEW e \in Ev, e \in Immediates, Immediates' = Immediates \ {e},
         status' = [status EXCEPT ![e] = "over"], UNCHANGED <<deadline, net>>
  PROVE  Owned'
<1>1. Timers' = Timers
  BY DEF Timers
<1>2. status \in [Ev -> {"unused", "pending", "over"}]
  BY DEF TypeOK
<1> QED BY <1>1, <1>2 DEF Owned, QueueInv

(* the one that cancels an event of any queue,                             *)
LEMMA ImmediateCancelled ==
  ASSUME TypeOK, QueueInv, NEW e \in Ev, events_immediate_cancel(e)
  PROVE  QueueInv' /\ Immediates' = Immediates \ {e}
<1> USE LoopAssumption
<1>1. /\ e \in Immediates
      /\ status' = [status EXCEPT ![e] = "over"]
      /\ prio' = [prio EXCEPT ![e] = 0]
      /\ UNCHANGED <<minq, deadline, net, ready>>
  BY DEF events_immediate_cancel, timervars, netvars
<1>2. heads \in [Prio -> Seq(Ev)] /\ minq \in 0 .. NPrio /\ prio \in [Ev -> Prio]
  BY DEF TypeOK
<1> DEFINE p == prio[e]
<1>3. p \in Prio
  BY <1>2
<1>4. PICK i \in DOMAIN heads[p] :
        /\ heads[p][i] = e
        /\ heads' = [heads EXCEPT ![p] = SubSeq(heads[p], 1, i - 1) \o SubSeq(heads[p], i + 1, Len(heads[p]))]
  BY Zenon DEF events_immediate_cancel
<1>5. /\ i \in 1 .. Len(heads[p]) /\ heads[p][i] = e
      /\ heads' = [heads EXCEPT ![p] = SubSeq(heads[p], 1, i - 1) \o SubSeq(heads[p], i + 1, Len(heads[p]))]
  BY <1>2, <1>3, <1>4
<1> DEFINE q == heads[p]
           w == SubSeq(q, 1, i - 1) \o SubSeq(q, i + 1, Len(q))
<1>6. /\ w \in Seq(Ev) /\ Len(w) = Len(q) - 1
      /\ \A j \in 1 .. Len(w) : w[j] = IF j < i THEN q[j] ELSE q[j + 1]
  <2>1. q \in Seq(Ev) /\ i \in 1 .. Len(q)
    BY <1>2, <1>3
  <2> HIDE DEF q
  <2> QED BY <2>1, CutOut, Zenon
<1>7. heads' = [heads EXCEPT ![p] = w]
  BY <1>5
<1> HIDE DEF w
<1>8. Queues' /\ Immediates' = Immediates \ {e}
  <2> HIDE DEF p
  <2>1. /\ i \in 1 .. Len(heads[p]) /\ p \in Prio
        /\ status' = [status EXCEPT ![heads[p][i]] = "over"]
        /\ prio' = [prio EXCEPT ![heads[p][i]] = 0]
    BY <1>1, <1>3, <1>5
  <2>2. Queues' /\ Immediates' = Immediates \ {heads[p][i]}
    BY <1>6, <1>7, <2>1, Removed, Zenon
  <2> QED BY <1>5, <2>2
<1>9. Owned' /\ Numbered'
  <2>1. status[e] = "pending"
    BY <1>3, <1>5 DEF QueueInv, Queues
  <2> QED BY <1>1, <1>8, <2>1, ImmediateOver, OverIsNumbered, Zenon
<1>10. MinqInvariant'
  <2>1. ASSUME NEW r \in 0 .. (minq - 1) PROVE heads'[r] = <<>>
    <3>1. heads[r] = <<>> /\ r \in Prio
      BY <1>2 DEF QueueInv, MinqInvariant, Prio
    <3>2. r # p
      BY <1>5, <3>1
    <3> QED BY <1>2, <1>3, <1>7, <3>1, <3>2
  <2> QED BY <1>1, <2>1 DEF MinqInvariant
<1>11. ready' \subseteq Registered'
  BY <1>1 DEF QueueInv, Registered
<1> QED BY <1>8, <1>9, <1>10, <1>11 DEF QueueInv

(* and the one that takes the first event there is.                        *)
LEMMA ImmediateGot ==
  ASSUME TypeOK, QueueInv, NEW f, events_immediate_get(f)
  PROVE  LET e == Head(heads[Advanced])
         IN  /\ QueueInv' /\ e \in Ev /\ e \in Immediates /\ Immediates' = Immediates \ {e}
             /\ doevent(e, f) /\ UNCHANGED <<deadline, tv_orig, net, ready>>
             /\ status[e] = "pending"
             /\ \A d \in Immediates : d # e => prio[e] < prio[d] \/ (prio[e] = prio[d] /\ e < d)
<1> USE LoopAssumption
<1> DEFINE a == Advanced
           e == Head(heads[a])
<1>1. /\ a < NPrio /\ minq' = a
      /\ heads' = [heads EXCEPT ![a] = Tail(@)]
      /\ doevent(e, f)
      /\ prio' = [prio EXCEPT ![e] = 0]
      /\ UNCHANGED <<deadline, tv_orig, net, ready>>
  BY DEF events_immediate_get, timervars, netvars
<1>2. status' = [status EXCEPT ![e] = "over"]
  BY <1>1 DEF doevent
<1>3. heads \in [Prio -> Seq(Ev)] /\ minq \in 0 .. NPrio /\ prio \in [Ev -> Prio]
  BY DEF TypeOK
<1>4. a \in Prio /\ heads[a] # <<>> /\ a \in 0 .. NPrio /\ \A p \in Prio : p < a => heads[p] = <<>>
  BY <1>1, AdvancedFinds DEF QueueInv
<1> HIDE DEF a
<1>5. /\ 1 \in 1 .. Len(heads[a]) /\ e = heads[a][1] /\ e \in Ev
      /\ Tail(heads[a]) \in Seq(Ev) /\ Len(Tail(heads[a])) = Len(heads[a]) - 1
      /\ \A j \in 1 .. Len(Tail(heads[a])) :
            Tail(heads[a])[j] = IF j < 1 THEN heads[a][j] ELSE heads[a][j + 1]
  <2> DEFINE q == heads[a]
  <2>1. q \in Seq(Ev) /\ q # <<>>
    BY <1>3, <1>4
  <2> HIDE DEF q
  <2>2. /\ 1 \in 1 .. Len(q) /\ Head(q) = q[1] /\ Head(q) \in Ev
        /\ Tail(q) \in Seq(Ev) /\ Len(Tail(q)) = Len(q) - 1
        /\ \A j \in 1 .. Len(Tail(q)) : Tail(q)[j] = IF j < 1 THEN q[j] ELSE q[j + 1]
    BY <2>1
  <2> QED BY <2>2 DEF q
<1> DEFINE w == Tail(heads[a])
<1>6. /\ w \in Seq(Ev) /\ Len(w) = Len(heads[a]) - 1
      /\ \A j \in 1 .. Len(w) : w[j] = IF j < 1 THEN heads[a][j] ELSE heads[a][j + 1]
      /\ heads' = [heads EXCEPT ![a] = w]
  BY <1>1, <1>5
<1> HIDE DEF w, e
<1>7. Queues' /\ Immediates' = Immediates \ {e} /\ e \in Immediates
  BY <1>1, <1>2, <1>4, <1>5, <1>6, Removed, Zenon
<1>8. Owned' /\ Numbered'
  <2>1. status[e] = "pending"
    BY <1>4, <1>5 DEF QueueInv, Queues
  <2> QED BY <1>1, <1>2, <1>5, <1>7, <2>1, ImmediateOver, OverIsNumbered, Zenon
<1>9. MinqInvariant'
  <2>1. ASSUME NEW r \in 0 .. (a - 1) PROVE heads'[r] = <<>>
    <3>1. r \in Prio /\ r < a /\ r # a
      BY <1>4 DEF Prio
    <3> QED BY <1>3, <1>4, <1>6, <3>1
  <2> QED BY <1>1, <2>1 DEF MinqInvariant
<1>10. ready' \subseteq Registered'
  BY <1>1 DEF QueueInv, Registered
<1>11. status[e] = "pending" /\ prio[e] = a
  BY <1>4, <1>5 DEF QueueInv, Queues
<1>12. ASSUME NEW d \in Immediates, d # e
       PROVE  prio[e] < prio[d] \/ (prio[e] = prio[d] /\ e < d)
  <2>1. PICK p \in Prio : \E i \in 1 .. Len(heads[p]) : heads[p][i] = d
    BY ImmediatesAre DEF Immediates
  <2>2. PICK i \in 1 .. Len(heads[p]) : heads[p][i] = d
    BY <2>1
  <2>3. prio[d] = p /\ ~(p < a)
    BY <1>4, <2>2 DEF QueueInv, Queues
  <2>4. CASE p = a
    <3>1. i # 1 /\ 1 < i
      BY <1>5, <1>12, <2>2, <2>4
    <3>2. heads[a][1] < heads[a][i]
      BY <1>5, <2>2, <2>4, <3>1 DEF QueueInv, Queues
    <3> QED BY <1>5, <1>11, <2>2, <2>3, <2>4, <3>2
  <2>5. CASE p # a
    BY <1>4, <1>11, <2>3, <2>5 DEF Prio
  <2> QED BY <2>4, <2>5
<1> QED BY <1>1, <1>5, <1>7, <1>8, <1>9, <1>10, <1>11, <1>12 DEF QueueInv, a, e

(* The calls of events_timer.c.                                            *)
LEMMA TimerRegistered ==
  ASSUME TypeOK, QueueInv, NEW d \in Delay, events_timer_register(d)
  PROVE  QueueInv'
<1> USE LoopAssumption
<1>1. PICK e \in Ev : /\ New(e)
                      /\ status' = [status EXCEPT ![e] = "pending"]
                      /\ deadline' = [deadline EXCEPT ![e] = gettimeout(d)]
  BY Zenon DEF events_timer_register
<1>2. gettimeout(d) # -1 /\ UNCHANGED <<heads, minq, prio, net, ready>>
  BY DEF events_timer_register, immvars, netvars
<1>3. /\ Numbered' /\ e \notin Immediates /\ e \notin Timers /\ (\A s \in Sock : net[s] # e)
      /\ status[e] = "unused"
  BY <1>1, NewIsLast, Zenon
<1>4. /\ status \in [Ev -> {"unused", "pending", "over"}] /\ heads \in [Prio -> Seq(Ev)]
      /\ deadline \in [Ev -> {-1} \cup 0 .. TimeMax]
  BY DEF TypeOK
<1>5. Timers' = Timers \cup {e} /\ Immediates' = Immediates /\ Registered' = Registered
  BY <1>1, <1>2, <1>4 DEF Timers, Immediates, Registered
<1>6. Owned'
  BY <1>1, <1>2, <1>3, <1>4, <1>5 DEF Owned, QueueInv
<1>7. Queues'
  <2>1. \A p \in Prio : \A i \in 1 .. Len(heads[p]) : heads[p][i] \in Ev /\ heads[p][i] # e
    BY <1>3, <1>4, ImmediatesAre
  <2> QED BY <1>1, <1>2, <1>4, <2>1 DEF QueueInv, Queues
<1> QED BY <1>2, <1>3, <1>5, <1>6, <1>7 DEF QueueInv, MinqInvariant

(* A timer is cancelled, or has expired and is run.                        *)
LEMMA TimerOver ==
  ASSUME TypeOK, QueueInv, NEW e \in Timers, status' = [status EXCEPT ![e] = "over"],
         deadline' = [deadline EXCEPT ![e] = -1], UNCHANGED <<heads, minq, prio, net, ready>>
  PROVE  QueueInv' /\ e \in Ev /\ e \notin Immediates /\ status[e] = "pending"
<1> USE LoopAssumption
<1>1. e \in Ev /\ e \notin Immediates /\ (\A s \in Sock : net[s] # e) /\ status[e] = "pending"
  BY DEF Timers, QueueInv, Owned
<1>2. /\ status \in [Ev -> {"unused", "pending", "over"}] /\ heads \in [Prio -> Seq(Ev)]
      /\ deadline \in [Ev -> {-1} \cup 0 .. TimeMax]
  BY DEF TypeOK
<1>3. Timers' = Timers \ {e} /\ Immediates' = Immediates /\ Registered' = Registered
  BY <1>2 DEF Timers, Immediates, Registered
<1>4. Owned' /\ Numbered'
  BY <1>1, <1>2, <1>3, OverIsNumbered, Zenon DEF Owned, QueueInv
<1>5. Queues'
  <2>1. \A p \in Prio : \A i \in 1 .. Len(heads[p]) : heads[p][i] \in Ev /\ heads[p][i] # e
    BY <1>1, <1>2, ImmediatesAre
  <2> QED BY <1>2, <2>1 DEF QueueInv, Queues
<1> QED BY <1>1, <1>3, <1>4, <1>5 DEF QueueInv, MinqInvariant

(* A timer that is set anew stays in its place.                            *)
LEMMA TimerReset ==
  ASSUME TypeOK, QueueInv, NEW e \in Ev, events_timer_reset(e)
  PROVE  QueueInv'
<1>1. /\ e \in Timers /\ gettimeout(tv_orig[e]) # -1
      /\ deadline' = [deadline EXCEPT ![e] = gettimeout(tv_orig[e])]
      /\ UNCHANGED <<heads, minq, prio, net, ready, status>>
  BY DEF events_timer_reset, immvars, netvars
<1>2. deadline \in [Ev -> {-1} \cup 0 .. TimeMax]
  BY DEF TypeOK
<1>3. Timers' = Timers /\ Immediates' = Immediates /\ Registered' = Registered
  BY <1>1, <1>2 DEF Timers, Immediates, Registered
<1> QED BY <1>1, <1>3 DEF QueueInv, Queues, MinqInvariant, Owned, Numbered

(* The calls of events_network.c.                                          *)
LEMMA NetworkRegistered ==
  ASSUME TypeOK, QueueInv, NEW s \in Sock, events_network_register(s)
  PROVE  QueueInv'
<1> USE LoopAssumption
<1>1. PICK e \in Ev : /\ New(e)
                      /\ status' = [status EXCEPT ![e] = "pending"]
                      /\ net' = [net EXCEPT ![s] = e]
  BY Zenon DEF events_network_register
<1>2. net[s] = 0 /\ UNCHANGED <<heads, minq, prio, deadline, ready>>
  BY DEF events_network_register, immvars, timervars
<1>3. /\ Numbered' /\ e \notin Immediates /\ e \notin Timers /\ (\A t \in Sock : net[t] # e)
      /\ status[e] = "unused"
  BY <1>1, NewIsLast, Zenon
<1>4. /\ status \in [Ev -> {"unused", "pending", "over"}] /\ heads \in [Prio -> Seq(Ev)]
      /\ net \in [Sock -> Ev \cup {0}]
  BY DEF TypeOK
<1>5. Timers' = Timers /\ Immediates' = Immediates /\ Registered' = Registered \cup {s}
  BY <1>1, <1>2, <1>4 DEF Timers, Immediates, Registered, Ev
<1>6. \A d \in Ev : d # 0
  BY DEF Ev
<1>7. Owned'
  BY <1>1, <1>2, <1>3, <1>4, <1>5, <1>6 DEF Owned, QueueInv
<1>8. Queues'
  <2>1. \A p \in Prio : \A i \in 1 .. Len(heads[p]) : heads[p][i] \in Ev /\ heads[p][i] # e
    BY <1>3, <1>4, ImmediatesAre
  <2> QED BY <1>1, <1>2, <1>4, <2>1 DEF QueueInv, Queues
<1> QED BY <1>2, <1>3, <1>5, <1>7, <1>8 DEF QueueInv, MinqInvariant

(* A registration is cancelled, or run.                                    *)
LEMMA NetworkOver ==
  ASSUME TypeOK, QueueInv, NEW s \in Sock, net[s] # 0, status' = [status EXCEPT ![net[s]] = "over"],
         net' = [net EXCEPT ![s] = 0], ready' = ready \ {s}, UNCHANGED <<heads, prio, deadline>>,
         minq' = minq \/ (Immediates = {} /\ minq' = NPrio)
  PROVE  /\ QueueInv' /\ net[s] \in Ev /\ net[s] \notin Immediates /\ net[s] \notin Timers
         /\ status[net[s]] = "pending"
<1> USE LoopAssumption
<1> DEFINE e == net[s]
<1>1. /\ status \in [Ev -> {"unused", "pending", "over"}] /\ heads \in [Prio -> Seq(Ev)]
      /\ net \in [Sock -> Ev \cup {0}]
  BY DEF TypeOK
<1>2. e \in Ev /\ e \notin Immediates /\ e \notin Timers /\ status[e] = "pending"
  BY <1>1 DEF QueueInv, Owned
<1>3. \A t \in Sock : net[t] = e => t = s
  BY <1>2 DEF QueueInv, Owned
<1>4. Timers' = Timers /\ Immediates' = Immediates /\ Registered' = Registered \ {s}
  BY <1>1 DEF Timers, Immediates, Registered
<1>5. \A d \in Ev : d # 0
  BY DEF Ev
<1>6. Numbered'
  BY <1>2, OverIsNumbered, Zenon
<1>7. Owned'
  BY <1>1, <1>2, <1>3, <1>4, <1>5 DEF Owned, QueueInv
<1>8. Queues'
  <2>1. \A p \in Prio : \A i \in 1 .. Len(heads[p]) : heads[p][i] \in Ev /\ heads[p][i] # e
    BY <1>1, <1>2, ImmediatesAre
  <2> QED BY <1>1, <2>1 DEF QueueInv, Queues
<1>9. MinqInvariant'
  <2>1. CASE minq' = minq
    BY <2>1 DEF QueueInv, MinqInvariant
  <2>2. CASE Immediates = {} /\ minq' = NPrio
    BY <2>2, NoneImmediate DEF MinqInvariant, Prio
  <2> QED BY <2>1, <2>2
<1> QED BY <1>2, <1>4, <1>6, <1>7, <1>8, <1>9 DEF QueueInv

(* Before anything is registered.                                          *)
LEMMA LoopInit == Init => LoopInv
<1> SUFFICES ASSUME Init PROVE LoopInv
  OBVIOUS
<1> USE LoopAssumption
<1>1. TypeOK
  <2>1. heads \in [Prio -> Seq(Ev)] /\ minq \in 0 .. NPrio /\ prio \in [Ev -> Prio]
    BY DEF Init, Prio, Ev
  <2>2. deadline \in [Ev -> {-1} \cup 0 .. TimeMax] /\ tv_orig \in [Ev -> Delay \cup {0}]
    BY DEF Init
  <2>3. net \in [Sock -> Ev \cup {0}] /\ status \in [Ev -> {"unused", "pending", "over"}]
    BY DEF Init
  <2>4. done \in BOOLEAN /\ interrupt_requested \in BOOLEAN /\ eintr \in BOOLEAN
        /\ promised \in BOOLEAN /\ ran \in BOOLEAN
    BY Zenon DEF Init
  <2> QED BY <2>1, <2>2, <2>3, <2>4 DEF Init, TypeOK
<1>2. \A p \in Prio : heads[p] = <<>>
  BY DEF Init
<1>3. Immediates = {} /\ Timers = {} /\ Registered = {}
  BY <1>2 DEF Init, Immediates, Timers, Registered
<1>4. Queues /\ MinqInvariant
  BY <1>2 DEF Init, Queues, MinqInvariant, Prio
<1>5. Owned /\ Numbered
  <2>1. \A s \in Sock : net[s] = 0
    BY DEF Init
  <2>2. \A e \in Ev : status[e] = "unused" /\ e # 0
    BY DEF Init, Ev
  <2> QED BY <1>3, <2>1, <2>2 DEF Owned, Numbered
<1>6. ControlInv
  BY <1>3 DEF Init, ControlInv, Kept, Stopping, Sleeping, NoOversleep
<1> QED BY <1>1, <1>3, <1>4, <1>5, <1>6 DEF LoopInv, QueueInv, Init

(* The variables of the loop when an event is started.                     *)
LEMMA DoeventType ==
  ASSUME TypeOK, NEW e \in Ev, NEW f \in {"first", "loop"}, doevent(e, f)
  PROVE  /\ pc' = "callback" /\ from' \in {"first", "loop"} /\ cur' \in Ev \cup {0} /\ rc' \in {0, -1}
         /\ done' \in BOOLEAN /\ promised' \in BOOLEAN /\ ran' \in BOOLEAN /\ late' \in Nat
         /\ status' \in [Ev -> {"unused", "pending", "over"}]
<1>1. done' \in BOOLEAN /\ promised' \in BOOLEAN
  BY DEF TypeOK, doevent
<1>2. late' \in Nat
  BY DEF TypeOK, doevent
<1>3. status' \in [Ev -> {"unused", "pending", "over"}]
  BY DEF TypeOK, doevent
<1> QED BY <1>1, <1>2, <1>3 DEF TypeOK, doevent

(* What every step of events_run and events_spin keeps the types of.       *)
LEMMA GotoType ==
  ASSUME TypeOK, NEW l \in {"spin", "first", "poll", "loop", "recheck"}, NEW r \in {0, -1}, Goto(l, r)
  PROVE  /\ pc' = l /\ from' \in {"first", "loop"} /\ cur' \in Ev \cup {0} /\ rc' \in {0, -1}
         /\ done' \in BOOLEAN /\ promised' \in BOOLEAN /\ ran' \in BOOLEAN /\ late' \in Nat
         /\ status' \in [Ev -> {"unused", "pending", "over"}]
<1>1. done' \in BOOLEAN /\ promised' \in BOOLEAN /\ ran' \in BOOLEAN
  BY DEF TypeOK, Goto, history
<1> QED BY <1>1 DEF TypeOK, Goto, history

(* The types, in three parts: of the loop,                                 *)
LoopTypes ==
    /\ pc \in {"setup", "spin", "entry", "first", "poll", "loop", "recheck", "callback", "end"}
    /\ from \in {"first", "loop"} /\ cur \in Ev \cup {0} /\ rc \in {0, -1} /\ done \in BOOLEAN
    /\ promised \in BOOLEAN /\ ran \in BOOLEAN /\ late \in Nat
    /\ status \in [Ev -> {"unused", "pending", "over"}]

(* of the queues,                                                          *)
QueueTypes ==
    /\ heads \in [Prio -> Seq(Ev)] /\ minq \in 0 .. NPrio /\ prio \in [Ev -> Prio]
    /\ deadline \in [Ev -> {-1} \cup 0 .. TimeMax] /\ tv_orig \in [Ev -> Delay \cup {0}]
    /\ net \in [Sock -> Ev \cup {0}] /\ ready \subseteq Sock

(* and of the rest.                                                        *)
WorldTypes ==
    /\ interrupt_requested \in BOOLEAN /\ kready \subseteq Sock
    /\ timeout \in {-1} \cup 0 .. TimeMax /\ until \in {-1} \cup Nat /\ eintr \in BOOLEAN
    /\ now \in Nat /\ signals \in 0 .. MaxSig

(* Together they are all types.                                            *)
LEMMA Types == TypeOK <=> LoopTypes /\ QueueTypes /\ WorldTypes
BY DEF TypeOK, LoopTypes, QueueTypes, WorldTypes

(* The event that is taken from a queue has its type, and so has what is   *)
(* left.                                                                   *)
LEMMA ImmediateGotTypes ==
  ASSUME TypeOK, QueueInv, NEW f \in {"first", "loop"}, events_immediate_get(f)
  PROVE  LoopTypes' /\ QueueTypes'
<1> USE LoopAssumption
<1> DEFINE a == Advanced
           e == Head(heads[a])
<1>1. e \in Ev /\ doevent(e, f) /\ UNCHANGED <<deadline, tv_orig, net, ready>>
  BY ImmediateGot
<1>2. a < NPrio /\ minq' = a /\ heads' = [heads EXCEPT ![a] = Tail(@)] /\ prio' = [prio EXCEPT ![e] = 0]
  BY DEF events_immediate_get
<1>3. a \in Prio /\ heads[a] # <<>>
  BY <1>2, AdvancedFinds DEF QueueInv
<1>4. heads \in [Prio -> Seq(Ev)] /\ prio \in [Ev -> Prio]
  BY DEF TypeOK
<1> HIDE DEF a, e
<1>5. Tail(heads[a]) \in Seq(Ev)
  BY <1>3, <1>4
<1>6. heads' \in [Prio -> Seq(Ev)] /\ prio' \in [Ev -> Prio] /\ minq' \in 0 .. NPrio
  BY <1>1, <1>2, <1>3, <1>4, <1>5 DEF Prio
<1>7. LoopTypes'
  BY <1>1, DoeventType DEF LoopTypes
<1> QED BY <1>1, <1>6, <1>7 DEF TypeOK, QueueTypes

(* So has what is there when no queue has any,                             *)
LEMMA NoImmediateTypes ==
  ASSUME TypeOK, NoImmediate
  PROVE  heads' \in [Prio -> Seq(Ev)] /\ prio' \in [Ev -> Prio] /\ minq' \in 0 .. NPrio
BY LoopAssumption DEF TypeOK, NoImmediate

(* and when a socket is taken.                                             *)
LEMMA NetworkGotTypes ==
  ASSUME TypeOK, QueueInv, events_network_get
  PROVE  /\ LoopTypes' /\ deadline' = deadline /\ tv_orig' = tv_orig /\ now' = now /\ signals' = signals
         /\ net' \in [Sock -> Ev \cup {0}] /\ ready' \subseteq Sock /\ kready' \subseteq Sock
<1>1. PICK s \in ready : /\ doevent(net[s], "loop") /\ net' = [net EXCEPT ![s] = 0]
                         /\ ready' = ready \ {s} /\ kready' \in {kready, kready \ {s}}
                         /\ UNCHANGED <<timervars, now, signals>>
  BY Zenon DEF events_network_get
<1>2. s \in Sock /\ net[s] \in Ev
  BY NetIsRegistered DEF TypeOK, QueueInv
<1>3. LoopTypes'
  BY <1>1, <1>2, DoeventType DEF LoopTypes
<1>4. deadline' = deadline /\ tv_orig' = tv_orig /\ now' = now /\ signals' = signals
  BY <1>1 DEF timervars
<1>5. net' \in [Sock -> Ev \cup {0}] /\ ready' \subseteq Sock /\ kready' \subseteq Sock
  BY <1>1, <1>2 DEF TypeOK
<1> QED BY <1>3, <1>4, <1>5

(* Every step keeps the types,                                             *)
LEMMA TypeStep ==
  ASSUME TypeOK, QueueInv, [Next]_vars
  PROVE  TypeOK'
<1> USE LoopAssumption
<1>1. LoopTypes /\ QueueTypes /\ WorldTypes
  BY Types
<1> DEFINE lvars == <<pc, from, cur, rc, done, promised, ran, late, status>>
           qvars == <<heads, minq, prio, deadline, tv_orig, net, ready>>
           wvars == <<interrupt_requested, kready, timeout, until, eintr, now, signals>>
<1>2. UNCHANGED lvars => LoopTypes'
  BY <1>1 DEF LoopTypes
<1>3. UNCHANGED qvars => QueueTypes'
  BY <1>1 DEF QueueTypes
<1>4. UNCHANGED wvars => WorldTypes'
  BY <1>1 DEF WorldTypes
<1> SUFFICES LoopTypes' /\ QueueTypes' /\ WorldTypes'
  BY DEF TypeOK, LoopTypes, QueueTypes, WorldTypes
<1> USE DEF loopvars, immvars, timervars, netvars, pollvars, world, history
<1>5. ASSUME NEW p \in Prio, events_immediate_register(p) PROVE LoopTypes' /\ QueueTypes' /\ WorldTypes'
  <2>1. PICK e \in Ev : /\ status' = [status EXCEPT ![e] = "pending"]
                        /\ prio' = [prio EXCEPT ![e] = p]
                        /\ heads' = [heads EXCEPT ![p] = Append(@, e)]
    BY <1>5, Zenon DEF events_immediate_register
  <2>2. /\ minq' = IF p < minq THEN p ELSE minq
        /\ UNCHANGED <<loopvars, interrupt_requested, timervars, netvars, pollvars, world, history>>
    BY <1>5 DEF events_immediate_register
  <2>3. UNCHANGED wvars
    BY <2>2
  <2>4. LoopTypes'
    BY <1>1, <2>1, <2>2 DEF LoopTypes
  <2>5. heads' \in [Prio -> Seq(Ev)]
    BY <1>1, <2>1 DEF QueueTypes
  <2>6. QueueTypes'
    BY <1>1, <2>1, <2>2, <2>5 DEF QueueTypes, Prio
  <2> QED BY <1>4, <2>3, <2>4, <2>6
<1>6. ASSUME NEW e \in Ev, events_immediate_cancel(e) PROVE LoopTypes' /\ QueueTypes' /\ WorldTypes'
  <2> DEFINE p == prio[e]
  <2>1. p \in Prio
    BY <1>1 DEF QueueTypes
  <2>2. PICK i \in DOMAIN heads[p] :
          heads' = [heads EXCEPT ![p] = SubSeq(heads[p], 1, i - 1) \o SubSeq(heads[p], i + 1, Len(heads[p]))]
    BY <1>6, Zenon DEF events_immediate_cancel
  <2>3. /\ status' = [status EXCEPT ![e] = "over"] /\ prio' = [prio EXCEPT ![e] = 0]
        /\ UNCHANGED <<loopvars, interrupt_requested, minq, timervars, netvars, pollvars, world, history>>
    BY <1>6 DEF events_immediate_cancel
  <2>4. UNCHANGED wvars
    BY <2>3
  <2>5. LoopTypes'
    BY <1>1, <2>3 DEF LoopTypes
  <2>6. heads' \in [Prio -> Seq(Ev)]
    <3>1. heads \in [Prio -> Seq(Ev)] /\ heads[p] \in Seq(Ev) /\ i \in 1 .. Len(heads[p])
      BY <1>1, <2>1 DEF QueueTypes
    <3> DEFINE q == heads[p]
               w == SubSeq(q, 1, i - 1) \o SubSeq(q, i + 1, Len(q))
    <3>2. w \in Seq(Ev)
      <4> HIDE DEF q
      <4>1. q \in Seq(Ev) /\ i \in 1 .. Len(q)
        BY <3>1 DEF q
      <4> QED BY <4>1, CutOut
    <3>3. heads' = [heads EXCEPT ![p] = w]
      BY <2>2
    <3> HIDE DEF w, p
    <3> QED BY <2>1, <3>1, <3>2, <3>3
  <2>7. QueueTypes'
    BY <1>1, <2>3, <2>6, SMTT(30) DEF QueueTypes, Prio
  <2> QED BY <1>4, <2>4, <2>5, <2>7
<1>7. ASSUME NEW d \in Delay, events_timer_register(d) PROVE LoopTypes' /\ QueueTypes' /\ WorldTypes'
  <2>1. PICK e \in Ev : /\ status' = [status EXCEPT ![e] = "pending"]
                        /\ deadline' = [deadline EXCEPT ![e] = gettimeout(d)]
                        /\ tv_orig' = [tv_orig EXCEPT ![e] = d]
    BY <1>7, Zenon DEF events_timer_register
  <2>2. UNCHANGED <<loopvars, interrupt_requested, immvars, netvars, pollvars, world, history>>
    BY <1>7 DEF events_timer_register
  <2>3. gettimeout(d) \in {-1} \cup 0 .. TimeMax
    BY <1>1 DEF gettimeout, WorldTypes
  <2>4. UNCHANGED wvars
    BY <2>2
  <2>5. LoopTypes'
    BY <1>1, <2>1, <2>2 DEF LoopTypes
  <2>6. QueueTypes'
    BY <1>1, <2>1, <2>2, <2>3 DEF QueueTypes
  <2> QED BY <1>4, <2>4, <2>5, <2>6
<1>8. ASSUME NEW e \in Ev, events_timer_cancel(e) PROVE LoopTypes' /\ QueueTypes' /\ WorldTypes'
  <2>1. /\ status' = [status EXCEPT ![e] = "over"] /\ deadline' = [deadline EXCEPT ![e] = -1]
        /\ tv_orig' = [tv_orig EXCEPT ![e] = 0]
        /\ UNCHANGED <<loopvars, interrupt_requested, immvars, netvars, pollvars, world, history>>
    BY <1>8 DEF events_timer_cancel
  <2>2. UNCHANGED wvars
    BY <2>1
  <2>3. LoopTypes'
    BY <1>1, <2>1 DEF LoopTypes
  <2>4. QueueTypes'
    BY <1>1, <2>1 DEF QueueTypes
  <2> QED BY <1>4, <2>2, <2>3, <2>4
<1>9. ASSUME NEW e \in Ev, events_timer_reset(e) PROVE LoopTypes' /\ QueueTypes' /\ WorldTypes'
  <2>1. /\ deadline' = [deadline EXCEPT ![e] = gettimeout(tv_orig[e])]
        /\ UNCHANGED <<loopvars, interrupt_requested, immvars, tv_orig, netvars, pollvars, world,
                   status, history>>
    BY <1>9 DEF events_timer_reset
  <2>2. tv_orig[e] \in Nat
    <3>1. tv_orig[e] \in Delay \cup {0}
      BY <1>1 DEF QueueTypes
    <3>2. Delay \subseteq Nat /\ 0 \in Nat
      OBVIOUS
    <3> QED BY <3>1, <3>2, Zenon
  <2>3. gettimeout(tv_orig[e]) \in {-1} \cup 0 .. TimeMax
    BY <1>1, <2>2 DEF gettimeout, WorldTypes
  <2>4. UNCHANGED lvars /\ UNCHANGED wvars
    BY <2>1
  <2>5. QueueTypes'
    BY <1>1, <2>1, <2>3 DEF QueueTypes
  <2> QED BY <1>2, <1>4, <2>4, <2>5
<1>10. ASSUME NEW s \in Sock, events_network_register(s) PROVE LoopTypes' /\ QueueTypes' /\ WorldTypes'
  <2>1. PICK e \in Ev : status' = [status EXCEPT ![e] = "pending"] /\ net' = [net EXCEPT ![s] = e]
    BY <1>10, Zenon DEF events_network_register
  <2>2. UNCHANGED <<loopvars, interrupt_requested, immvars, timervars, ready, pollvars, world, history>>
    BY <1>10 DEF events_network_register
  <2>3. UNCHANGED wvars
    BY <2>2
  <2>4. LoopTypes'
    BY <1>1, <2>1, <2>2 DEF LoopTypes
  <2>5. QueueTypes'
    BY <1>1, <2>1, <2>2 DEF QueueTypes
  <2> QED BY <1>4, <2>3, <2>4, <2>5
<1>11. ASSUME NEW s \in Sock, events_network_cancel(s) PROVE LoopTypes' /\ QueueTypes' /\ WorldTypes'
  <2>1. /\ status' = [status EXCEPT ![net[s]] = "over"] /\ net' = [net EXCEPT ![s] = 0]
        /\ ready' = ready \ {s}
        /\ UNCHANGED <<loopvars, interrupt_requested, immvars, timervars, pollvars, world, history>>
    BY <1>11 DEF events_network_cancel
  <2>2. UNCHANGED wvars
    BY <2>1
  <2>3. LoopTypes'
    BY <1>1, <2>1, Zenon DEF LoopTypes
  <2>4. QueueTypes'
    BY <1>1, <2>1 DEF QueueTypes
  <2> QED BY <1>4, <2>2, <2>3, <2>4
<1>12. CASE Start
  <2>1. Goto("spin", 0) /\ UNCHANGED qvars /\ UNCHANGED wvars
    BY <1>12 DEF Start
  <2> QED BY <1>3, <1>4, <2>1, GotoType DEF LoopTypes
<1>13. CASE events_spin
  <2>1. UNCHANGED qvars /\ UNCHANGED <<from, cur, rc, done, status, kready, timeout, until, eintr, now, signals>>
    BY <1>13 DEF events_spin
  <2>2. pc' \in {"entry", "end"}
    BY <1>13 DEF events_spin
  <2>3. promised' \in BOOLEAN /\ ran' \in BOOLEAN
    BY <1>1, <1>13, Zenon DEF events_spin, LoopTypes
  <2>4. interrupt_requested' \in BOOLEAN
    BY <1>1, <1>13, Zenon DEF events_spin, WorldTypes
  <2>5. late' \in Nat
    BY <1>1, <1>13 DEF events_spin, LoopTypes
  <2>6. LoopTypes' /\ WorldTypes'
    BY <1>1, <2>1, <2>2, <2>3, <2>4, <2>5 DEF LoopTypes, WorldTypes
  <2> QED BY <1>3, <2>1, <2>6
<1>14. CASE events_run_internal
  <2>1. UNCHANGED <<interrupt_requested, kready, now, signals>>
    BY <1>14 DEF events_run_internal
  <2>2. CASE events_immediate_get("first") /\ UNCHANGED pollvars
    <3>1. WorldTypes'
      BY <1>1, <2>1, <2>2 DEF WorldTypes
    <3> QED BY <2>2, <3>1, ImmediateGotTypes
  <2>3. CASE NoImmediate /\ Goto("spin", 0) /\ UNCHANGED <<timervars, netvars, pollvars>>
    <3>1. QueueTypes' /\ WorldTypes'
      BY <1>1, <2>1, <2>3, NoImmediateTypes DEF WorldTypes, QueueTypes
    <3> QED BY <2>3, <3>1, GotoType DEF LoopTypes
  <2>4. CASE NoImmediate /\ Goto("spin", -1) /\ UNCHANGED <<timervars, netvars, pollvars>>
    <3>1. QueueTypes' /\ WorldTypes'
      BY <1>1, <2>1, <2>4, NoImmediateTypes DEF WorldTypes, QueueTypes
    <3> QED BY <2>4, <3>1, GotoType DEF LoopTypes
  <2>5. CASE /\ NoImmediate /\ Goto("poll", 0) /\ UNCHANGED <<timervars, netvars>>
             /\ timeout' = events_timer_min
             /\ until' = (IF events_timer_min = -1 THEN -1 ELSE now + events_timer_min)
             /\ eintr' = FALSE
    <3>1. events_timer_min \in {-1} \cup 0 .. TimeMax
      <4>1. CASE Timers = {}
        BY <4>1, TimerMin
      <4>2. CASE Timers # {}
        <5>1. PICK m \in Timers :
                  /\ deadline[m] \in 0 .. TimeMax
                  /\ events_timer_min = IF now > deadline[m] THEN 0 ELSE deadline[m] - now
          BY <4>2, TimerMin
        <5>2. now \in Nat
          BY <1>1 DEF WorldTypes
        <5> QED BY <5>1, <5>2
      <4> QED BY <4>1, <4>2
    <3>2. WorldTypes'
      <4>1. until' \in {-1} \cup Nat /\ timeout' \in {-1} \cup 0 .. TimeMax
        BY <1>1, <2>5, <3>1 DEF WorldTypes
      <4>2. interrupt_requested' \in BOOLEAN /\ eintr' \in BOOLEAN
        BY <1>1, <2>1, <2>5, Zenon DEF WorldTypes
      <4> QED BY <1>1, <2>1, <4>1, <4>2 DEF WorldTypes
    <3>3. QueueTypes'
      BY <1>1, <2>5, NoImmediateTypes DEF QueueTypes
    <3> QED BY <2>5, <3>2, <3>3, GotoType DEF LoopTypes
  <2> QED BY <1>14, <2>2, <2>3, <2>4, <2>5, Zenon DEF events_run_internal
<1>15. CASE events_network_select
  <2>1. UNCHANGED <<interrupt_requested, immvars, timervars, world>>
    BY <1>15 DEF events_network_select
  <2>2. CASE EndPoll /\ (Goto("loop", 0) \/ Goto("spin", -1))
    <3>1. LoopTypes'
      BY <2>2, GotoType DEF LoopTypes
    <3>2. WorldTypes'
      BY <1>1, <2>1, <2>2, Zenon DEF WorldTypes, EndPoll
    <3>3. ready' \subseteq Sock /\ net' = net
      BY <1>1, <1>15, <2>2 DEF events_network_select, Registered, QueueTypes, EndPoll
    <3>4. QueueTypes'
      BY <1>1, <2>1, <3>3 DEF QueueTypes
    <3> QED BY <3>1, <3>2, <3>4
  <2>3. CASE /\ eintr' = FALSE /\ until' = (IF timeout = -1 THEN -1 ELSE now + timeout)
             /\ UNCHANGED <<loopvars, status, history, timeout, netvars>>
    <3>1. WorldTypes'
      <4>1. until' \in {-1} \cup Nat
        BY <1>1, <2>3 DEF WorldTypes
      <4>2. interrupt_requested' \in BOOLEAN /\ eintr' \in BOOLEAN
        BY <1>1, <2>1, <2>3, Zenon DEF WorldTypes
      <4> QED BY <1>1, <2>1, <2>3, <4>1, <4>2 DEF WorldTypes
    <3>2. UNCHANGED lvars /\ UNCHANGED qvars
      BY <2>1, <2>3
    <3> QED BY <1>2, <1>3, <3>1, <3>2
  <2> QED BY <1>15, <2>2, <2>3, Zenon DEF events_network_select
<1>16. CASE run_loop
  <2>1. UNCHANGED <<interrupt_requested, pollvars>>
    BY <1>16 DEF run_loop
  <2>2. CASE Goto("spin", 0) /\ UNCHANGED <<immvars, timervars, netvars, world>>
    <3>1. UNCHANGED qvars /\ UNCHANGED wvars
      BY <2>1, <2>2
    <3> QED BY <1>3, <1>4, <2>2, <3>1, GotoType DEF LoopTypes
  <2>3. CASE events_immediate_get("loop") /\ UNCHANGED world
    <3>1. UNCHANGED wvars
      BY <2>1, <2>3
    <3> QED BY <1>4, <2>3, <3>1, ImmediateGotTypes
  <2>4. CASE NoImmediate /\ events_network_get
    <3>1. WorldTypes'
      BY <1>1, <2>1, <2>4, NetworkGotTypes DEF WorldTypes
    <3>2. QueueTypes'
      BY <1>1, <2>4, NetworkGotTypes, NoImmediateTypes DEF QueueTypes
    <3> QED BY <2>4, <3>1, <3>2, NetworkGotTypes
  <2>5. CASE /\ NoImmediate /\ UNCHANGED <<net, timervars, world>>
             /\ \/ Goto("recheck", 0) /\ ready' = Registered \cap kready
                \/ Goto("spin", -1) /\ UNCHANGED ready
    <3>1. UNCHANGED wvars
      BY <2>1, <2>5
    <3>2. ready' \subseteq Sock
      BY <1>1, <2>5 DEF Registered, QueueTypes
    <3>3. QueueTypes'
      BY <1>1, <2>5, <3>2, NoImmediateTypes DEF QueueTypes
    <3> QED BY <1>4, <2>5, <3>1, <3>3, GotoType DEF LoopTypes
  <2> QED BY <1>16, <2>2, <2>3, <2>4, <2>5 DEF run_loop
<1>17. CASE run_recheck
  <2>1. UNCHANGED <<interrupt_requested, immvars, pollvars>>
    BY <1>17 DEF run_recheck
  <2>2. CASE events_network_get
    <3>1. WorldTypes' /\ QueueTypes'
      BY <1>1, <2>1, <2>2, NetworkGotTypes DEF WorldTypes, QueueTypes
    <3> QED BY <2>2, <3>1, NetworkGotTypes
  <2>3. CASE events_timer_get
    <3>1. PICK e \in Expired : /\ doevent(e, "loop") /\ deadline' = [deadline EXCEPT ![e] = -1]
                               /\ tv_orig' = [tv_orig EXCEPT ![e] = 0] /\ UNCHANGED <<netvars, world>>
      BY <2>3, Zenon DEF events_timer_get
    <3>2. e \in Ev
      BY DEF Expired, Timers
    <3>3. LoopTypes'
      BY <3>1, <3>2, DoeventType DEF LoopTypes
    <3>4. QueueTypes'
      BY <1>1, <2>1, <3>1, <3>2 DEF QueueTypes
    <3>5. UNCHANGED wvars
      BY <2>1, <3>1
    <3> QED BY <1>4, <3>3, <3>4, <3>5
  <2>4. CASE (Goto("spin", 0) \/ Goto("spin", -1)) /\ UNCHANGED <<timervars, netvars, world>>
    <3>1. UNCHANGED qvars /\ UNCHANGED wvars
      BY <2>1, <2>4
    <3> QED BY <1>3, <1>4, <2>4, <3>1, GotoType DEF LoopTypes
  <2> QED BY <1>17, <2>2, <2>3, <2>4 DEF run_recheck
<1>18. ASSUME NEW r \in {0, -1}, Return(r) PROVE LoopTypes' /\ QueueTypes' /\ WorldTypes'
  <2>1. UNCHANGED qvars /\ UNCHANGED wvars
    BY <1>18 DEF Return
  <2>2. \E l \in {"spin", "loop", "first"} : Goto(l, r)
    BY <1>18 DEF Return
  <2>3. LoopTypes'
    BY <2>2, GotoType DEF LoopTypes
  <2> QED BY <1>3, <1>4, <2>1, <2>3
<1>19. CASE Done
  <2>1. UNCHANGED qvars /\ UNCHANGED wvars /\ done' = TRUE
        /\ UNCHANGED <<pc, from, cur, rc, promised, ran, late, status>>
    BY <1>19 DEF Done
  <2>2. LoopTypes'
    BY <1>1, <2>1 DEF LoopTypes
  <2> QED BY <1>3, <1>4, <2>1, <2>2
<1>20. ASSUME NEW i \in BOOLEAN, Signal(i) PROVE LoopTypes' /\ QueueTypes' /\ WorldTypes'
  <2>1. UNCHANGED lvars /\ UNCHANGED qvars /\ UNCHANGED <<kready, timeout, until, now>>
    BY <1>20 DEF Signal
  <2>2. signals' \in 0 .. MaxSig
    BY <1>1, <1>20 DEF Signal, WorldTypes
  <2>3. interrupt_requested' \in BOOLEAN /\ eintr' \in BOOLEAN
    BY <1>1, <1>20 DEF Signal, WorldTypes
  <2>4. WorldTypes'
    BY <1>1, <2>1, <2>2, <2>3 DEF WorldTypes
  <2> QED BY <1>2, <1>3, <2>1, <2>4
<1>21. CASE Tick
  <2>1. UNCHANGED lvars /\ UNCHANGED qvars /\ now' = now + 1
        /\ UNCHANGED <<interrupt_requested, kready, timeout, until, eintr, signals>>
    BY <1>21 DEF Tick
  <2>2. WorldTypes'
    BY <1>1, <2>1 DEF WorldTypes
  <2> QED BY <1>2, <1>3, <2>1, <2>2
<1>22. ASSUME NEW s \in Sock, BecomesReady(s) PROVE LoopTypes' /\ QueueTypes' /\ WorldTypes'
  <2>1. UNCHANGED lvars /\ UNCHANGED qvars /\ kready' = kready \cup {s}
        /\ UNCHANGED <<interrupt_requested, now, timeout, until, eintr, signals>>
    BY <1>22 DEF BecomesReady
  <2>2. WorldTypes'
    BY <1>1, <2>1 DEF WorldTypes
  <2> QED BY <1>2, <1>3, <2>1, <2>2
<1>23. CASE UNCHANGED vars
  <2>1. UNCHANGED lvars /\ UNCHANGED qvars /\ UNCHANGED wvars
    BY <1>23 DEF vars
  <2> QED BY <1>2, <1>3, <1>4, <2>1
<1> QED
  BY <1>5, <1>6, <1>7, <1>8, <1>9, <1>10, <1>11, <1>12, <1>13, <1>14, <1>15, <1>16, <1>17, <1>18,
     <1>19, <1>20, <1>21, <1>22, <1>23 DEF Next

(* the invariant of the queues,                                            *)
LEMMA QueueStep ==
  ASSUME TypeOK, QueueInv, [Next]_vars
  PROVE  QueueInv'
<1> USE LoopAssumption
<1> USE DEF loopvars, immvars, timervars, netvars, pollvars, world, history
<1> DEFINE own == <<heads, prio, deadline, net, status>>
<1>1. ASSUME UNCHANGED own, minq' = minq \/ (Immediates = {} /\ minq' = NPrio),
             ready' \subseteq Registered
      PROVE  QueueInv'
  <2>1. Immediates' = Immediates /\ Timers' = Timers /\ Registered' = Registered
    BY <1>1 DEF Immediates, Timers, Registered
  <2>2. MinqInvariant'
    <3>1. CASE minq' = minq
      BY <1>1, <3>1 DEF QueueInv, MinqInvariant
    <3>2. CASE Immediates = {} /\ minq' = NPrio
      BY <1>1, <3>2, NoneImmediate DEF MinqInvariant, Prio
    <3> QED BY <1>1, <3>1, <3>2
  <2>3. Queues'
    BY <1>1 DEF QueueInv, Queues
  <2>4. Owned'
    BY <1>1, <2>1 DEF QueueInv, Owned
  <2>5. Numbered'
    BY <1>1 DEF QueueInv, Numbered
  <2> QED BY <1>1, <2>1, <2>2, <2>3, <2>4, <2>5 DEF QueueInv
<1>2. ready \subseteq Registered
  BY DEF QueueInv
<1>3. NoImmediate => Immediates = {} /\ minq' = NPrio /\ UNCHANGED <<heads, prio>>
  BY AdvancedFinds DEF NoImmediate, QueueInv
<1>4. ASSUME NEW e \in Ev, events_timer_cancel(e) PROVE QueueInv'
  <2>1. e \in Timers
    BY <1>4 DEF events_timer_cancel
  <2> QED BY <1>4, <2>1, TimerOver, Zenon DEF events_timer_cancel
<1>5. ASSUME NEW s \in Sock, events_network_cancel(s) PROVE QueueInv'
  BY <1>5, NetworkOver, Zenon DEF events_network_cancel
<1>6. CASE Start
  BY <1>1, <1>2, <1>6 DEF Start, Goto
<1>7. CASE events_spin
  BY <1>1, <1>2, <1>7 DEF events_spin
<1>8. CASE events_run_internal
  <2>1. CASE events_immediate_get("first")
    BY <2>1, ImmediateGot
  <2>2. CASE NoImmediate /\ UNCHANGED <<timervars, netvars>> /\ UNCHANGED status
    BY <1>1, <1>2, <1>3, <2>2
  <2> QED BY <1>8, <2>1, <2>2 DEF events_run_internal, Goto
<1>9. CASE events_network_select
  <2>1. UNCHANGED own /\ minq' = minq
    BY <1>9 DEF events_network_select, Goto
  <2>2. ready' \subseteq Registered
    BY <1>2, <1>9 DEF events_network_select
  <2> QED BY <1>1, <2>1, <2>2
<1>10. ASSUME events_network_get, UNCHANGED <<heads, prio>>,
              minq' = minq \/ (Immediates = {} /\ minq' = NPrio)
       PROVE  QueueInv'
  <2>1. PICK s \in ready : /\ doevent(net[s], "loop") /\ net' = [net EXCEPT ![s] = 0]
                           /\ ready' = ready \ {s} /\ UNCHANGED timervars
    BY <1>10, Zenon DEF events_network_get
  <2>2. s \in Sock /\ net[s] # 0
    BY <1>2 DEF Registered
  <2> QED BY <1>10, <2>1, <2>2, NetworkOver, Zenon DEF doevent
<1>11. CASE run_loop
  <2>1. CASE Goto("spin", 0) /\ UNCHANGED <<immvars, timervars, netvars, world>>
    BY <1>1, <1>2, <2>1 DEF Goto
  <2>2. CASE events_immediate_get("loop")
    BY <2>2, ImmediateGot
  <2>3. CASE NoImmediate /\ events_network_get
    BY <1>3, <1>10, <2>3
  <2>4. CASE /\ NoImmediate /\ UNCHANGED <<net, timervars, world>>
             /\ \/ Goto("recheck", 0) /\ ready' = Registered \cap kready
                \/ Goto("spin", -1) /\ UNCHANGED ready
    <3>1. ready' \subseteq Registered
      BY <1>2, <2>4
    <3>2. status' = status
      BY <2>4 DEF Goto
    <3> QED BY <1>1, <1>3, <2>4, <3>1, <3>2
  <2> QED BY <1>11, <2>1, <2>2, <2>3, <2>4 DEF run_loop
<1>12. CASE run_recheck
  <2>1. UNCHANGED immvars
    BY <1>12 DEF run_recheck
  <2>2. CASE events_network_get
    BY <1>10, <2>1, <2>2
  <2>3. CASE events_timer_get
    <3>1. PICK e \in Expired : /\ doevent(e, "loop") /\ deadline' = [deadline EXCEPT ![e] = -1]
                               /\ UNCHANGED netvars
      BY <2>3, Zenon DEF events_timer_get
    <3>2. e \in Timers
      BY DEF Expired
    <3> QED BY <2>1, <3>1, <3>2, TimerOver, Zenon DEF doevent
  <2>4. CASE (Goto("spin", 0) \/ Goto("spin", -1)) /\ UNCHANGED <<timervars, netvars, world>>
    BY <1>1, <1>2, <2>1, <2>4 DEF Goto
  <2> QED BY <1>12, <2>2, <2>3, <2>4 DEF run_recheck
<1>13. ASSUME NEW r \in {0, -1}, Return(r) PROVE QueueInv'
  BY <1>1, <1>2, <1>13 DEF Return, Goto
<1>14. CASE Done
  BY <1>1, <1>2, <1>14 DEF Done
<1>15. ASSUME NEW i \in BOOLEAN, Signal(i) PROVE QueueInv'
  BY <1>1, <1>2, <1>15 DEF Signal
<1>16. CASE Tick
  BY <1>1, <1>2, <1>16 DEF Tick
<1>17. ASSUME NEW s \in Sock, BecomesReady(s) PROVE QueueInv'
  BY <1>1, <1>2, <1>17 DEF BecomesReady
<1>18. CASE UNCHANGED vars
  BY <1>1, <1>2, <1>18 DEF vars
<1> QED
  BY <1>4, <1>5, <1>6, <1>7, <1>8, <1>9, <1>11, <1>12, <1>13, <1>14, <1>15, <1>16, <1>17, <1>18,
     ImmediateRegistered, ImmediateCancelled, TimerRegistered, TimerReset, NetworkRegistered DEF Next

(* A callback is begun,                                                    *)
LEMMA StartedControl ==
  ASSUME TypeOK, ControlInv, NEW e, NEW f, doevent(e, f),
         pc \in {"entry", "first", "loop", "recheck"}, pc = "loop" => ~interrupt_requested,
         UNCHANGED <<interrupt_requested, pollvars, signals>>
  PROVE  ControlInv'
<1>1. pc' = "callback" /\ ran' = TRUE /\ late' = IF interrupt_requested THEN late + 1 ELSE late
  BY DEF doevent
<1>2. late = 0
  BY DEF ControlInv, Stopping
<1>3. Stopping'
  BY <1>1, <1>2 DEF Stopping
<1>4. Kept'
  BY <1>1 DEF Kept
<1>5. Sleeping'
  BY <1>1 DEF ControlInv, Sleeping, NoOversleep, pollvars
<1> QED BY <1>3, <1>4, <1>5 DEF ControlInv

(* and every step keeps the invariant of the loop.                         *)
LEMMA ControlStep ==
  ASSUME TypeOK, QueueInv, ControlInv, [Next]_vars
  PROVE  ControlInv'
<1> USE LoopAssumption
<1> USE DEF loopvars, immvars, timervars, netvars, pollvars, world, history
<1>1. Kept /\ Stopping /\ Sleeping /\ NoOversleep
  BY DEF ControlInv, Sleeping
<1>2. ASSUME App, UNCHANGED <<loopvars, interrupt_requested, pollvars, world, history>>
      PROVE  ControlInv'
  <2>1. pc' = pc /\ pc \in {"setup", "callback"}
    BY <1>2 DEF App
  <2>2. Kept'
    BY <1>1, <1>2, <2>1 DEF Kept
  <2>3. Stopping'
    BY <1>1, <1>2, <2>1 DEF Stopping
  <2>4. Sleeping'
    BY <1>1, <1>2, <2>1 DEF Sleeping, NoOversleep
  <2> QED BY <2>2, <2>3, <2>4 DEF ControlInv
<1>3. NoImmediate => Immediates = {} /\ heads' = heads
  BY AdvancedFinds DEF NoImmediate, QueueInv
<1>4. ASSUME UNCHANGED <<heads, deadline, net, kready, now>>
      PROVE  /\ Something' = Something /\ Immediates' = Immediates /\ Expired' = Expired
             /\ Timers' = Timers /\ Registered' = Registered
  BY <1>4 DEF Something, Immediates, Expired, Timers, Registered
<1>5. ASSUME NEW p \in Prio, events_immediate_register(p) PROVE ControlInv'
  BY <1>2, <1>5 DEF events_immediate_register
<1>6. ASSUME NEW e \in Ev, events_immediate_cancel(e) PROVE ControlInv'
  BY <1>2, <1>6 DEF events_immediate_cancel
<1>7. ASSUME NEW d \in Delay, events_timer_register(d) PROVE ControlInv'
  BY <1>2, <1>7 DEF events_timer_register
<1>8. ASSUME NEW e \in Ev, events_timer_cancel(e) PROVE ControlInv'
  BY <1>2, <1>8 DEF events_timer_cancel
<1>9. ASSUME NEW e \in Ev, events_timer_reset(e) PROVE ControlInv'
  BY <1>2, <1>9 DEF events_timer_reset
<1>10. ASSUME NEW s \in Sock, events_network_register(s) PROVE ControlInv'
  BY <1>2, <1>10 DEF events_network_register
<1>11. ASSUME NEW s \in Sock, events_network_cancel(s) PROVE ControlInv'
  BY <1>2, <1>11 DEF events_network_cancel
<1>12. CASE Start
  <2>1. /\ pc = "setup" /\ pc' = "spin" /\ UNCHANGED history
        /\ UNCHANGED <<interrupt_requested, pollvars, signals>>
    BY <1>12 DEF Start, Goto
  <2>2. Kept'
    BY <1>1, <2>1 DEF Kept
  <2>3. Stopping'
    BY <1>1, <2>1 DEF Stopping
  <2>4. Sleeping'
    BY <1>1, <2>1 DEF Sleeping, NoOversleep
  <2> QED BY <2>2, <2>3, <2>4 DEF ControlInv
<1>13. CASE events_spin
  <2>1. /\ pc = "spin" /\ UNCHANGED <<rc, pollvars, heads, deadline, net, kready, now, signals>>
    BY <1>13 DEF events_spin
  <2>2. CASE /\ ~interrupt_requested /\ pc' = "entry" /\ ran' = FALSE
             /\ promised' = Something /\ UNCHANGED <<interrupt_requested, late>>
    <3>1. Kept'
      BY <1>4, <2>1, <2>2 DEF Kept
    <3>2. Stopping'
      BY <1>1, <2>1, <2>2 DEF Stopping
    <3>3. Sleeping'
      BY <1>1, <2>1, <2>2 DEF Sleeping, NoOversleep
    <3> QED BY <3>1, <3>2, <3>3 DEF ControlInv
  <2>3. CASE pc' = "end" /\ UNCHANGED history
    <3>1. Kept'
      BY <2>3 DEF Kept
    <3>2. Stopping'
      BY <1>1, <2>1, <2>3 DEF Stopping
    <3>3. Sleeping'
      BY <1>1, <2>1, <2>3 DEF Sleeping, NoOversleep
    <3> QED BY <3>1, <3>2, <3>3 DEF ControlInv
  <2> QED BY <1>13, <2>2, <2>3, Zenon DEF events_spin, Something
<1>14. ASSUME NEW l \in {"spin", "poll", "loop", "recheck", "first"}, NEW r \in {0, -1}, Goto(l, r),
              UNCHANGED <<heads, deadline, net, kready, now, signals, interrupt_requested>>,
              l = "poll" => pc = "entry", l = "loop" => pc \in {"poll", "callback"},
              l = "first" => pc = "callback" /\ ~interrupt_requested,
              l = "recheck" => pc = "loop" /\ Immediates = {} /\ ready' = Registered \cap kready
                               /\ ~interrupt_requested,
              l = "spin" /\ r = 0 => pc \in {"first", "callback"} \/ interrupt_requested
                                     \/ (pc = "recheck" /\ Expired = {} /\ ready = {}),
              l = "spin" => pc \in {"entry", "first", "poll", "loop", "recheck", "callback"}
       PROVE  Kept' /\ Stopping'
  <2>1. pc' = l /\ rc' = r /\ UNCHANGED history
    BY <1>14 DEF Goto
  <2>2. Something' = Something /\ Immediates' = Immediates /\ Expired' = Expired
    BY <1>4, <1>14
  <2>3. Kept'
    <3>1. CASE l = "spin"
      <4>1. CASE r = -1
        BY <2>1, <3>1, <4>1 DEF Kept
      <4>2. CASE r = 0
        BY <1>1, <1>14, <2>1, <3>1, <4>2 DEF Kept
      <4> QED BY <4>1, <4>2
    <3>2. CASE l \in {"poll", "loop"}
      BY <1>1, <1>14, <2>1, <2>2, <3>2 DEF Kept
    <3>3. CASE l = "recheck"
      BY <1>1, <1>14, <2>1, <2>2, <3>3 DEF Kept, Something
    <3>4. CASE l = "first"
      BY <1>1, <1>14, <2>1, <3>4 DEF Kept
    <3> QED BY <3>1, <3>2, <3>3, <3>4
  <2>4. Stopping'
    BY <1>1, <1>14, <2>1 DEF Stopping
  <2> QED BY <2>3, <2>4
<1>15. ASSUME NEW l \in {"spin", "loop", "first"}, NEW r \in {0, -1}, Goto(l, r),
              eintr' => eintr, UNCHANGED signals
       PROVE  Sleeping'
  <2>1. pc' = l
    BY <1>15 DEF Goto
  <2> QED BY <1>1, <1>15, <2>1 DEF Sleeping, NoOversleep
<1>16. CASE events_run_internal
  <2>1. UNCHANGED <<interrupt_requested, kready, now, signals>> /\ pc \in {"entry", "first"}
    BY <1>16 DEF events_run_internal
  <2>2. CASE events_immediate_get("first") /\ UNCHANGED pollvars
    <3>1. doevent(Head(heads[Advanced]), "first")
      BY <2>2 DEF events_immediate_get
    <3> QED BY <2>1, <2>2, <3>1, StartedControl
  <2>3. CASE pc = "first" /\ NoImmediate /\ Goto("spin", 0) /\ UNCHANGED <<timervars, netvars, pollvars>>
    <3>1. Kept' /\ Stopping'
      BY <1>3, <1>14, <2>1, <2>3
    <3>2. Sleeping'
      BY <1>15, <2>1, <2>3
    <3> QED BY <3>1, <3>2 DEF ControlInv
  <2>4. CASE pc = "entry" /\ NoImmediate /\ Goto("spin", -1) /\ UNCHANGED <<timervars, netvars, pollvars>>
    <3>1. Kept' /\ Stopping'
      BY <1>3, <1>14, <2>1, <2>4
    <3>2. Sleeping'
      BY <1>15, <2>1, <2>4
    <3> QED BY <3>1, <3>2 DEF ControlInv
  <2>5. CASE /\ pc = "entry" /\ NoImmediate /\ Goto("poll", 0) /\ UNCHANGED <<timervars, netvars>>
             /\ timeout' = events_timer_min
             /\ until' = (IF events_timer_min = -1 THEN -1 ELSE now + events_timer_min)
             /\ eintr' = FALSE
    <3>1. Kept' /\ Stopping'
      BY <1>3, <1>14, <2>1, <2>5
    <3>2. Immediates' = {} /\ Timers' = Timers
      BY <1>3, <1>4, <2>1, <2>5
    <3>3. NoOversleep'
      <4> SUFFICES ASSUME NEW e \in Timers
                   PROVE  until' # -1 /\ (until' <= deadline[e] \/ timeout' = 0)
        BY <2>5, <3>2 DEF NoOversleep
      <4>1. PICK m \in Timers :
                  /\ \A d \in Timers : deadline[m] <= deadline[d]
                  /\ deadline[m] \in 0 .. TimeMax
                  /\ events_timer_min = IF now > deadline[m] THEN 0 ELSE deadline[m] - now
        BY TimerMin
      <4>2. now \in Nat
        BY DEF TypeOK
      <4> QED BY <2>5, <4>1, <4>2
    <3>4. Sleeping'
      BY <2>5, <3>2, <3>3 DEF Sleeping
    <3> QED BY <3>1, <3>4 DEF ControlInv
  <2> QED BY <1>16, <2>2, <2>3, <2>4, <2>5, Zenon DEF events_run_internal
<1>17. CASE events_network_select
  <2>1. pc = "poll" /\ UNCHANGED <<interrupt_requested, immvars, timervars, world>>
    BY <1>17 DEF events_network_select
  <2>2. ASSUME NEW l \in {"loop", "spin"}, NEW r \in {0, -1}, Goto(l, r), l = "spin" => r = -1,
               EndPoll, UNCHANGED net
        PROVE  ControlInv'
    <3>1. Kept' /\ Stopping'
      BY <1>14, <2>1, <2>2
    <3>2. Sleeping'
      BY <1>15, <2>1, <2>2 DEF EndPoll
    <3> QED BY <3>1, <3>2 DEF ControlInv
  <2>3. CASE eintr /\ eintr' = FALSE /\ UNCHANGED <<loopvars, status, history, timeout, netvars>>
    <3>1. Something' = Something /\ Immediates' = Immediates /\ Expired' = Expired
      BY <1>4, <2>1, <2>3
    <3>2. Kept'
      BY <1>1, <2>1, <2>3, <3>1 DEF Kept
    <3>3. Stopping'
      BY <1>1, <2>1, <2>3 DEF Stopping
    <3>4. Sleeping'
      BY <1>1, <2>1, <2>3, <3>1 DEF Sleeping, NoOversleep
    <3> QED BY <3>2, <3>3, <3>4 DEF ControlInv
  <2> QED BY <1>17, <2>2, <2>3, Zenon DEF events_network_select
<1>18. ASSUME events_network_get, pc \in {"loop", "recheck"}, pc = "loop" => ~interrupt_requested,
              UNCHANGED <<interrupt_requested, pollvars>>
       PROVE  ControlInv'
  <2>1. PICK s \in ready : doevent(net[s], "loop") /\ signals' = signals
    BY <1>18 DEF events_network_get
  <2> QED BY <1>18, <2>1, StartedControl
<1>19. CASE run_loop
  <2>1. pc = "loop" /\ UNCHANGED <<interrupt_requested, pollvars>>
    BY <1>19 DEF run_loop
  <2>2. CASE interrupt_requested /\ Goto("spin", 0) /\ UNCHANGED <<immvars, timervars, netvars, world>>
    <3>1. Kept' /\ Stopping'
      BY <1>14, <2>1, <2>2
    <3>2. Sleeping'
      BY <1>15, <2>1, <2>2
    <3> QED BY <3>1, <3>2 DEF ControlInv
  <2>3. CASE ~interrupt_requested /\ events_immediate_get("loop") /\ UNCHANGED world
    <3>1. doevent(Head(heads[Advanced]), "loop")
      BY <2>3 DEF events_immediate_get
    <3> QED BY <2>1, <2>3, <3>1, StartedControl
  <2>4. CASE ~interrupt_requested /\ events_network_get
    BY <1>18, <2>1, <2>4
  <2>5. CASE /\ ~interrupt_requested /\ NoImmediate /\ UNCHANGED <<net, timervars, world>>
             /\ Goto("recheck", 0) /\ ready' = Registered \cap kready
    <3>1. Kept' /\ Stopping'
      BY <1>3, <1>14, <2>1, <2>5
    <3>2. Immediates' = {}
      BY <1>3, <1>4, <2>5
    <3>3. pc' = "recheck"
      BY <2>5 DEF Goto
    <3>4. Sleeping'
      BY <1>1, <2>1, <2>5, <3>2, <3>3 DEF Sleeping, NoOversleep
    <3> QED BY <3>1, <3>4 DEF ControlInv
  <2>6. CASE NoImmediate /\ UNCHANGED <<net, timervars, world>> /\ Goto("spin", -1)
    <3>1. Kept' /\ Stopping'
      BY <1>3, <1>14, <2>1, <2>6
    <3>2. Sleeping'
      BY <1>15, <2>1, <2>6
    <3> QED BY <3>1, <3>2 DEF ControlInv
  <2> QED BY <1>19, <2>2, <2>3, <2>4, <2>5, <2>6 DEF run_loop
<1>20. CASE run_recheck
  <2>1. pc = "recheck" /\ UNCHANGED <<interrupt_requested, immvars, pollvars>>
    BY <1>20 DEF run_recheck
  <2>2. CASE events_network_get
    BY <1>18, <2>1, <2>2
  <2>3. CASE events_timer_get
    <3>1. PICK e \in Expired : doevent(e, "loop") /\ signals' = signals
      BY <2>3 DEF events_timer_get
    <3> QED BY <2>1, <3>1, StartedControl
  <2>4. CASE /\ UNCHANGED <<timervars, netvars, world>>
             /\ (ready = {} /\ Expired = {} /\ Goto("spin", 0)) \/ Goto("spin", -1)
    <3>1. Kept' /\ Stopping'
      BY <1>14, <2>1, <2>4
    <3>2. Sleeping'
      BY <1>15, <2>1, <2>4
    <3> QED BY <3>1, <3>2 DEF ControlInv
  <2> QED BY <1>20, <2>2, <2>3, <2>4 DEF run_recheck
<1>21. ASSUME NEW r \in {0, -1}, Return(r) PROVE ControlInv'
  <2>1. pc = "callback" /\ UNCHANGED <<interrupt_requested, immvars, timervars, netvars, pollvars, world>>
    BY <1>21 DEF Return
  <2>2. \E l \in {"spin", "loop", "first"} : Goto(l, r) /\ (l = "first" => ~interrupt_requested)
    BY <1>21 DEF Return
  <2>3. Kept' /\ Stopping'
    BY <1>14, <2>1, <2>2
  <2>4. Sleeping'
    BY <1>15, <2>1, <2>2
  <2> QED BY <2>3, <2>4 DEF ControlInv
<1>22. ASSUME UNCHANGED <<pc, rc, promised, ran, late, heads, deadline, net, ready>>,
              interrupt_requested => interrupt_requested', now' \in Nat, now' >= now,
              kready \subseteq kready'
       PROVE  Kept' /\ Stopping' /\ Immediates' = Immediates /\ Timers' = Timers
  <2>1. Immediates' = Immediates /\ Registered' = Registered /\ Timers' = Timers
    BY <1>22 DEF Immediates, Registered, Timers
  <2>2. Expired \subseteq Expired'
    <3>1. \A e \in Timers : deadline[e] \in Int
      BY DEF TypeOK, Timers
    <3>2. now \in Nat
      BY DEF TypeOK
    <3> QED BY <1>22, <2>1, <3>1, <3>2 DEF Expired
  <2>3. Something => Something'
    BY <1>22, <2>1, <2>2 DEF Something
  <2>4. Kept'
    BY <1>1, <1>22, <2>2, <2>3 DEF Kept
  <2>5. Stopping'
    BY <1>1, <1>22 DEF Stopping
  <2> QED BY <2>1, <2>4, <2>5
<1>23. now \in Nat /\ signals \in Nat
  BY DEF TypeOK
<1>24. CASE Done
  <2>1. UNCHANGED <<pc, rc, heads, deadline, net, ready, interrupt_requested, pollvars, world, history>>
    BY <1>24 DEF Done
  <2>2. Kept' /\ Stopping' /\ Immediates' = Immediates /\ Timers' = Timers
    BY <1>22, <1>23, <2>1
  <2>3. Sleeping'
    BY <1>1, <2>1, <2>2 DEF Sleeping, NoOversleep
  <2> QED BY <2>2, <2>3 DEF ControlInv
<1>25. ASSUME NEW i \in BOOLEAN, Signal(i) PROVE ControlInv'
  <2>1. UNCHANGED <<pc, rc, heads, deadline, net, ready, timeout, until, kready, now, history>>
        /\ signals' = signals + 1 /\ (interrupt_requested => interrupt_requested')
    BY <1>25, Zenon DEF Signal
  <2>2. Kept' /\ Stopping' /\ Immediates' = Immediates /\ Timers' = Timers
    BY <1>22, <1>23, <2>1
  <2>3. signals' # 0
    BY <1>23, <2>1
  <2>4. Sleeping'
    BY <1>1, <2>1, <2>2, <2>3 DEF Sleeping, NoOversleep
  <2> QED BY <2>2, <2>4 DEF ControlInv
<1>26. CASE Tick
  <2>1. /\ UNCHANGED <<pc, rc, heads, deadline, net, ready, interrupt_requested, pollvars, kready,
                       signals, history>>
        /\ now' = now + 1
    BY <1>26 DEF Tick
  <2>2. now' \in Nat /\ now' >= now
    BY <1>23, <2>1
  <2>3. Kept' /\ Stopping' /\ Immediates' = Immediates /\ Timers' = Timers
    BY <1>22, <2>1, <2>2
  <2>4. Sleeping'
    BY <1>1, <2>1, <2>3 DEF Sleeping, NoOversleep
  <2> QED BY <2>3, <2>4 DEF ControlInv
<1>27. ASSUME NEW s \in Sock, BecomesReady(s) PROVE ControlInv'
  <2>1. /\ UNCHANGED <<pc, rc, heads, deadline, net, ready, interrupt_requested, pollvars, now,
                       signals, history>>
        /\ kready \subseteq kready'
    BY <1>27 DEF BecomesReady
  <2>2. Kept' /\ Stopping' /\ Immediates' = Immediates /\ Timers' = Timers
    BY <1>22, <1>23, <2>1
  <2>3. Sleeping'
    BY <1>1, <2>1, <2>2 DEF Sleeping, NoOversleep
  <2> QED BY <2>2, <2>3 DEF ControlInv
<1>28. CASE UNCHANGED vars
  <2>1. UNCHANGED <<pc, rc, heads, deadline, net, ready, interrupt_requested, pollvars, world, history>>
    BY <1>28 DEF vars
  <2>2. Kept' /\ Stopping' /\ Immediates' = Immediates /\ Timers' = Timers
    BY <1>22, <1>23, <2>1
  <2>3. Sleeping'
    BY <1>1, <2>1, <2>2 DEF Sleeping, NoOversleep
  <2> QED BY <2>2, <2>3 DEF ControlInv
<1> QED
  BY <1>5, <1>6, <1>7, <1>8, <1>9, <1>10, <1>11, <1>12, <1>13, <1>16, <1>17, <1>19, <1>20, <1>21,
     <1>24, <1>25, <1>26, <1>27, <1>28 DEF Next

(* A pending event is counted once, and others are not.  The sets that are *)
(* counted have one element or none.                                       *)
LEMMA PendingOnce == TypeOK /\ QueueInv => PendingIsQueued
<1> SUFFICES ASSUME TypeOK, QueueInv, NEW e \in Ev
             PROVE  LET imm == {x \in Prio \X (1 .. MaxReg) :
                                   x[2] <= Len(heads[x[1]]) /\ heads[x[1]][x[2]] = e}
                        nets == {s \in Sock : net[s] = e}
                        n == Cardinality(imm) + Cardinality(nets) + (IF e \in Timers THEN 1 ELSE 0)
                    IN  n = IF status[e] = "pending" THEN 1 ELSE 0
  BY DEF PendingIsQueued, QueueInv
<1> DEFINE imm == {x \in Prio \X (1 .. MaxReg) : x[2] <= Len(heads[x[1]]) /\ heads[x[1]][x[2]] = e}
           nets == {s \in Sock : net[s] = e}
<1>1. heads \in [Prio -> Seq(Ev)]
  BY DEF TypeOK
<1>2. \A p \in Prio : \A i \in 1 .. Len(heads[p]) :
         /\ heads[p][i] \in 1 .. MaxReg /\ prio[heads[p][i]] = p /\ i <= heads[p][i]
         /\ status[heads[p][i]] = "pending"
         /\ \A j \in 1 .. Len(heads[p]) : i < j => heads[p][i] < heads[p][j]
  <2> SUFFICES ASSUME NEW p \in Prio, NEW i \in 1 .. Len(heads[p])
               PROVE  /\ heads[p][i] \in 1 .. MaxReg /\ prio[heads[p][i]] = p /\ i <= heads[p][i]
                      /\ status[heads[p][i]] = "pending"
                      /\ \A j \in 1 .. Len(heads[p]) : i < j => heads[p][i] < heads[p][j]
    OBVIOUS
  <2>1. heads[p][i] \in 1 .. MaxReg
    <3>1. heads[p] \in Seq(Ev)
      BY <1>1
    <3>2. heads[p][i] \in Ev
      BY <3>1
    <3> QED BY <3>2 DEF Ev
  <2>2. Queues
    BY DEF QueueInv
  <2> QED BY <2>1, <2>2 DEF Queues
<1>3. Cardinality(imm) = IF e \in Immediates THEN 1 ELSE 0
  <2>1. CASE e \notin Immediates
    <3>1. imm = {}
      <4> SUFFICES ASSUME NEW x \in imm PROVE FALSE
        OBVIOUS
      <4>1. x[1] \in Prio /\ x[2] \in 1 .. Len(heads[x[1]]) /\ heads[x[1]][x[2]] = e
        BY <1>1
      <4> QED BY <2>1, <4>1, ImmediatesAre
    <3> QED BY <2>1, <3>1, FS_EmptySet, Zenon
  <2>2. CASE e \in Immediates
    <3>1. PICK p \in Prio : \E i \in 1 .. Len(heads[p]) : heads[p][i] = e
      BY <2>2, ImmediatesAre
    <3>2. PICK i \in 1 .. Len(heads[p]) : heads[p][i] = e
      BY <3>1
    <3>3. i \in 1 .. MaxReg
      <4>1. heads[p][i] \in 1 .. MaxReg /\ i <= heads[p][i] /\ MaxReg \in Nat
        BY <1>2, LoopAssumption
      <4>2. Len(heads[p]) \in Nat
        BY <1>1
      <4> QED BY <4>1, <4>2
    <3>4. <<p, i>> \in imm
      BY <3>2, <3>3
    <3>5. ASSUME NEW x \in imm PROVE x = <<p, i>>
      <4>1. x \in Prio \X (1 .. MaxReg) /\ x[1] \in Prio /\ x[2] \in 1 .. Len(heads[x[1]])
            /\ heads[x[1]][x[2]] = e
        BY <1>1, <3>5
      <4>2. x[1] = p
        BY <1>2, <3>2, <4>1
      <4>3. x[2] = i
        <5>1. x[2] \in 1 .. Len(heads[p]) /\ heads[p][x[2]] = e
          BY <4>1, <4>2
        <5>2. ~(x[2] < i) /\ ~(i < x[2])
          <6>1. \A j, k \in 1 .. Len(heads[p]) : j < k => heads[p][j] # heads[p][k]
            BY <1>2
          <6> QED BY <3>2, <5>1, <6>1
        <5> QED BY <5>1, <5>2
      <4> QED BY <4>1, <4>2, <4>3
    <3>6. imm = {<<p, i>>}
      BY <3>4, <3>5
    <3> QED BY <2>2, <3>6, FS_Singleton, Zenon
  <2> QED BY <2>1, <2>2
<1>4. Cardinality(nets) = IF \E s \in Sock : net[s] = e THEN 1 ELSE 0
  <2>1. CASE \E s \in Sock : net[s] = e
    <3>1. PICK s \in Sock : net[s] = e
      BY <2>1
    <3>2. nets = {s}
      BY <3>1 DEF QueueInv, Owned
    <3> QED BY <2>1, <3>2, FS_Singleton, Zenon
  <2>2. CASE ~ \E s \in Sock : net[s] = e
    <3>1. nets = {}
      BY <2>2
    <3> QED BY <2>2, <3>1, FS_EmptySet
  <2> QED BY <2>1, <2>2
<1>5. /\ e \in Timers => status[e] = "pending" /\ e \notin Immediates
      /\ (\E s \in Sock : net[s] = e) =>
              status[e] = "pending" /\ e \notin Immediates /\ e \notin Timers
      /\ status[e] = "pending" => e \in Immediates \/ e \in Timers \/ \E s \in Sock : net[s] = e
  BY DEF QueueInv, Owned
<1>6. e \in Immediates => status[e] = "pending"
  BY <1>2, ImmediatesAre
<1> HIDE DEF imm, nets
<1>7. Cardinality(imm) + Cardinality(nets) + (IF e \in Timers THEN 1 ELSE 0)
         = IF status[e] = "pending" THEN 1 ELSE 0
  BY <1>3, <1>4, <1>5, <1>6
<1> QED BY <1>7 DEF imm, nets

(* So it holds always.                                                     *)
LEMMA LoopAlways == Spec => []LoopInv
<1>1. LoopInv /\ [Next]_vars => LoopInv'
  BY TypeStep, QueueStep, ControlStep DEF LoopInv
<1> QED BY <1>1, LoopInit, PTL DEF Spec

(* For any number of priorities, sockets and registrations, and whatever   *)
(* callbacks do: a pending event is in one place and an event that is over *)
(* in none; minq is a lower bound for the queues in use; a promise of      *)
(* events_run to run something is kept; at most one callback is begun      *)
(* after events_interrupt; and no poll outlasts the first timer.           *)
THEOREM LoopCorrect == Spec => []LoopIsSound
<1>1. LoopInv => LoopIsSound
  <2> SUFFICES ASSUME LoopInv PROVE LoopIsSound
    OBVIOUS
  <2>1. TypeOK /\ QueueInv /\ Kept /\ Stopping /\ Sleeping
    BY DEF LoopInv, ControlInv
  <2>2. MinqInvariant /\ PendingIsQueued /\ NoOversleep
    BY <2>1, PendingOnce DEF QueueInv, Sleeping
  <2>3. AtLeastOne
    BY <2>1 DEF Kept, AtLeastOne, TypeOK
  <2>4. AtMostOneMore
    BY <2>1 DEF Stopping, AtMostOneMore
  <2> QED BY <2>2, <2>3, <2>4 DEF LoopIsSound
<1> QED BY <1>1, LoopAlways, PTL

(* Events are run in the order events.h promises: a callback is only begun *)
(* for a pending event; immediate ones by priority and then in the order   *)
(* they were registered; sockets only when there are none of these; and    *)
(* timers last, once they have expired, the earliest first.                *)
THEOREM OrderCorrect == Spec => Order
<1> DEFINE Turn ==
      pc # "callback" /\ pc' = "callback" =>
         LET e == cur' IN
         /\ status[e] = "pending"
         /\ e \in Immediates =>
               \A d \in Immediates : <<prio[d], d>> # <<prio[e], e>> =>
                   prio[e] < prio[d] \/ (prio[e] = prio[d] /\ e < d)
         /\ e \notin Immediates => Immediates = {}
         /\ e \in Timers => /\ ready = {}
                            /\ deadline[e] <= now
                            /\ \A d \in Timers : deadline[e] <= deadline[d]
<1>1. LoopInv /\ [Next]_vars => [Turn]_vars
  <2> SUFFICES ASSUME LoopInv, Next, pc # "callback", pc' = "callback" PROVE Turn
    OBVIOUS
  <2>1. TypeOK /\ QueueInv /\ Sleeping
    BY DEF LoopInv, ControlInv
  <2>2. ASSUME NEW f, events_immediate_get(f) PROVE Turn
    <3> DEFINE e == Head(heads[Advanced])
    <3>1. /\ e \in Ev /\ e \in Immediates /\ doevent(e, f) /\ status[e] = "pending"
          /\ \A d \in Immediates : d # e => prio[e] < prio[d] \/ (prio[e] = prio[d] /\ e < d)
      BY <2>1, <2>2, ImmediateGot
    <3>2. cur' = e
      BY <3>1 DEF doevent
    <3>3. e \notin Timers
      BY <2>1, <3>1 DEF QueueInv, Owned
    <3> HIDE DEF e
    <3> QED BY <3>1, <3>2, <3>3
  <2>3. ASSUME events_network_get, Immediates = {} PROVE Turn
    <3>1. PICK s \in ready : doevent(net[s], "loop")
      BY <2>3 DEF events_network_get
    <3>2. s \in Sock /\ net[s] \in Ev
      BY <2>1, NetIsRegistered DEF QueueInv, TypeOK
    <3>3. cur' = net[s] /\ status[net[s]] = "pending" /\ net[s] \notin Timers
      BY <2>1, <3>1, <3>2 DEF doevent, QueueInv, Owned
    <3> QED BY <2>3, <3>3
  <2>4. ASSUME events_timer_get, Immediates = {}, ready = {} PROVE Turn
    <3>1. PICK e \in Expired : doevent(e, "loop") /\ \A d \in Expired : deadline[e] <= deadline[d]
      BY <2>4 DEF events_timer_get
    <3>2. e \in Timers /\ deadline[e] <= now /\ status[e] = "pending" /\ cur' = e
      BY <2>1, <3>1 DEF Expired, Timers, QueueInv, Owned, doevent
    <3>3. \A d \in Timers : deadline[d] \in Int /\ now \in Nat
      BY <2>1 DEF TypeOK, Timers
    <3>4. \A d \in Timers : deadline[e] <= deadline[d]
      <4> TAKE d \in Timers
      <4>1. CASE deadline[d] <= now
        BY <3>1, <4>1 DEF Expired
      <4>2. CASE ~(deadline[d] <= now)
        BY <3>2, <3>3, <4>2
      <4> QED BY <4>1, <4>2
    <3> QED BY <2>4, <3>2, <3>4
  <2>5. NoImmediate => Immediates = {}
    BY <2>1, AdvancedFinds DEF NoImmediate, QueueInv
  <2>6. CASE events_run_internal
    BY <2>2, <2>6 DEF events_run_internal, Goto
  <2>7. CASE run_loop
    BY <2>2, <2>3, <2>5, <2>7 DEF run_loop, Goto
  <2>8. CASE run_recheck
    <3>1. Immediates = {}
      BY <2>1, <2>8 DEF run_recheck, Sleeping
    <3> QED BY <2>3, <2>4, <2>8, <3>1 DEF run_recheck, Goto
  <2>9. CASE Start \/ events_spin \/ events_network_select \/ Done \/ Tick
    BY <2>9 DEF Start, events_spin, events_network_select, Done, Tick, Goto, loopvars
  <2>10. CASE \/ \E p \in Prio : events_immediate_register(p)
              \/ \E e \in Ev : events_immediate_cancel(e) \/ events_timer_cancel(e) \/ events_timer_reset(e)
              \/ \E d \in Delay : events_timer_register(d)
              \/ \E s \in Sock : events_network_register(s) \/ events_network_cancel(s) \/ BecomesReady(s)
    BY <2>10 DEF events_immediate_register, events_immediate_cancel, events_timer_cancel,
         events_timer_reset, events_timer_register, events_network_register, events_network_cancel,
         BecomesReady, loopvars
  <2>11. CASE (\E r \in {0, -1} : Return(r)) \/ (\E i \in BOOLEAN : Signal(i))
    BY <2>11 DEF Return, Signal, Goto, loopvars
  <2> HIDE DEF Turn
  <2> QED BY <2>6, <2>7, <2>8, <2>9, <2>10, <2>11 DEF Next
<1> QED BY <1>1, LoopAlways, PTL DEF Spec, Order
=============================================================================
