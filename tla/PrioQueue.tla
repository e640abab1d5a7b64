----------------------------- MODULE PrioQueue -----------------------------
(***************************************************************************)
(* What a timer queue promises: it holds timers with their times, any of   *)
(* them can be deleted or changed, and the one taken out is one of those   *)
(* with the least time, if that is due.                                    *)
(***************************************************************************)
EXTENDS Integers

CONSTANTS Rec, NULL

VARIABLES
    queue,  \* the timers in the queue
    tv,     \* their times
    out     \* the timer that was just taken out

vars == <<queue, tv, out>>

Init == queue \in SUBSET Rec /\ tv \in [Rec -> Int] /\ out = NULL

Same(r) == \A q \in Rec \ {r} : tv'[q] = tv[q]

Add(r) == r \notin queue /\ queue' = queue \cup {r} /\ out' = NULL /\ Same(r)

Delete(r) == r \in queue /\ queue' = queue \ {r} /\ out' = NULL /\ Same(r)

Change(r) == r \in queue /\ queue' = queue /\ out' = NULL /\ Same(r)

Take(r) ==
    /\ r \in queue
    /\ \A q \in queue : tv[r] <= tv[q]
    /\ queue' = queue \ {r} /\ out' = r /\ Same(r)

(* Nothing is due.                                                         *)
TakeNone == queue' = queue /\ tv' = tv /\ out' = NULL

Free == queue' = {} /\ out' = NULL

Next ==
    \/ \E r \in Rec : Add(r) \/ Delete(r) \/ Change(r) \/ Take(r)
    \/ TakeNone
    \/ Free

Spec == Init /\ [][Next]_vars
=============================================================================
