---------------------------- MODULE MCDatastruct ----------------------------
(***************************************************************************)
(* The data structures: an elastic array, a timer queue, or a pool of      *)
(* structures.  Only one of them moves, so that they are checked side by   *)
(* side, not multiplied.                                                   *)
(***************************************************************************)
EXTENDS ElasticArray, TimerQueue, TLC

CONSTANTS InitSize, Ratio, MaxRequests

ASSUME PoolAssumption == InitSize \in Nat \ {0}

VARIABLES
    stack, allocsize, nallocs, nempties, state, moved, arrays, heap, used, exited,
    part        \* the one that moves

poolvars == <<stack, allocsize, nallocs, nempties, state, moved, arrays, heap,
              used, exited>>

Pool == INSTANCE Mpool WITH Obj <- Rec

(* Records are alike.                                                      *)
Symmetry == Permutations(Rec)

MCInit ==
    /\ Init
    /\ QueueInit
    /\ Pool!Init
    /\ part \in {"array", "queue", "pool"}
    /\ part # "queue" => elems = <<>>

MCNext ==
    \/ part = "array" /\ Next /\ UNCHANGED <<queuevars, poolvars, part>>
    \/ part = "queue" /\ QueueNext /\ UNCHANGED <<vars, poolvars, part>>
    \/ part = "pool" /\ Pool!Next /\ UNCHANGED <<vars, queuevars, part>>

MCSpec == MCInit /\ [][MCNext]_<<vars, queuevars, poolvars, part>>

(* The pool hands a structure to one user and loses none; see Mpool.       *)
PoolIsSound == Pool!PoolIsSound
=============================================================================
