------------------------------- MODULE Mpool -------------------------------
(***************************************************************************)
(* libcperciva/datastruct/mpool.h: a stack of spare structures in front of *)
(* malloc and free.                                                        *)
(*                                                                         *)
(* The stack starts in a static array, and moves to a malloced one twice   *)
(* as large when too many requests find it empty.  It is used until the    *)
(* process exits: the exit handlers that return structures are registered  *)
(* after the pool's own, and so run before it.                             *)
(***************************************************************************)
EXTENDS Integers, Sequences

CONSTANTS
    Obj,        \* the structures malloc may ever return
    InitSize,   \* entries in the static array
    Ratio,      \* one request in so many may go to malloc (256 in the code)
    MaxRequests \* bound on nallocs

VARIABLES
    stack,      \* M->allocs up to M->stacklen
    allocsize,  \* M->allocsize
    nallocs,    \* M->nallocs
    nempties,   \* M->nempties
    state,      \* M->state: the exit handler is registered
    moved,      \* M->allocs # M->allocs_static
    arrays,     \* number of malloced arrays
    heap,       \* the structures that are malloced
    used,       \* the structures the program has
    exited      \* the process has exited

vars == <<stack, allocsize, nallocs, nempties, state, moved, arrays, heap, used, exited>>

Init ==
    /\ stack = <<>> /\ allocsize = InitSize
    /\ nallocs = 0 /\ nempties = 0
    /\ state = FALSE /\ moved = FALSE
    /\ arrays = 0 /\ heap = {} /\ used = {}
    /\ exited = FALSE

Top == stack[Len(stack)]

(* A structure from the stack, or else from malloc.                        *)
mpool_malloc ==
    /\ ~exited /\ nallocs < MaxRequests
    /\ nallocs' = nallocs + 1
    /\ \/ /\ stack # <<>>
          /\ used' = used \cup {Top}
          /\ stack' = SubSeq(stack, 1, Len(stack) - 1)
          /\ UNCHANGED <<nempties, state, heap>>
       \/ /\ stack = <<>>
          /\ nempties' = nempties + 1
          /\ state' = TRUE
          /\ \/ \E p \in Obj \ heap : heap' = heap \cup {p} /\ used' = used \cup {p}
             \/ UNCHANGED <<heap, used>>
          /\ UNCHANGED stack
    /\ UNCHANGED <<allocsize, moved, arrays, exited>>

(* Mutant: the array is larger, the old one is not freed.                  *)
grown_leak ==
    /\ allocsize' = 2 * allocsize
    /\ moved' = TRUE
    /\ arrays' = arrays + 1

(* malloc returns a larger array, and the old one is freed if it was       *)
(* malloced.                                                               *)
grown ==
    /\ allocsize' = 2 * allocsize
    /\ moved' = TRUE
    /\ arrays' = IF moved THEN arrays ELSE arrays + 1

(* nempties > nallocs >> 8                                                 *)
TooManyMisses == nempties > nallocs \div Ratio

mpool_free(p) ==
    /\ ~exited /\ p \in used
    /\ used' = used \ {p}
    /\ \/ /\ Len(stack) < allocsize
          /\ stack' = Append(stack, p)
          /\ UNCHANGED <<allocsize, nallocs, nempties, moved, arrays, heap>>
       \/ /\ Len(stack) >= allocsize
          /\ nallocs' = 0 /\ nempties' = 0
          /\ \/ TooManyMisses /\ grown /\ stack' = Append(stack, p) /\ UNCHANGED heap
             \/ /\ heap' = heap \ {p}
                /\ UNCHANGED <<stack, allocsize, moved, arrays>>
    /\ UNCHANGED <<state, exited>>

(* exit: the exit handler, if it is registered, frees what is on the       *)
(* stack and the array.                                                    *)
mpool_atexit ==
    /\ ~exited
    /\ exited' = TRUE
    /\ IF state
       THEN /\ heap' = heap \ {stack[k] : k \in DOMAIN stack}
            /\ stack' = <<>>
            /\ arrays' = IF moved THEN arrays - 1 ELSE arrays
       ELSE UNCHANGED <<heap, stack, arrays>>
    /\ UNCHANGED <<allocsize, nallocs, nempties, state, moved, used>>

Next ==
    \/ mpool_malloc
    \/ \E p \in Obj : mpool_free(p)
    \/ mpool_atexit

Spec == Init /\ [][Next]_vars

-----------------------------------------------------------------------------
(* No structure is on the stack twice, or on the stack and in use.         *)
HandedOutOnce ==
    /\ \A j, k \in DOMAIN stack : stack[j] = stack[k] => j = k
    /\ \A k \in DOMAIN stack : stack[k] \notin used

(* What is malloced is on the stack or in use; at exit only what the       *)
(* program has not returned is left, and no array.                         *)
NothingLost ==
    /\ heap = used \cup {stack[k] : k \in DOMAIN stack}
    /\ arrays = IF moved /\ ~exited THEN 1 ELSE 0
    /\ exited => stack = <<>>

(* The stack fits into its array, which never has fewer entries than the   *)
(* pool was asked to keep.                                                 *)
StackFits == Len(stack) <= allocsize /\ allocsize >= InitSize

(* The three together: a pool hands out a structure to one user at a time, *)
(* and loses none, whenever malloc fails and however often it grows.       *)
PoolIsSound == HandedOutOnce /\ NothingLost /\ StackFits
=============================================================================
