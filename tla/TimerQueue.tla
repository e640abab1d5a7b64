----------------------------- MODULE TimerQueue -----------------------------
(***************************************************************************)
(* The timer queue of libcperciva/datastruct: timerqueue.c on top of the   *)
(* binary heap of ptrheap.c.                                               *)
(*                                                                         *)
(* A heap is the pair of its array elems and of the cookies rc: rc[r] is   *)
(* the position which setreccookie has last been told for the record r.    *)
(* Positions start at 0; elems[i + 1] is the element at position i.        *)
(* Times are integers, ordered as tvcmp orders struct timeval; a record    *)
(* that is not in the queue has cookie and time 0.                         *)
(***************************************************************************)
EXTENDS Integers, Sequences

CONSTANTS
    Rec,        \* records (struct timerrec *)
    NULL,
    MaxTime,    \* the times are 0 .. MaxTime
    MaxCreate   \* heaps are created with at most so many elements

ASSUME QueueAssumption == NULL \notin Rec /\ MaxTime \in Nat /\ MaxCreate \in Nat

Time == 0 .. MaxTime

VARIABLES
    elems,      \* H->elems; H->nelems is its length
    rc,         \* rc[r]: r->rc
    tv,         \* tv[r]: r->tv
    out         \* what timerqueue_getptr has returned, if that was the last call

queuevars == <<elems, rc, tv, out>>

-----------------------------------------------------------------------------
(* The heap                                                                *)

Heap(e, c) == [elems |-> e, rc |-> c]
At(h, i) == h.elems[i + 1]
parent(i) == (i - 1) \div 2

(* compar(At(h, i), At(h, j)) < 0, with the times t.                       *)
Less(h, t, i, j) == t[At(h, i)] < t[At(h, j)]

setreccookie(h, i) == Heap(h.elems, [h.rc EXCEPT ![At(h, i)] = i])

swap(h, i, j) ==
    LET e == [h.elems EXCEPT ![i + 1] = At(h, j), ![j + 1] = At(h, i)]
    IN  setreccookie(setreccookie(Heap(e, h.rc), i), j)

(* A turn of the loop of heapifyup: s is the heap and the position.        *)
Up(t, s) ==
    IF s.i = 0 \/ ~Less(s.h, t, s.i, parent(s.i)) THEN s
    ELSE [h |-> swap(s.h, s.i, parent(s.i)), i |-> parent(s.i)]

(* After[k] holds the one state that k turns lead to; i turns reach the    *)
(* root.                                                                   *)
heapifyup(h, t, i) ==
    LET After[k \in 0 .. i] ==
            IF k = 0 THEN {[h |-> h, i |-> i]} ELSE {Up(t, s) : s \in After[k - 1]}
    IN  (CHOOSE s \in After[i] : TRUE).h

(* The least of i and its children below N.                                *)
least(h, t, i, N) ==
    LET first == IF 2 * i + 1 < N /\ Less(h, t, 2 * i + 1, i) THEN 2 * i + 1 ELSE i
    IN  IF 2 * i + 2 < N /\ Less(h, t, 2 * i + 2, first) THEN 2 * i + 2 ELSE first

(* A turn of the loop of heapify.                                          *)
Down(t, N, s) ==
    LET min == least(s.h, t, s.i, N)
    IN  IF min = s.i THEN s ELSE [h |-> swap(s.h, min, s.i), i |-> min]

(* The position grows in every turn, and stays below N.                    *)
heapify(h, t, i, N) ==
    LET After[k \in 0 .. N] ==
            IF k = 0 THEN {[h |-> h, i |-> i]} ELSE {Down(t, N, s) : s \in After[k - 1]}
    IN  (CHOOSE s \in After[N] : TRUE).h

(* The loop of ptrheap_create, from position N - 1 down to 0.              *)
heapify_all(h, t, N) ==
    LET After[k \in 0 .. N] ==
            IF k = 0 THEN {h} ELSE {heapify(g, t, N - k, N) : g \in After[k - 1]}
    IN  CHOOSE g \in After[N] : TRUE

(* Cookies are told at the end.                                            *)
ptrheap_create(ptrs, t) ==
    LET N == Len(ptrs)
        h == heapify_all(Heap(ptrs, [r \in Rec |-> 0]), t, N)
    IN  Heap(h.elems, [r \in Rec |->
            IF \E i \in 1 .. N : h.elems[i] = r
            THEN (CHOOSE i \in 1 .. N : h.elems[i] = r) - 1 ELSE 0])

ptrheap_add(h, t, r) ==
    LET n == Len(h.elems)
    IN  heapifyup(setreccookie(Heap(Append(h.elems, r), h.rc), n), t, n)

(* Mutant: the cookie of the element that replaces it is not told.         *)
ptrheap_delete_cookie(h, t, c) ==
    LET n == Len(h.elems)
        g == Heap([h.elems EXCEPT ![c + 1] = At(h, n - 1)], h.rc)
        k == IF c = n - 1 THEN h
             ELSE IF c > 0 /\ Less(g, t, c, parent(c))
             THEN heapifyup(swap(g, c, parent(c)), t, parent(c))
             ELSE heapify(g, t, c, n)
    IN  Heap(SubSeq(k.elems, 1, n - 1), k.rc)

(* Delete position c.  While the last element is moved, it is in the array *)
(* twice: at the end, which heapify still looks at, and in its new place.  *)
ptrheap_delete(h, t, c) ==
    LET n == Len(h.elems)
        g == setreccookie(Heap([h.elems EXCEPT ![c + 1] = At(h, n - 1)], h.rc), c)
        k == IF c = n - 1 THEN h
             ELSE IF c > 0 /\ Less(g, t, c, parent(c))
             THEN heapifyup(swap(g, c, parent(c)), t, parent(c))
             ELSE heapify(g, t, c, n)
    IN  Heap(SubSeq(k.elems, 1, n - 1), k.rc)

ptrheap_deletemin(h, t) == ptrheap_delete(h, t, 0)

ptrheap_decrease(h, t, c) == heapifyup(h, t, c)

ptrheap_increase(h, t, c) == heapify(h, t, c, Len(h.elems))

ptrheap_increasemin(h, t) == heapify(h, t, 0, Len(h.elems))

(* Mutant: the last element.                                               *)
ptrheap_getmin_last(h) == IF h.elems = <<>> THEN NULL ELSE At(h, Len(h.elems) - 1)

ptrheap_getmin(h) == IF h.elems = <<>> THEN NULL ELSE At(h, 0)

-----------------------------------------------------------------------------
(* The queue                                                               *)

H == Heap(elems, rc)
InQueue == {elems[i] : i \in DOMAIN elems}

(* The new heap is h; records which are not in it are free.                *)
Becomes(h, t) ==
    LET in == {h.elems[i] : i \in DOMAIN h.elems} IN
    /\ elems' = h.elems
    /\ rc' = [r \in Rec |-> IF r \in in THEN h.rc[r] ELSE 0]
    /\ tv' = [r \in Rec |-> IF r \in in THEN t[r] ELSE 0]

(* timerqueue_init makes an empty heap.  Other users of ptrheap may make   *)
(* one of any elements.                                                    *)
QueueInit ==
    /\ \E n \in 0 .. MaxCreate : \E ptrs \in [1 .. n -> Rec] :
          /\ \A i, j \in 1 .. n : ptrs[i] = ptrs[j] => i = j
          /\ \E times \in [1 .. n -> Time] :
                tv = [r \in Rec |-> IF \E i \in 1 .. n : ptrs[i] = r
                                    THEN times[CHOOSE i \in 1 .. n : ptrs[i] = r] ELSE 0]
          /\ elems = ptrheap_create(ptrs, tv).elems
          /\ rc = ptrheap_create(ptrs, tv).rc
    /\ out = NULL

timerqueue_add(r, t) ==
    /\ r \notin InQueue
    /\ LET s == [tv EXCEPT ![r] = t] IN Becomes(ptrheap_add(H, s, r), s)
    /\ out' = NULL

(* The caller has the record, and that has the cookie.                     *)
timerqueue_delete(r) ==
    /\ r \in InQueue
    /\ Becomes(ptrheap_delete(H, tv, rc[r]), tv)
    /\ out' = NULL

timerqueue_increase(r, t) ==
    /\ r \in InQueue /\ t >= tv[r]
    /\ LET s == [tv EXCEPT ![r] = t] IN Becomes(ptrheap_increase(H, s, rc[r]), s)
    /\ out' = NULL

(* The operations of the heap which timerqueue does not use.               *)
increasemin(t) ==
    /\ elems # <<>> /\ t >= tv[At(H, 0)]
    /\ LET s == [tv EXCEPT ![At(H, 0)] = t] IN Becomes(ptrheap_increasemin(H, s), s)
    /\ out' = NULL

decrease(r, t) ==
    /\ r \in InQueue /\ t <= tv[r]
    /\ LET s == [tv EXCEPT ![r] = t] IN Becomes(ptrheap_decrease(H, s, rc[r]), s)
    /\ out' = NULL

(* The first timer, if it is due at time t.                                *)
timerqueue_getptr(t) ==
    LET r == ptrheap_getmin(H) IN
    IF r = NULL \/ tv[r] > t
    THEN out' = NULL /\ UNCHANGED <<elems, rc, tv>>
    ELSE out' = r /\ Becomes(ptrheap_deletemin(H, tv), tv)

(* The loop of timerqueue_free.                                            *)
empty(h, t) ==
    LET After[k \in 0 .. Len(h.elems)] ==
            IF k = 0 THEN {h}
            ELSE {IF ptrheap_getmin(g) = NULL THEN g ELSE ptrheap_deletemin(g, t) :
                    g \in After[k - 1]}
    IN  CHOOSE g \in After[Len(h.elems)] : TRUE

timerqueue_free ==
    /\ Becomes(empty(H, tv), tv)
    /\ out' = NULL

QueueNext ==
    \/ \E r \in Rec, t \in Time :
          timerqueue_add(r, t) \/ timerqueue_increase(r, t) \/ decrease(r, t)
    \/ \E r \in Rec : timerqueue_delete(r)
    \/ \E t \in Time : timerqueue_getptr(t) \/ increasemin(t)
    \/ timerqueue_free

QueueSpec == QueueInit /\ [][QueueNext]_queuevars

-----------------------------------------------------------------------------
(* No element is less than its parent: "heap-nature".                      *)
HeapProperty == \A i \in 1 .. (Len(elems) - 1) : ~Less(H, tv, i, parent(i))

(* Each record knows where it is: the cookie that timerqueue_delete and    *)
(* timerqueue_increase use is right, however records have been moved, and  *)
(* no record is in the heap twice.                                         *)
CookiesAreRight == \A i \in DOMAIN elems : rc[elems[i]] = i - 1

(* Both together.                                                          *)
HeapIsSound == HeapProperty /\ CookiesAreRight

(* The heap implements the queue: nothing is lost or duplicated, and what  *)
(* timerqueue_getptr returns is the least.                                 *)
Queue == INSTANCE PrioQueue WITH queue <- InQueue
ImplementsPrioQueue == Queue!Spec
=============================================================================
