-------------------------- MODULE DatastructProofs --------------------------
(***************************************************************************)
(* Proofs about ElasticArray, for every SIZE_MAX and all record lengths,   *)
(* about Mpool, for every set of structures and every initial size, and    *)
(* about TimerQueue, for all records and times.                            *)
(*                                                                         *)
(* Everything about arrays rests on two facts about size_t: a product that *)
(* passes the test of the code does not wrap around, and the double of a   *)
(* size that does wrap around is less than that size.                      *)
(***************************************************************************)
EXTENDS MCDatastruct, WellFoundedInduction, TLAPS

(* Small numbers do not wrap around.                                       *)
LEMMA WrapSmall == \A x \in SizeT : Wrap(x) = x
<1>1. SIZE_MAX + 1 \in Nat \ {0} /\ SIZE_MAX \in Nat
    BY ArrayAssumption
<1>2. ASSUME NEW x \in Nat, NEW m \in Nat \ {0}, x < m PROVE x % m = x
    BY <1>2
<1>3. SUFFICES ASSUME NEW x \in SizeT PROVE x % (SIZE_MAX + 1) = x
    BY DEF Wrap
<1> QED
    BY <1>1, <1>2, <1>3 DEF SizeT

(* The double of a size is itself, or wraps around to something smaller.   *)
LEMMA WrapDouble ==
    \A a \in SizeT : Wrap(2 * a) = IF 2 * a <= SIZE_MAX THEN 2 * a ELSE 2 * a - (SIZE_MAX + 1)
<1>1. SIZE_MAX \in Nat
    BY ArrayAssumption
<1>2. ASSUME NEW x \in Nat, NEW m \in Nat \ {0}, m <= x, x < 2 * m PROVE x % m = x - m
    BY <1>2
<1>3. SUFFICES ASSUME NEW a \in SizeT PROVE
          Wrap(2 * a) = IF 2 * a <= SIZE_MAX THEN 2 * a ELSE 2 * a - (SIZE_MAX + 1)
    OBVIOUS
<1>4. CASE 2 * a <= SIZE_MAX
    BY <1>1, <1>3, <1>4, WrapSmall DEF SizeT
<1>5. CASE 2 * a > SIZE_MAX
    <2>1. /\ 2 * a \in Nat /\ SIZE_MAX + 1 \in Nat \ {0}
          /\ SIZE_MAX + 1 <= 2 * a /\ 2 * a < 2 * (SIZE_MAX + 1)
        BY <1>1, <1>3, <1>5 DEF SizeT
    <2>2. Wrap(2 * a) = 2 * a - (SIZE_MAX + 1)
        BY <2>1, <1>2 DEF Wrap
    <2> QED
        BY <1>1, <1>3, <1>5, <2>2 DEF SizeT
<1> QED
    BY <1>1, <1>3, <1>4, <1>5 DEF SizeT

(* A product that passes the test fits into size_t.                        *)
LEMMA FitsProduct ==
    ASSUME NEW nrec \in SizeT, NEW reclen \in RecLen, Fits(nrec, reclen)
    PROVE  nrec * reclen \in SizeT
<1>1. SIZE_MAX \in Nat /\ reclen \in Nat \ {0} /\ nrec \in Nat
    BY ArrayAssumption DEF SizeT
<1>2. (SIZE_MAX \div reclen) \in Nat /\ (SIZE_MAX \div reclen) * reclen <= SIZE_MAX
    BY <1>1
<1>3. nrec * reclen <= (SIZE_MAX \div reclen) * reclen
    BY <1>1, <1>2 DEF Fits
<1> QED
    BY <1>1, <1>2, <1>3 DEF SizeT

(* What resize allocates is a size, is enough, and is nothing only if      *)
(* nothing is asked for.                                                   *)
LEMMA NAllocEnough ==
    ASSUME NEW a \in SizeT, NEW n \in SizeT
    PROVE  /\ NAlloc(a, n) \in SizeT
           /\ NAlloc(a, n) >= n
           /\ NAlloc(a, n) = 0 => n = 0
           /\ NAlloc(a, n) \div 4 <= n
<1>1. SIZE_MAX \in Nat /\ a \in Nat /\ n \in Nat /\ a <= SIZE_MAX /\ n <= SIZE_MAX
    BY ArrayAssumption DEF SizeT
<1>2. CASE a < n
    <2>1. Wrap(2 * a) \in SizeT /\ Wrap(2 * a) <= 2 * a
        BY <1>1, WrapDouble DEF SizeT
    <2>2. NAlloc(a, n) = IF Wrap(2 * a) < n THEN n ELSE Wrap(2 * a)
        BY <1>2 DEF NAlloc
    <2>3. NAlloc(a, n) \in SizeT /\ NAlloc(a, n) >= n /\ NAlloc(a, n) <= 2 * n
        BY <1>1, <1>2, <2>1, <2>2 DEF SizeT
    <2> QED
        BY <1>1, <1>2, <2>3 DEF SizeT
<1>3. CASE a >= n /\ a \div 4 > n
    <2>1. 2 * n <= SIZE_MAX
        BY <1>1, <1>3
    <2>2. Wrap(2 * n) = 2 * n
        BY <1>1, <2>1, WrapSmall DEF SizeT
    <2>3. NAlloc(a, n) = 2 * n
        BY <1>1, <1>3, <2>2 DEF NAlloc
    <2> QED
        BY <1>1, <2>1, <2>3 DEF SizeT
<1>4. CASE a >= n /\ a \div 4 <= n
    <2>1. NAlloc(a, n) = a
        BY <1>1, <1>4 DEF NAlloc
    <2> QED
        BY <1>1, <1>4, <2>1 DEF SizeT
<1> QED
    BY <1>1, <1>2, <1>3, <1>4

-----------------------------------------------------------------------------
(* The inductive invariant.                                                *)
Inv == TypeOK /\ SizeIsExact /\ FitsInBuffer /\ NotMuchTooLarge

(* An array that was just initialized.                                     *)
LEMMA InitInv == Init => Inv
<1> SUFFICES ASSUME Init PROVE Inv
    OBVIOUS
<1>1. size = 0 /\ alloc = 0 /\ want = 0 /\ kept = FALSE /\ EA = "none"
    BY DEF Init
<1>2. 0 \in SizeT
    BY ArrayAssumption DEF SizeT
<1>3. TypeOK
    BY <1>1, <1>2, Zenon DEF TypeOK
<1> QED
    BY <1>1, <1>3 DEF Inv, SizeIsExact, FitsInBuffer, NotMuchTooLarge

(* A successful resize keeps it.                                           *)
LEMMA ResizeInv ==
    ASSUME Inv, NEW n \in SizeT, resize(n), want' = n, EA' \in {"none", "alive", "gone"}
    PROVE  Inv'
<1>1. alloc' = NAlloc(alloc, n) /\ size' = n /\ kept' = FALSE
    BY DEF resize
<1>2. alloc \in SizeT
    BY DEF Inv, TypeOK
<1>3. /\ alloc' \in SizeT /\ alloc' >= n /\ alloc' \div 4 <= n
    BY <1>1, <1>2, NAllocEnough
<1>4. n \in Nat
    BY DEF SizeT
<1>5. TypeOK'
    BY <1>1, <1>3, <1>4, Zenon DEF TypeOK
<1> QED
    BY <1>1, <1>3, <1>4, <1>5 DEF Inv, SizeIsExact, FitsInBuffer, NotMuchTooLarge, SizeT

(* What elasticarray_shrink keeps is what should remain.                   *)
LEMMA RemainsExact ==
    ASSUME Inv, NEW nrec \in SizeT, NEW reclen \in RecLen
    PROVE  /\ Remains(nrec, reclen) \in SizeT
           /\ Remains(nrec, reclen) <= size
           /\ Remains(nrec, reclen) = IF nrec * reclen > want THEN 0 ELSE want - nrec * reclen
<1>1. /\ SIZE_MAX \in Nat /\ reclen \in Nat \ {0} /\ nrec \in Nat
      /\ size \in Nat /\ size <= SIZE_MAX /\ want = size /\ nrec * reclen \in Nat
    BY ArrayAssumption DEF Inv, TypeOK, SizeIsExact, SizeT
<1>2. CASE Fits(nrec, reclen)
    <2>1. Wrap(nrec * reclen) = nrec * reclen
        BY <1>2, FitsProduct, WrapSmall
    <2>2. Remains(nrec, reclen) = IF nrec * reclen > size THEN 0 ELSE size - nrec * reclen
        BY <1>2, <2>1 DEF Remains
    <2> QED
        BY <1>1, <2>2 DEF SizeT
<1>3. CASE ~Fits(nrec, reclen)
    <2>1. Remains(nrec, reclen) = 0
        BY <1>3 DEF Remains
    <2>2. SIZE_MAX \div reclen \in Nat /\ nrec >= SIZE_MAX \div reclen + 1
        BY <1>1, <1>3 DEF Fits
    <2>3. nrec * reclen >= (SIZE_MAX \div reclen + 1) * reclen
        BY <1>1, <2>2
    <2>4. (SIZE_MAX \div reclen + 1) * reclen > SIZE_MAX
        BY <1>1
    <2>5. (SIZE_MAX \div reclen + 1) * reclen \in Nat
        BY <1>1, <2>2
    <2>6. nrec * reclen > want
        BY <1>1, <2>3, <2>4, <2>5
    <2> QED
        BY <1>1, <2>1, <2>6 DEF SizeT
<1> QED
    BY <1>2, <1>3

(* Arrays get shorter and keep what is left.                               *)
LEMMA ShrinkInv ==
    ASSUME Inv, NEW nrec \in SizeT, NEW reclen \in RecLen, elasticarray_shrink(nrec, reclen)
    PROVE  Inv'
<1> DEFINE n == Remains(nrec, reclen)
<1>1. n \in SizeT /\ n <= size /\ want' = n
    BY RemainsExact DEF elasticarray_shrink
<1>2. EA' \in {"none", "alive", "gone"}
    BY DEF elasticarray_shrink, Inv, TypeOK
<1>3. CASE resize(n)
    BY <1>1, <1>2, <1>3, ResizeInv
<1>4. CASE size' = n /\ kept' = TRUE /\ alloc' = alloc
    <2>1. alloc \in SizeT /\ size \in SizeT /\ size <= alloc /\ n \in Nat
        BY <1>1 DEF Inv, TypeOK, FitsInBuffer, SizeT
    <2>2. TypeOK'
        BY <1>1, <1>2, <1>4, <2>1 DEF TypeOK
    <2>3. FitsInBuffer'
        BY <1>1, <1>4, <2>1 DEF FitsInBuffer, SizeT
    <2> QED
        BY <1>1, <1>4, <2>2, <2>3 DEF Inv, SizeIsExact, NotMuchTooLarge
<1> QED
    BY <1>3, <1>4, Zenon DEF elasticarray_shrink

(* Arrays get longer.                                                      *)
LEMMA AppendInv ==
    ASSUME Inv, NEW nrec \in SizeT, NEW reclen \in RecLen, elasticarray_append(nrec, reclen)
    PROVE  Inv'
<1> DEFINE p == nrec * reclen
<1>1. p \in SizeT /\ Wrap(p) = p
    BY FitsProduct, WrapSmall DEF elasticarray_append
<1>2. p <= SIZE_MAX - size
    BY <1>1 DEF elasticarray_append
<1>3. SIZE_MAX \in Nat /\ size \in Nat /\ p \in Nat /\ want = size
    BY <1>1, ArrayAssumption DEF Inv, TypeOK, SizeIsExact, SizeT
<1>4. size + p \in SizeT
    BY <1>2, <1>3 DEF SizeT
<1>5. Wrap(size + Wrap(p)) = size + p
    BY <1>1, <1>4, WrapSmall
<1>6. resize(size + p) /\ want' = size + p /\ EA' \in {"none", "alive", "gone"}
    BY <1>3, <1>5 DEF elasticarray_append
<1> QED
    BY <1>4, <1>6, ResizeInv

(* Giving up the spare space, and the end of the array.                    *)
LEMMA TruncateInv ==
    ASSUME Inv, elasticarray_truncate \/ elasticarray_export \/ elasticarray_free
    PROVE  Inv'
<1>1. /\ size' = alloc' /\ kept' = FALSE /\ size' = want' /\ size' \in SizeT
      /\ EA' \in {"none", "alive", "gone"}
    BY ArrayAssumption DEF Inv, TypeOK, SizeIsExact, SizeT, elasticarray_truncate,
       elasticarray_export, elasticarray_free
<1>2. size' \in Nat
    BY <1>1, ArrayAssumption DEF SizeT
<1>3. TypeOK'
    BY <1>1, <1>2, Zenon DEF TypeOK
<1>4. \A n \in Nat : n <= n /\ n \div 4 <= n
    OBVIOUS
<1>5. FitsInBuffer' /\ NotMuchTooLarge'
  <2>1. size' <= size' /\ size' \div 4 <= size'
      BY <1>2, <1>4, Zenon
  <2>2. size' <= alloc' /\ alloc' \div 4 <= size'
      BY <1>1, <2>1
  <2> QED
      BY <2>2 DEF FitsInBuffer, NotMuchTooLarge
<1> QED
    BY <1>1, <1>3, <1>5 DEF Inv, SizeIsExact

(* Every step keeps the invariant.                                         *)
LEMMA StepInv == Inv /\ [Next]_vars => Inv'
<1> SUFFICES ASSUME Inv, [Next]_vars PROVE Inv'
    OBVIOUS
<1>1. ASSUME NEW nrec \in SizeT, NEW reclen \in RecLen,
             elasticarray_init(nrec, reclen) \/ elasticarray_resize(nrec, reclen)
      PROVE  Inv'
    <2>1. nrec * reclen \in SizeT /\ Wrap(nrec * reclen) = nrec * reclen
        BY <1>1, FitsProduct, WrapSmall DEF elasticarray_init, elasticarray_resize
    <2>2. /\ resize(nrec * reclen) /\ want' = nrec * reclen
          /\ EA' \in {"none", "alive", "gone"}
        BY <1>1, <2>1 DEF elasticarray_init, elasticarray_resize
    <2> QED
        BY <2>1, <2>2, ResizeInv
<1>2. CASE UNCHANGED vars
    BY <1>2 DEF vars, Inv, TypeOK, SizeIsExact, FitsInBuffer, NotMuchTooLarge
<1> QED
    BY <1>1, <1>2, AppendInv, ShrinkInv, TruncateInv DEF Next

(* For every SIZE_MAX and all record lengths: the array has the size that  *)
(* was asked for, in a buffer that holds it and is less than about four    *)
(* times too large, whatever wraps around and whenever realloc fails; and  *)
(* the next resize of elasticarray.c will allocate enough, and its         *)
(* assertion will hold.                                                    *)
THEOREM ArrayCorrect == Spec => []ArrayIsSound
<1>1. Inv => NextIsEnough
    BY NAllocEnough DEF Inv, TypeOK, NextIsEnough
<1>2. Inv => ArrayIsSound
    BY <1>1 DEF Inv, ArrayIsSound
<1> QED
    BY <1>2, InitInv, StepInv, PTL DEF Spec

-----------------------------------------------------------------------------
(* Mpool: a stack of spare structures.                                     *)

(* The inductive invariant: once the pool has anything to free at exit,    *)
(* the handler that frees it is registered.                                *)
PoolInv ==
    /\ stack \in Seq(Rec) /\ used \subseteq Rec
    /\ allocsize \in Nat /\ arrays \in Nat
    /\ state \in BOOLEAN /\ moved \in BOOLEAN /\ exited \in BOOLEAN
    /\ moved \/ used # {} \/ stack # <<>> => state
    /\ Pool!PoolIsSound

(* A pool that was not yet used.                                           *)
LEMMA PoolInit == Pool!Init => PoolInv
<1> SUFFICES ASSUME Pool!Init PROVE PoolInv
  OBVIOUS
<1> USE PoolAssumption DEF Pool!Init
<1>1. state \in BOOLEAN /\ moved \in BOOLEAN /\ exited \in BOOLEAN
  BY Zenon
<1>2. Pool!HandedOutOnce
  BY DEF Pool!HandedOutOnce
<1>3. Pool!NothingLost
  BY DEF Pool!NothingLost
<1>4. Pool!StackFits
  BY DEF Pool!StackFits
<1> QED
  BY <1>1, <1>2, <1>3, <1>4 DEF PoolInv, Pool!PoolIsSound

(* A structure that is put on the stack was in use, and nowhere else.      *)
LEMMA PushStep ==
  ASSUME PoolInv, NEW p \in used, used' = used \ {p}, stack' = Append(stack, p)
  PROVE  /\ stack' \in Seq(Rec) /\ Len(stack') = Len(stack) + 1
         /\ Pool!HandedOutOnce'
         /\ used' \cup {stack'[k] : k \in DOMAIN stack'} = used \cup {stack[k] : k \in DOMAIN stack}
<1>1. stack \in Seq(Rec) /\ p \in Rec /\ Pool!HandedOutOnce
  BY DEF PoolInv, Pool!PoolIsSound
<1>2. /\ stack' \in Seq(Rec) /\ Len(stack') = Len(stack) + 1
      /\ \A k \in 1 .. Len(stack) : stack'[k] = stack[k]
      /\ stack'[Len(stack) + 1] = p
  BY <1>1
<1>3. DOMAIN stack = 1 .. Len(stack) /\ DOMAIN stack' = 1 .. (Len(stack) + 1) /\ Len(stack) \in Nat
  BY <1>1, <1>2
<1>4. \A k \in DOMAIN stack' : k \in DOMAIN stack \/ k = Len(stack) + 1
  BY <1>3
<1>5. Pool!HandedOutOnce'
  <2>1. \A k \in DOMAIN stack : stack[k] # p
    BY <1>1 DEF Pool!HandedOutOnce
  <2>2. \A j, k \in DOMAIN stack' : stack'[j] = stack'[k] => j = k
    BY <1>1, <1>2, <1>3, <1>4, <2>1 DEF Pool!HandedOutOnce
  <2>3. \A k \in DOMAIN stack' : stack'[k] \notin used'
    BY <1>1, <1>2, <1>3, <1>4 DEF Pool!HandedOutOnce
  <2> QED BY <2>2, <2>3 DEF Pool!HandedOutOnce
<1>6. {stack'[k] : k \in DOMAIN stack'} = {stack[k] : k \in DOMAIN stack} \cup {p}
  BY <1>2, <1>3, <1>4
<1> QED BY <1>2, <1>5, <1>6

(* Every step keeps the invariant, whether malloc fails or not.            *)
LEMMA PoolStep == PoolInv /\ [Pool!Next]_(Pool!vars) => PoolInv'
<1> SUFFICES ASSUME PoolInv, [Pool!Next]_(Pool!vars) PROVE PoolInv'
  OBVIOUS
<1>1. stack \in Seq(Rec) /\ DOMAIN stack = 1 .. Len(stack) /\ Len(stack) \in Nat
  BY DEF PoolInv
<1>2. CASE Pool!mpool_malloc
  <2>1. CASE stack # <<>>
    <3> DEFINE n == Len(stack)
    <3>1. /\ used' = used \cup {stack[n]} /\ stack' = SubSeq(stack, 1, n - 1)
          /\ UNCHANGED <<nempties, state, heap, allocsize, moved, arrays, exited>> /\ ~exited
      BY <1>2, <2>1 DEF Pool!mpool_malloc, Pool!Top
    <3>2. n \in Nat /\ n >= 1 /\ n \in DOMAIN stack /\ stack[n] \in Rec
      BY <1>1, <2>1
    <3>3. /\ stack' \in Seq(Rec) /\ Len(stack') = n - 1 /\ DOMAIN stack' = 1 .. (n - 1)
          /\ \A k \in 1 .. (n - 1) : stack'[k] = stack[k]
      BY <1>1, <3>1, <3>2
    <3>4. Pool!HandedOutOnce'
      <4>1. \A j, k \in DOMAIN stack' : stack'[j] = stack'[k] => j = k
        BY <1>1, <3>2, <3>3 DEF PoolInv, Pool!PoolIsSound, Pool!HandedOutOnce
      <4>2. \A k \in DOMAIN stack' : stack'[k] \notin used'
        BY <1>1, <3>1, <3>2, <3>3 DEF PoolInv, Pool!PoolIsSound, Pool!HandedOutOnce
      <4> QED BY <4>1, <4>2 DEF Pool!HandedOutOnce
    <3>5. \A k \in DOMAIN stack : k \in DOMAIN stack' \/ k = n
      BY <1>1, <3>3
    <3>6. DOMAIN stack' \subseteq DOMAIN stack
      BY <1>1, <3>3
    <3>7. used' \cup {stack'[k] : k \in DOMAIN stack'} = used \cup {stack[k] : k \in DOMAIN stack}
      BY <3>1, <3>2, <3>3, <3>5, <3>6
    <3>8. Pool!NothingLost'
      BY <3>1, <3>7 DEF PoolInv, Pool!PoolIsSound, Pool!NothingLost
    <3>9. Pool!StackFits'
      BY <3>1, <3>2, <3>3, PoolAssumption DEF PoolInv, Pool!PoolIsSound, Pool!StackFits
    <3> QED BY <2>1, <3>1, <3>2, <3>3, <3>4, <3>8, <3>9 DEF PoolInv, Pool!PoolIsSound
  <2>2. CASE stack = <<>>
    <3>1. /\ state' = TRUE
          /\ \/ \E p \in Rec \ heap : heap' = heap \cup {p} /\ used' = used \cup {p}
             \/ UNCHANGED <<heap, used>>
          /\ UNCHANGED <<stack, allocsize, moved, arrays, exited>> /\ ~exited
      BY <1>2, <2>2 DEF Pool!mpool_malloc
    <3>2. Pool!HandedOutOnce'
      BY <2>2, <3>1 DEF Pool!HandedOutOnce
    <3>3. Pool!NothingLost'
      BY <2>2, <3>1 DEF PoolInv, Pool!PoolIsSound, Pool!NothingLost
    <3>4. Pool!StackFits'
      BY <3>1 DEF PoolInv, Pool!PoolIsSound, Pool!StackFits
    <3> QED BY <3>1, <3>2, <3>3, <3>4 DEF PoolInv, Pool!PoolIsSound
  <2> QED BY <2>1, <2>2
<1>3. ASSUME NEW p \in Rec, Pool!mpool_free(p) PROVE PoolInv'
  <2>1. p \in used /\ used' = used \ {p} /\ UNCHANGED <<state, exited>> /\ ~exited /\ state
    BY <1>3 DEF Pool!mpool_free, PoolInv
  <2>2. CASE Len(stack) < allocsize /\ stack' = Append(stack, p) /\ UNCHANGED <<allocsize, moved, arrays, heap>>
    <3>1. Pool!NothingLost'
      BY <2>1, <2>2, PushStep DEF PoolInv, Pool!PoolIsSound, Pool!NothingLost
    <3>2. Pool!StackFits'
      BY <1>1, <2>1, <2>2, PushStep, PoolAssumption DEF PoolInv, Pool!PoolIsSound, Pool!StackFits
    <3> QED BY <2>1, <2>2, <3>1, <3>2, PushStep DEF PoolInv, Pool!PoolIsSound
  <2>3. CASE Pool!grown /\ stack' = Append(stack, p) /\ UNCHANGED heap
    <3>1. Pool!NothingLost'
      <4>1. moved' /\ arrays' = 1
        BY <2>1, <2>3 DEF Pool!grown, PoolInv, Pool!PoolIsSound, Pool!NothingLost
      <4> QED BY <4>1, <2>1, <2>3, PushStep DEF PoolInv, Pool!PoolIsSound, Pool!NothingLost
    <3>2. Pool!StackFits' /\ allocsize' \in Nat
      BY <1>1, <2>1, <2>3, PushStep, PoolAssumption
         DEF Pool!grown, PoolInv, Pool!PoolIsSound, Pool!StackFits
    <3>3. arrays' \in Nat /\ moved' \in BOOLEAN
      BY <2>3 DEF Pool!grown, PoolInv
    <3> QED BY <2>1, <2>3, <3>1, <3>2, <3>3, PushStep DEF PoolInv, Pool!PoolIsSound
  <2>4. CASE heap' = heap \ {p} /\ UNCHANGED <<stack, allocsize, moved, arrays>>
    <3>1. Pool!HandedOutOnce'
      BY <2>1, <2>4 DEF PoolInv, Pool!PoolIsSound, Pool!HandedOutOnce
    <3>2. Pool!NothingLost'
      BY <2>1, <2>4 DEF PoolInv, Pool!PoolIsSound, Pool!NothingLost, Pool!HandedOutOnce
    <3> QED BY <2>1, <2>4, <3>1, <3>2 DEF PoolInv, Pool!PoolIsSound, Pool!StackFits
  <2> QED BY <1>3, <2>2, <2>3, <2>4 DEF Pool!mpool_free
<1>4. CASE Pool!mpool_atexit
  <2>1. exited' = TRUE /\ ~exited /\ UNCHANGED <<allocsize, state, moved, used>>
    BY <1>4 DEF Pool!mpool_atexit
  <2>2. CASE state
    <3>1. /\ heap' = heap \ {stack[k] : k \in DOMAIN stack}
          /\ stack' = <<>> /\ arrays' = IF moved THEN arrays - 1 ELSE arrays
      BY <1>4, <2>2 DEF Pool!mpool_atexit
    <3>2. Pool!HandedOutOnce' /\ stack' \in Seq(Rec)
      BY <3>1 DEF Pool!HandedOutOnce
    <3>3. Pool!NothingLost' /\ arrays' \in Nat
      BY <2>1, <3>1 DEF PoolInv, Pool!PoolIsSound, Pool!NothingLost, Pool!HandedOutOnce
    <3>4. Pool!StackFits'
      BY <2>1, <3>1 DEF PoolInv, Pool!PoolIsSound, Pool!StackFits
    <3> QED BY <2>1, <2>2, <3>1, <3>2, <3>3, <3>4 DEF PoolInv, Pool!PoolIsSound
  <2>3. CASE ~state
    <3>1. UNCHANGED <<heap, stack, arrays>> /\ stack = <<>> /\ used = {}
      BY <1>4, <2>3 DEF Pool!mpool_atexit, PoolInv
    <3>2. Pool!NothingLost /\ ~moved
      BY <2>3 DEF PoolInv, Pool!PoolIsSound
    <3>3. Pool!NothingLost'
      BY <2>1, <3>1, <3>2 DEF Pool!NothingLost
    <3>4. Pool!HandedOutOnce' /\ Pool!StackFits'
      BY <2>1, <3>1 DEF PoolInv, Pool!PoolIsSound, Pool!StackFits, Pool!HandedOutOnce
    <3> QED BY <2>1, <2>3, <3>1, <3>2, <3>3, <3>4 DEF PoolInv, Pool!PoolIsSound
  <2> QED BY <2>2, <2>3
<1>5. CASE UNCHANGED Pool!vars
  BY <1>5 DEF Pool!vars, PoolInv, Pool!PoolIsSound, Pool!HandedOutOnce, Pool!NothingLost,
     Pool!StackFits
<1> QED
  BY <1>2, <1>3, <1>4, <1>5 DEF Pool!Next

(* For every set of structures and every initial size: mpool_malloc hands  *)
(* a structure to one user at a time, mpool_free loses none, and nothing   *)
(* is left at exit but what was not returned.                              *)
THEOREM PoolCorrect == Pool!Spec => []PoolIsSound
<1>1. PoolInv => PoolIsSound
  BY DEF PoolInv, PoolIsSound
<1> QED
  BY <1>1, PoolInit, PoolStep, PTL DEF Pool!Spec

-----------------------------------------------------------------------------
(* TimerQueue: the heap of ptrheap.c, for all records and times.  The      *)
(* order is an invariant with one exception that moves with the loops.     *)

(* A heap: an array of records, and the cookie of each record.             *)
HeapRec == [elems : Seq(Rec), rc : [Rec -> Int]]

(* Of the first M elements no two are the same record,                     *)
Apart(h, M) == \A j, k \in 0 .. M - 1 : At(h, j) = At(h, k) => j = k

(* each has the cookie of its position,                                    *)
Cookies(h, M) == \A j \in 0 .. M - 1 : h.rc[At(h, j)] = j

(* and these are the records.                                              *)
Members(h, M) == {At(h, j) : j \in 0 .. M - 1}

(* The first M elements are the records S, each once; if told, their       *)
(* cookies are right.                                                      *)
Good(h, M, S, told) ==
    /\ h \in HeapRec /\ M \in Nat /\ M <= Len(h.elems)
    /\ Apart(h, M)
    /\ Members(h, M) = S
    /\ told => Cookies(h, M)

(* The element at j is not before its parent.                              *)
Edge(h, t, j) == t[At(h, parent(j))] <= t[At(h, j)]

(* Neither is any element whose parent is at L or after it.                *)
Ordered(h, t, L, M) == \A j \in 1 .. M - 1 : parent(j) >= L => Edge(h, t, j)

(* The order may only be wrong between i and its children, which are not   *)
(* before the parent of i: heapify mends that.                             *)
Sinks(h, t, i, L, M) ==
    /\ i \in 0 .. M - 1 /\ L <= i
    /\ \A j \in 1 .. M - 1 : parent(j) >= L /\ parent(j) # i => Edge(h, t, j)
    /\ i # 0 /\ parent(i) >= L =>
          \A j \in 1 .. M - 1 : parent(j) = i => t[At(h, parent(i))] <= t[At(h, j)]

(* heapify looks at N elements: the M of the heap, or, while               *)
(* ptrheap_delete moves the last element, also at its old place, where the *)
(* element that moves is not before itself.                                *)
Moving(h, i, M, N) ==
    N = M \/ (N = M + 1 /\ N <= Len(h.elems) /\ At(h, M) = At(h, i))

(* The order may only be wrong between i and its parent: heapifyup mends   *)
(* that.                                                                   *)
Rises(h, t, i, M) ==
    /\ i \in 0 .. M - 1
    /\ \A j \in 1 .. M - 1 : j # i => Edge(h, t, j)
    /\ i # 0 => \A j \in 1 .. M - 1 : parent(j) = i => t[At(h, parent(i))] <= t[At(h, j)]

(* The parent of a position.                                               *)
LEMMA ParentIs ==
  ASSUME NEW i \in Nat \ {0}
  PROVE  /\ parent(i) \in Nat /\ parent(i) < i
         /\ i = 2 * parent(i) + 1 \/ i = 2 * parent(i) + 2
BY DEF parent

(* The two children of a position.                                         *)
LEMMA ChildrenAre ==
  ASSUME NEW i \in Nat
  PROVE  parent(2 * i + 1) = i /\ parent(2 * i + 2) = i
<1>1. 2 * i + 1 \in Nat \ {0} /\ 2 * i + 2 \in Nat \ {0}
  OBVIOUS
<1> DEFINE p == parent(2 * i + 1)
           q == parent(2 * i + 2)
<1>2. p \in Nat /\ (2 * i + 1 = 2 * p + 1 \/ 2 * i + 1 = 2 * p + 2)
  BY <1>1, ParentIs
<1>3. q \in Nat /\ (2 * i + 2 = 2 * q + 1 \/ 2 * i + 2 = 2 * q + 2)
  BY <1>1, ParentIs
<1> HIDE DEF p, q
<1>4. p = i /\ q = i
  BY <1>2, <1>3
<1> QED BY <1>4 DEF p, q

(* What an element is.                                                     *)
LEMMA AtIn ==
  ASSUME NEW h \in HeapRec, NEW j \in 0 .. Len(h.elems) - 1
  PROVE  At(h, j) \in Rec
BY DEF HeapRec, At

(* swap exchanges two elements and tells both.                             *)
LEMMA SwapIs ==
  ASSUME NEW h \in HeapRec, NEW i \in 0 .. Len(h.elems) - 1, NEW j \in 0 .. Len(h.elems) - 1,
         i # j
  PROVE  LET g == swap(h, i, j)
         IN  /\ g \in HeapRec /\ Len(g.elems) = Len(h.elems)
             /\ At(g, i) = At(h, j) /\ At(g, j) = At(h, i)
             /\ \A k \in 0 .. Len(h.elems) - 1 : k # i /\ k # j => At(g, k) = At(h, k)
             /\ g.rc[At(h, i)] = j
             /\ At(h, i) # At(h, j) => g.rc[At(h, j)] = i
             /\ \A r \in Rec : r # At(h, i) /\ r # At(h, j) => g.rc[r] = h.rc[r]
<1> DEFINE n == Len(h.elems)
           x == At(h, i)
           y == At(h, j)
           e == [h.elems EXCEPT ![i + 1] = y, ![j + 1] = x]
           g == swap(h, i, j)
<1>1. h.elems \in Seq(Rec) /\ h.rc \in [Rec -> Int] /\ n \in Nat
  BY DEF HeapRec
<1>2. x \in Rec /\ y \in Rec
  BY AtIn
<1>3. x = h.elems[i + 1] /\ y = h.elems[j + 1] /\ i + 1 \in 1 .. n /\ j + 1 \in 1 .. n /\ i + 1 # j + 1
  BY DEF At
<1> HIDE DEF x, y
<1>4. /\ e \in Seq(Rec) /\ Len(e) = n /\ e[i + 1] = y /\ e[j + 1] = x
      /\ \A k \in 1 .. n : k # i + 1 /\ k # j + 1 => e[k] = h.elems[k]
  <2> DEFINE a == i + 1
             b == j + 1
             f == h.elems
  <2>1. f \in Seq(Rec) /\ a \in 1 .. Len(f) /\ b \in 1 .. Len(f) /\ a # b /\ Len(f) = n
    BY <1>1, <1>3
  <2> DEFINE d == [f EXCEPT ![a] = y]
  <2>2. e = [d EXCEPT ![b] = x]
    OBVIOUS
  <2> HIDE DEF a, b, f, n, e
  <2>3. /\ d \in Seq(Rec) /\ Len(d) = Len(f) /\ d[a] = y
        /\ \A k \in 1 .. Len(f) : k # a => d[k] = f[k]
    BY <1>2, <2>1
  <2> HIDE DEF d
  <2>4. /\ e \in Seq(Rec) /\ Len(e) = Len(f) /\ e[a] = y /\ e[b] = x
        /\ \A k \in 1 .. Len(f) : k # a /\ k # b => e[k] = f[k]
    BY <1>2, <2>1, <2>2, <2>3
  <2> QED BY <2>1, <2>4, Zenon DEF a, b, f
<1>5. g = [elems |-> e, rc |-> [[h.rc EXCEPT ![e[i + 1]] = i] EXCEPT ![e[j + 1]] = j]]
  BY DEF swap, setreccookie, Heap, At, x, y
<1>6. g = [elems |-> e, rc |-> [[h.rc EXCEPT ![y] = i] EXCEPT ![x] = j]]
  BY <1>4, <1>5, Zenon
<1> HIDE DEF e, g
<1>7. g.elems = e /\ g.rc = [[h.rc EXCEPT ![y] = i] EXCEPT ![x] = j]
  BY <1>6
<1>8. g \in HeapRec
  BY <1>1, <1>2, <1>4, <1>6 DEF HeapRec
<1>9. At(g, i) = y /\ At(g, j) = x
  BY <1>4, <1>7 DEF At
<1>10. ASSUME NEW k \in 0 .. n - 1, k # i, k # j PROVE At(g, k) = At(h, k)
  BY <1>4, <1>7, <1>10 DEF At
<1>11. /\ g.rc[x] = j
       /\ x # y => g.rc[y] = i
       /\ \A r \in Rec : r # x /\ r # y => g.rc[r] = h.rc[r]
  BY <1>1, <1>2, <1>7
<1> QED BY <1>4, <1>7, <1>8, <1>9, <1>10, <1>11, Zenon DEF g, x, y

(* It loses no record, and the cookies stay right.                         *)
LEMMA SwapGood ==
  ASSUME NEW h, NEW M, NEW S, NEW told \in BOOLEAN, Good(h, M, S, told),
         NEW i \in 0 .. M - 1, NEW j \in 0 .. M - 1, i # j
  PROVE  Good(swap(h, i, j), M, S, told)
<1> DEFINE g == swap(h, i, j)
           n == Len(h.elems)
<1>1. h \in HeapRec /\ M \in Nat /\ M <= n /\ n \in Nat /\ Apart(h, M) /\ Members(h, M) = S
  BY DEF Good, HeapRec
<1>2. i \in 0 .. n - 1 /\ j \in 0 .. n - 1
  BY <1>1
<1>3. /\ g \in HeapRec /\ Len(g.elems) = n
      /\ At(g, i) = At(h, j) /\ At(g, j) = At(h, i)
      /\ \A k \in 0 .. n - 1 : k # i /\ k # j => At(g, k) = At(h, k)
      /\ g.rc[At(h, i)] = j
      /\ At(h, i) # At(h, j) => g.rc[At(h, j)] = i
      /\ \A r \in Rec : r # At(h, i) /\ r # At(h, j) => g.rc[r] = h.rc[r]
  BY <1>1, <1>2, SwapIs
<1> HIDE DEF g
<1>4. \A k \in 0 .. M - 1 : k \in 0 .. n - 1 /\ At(h, k) \in Rec
  BY <1>1, AtIn
<1>5. At(h, i) # At(h, j)
  BY <1>1 DEF Apart
<1>6. Apart(g, M)
  BY <1>1, <1>3, <1>4 DEF Apart
<1>7. Members(g, M) = Members(h, M)
  BY <1>3, <1>4 DEF Members
<1>8. ASSUME told PROVE Cookies(g, M)
  <2>1. Cookies(h, M)
    BY <1>8 DEF Good
  <2>2. ASSUME NEW k \in 0 .. M - 1 PROVE g.rc[At(g, k)] = k
    <3>1. CASE k = i
      BY <1>3, <1>5, <3>1
    <3>2. CASE k = j
      BY <1>3, <3>2
    <3>3. CASE k # i /\ k # j
      <4>1. At(h, k) # At(h, i) /\ At(h, k) # At(h, j)
        BY <1>1, <3>3 DEF Apart
      <4> QED BY <1>3, <1>4, <2>1, <3>3, <4>1 DEF Cookies
    <3> QED BY <3>1, <3>2, <3>3
  <2> QED BY <2>2 DEF Cookies
<1>9. Good(g, M, S, told)
  BY <1>1, <1>3, <1>6, <1>7, <1>8 DEF Good
<1> QED BY <1>9 DEF g

(* Times that are compared are integers.                                   *)
LEMMA EdgeNumbers ==
  ASSUME NEW h, NEW M, NEW S, NEW told, Good(h, M, S, told), NEW t \in [Rec -> Int]
  PROVE  /\ M \in Nat /\ M <= Len(h.elems) /\ Len(h.elems) \in Nat
         /\ \A j \in 0 .. Len(h.elems) - 1 : At(h, j) \in Rec /\ t[At(h, j)] \in Int
<1>1. h \in HeapRec /\ M \in Nat /\ M <= Len(h.elems)
  BY DEF Good
<1>2. Len(h.elems) \in Nat
  BY <1>1 DEF HeapRec
<1>3. \A j \in 0 .. Len(h.elems) - 1 : At(h, j) \in Rec
  BY <1>1, AtIn
<1> QED BY <1>1, <1>2, <1>3

(* If min of heapify is i there is nothing to mend at i; else min is a     *)
(* child of i, and not after its sibling.                                  *)
LEMMA LeastIs ==
  ASSUME NEW h, NEW M, NEW S, NEW told, Good(h, M, S, told), NEW t \in [Rec -> Int],
         NEW i \in 0 .. M - 1, NEW N, Moving(h, i, M, N)
  PROVE  LET m == least(h, t, i, N)
         IN  /\ m = i => \A j \in 1 .. M - 1 : parent(j) = i => Edge(h, t, j)
             /\ m # i => /\ m \in 1 .. M - 1 /\ parent(m) = i
                         /\ t[At(h, m)] < t[At(h, i)]
                         /\ \A j \in 1 .. M - 1 : parent(j) = i => t[At(h, m)] <= t[At(h, j)]
<1> DEFINE n == Len(h.elems)
           v(k) == t[At(h, k)]
           a == 2 * i + 1
           b == 2 * i + 2
           f == IF a < N /\ v(a) < v(i) THEN a ELSE i
           m == IF b < N /\ v(b) < v(f) THEN b ELSE f
<1>1. M \in Nat /\ M <= n /\ n \in Nat /\ \A j \in 0 .. n - 1 : v(j) \in Int
  BY EdgeNumbers
<1>2. m = least(h, t, i, N)
  BY DEF least, Less
<1>3. i \in Nat /\ a \in Nat /\ b \in Nat /\ parent(a) = i /\ parent(b) = i
  BY <1>1, ChildrenAre
<1>4. N \in Nat /\ M <= N /\ N <= n /\ (N # M => N = M + 1 /\ v(M) = v(i))
  BY <1>1 DEF Moving
<1>5. ASSUME NEW j \in 1 .. M - 1, parent(j) = i PROVE j = a \/ j = b
  BY <1>1, <1>5, ParentIs
<1>6. (a < N => v(a) \in Int) /\ (b < N => v(b) \in Int) /\ v(i) \in Int
  BY <1>1, <1>3, <1>4
<1>7. a > i /\ b > i /\ a # b
  BY <1>3
<1> HIDE DEF v, a, b
<1>8. a < N /\ v(a) < v(i) => a < M
  BY <1>1, <1>3, <1>4, <1>6
<1>9. b < N /\ v(b) < v(i) => b < M
  BY <1>1, <1>3, <1>4, <1>6
<1>10. (m = i \/ m = a \/ m = b) /\ v(f) \in Int /\ v(f) <= v(i)
  BY <1>3, <1>6
<1>11. m # i => v(m) < v(i) /\ m < M /\ m \in 1 .. M - 1 /\ parent(m) = i
  <2>1. CASE b < N /\ v(b) < v(f)
    BY <1>1, <1>3, <1>6, <1>9, <1>10, <1>7, <2>1
  <2>2. CASE ~(b < N /\ v(b) < v(f)) /\ a < N /\ v(a) < v(i)
    BY <1>1, <1>3, <1>6, <1>8, <1>10, <1>7, <2>2
  <2>3. CASE ~(b < N /\ v(b) < v(f)) /\ ~(a < N /\ v(a) < v(i))
    BY <2>3
  <2> QED BY <2>1, <2>2, <2>3
<1>12. (a < M => v(m) <= v(a)) /\ (b < M => v(m) <= v(b))
  <2>1. (a < M => a < N) /\ (b < M => b < N)
    BY <1>1, <1>3, <1>4
  <2>2. CASE b < N /\ v(b) < v(f)
    BY <1>6, <1>10, <2>1, <2>2
  <2>3. CASE ~(b < N /\ v(b) < v(f))
    BY <1>6, <1>10, <2>1, <2>3
  <2> QED BY <2>2, <2>3
<1> HIDE DEF m, f
<1>13. ASSUME NEW j \in 1 .. M - 1, parent(j) = i PROVE v(m) <= v(j)
  BY <1>1, <1>5, <1>12, <1>13
<1>14. m = i => \A j \in 1 .. M - 1 : parent(j) = i => Edge(h, t, j)
  BY <1>13 DEF Edge, v
<1> QED BY <1>2, <1>11, <1>13, <1>14 DEF v

(* A turn of the loop of heapify moves what is wrong down by a level.      *)
LEMMA DownStep ==
  ASSUME NEW h, NEW M, NEW S, NEW told \in BOOLEAN, Good(h, M, S, told), NEW t \in [Rec -> Int],
         NEW i, NEW L \in Nat, Sinks(h, t, i, L, M), NEW N, Moving(h, i, M, N),
         NEW m, m = least(h, t, i, N), m # i
  PROVE  LET g == swap(h, m, i)
         IN  /\ Good(g, M, S, told) /\ Len(g.elems) = Len(h.elems)
             /\ Sinks(g, t, m, L, M) /\ Moving(g, m, M, N) /\ m > i
<1> DEFINE n == Len(h.elems)
           g == swap(h, m, i)
<1>1. /\ M \in Nat /\ M <= n /\ n \in Nat /\ h \in HeapRec
      /\ \A j \in 0 .. n - 1 : At(h, j) \in Rec /\ t[At(h, j)] \in Int
  BY EdgeNumbers DEF Good
<1>2. i \in 0 .. M - 1 /\ L <= i
  BY DEF Sinks
<1>3. /\ m \in 1 .. M - 1 /\ parent(m) = i /\ t[At(h, m)] < t[At(h, i)]
      /\ \A j \in 1 .. M - 1 : parent(j) = i => t[At(h, m)] <= t[At(h, j)]
  BY <1>2, LeastIs
<1>4. m > i
  BY <1>1, <1>3, ParentIs
<1>5. Good(g, M, S, told)
  BY <1>2, <1>3, SwapGood
<1>6. m \in 0 .. n - 1 /\ i \in 0 .. n - 1
  BY <1>1, <1>2, <1>3
<1>7. /\ Len(g.elems) = n
      /\ At(g, m) = At(h, i) /\ At(g, i) = At(h, m)
      /\ \A k \in 0 .. n - 1 : k # i /\ k # m => At(g, k) = At(h, k)
  BY <1>1, <1>6, SwapIs
<1> HIDE DEF g
<1>8. ASSUME NEW j \in 1 .. M - 1, parent(j) >= L, parent(j) # m PROVE Edge(g, t, j)
  <2>1. parent(j) \in Nat /\ parent(j) < j /\ parent(j) \in 0 .. n - 1 /\ j \in 0 .. n - 1
    BY <1>1, ParentIs
  <2>2. CASE j = m
    BY <1>1, <1>3, <1>7, <2>1, <2>2 DEF Edge
  <2>3. CASE parent(j) = i /\ j # m
    BY <1>2, <1>3, <1>7, <2>1, <2>3 DEF Edge
  <2>4. CASE j = i
    <3>1. t[At(h, parent(i))] <= t[At(h, m)]
      BY <1>3, <1>8, <2>1, <2>4 DEF Sinks
    <3> QED BY <1>4, <1>7, <2>1, <2>4, <3>1 DEF Edge
  <2>5. CASE parent(j) # i /\ j # m /\ j # i
    <3>1. Edge(h, t, j)
      BY <1>8, <2>5 DEF Sinks
    <3> QED BY <1>7, <1>8, <2>1, <2>5, <3>1 DEF Edge
  <2> QED BY <2>2, <2>3, <2>4, <2>5
<1>9. ASSUME NEW j \in 1 .. M - 1, parent(j) = m PROVE t[At(g, parent(m))] <= t[At(g, j)]
  <2>1. m < j /\ j \in 0 .. n - 1
    BY <1>1, <1>9, ParentIs
  <2>2. Edge(h, t, j)
    BY <1>2, <1>3, <1>4, <1>9 DEF Sinks
  <2> QED BY <1>2, <1>3, <1>4, <1>7, <1>9, <2>1, <2>2 DEF Edge
<1>10. Sinks(g, t, m, L, M)
  BY <1>2, <1>3, <1>4, <1>8, <1>9 DEF Sinks
<1>11. Moving(g, m, M, N)
  BY <1>1, <1>2, <1>3, <1>7 DEF Moving
<1> QED BY <1>4, <1>5, <1>7, <1>10, <1>11 DEF g

(* Where heapify stops nothing is wrong.                                   *)
LEMMA DownStops ==
  ASSUME NEW h, NEW M, NEW S, NEW told \in BOOLEAN, Good(h, M, S, told), NEW t \in [Rec -> Int],
         NEW i, NEW L \in Nat, Sinks(h, t, i, L, M), NEW N, Moving(h, i, M, N),
         least(h, t, i, N) = i
  PROVE  Ordered(h, t, L, M)
<1>1. i \in 0 .. M - 1
  BY DEF Sinks
<1>2. \A j \in 1 .. M - 1 : parent(j) = i => Edge(h, t, j)
  BY <1>1, LeastIs
<1> QED BY <1>2 DEF Ordered, Sinks

(* A turn of the loop of heapifyup moves what is wrong up by a level.      *)
LEMMA UpStep ==
  ASSUME NEW h, NEW M, NEW S, NEW told \in BOOLEAN, Good(h, M, S, told), NEW t \in [Rec -> Int],
         NEW i, Rises(h, t, i, M), i # 0, Less(h, t, i, parent(i))
  PROVE  LET g == swap(h, i, parent(i))
         IN  /\ Good(g, M, S, told) /\ Len(g.elems) = Len(h.elems)
             /\ Rises(g, t, parent(i), M) /\ parent(i) < i
<1> DEFINE n == Len(h.elems)
           p == parent(i)
           g == swap(h, i, p)
<1>1. /\ M \in Nat /\ M <= n /\ n \in Nat /\ h \in HeapRec
      /\ \A j \in 0 .. n - 1 : At(h, j) \in Rec /\ t[At(h, j)] \in Int
  BY EdgeNumbers DEF Good
<1>2. i \in 1 .. M - 1 /\ i \in 0 .. M - 1
  BY DEF Rises
<1>3. p \in 0 .. M - 1 /\ p < i /\ p \in Nat
  BY <1>1, <1>2, ParentIs
<1>4. t[At(h, i)] < t[At(h, p)]
  BY DEF Less
<1>5. Good(g, M, S, told)
  BY <1>2, <1>3, SwapGood
<1>6. /\ Len(g.elems) = n
      /\ At(g, i) = At(h, p) /\ At(g, p) = At(h, i)
      /\ \A k \in 0 .. n - 1 : k # i /\ k # p => At(g, k) = At(h, k)
  BY <1>1, <1>2, <1>3, SwapIs, SMTT(30)
<1> HIDE DEF g
<1>7. \A j \in 1 .. M - 1 : /\ parent(j) \in Nat /\ parent(j) < j
                            /\ parent(j) \in 0 .. n - 1 /\ j \in 0 .. n - 1
  BY <1>1, ParentIs
<1>8. ASSUME NEW j \in 1 .. M - 1, j # p PROVE Edge(g, t, j)
  <2>1. CASE j = i
    BY <1>1, <1>4, <1>6, <1>7, <2>1 DEF Edge
  <2>2. CASE parent(j) = p /\ j # i
    <3>1. t[At(h, p)] <= t[At(h, j)]
      BY <2>2 DEF Rises, Edge
    <3>2. t[At(h, i)] <= t[At(h, j)]
      <4>1. t[At(h, p)] \in Int /\ t[At(h, i)] \in Int /\ t[At(h, j)] \in Int
        BY <1>1, <1>2, <1>3, <1>7
      <4> QED BY <1>4, <3>1, <4>1
    <3> QED BY <1>6, <1>7, <1>8, <2>2, <3>2 DEF Edge
  <2>3. CASE parent(j) = i
    <3>1. t[At(h, p)] <= t[At(h, j)]
      BY <1>2, <2>3 DEF Rises
    <3> QED BY <1>6, <1>7, <1>8, <2>3, <3>1 DEF Edge
  <2>4. CASE parent(j) # i /\ parent(j) # p /\ j # i
    <3>1. Edge(h, t, j)
      BY <2>4 DEF Rises
    <3> QED BY <1>6, <1>7, <1>8, <2>4, <3>1 DEF Edge
  <2> QED BY <2>1, <2>2, <2>3, <2>4
<1>9. ASSUME p # 0, NEW j \in 1 .. M - 1, parent(j) = p PROVE t[At(g, parent(p))] <= t[At(g, j)]
  <2>1. p \in 1 .. M - 1 /\ p # i
    BY <1>3, <1>9
  <2>2. parent(p) \in 0 .. n - 1 /\ parent(p) # p /\ parent(p) # i
    BY <1>3, <1>7, <2>1
  <2>3. t[At(h, parent(p))] <= t[At(h, p)]
    BY <2>1 DEF Rises, Edge
  <2>4. CASE j = i
    BY <1>6, <2>2, <2>3, <2>4
  <2>5. CASE j # i
    <3>1. t[At(h, p)] <= t[At(h, j)]
      BY <1>9, <2>5 DEF Rises, Edge
    <3>2. t[At(h, parent(p))] <= t[At(h, j)]
      <4>1. t[At(h, p)] \in Int /\ t[At(h, parent(p))] \in Int /\ t[At(h, j)] \in Int
        BY <1>1, <1>3, <1>7, <2>2
      <4> QED BY <2>3, <3>1, <4>1
    <3>3. j # p
      BY <1>7, <1>9
    <3> QED BY <1>6, <1>7, <2>2, <2>5, <3>2, <3>3
  <2> QED BY <2>4, <2>5
<1>10. Rises(g, t, p, M)
  BY <1>3, <1>8, <1>9 DEF Rises
<1> QED BY <1>3, <1>5, <1>6, <1>10 DEF g

(* Where heapifyup stops nothing is wrong.                                 *)
LEMMA UpStops ==
  ASSUME NEW h, NEW M, NEW S, NEW told \in BOOLEAN, Good(h, M, S, told), NEW t \in [Rec -> Int],
         NEW i, Rises(h, t, i, M), i = 0 \/ ~Less(h, t, i, parent(i))
  PROVE  Ordered(h, t, 0, M)
<1>1. /\ M \in Nat /\ M <= Len(h.elems) /\ Len(h.elems) \in Nat
      /\ \A j \in 0 .. Len(h.elems) - 1 : t[At(h, j)] \in Int
  BY EdgeNumbers
<1>2. i \in 0 .. M - 1
  BY DEF Rises
<1>3. ASSUME i # 0 PROVE Edge(h, t, i)
  <2>1. i \in 1 .. M - 1 /\ parent(i) \in Nat /\ parent(i) < i
    BY <1>1, <1>2, <1>3, ParentIs
  <2>2. t[At(h, i)] \in Int /\ t[At(h, parent(i))] \in Int
    BY <1>1, <2>1
  <2> QED BY <1>3, <2>2 DEF Less, Edge
<1>4. ASSUME NEW j \in 1 .. M - 1 PROVE Edge(h, t, j)
  <2>1. CASE j = i
    BY <1>3, <2>1
  <2>2. CASE j # i
    BY <2>2 DEF Rises
  <2> QED BY <2>1, <2>2
<1> QED BY <1>4 DEF Ordered

(* Induction over the naturals, with a set for the property.               *)
LEMMA SetInduction ==
  ASSUME NEW S, 0 \in S, \A n \in Nat : n \in S => n + 1 \in S
  PROVE  \A n \in Nat : n \in S
<1> DEFINE T == {n \in Nat : n \notin S}
<1>1. SUFFICES ASSUME T # {} PROVE FALSE
  OBVIOUS
<1>2. IsWellFoundedOn(OpToRel(<, Nat), Nat)
  BY NatLessThanWellFounded, Zenon
<1>3. T \subseteq Nat
  OBVIOUS
<1> HIDE DEF T
<1>4. PICK x \in T : \A y \in T : ~(<<y, x>> \in OpToRel(<, Nat))
  BY <1>1, <1>2, <1>3, WFMin, Zenon
<1>5. \A y \in T : ~(y < x)
  BY <1>3, <1>4, Zenon DEF OpToRel
<1> USE DEF T
<1>6. x \in Nat /\ x \notin S /\ x # 0
  OBVIOUS
<1>7. x - 1 \in Nat /\ x - 1 < x
  BY <1>6
<1>8. x - 1 \in S
  BY <1>5, <1>7
<1> QED BY <1>6, <1>7, <1>8

(* The loops of ptrheap.c and timerqueue.c: if every turn leads from G[k - *)
(* 1] to G[k], all turns lead to the last of them.  heapifyup:             *)
LEMMA UpLoop ==
  ASSUME NEW h, NEW t, NEW i \in Nat, NEW G,
         [h |-> h, i |-> i] \in G[0], \A k \in 1 .. i : \A s \in G[k - 1] : Up(t, s) \in G[k]
  PROVE  \E s \in G[i] : heapifyup(h, t, i) = s.h
<1> DEFINE start == [h |-> h, i |-> i]
           step(X, k) == {Up(t, s) : s \in X}
           Eq(f, m) == f = [k \in 0 .. m |-> IF k = 0 THEN {start} ELSE step(f[k - 1], k)]
           A == CHOOSE f : Eq(f, i)
<1>1. \E f : Eq(f, i)
  <2> DEFINE E == {m \in Nat : \E f : Eq(f, m)}
  <2> HIDE DEF step, start
  <2>1. 0 \in E
    <3>1. Eq([k \in 0 .. 0 |-> {start}], 0)
      OBVIOUS
    <3> QED BY <3>1, Zenon
  <2>2. ASSUME NEW m \in Nat, m \in E PROVE m + 1 \in E
    <3>1. PICK f : Eq(f, m)
      BY <2>2
    <3> DEFINE g == [k \in 0 .. m + 1 |-> IF k = m + 1 THEN step(f[m], m + 1) ELSE f[k]]
    <3>2. ASSUME NEW k \in 0 .. m + 1
          PROVE  g[k] = IF k = 0 THEN {start} ELSE step(g[k - 1], k)
      <4>1. CASE k = 0
        BY <3>1, <4>1
      <4>2. CASE k \in 1 .. m
        <5>1. k \in 0 .. m /\ k # 0 /\ k - 1 \in 0 .. m + 1
          BY <4>2
        <5>2. f[k] = step(f[k - 1], k)
          BY <3>1, <5>1, Zenon
        <5>3. g[k] = f[k] /\ g[k - 1] = f[k - 1]
          BY <4>2, <5>1
        <5> QED BY <5>1, <5>2, <5>3
      <4>3. CASE k = m + 1
        BY <3>1, <4>3
      <4> QED BY <4>1, <4>2, <4>3
    <3>3. Eq(g, m + 1)
      BY <3>2, Zenon
    <3> HIDE DEF g, Eq
    <3>4. \E f1 : Eq(f1, m + 1)
      BY <3>3
    <3> QED BY <3>4
  <2> HIDE DEF E
  <2>3. \A m \in Nat : m \in E
    BY <2>1, <2>2, SetInduction
  <2> QED BY <2>3, Zenon DEF E
<1>2. Eq(A, i)
  BY <1>1, Zenon
<1>3. heapifyup(h, t, i) = (CHOOSE s \in A[i] : TRUE).h
  BY DEF heapifyup
<1> HIDE DEF A
<1>4. \E s \in G[i] : A[i] = {s}
  <2> DEFINE E == {m \in Nat : m <= i => \E s \in G[m] : A[m] = {s}}
  <2>1. 0 \in E
    BY <1>2
  <2>2. ASSUME NEW m \in Nat, m \in E PROVE m + 1 \in E
    <3> SUFFICES ASSUME m + 1 <= i PROVE \E s \in G[m + 1] : A[m + 1] = {s}
      OBVIOUS
    <3>1. PICK s \in G[m] : A[m] = {s}
      BY <2>2
    <3>2. A[m + 1] = step(A[m], m + 1)
      <4> HIDE DEF step, start
      <4>1. m + 1 \in 0 .. i /\ m + 1 # 0 /\ (m + 1) - 1 = m
        OBVIOUS
      <4>2. A[m + 1] = step(A[(m + 1) - 1], m + 1)
        BY <1>2, <4>1, Zenon
      <4> QED BY <4>1, <4>2
    <3>3. A[m + 1] = {Up(t, s)} /\ m + 1 \in 1 .. i /\ (m + 1) - 1 = m
      BY <3>1, <3>2
    <3> QED BY <3>1, <3>3
  <2> HIDE DEF E
  <2>3. \A m \in Nat : m \in E
    BY <2>1, <2>2, SetInduction
  <2> QED BY <2>3 DEF E
<1> QED BY <1>3, <1>4

(* heapify:                                                                *)
LEMMA DownLoop ==
  ASSUME NEW h, NEW t, NEW i, NEW N \in Nat, NEW G,
         [h |-> h, i |-> i] \in G[0], \A k \in 1 .. N : \A s \in G[k - 1] : Down(t, N, s) \in G[k]
  PROVE  \E s \in G[N] : heapify(h, t, i, N) = s.h
<1> DEFINE start == [h |-> h, i |-> i]
           step(X, k) == {Down(t, N, s) : s \in X}
           Eq(f, m) == f = [k \in 0 .. m |-> IF k = 0 THEN {start} ELSE step(f[k - 1], k)]
           A == CHOOSE f : Eq(f, N)
<1>1. \E f : Eq(f, N)
  <2> DEFINE E == {m \in Nat : \E f : Eq(f, m)}
  <2> HIDE DEF step, start
  <2>1. 0 \in E
    <3>1. Eq([k \in 0 .. 0 |-> {start}], 0)
      OBVIOUS
    <3> QED BY <3>1, Zenon
  <2>2. ASSUME NEW m \in Nat, m \in E PROVE m + 1 \in E
    <3>1. PICK f : Eq(f, m)
      BY <2>2
    <3> DEFINE g == [k \in 0 .. m + 1 |-> IF k = m + 1 THEN step(f[m], m + 1) ELSE f[k]]
    <3>2. ASSUME NEW k \in 0 .. m + 1
          PROVE  g[k] = IF k = 0 THEN {start} ELSE step(g[k - 1], k)
      <4>1. CASE k = 0
        BY <3>1, <4>1
      <4>2. CASE k \in 1 .. m
        <5>1. k \in 0 .. m /\ k # 0 /\ k - 1 \in 0 .. m + 1
          BY <4>2
        <5>2. f[k] = step(f[k - 1], k)
          BY <3>1, <5>1, Zenon
        <5>3. g[k] = f[k] /\ g[k - 1] = f[k - 1]
          BY <4>2, <5>1
        <5> QED BY <5>1, <5>2, <5>3
      <4>3. CASE k = m + 1
        BY <3>1, <4>3
      <4> QED BY <4>1, <4>2, <4>3
    <3>3. Eq(g, m + 1)
      BY <3>2, Zenon
    <3> HIDE DEF g, Eq
    <3>4. \E f1 : Eq(f1, m + 1)
      BY <3>3
    <3> QED BY <3>4
  <2> HIDE DEF E
  <2>3. \A m \in Nat : m \in E
    BY <2>1, <2>2, SetInduction
  <2> QED BY <2>3, Zenon DEF E
<1>2. Eq(A, N)
  BY <1>1, Zenon
<1>3. heapify(h, t, i, N) = (CHOOSE s \in A[N] : TRUE).h
  BY DEF heapify
<1> HIDE DEF A
<1>4. \E s \in G[N] : A[N] = {s}
  <2> DEFINE E == {m \in Nat : m <= N => \E s \in G[m] : A[m] = {s}}
  <2>1. 0 \in E
    BY <1>2
  <2>2. ASSUME NEW m \in Nat, m \in E PROVE m + 1 \in E
    <3> SUFFICES ASSUME m + 1 <= N PROVE \E s \in G[m + 1] : A[m + 1] = {s}
      OBVIOUS
    <3>1. PICK s \in G[m] : A[m] = {s}
      BY <2>2
    <3>2. A[m + 1] = step(A[m], m + 1)
      <4> HIDE DEF step, start
      <4>1. m + 1 \in 0 .. N /\ m + 1 # 0 /\ (m + 1) - 1 = m
        OBVIOUS
      <4>2. A[m + 1] = step(A[(m + 1) - 1], m + 1)
        BY <1>2, <4>1, Zenon
      <4> QED BY <4>1, <4>2
    <3>3. A[m + 1] = {Down(t, N, s)} /\ m + 1 \in 1 .. N /\ (m + 1) - 1 = m
      BY <3>1, <3>2
    <3> QED BY <3>1, <3>3
  <2> HIDE DEF E
  <2>3. \A m \in Nat : m \in E
    BY <2>1, <2>2, SetInduction
  <2> QED BY <2>3 DEF E
<1> QED BY <1>3, <1>4

(* the loop of ptrheap_create:                                             *)
LEMMA CreateLoop ==
  ASSUME NEW h, NEW t, NEW N \in Nat, NEW G,
         h \in G[0], \A k \in 1 .. N : \A s \in G[k - 1] : heapify(s, t, N - k, N) \in G[k]
  PROVE  heapify_all(h, t, N) \in G[N]
<1> DEFINE start == h
           step(X, k) == {heapify(s, t, N - k, N) : s \in X}
           Eq(f, m) == f = [k \in 0 .. m |-> IF k = 0 THEN {start} ELSE step(f[k - 1], k)]
           A == CHOOSE f : Eq(f, N)
<1>1. \E f : Eq(f, N)
  <2> DEFINE E == {m \in Nat : \E f : Eq(f, m)}
  <2> HIDE DEF step, start
  <2>1. 0 \in E
    <3>1. Eq([k \in 0 .. 0 |-> {start}], 0)
      OBVIOUS
    <3> QED BY <3>1, Zenon
  <2>2. ASSUME NEW m \in Nat, m \in E PROVE m + 1 \in E
    <3>1. PICK f : Eq(f, m)
      BY <2>2
    <3> DEFINE g == [k \in 0 .. m + 1 |-> IF k = m + 1 THEN step(f[m], m + 1) ELSE f[k]]
    <3>2. ASSUME NEW k \in 0 .. m + 1
          PROVE  g[k] = IF k = 0 THEN {start} ELSE step(g[k - 1], k)
      <4>1. CASE k = 0
        BY <3>1, <4>1
      <4>2. CASE k \in 1 .. m
        <5>1. k \in 0 .. m /\ k # 0 /\ k - 1 \in 0 .. m + 1
          BY <4>2
        <5>2. f[k] = step(f[k - 1], k)
          BY <3>1, <5>1, Zenon
        <5>3. g[k] = f[k] /\ g[k - 1] = f[k - 1]
          BY <4>2, <5>1
        <5> QED BY <5>1, <5>2, <5>3
      <4>3. CASE k = m + 1
        BY <3>1, <4>3
      <4> QED BY <4>1, <4>2, <4>3
    <3>3. Eq(g, m + 1)
      BY <3>2, Zenon
    <3> HIDE DEF g, Eq
    <3>4. \E f1 : Eq(f1, m + 1)
      BY <3>3
    <3> QED BY <3>4
  <2> HIDE DEF E
  <2>3. \A m \in Nat : m \in E
    BY <2>1, <2>2, SetInduction
  <2> QED BY <2>3, Zenon DEF E
<1>2. Eq(A, N)
  BY <1>1, Zenon
<1>3. heapify_all(h, t, N) = CHOOSE s \in A[N] : TRUE
  BY DEF heapify_all
<1> HIDE DEF A
<1>4. \E s \in G[N] : A[N] = {s}
  <2> DEFINE E == {m \in Nat : m <= N => \E s \in G[m] : A[m] = {s}}
  <2>1. 0 \in E
    BY <1>2
  <2>2. ASSUME NEW m \in Nat, m \in E PROVE m + 1 \in E
    <3> SUFFICES ASSUME m + 1 <= N PROVE \E s \in G[m + 1] : A[m + 1] = {s}
      OBVIOUS
    <3>1. PICK s \in G[m] : A[m] = {s}
      BY <2>2
    <3>2. A[m + 1] = step(A[m], m + 1)
      <4> HIDE DEF step, start
      <4>1. m + 1 \in 0 .. N /\ m + 1 # 0 /\ (m + 1) - 1 = m
        OBVIOUS
      <4>2. A[m + 1] = step(A[(m + 1) - 1], m + 1)
        BY <1>2, <4>1, Zenon
      <4> QED BY <4>1, <4>2
    <3>3. A[m + 1] = {heapify(s, t, N - (m + 1), N)} /\ m + 1 \in 1 .. N /\ (m + 1) - 1 = m
      BY <3>1, <3>2
    <3> QED BY <3>1, <3>3
  <2> HIDE DEF E
  <2>3. \A m \in Nat : m \in E
    BY <2>1, <2>2, SetInduction
  <2> QED BY <2>3 DEF E
<1> QED BY <1>3, <1>4

(* and the loop of timerqueue_free.                                        *)
LEMMA FreeLoop ==
  ASSUME NEW h, NEW t, NEW n \in Nat, n = Len(h.elems), NEW G,
         h \in G[0], \A k \in 1 .. n : \A s \in G[k - 1] : (IF ptrheap_getmin(s) = NULL THEN s ELSE ptrheap_deletemin(s, t)) \in G[k]
  PROVE  empty(h, t) \in G[n]
<1> DEFINE start == h
           step(X, k) == {(IF ptrheap_getmin(s) = NULL THEN s ELSE ptrheap_deletemin(s, t)) : s \in X}
           Eq(f, m) == f = [k \in 0 .. m |-> IF k = 0 THEN {start} ELSE step(f[k - 1], k)]
           A == CHOOSE f : Eq(f, n)
<1>1. \E f : Eq(f, n)
  <2> DEFINE E == {m \in Nat : \E f : Eq(f, m)}
  <2> HIDE DEF step, start
  <2>1. 0 \in E
    <3>1. Eq([k \in 0 .. 0 |-> {start}], 0)
      OBVIOUS
    <3> QED BY <3>1, Zenon
  <2>2. ASSUME NEW m \in Nat, m \in E PROVE m + 1 \in E
    <3>1. PICK f : Eq(f, m)
      BY <2>2
    <3> DEFINE g == [k \in 0 .. m + 1 |-> IF k = m + 1 THEN step(f[m], m + 1) ELSE f[k]]
    <3>2. ASSUME NEW k \in 0 .. m + 1
          PROVE  g[k] = IF k = 0 THEN {start} ELSE step(g[k - 1], k)
      <4>1. CASE k = 0
        BY <3>1, <4>1
      <4>2. CASE k \in 1 .. m
        <5>1. k \in 0 .. m /\ k # 0 /\ k - 1 \in 0 .. m + 1
          BY <4>2
        <5>2. f[k] = step(f[k - 1], k)
          BY <3>1, <5>1, Zenon
        <5>3. g[k] = f[k] /\ g[k - 1] = f[k - 1]
          BY <4>2, <5>1
        <5> QED BY <5>1, <5>2, <5>3
      <4>3. CASE k = m + 1
        BY <3>1, <4>3
      <4> QED BY <4>1, <4>2, <4>3
    <3>3. Eq(g, m + 1)
      BY <3>2, Zenon
    <3> HIDE DEF g, Eq
    <3>4. \E f1 : Eq(f1, m + 1)
      BY <3>3
    <3> QED BY <3>4
  <2> HIDE DEF E
  <2>3. \A m \in Nat : m \in E
    BY <2>1, <2>2, SetInduction
  <2> QED BY <2>3, Zenon DEF E
<1>2. Eq(A, n)
  BY <1>1, Zenon
<1>3. empty(h, t) = CHOOSE s \in A[n] : TRUE
  BY DEF empty
<1> HIDE DEF A
<1>4. \E s \in G[n] : A[n] = {s}
  <2> DEFINE E == {m \in Nat : m <= n => \E s \in G[m] : A[m] = {s}}
  <2>1. 0 \in E
    BY <1>2
  <2>2. ASSUME NEW m \in Nat, m \in E PROVE m + 1 \in E
    <3> SUFFICES ASSUME m + 1 <= n PROVE \E s \in G[m + 1] : A[m + 1] = {s}
      OBVIOUS
    <3>1. PICK s \in G[m] : A[m] = {s}
      BY <2>2
    <3>2. A[m + 1] = step(A[m], m + 1)
      <4> HIDE DEF step, start
      <4>1. m + 1 \in 0 .. n /\ m + 1 # 0 /\ (m + 1) - 1 = m
        OBVIOUS
      <4>2. A[m + 1] = step(A[(m + 1) - 1], m + 1)
        BY <1>2, <4>1, Zenon
      <4> QED BY <4>1, <4>2
    <3>3. A[m + 1] = {IF ptrheap_getmin(s) = NULL THEN s ELSE ptrheap_deletemin(s, t)} /\ m + 1 \in 1 .. n /\ (m + 1) - 1 = m
      BY <3>1, <3>2
    <3> QED BY <3>1, <3>3
  <2> HIDE DEF E
  <2>3. \A m \in Nat : m \in E
    BY <2>1, <2>2, SetInduction
  <2> QED BY <2>3 DEF E
<1> QED BY <1>3, <1>4

(* heapify makes the order right from L on: after N turns it has stopped,  *)
(* as the position grows in every turn.                                    *)
LEMMA HeapifyIs ==
  ASSUME NEW h, NEW M, NEW S, NEW told \in BOOLEAN, Good(h, M, S, told), NEW t \in [Rec -> Int],
         NEW i, NEW L \in Nat, Sinks(h, t, i, L, M), NEW N, Moving(h, i, M, N)
  PROVE  LET g == heapify(h, t, i, N)
         IN  Good(g, M, S, told) /\ Len(g.elems) = Len(h.elems) /\ Ordered(g, t, L, M)
<1> DEFINE n == Len(h.elems)
           H1 == {g \in HeapRec : Good(g, M, S, told) /\ Len(g.elems) = n}
           St == [h : H1, i : Nat]
           G == [k \in 0 .. N |->
                   {s \in St : /\ Sinks(s.h, t, s.i, L, M) /\ Moving(s.h, s.i, M, N)
                               /\ least(s.h, t, s.i, N) = s.i \/ s.i >= k}]
<1>1. M \in Nat /\ N \in Nat /\ M <= N /\ h \in HeapRec /\ i \in 0 .. M - 1
  BY DEF Good, Moving, Sinks
<1>2. [h |-> h, i |-> i] \in G[0]
  BY <1>1
<1>3. ASSUME NEW k \in 1 .. N, NEW s \in G[k - 1] PROVE Down(t, N, s) \in G[k]
  <2> DEFINE m == least(s.h, t, s.i, N)
             g == swap(s.h, m, s.i)
  <2>1. /\ s \in St /\ Sinks(s.h, t, s.i, L, M) /\ Moving(s.h, s.i, M, N)
        /\ m = s.i \/ s.i >= k - 1
    BY <1>1, <1>3
  <2>2. s.h \in H1 /\ s.i \in Nat /\ Good(s.h, M, S, told) /\ Len(s.h.elems) = n
    BY <2>1
  <2>3. CASE m = s.i
    <3>1. Down(t, N, s) = s
      BY <2>3 DEF Down
    <3> QED BY <1>1, <2>1, <2>3, <3>1
  <2>4. CASE m # s.i
    <3> HIDE DEF m
    <3>1. /\ Good(g, M, S, told) /\ Len(g.elems) = n
          /\ Sinks(g, t, m, L, M) /\ Moving(g, m, M, N) /\ m > s.i
      BY <2>1, <2>2, <2>4, DownStep DEF m
    <3>2. Down(t, N, s) = [h |-> g, i |-> m]
      BY <2>4 DEF Down, m
    <3> HIDE DEF g
    <3>3. m \in Nat /\ m >= k /\ g \in HeapRec
      BY <1>1, <2>1, <2>2, <2>4, <3>1, SMTT(30) DEF Sinks, Good
    <3> QED BY <1>1, <3>1, <3>2, <3>3
  <2> QED BY <2>3, <2>4
<1> HIDE DEF G
<1>4. PICK s \in G[N] : heapify(h, t, i, N) = s.h
  <2>1. \A k \in 1 .. N : \A s \in G[k - 1] : Down(t, N, s) \in G[k]
    BY <1>3
  <2>2. N \in Nat
    BY <1>1
  <2> QED BY <1>2, <2>1, <2>2, DownLoop
<1>5. /\ s \in St /\ Sinks(s.h, t, s.i, L, M) /\ Moving(s.h, s.i, M, N)
      /\ least(s.h, t, s.i, N) = s.i \/ s.i >= N
  BY <1>1, <1>4 DEF G
<1>6. Good(s.h, M, S, told) /\ Len(s.h.elems) = n
  BY <1>5
<1>7. least(s.h, t, s.i, N) = s.i
  BY <1>1, <1>5, SMTT(30) DEF Sinks
<1>8. Ordered(s.h, t, L, M)
  BY <1>5, <1>6, <1>7, DownStops
<1> QED BY <1>4, <1>6, <1>8

(* heapifyup makes the order right, as the position gets smaller in every  *)
(* turn.                                                                   *)
LEMMA HeapifyupIs ==
  ASSUME NEW h, NEW M, NEW S, NEW told \in BOOLEAN, Good(h, M, S, told), NEW t \in [Rec -> Int],
         NEW i, Rises(h, t, i, M)
  PROVE  LET g == heapifyup(h, t, i)
         IN  Good(g, M, S, told) /\ Len(g.elems) = Len(h.elems) /\ Ordered(g, t, 0, M)
<1> DEFINE n == Len(h.elems)
           H1 == {g \in HeapRec : Good(g, M, S, told) /\ Len(g.elems) = n}
           St == [h : H1, i : Nat]
           Stops(s) == s.i = 0 \/ ~Less(s.h, t, s.i, parent(s.i))
           G == [k \in 0 .. i |->
                   {s \in St : Rises(s.h, t, s.i, M) /\ (Stops(s) \/ s.i <= i - k)}]
<1>1. M \in Nat /\ h \in HeapRec /\ i \in 0 .. M - 1 /\ i \in Nat
  BY DEF Good, Rises
<1>2. [h |-> h, i |-> i] \in G[0]
  BY <1>1
<1>3. ASSUME NEW k \in 1 .. i, NEW s \in G[k - 1] PROVE Up(t, s) \in G[k]
  <2> DEFINE g == swap(s.h, s.i, parent(s.i))
  <2> HIDE DEF Stops
  <2>1. s \in St /\ Rises(s.h, t, s.i, M) /\ (Stops(s) \/ s.i <= i - (k - 1))
    BY <1>1, <1>3
  <2>2. s.h \in H1 /\ s.i \in Nat /\ Good(s.h, M, S, told) /\ Len(s.h.elems) = n
    BY <2>1
  <2>3. CASE Stops(s)
    <3>1. Up(t, s) = s
      BY <2>3 DEF Up, Stops
    <3> QED BY <1>1, <2>1, <2>3, <3>1
  <2>4. CASE ~Stops(s)
    <3>1. s.i # 0 /\ Less(s.h, t, s.i, parent(s.i))
      BY <2>4 DEF Stops
    <3>2. /\ Good(g, M, S, told) /\ Len(g.elems) = n
          /\ Rises(g, t, parent(s.i), M) /\ parent(s.i) < s.i
      BY <2>1, <2>2, <3>1, UpStep
    <3>3. Up(t, s) = [h |-> g, i |-> parent(s.i)]
      BY <3>1 DEF Up
    <3> HIDE DEF g
    <3>4. parent(s.i) \in Nat /\ parent(s.i) <= i - k /\ g \in HeapRec
      BY <1>1, <2>1, <2>2, <2>4, <3>2, SMTT(30) DEF Rises, Good
    <3> QED BY <1>1, <3>2, <3>3, <3>4
  <2> QED BY <2>3, <2>4
<1> HIDE DEF G
<1>4. PICK s \in G[i] : heapifyup(h, t, i) = s.h
  <2>1. \A k \in 1 .. i : \A s \in G[k - 1] : Up(t, s) \in G[k]
    BY <1>3
  <2>2. i \in Nat
    BY <1>1
  <2> QED BY <1>2, <2>1, <2>2, UpLoop
<1>5. s \in St /\ Rises(s.h, t, s.i, M) /\ (Stops(s) \/ s.i <= 0)
  BY <1>1, <1>4 DEF G
<1>6. Good(s.h, M, S, told) /\ Len(s.h.elems) = n /\ s.i \in Nat
  BY <1>5
<1>7. Stops(s)
  BY <1>5, <1>6, SMTT(30)
<1>8. Ordered(s.h, t, 0, M)
  BY <1>5, <1>6, <1>7, UpStops
<1> QED BY <1>4, <1>6, <1>8

(* What all operations of ptrheap.c take and give back.                    *)
IsHeap(h, t, S) == Good(h, Len(h.elems), S, TRUE) /\ Ordered(h, t, 0, Len(h.elems))

(* ptrheap_create makes a heap of any records.                             *)
LEMMA CreateIs ==
  ASSUME NEW n \in Nat, NEW ptrs \in [1 .. n -> Rec], NEW t \in [Rec -> Int],
         \A i, j \in 1 .. n : ptrs[i] = ptrs[j] => i = j
  PROVE  IsHeap(ptrheap_create(ptrs, t), t, {ptrs[i] : i \in 1 .. n})
<1>1. PICK no \in BOOLEAN : ~no
  BY Zenon
<1> DEFINE S == {ptrs[i] : i \in 1 .. n}
           h0 == Heap(ptrs, [r \in Rec |-> 0])
           G == [k \in 0 .. n |->
                   {g \in HeapRec : /\ Good(g, n, S, no) /\ Len(g.elems) = n
                                    /\ Ordered(g, t, n - k, n)}]
           h == heapify_all(h0, t, n)
           c == ptrheap_create(ptrs, t)
<1>2. ptrs \in Seq(Rec) /\ Len(ptrs) = n
  OBVIOUS
<1>3. h0 \in HeapRec /\ Len(h0.elems) = n /\ \A j \in 0 .. n - 1 : At(h0, j) = ptrs[j + 1]
  BY <1>2 DEF Heap, HeapRec, At
<1> HIDE DEF h0
<1>4. Good(h0, n, S, no)
  <2>1. Apart(h0, n)
    <3> SUFFICES ASSUME NEW j \in 0 .. n - 1, NEW k \in 0 .. n - 1, At(h0, j) = At(h0, k)
                 PROVE  j = k
      BY DEF Apart
    <3>1. j + 1 \in 1 .. n /\ k + 1 \in 1 .. n /\ ptrs[j + 1] = ptrs[k + 1]
      BY <1>3
    <3>2. j + 1 = k + 1
      BY <3>1
    <3> QED BY <3>2
  <2>2. Members(h0, n) = S
    <3>1. ASSUME NEW i \in 1 .. n PROVE ptrs[i] \in Members(h0, n)
      <4>1. i - 1 \in 0 .. n - 1 /\ (i - 1) + 1 = i
        OBVIOUS
      <4>2. At(h0, i - 1) = ptrs[i]
        BY <1>3, <4>1
      <4> QED BY <4>1, <4>2 DEF Members
    <3>2. ASSUME NEW j \in 0 .. n - 1 PROVE At(h0, j) \in S
      <4>1. j + 1 \in 1 .. n
        OBVIOUS
      <4> QED BY <1>3, <4>1
    <3> QED BY <3>1, <3>2 DEF Members
  <2> QED BY <1>1, <1>3, <2>1, <2>2 DEF Good
<1> HIDE DEF S
<1>5. h0 \in G[0]
  <2>1. ASSUME NEW j \in 1 .. n - 1 PROVE ~(parent(j) >= n)
    BY ParentIs
  <2>2. Ordered(h0, t, n - 0, n)
    BY <2>1 DEF Ordered
  <2> QED BY <1>3, <1>4, <2>2
<1>6. ASSUME NEW k \in 1 .. n, NEW g \in G[k - 1] PROVE heapify(g, t, n - k, n) \in G[k]
  <2>1. g \in HeapRec /\ Good(g, n, S, no) /\ Len(g.elems) = n /\ Ordered(g, t, n - (k - 1), n)
    BY <1>6
  <2> DEFINE i == n - k
             f == heapify(g, t, i, n)
  <2>2. i \in 0 .. n - 1 /\ i \in Nat /\ n - (k - 1) = i + 1
    OBVIOUS
  <2>3. Sinks(g, t, i, i, n)
    <3>1. \A j \in 1 .. n - 1 : parent(j) \in Nat
      BY ParentIs
    <3>2. \A j \in 1 .. n - 1 : parent(j) >= i /\ parent(j) # i => Edge(g, t, j)
      <4> HIDE DEF i
      <4> QED BY <2>1, <2>2, <3>1 DEF Ordered
    <3>3. i # 0 => ~(parent(i) >= i)
      <4> HIDE DEF i
      <4> QED BY <2>2, ParentIs
    <3> QED BY <2>2, <3>2, <3>3 DEF Sinks
  <2>4. Moving(g, i, n, n)
    BY DEF Moving
  <2> HIDE DEF i
  <2>5. Good(f, n, S, no) /\ Len(f.elems) = n /\ Ordered(f, t, i, n)
    <3>1. Good(f, n, S, no) /\ Len(f.elems) = Len(g.elems) /\ Ordered(f, t, i, n)
      <4>1. Good(g, n, S, no) /\ i \in Nat
        BY <2>1, <2>2
      <4> HIDE DEF G
      <4> QED BY <4>1, <2>3, <2>4, HeapifyIs
    <3> QED BY <2>1, <3>1
  <2>6. f \in HeapRec
    BY <2>5 DEF Good
  <2>7. f \in G[k]
    BY <2>5, <2>6 DEF i
  <2> QED BY <2>7 DEF i
<1> HIDE DEF G
<1>7. h \in G[n]
  <2>1. \A k \in 1 .. n : \A s \in G[k - 1] : heapify(s, t, n - k, n) \in G[k]
    BY <1>6, Zenon
  <2> QED BY <1>5, <2>1, CreateLoop
<1>8. h \in HeapRec /\ Good(h, n, S, no) /\ Len(h.elems) = n /\ Ordered(h, t, 0, n)
  BY <1>7 DEF G
<1> DEFINE rc1 == [r \in Rec |->
                     IF \E i \in 1 .. n : h.elems[i] = r
                     THEN (CHOOSE i \in 1 .. n : h.elems[i] = r) - 1 ELSE 0]
<1>9. c = Heap(h.elems, rc1)
  BY <1>2 DEF ptrheap_create, h0
<1> HIDE DEF h, c
<1>10. h.elems \in Seq(Rec) /\ Len(h.elems) = n
  BY <1>8 DEF HeapRec
<1>11. rc1 \in [Rec -> Int]
  OBVIOUS
<1>12. c \in HeapRec /\ c.elems = h.elems /\ c.rc = rc1 /\ \A j : At(c, j) = At(h, j)
  BY <1>9, <1>10, <1>11 DEF Heap, HeapRec, At
<1>13. ASSUME NEW j \in 0 .. n - 1 PROVE c.rc[At(c, j)] = j
  <2> DEFINE r == h.elems[j + 1]
  <2>1. j + 1 \in 1 .. n /\ At(c, j) = r /\ r \in Rec
    BY <1>10, <1>12 DEF At
  <2>2. ASSUME NEW i \in 1 .. n, h.elems[i] = r PROVE i = j + 1
    <3>1. i - 1 \in 0 .. n - 1 /\ At(h, i - 1) = h.elems[i] /\ At(h, j) = r
      BY DEF At
    <3>2. i - 1 = j
      BY <1>8, <2>2, <3>1 DEF Good, Apart
    <3> QED BY <3>2
  <2> HIDE DEF r
  <2> DEFINE p == CHOOSE i \in 1 .. n : h.elems[i] = r
  <2>3. p = j + 1
    BY <2>1, <2>2 DEF r
  <2>4. rc1[r] = p - 1
    BY <2>1, Zenon DEF r
  <2> HIDE DEF p
  <2>5. rc1[r] = j
    BY <2>3, <2>4
  <2> HIDE DEF rc1
  <2> QED BY <1>12, <2>1, <2>5
<1> HIDE DEF rc1
<1>14. Good(c, n, S, TRUE)
  <2>1. Cookies(c, n)
    BY <1>13 DEF Cookies
  <2>2. Apart(c, n) /\ Members(c, n) = S
    BY <1>8, <1>12 DEF Good, Apart, Members
  <2> QED BY <1>10, <1>12, <2>1, <2>2 DEF Good
<1>15. Ordered(c, t, 0, n)
  BY <1>8, <1>12 DEF Ordered, Edge
<1>16. Len(c.elems) = n
  BY <1>10, <1>12
<1> QED BY <1>14, <1>15, <1>16, Zenon DEF IsHeap, c, S

(* What is known of a heap.                                                *)
LEMMA HeapIs ==
  ASSUME NEW h, NEW t \in [Rec -> Int], NEW S, IsHeap(h, t, S)
  PROVE  LET n == Len(h.elems)
         IN  /\ n \in Nat /\ h \in HeapRec /\ h.elems \in Seq(Rec) /\ h.rc \in [Rec -> Int]
             /\ Apart(h, n) /\ Cookies(h, n) /\ Members(h, n) = S
             /\ \A j \in 0 .. n - 1 : At(h, j) \in Rec /\ At(h, j) \in S /\ t[At(h, j)] \in Int
             /\ \A j \in 1 .. n - 1 : /\ parent(j) \in 0 .. n - 1 /\ parent(j) < j
                                      /\ t[At(h, parent(j))] <= t[At(h, j)]
<1> DEFINE n == Len(h.elems)
<1>1. h \in HeapRec /\ Apart(h, n) /\ Cookies(h, n) /\ Members(h, n) = S /\ Ordered(h, t, 0, n)
  BY DEF IsHeap, Good
<1>2. n \in Nat /\ h.elems \in Seq(Rec) /\ h.rc \in [Rec -> Int]
  BY <1>1 DEF HeapRec
<1>3. \A j \in 0 .. n - 1 : At(h, j) \in Rec /\ At(h, j) \in S /\ t[At(h, j)] \in Int
  BY <1>1, AtIn DEF Members
<1>4. \A j \in 1 .. n - 1 : parent(j) \in 0 .. n - 1 /\ parent(j) < j
  BY <1>2, ParentIs
<1>5. \A j \in 1 .. n - 1 : t[At(h, parent(j))] <= t[At(h, j)]
  BY <1>1, <1>4 DEF Ordered, Edge
<1> QED BY <1>1, <1>2, <1>3, <1>4, <1>5

(* ptrheap_increase, after a time has become greater.                      *)
LEMMA IncreaseIs ==
  ASSUME NEW h, NEW t \in [Rec -> Int], NEW S, IsHeap(h, t, S),
         NEW c \in 0 .. Len(h.elems) - 1, NEW v \in Int, v >= t[At(h, c)]
  PROVE  LET s == [t EXCEPT ![At(h, c)] = v] IN IsHeap(ptrheap_increase(h, s, c), s, S)
<1> DEFINE n == Len(h.elems)
           s == [t EXCEPT ![At(h, c)] = v]
           g == heapify(h, s, c, n)
<1>1. /\ n \in Nat /\ Apart(h, n)
      /\ \A j \in 0 .. n - 1 : At(h, j) \in Rec /\ t[At(h, j)] \in Int
      /\ \A j \in 1 .. n - 1 : /\ parent(j) \in 0 .. n - 1 /\ parent(j) < j
                               /\ t[At(h, parent(j))] <= t[At(h, j)]
  BY HeapIs, Zenon
<1>2. Good(h, n, S, TRUE)
  BY Zenon DEF IsHeap
<1>3. s \in [Rec -> Int] /\ s[At(h, c)] = v /\ \A j \in 0 .. n - 1 : j # c => s[At(h, j)] = t[At(h, j)]
  BY <1>1 DEF Apart
<1> HIDE DEF s
<1>4. ASSUME NEW j \in 1 .. n - 1, parent(j) # c PROVE Edge(h, s, j)
  <2>1. j \in 0 .. n - 1 /\ t[At(h, j)] \in Int /\ t[At(h, parent(j))] \in Int
    BY <1>1
  <2>2. s[At(h, parent(j))] = t[At(h, parent(j))]
    BY <1>1, <1>3, <1>4
  <2>3. CASE j = c
    BY <1>1, <1>3, <2>1, <2>2, <2>3 DEF Edge
  <2>4. CASE j # c
    BY <1>1, <1>3, <2>1, <2>2, <2>4 DEF Edge
  <2> QED BY <2>3, <2>4
<1>5. ASSUME c # 0, NEW j \in 1 .. n - 1, parent(j) = c
      PROVE  s[At(h, parent(c))] <= s[At(h, j)]
  <2>1. c \in 1 .. n - 1 /\ j \in 0 .. n - 1 /\ j # c
    BY <1>1, <1>5
  <2>2. parent(c) \in 0 .. n - 1 /\ parent(c) # c
    BY <1>1, <2>1
  <2>3. t[At(h, parent(c))] <= t[At(h, c)] /\ t[At(h, c)] <= t[At(h, j)]
    BY <1>1, <1>5, <2>1
  <2>4. t[At(h, parent(c))] \in Int /\ t[At(h, c)] \in Int /\ t[At(h, j)] \in Int
    BY <1>1, <2>1, <2>2
  <2>5. s[At(h, parent(c))] = t[At(h, parent(c))] /\ s[At(h, j)] = t[At(h, j)]
    BY <1>3, <2>1, <2>2
  <2> QED BY <2>3, <2>4, <2>5
<1>6. Sinks(h, s, c, 0, n)
  BY <1>4, <1>5 DEF Sinks
<1>7. Moving(h, c, n, n)
  BY DEF Moving
<1>8. Good(g, n, S, TRUE) /\ Len(g.elems) = n /\ Ordered(g, s, 0, n)
  BY <1>2, <1>3, <1>6, <1>7, HeapifyIs, Zenon
<1> QED BY <1>8, Zenon DEF ptrheap_increase, IsHeap, s

(* ptrheap_decrease, after a time has become less.                         *)
LEMMA DecreaseIs ==
  ASSUME NEW h, NEW t \in [Rec -> Int], NEW S, IsHeap(h, t, S),
         NEW c \in 0 .. Len(h.elems) - 1, NEW v \in Int, v <= t[At(h, c)]
  PROVE  LET s == [t EXCEPT ![At(h, c)] = v] IN IsHeap(ptrheap_decrease(h, s, c), s, S)
<1> DEFINE n == Len(h.elems)
           s == [t EXCEPT ![At(h, c)] = v]
           g == heapifyup(h, s, c)
<1>1. /\ n \in Nat /\ Apart(h, n)
      /\ \A j \in 0 .. n - 1 : At(h, j) \in Rec /\ t[At(h, j)] \in Int
      /\ \A j \in 1 .. n - 1 : /\ parent(j) \in 0 .. n - 1 /\ parent(j) < j
                               /\ t[At(h, parent(j))] <= t[At(h, j)]
  BY HeapIs, Zenon
<1>2. Good(h, n, S, TRUE)
  BY Zenon DEF IsHeap
<1>3. s \in [Rec -> Int] /\ s[At(h, c)] = v /\ \A j \in 0 .. n - 1 : j # c => s[At(h, j)] = t[At(h, j)]
  BY <1>1 DEF Apart
<1> HIDE DEF s
<1>4. ASSUME NEW j \in 1 .. n - 1, j # c PROVE Edge(h, s, j)
  <2>1. j \in 0 .. n - 1 /\ t[At(h, j)] \in Int /\ t[At(h, parent(j))] \in Int
    BY <1>1
  <2>2. s[At(h, j)] = t[At(h, j)]
    BY <1>3, <1>4, <2>1
  <2>3. CASE parent(j) = c
    BY <1>1, <1>3, <2>1, <2>2, <2>3 DEF Edge
  <2>4. CASE parent(j) # c
    BY <1>1, <1>3, <2>1, <2>2, <2>4, Zenon DEF Edge
  <2> QED BY <2>3, <2>4
<1>5. ASSUME c # 0, NEW j \in 1 .. n - 1, parent(j) = c
      PROVE  s[At(h, parent(c))] <= s[At(h, j)]
  <2>1. c \in 1 .. n - 1 /\ j \in 0 .. n - 1 /\ j # c
    BY <1>1, <1>5
  <2>2. parent(c) \in 0 .. n - 1 /\ parent(c) # c
    BY <1>1, <2>1
  <2>3. t[At(h, parent(c))] <= t[At(h, c)] /\ t[At(h, c)] <= t[At(h, j)]
    BY <1>1, <1>5, <2>1
  <2>4. t[At(h, parent(c))] \in Int /\ t[At(h, c)] \in Int /\ t[At(h, j)] \in Int
    BY <1>1, <2>1, <2>2
  <2>5. s[At(h, parent(c))] = t[At(h, parent(c))] /\ s[At(h, j)] = t[At(h, j)]
    BY <1>3, <2>1, <2>2
  <2> QED BY <2>3, <2>4, <2>5
<1>6. Rises(h, s, c, n)
  BY <1>4, <1>5 DEF Rises
<1>7. Good(g, n, S, TRUE) /\ Len(g.elems) = n /\ Ordered(g, s, 0, n)
  BY <1>2, <1>3, <1>6, HeapifyupIs, Zenon
<1> QED BY <1>7, Zenon DEF ptrheap_decrease, IsHeap, s

(* ptrheap_add.                                                            *)
LEMMA AddIs ==
  ASSUME NEW h, NEW t \in [Rec -> Int], NEW S, IsHeap(h, t, S),
         NEW r \in Rec, r \notin S, NEW v \in Int
  PROVE  LET s == [t EXCEPT ![r] = v] IN IsHeap(ptrheap_add(h, s, r), s, S \cup {r})
<1> DEFINE n == Len(h.elems)
           s == [t EXCEPT ![r] = v]
           e == Append(h.elems, r)
           f == setreccookie(Heap(e, h.rc), n)
           g == heapifyup(f, s, n)
<1>1. /\ n \in Nat /\ h.elems \in Seq(Rec) /\ h.rc \in [Rec -> Int]
      /\ Apart(h, n) /\ Cookies(h, n) /\ Members(h, n) = S
      /\ \A j \in 0 .. n - 1 : At(h, j) \in Rec /\ At(h, j) \in S /\ t[At(h, j)] \in Int
      /\ \A j \in 1 .. n - 1 : /\ parent(j) \in 0 .. n - 1 /\ parent(j) < j
                               /\ t[At(h, parent(j))] <= t[At(h, j)]
  BY HeapIs, Zenon
<1>2. /\ e \in Seq(Rec) /\ Len(e) = n + 1 /\ e[n + 1] = r
      /\ \A k \in 1 .. n : e[k] = h.elems[k]
  BY <1>1, SMTT(30)
<1>n. n \in Nat
  BY <1>1, Zenon
<1> HIDE DEF e, n
<1>3. f = [elems |-> e, rc |-> [h.rc EXCEPT ![r] = n]]
  BY <1>2 DEF setreccookie, Heap, At
<1>4. f \in HeapRec /\ f.elems = e /\ f.rc = [h.rc EXCEPT ![r] = n]
  <2> DEFINE w == [h.rc EXCEPT ![r] = n]
  <2>1. w \in [Rec -> Int]
    BY <1>1, SMTT(30)
  <2> HIDE DEF w
  <2>2. f = [elems |-> e, rc |-> w]
    BY <1>3 DEF w
  <2> HIDE DEF f
  <2>3. f \in HeapRec /\ f.elems = e /\ f.rc = w
    BY <1>2, <2>1, <2>2 DEF HeapRec
  <2> QED BY <2>3 DEF w
<1> HIDE DEF f
<1>5. At(f, n) = r
  BY <1>2, <1>4 DEF At
<1>6. ASSUME NEW j \in 0 .. n - 1 PROVE At(f, j) = At(h, j)
  <2>1. j + 1 \in 1 .. n
    BY <1>n
  <2> QED BY <1>2, <1>4, <2>1 DEF At
<1>7. \A j \in 0 .. n - 1 : At(f, j) \in S /\ At(f, j) # r
  BY <1>1, <1>6
<1>8. s \in [Rec -> Int] /\ \A j \in 0 .. n - 1 : s[At(h, j)] = t[At(h, j)]
  BY <1>1
<1> HIDE DEF s
<1>9. Good(f, n + 1, S \cup {r}, TRUE)
  <2>1. Apart(f, n + 1)
    <3> SUFFICES ASSUME NEW j \in 0 .. n, NEW k \in 0 .. n, At(f, j) = At(f, k) PROVE j = k
      BY <1>n DEF Apart
    <3>1. CASE j = n /\ k = n
      BY <3>1
    <3>2. CASE j # n /\ k # n
      <4>1. j \in 0 .. n - 1 /\ k \in 0 .. n - 1
        BY <1>n, <3>2
      <4>2. At(h, j) = At(h, k)
        BY <1>6, <4>1
      <4> QED BY <1>1, <4>1, <4>2, Zenon DEF Apart
    <3>3. CASE j # n /\ k = n
      <4>1. j \in 0 .. n - 1
        BY <1>n, <3>3
      <4> QED BY <1>5, <1>7, <3>3, <4>1, Zenon
    <3>4. CASE j = n /\ k # n
      <4>1. k \in 0 .. n - 1
        BY <1>n, <3>4
      <4> QED BY <1>5, <1>7, <3>4, <4>1, Zenon
    <3> QED BY <3>1, <3>2, <3>3, <3>4
  <2>2. Members(f, n + 1) = S \cup {r}
    <3>1. \A j : j \in 0 .. (n + 1) - 1 <=> j \in 0 .. n - 1 \/ j = n
      BY <1>n
    <3>2. Members(f, n + 1) = {At(f, j) : j \in 0 .. n - 1} \cup {At(f, n)}
      BY <3>1 DEF Members
    <3>3. {At(f, j) : j \in 0 .. n - 1} = {At(h, j) : j \in 0 .. n - 1}
      BY <1>6
    <3>4. {At(h, j) : j \in 0 .. n - 1} = S
      BY <1>1 DEF Members
    <3> QED BY <1>5, <3>2, <3>3, <3>4
  <2>3. Cookies(f, n + 1)
    <3> SUFFICES ASSUME NEW j \in 0 .. n PROVE f.rc[At(f, j)] = j
      BY <1>n DEF Cookies
    <3>1. CASE j = n
      BY <1>1, <1>4, <1>5, <3>1
    <3>2. CASE j # n
      <4>1. j \in 0 .. n - 1 /\ At(f, j) = At(h, j) /\ At(h, j) # r /\ At(h, j) \in Rec
        <5>1. j \in 0 .. n - 1
          BY <1>n, <3>2
        <5> QED BY <1>1, <1>6, <1>7, <5>1
      <4>2. h.rc[At(h, j)] = j
        BY <1>1, <4>1 DEF Cookies
      <4> QED BY <1>1, <1>4, <4>1, <4>2
    <3> QED BY <3>1, <3>2
  <2>4. n + 1 \in Nat /\ n + 1 <= Len(f.elems)
    BY <1>n, <1>2, <1>4
  <2> QED BY <1>4, <2>1, <2>2, <2>3, <2>4, Zenon DEF Good
<1>10. Rises(f, s, n, n + 1)
  <2>1. ASSUME NEW j \in 1 .. n, j # n PROVE Edge(f, s, j)
    <3>1. j \in 1 .. n - 1 /\ j \in 0 .. n - 1 /\ parent(j) \in 0 .. n - 1
      <4>1. j \in 1 .. n - 1 /\ j \in 0 .. n - 1
        <5>1. n \in Int /\ j \in Int /\ 1 <= j /\ j <= n /\ j # n
          BY <1>n, <2>1
        <5> QED BY ONLY <5>1
      <4> QED BY <1>1, <4>1, Zenon
    <3>2. t[At(h, parent(j))] <= t[At(h, j)]
      BY <1>1, <3>1
    <3> QED BY <1>6, <1>8, <3>1, <3>2 DEF Edge
  <2>2. ASSUME NEW j \in 1 .. n PROVE parent(j) # n
    BY <1>n, ParentIs
  <2>3. n \in 0 .. (n + 1) - 1 /\ 1 .. (n + 1) - 1 = 1 .. n
    BY <1>n
  <2> QED BY <2>1, <2>2, <2>3 DEF Rises
<1>11. Good(g, n + 1, S \cup {r}, TRUE) /\ Len(g.elems) = n + 1 /\ Ordered(g, s, 0, n + 1)
  <2>1. Len(f.elems) = n + 1 /\ s \in [Rec -> Int]
    BY <1>2, <1>4, <1>8
  <2>2. Good(g, n + 1, S \cup {r}, TRUE) /\ Len(g.elems) = Len(f.elems) /\ Ordered(g, s, 0, n + 1)
    BY <1>9, <1>10, <2>1, HeapifyupIs, Zenon
  <2> QED BY <2>1, <2>2, Zenon
<1> QED BY <1>11, Zenon DEF ptrheap_add, IsHeap, s, f, e, n

(* The last place is given up.                                             *)
LEMMA Shortened ==
  ASSUME NEW k, NEW m \in Nat, NEW S, Good(k, m, S, TRUE), NEW t \in [Rec -> Int],
         Ordered(k, t, 0, m)
  PROVE  LET g == Heap(SubSeq(k.elems, 1, m), k.rc) IN IsHeap(g, t, S) /\ Len(g.elems) = m
<1> DEFINE g == Heap(SubSeq(k.elems, 1, m), k.rc)
<1>1. k \in HeapRec /\ m <= Len(k.elems) /\ Apart(k, m) /\ Members(k, m) = S /\ Cookies(k, m)
  BY DEF Good
<1>2. k.elems \in Seq(Rec) /\ k.rc \in [Rec -> Int]
  BY <1>1 DEF HeapRec
<1> DEFINE e == SubSeq(k.elems, 1, m)
<1>3. e \in Seq(Rec) /\ Len(e) = m /\ \A i \in 1 .. m : e[i] = k.elems[i]
  BY <1>1, <1>2
<1> HIDE DEF e
<1>4. g = [elems |-> e, rc |-> k.rc]
  BY DEF Heap, e
<1>5. g \in HeapRec /\ g.elems = e /\ g.rc = k.rc
  BY <1>2, <1>3, <1>4, SMTT(30) DEF HeapRec
<1> HIDE DEF g
<1>6. ASSUME NEW j \in 0 .. m - 1 PROVE At(g, j) = At(k, j)
  <2>1. j + 1 \in 1 .. m
    OBVIOUS
  <2> QED BY <1>3, <1>5, <2>1 DEF At
<1>7. Apart(g, m) /\ Members(g, m) = S /\ Cookies(g, m)
  BY <1>1, <1>5, <1>6, SMTT(30) DEF Apart, Members, Cookies
<1>8. Ordered(g, t, 0, m)
  <2> SUFFICES ASSUME NEW j \in 1 .. m - 1, parent(j) >= 0 PROVE Edge(g, t, j)
    BY DEF Ordered
  <2>1. j \in 0 .. m - 1 /\ parent(j) \in 0 .. m - 1
    BY ParentIs
  <2>2. Edge(k, t, j)
    BY DEF Ordered
  <2> QED BY <1>6, <2>1, <2>2 DEF Edge
<1>9. Len(g.elems) = m
  BY <1>3, <1>5
<1>10. Good(g, m, S, TRUE)
  BY <1>5, <1>7, <1>9 DEF Good
<1> QED BY <1>8, <1>9, <1>10, Zenon DEF IsHeap, g

(* ptrheap_delete puts the last element in the place of the one to delete. *)
LEMMA Replaced ==
  ASSUME NEW h, NEW t \in [Rec -> Int], NEW S, IsHeap(h, t, S),
         NEW c \in 0 .. Len(h.elems) - 1, c # Len(h.elems) - 1
  PROVE  LET n == Len(h.elems)
             g == setreccookie(Heap([h.elems EXCEPT ![c + 1] = At(h, n - 1)], h.rc), c)
         IN  /\ Good(g, n - 1, S \ {At(h, c)}, TRUE) /\ Len(g.elems) = n
             /\ At(g, c) = At(h, n - 1) /\ At(g, n - 1) = At(h, n - 1)
             /\ \A j \in 0 .. n - 1 : j # c => At(g, j) = At(h, j)
<1> DEFINE n == Len(h.elems)
           x == At(h, n - 1)
           e == [h.elems EXCEPT ![c + 1] = x]
           g == setreccookie(Heap(e, h.rc), c)
<1>1. /\ n \in Nat /\ h.elems \in Seq(Rec) /\ h.rc \in [Rec -> Int]
      /\ Apart(h, n) /\ Cookies(h, n) /\ Members(h, n) = S
      /\ \A j \in 0 .. n - 1 : At(h, j) \in Rec
  BY HeapIs, Zenon
<1>2. x \in Rec /\ c + 1 \in 1 .. n /\ n - 1 \in 0 .. n - 1 /\ n - 1 \in Nat
  BY <1>1
<1> HIDE DEF x
<1>3. /\ e \in Seq(Rec) /\ Len(e) = n /\ e[c + 1] = x
      /\ \A k \in 1 .. n : k # c + 1 => e[k] = h.elems[k]
  BY <1>1, <1>2, SMTT(30)
<1> HIDE DEF e
<1>4. g = [elems |-> e, rc |-> [h.rc EXCEPT ![x] = c]]
  BY <1>3 DEF setreccookie, Heap, At
<1>5. g \in HeapRec /\ g.elems = e /\ g.rc = [h.rc EXCEPT ![x] = c]
  <2> DEFINE f == [h.rc EXCEPT ![x] = c]
  <2>1. f \in [Rec -> Int]
    BY <1>1, <1>2, SMTT(30)
  <2> HIDE DEF f
  <2>2. g = [elems |-> e, rc |-> f]
    BY <1>4 DEF f
  <2> HIDE DEF g
  <2>3. g \in HeapRec /\ g.elems = e /\ g.rc = f
    BY <1>3, <2>1, <2>2 DEF HeapRec
  <2> QED BY <2>3 DEF f
<1> HIDE DEF g
<1>6. At(g, c) = x
  BY <1>3, <1>5 DEF At
<1>7. ASSUME NEW j \in 0 .. n - 1, j # c PROVE At(g, j) = At(h, j)
  <2>1. j + 1 \in 1 .. n /\ j + 1 # c + 1
    <3>1. j \in Int /\ c \in Int /\ n \in Nat /\ j # c /\ 0 <= j /\ j <= n - 1
      BY <1>1, <1>7
    <3> HIDE DEF n
    <3> QED BY <3>1
  <2> QED BY <1>3, <1>5, <2>1 DEF At
<1>8. ASSUME NEW j \in 0 .. n - 2 PROVE j \in 0 .. n - 1 /\ At(h, j) # x /\ At(h, j) \in Rec
  <2>1. j \in 0 .. n - 1 /\ j # n - 1
    BY <1>1, SMTT(30)
  <2>2. At(h, j) # At(h, n - 1)
    BY <1>1, <1>2, <2>1 DEF Apart
  <2> QED BY <1>1, <2>1, <2>2 DEF x
<1>9. Apart(g, n - 1)
  <2> SUFFICES ASSUME NEW j \in 0 .. n - 2, NEW k \in 0 .. n - 2, At(g, j) = At(g, k) PROVE j = k
    BY <1>1, SMTT(30) DEF Apart
  <2>1. CASE j = c /\ k = c
    BY <2>1
  <2>2. CASE j = c /\ k # c
    BY <1>6, <1>7, <1>8, <2>2, Zenon
  <2>3. CASE j # c /\ k = c
    BY <1>6, <1>7, <1>8, <2>3
  <2>4. CASE j # c /\ k # c
    <3>1. At(h, j) = At(h, k) /\ j \in 0 .. n - 1 /\ k \in 0 .. n - 1
      BY <1>7, <1>8, <2>4
    <3> QED BY <1>1, <3>1, Zenon DEF Apart
  <2> QED BY <2>1, <2>2, <2>3, <2>4
<1>10. Members(g, n - 1) = S \ {At(h, c)}
  <2>1. (n - 1) - 1 = n - 2
    BY <1>1
  <2>2. ASSUME NEW j \in 0 .. n - 2 PROVE At(g, j) \in S /\ At(g, j) # At(h, c)
    <3>1. CASE j = c
      <4>1. At(g, j) = x /\ x \in S
        BY <1>1, <1>2, <1>6, <3>1 DEF Members, x
      <4>2. At(h, c) # x
        BY <1>8, <3>1
      <4> QED BY <4>1, <4>2
    <3>2. CASE j # c
      <4>1. At(g, j) = At(h, j) /\ j \in 0 .. n - 1
        BY <1>7, <1>8, <3>2
      <4>2. At(h, j) # At(h, c)
        BY <1>1, <3>2, <4>1, Zenon DEF Apart
      <4> QED BY <1>1, <4>1, <4>2 DEF Members
    <3> QED BY <3>1, <3>2
  <2>3. ASSUME NEW r \in S, r # At(h, c) PROVE \E j \in 0 .. n - 2 : r = At(g, j)
    <3>1. PICK j \in 0 .. n - 1 : r = At(h, j)
      BY <1>1 DEF Members
    <3>2. CASE j = n - 1
      <4>1. c \in 0 .. n - 2 /\ r = x
        BY <1>1, <3>1, <3>2 DEF x
      <4> QED BY <1>6, <4>1
    <3>3. CASE j # n - 1
      <4>1. j \in 0 .. n - 2 /\ j # c
        BY <1>1, <2>3, <3>1, <3>3, SMTT(30)
      <4> QED BY <1>7, <3>1, <4>1
    <3> QED BY <3>2, <3>3
  <2>4. Members(g, n - 1) = {At(g, j) : j \in 0 .. n - 2}
    BY <2>1 DEF Members
  <2> QED BY <2>2, <2>3, <2>4
<1>11. Cookies(g, n - 1)
  <2> SUFFICES ASSUME NEW j \in 0 .. n - 2 PROVE g.rc[At(g, j)] = j
    BY <1>1 DEF Cookies
  <2>1. CASE j = c
    BY <1>1, <1>2, <1>5, <1>6, <2>1
  <2>2. CASE j # c
    <3>1. At(g, j) = At(h, j) /\ At(h, j) # x /\ At(h, j) \in Rec /\ j \in 0 .. n - 1
      BY <1>7, <1>8, <2>2
    <3>2. h.rc[At(h, j)] = j
      BY <1>1, <3>1 DEF Cookies
    <3> QED BY <1>1, <1>5, <3>1, <3>2
  <2> QED BY <2>1, <2>2
<1>12. Len(g.elems) = n
  BY <1>3, <1>5
<1>13. Good(g, n - 1, S \ {At(h, c)}, TRUE)
  <2>1. n - 1 <= Len(g.elems)
    BY <1>1, <1>12
  <2> QED BY <1>2, <1>5, <1>9, <1>10, <1>11, <2>1 DEF Good
<1>14. At(g, n - 1) = x
  BY <1>2, <1>7 DEF x
<1> QED BY <1>6, <1>7, <1>12, <1>13, <1>14, Zenon DEF g, e, x

(* ptrheap_delete: the element that was moved rises or sinks, and never    *)
(* needs to do both.                                                       *)
LEMMA DeleteIs ==
  ASSUME NEW h, NEW t \in [Rec -> Int], NEW S, IsHeap(h, t, S),
         NEW c \in 0 .. Len(h.elems) - 1
  PROVE  /\ IsHeap(ptrheap_delete(h, t, c), t, S \ {At(h, c)})
         /\ Len(ptrheap_delete(h, t, c).elems) = Len(h.elems) - 1
<1> DEFINE n == Len(h.elems)
           m == n - 1
           R == S \ {At(h, c)}
           g == setreccookie(Heap([h.elems EXCEPT ![c + 1] = At(h, n - 1)], h.rc), c)
           up == heapifyup(swap(g, c, parent(c)), t, parent(c))
           down == heapify(g, t, c, n)
           k == IF c = n - 1 THEN h ELSE IF c > 0 /\ Less(g, t, c, parent(c)) THEN up ELSE down
<1>1. /\ n \in Nat /\ h \in HeapRec /\ Apart(h, n) /\ Cookies(h, n) /\ Members(h, n) = S
      /\ \A j \in 0 .. n - 1 : At(h, j) \in Rec /\ t[At(h, j)] \in Int
  BY HeapIs
<1>2. Ordered(h, t, 0, n)
  BY DEF IsHeap
<1>3. m \in Nat /\ m < n /\ n = m + 1 /\ n \in Nat /\ c \in 0 .. n - 1
  BY <1>1
<1>4. ptrheap_delete(h, t, c) = Heap(SubSeq(k.elems, 1, m), k.rc)
  BY DEF ptrheap_delete
<1> HIDE DEF n
<1>5. \A j \in 1 .. n - 1 : Edge(h, t, j)
  <2> TAKE j \in 1 .. n - 1
  <2>1. j \in Nat \ {0} /\ j \in 1 .. n - 1
    BY <1>3
  <2>2. parent(j) >= 0
    BY <2>1, ParentIs
  <2> QED BY <1>2, <2>1, <2>2 DEF Ordered
<1>6. CASE c = n - 1
  <2>1. k = h
    BY <1>6
  <2>2. Apart(h, m) /\ Cookies(h, m)
    <3>1. \A j \in 0 .. m - 1 : j \in 0 .. n - 1
      BY <1>3
    <3> QED BY <1>1, <3>1 DEF Apart, Cookies
  <2>3. Members(h, m) = R
    <3>1. \A j \in 0 .. n - 1 : j \in 0 .. m - 1 \/ j = c
      BY <1>3, <1>6
    <3>2. \A j \in 0 .. m - 1 : j \in 0 .. n - 1 /\ j # c
      BY <1>3, <1>6
    <3>3. \A j \in 0 .. m - 1 : At(h, j) # At(h, c)
      BY <1>1, <1>3, <3>2 DEF Apart
    <3> QED BY <1>1, <3>1, <3>2, <3>3 DEF Members
  <2>4. Good(h, m, R, TRUE)
    <3>1. m <= Len(h.elems)
      BY <1>3 DEF n
    <3> HIDE DEF m
    <3> QED BY <1>1, <1>3, <2>2, <2>3, <3>1 DEF Good
  <2>5. Ordered(h, t, 0, m)
    <3>1. \A j \in 1 .. m - 1 : j \in 1 .. n - 1
      BY <1>3
    <3> QED BY <1>5, <3>1 DEF Ordered
  <2> HIDE DEF m, R
  <2>6. IsHeap(Heap(SubSeq(h.elems, 1, m), h.rc), t, R) /\ Len(Heap(SubSeq(h.elems, 1, m), h.rc).elems) = m
    BY <1>3, <2>4, <2>5, Shortened, Zenon
  <2> QED BY <1>4, <2>1, <2>6 DEF m, R, n
<1>7. CASE c # n - 1
  <2>1. /\ Good(g, m, R, TRUE) /\ Len(g.elems) = n
        /\ At(g, c) = At(h, m) /\ At(g, m) = At(h, m)
        /\ \A j \in 0 .. n - 1 : j # c => At(g, j) = At(h, j)
    BY <1>7, Replaced, Zenon DEF n
  <2>2. c \in 0 .. m - 1 /\ c \in Nat /\ c <= m - 1
    BY <1>3, <1>7
  <2>3. ASSUME NEW j \in 0 .. m - 1 PROVE j \in 0 .. n - 1 /\ (j # c => At(g, j) = At(h, j)) /\ t[At(g, j)] \in Int /\ t[At(h, j)] \in Int
    <3>1. j \in 0 .. n - 1 /\ m \in 0 .. n - 1
      BY <1>3
    <3> QED BY <1>1, <2>1, <3>1, Zenon
  <2> HIDE DEF g, R
  <2>4. ASSUME NEW j \in 1 .. m - 1 PROVE j \in 1 .. n - 1 /\ j \in 0 .. m - 1 /\ parent(j) \in 0 .. m - 1 /\ parent(j) # j
    <3>1. j \in Nat \ {0} /\ j \in 1 .. n - 1 /\ j \in 0 .. m - 1
      BY <1>3
    <3>2. parent(j) \in Nat /\ parent(j) < j
      BY <3>1, ParentIs
    <3> QED BY <1>3, <3>1, <3>2
  <2>5. \A j \in 1 .. m - 1 : j # c /\ parent(j) # c => Edge(g, t, j)
    BY <1>5, <2>3, <2>4 DEF Edge
  <2>6. ASSUME c # 0, NEW j \in 1 .. m - 1, parent(j) = c PROVE t[At(g, parent(c))] <= t[At(g, j)]
    <3>1. c \in 1 .. m - 1 /\ parent(c) \in 0 .. m - 1 /\ parent(c) # c /\ j # c /\ j \in 0 .. m - 1
      BY <2>2, <2>4, <2>6
    <3>2. Edge(h, t, c) /\ Edge(h, t, j)
      BY <1>5, <2>4, <3>1
    <3>3. t[At(h, parent(c))] <= t[At(h, c)] /\ t[At(h, c)] <= t[At(h, j)]
      BY <2>6, <3>2 DEF Edge
    <3>4. t[At(h, parent(c))] \in Int /\ t[At(h, c)] \in Int /\ t[At(h, j)] \in Int
      BY <2>2, <2>3, <3>1
    <3>5. t[At(h, parent(c))] <= t[At(h, j)]
      BY <3>3, <3>4
    <3> QED BY <2>3, <3>1, <3>5
  <2>7. /\ Good(k, m, R, TRUE) /\ Len(k.elems) = n /\ Ordered(k, t, 0, m)
    <3>1. CASE c > 0 /\ Less(g, t, c, parent(c))
      <4>1. k = up /\ c # 0
        BY <1>7, <2>2, <3>1
      <4>2. Rises(g, t, c, m)
        <5>1. ASSUME NEW j \in 1 .. m - 1, j # c PROVE Edge(g, t, j)
          <6>1. CASE parent(j) # c
            BY <2>5, <5>1, <6>1
          <6>2. CASE parent(j) = c
            <7>1. t[At(g, parent(c))] <= t[At(g, j)]
              BY <2>6, <4>1, <6>2
            <7>2. t[At(g, c)] < t[At(g, parent(c))]
              BY <3>1 DEF Less
            <7>3. c \in 1 .. m - 1
              BY <2>2, <4>1
            <7>4. t[At(g, c)] \in Int /\ t[At(g, j)] \in Int /\ t[At(g, parent(c))] \in Int
              BY <2>2, <2>3, <2>4, <7>3
            <7>5. t[At(g, c)] <= t[At(g, j)]
              BY <7>1, <7>2, <7>4
            <7> QED BY <6>2, <7>5 DEF Edge
          <6> QED BY <6>1, <6>2
        <5> QED BY <2>2, <2>6, <5>1 DEF Rises
      <4> DEFINE w == swap(g, c, parent(c))
                 p == parent(c)
      <4>3. Good(w, m, R, TRUE) /\ Len(w.elems) = Len(g.elems) /\ Rises(w, t, p, m)
        <5> HIDE DEF m
        <5> QED BY <2>1, <3>1, <4>1, <4>2, UpStep, Zenon
      <4>4. up = heapifyup(w, t, p)
        OBVIOUS
      <4> HIDE DEF w, p, up, m
      <4>5. Good(heapifyup(w, t, p), m, R, TRUE) /\ Len(heapifyup(w, t, p).elems) = Len(w.elems)
            /\ Ordered(heapifyup(w, t, p), t, 0, m)
        BY <4>3, HeapifyupIs, Zenon
      <4> HIDE DEF k
      <4> QED BY <2>1, <4>1, <4>3, <4>4, <4>5, Zenon
    <3>2. CASE ~(c > 0 /\ Less(g, t, c, parent(c)))
      <4>1. k = down
        BY <1>7, <3>2
      <4>2. c # 0 => Edge(g, t, c)
        <5> SUFFICES ASSUME c # 0 PROVE Edge(g, t, c)
          OBVIOUS
        <5>1. c \in 1 .. m - 1
          BY <2>2
        <5>2. t[At(g, c)] \in Int /\ t[At(g, parent(c))] \in Int
          BY <2>2, <2>3, <2>4, <5>1
        <5>3. ~(t[At(g, c)] < t[At(g, parent(c))])
          BY <2>2, <3>2 DEF Less
        <5> HIDE DEF g
        <5> QED BY <5>2, <5>3 DEF Edge
      <4>3. Sinks(g, t, c, 0, m)
        <5>1. \A j \in 1 .. m - 1 : parent(j) >= 0 /\ parent(j) # c => Edge(g, t, j)
          <6> TAKE j \in 1 .. m - 1
          <6> HAVE parent(j) >= 0 /\ parent(j) # c
          <6>1. CASE j = c
            <7>1. c # 0
              BY <6>1
            <7> QED BY <4>2, <6>1, <7>1
          <6>2. CASE j # c
            BY <2>5, <6>2
          <6> QED BY <6>1, <6>2
        <5> HIDE DEF m
        <5> QED BY <2>2, <2>6, <5>1 DEF Sinks
      <4>4. Moving(g, c, m, n)
        BY <1>3, <2>1 DEF Moving
      <4> HIDE DEF m
      <4>5. Good(down, m, R, TRUE) /\ Len(down.elems) = Len(g.elems) /\ Ordered(down, t, 0, m)
        <5> DEFINE d == heapify(g, t, c, n)
        <5>1. PICK z \in Nat : z = 0
          OBVIOUS
        <5>2. PICK yes \in BOOLEAN : yes = TRUE
          BY Zenon
        <5>3. Sinks(g, t, c, z, m) /\ Good(g, m, R, yes)
          BY <2>1, <4>3, <5>1, <5>2, Zenon
        <5>4. Good(d, m, R, yes) /\ Len(d.elems) = Len(g.elems) /\ Ordered(d, t, z, m)
          BY ONLY t \in [Rec -> Int], <4>4, <5>3, HeapifyIs
        <5> QED BY <5>1, <5>2, <5>4, Zenon
      <4> HIDE DEF k, down
      <4> QED BY <2>1, <4>1, <4>5, Zenon
    <3> QED BY <3>1, <3>2, Zenon
  <2> HIDE DEF k, m
  <2>8. IsHeap(Heap(SubSeq(k.elems, 1, m), k.rc), t, R) /\ Len(Heap(SubSeq(k.elems, 1, m), k.rc).elems) = m
    BY <1>3, <2>7, Shortened, Zenon
  <2> QED BY <1>4, <2>8 DEF m, R, n
<1> QED BY <1>6, <1>7

(* The first element is one of the least, by induction over the positions. *)
LEMMA MinIs ==
  ASSUME NEW h, NEW t \in [Rec -> Int], NEW S, IsHeap(h, t, S), h.elems # <<>>
  PROVE  /\ Len(h.elems) > 0 /\ 0 \in 0 .. Len(h.elems) - 1
         /\ At(h, 0) \in S /\ At(h, 0) \in Rec /\ ptrheap_getmin(h) = At(h, 0)
         /\ \A q \in S : t[At(h, 0)] <= t[q]
<1> DEFINE n == Len(h.elems)
           v(j) == t[At(h, j)]
           E == {m \in Nat : \A j \in 0 .. n - 1 : j <= m => v(0) <= v(j)}
<1>1. /\ n \in Nat /\ h.elems \in Seq(Rec) /\ Members(h, n) = S
      /\ \A j \in 0 .. n - 1 : At(h, j) \in Rec /\ At(h, j) \in S /\ v(j) \in Int
      /\ \A j \in 1 .. n - 1 : parent(j) \in 0 .. n - 1 /\ parent(j) < j /\ v(parent(j)) <= v(j)
  BY HeapIs, Zenon
<1>2. n # 0
  <2>1. h.elems \in Seq(Rec) /\ h.elems # <<>>
    BY <1>1
  <2> QED BY <2>1
<1>3. n > 0 /\ 0 \in 0 .. n - 1 /\ v(0) \in Int
  <2>1. n > 0 /\ 0 \in 0 .. n - 1
    BY <1>1, <1>2
  <2> QED BY <1>1, <2>1
<1> HIDE DEF n, v
<1>4. 0 \in E
  BY <1>3
<1>5. ASSUME NEW m \in Nat, m \in E PROVE m + 1 \in E
  <2> SUFFICES ASSUME NEW j \in 0 .. n - 1, j <= m + 1 PROVE v(0) <= v(j)
    OBVIOUS
  <2>1. CASE j = 0
    BY <1>3, <2>1
  <2>2. CASE j # 0
    <3>1. j \in 1 .. n - 1 /\ j \in Int
      BY <2>2
    <3>2. parent(j) \in 0 .. n - 1 /\ parent(j) < j /\ v(parent(j)) <= v(j)
      BY <1>1, <3>1
    <3>3. parent(j) <= m
      BY <3>1, <3>2
    <3>4. v(0) <= v(parent(j))
      BY <1>5, <3>2, <3>3
    <3>5. v(parent(j)) \in Int /\ v(j) \in Int
      BY <1>1, <3>2
    <3> QED BY <1>3, <3>2, <3>4, <3>5
  <2> QED BY <2>1, <2>2
<1> HIDE DEF E
<1>6. \A m \in Nat : m \in E
  BY <1>4, <1>5, SetInduction
<1>7. \A j \in 0 .. n - 1 : v(0) <= v(j)
  <2> TAKE j \in 0 .. n - 1
  <2>1. j \in Nat /\ j <= j
    BY <1>1
  <2>2. j \in E
    BY <1>6, <2>1
  <2> QED BY <2>1, <2>2 DEF E
<1>8. \A q \in S : v(0) <= t[q]
  BY <1>1, <1>7 DEF Members, v
<1>9. ptrheap_getmin(h) = At(h, 0)
  BY DEF ptrheap_getmin
<1> QED BY <1>1, <1>3, <1>8, <1>9 DEF n, v

(* ptrheap_getmin returns NULL for an empty heap only.                     *)
LEMMA NoneIs ==
  ASSUME NEW h, NEW t \in [Rec -> Int], NEW S, IsHeap(h, t, S)
  PROVE  /\ ptrheap_getmin(h) = NULL <=> Len(h.elems) = 0
         /\ Len(h.elems) = 0 => S = {}
<1>1. Len(h.elems) \in Nat /\ h.elems \in Seq(Rec) /\ Members(h, Len(h.elems)) = S
  BY HeapIs
<1>2. Len(h.elems) = 0 <=> h.elems = <<>>
  <2>1. h.elems \in Seq(Rec)
    BY <1>1
  <2> QED BY <2>1
<1>3. h.elems # <<>> => ptrheap_getmin(h) \in Rec
  BY MinIs, Zenon
<1>4. Len(h.elems) = 0 => S = {}
  <2> SUFFICES ASSUME Len(h.elems) = 0 PROVE S = {}
    OBVIOUS
  <2>1. Members(h, 0) = S
    BY <1>1
  <2>2. 0 .. 0 - 1 = {}
    OBVIOUS
  <2> QED BY <2>1, <2>2 DEF Members
<1> QED BY <1>2, <1>3, <1>4, QueueAssumption DEF ptrheap_getmin

(* timerqueue_free empties the heap.                                       *)
LEMMA FreeIs ==
  ASSUME NEW h, NEW t \in [Rec -> Int], NEW S \in SUBSET Rec, IsHeap(h, t, S)
  PROVE  IsHeap(empty(h, t), t, {})
<1> DEFINE n == Len(h.elems)
           G == [k \in 0 .. n |->
                   {g \in HeapRec : /\ Len(g.elems) = n - k
                                    /\ \E T \in SUBSET Rec : IsHeap(g, t, T)}]
           turn(g) == IF ptrheap_getmin(g) = NULL THEN g ELSE ptrheap_deletemin(g, t)
<1>1. n \in Nat /\ h \in HeapRec
  BY HeapIs
<1>2. h \in G[0]
  BY <1>1
<1>3. ASSUME NEW k \in 1 .. n, NEW g \in G[k - 1] PROVE turn(g) \in G[k]
  <2>1. k - 1 \in 0 .. n /\ k \in 0 .. n
    BY <1>1
  <2>2. G[k - 1] = {f \in HeapRec : /\ Len(f.elems) = n - (k - 1)
                                    /\ \E T \in SUBSET Rec : IsHeap(f, t, T)}
    BY <2>1, Zenon
  <2>3. PICK T \in SUBSET Rec : IsHeap(g, t, T)
    BY <2>2
  <2>4. Len(g.elems) = n - (k - 1) /\ g \in HeapRec
    BY <2>2, Zenon
  <2> HIDE DEF G
  <2>5. Len(g.elems) # 0 /\ Len(g.elems) - 1 = n - k /\ 0 \in 0 .. Len(g.elems) - 1
    BY <1>1, <2>4
  <2>6. ptrheap_getmin(g) # NULL
    BY <2>3, <2>5, NoneIs
  <2> DEFINE d == ptrheap_delete(g, t, 0)
             z == 0
  <2>7. turn(g) = d
    BY <2>6 DEF ptrheap_deletemin
  <2>8. IsHeap(d, t, T \ {At(g, 0)}) /\ Len(d.elems) = Len(g.elems) - 1
    BY <2>3, <2>5, DeleteIs, Zenon
  <2> HIDE DEF d
  <2>9. d \in HeapRec
    BY <2>8, HeapIs
  <2>10. T \ {At(g, 0)} \in SUBSET Rec
    OBVIOUS
  <2>11. d \in {f \in HeapRec : /\ Len(f.elems) = n - k
                                /\ \E U \in SUBSET Rec : IsHeap(f, t, U)}
    BY <2>5, <2>8, <2>9, <2>10
  <2> QED BY <2>1, <2>7, <2>11, Zenon DEF G
<1>4. n \in 0 .. n
  BY <1>1
<1>5. G[n] = {g \in HeapRec : Len(g.elems) = n - n /\ \E T \in SUBSET Rec : IsHeap(g, t, T)}
  BY <1>4, Zenon
<1> HIDE DEF G, n
<1>6. \A k \in 1 .. n : \A g \in G[k - 1] : turn(g) \in G[k]
  BY <1>3
<1>7. empty(h, t) \in G[n]
  BY <1>1, <1>2, <1>6, FreeLoop DEF n
<1> DEFINE f == empty(h, t)
<1> HIDE DEF f
<1>8. f \in G[n]
  BY <1>7 DEF f
<1>9. PICK T \in SUBSET Rec : IsHeap(f, t, T)
  BY <1>5, <1>8
<1>10. Len(f.elems) = 0
  BY <1>1, <1>5, <1>8
<1>11. T = {}
  BY <1>9, <1>10, NoneIs
<1> QED BY <1>9, <1>11 DEF f

(* The inductive invariant of the queue.                                   *)
TimerInv ==
    /\ tv \in [Rec -> Int]
    /\ IsHeap(H, tv, InQueue)
    /\ \A r \in Rec \ InQueue : tv[r] = 0

(* The parts of a heap.                                                    *)
LEMMA HeapParts ==
  ASSUME NEW e, NEW c
  PROVE  Heap(e, c).elems = e /\ Heap(e, c).rc = c
BY DEF Heap

(* The records of a heap, by the indices of the array.                     *)
LEMMA MembersAre ==
  ASSUME NEW h \in HeapRec
  PROVE  Members(h, Len(h.elems)) = {h.elems[i] : i \in DOMAIN h.elems}
<1> DEFINE n == Len(h.elems)
<1>1. h.elems \in Seq(Rec)
  BY DEF HeapRec
<1>2. n \in Nat /\ DOMAIN h.elems = 1 .. n
  BY <1>1
<1>3. \A j \in 0 .. n - 1 : j + 1 \in 1 .. n
  BY <1>2
<1>4. \A i \in 1 .. n : i - 1 \in 0 .. n - 1 /\ (i - 1) + 1 = i
  BY <1>2
<1> HIDE DEF n
<1>5. \A j \in 0 .. n - 1 : At(h, j) \in {h.elems[i] : i \in 1 .. n}
  BY <1>3 DEF At
<1>6. ASSUME NEW i \in 1 .. n PROVE h.elems[i] \in {At(h, j) : j \in 0 .. n - 1}
  <2>1. At(h, i - 1) = h.elems[i]
    BY <1>4 DEF At
  <2> QED BY <1>4, <2>1
<1>7. {At(h, j) : j \in 0 .. n - 1} = {h.elems[i] : i \in 1 .. n}
  BY <1>5, <1>6
<1> QED BY <1>2, <1>7, Zenon DEF Members, n

(* A heap does not depend on the cookies and times of other records.       *)
LEMMA SameHeap ==
  ASSUME NEW h, NEW t \in [Rec -> Int], NEW S, IsHeap(h, t, S),
         NEW c \in [Rec -> Int], NEW s \in [Rec -> Int],
         \A r \in S : c[r] = h.rc[r] /\ s[r] = t[r]
  PROVE  IsHeap(Heap(h.elems, c), s, S)
<1> DEFINE n == Len(h.elems)
           g == Heap(h.elems, c)
<1>1. /\ n \in Nat /\ h \in HeapRec /\ h.elems \in Seq(Rec)
      /\ Apart(h, n) /\ Cookies(h, n) /\ Members(h, n) = S
      /\ \A j \in 0 .. n - 1 : At(h, j) \in Rec /\ At(h, j) \in S
      /\ \A j \in 1 .. n - 1 : parent(j) \in 0 .. n - 1 /\ t[At(h, parent(j))] <= t[At(h, j)]
  BY HeapIs, Zenon
<1>2. g = [elems |-> h.elems, rc |-> c]
  BY DEF Heap
<1>3. g \in HeapRec /\ g.elems = h.elems /\ g.rc = c /\ Len(g.elems) = n
  <2> HIDE DEF g
  <2>1. g \in HeapRec /\ g.elems = h.elems /\ g.rc = c
    BY <1>1, <1>2 DEF HeapRec
  <2> QED BY <2>1
<1> HIDE DEF g, n
<1>4. \A j : At(g, j) = At(h, j)
  BY <1>3 DEF At
<1>5. Apart(g, n) /\ Members(g, n) = S
  BY <1>1, <1>4, SMTT(30) DEF Apart, Members
<1>6. Cookies(g, n)
  BY <1>1, <1>3, <1>4, Zenon DEF Cookies
<1>7. Ordered(g, s, 0, n)
  <2> SUFFICES ASSUME NEW j \in 1 .. n - 1 PROVE Edge(g, s, j)
    BY DEF Ordered
  <2>1. j \in 0 .. n - 1 /\ parent(j) \in 0 .. n - 1 /\ t[At(h, parent(j))] <= t[At(h, j)]
    BY <1>1, SMTT(30)
  <2>2. s[At(h, j)] = t[At(h, j)] /\ s[At(h, parent(j))] = t[At(h, parent(j))]
    BY <1>1, <2>1
  <2> QED BY <1>4, <2>1, <2>2 DEF Edge
<1>8. n <= Len(g.elems)
  BY <1>1, <1>3
<1>9. Good(g, n, S, TRUE)
  BY <1>1, <1>3, <1>5, <1>6, <1>8 DEF Good
<1> QED BY <1>3, <1>7, <1>9, Zenon DEF IsHeap, g

(* After an operation that gives a heap of the records S.                  *)
LEMMA BecomesHeap ==
  ASSUME NEW h, NEW t \in [Rec -> Int], NEW S, IsHeap(h, t, S), Becomes(h, t)
  PROVE  /\ TimerInv' /\ InQueue' = S
         /\ \A q \in Rec : tv'[q] = IF q \in S THEN t[q] ELSE 0
<1>1. h \in HeapRec /\ h.rc \in [Rec -> Int] /\ Members(h, Len(h.elems)) = S
  BY HeapIs, Zenon
<1>2. S = {h.elems[i] : i \in DOMAIN h.elems}
  BY <1>1, MembersAre, Zenon
<1>3. /\ elems' = h.elems
      /\ rc' = [r \in Rec |-> IF r \in S THEN h.rc[r] ELSE 0]
      /\ tv' = [r \in Rec |-> IF r \in S THEN t[r] ELSE 0]
  BY <1>2 DEF Becomes
<1>4. rc' \in [Rec -> Int] /\ tv' \in [Rec -> Int]
  BY <1>1, <1>3
<1>5. S \subseteq Rec
  <2>1. h.elems \in Seq(Rec)
    BY <1>1 DEF HeapRec
  <2>2. \A i \in DOMAIN h.elems : h.elems[i] \in Rec
    BY <2>1
  <2> QED BY <1>2, <2>2
<1>6. \A r \in S : rc'[r] = h.rc[r] /\ tv'[r] = t[r]
  BY <1>3, <1>5
<1> DEFINE c == rc'
           s == tv'
<1> HIDE DEF c, s
<1>7. c \in [Rec -> Int] /\ s \in [Rec -> Int] /\ \A r \in S : c[r] = h.rc[r] /\ s[r] = t[r]
  BY <1>4, <1>6 DEF c, s
<1>8. IsHeap(Heap(h.elems, c), s, S)
  BY <1>1, <1>7, SameHeap, Zenon
<1>9. InQueue' = S
  BY <1>2, <1>3 DEF InQueue
<1>10. H' = Heap(h.elems, c)
  BY <1>3 DEF H, c
<1>11. IsHeap(H, tv, InQueue)'
  <2> DEFINE g == H'
             T == InQueue'
  <2>1. g = Heap(h.elems, c) /\ T = S
    BY <1>9, <1>10, Zenon
  <2> HIDE DEF g, T
  <2>2. IsHeap(g, s, T)
    BY <1>8, <2>1, Zenon
  <2> QED BY <2>2, Zenon DEF IsHeap, Good, Ordered, Edge, Apart, Members, Cookies, At, HeapRec,
       parent, s, g, T
<1>12. \A q \in Rec : tv'[q] = IF q \in S THEN t[q] ELSE 0
  BY <1>3
<1> QED BY <1>4, <1>9, <1>11, <1>12 DEF TimerInv

(* The cookie of a record in the queue is its position.                    *)
LEMMA QueueIs ==
  ASSUME TimerInv
  PROVE  /\ InQueue \subseteq Rec /\ elems \in Seq(Rec)
         /\ InQueue = {At(H, j) : j \in 0 .. Len(elems) - 1}
         /\ \A r \in InQueue : rc[r] \in 0 .. Len(elems) - 1 /\ At(H, rc[r]) = r
<1>1. H.elems = elems /\ H.rc = rc
  BY HeapParts DEF H
<1>2. tv \in [Rec -> Int] /\ IsHeap(H, tv, InQueue)
  BY DEF TimerInv
<1> DEFINE n == Len(elems)
<1>3. n \in Nat /\ elems \in Seq(Rec) /\ Cookies(H, n) /\ Members(H, n) = InQueue
      /\ \A j \in 0 .. n - 1 : At(H, j) \in Rec
  BY <1>1, <1>2, HeapIs, Zenon
<1> HIDE DEF n
<1>4. \A j \in 0 .. n - 1 : rc[At(H, j)] = j
  BY <1>1, <1>3 DEF Cookies
<1>5. InQueue = {At(H, j) : j \in 0 .. n - 1}
  BY <1>3 DEF Members
<1>6. \A r \in InQueue : rc[r] \in 0 .. n - 1 /\ At(H, rc[r]) = r
  BY <1>4, <1>5
<1>7. InQueue \subseteq Rec
  BY <1>3, <1>5
<1> QED BY <1>3, <1>5, <1>6, <1>7 DEF n

(* The invariant says what HeapIsSound says.                               *)
LEMMA TimerSound ==
  ASSUME TimerInv
  PROVE  HeapIsSound
<1>1. H.elems = elems /\ H.rc = rc
  BY HeapParts DEF H
<1>2. tv \in [Rec -> Int] /\ IsHeap(H, tv, InQueue)
  BY DEF TimerInv
<1> DEFINE n == Len(elems)
<1>3. /\ n \in Nat /\ elems \in Seq(Rec) /\ Cookies(H, n)
      /\ \A j \in 0 .. n - 1 : tv[At(H, j)] \in Int
      /\ \A j \in 1 .. n - 1 : parent(j) \in 0 .. n - 1 /\ tv[At(H, parent(j))] <= tv[At(H, j)]
  BY <1>1, <1>2, HeapIs, Zenon
<1>4. DOMAIN elems = 1 .. n
  BY <1>3
<1> HIDE DEF n
<1>5. ASSUME NEW i \in 1 .. n PROVE rc[elems[i]] = i - 1
  <2>1. i - 1 \in 0 .. n - 1 /\ (i - 1) + 1 = i
    BY <1>3
  <2>2. At(H, i - 1) = elems[i]
    BY <1>1, <2>1 DEF At
  <2> QED BY <1>1, <1>3, <2>1, <2>2 DEF Cookies
<1>6. ASSUME NEW j \in 1 .. n - 1 PROVE ~Less(H, tv, j, parent(j))
  <2>1. j \in 0 .. n - 1
    BY <1>3
  <2>2. tv[At(H, j)] \in Int /\ tv[At(H, parent(j))] \in Int /\ tv[At(H, parent(j))] <= tv[At(H, j)]
    BY <1>3, <2>1
  <2>3. ~(tv[At(H, j)] < tv[At(H, parent(j))])
    BY <2>2
  <2> QED BY <2>3 DEF Less
<1> QED BY <1>4, <1>5, <1>6 DEF HeapIsSound, HeapProperty, CookiesAreRight, n

(* A heap that was just created.                                           *)
LEMMA TimerInit ==
  QueueInit => TimerInv /\ Queue!Init
<1> SUFFICES ASSUME QueueInit PROVE TimerInv /\ Queue!Init
  OBVIOUS
<1>1. PICK n \in 0 .. MaxCreate : \E p \in [1 .. n -> Rec] :
          /\ \A i, j \in 1 .. n : p[i] = p[j] => i = j
          /\ \E times \in [1 .. n -> Time] :
                tv = [r \in Rec |-> IF \E i \in 1 .. n : p[i] = r
                                    THEN times[CHOOSE i \in 1 .. n : p[i] = r] ELSE 0]
          /\ elems = ptrheap_create(p, tv).elems
          /\ rc = ptrheap_create(p, tv).rc
  BY Zenon DEF QueueInit
<1>2. PICK p \in [1 .. n -> Rec] :
          /\ \A i, j \in 1 .. n : p[i] = p[j] => i = j
          /\ \E times \in [1 .. n -> Time] :
                tv = [r \in Rec |-> IF \E i \in 1 .. n : p[i] = r
                                    THEN times[CHOOSE i \in 1 .. n : p[i] = r] ELSE 0]
          /\ elems = ptrheap_create(p, tv).elems
          /\ rc = ptrheap_create(p, tv).rc
  BY <1>1, Zenon
<1> DEFINE S == {p[i] : i \in 1 .. n}
<1>3. PICK times \in [1 .. n -> Time] :
          tv = [r \in Rec |-> IF \E i \in 1 .. n : p[i] = r
                              THEN times[CHOOSE i \in 1 .. n : p[i] = r] ELSE 0]
  BY <1>2
<1>4. n \in Nat /\ Time \subseteq Int
  BY QueueAssumption DEF Time
<1>5. tv \in [Rec -> Int] /\ \A r \in Rec \ S : tv[r] = 0
  <2>1. ASSUME NEW r \in Rec, \E i \in 1 .. n : p[i] = r
        PROVE  times[CHOOSE i \in 1 .. n : p[i] = r] \in Int
    <3> DEFINE w == CHOOSE i \in 1 .. n : p[i] = r
    <3>1. w \in 1 .. n
      BY <2>1
    <3> HIDE DEF w
    <3>2. times[w] \in Int
      BY <1>4, <3>1, Zenon
    <3> QED BY <3>2 DEF w
  <2>2. \A r \in Rec : tv[r] = IF \E i \in 1 .. n : p[i] = r
                               THEN times[CHOOSE i \in 1 .. n : p[i] = r] ELSE 0
    BY <1>3
  <2>3. ASSUME NEW r \in Rec PROVE tv[r] \in Int
    <3>1. CASE \E i \in 1 .. n : p[i] = r
      <4> DEFINE v == times[CHOOSE i \in 1 .. n : p[i] = r]
      <4>1. v \in Int
        BY <2>1, <3>1
      <4>2. tv[r] = v
        BY <2>2, <3>1
      <4> HIDE DEF v
      <4> QED BY <4>1, <4>2
    <3>2. CASE ~\E i \in 1 .. n : p[i] = r
      BY <2>2, <3>2
    <3> QED BY <3>1, <3>2
  <2>4. \A r \in Rec \ S : tv[r] = 0
    BY <2>2
  <2>5. \E f : tv = [r \in Rec |-> f[r]]
    <3>1. tv = [r \in Rec |-> tv[r]]
      BY <1>3
    <3> QED BY <3>1
  <2> QED BY <2>3, <2>4, <2>5
<1> DEFINE c == ptrheap_create(p, tv)
<1>6. IsHeap(c, tv, S)
  BY <1>2, <1>4, <1>5, CreateIs, Zenon
<1>7. c = H
  <2>1. c.elems = elems /\ c.rc = rc
    BY <1>2
  <2>2. c \in HeapRec
    BY <1>5, <1>6, HeapIs
  <2> HIDE DEF c
  <2>3. c = [elems |-> c.elems, rc |-> c.rc]
    BY <2>2 DEF HeapRec
  <2> QED BY <2>1, <2>3 DEF H, Heap
<1>8. S = InQueue
  <2>1. Members(H, Len(H.elems)) = S /\ H \in HeapRec
    BY <1>5, <1>6, <1>7, HeapIs
  <2>2. H.elems = elems
    BY HeapParts DEF H
  <2> QED BY <2>1, <2>2, MembersAre, Zenon DEF InQueue
<1>9. TimerInv
  BY <1>5, <1>6, <1>7, <1>8 DEF TimerInv
<1>10. InQueue \in SUBSET Rec /\ out = NULL
  BY <1>9, QueueIs DEF QueueInit
<1> QED BY <1>5, <1>9, <1>10 DEF Queue!Init

(* Nothing has changed.                                                    *)
LEMMA TimerRests ==
  ASSUME TimerInv, elems' = elems, rc' = rc, tv' = tv
  PROVE  TimerInv' /\ InQueue' = InQueue
<1>1. H' = H /\ InQueue' = InQueue
  BY DEF H, InQueue
<1>2. IsHeap(H, tv, InQueue)'
  BY <1>1 DEF TimerInv, IsHeap, Good, Ordered, Edge, Apart, Members, Cookies, At, HeapRec, parent
<1> QED BY <1>1, <1>2 DEF TimerInv

(* Every operation keeps the invariant, and does what the abstract queue   *)
(* does.                                                                   *)
LEMMA TimerStep ==
  ASSUME TimerInv, [QueueNext]_queuevars
  PROVE  TimerInv' /\ [Queue!Next]_(Queue!vars)
<1>1. /\ tv \in [Rec -> Int] /\ IsHeap(H, tv, InQueue)
      /\ \A r \in Rec \ InQueue : tv[r] = 0
  BY DEF TimerInv
<1>2. /\ InQueue \subseteq Rec /\ elems \in Seq(Rec)
      /\ \A r \in InQueue : rc[r] \in 0 .. Len(elems) - 1 /\ At(H, rc[r]) = r
  BY QueueIs
<1>3. H.elems = elems /\ Time \subseteq Int
  BY HeapParts, QueueAssumption DEF H, Time
<1>4. ASSUME NEW r \in Rec, NEW t \in Time, timerqueue_add(r, t)
      PROVE  TimerInv' /\ Queue!Add(r)
  <2> DEFINE s == [tv EXCEPT ![r] = t]
             g == ptrheap_add(H, s, r)
  <2>1. r \notin InQueue /\ Becomes(g, s) /\ out' = NULL
    BY <1>4 DEF timerqueue_add
  <2>2. s \in [Rec -> Int] /\ \A q \in Rec \ {r} : s[q] = tv[q]
    BY <1>1, <1>3
  <2>3. IsHeap(g, s, InQueue \cup {r})
    BY <1>1, <1>3, <2>1, AddIs, Zenon
  <2> HIDE DEF g, s
  <2>4. /\ TimerInv' /\ InQueue' = InQueue \cup {r}
        /\ \A q \in Rec : tv'[q] = IF q \in InQueue \cup {r} THEN s[q] ELSE 0
    BY <2>1, <2>2, <2>3, BecomesHeap
  <2>5. \A q \in Rec \ {r} : tv'[q] = tv[q]
    BY <1>1, <2>2, <2>4
  <2> QED BY <2>1, <2>4, <2>5 DEF Queue!Add, Queue!Same
<1>5. ASSUME NEW r \in Rec, NEW t \in Time, timerqueue_increase(r, t)
      PROVE  TimerInv' /\ Queue!Change(r)
  <2> DEFINE s == [tv EXCEPT ![r] = t]
             g == ptrheap_increase(H, s, rc[r])
             c == rc[r]
  <2>1. r \in InQueue /\ t >= tv[r] /\ Becomes(g, s) /\ out' = NULL
    BY <1>5 DEF timerqueue_increase
  <2>2. s \in [Rec -> Int] /\ \A q \in Rec \ {r} : s[q] = tv[q]
    BY <1>1, <1>3
  <2>3. c \in 0 .. Len(H.elems) - 1 /\ At(H, c) = r
    BY <1>2, <1>3, <2>1
  <2>4. IsHeap(g, s, InQueue)
    <3> HIDE DEF c
    <3>1. t \in Int /\ t >= tv[At(H, c)]
      BY <1>3, <2>1, <2>3
    <3>2. IsHeap(ptrheap_increase(H, [tv EXCEPT ![At(H, c)] = t], c), [tv EXCEPT ![At(H, c)] = t], InQueue)
      BY <1>1, <2>3, <3>1, IncreaseIs, Zenon
    <3> QED BY <2>3, <3>2 DEF c
  <2> HIDE DEF g, s
  <2>5. /\ TimerInv' /\ InQueue' = InQueue
        /\ \A q \in Rec : tv'[q] = IF q \in InQueue THEN s[q] ELSE 0
    BY <2>1, <2>2, <2>4, BecomesHeap
  <2>6. \A q \in Rec \ {r} : tv'[q] = tv[q]
    BY <1>1, <2>2, <2>5
  <2> QED BY <2>1, <2>5, <2>6 DEF Queue!Change, Queue!Same
<1>6. ASSUME NEW r \in Rec, NEW t \in Time, decrease(r, t)
      PROVE  TimerInv' /\ Queue!Change(r)
  <2> DEFINE s == [tv EXCEPT ![r] = t]
             g == ptrheap_decrease(H, s, rc[r])
             c == rc[r]
  <2>1. r \in InQueue /\ t <= tv[r] /\ Becomes(g, s) /\ out' = NULL
    BY <1>6 DEF decrease
  <2>2. s \in [Rec -> Int] /\ \A q \in Rec \ {r} : s[q] = tv[q]
    BY <1>1, <1>3
  <2>3. c \in 0 .. Len(H.elems) - 1 /\ At(H, c) = r
    BY <1>2, <1>3, <2>1
  <2>4. IsHeap(g, s, InQueue)
    <3> HIDE DEF c
    <3>1. t \in Int /\ t <= tv[At(H, c)]
      BY <1>3, <2>1, <2>3
    <3>2. IsHeap(ptrheap_decrease(H, [tv EXCEPT ![At(H, c)] = t], c), [tv EXCEPT ![At(H, c)] = t], InQueue)
      BY <1>1, <2>3, <3>1, DecreaseIs, Zenon
    <3> QED BY <2>3, <3>2 DEF c
  <2> HIDE DEF g, s
  <2>5. /\ TimerInv' /\ InQueue' = InQueue
        /\ \A q \in Rec : tv'[q] = IF q \in InQueue THEN s[q] ELSE 0
    BY <2>1, <2>2, <2>4, BecomesHeap
  <2>6. \A q \in Rec \ {r} : tv'[q] = tv[q]
    BY <1>1, <2>2, <2>5
  <2> QED BY <2>1, <2>5, <2>6 DEF Queue!Change, Queue!Same
<1>7. ASSUME NEW r \in Rec, timerqueue_delete(r)
      PROVE  TimerInv' /\ Queue!Delete(r)
  <2> DEFINE c == rc[r]
             g == ptrheap_delete(H, tv, c)
  <2>1. r \in InQueue /\ Becomes(g, tv) /\ out' = NULL
    BY <1>7 DEF timerqueue_delete
  <2>2. c \in 0 .. Len(H.elems) - 1 /\ At(H, c) = r
    BY <1>2, <1>3, <2>1
  <2> HIDE DEF c
  <2>3. IsHeap(g, tv, InQueue \ {r})
    BY <1>1, <2>2, DeleteIs
  <2> HIDE DEF g
  <2>4. /\ TimerInv' /\ InQueue' = InQueue \ {r}
        /\ \A q \in Rec : tv'[q] = IF q \in InQueue \ {r} THEN tv[q] ELSE 0
    BY <1>1, <2>1, <2>3, BecomesHeap
  <2>5. \A q \in Rec \ {r} : tv'[q] = tv[q]
    BY <1>1, <2>4
  <2> QED BY <2>1, <2>4, <2>5 DEF Queue!Delete, Queue!Same
<1>8. ASSUME NEW t \in Time, timerqueue_getptr(t)
      PROVE  TimerInv' /\ (Queue!TakeNone \/ \E r \in Rec : Queue!Take(r))
  <2> DEFINE r == ptrheap_getmin(H)
             g == ptrheap_delete(H, tv, 0)
  <2>1. CASE r = NULL \/ tv[r] > t
    <3>1. out' = NULL /\ UNCHANGED <<elems, rc, tv>>
      BY <1>8, <2>1 DEF timerqueue_getptr
    <3>2. TimerInv' /\ InQueue' = InQueue
      BY <3>1, TimerRests
    <3> QED BY <3>1, <3>2 DEF Queue!TakeNone
  <2>2. CASE ~(r = NULL \/ tv[r] > t)
    <3>1. out' = r /\ Becomes(g, tv)
      BY <1>8, <2>2 DEF timerqueue_getptr, ptrheap_deletemin
    <3>2. H.elems # <<>>
      BY <2>2 DEF ptrheap_getmin
    <3>3. /\ 0 \in 0 .. Len(H.elems) - 1 /\ r \in InQueue /\ r \in Rec /\ r = At(H, 0)
          /\ \A q \in InQueue : tv[r] <= tv[q]
      BY <1>1, <3>2, MinIs, Zenon
    <3>4. IsHeap(g, tv, InQueue \ {r})
      BY <1>1, <3>3, DeleteIs
    <3> HIDE DEF g, r
    <3>5. /\ TimerInv' /\ InQueue' = InQueue \ {r}
          /\ \A q \in Rec : tv'[q] = IF q \in InQueue \ {r} THEN tv[q] ELSE 0
      BY <1>1, <3>1, <3>4, BecomesHeap
    <3>6. \A q \in Rec \ {r} : tv'[q] = tv[q]
      BY <1>1, <3>5
    <3>7. Queue!Take(r)
      BY <3>1, <3>3, <3>5, <3>6 DEF Queue!Take, Queue!Same
    <3> QED BY <3>3, <3>5, <3>7
  <2> QED BY <2>1, <2>2
<1>9. ASSUME NEW t \in Time, increasemin(t)
      PROVE  TimerInv' /\ \E r \in Rec : Queue!Change(r)
  <2> DEFINE r == At(H, 0)
             s == [tv EXCEPT ![r] = t]
             g == ptrheap_increase(H, s, 0)
  <2>1. elems # <<>> /\ t >= tv[r] /\ Becomes(g, s) /\ out' = NULL
    BY <1>9 DEF increasemin, ptrheap_increasemin, ptrheap_increase
  <2>2. 0 \in 0 .. Len(H.elems) - 1 /\ r \in InQueue /\ r \in Rec
    BY <1>1, <1>3, <2>1, MinIs
  <2>3. s \in [Rec -> Int] /\ \A q \in Rec \ {r} : s[q] = tv[q]
    BY <1>1, <1>3, <2>2
  <2>4. IsHeap(g, s, InQueue)
    <3>1. t \in Int
      BY <1>3
    <3> QED BY <1>1, <2>1, <2>2, <3>1, IncreaseIs, Zenon
  <2> HIDE DEF g, s, r
  <2>5. /\ TimerInv' /\ InQueue' = InQueue
        /\ \A q \in Rec : tv'[q] = IF q \in InQueue THEN s[q] ELSE 0
    BY <2>1, <2>3, <2>4, BecomesHeap
  <2>6. \A q \in Rec \ {r} : tv'[q] = tv[q]
    BY <1>1, <2>3, <2>5
  <2>7. Queue!Change(r)
    BY <2>1, <2>2, <2>5, <2>6 DEF Queue!Change, Queue!Same
  <2> QED BY <2>2, <2>5, <2>7
<1>10. ASSUME timerqueue_free
       PROVE  TimerInv' /\ Queue!Free
  <2> DEFINE g == empty(H, tv)
  <2>1. Becomes(g, tv) /\ out' = NULL
    BY <1>10 DEF timerqueue_free
  <2>2. IsHeap(g, tv, {})
    BY <1>1, <1>2, FreeIs
  <2> HIDE DEF g
  <2>3. TimerInv' /\ InQueue' = {}
    BY <1>1, <2>1, <2>2, BecomesHeap
  <2> QED BY <2>1, <2>3 DEF Queue!Free
<1>11. CASE UNCHANGED queuevars
  <2>1. UNCHANGED elems /\ UNCHANGED rc /\ UNCHANGED tv /\ UNCHANGED out
    BY <1>11 DEF queuevars
  <2>2. TimerInv' /\ InQueue' = InQueue
    BY <2>1, TimerRests
  <2> QED BY <2>1, <2>2 DEF Queue!vars
<1> QED BY <1>4, <1>5, <1>6, <1>7, <1>8, <1>9, <1>10, <1>11 DEF QueueNext, Queue!Next

(* For all records, times and sequences of operations: the array of        *)
(* ptrheap.c keeps its order, and each record the cookie of its position,  *)
(* which timerqueue_delete and timerqueue_increase go by.                  *)
THEOREM HeapCorrect == QueueSpec => []HeapIsSound
<1>1. QueueInit => TimerInv
  BY TimerInit
<1>2. TimerInv /\ [QueueNext]_queuevars => TimerInv'
  BY TimerStep
<1>3. TimerInv => HeapIsSound
  BY TimerSound
<1> QED BY <1>1, <1>2, <1>3, PTL DEF QueueSpec

(* The timer queue implements a priority queue: timerqueue_getptr takes    *)
(* out a timer with the least time, and only that; no operation loses a    *)
(* timer, duplicates one or changes the time of another.                   *)
THEOREM QueueRefinement == QueueSpec => ImplementsPrioQueue
<1>1. QueueInit => TimerInv /\ Queue!Init
  BY TimerInit
<1>2. TimerInv /\ [QueueNext]_queuevars => TimerInv' /\ [Queue!Next]_(Queue!vars)
  BY TimerStep
<1> QED BY <1>1, <1>2, PTL DEF QueueSpec, ImplementsPrioQueue, Queue!Spec

=============================================================================
