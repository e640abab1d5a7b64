---------------------------- MODULE ElasticArray ----------------------------
(***************************************************************************)
(* libcperciva/datastruct/elasticarray.c: an array that grows and shrinks. *)
(*                                                                         *)
(* Sizes are in bytes and of type size_t: products and sums wrap around    *)
(* at SIZE_MAX.  want is the size the array should have, computed without  *)
(* wrapping.  realloc may fail whenever it is called.  A call that fails   *)
(* and changes nothing is a stuttering step.                               *)
(***************************************************************************)
EXTENDS Integers

CONSTANTS
    SIZE_MAX,
    RecLen      \* the record lengths in use, positive

ASSUME ArrayAssumption ==
    /\ SIZE_MAX \in Nat \ {0}
    /\ RecLen \subseteq 1 .. SIZE_MAX

VARIABLES
    EA,         \* "none", "alive" or "gone"
    size,       \* EA->size
    alloc,      \* EA->alloc
    want,       \* the size expected
    kept        \* realloc has failed to shrink the buffer

vars == <<EA, size, alloc, want, kept>>

SizeT == 0 .. SIZE_MAX

Wrap(x) == x % (SIZE_MAX + 1)

(* Mutant: the doubled size is taken even if it has wrapped around.        *)
NAlloc_double(a, nsize) ==
    IF a < nsize THEN IF 2 * a = 0 THEN nsize ELSE Wrap(2 * a)
    ELSE IF a \div 4 > nsize THEN 2 * nsize
    ELSE a

(* How large an allocation resize wants for nsize bytes when it has a.     *)
NAlloc(a, nsize) ==
    IF a < nsize THEN IF Wrap(2 * a) < nsize THEN nsize ELSE Wrap(2 * a)
    ELSE IF a \div 4 > nsize THEN Wrap(2 * nsize)
    ELSE a

(* resize, if it succeeds.                                                 *)
resize(nsize) == alloc' = NAlloc(alloc, nsize) /\ size' = nsize /\ kept' = FALSE

(* resize calls realloc, and so may fail.                                  *)
MayFail(nsize) == NAlloc(alloc, nsize) \notin {0, alloc}

Fits(nrec, reclen) == nrec <= SIZE_MAX \div reclen

elasticarray_init(nrec, reclen) ==
    /\ EA = "none"
    /\ Fits(nrec, reclen)
    /\ resize(Wrap(nrec * reclen))
    /\ EA' = "alive"
    /\ want' = nrec * reclen

elasticarray_resize(nrec, reclen) ==
    /\ EA = "alive"
    /\ Fits(nrec, reclen)
    /\ resize(Wrap(nrec * reclen))
    /\ want' = nrec * reclen
    /\ UNCHANGED EA

elasticarray_append(nrec, reclen) ==
    /\ EA = "alive"
    /\ Fits(nrec, reclen)
    /\ Wrap(nrec * reclen) <= SIZE_MAX - size
    /\ resize(Wrap(size + Wrap(nrec * reclen)))
    /\ want' = want + nrec * reclen
    /\ UNCHANGED EA

(* What elasticarray_shrink keeps.                                         *)
Remains(nrec, reclen) ==
    IF ~Fits(nrec, reclen) \/ Wrap(nrec * reclen) > size THEN 0 ELSE size - Wrap(nrec * reclen)

(* When realloc fails the old buffer is kept.                              *)
elasticarray_shrink(nrec, reclen) ==
    LET nsize == Remains(nrec, reclen) IN
    /\ EA = "alive"
    /\ \/ resize(nsize)
       \/ /\ MayFail(nsize)
          /\ size' = nsize
          /\ kept' = TRUE
          /\ UNCHANGED alloc
    /\ want' = IF nrec * reclen > want THEN 0 ELSE want - nrec * reclen
    /\ UNCHANGED EA

elasticarray_truncate ==
    /\ EA = "alive"
    /\ alloc' = size
    /\ kept' = FALSE
    /\ UNCHANGED <<EA, size, want>>

(* elasticarray_export, which truncates first, and elasticarray_free.      *)
elasticarray_export ==
    /\ EA = "alive"
    /\ EA' = "gone"
    /\ alloc' = size
    /\ kept' = FALSE
    /\ UNCHANGED <<size, want>>

elasticarray_free ==
    /\ EA = "alive"
    /\ EA' = "gone"
    /\ alloc' = 0 /\ size' = 0 /\ want' = 0 /\ kept' = FALSE

Init == EA = "none" /\ size = 0 /\ alloc = 0 /\ want = 0 /\ kept = FALSE

Next ==
    \/ \E nrec \in SizeT, reclen \in RecLen :
          \/ elasticarray_init(nrec, reclen)
          \/ elasticarray_resize(nrec, reclen)
          \/ elasticarray_append(nrec, reclen)
          \/ elasticarray_shrink(nrec, reclen)
    \/ elasticarray_truncate
    \/ elasticarray_export
    \/ elasticarray_free

Spec == Init /\ [][Next]_vars

-----------------------------------------------------------------------------
TypeOK ==
    /\ EA \in {"none", "alive", "gone"}
    /\ size \in SizeT /\ alloc \in SizeT
    /\ want \in Nat
    /\ kept \in BOOLEAN

(* The buffer holds the array: every record that elasticarray_get may be   *)
(* asked for, and every byte that elasticarray_append writes, is in it.    *)
FitsInBuffer == size <= alloc

(* The size is what was asked for: no product or sum has wrapped around.   *)
SizeIsExact == size = want

(* Whatever is asked for next, the new buffer will be large enough, though *)
(* doubling may wrap around; and resize frees it only to hold nothing      *)
(* (its assertion).                                                        *)
NextIsEnough ==
    \A n \in SizeT : NAlloc(alloc, n) >= n /\ (NAlloc(alloc, n) = 0 => n = 0)

(* The buffer is less than 4 times too large, rounded up to 4 bytes,       *)
(* unless realloc has failed to shrink it.                                 *)
NotMuchTooLarge == ~kept => alloc \div 4 <= size

(* The four together.                                                      *)
ArrayIsSound == SizeIsExact /\ FitsInBuffer /\ NextIsEnough /\ NotMuchTooLarge
=============================================================================
