------------------------------- MODULE Entropy -------------------------------
(***************************************************************************)
(* Random bytes: the generator of crypto/crypto_entropy.c, and the reads   *)
(* of /dev/urandom in util/entropy.c that seed it.                         *)
(*                                                                         *)
(* Keys are numbered in the order they are made.  The value V is the pair  *)
(* of the key it was last computed with and of the number of steps since   *)
(* the first V.  A block of output is the V it is a copy of.  Everything   *)
(* the operating system does may fail or be partial.                       *)
(***************************************************************************)
EXTENDS Integers, Sequences

CONSTANTS
    RESEED_INTERVAL,    \* generate may be called so often between seeds
    GENERATE_MAXLEN,    \* blocks a call of generate may return
    MaxBlocks,          \* no request is longer than this
    MaxChanges,         \* no request after so many changes of the key
    SeedLen             \* parts in which a seed may be read

ASSUME EntropyAssumption ==
    /\ RESEED_INTERVAL \in Nat
    /\ GENERATE_MAXLEN \in Nat \ {0}
    /\ MaxBlocks \in Nat /\ MaxChanges \in Nat /\ SeedLen \in Nat

VARIABLES
    instantiated,
    drbg,       \* the generator
    pc,         \* where crypto_entropy_read is
    buflen,     \* its buflen, in blocks
    want,       \* history: buflen at the start
    seedleft,   \* what entropy_read_fill has still to read
    er,         \* the cookie of entropy_read is allocated
    fd,         \* /dev/urandom is open
    buf,        \* history: the blocks put into the caller's buffer
    calls,      \* history: calls of generate since the last seed
    rc          \* what crypto_entropy_read has returned

osvars == <<seedleft, er, fd>>
rndvars == <<instantiated, drbg, pc, buflen, want, osvars, buf, calls, rc>>

drbg_zero == [Key |-> 0, V |-> [by |-> 0, n |-> 0], reseed_counter |-> 0]

RandomInit ==
    /\ instantiated = FALSE
    /\ drbg = drbg_zero
    /\ pc = "idle" /\ buflen = 0 /\ want = 0
    /\ seedleft = 0 /\ er = FALSE /\ fd = FALSE
    /\ buf = <<>> /\ calls = 0 /\ rc = 0

crypto_entropy_read(n) ==
    /\ pc = "idle" /\ drbg.Key < MaxChanges
    /\ buflen' = n /\ want' = n /\ buf' = <<>>
    /\ pc' = IF instantiated THEN "loop" ELSE "seed"
    /\ UNCHANGED <<instantiated, drbg, osvars, calls, rc>>

Returns(r) ==
    /\ pc' = "idle"
    /\ rc' = r

-----------------------------------------------------------------------------
(* entropy.c                                                               *)

(* entropy_read begins; without memory or without the device it fails.     *)
entropy_read_init ==
    /\ pc = "seed"
    /\ \/ /\ er' = TRUE /\ fd' = TRUE /\ seedleft' = SeedLen
          /\ pc' = "fill"
          /\ UNCHANGED rc
       \/ Returns(-1) /\ UNCHANGED osvars
    /\ UNCHANGED <<instantiated, drbg, buflen, want, buf, calls>>

(* A read of n parts; or an error, or EOF, after which entropy_read_done   *)
(* is called and its result does not matter.                               *)
entropy_read_fill ==
    /\ pc = "fill" /\ seedleft > 0
    /\ \/ \E n \in 1 .. seedleft : seedleft' = seedleft - n /\ UNCHANGED <<er, fd, pc, rc>>
       \/ Returns(-1) /\ er' = FALSE /\ fd' = FALSE /\ seedleft' = 0
    /\ UNCHANGED <<instantiated, drbg, buflen, want, buf, calls>>

(* close: a descriptor whose close has failed is gone all the same.        *)
entropy_read_done ==
    /\ pc = "fill" /\ seedleft = 0
    /\ er' = FALSE /\ fd' = FALSE
    /\ \/ pc' = "seeded" /\ UNCHANGED rc
       \/ Returns(-1)
    /\ UNCHANGED <<instantiated, drbg, buflen, want, seedleft, buf, calls>>

-----------------------------------------------------------------------------
(* crypto_entropy.c                                                        *)

(* V <- HMAC(Key, V), k times.                                             *)
NextV(d, k) == [by |-> d.Key, n |-> d.V.n + k]

(* A stage of update: a new key, and V with it.                            *)
Stage(d) ==
    LET e == [d EXCEPT !.Key = @ + 1]
    IN  [e EXCEPT !.V = NextV(e, 1)]

(* There is a second stage unless the data is empty.                       *)
update(d, data) == IF data THEN Stage(Stage(d)) ELSE Stage(d)

(* The output of RDRAND is mixed in, if there is any.                      *)
update_from_rdrand(d) == {d, update(d, TRUE)}

(* The seed is mixed into the generator; it may be used again.             *)
Seed(d) ==
    /\ pc = "seeded"
    /\ \E e \in update_from_rdrand(update(d, TRUE)) :
          drbg' = [e EXCEPT !.reseed_counter = 1]
    /\ instantiated' = TRUE
    /\ calls' = 0
    /\ pc' = "loop"
    /\ UNCHANGED <<buflen, want, osvars, buf, rc>>

(* instantiate and reseed, once entropy_read has returned.                 *)
instantiate == ~instantiated /\ Seed(drbg_zero)

reseed == instantiated /\ Seed(drbg)

(* Mutant: the counter is taken to start at 0.                             *)
needs_reseed_late == drbg.reseed_counter > RESEED_INTERVAL + 1

needs_reseed == drbg.reseed_counter > RESEED_INTERVAL

generate(n) ==
    LET last == [drbg EXCEPT !.V = NextV(drbg, n)]
    IN  /\ buf' = buf \o [k \in 1 .. n |-> NextV(drbg, k)]
        /\ drbg' = [update(last, FALSE) EXCEPT !.reseed_counter = @ + 1]
        /\ calls' = calls + 1

(* The loop over the buffer, by a call of generate.                        *)
read_loop ==
    /\ pc = "loop"
    /\ \/ /\ buflen > 0 /\ needs_reseed
          /\ pc' = "seed"
          /\ UNCHANGED <<drbg, buflen, buf, calls, rc>>
       \/ /\ buflen > 0 /\ ~needs_reseed
          /\ LET n == IF buflen > GENERATE_MAXLEN THEN GENERATE_MAXLEN ELSE buflen
             IN  generate(n) /\ buflen' = buflen - n
          /\ UNCHANGED <<pc, rc>>
       \/ /\ buflen = 0
          /\ Returns(0)
          /\ UNCHANGED <<drbg, buflen, buf, calls>>
    /\ UNCHANGED <<instantiated, want, osvars>>

RandomNext ==
    \/ \E n \in 0 .. MaxBlocks : crypto_entropy_read(n)
    \/ entropy_read_init
    \/ entropy_read_fill
    \/ entropy_read_done
    \/ instantiate
    \/ reseed
    \/ read_loop

RandomSpec == RandomInit /\ [][RandomNext]_rndvars

-----------------------------------------------------------------------------
(* The generator is never used without a seed, nor more often than it may  *)
(* between two seeds, also after a reseed has failed and the caller has    *)
(* tried again.                                                            *)
SeededInTime == calls <= RESEED_INTERVAL /\ (buf # <<>> => instantiated)

(* A request that succeeds has filled the buffer; one that fails is not    *)
(* mistaken for one that has succeeded.                                    *)
FilledIfOk == pc = "idle" /\ rc = 0 => Len(buf) = want

(* What the generator keeps is not what it gave out, nor the key it made   *)
(* that with: earlier output cannot be computed from the state.            *)
NoWayBack == \A k \in DOMAIN buf : buf[k].n < drbg.V.n /\ buf[k].by < drbg.Key

(* Between requests the device is closed and its cookie freed, whichever   *)
(* step has failed.                                                        *)
NothingOpen == pc \in {"idle", "loop", "seed"} => ~er /\ ~fd

(* The four together: what random bytes may be relied upon for.            *)
EntropyIsSound == SeededInTime /\ FilledIfOk /\ NoWayBack /\ NothingOpen
=============================================================================
