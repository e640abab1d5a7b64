---------------------------- MODULE CryptoProofs ----------------------------
(***************************************************************************)
(* crypto_aesctr makes the same key stream for all sizes and however it is *)
(* called; crypto_dh makes one key at both ends for every modulus; and the *)
(* digests of sha256.c are the ones of the standards, however their input  *)
(* is cut into calls.                                                      *)
(*                                                                         *)
(* The key exchange is arithmetic: exponents add and multiply (PowAdd,     *)
(* PowTimes), digits make the number they come from (DigitsRoundTrip), and *)
(* what the check refuses is not less than the modulus (SanityIs).  The    *)
(* recursive functions of the model are unfolded with Recursion.           *)
(*                                                                         *)
(* A digest rests on Absorbed, which says what a context is after an input *)
(* m: the whole blocks of m have been mixed in, in order, and the start of *)
(* the buffer is what is left of m.  Whatever else the buffer holds is not *)
(* mentioned, and each call preserves it (UpdateIs); the padding writes    *)
(* over that rest before the buffer is mixed in (PadIs).                   *)
(***************************************************************************)
EXTENDS AesCtr, DiffieHellman, Sha256, SequenceTheorems, WellFoundedInduction, TLAPS

(* AesCtr: the key stream.                                                 *)

(* Division with a remainder,                                              *)
LEMMA DivMod ==
  ASSUME NEW n \in Nat, NEW d \in Nat \ {0}
  PROVE  n \div d \in Nat /\ n % d \in Nat /\ n % d < d /\ n % d = n - d * (n \div d)
OBVIOUS

(* which is unique,                                                        *)
LEMMA DivModUnique ==
  ASSUME NEW d \in Nat \ {0}, NEW q \in Nat, NEW r \in 0 .. (d - 1)
  PROVE  (d * q + r) \div d = q /\ (d * q + r) % d = r
<1> DEFINE n == d * q + r
           p == n \div d
           m == n % d
<1>1. n \in Nat /\ d * q \in Nat
  OBVIOUS
<1>2. p \in Nat /\ m \in Nat /\ m < d /\ m = n - d * p
  BY <1>1, DivMod
<1>3. d * p + m = d * q + r
  BY <1>1, <1>2
<1> HIDE DEF p, m, n
<1>4. ~(p < q)
  <2> SUFFICES ASSUME p < q PROVE FALSE
    OBVIOUS
  <2>1. q = p + (q - p) /\ q - p >= 1 /\ q - p \in Nat
    BY <1>2
  <2>2. d * q = d * p + d * (q - p) /\ d * (q - p) >= d
    BY <1>2, <2>1
  <2> QED BY <1>2, <1>3, <2>2
<1>5. ~(q < p)
  <2> SUFFICES ASSUME q < p PROVE FALSE
    OBVIOUS
  <2>1. p = q + (p - q) /\ p - q >= 1 /\ p - q \in Nat
    BY <1>2
  <2>2. d * p = d * q + d * (p - q) /\ d * (p - q) >= d
    BY <1>2, <2>1
  <2> QED BY <1>2, <1>3, <2>2
<1>6. p = q
  BY <1>2, <1>4, <1>5
<1>7. m = r
  BY <1>2, <1>3, <1>6
<1> QED BY <1>6, <1>7 DEF p, m, n

(* for a number in the same block,                                         *)
LEMMA DivStays ==
  ASSUME NEW d \in Nat \ {0}, NEW n \in Nat, NEW k \in Nat, (n % d) + k < d
  PROVE  (n + k) \div d = n \div d /\ (n + k) % d = (n % d) + k
<1> DEFINE q == n \div d
           r == n % d
<1>1. q \in Nat /\ r \in Nat /\ r = n - d * q /\ d * q \in Nat
  BY DivMod
<1>2. r + k < d
  OBVIOUS
<1> HIDE DEF q, r
<1>3. n + k = d * q + (r + k) /\ r + k \in 0 .. (d - 1)
  BY <1>1, <1>2
<1>4. (n + k) \div d = q /\ (n + k) % d = r + k
  BY <1>1, <1>3, DivModUnique
<1> QED BY <1>4 DEF q, r

(* and for one some blocks later.                                          *)
LEMMA DivAdds ==
  ASSUME NEW d \in Nat \ {0}, NEW q \in Nat, NEW n \in Nat
  PROVE  (d * q + n) \div d = q + n \div d /\ (d * q + n) % d = n % d
<1> DEFINE p == n \div d
           r == n % d
<1>1. p \in Nat /\ r \in Nat /\ r < d /\ r = n - d * p
  BY DivMod, Zenon
<1> HIDE DEF p, r
<1>2. p \in Nat /\ r \in Nat /\ r < d /\ r = n - d * p /\ d * p \in Nat /\ d * q \in Nat
  BY <1>1
<1>3. d * (q + p) = d * q + d * p /\ q + p \in Nat /\ r \in 0 .. (d - 1)
  BY <1>2
<1>4. d * q + n = d * (q + p) + r
  BY <1>2, <1>3
<1>5. (d * (q + p) + r) \div d = q + p /\ (d * (q + p) + r) % d = r
  BY <1>3, DivModUnique, Zenon
<1>6. (d * q + n) \div d = q + p /\ (d * q + n) % d = r
  BY <1>4, <1>5, Zenon
<1> QED BY <1>6 DEF p, r

(* A prefix of a stream, and what comes next, is a prefix of it.           *)
LEMMA GrowingPrefix ==
  ASSUME NEW T, NEW f \in [Nat -> T], NEW c \in Nat, NEW k \in Nat
  PROVE  [n \in 1 .. c |-> f[n - 1]] \o [i \in 1 .. k |-> f[c + i - 1]] = [n \in 1 .. (c + k) |-> f[n - 1]]
<1> DEFINE s == [n \in 1 .. c |-> f[n - 1]]
           t == [i \in 1 .. k |-> f[c + i - 1]]
           u == [n \in 1 .. (c + k) |-> f[n - 1]]
<1>1. s \in Seq(T) /\ Len(s) = c
  OBVIOUS
<1>2. t \in Seq(T) /\ Len(t) = k
  OBVIOUS
<1>3. u \in Seq(T) /\ Len(u) = c + k
  OBVIOUS
<1>4. s \o t \in Seq(T) /\ Len(s \o t) = c + k
  BY <1>1, <1>2, ConcatProperties
<1>5. \A n \in 1 .. (c + k) : (s \o t)[n] = IF n <= c THEN s[n] ELSE t[n - c]
  BY <1>1, <1>2, ConcatProperties
<1>6. \A n \in 1 .. (c + k) : (IF n <= c THEN s[n] ELSE t[n - c]) = u[n]
  OBVIOUS
<1> HIDE DEF s, t, u
<1>7. s \o t = u
  BY <1>3, <1>4, <1>5, <1>6, SeqEqual, Zenon
<1> QED BY <1>7 DEF s, t, u

(* Block n of the cipher stream that was asked for.                        *)
CounterBlock(n) == [key |-> asked.key, nonce |-> asked.nonce, hi |-> n \div Byte, lo |-> n % Byte]

(* That stream, as a function.                                             *)
KeyStream == [n \in Nat |-> StreamByte(n)]

(* The inductive invariant: buf holds the block the stream is in the       *)
(* middle of, and pblk the number of the last block made.  The last byte   *)
(* of a new stream is one before zero, so that its upper bytes, which may  *)
(* be anything, are set when the first block is made.                      *)
CtrInv ==
    /\ bytectr \in Nat /\ left \in Nat
    /\ cipher = [n \in 1 .. bytectr |-> KeyStream[n - 1]]
    /\ at \in {"none", "ready", "pre", "pre_hw", "blocks", "blocks_hw"}
    /\ at = "none" => bytectr = 0
    /\ at \in {"blocks", "blocks_hw"} => bytectr % Blk = 0
    /\ pblk = [nonce |-> pblk.nonce, hi |-> pblk.hi, lo |-> pblk.lo]
    /\ at # "none" =>
          /\ key = asked.key /\ pblk.nonce = asked.nonce
          /\ bytectr % Blk # 0 => buf = CounterBlock(bytectr \div Blk)
          /\ IF bytectr = 0 THEN pblk.lo = Byte - 1
             ELSE LET last == (bytectr - 1) \div Blk
                  IN  pblk.hi = last \div Byte /\ pblk.lo = last % Byte

(* Its type.                                                               *)
LEMMA StreamType == KeyStream \in [Nat -> {StreamByte(n) : n \in Nat}]
BY DEF KeyStream

(* A use of nbytes bytes that are the next ones of the stream.             *)
LEMMA UseStep ==
  ASSUME CtrInv, NEW nbytes \in Nat, UNCHANGED asked,
         NEW new, new = [i \in 1 .. nbytes |-> StreamByte(bytectr + i - 1)],
         cipher' = cipher \o new, bytectr' = bytectr + nbytes
  PROVE  bytectr' \in Nat /\ cipher' = [n \in 1 .. bytectr' |-> KeyStream'[n - 1]]
<1>1. bytectr \in Nat /\ bytectr' \in Nat
  BY DEF CtrInv
<1>2. KeyStream' = KeyStream
  BY DEF KeyStream, StreamByte
<1>3. \A i \in 1 .. nbytes : bytectr + i - 1 \in Nat
  BY <1>1
<1>4. new = [i \in 1 .. nbytes |-> KeyStream[bytectr + i - 1]]
  BY <1>3 DEF KeyStream
<1>5. cipher = [n \in 1 .. bytectr |-> KeyStream[n - 1]]
  BY DEF CtrInv
<1>6. cipher \o new = [n \in 1 .. (bytectr + nbytes) |-> KeyStream[n - 1]]
  <2> DEFINE T == {StreamByte(n) : n \in Nat}
  <2>1. KeyStream \in [Nat -> T]
    BY StreamType
  <2> HIDE DEF T
  <2>2. \A f \in [Nat -> T] :
          [n \in 1 .. bytectr |-> f[n - 1]] \o [i \in 1 .. nbytes |-> f[bytectr + i - 1]]
              = [n \in 1 .. (bytectr + nbytes) |-> f[n - 1]]
    <3> TAKE f \in [Nat -> T]
    <3> DEFINE c == bytectr
    <3>1. c \in Nat
      BY <1>1
    <3> HIDE DEF c
    <3>2. [n \in 1 .. c |-> f[n - 1]] \o [i \in 1 .. nbytes |-> f[c + i - 1]]
              = [n \in 1 .. (c + nbytes) |-> f[n - 1]]
      BY <3>1, GrowingPrefix
    <3> QED BY <3>2, Zenon DEF c
  <2> QED BY <1>4, <1>5, <2>1, <2>2, Zenon
<1> QED BY <1>1, <1>2, <1>6, Zenon

(* The next block, whichever way the counter is increased.                 *)
LEMMA IncrementedStep ==
  ASSUME CtrInv, at # "none", bytectr % Blk = 0
  PROVE  LET B == bytectr \div Blk
         IN  Incremented = [nonce |-> asked.nonce, hi |-> B \div Byte, lo |-> B % Byte]
<1> USE AesCtrAssumption
<1> DEFINE B == bytectr \div Blk
<1>1. bytectr \in Nat
  BY DEF CtrInv
<1>2. bytectr \in Nat /\ B \in Nat /\ 0 = bytectr - Blk * B
  BY <1>1, DivMod
<1>3. be64enc(B) = [nonce |-> asked.nonce, hi |-> B \div Byte, lo |-> B % Byte]
  BY DEF be64enc, CtrInv
<1>4. CASE bytectr = 0
  <2>1. pblk.lo + 1 = Byte
    BY <1>4 DEF CtrInv
  <2>2. Byte % Byte = 0
    OBVIOUS
  <2> QED BY <1>3, <2>1, <2>2 DEF Incremented
<1>5. CASE bytectr # 0
  <2> DEFINE last == (bytectr - 1) \div Blk
  <2>1. B >= 1 /\ B - 1 \in Nat
    BY <1>2, <1>5
  <2>2. bytectr - 1 = Blk * (B - 1) + (Blk - 1) /\ Blk - 1 \in 0 .. (Blk - 1)
    <3>1. Blk * (B - 1) = Blk * B - Blk
      BY <1>2, <2>1
    <3> HIDE DEF B
    <3> QED BY <1>2, <3>1
  <2>3. last = B - 1
    BY <2>1, <2>2, DivModUnique
  <2>4. pblk.hi = (B - 1) \div Byte /\ pblk.lo = (B - 1) % Byte
    BY <1>5, <2>3 DEF CtrInv
  <2> DEFINE c == B - 1
             r == c % Byte
  <2>5. c \in Nat /\ B = c + 1 /\ pblk.hi = c \div Byte /\ pblk.lo = r
    BY <1>2, <2>1, <2>4
  <2> HIDE DEF B, c
  <2>6. r \in Nat /\ r < Byte
    BY <2>5, DivMod
  <2>7. CASE r + 1 < Byte
    <3>1. B \div Byte = c \div Byte /\ B % Byte = r + 1
      <4>1. (c % Byte) + 1 < Byte /\ 1 \in Nat /\ c \in Nat /\ Byte \in Nat \ {0}
        BY <2>5, <2>7
      <4>2. (c + 1) \div Byte = c \div Byte /\ (c + 1) % Byte = (c % Byte) + 1
        BY <4>1, DivStays, Zenon
      <4> QED BY <2>5, <4>2, Zenon
    <3> HIDE DEF r
    <3>2. (r + 1) % Byte = r + 1 /\ r + 1 # 0
      BY <2>6, <2>7
    <3>3. Incremented = [pblk EXCEPT !.lo = r + 1]
      BY <2>5, <3>2 DEF Incremented
    <3> QED BY <2>5, <3>1, <3>3, Zenon DEF CtrInv, B
  <2>8. CASE ~(r + 1 < Byte)
    <3> HIDE DEF r
    <3>1. r + 1 = Byte
      BY <2>6, <2>8
    <3>2. (pblk.lo + 1) % Byte = 0
      BY <2>5, <3>1
    <3> QED BY <1>3, <3>2 DEF Incremented, B
  <2> QED BY <2>7, <2>8
<1> QED BY <1>4, <1>5

(* A stream that was not yet asked for.                                    *)
LEMMA CtrStarts == CtrInit => CtrInv
<1> SUFFICES ASSUME CtrInit PROVE CtrInv
  OBVIOUS
<1>1. cipher = [n \in 1 .. bytectr |-> KeyStream[n - 1]]
  <2>1. cipher = <<>> /\ 1 .. bytectr = {}
    BY DEF CtrInit
  <2> QED BY <2>1
<1> QED BY <1>1 DEF CtrInit, CtrInv

(* The rest of the block in buf is used,                                   *)
LEMMA PreStep == CtrInv /\ crypto_aesctr_stream_pre_wholeblock => CtrInv'
<1> SUFFICES ASSUME CtrInv, crypto_aesctr_stream_pre_wholeblock PROVE CtrInv'
  OBVIOUS
<1> USE AesCtrAssumption
<1> DEFINE bytemod == bytectr % Blk
           B == bytectr \div Blk
           nbytes == IF bytemod + left <= Blk THEN left ELSE Blk - bytemod
<1>1. /\ at \in {"pre", "pre_hw"} /\ UNCHANGED <<hwaccel, key, pblk, buf, asked>>
      /\ IF bytemod # 0 THEN Use(buf, nbytes, bytemod) ELSE UNCHANGED <<cipher, bytectr, left>>
      /\ at' = IF bytemod # 0 /\ bytemod + left <= Blk THEN "ready"
               ELSE IF at = "pre" THEN "blocks" ELSE "blocks_hw"
  BY DEF crypto_aesctr_stream_pre_wholeblock
<1>2. bytectr \in Nat /\ left \in Nat
  BY DEF CtrInv
<1>3. B \in Nat /\ bytemod \in Nat /\ bytemod < Blk /\ bytemod = bytectr - Blk * B
  BY <1>2, DivMod, Zenon
<1>4. /\ bytemod # 0 /\ bytemod + left <= Blk => at' = "ready"
      /\ ~(bytemod # 0 /\ bytemod + left <= Blk) => at' \in {"blocks", "blocks_hw"}
  BY <1>1
<1>5. CASE bytemod = 0
  <2>1. UNCHANGED <<cipher, bytectr, left, pblk, buf, key, asked>>
    BY <1>1, <1>5
  <2>2. at' \in {"blocks", "blocks_hw"}
    BY <1>1, <1>5
  <2>3. KeyStream' = KeyStream
    BY <1>1 DEF KeyStream, StreamByte
  <2> QED BY <1>1, <1>5, <2>1, <2>2, <2>3 DEF CtrInv, CounterBlock
<1>6. CASE bytemod # 0
  <2>1. nbytes \in Nat /\ bytemod + nbytes <= Blk /\ nbytes <= left
    BY <1>2, <1>3
  <2>2. Use(buf, nbytes, bytemod)
    BY <1>1, <1>6
  <2> DEFINE new == [i \in 1 .. nbytes |-> [block |-> buf, at |-> bytemod + i - 1]]
  <2>3. cipher' = cipher \o new /\ bytectr' = bytectr + nbytes /\ left' = left - nbytes
    BY <2>2 DEF Use
  <2>4. buf = CounterBlock(B) /\ key = asked.key /\ pblk.nonce = asked.nonce
    BY <1>1, <1>6 DEF CtrInv
  <2> HIDE DEF nbytes
  <2>5. ASSUME NEW k \in Nat, bytemod + k < Blk
        PROVE  (bytectr + k) \div Blk = B /\ (bytectr + k) % Blk = bytemod + k
    BY <1>2, <2>5, DivStays, Zenon
  <2>6. \A i \in 1 .. nbytes : [block |-> buf, at |-> bytemod + i - 1] = StreamByte(bytectr + i - 1)
    <3> TAKE i \in 1 .. nbytes
    <3>1. i - 1 \in Nat /\ bytemod + (i - 1) < Blk /\ bytectr + i - 1 = bytectr + (i - 1)
      BY <1>2, <1>3, <2>1
    <3>2. (bytectr + i - 1) \div Blk = B /\ (bytectr + i - 1) % Blk = bytemod + i - 1
      BY <1>3, <2>5, <3>1
    <3> QED BY <2>4, <3>2 DEF StreamByte, CounterBlock
  <2>7. new = [i \in 1 .. nbytes |-> StreamByte(bytectr + i - 1)]
    BY <2>6
  <2> HIDE DEF new
  <2>8. bytectr' \in Nat /\ cipher' = [n \in 1 .. bytectr' |-> KeyStream'[n - 1]]
    BY <1>1, <2>1, <2>3, <2>7, UseStep, Zenon
  <2>9. bytectr # 0 /\ bytectr - 1 \in Nat /\ (bytectr - 1) \div Blk = B
    <3>1. bytectr - 1 = Blk * B + (bytemod - 1) /\ bytemod - 1 \in 0 .. (Blk - 1) /\ Blk * B \in Nat
      BY <1>2, <1>3, <1>6
    <3>2. (Blk * B + (bytemod - 1)) \div Blk = B
      BY <1>3, <3>1, DivModUnique, Zenon
    <3> QED BY <1>2, <1>3, <1>6, <3>1, <3>2
  <2> HIDE DEF B, bytemod
  <2>10. Blk * B \in Nat /\ Blk * (B + 1) = Blk * B + Blk
    BY <1>3
  <2>11. bytectr' # 0 /\ (bytectr' - 1) \div Blk = B
    <3>1. bytectr' - 1 = Blk * B + (bytemod + nbytes - 1) /\ bytemod + nbytes - 1 \in 0 .. (Blk - 1)
      BY <1>2, <1>3, <1>6, <2>1, <2>3, <2>10
    <3>2. (Blk * B + (bytemod + nbytes - 1)) \div Blk = B
      BY <1>3, <3>1, DivModUnique
    <3>3. bytectr' # 0
      BY <1>2, <2>1, <2>3, <2>9
    <3> QED BY <3>1, <3>2, <3>3
  <2>12. bytectr' % Blk # 0 => bytectr' \div Blk = B
    <3>1. CASE bytemod + nbytes < Blk
      BY <2>1, <2>3, <2>5, <3>1
    <3>2. CASE bytemod + nbytes = Blk
      <4>1. bytectr' = Blk * (B + 1) /\ B + 1 \in Nat /\ 0 \in 0 .. (Blk - 1)
        BY <1>2, <1>3, <2>1, <2>3, <2>10, <3>2
      <4>2. (Blk * (B + 1) + 0) % Blk = 0
        BY <4>1, DivModUnique
      <4> QED BY <2>10, <4>1, <4>2
    <3> QED BY <1>3, <2>1, <3>1, <3>2
  <2>13. left' \in Nat
    BY <1>2, <2>1, <2>3
  <2>14. CASE bytemod + left <= Blk
    <3>1. at' = "ready"
      BY <1>4, <1>6, <2>14
    <3> QED BY <1>1, <2>4, <2>8, <2>9, <2>11, <2>12, <2>13, <3>1 DEF CtrInv, CounterBlock
  <2>15. CASE ~(bytemod + left <= Blk)
    <3>1. at' \in {"blocks", "blocks_hw"}
      BY <1>4, <2>15
    <3>2. bytectr' = Blk * (B + 1) /\ B + 1 \in Nat /\ 0 \in 0 .. (Blk - 1)
      <4>1. nbytes = Blk - bytemod
        BY <2>15 DEF nbytes
      <4> QED BY <1>2, <1>3, <2>3, <2>10, <4>1
    <3>3. (Blk * (B + 1) + 0) % Blk = 0
      BY <3>2, DivModUnique
    <3>4. bytectr' % Blk = 0
      BY <2>10, <3>2, <3>3
    <3> QED BY <1>1, <2>4, <2>8, <2>9, <2>11, <2>13, <3>1, <3>4 DEF CtrInv, CounterBlock
  <2> QED BY <2>14, <2>15
<1> QED BY <1>5, <1>6

(* A block that is generated, and n bytes of it used.                      *)
LEMMA GeneratedStep ==
  ASSUME CtrInv, at \in {"blocks", "blocks_hw"}, NEW n \in 1 .. Blk, n <= left,
         crypto_aesctr_stream_cipherblock_generate, Use(buf', n, 0), UNCHANGED <<key, asked>>
  PROVE  /\ bytectr' \in Nat /\ left' \in Nat /\ bytectr' # 0
         /\ cipher' = [m \in 1 .. bytectr' |-> KeyStream'[m - 1]]
         /\ pblk' = [nonce |-> pblk'.nonce, hi |-> pblk'.hi, lo |-> pblk'.lo]
         /\ key' = asked'.key /\ pblk'.nonce = asked'.nonce
         /\ n = Blk => bytectr' % Blk = 0
         /\ bytectr' % Blk # 0 => buf' = CounterBlock(bytectr' \div Blk)
         /\ LET last == (bytectr' - 1) \div Blk
            IN  pblk'.hi = last \div Byte /\ pblk'.lo = last % Byte
<1> USE AesCtrAssumption
<1> DEFINE B == bytectr \div Blk
<1>1. bytectr \in Nat /\ left \in Nat /\ bytectr % Blk = 0 /\ key = asked.key
  BY DEF CtrInv
<1>2. B \in Nat /\ bytectr = Blk * B
  <2>1. B \in Nat /\ bytectr % Blk = bytectr - Blk * B
    BY <1>1, DivMod
  <2>2. Blk * B \in Nat
    BY <2>1
  <2> QED BY <1>1, <2>1, <2>2
<1>3. pblk' = [nonce |-> asked.nonce, hi |-> B \div Byte, lo |-> B % Byte]
  BY <1>1, IncrementedStep DEF crypto_aesctr_stream_cipherblock_generate
<1>4. buf' = CounterBlock(B)
  BY <1>1, <1>3 DEF crypto_aesctr_stream_cipherblock_generate, Cipherblock, CounterBlock
<1> DEFINE new == [i \in 1 .. n |-> [block |-> buf', at |-> 0 + i - 1]]
<1>5. cipher' = cipher \o new /\ bytectr' = bytectr + n /\ left' = left - n
  BY DEF Use
<1>6. \A i \in 1 .. n : [block |-> buf', at |-> 0 + i - 1] = StreamByte(bytectr + i - 1)
  <2> TAKE i \in 1 .. n
  <2>1. i - 1 \in 0 .. (Blk - 1) /\ bytectr + i - 1 = bytectr + (i - 1)
    BY <1>1
  <2>2. (Blk * B + (i - 1)) \div Blk = B /\ (Blk * B + (i - 1)) % Blk = i - 1
    BY <1>2, <2>1, DivModUnique, Zenon
  <2> HIDE DEF B
  <2>3. (bytectr + i - 1) \div Blk = B /\ (bytectr + i - 1) % Blk = i - 1
    BY <1>2, <2>1, <2>2
  <2> QED BY <1>4, <2>3 DEF StreamByte, CounterBlock
<1>7. new = [i \in 1 .. n |-> StreamByte(bytectr + i - 1)]
  BY <1>6
<1> HIDE DEF new
<1>8. bytectr' \in Nat /\ cipher' = [m \in 1 .. bytectr' |-> KeyStream'[m - 1]]
  <2>1. n \in Nat
    OBVIOUS
  <2> HIDE DEF B
  <2> QED BY <1>5, <1>7, <2>1, UseStep, Zenon
<1> HIDE DEF B
<1>9. Blk * B \in Nat /\ Blk * (B + 1) = Blk * B + Blk
  BY <1>2
<1>10. bytectr' # 0 /\ (bytectr' - 1) \div Blk = B
  <2>1. bytectr' - 1 = Blk * B + (n - 1) /\ n - 1 \in 0 .. (Blk - 1)
    BY <1>1, <1>2, <1>5, <1>9
  <2>2. (Blk * B + (n - 1)) \div Blk = B
    BY <1>2, <2>1, DivModUnique, Zenon
  <2>3. bytectr' # 0
    BY <1>1, <1>5
  <2>4. (bytectr' - 1) \div Blk = B
    BY <2>1, <2>2, Zenon
  <2> QED BY <2>3, <2>4
<1>11. n = Blk => bytectr' % Blk = 0
  <2> SUFFICES ASSUME n = Blk PROVE bytectr' % Blk = 0
    OBVIOUS
  <2>1. bytectr' = Blk * (B + 1) /\ B + 1 \in Nat /\ 0 \in 0 .. (Blk - 1)
    BY <1>2, <1>5, <1>9
  <2>2. (Blk * (B + 1) + 0) % Blk = 0
    BY <2>1, DivModUnique
  <2> QED BY <1>9, <2>1, <2>2
<1>12. bytectr' % Blk # 0 => bytectr' \div Blk = B
  <2>1. CASE n = Blk
    BY <1>11, <2>1
  <2>2. CASE n # Blk
    <3>1. n \in 0 .. (Blk - 1) /\ bytectr' = Blk * B + n
      BY <1>2, <1>5, <2>2
    <3>2. (Blk * B + n) \div Blk = B
      BY <1>2, <3>1, DivModUnique
    <3> QED BY <3>1, <3>2
  <2> QED BY <2>1, <2>2
<1>13. left' \in Nat
  BY <1>1, <1>5
<1>14. bytectr' % Blk # 0 => buf' = CounterBlock(bytectr' \div Blk)
  BY <1>4, <1>12
<1> QED BY <1>1, <1>3, <1>8, <1>10, <1>11, <1>13, <1>14, Zenon

(* the generic code makes whole blocks,                                    *)
LEMMA WholeblockStep == CtrInv /\ Wholeblock => CtrInv'
<1> SUFFICES ASSUME CtrInv, Wholeblock PROVE CtrInv'
  OBVIOUS
<1> USE AesCtrAssumption
<1>1. at = "blocks" /\ left >= Blk /\ UNCHANGED <<key, at, asked>>
  BY DEF Wholeblock
<1>2. crypto_aesctr_stream_cipherblock_generate /\ Use(buf', Blk, 0)
  BY DEF Wholeblock
<1>3. Blk \in 1 .. Blk /\ Blk <= left
  BY <1>1 DEF CtrInv
<1> QED BY <1>1, <1>2, <1>3, GeneratedStep DEF CtrInv

(* and a part of one,                                                      *)
LEMMA PostStep == CtrInv /\ crypto_aesctr_stream_post_wholeblock => CtrInv'
<1> SUFFICES ASSUME CtrInv, crypto_aesctr_stream_post_wholeblock PROVE CtrInv'
  OBVIOUS
<1> USE AesCtrAssumption
<1>1. at \in {"blocks", "blocks_hw"} /\ left < Blk /\ at' = "ready" /\ UNCHANGED <<key, asked>>
  BY DEF crypto_aesctr_stream_post_wholeblock
<1>2. left \in Nat
  BY DEF CtrInv
<1>3. CASE left > 0
  <2>1. crypto_aesctr_stream_cipherblock_generate /\ Use(buf', left, 0)
    BY <1>3 DEF crypto_aesctr_stream_post_wholeblock
  <2>2. left \in 1 .. Blk /\ left <= left
    BY <1>1, <1>2, <1>3
  <2>3. bytectr % Blk = 0 /\ at # "none"
    BY <1>1 DEF CtrInv
  <2> QED BY <1>1, <2>1, <2>2, <2>3, GeneratedStep DEF CtrInv, CounterBlock
<1>4. CASE ~(left > 0)
  <2>1. UNCHANGED <<pblk, buf, cipher, bytectr, left>>
    BY <1>4 DEF crypto_aesctr_stream_post_wholeblock
  <2>2. KeyStream' = KeyStream
    BY <1>1 DEF KeyStream, StreamByte
  <2> QED BY <1>1, <2>1, <2>2 DEF CtrInv, CounterBlock
<1> QED BY <1>3, <1>4

(* while the accelerated code makes all whole blocks at once.              *)
LEMMA WholeblocksStep == CtrInv /\ Wholeblocks => CtrInv'
<1> SUFFICES ASSUME CtrInv, Wholeblocks PROVE CtrInv'
  OBVIOUS
<1> USE AesCtrAssumption
<1> DEFINE B == bytectr \div Blk
           N == left \div Blk
           new == [i \in 1 .. (N * Blk) |->
                     [block |-> Cipherblock(be64enc(B + (i - 1) \div Blk)), at |-> (i - 1) % Blk]]
<1>1. /\ at = "blocks_hw" /\ left >= Blk /\ cipher' = cipher \o new
      /\ pblk' = be64enc(B + N - 1) /\ bytectr' = bytectr + Blk * N
      /\ left' = left - Blk * N /\ UNCHANGED <<key, buf, at, asked>>
  BY DEF Wholeblocks
<1>2. /\ bytectr \in Nat /\ left \in Nat /\ bytectr % Blk = 0
      /\ key = asked.key /\ pblk.nonce = asked.nonce
  BY <1>1 DEF CtrInv
<1>3. B \in Nat /\ bytectr % Blk = bytectr - Blk * B
  BY <1>2, DivMod
<1>4. N \in Nat /\ left % Blk \in Nat /\ left % Blk < Blk /\ left % Blk = left - Blk * N
  BY <1>2, DivMod, Zenon
<1>5. Blk * B \in Nat /\ Blk * N \in Nat /\ N * Blk = Blk * N
  BY <1>3, <1>4
<1>6. \A i \in 1 .. (Blk * N) :
         [block |-> Cipherblock(be64enc(B + (i - 1) \div Blk)), at |-> (i - 1) % Blk]
             = StreamByte(bytectr + i - 1)
  <2> TAKE i \in 1 .. (Blk * N)
  <2> DEFINE j == i - 1
  <2> HIDE DEF B, N
  <2>1. j \in Nat /\ bytectr + i - 1 = Blk * B + j
    BY <1>2, <1>3, <1>5
  <2> HIDE DEF j
  <2>2. (Blk * B + j) \div Blk = B + j \div Blk /\ (Blk * B + j) % Blk = j % Blk
    BY <1>3, <2>1, DivAdds, Zenon
  <2>3. [block |-> Cipherblock(be64enc(B + j \div Blk)), at |-> j % Blk]
           = StreamByte(Blk * B + j)
    BY <1>2, <2>2 DEF Cipherblock, be64enc, StreamByte
  <2> QED BY <2>1, <2>3 DEF j
<1>7. new = [i \in 1 .. (Blk * N) |-> StreamByte(bytectr + i - 1)]
  BY <1>5, <1>6
<1> HIDE DEF new
<1>8. bytectr' \in Nat /\ cipher' = [n \in 1 .. bytectr' |-> KeyStream'[n - 1]]
  <2> DEFINE k == Blk * N
  <2>1. k \in Nat /\ bytectr' = bytectr + k /\ new = [i \in 1 .. k |-> StreamByte(bytectr + i - 1)]
    BY <1>1, <1>5, <1>7
  <2> HIDE DEF k
  <2> QED BY <1>1, <2>1, UseStep, Zenon
<1> HIDE DEF B, N
<1>9. N # 0
  BY <1>1, <1>2, <1>4, <1>5
<1>10. B + N \in Nat /\ B + N - 1 \in Nat
  BY <1>3, <1>4, <1>9
<1>11. bytectr' = Blk * (B + N)
  <2>1. Blk * (B + N) = Blk * B + Blk * N
    BY <1>3, <1>4
  <2> QED BY <1>1, <1>2, <1>3, <1>5, <2>1, SMTT(30)
<1>12. bytectr' % Blk = 0
  <2>1. (Blk * (B + N) + 0) % Blk = 0
    BY <1>10, DivModUnique
  <2>2. Blk * (B + N) + 0 = bytectr'
    BY <1>8, <1>11
  <2> QED BY <2>1, <2>2, Zenon
<1>13. bytectr' # 0 /\ (bytectr' - 1) \div Blk = B + N - 1
  <2> DEFINE c == B + N - 1
  <2>1. c \in Nat /\ c + 1 = B + N
    BY <1>3, <1>4, <1>10
  <2> HIDE DEF c
  <2>2. Blk * (c + 1) = Blk * c + Blk /\ Blk * c \in Nat
    BY <2>1
  <2>3. (Blk * c + (Blk - 1)) \div Blk = c
    BY <2>1, DivModUnique
  <2>4. bytectr' = Blk * c + Blk
    BY <1>11, <2>1, <2>2
  <2>5. bytectr' - 1 = Blk * c + (Blk - 1) /\ bytectr' # 0
    BY <2>2, <2>4
  <2> QED BY <2>3, <2>5 DEF c
<1>14. left' \in Nat
  BY <1>1, <1>2, <1>4, <1>5
<1>15. /\ pblk' = [nonce |-> pblk'.nonce, hi |-> pblk'.hi, lo |-> pblk'.lo]
       /\ pblk'.nonce = asked.nonce
       /\ pblk'.hi = (B + N - 1) \div Byte /\ pblk'.lo = (B + N - 1) % Byte
  BY <1>1, <1>2 DEF be64enc
<1> QED BY <1>1, <1>2, <1>8, <1>12, <1>13, <1>14, <1>15, Zenon DEF CtrInv

(* Every step keeps the invariant.                                         *)
LEMMA CtrStep == CtrInv /\ [CtrNext]_ctrvars => CtrInv'
<1> SUFFICES ASSUME CtrInv, [CtrNext]_ctrvars PROVE CtrInv'
  OBVIOUS
<1> USE AesCtrAssumption
<1>1. ASSUME NEW k, NEW nonce, crypto_aesctr_init2(k, nonce) PROVE CtrInv'
  <2>1. /\ bytectr' = 0 /\ cipher' = <<>> /\ at' = "ready" /\ left' = left
        /\ key' = asked'.key /\ asked'.nonce = nonce
        /\ pblk' = [pblk EXCEPT !.nonce = nonce, !.lo = Byte - 1]
    BY <1>1 DEF crypto_aesctr_init2
  <2>2. cipher' = [n \in 1 .. bytectr' |-> KeyStream'[n - 1]]
    <3>1. 1 .. bytectr' = {}
      BY <2>1
    <3> QED BY <2>1, <3>1
  <2>3. 0 % Blk = 0
    OBVIOUS
  <2>4. pblk = [nonce |-> pblk.nonce, hi |-> pblk.hi, lo |-> pblk.lo]
    BY DEF CtrInv
  <2>5. pblk' = [nonce |-> nonce, hi |-> pblk.hi, lo |-> Byte - 1]
    BY <2>1, <2>4, Zenon
  <2> QED BY <2>1, <2>2, <2>3, <2>5, Zenon DEF CtrInv
<1>2. ASSUME NEW buflen \in 0 .. MaxStream, crypto_aesctr_stream(buflen) PROVE CtrInv'
  <2>1. /\ UNCHANGED <<key, bytectr, pblk, buf, asked, cipher>> /\ left' \in Nat
        /\ at' \in {"pre", "pre_hw"} /\ at = "ready"
    BY <1>2 DEF crypto_aesctr_stream
  <2>2. KeyStream' = KeyStream
    BY <2>1 DEF KeyStream, StreamByte
  <2> QED BY <2>1, <2>2 DEF CtrInv, CounterBlock
<1>3. CASE crypto_aesctr_free
  <2>1. /\ bytectr' = 0 /\ cipher' = <<>> /\ at' = "none" /\ left' = left
        /\ pblk' = [nonce |-> Undefined, hi |-> Undefined, lo |-> Undefined]
    BY <1>3 DEF crypto_aesctr_free
  <2>2. cipher' = [n \in 1 .. bytectr' |-> KeyStream'[n - 1]]
    <3>1. 1 .. bytectr' = {}
      BY <2>1
    <3> QED BY <2>1, <3>1
  <2> QED BY <2>1, <2>2 DEF CtrInv
<1>4. CASE UNCHANGED ctrvars
  <2>1. KeyStream' = KeyStream
    BY <1>4 DEF KeyStream, StreamByte, ctrvars
  <2> QED BY <1>4, <2>1 DEF CtrInv, CounterBlock, ctrvars
<1>5. CASE crypto_aesctr_aesni_stream_wholeblocks \/ crypto_aesctr_arm_stream_wholeblocks
  BY <1>5, WholeblocksStep
       DEF crypto_aesctr_aesni_stream_wholeblocks, crypto_aesctr_arm_stream_wholeblocks
<1> QED BY <1>1, <1>2, <1>3, <1>4, <1>5, PreStep, WholeblockStep, PostStep DEF CtrNext

(* For all sizes of blocks and bytes, and every length: however a message  *)
(* is cut into calls of crypto_aesctr_stream and whichever code does which *)
(* part of it, byte n is made with byte n of the stream.                   *)
THEOREM StreamCorrect == CtrSpec => []StreamIsRight
<1>1. CtrInv => StreamIsRight
  <2> SUFFICES ASSUME CtrInv PROVE StreamIsRight
    OBVIOUS
  <2>1. bytectr \in Nat /\ cipher = [n \in 1 .. bytectr |-> KeyStream[n - 1]]
    BY DEF CtrInv
  <2>2. Len(cipher) = bytectr
    BY <2>1
  <2>3. \A n \in 1 .. bytectr : cipher[n] = StreamByte(n - 1)
    BY <2>1 DEF KeyStream
  <2> QED BY <2>2, <2>3 DEF StreamIsRight
<1> QED BY <1>1, CtrStarts, CtrStep, PTL DEF CtrSpec

-----------------------------------------------------------------------------
(* DiffieHellman: functions defined by recursion.                          *)

(* Induction over the naturals, with a set for the property.               *)
LEMMA SetInduction ==
  ASSUME NEW S, 0 \in S, \A n \in Nat : n \in S => n + 1 \in S
  PROVE  \A n \in Nat : n \in S
<1> DEFINE T == {n \in Nat : n \notin S}
<1>1. SUFFICES ASSUME T # {} PROVE FALSE
  OBVIOUS
<1>2. IsWellFoundedOn(OpToRel(<, Nat), Nat)
  BY NatLessThanWellFounded, Zenon
<1>3. T \subseteq Nat
  OBVIOUS
<1> HIDE DEF T
<1>4. PICK x \in T : \A y \in T : ~(<<y, x>> \in OpToRel(<, Nat))
  BY <1>1, <1>2, <1>3, WFMin, Zenon
<1>5. \A y \in T : ~(y < x)
  BY <1>3, <1>4, Zenon DEF OpToRel
<1> USE DEF T
<1>6. x \in Nat /\ x \notin S /\ x # 0
  OBVIOUS
<1>7. x - 1 \in Nat /\ x - 1 < x
  BY <1>6
<1>8. x - 1 \in S
  BY <1>5, <1>7
<1> QED BY <1>6, <1>7, <1>8

(* A function is defined by its first value and a rule for the next one.   *)
Rules(X) == [Nat -> [X -> X]]
Computes(X, x, F) == \E f \in [Nat -> X] : f[0] = x /\ \A n \in Nat : f[n + 1] = F[n][f[n]]

(* There is such a function.                                               *)
LEMMA Recursion ==
  ASSUME NEW X, NEW x \in X, NEW F \in Rules(X)
  PROVE  Computes(X, x, F)
<1> USE DEF Rules
<1> DEFINE Ok(g, m) == /\ g \in [0 .. m -> X] /\ g[0] = x
                       /\ \A k \in 0 .. m - 1 : g[k + 1] = F[k][g[k]]
           A(m) == CHOOSE g : Ok(g, m)
           f == [n \in Nat |-> A(n)[n]]
<1>1. \A m \in Nat : \E g : Ok(g, m)
  <2> DEFINE E == {m \in Nat : \E g : Ok(g, m)}
  <2>1. 0 \in E
    <3>1. Ok([k \in 0 .. 0 |-> x], 0)
      OBVIOUS
    <3> QED BY <3>1, Zenon
  <2>2. ASSUME NEW m \in Nat, m \in E PROVE m + 1 \in E
    <3>1. PICK g : Ok(g, m)
      BY <2>2
    <3> DEFINE h == [k \in 0 .. m + 1 |-> IF k = m + 1 THEN F[m][g[m]] ELSE g[k]]
    <3>2. g[m] \in X /\ F[m][g[m]] \in X
      BY <3>1
    <3>3. h \in [0 .. m + 1 -> X] /\ h[0] = x
      BY <3>1, <3>2
    <3>4. ASSUME NEW k \in 0 .. (m + 1) - 1 PROVE h[k + 1] = F[k][h[k]]
      <4>1. CASE k = m
        BY <3>1, <4>1
      <4>2. CASE k # m
        <5>1. k \in 0 .. m - 1 /\ k + 1 # m + 1 /\ k # m + 1 /\ k \in 0 .. m + 1 /\ k + 1 \in 0 .. m + 1
          BY <4>2
        <5> QED BY <3>1, <5>1
      <4> QED BY <4>1, <4>2
    <3>5. Ok(h, m + 1)
      BY <3>3, <3>4, Zenon
    <3> HIDE DEF h, Ok
    <3>6. \E g1 : Ok(g1, m + 1)
      BY <3>5
    <3> QED BY <3>6
  <2> HIDE DEF E
  <2>3. \A m \in Nat : m \in E
    BY <2>1, <2>2, SetInduction
  <2> QED BY <2>3, Zenon DEF E
<1>2. \A m \in Nat : Ok(A(m), m)
  BY <1>1, Zenon
<1> HIDE DEF A
<1>3. ASSUME NEW m \in Nat PROVE A(m + 1)[m] = A(m)[m]
  <2> DEFINE g == A(m)
             h == A(m + 1)
             E == {k \in Nat : k <= m => h[k] = g[k]}
  <2>1. Ok(g, m) /\ Ok(h, m + 1)
    BY <1>2
  <2> HIDE DEF g, h
  <2>2. 0 \in E
    BY <2>1
  <2>3. ASSUME NEW k \in Nat, k \in E PROVE k + 1 \in E
    <3> SUFFICES ASSUME k + 1 <= m PROVE h[k + 1] = g[k + 1]
      OBVIOUS
    <3>1. k \in 0 .. m - 1 /\ k \in 0 .. (m + 1) - 1 /\ k <= m
      OBVIOUS
    <3> QED BY <2>1, <2>3, <3>1
  <2> HIDE DEF E
  <2>4. \A k \in Nat : k \in E
    BY <2>2, <2>3, SetInduction
  <2> QED BY <2>4 DEF E, g, h
<1>4. f \in [Nat -> X]
  <2>1. \A n \in Nat : A(n)[n] \in X
    BY <1>2
  <2> QED BY <2>1
<1>5. f[0] = x
  BY <1>2
<1>6. ASSUME NEW n \in Nat PROVE f[n + 1] = F[n][f[n]]
  <2>1. n + 1 \in Nat /\ n \in 0 .. (n + 1) - 1
    OBVIOUS
  <2>2. A(n + 1)[n + 1] = F[n][A(n + 1)[n]]
    BY <1>2, <2>1, Zenon
  <2>3. A(n + 1)[n + 1] = F[n][A(n)[n]]
    BY <1>3, <2>2, Zenon
  <2> QED BY <2>1, <2>3
<1> QED BY <1>4, <1>5, <1>6, Zenon DEF Computes

-----------------------------------------------------------------------------
(* DiffieHellman: numbers and their digits.                                *)

(* Natural numbers are closed under this.                                  *)
LEMMA LinearNat ==
  ASSUME NEW x \in Nat, NEW b \in Nat, NEW d \in Nat
  PROVE  x * b \in Nat /\ x * b + d \in Nat
<1> DEFINE y == x * b
<1>1. y \in Nat
  OBVIOUS
<1> HIDE DEF y
<1>2. y + d \in Nat
  BY <1>1
<1> QED BY <1>1, <1>2 DEF y

(* The numbers made of the first digits of s.                              *)
Value(s) == CHOOSE v : v = [i \in 0 .. Len(s) |-> IF i = 0 THEN 0 ELSE v[i - 1] * Base + s[i]]

(* What BN_bin2bn computes.                                                *)
LEMMA ValueIs ==
  ASSUME NEW s \in Seq(Nat)
  PROVE  /\ Value(s) \in [0 .. Len(s) -> Nat] /\ Value(s)[0] = 0
         /\ \A i \in 1 .. Len(s) : Value(s)[i] = Value(s)[i - 1] * Base + s[i]
         /\ BN_bin2bn(s) = Value(s)[Len(s)] /\ BN_bin2bn(s) \in Nat
<1> DEFINE n == Len(s)
           F == [k \in Nat |-> [x \in Nat |-> x * Base + (IF k + 1 <= n THEN s[k + 1] ELSE 0)]]
           Eq(v) == v = [i \in 0 .. n |-> IF i = 0 THEN 0 ELSE v[i - 1] * Base + s[i]]
<1>1. n \in Nat /\ Base \in Nat /\ \A i \in 1 .. n : s[i] \in Nat
  BY DhAssumption
<1>2. F \in [Nat -> [Nat -> Nat]]
  <2>1. ASSUME NEW k \in Nat, NEW x \in Nat
        PROVE  x * Base + (IF k + 1 <= n THEN s[k + 1] ELSE 0) \in Nat
    <3> DEFINE d == IF k + 1 <= n THEN s[k + 1] ELSE 0
    <3>1. d \in Nat
      BY <1>1
    <3>2. x * Base \in Nat
      BY <1>1
    <3> HIDE DEF d
    <3>3. x * Base + d \in Nat
      BY <3>1, <3>2
    <3> QED BY <3>3 DEF d
  <2> QED BY <2>1
<1> HIDE DEF F, n
<1>3. PICK f \in [Nat -> Nat] : f[0] = 0 /\ \A k \in Nat : f[k + 1] = F[k][f[k]]
  <2>1. 0 \in Nat
    OBVIOUS
  <2>2. Computes(Nat, 0, F)
    BY <1>2, <2>1, Recursion, Zenon DEF Rules
  <2> QED BY <2>2, Zenon DEF Computes
<1>4. Eq([i \in 0 .. n |-> f[i]])
  <2> DEFINE v == [i \in 0 .. n |-> f[i]]
  <2>1. ASSUME NEW i \in 0 .. n PROVE v[i] = IF i = 0 THEN 0 ELSE v[i - 1] * Base + s[i]
    <3>1. CASE i = 0
      BY <1>3, <3>1
    <3>2. CASE i # 0
      <4>1. i - 1 \in Nat /\ (i - 1) + 1 = i /\ i - 1 \in 0 .. n /\ i <= n /\ i \in Nat
        BY <1>1, <3>2
      <4>2. f[i] = F[i - 1][f[i - 1]] /\ f[i - 1] \in Nat
        BY <1>3, <4>1, Zenon
      <4>3. F[i - 1][f[i - 1]] = f[i - 1] * Base + s[i]
        BY <4>1, <4>2 DEF F
      <4> QED BY <3>2, <4>1, <4>2, <4>3
    <3> QED BY <3>1, <3>2
  <2> QED BY <2>1, Zenon
<1> DEFINE v == CHOOSE u : Eq(u)
<1>5. Eq(v)
  <2>1. \E u : Eq(u)
    BY <1>4, Zenon
  <2> QED BY <2>1, Zenon
<1>6. BN_bin2bn(s) = v[n] /\ Value(s) = v
  <2> USE DEF n
  <2>1. BN_bin2bn(s) = v[n]
    BY DEF BN_bin2bn
  <2>2. Value(s) = v
    BY DEF Value
  <2> QED BY <2>1, <2>2
<1> HIDE DEF v
<1>7. v[0] = 0 /\ \A i \in 1 .. n : v[i] = v[i - 1] * Base + s[i]
  <2> DEFINE g == [i \in 0 .. n |-> IF i = 0 THEN 0 ELSE v[i - 1] * Base + s[i]]
  <2>1. v = g
    BY <1>5, Zenon
  <2>2. ASSUME NEW i \in 0 .. n PROVE g[i] = IF i = 0 THEN 0 ELSE v[i - 1] * Base + s[i]
    BY Zenon
  <2> HIDE DEF g
  <2>3. 0 \in 0 .. n /\ \A i \in 1 .. n : i \in 0 .. n /\ i # 0
    BY <1>1
  <2>4. v[0] = 0
    BY <2>1, <2>2, <2>3, Zenon
  <2>5. ASSUME NEW i \in 1 .. n PROVE v[i] = v[i - 1] * Base + s[i]
    BY <2>1, <2>2, <2>3, Zenon
  <2> QED BY <2>4, <2>5, Zenon
<1>8. \A i \in 0 .. n : v[i] \in Nat
  <2> DEFINE E == {i \in Nat : i <= n => v[i] \in Nat}
  <2>1. 0 \in E
    BY <1>7
  <2>2. ASSUME NEW i \in Nat, i \in E PROVE i + 1 \in E
    <3> SUFFICES ASSUME i + 1 <= n PROVE v[i + 1] \in Nat
      OBVIOUS
    <3>1. i + 1 \in 1 .. n /\ (i + 1) - 1 = i
      BY <1>1
    <3>2. v[i] \in Nat /\ s[i + 1] \in Nat /\ v[i + 1] = v[i] * Base + s[i + 1]
      BY <1>1, <1>7, <2>2, <3>1
    <3> QED BY <1>1, <3>2, LinearNat, Zenon
  <2> HIDE DEF E
  <2>3. \A i \in Nat : i \in E
    BY <2>1, <2>2, SetInduction, Zenon
  <2> QED BY <1>1, <2>3 DEF E
<1>9. v \in [0 .. n -> Nat]
  <2>1. v = [i \in 0 .. n |-> v[i]]
    BY <1>5
  <2> QED BY <1>8, <2>1
<1>10. v[n] \in Nat
  BY <1>1, <1>8
<1> QED BY <1>6, <1>7, <1>9, <1>10, Zenon DEF n

(* Multiplication is monotone.                                             *)
LEMMA TimesMonotone ==
  ASSUME NEW a \in Nat, NEW b \in Nat, NEW c \in Nat, a <= b
  PROVE  a * c \in Nat /\ b * c \in Nat /\ a * c <= b * c
<1>1. PICK k \in Nat : b = a + k
  <2>1. b - a \in Nat /\ b = a + (b - a)
    OBVIOUS
  <2> QED BY <2>1
<1>2. (a + k) * c = a * c + k * c /\ k * c \in Nat /\ a * c \in Nat
  OBVIOUS
<1> QED BY <1>1, <1>2

(* One more than x digits, with a digit d more, is at most                 *)
LEMMA DigitBelow ==
  ASSUME NEW x \in Nat, NEW y \in Nat, x + 1 <= y, NEW d \in Digit
  PROVE  x * Base + d + 1 <= y * Base /\ x * Base \in Nat /\ y * Base \in Nat
<1>1. Base \in Nat /\ d \in Nat /\ d + 1 <= Base
  BY DhAssumption DEF Digit
<1>2. (x + 1) * Base <= y * Base /\ y * Base \in Nat
  BY <1>1, TimesMonotone
<1>3. (x + 1) * Base = x * Base + Base /\ x * Base \in Nat
  BY <1>1
<1> QED BY <1>1, <1>2, <1>3

(* The modulus is positive.                                                *)
LEMMA ModulusIs == modulus \in Nat \ {0} /\ CRYPTO_DH_PUBLEN \in Nat \ {0}
<1> DEFINE g == crypto_dh_group14
           n == Len(g)
           v == Value(g)
<1>1. g \in Seq(Digit) /\ g \in Seq(Nat) /\ n \in Nat
  BY DhAssumption DEF Digit
<1>2. PICK i \in 1 .. n : g[i] # 0
  BY <1>1, DhAssumption
<1>3. /\ v \in [0 .. n -> Nat] /\ modulus = v[n] /\ \A k \in 1 .. n : v[k] = v[k - 1] * Base + g[k]
      /\ \A k \in 1 .. n : g[k] \in Nat
  BY <1>1, ValueIs DEF modulus
<1> HIDE DEF g, n, v
<1> DEFINE E == {k \in Nat : i + k <= n => v[i + k] > 0}
<1>4. 0 \in E
  <2>1. v[i - 1] \in Nat /\ Base \in Nat /\ g[i] \in Nat /\ g[i] > 0 /\ v[i] = v[i - 1] * Base + g[i]
    <3>1. g[i] \in Nat /\ g[i] # 0 /\ v[i] = v[i - 1] * Base + g[i] /\ v \in [0 .. n -> Nat]
      BY ONLY <1>2, <1>3, i \in 1 .. n, Zenon
    <3>2. i - 1 \in 0 .. n
      BY ONLY <1>1, i \in 1 .. n
    <3>3. v[i - 1] \in Nat
      BY ONLY <3>1, <3>2
    <3>4. g[i] > 0
      BY ONLY <3>1
    <3> QED BY <3>1, <3>3, <3>4, DhAssumption, Zenon
  <2>2. v[i - 1] * Base \in Nat
    BY <2>1
  <2>3. i + 0 = i
    BY <1>1
  <2> QED BY <2>1, <2>2, <2>3
<1>5. ASSUME NEW k \in Nat, k \in E PROVE k + 1 \in E
  <2> SUFFICES ASSUME i + (k + 1) <= n PROVE v[i + (k + 1)] > 0
    OBVIOUS
  <2>1. i + k \in 0 .. n /\ i + (k + 1) \in 1 .. n /\ (i + (k + 1)) - 1 = i + k
    BY <1>1
  <2>2. v[i + k] \in Nat /\ v[i + k] >= 1 /\ v[i + (k + 1)] = v[i + k] * Base + g[i + (k + 1)]
        /\ g[i + (k + 1)] \in Nat
    BY <1>3, <1>5, <2>1
  <2>3. Base \in Nat /\ Base >= 1
    BY DhAssumption
  <2>4. 1 * Base <= v[i + k] * Base /\ v[i + k] * Base \in Nat
    BY <2>2, <2>3, TimesMonotone
  <2> QED BY <2>2, <2>3, <2>4
<1> HIDE DEF E
<1>6. \A k \in Nat : k \in E
  BY <1>4, <1>5, SetInduction
<1>7. n - i \in Nat /\ i + (n - i) = n /\ n \in Nat \ {0}
  BY <1>1
<1>8. v[n] > 0
  <2>1. n - i \in E
    BY <1>6, <1>7
  <2> QED BY <1>7, <2>1 DEF E
<1> QED BY <1>1, <1>3, <1>7, <1>8 DEF CRYPTO_DH_PUBLEN, g, n
(* What is left of x when digits are split off.                            *)
Rest(x) == CHOOSE v : v = [i \in 0 .. CRYPTO_DH_PUBLEN |-> IF i = 0 THEN x ELSE v[i - 1] \div Base]

(* It is divided by the base once for each digit.                          *)
LEMMA RestIs ==
  ASSUME NEW x \in Nat
  PROVE  /\ Rest(x) \in [0 .. CRYPTO_DH_PUBLEN -> Nat] /\ Rest(x)[0] = x
         /\ \A i \in 1 .. CRYPTO_DH_PUBLEN : Rest(x)[i] = Rest(x)[i - 1] \div Base
         /\ Digits(x) = [i \in 1 .. CRYPTO_DH_PUBLEN |-> Rest(x)[CRYPTO_DH_PUBLEN - i] % Base]
<1> DEFINE n == CRYPTO_DH_PUBLEN
           F == [k \in Nat |-> [y \in Nat |-> y \div Base]]
           Eq(v) == v = [i \in 0 .. n |-> IF i = 0 THEN x ELSE v[i - 1] \div Base]
<1>1. n \in Nat /\ Base \in Nat \ {0}
  BY ModulusIs, DhAssumption
<1> HIDE DEF n
<1>2. \A y \in Nat : y \div Base \in Nat
  BY <1>1, DivMod
<1>3. F \in Rules(Nat)
  BY <1>2 DEF Rules
<1> HIDE DEF F
<1>4. PICK f \in [Nat -> Nat] : f[0] = x /\ \A k \in Nat : f[k + 1] = F[k][f[k]]
  <2>1. Computes(Nat, x, F)
    BY <1>3, Recursion, Zenon
  <2> QED BY <2>1, Zenon DEF Computes
<1>5. Eq([i \in 0 .. n |-> f[i]])
  <2> DEFINE v == [i \in 0 .. n |-> f[i]]
  <2>1. ASSUME NEW i \in 0 .. n PROVE v[i] = IF i = 0 THEN x ELSE v[i - 1] \div Base
    <3>1. CASE i = 0
      BY <1>4, <3>1
    <3>2. CASE i # 0
      <4>1. i - 1 \in Nat /\ (i - 1) + 1 = i /\ i - 1 \in 0 .. n /\ i <= n /\ i \in Nat
        BY <1>1, <3>2
      <4>2. f[i] = F[i - 1][f[i - 1]] /\ f[i - 1] \in Nat
        BY <1>4, <4>1
      <4>3. F[i - 1][f[i - 1]] = f[i - 1] \div Base
        BY <4>1, <4>2, Zenon DEF F
      <4>4. v[i] = f[i] /\ v[i - 1] = f[i - 1]
        BY <4>1, Zenon
      <4> QED BY <3>2, <4>2, <4>3, <4>4, Zenon
    <3> QED BY <3>1, <3>2, Zenon
  <2> QED BY <2>1, Zenon
<1> DEFINE v == CHOOSE u : Eq(u)
<1>6. Eq(v)
  <2>1. \E u : Eq(u)
    BY <1>5, Zenon
  <2> QED BY <2>1, Zenon
<1>7. Digits(x) = [i \in 1 .. n |-> v[n - i] % Base] /\ Rest(x) = v
  <2> USE DEF n
  <2>1. Digits(x) = [i \in 1 .. n |-> v[n - i] % Base]
    BY DEF Digits
  <2>2. Rest(x) = v
    BY DEF Rest
  <2> QED BY <2>1, <2>2, Zenon
<1> HIDE DEF v
<1>8. v[0] = x /\ \A i \in 1 .. n : v[i] = v[i - 1] \div Base
  <2> DEFINE g == [i \in 0 .. n |-> IF i = 0 THEN x ELSE v[i - 1] \div Base]
  <2>1. v = g
    BY <1>6, Zenon
  <2>2. ASSUME NEW i \in 0 .. n PROVE g[i] = IF i = 0 THEN x ELSE v[i - 1] \div Base
    BY Zenon
  <2> HIDE DEF g
  <2>3. 0 \in 0 .. n /\ \A i \in 1 .. n : i \in 0 .. n /\ i # 0
    BY <1>1
  <2>4. v[0] = x
    BY <2>1, <2>2, <2>3, Zenon
  <2>5. ASSUME NEW i \in 1 .. n PROVE v[i] = v[i - 1] \div Base
    BY <2>1, <2>2, <2>3, Zenon
  <2> QED BY <2>4, <2>5, Zenon
<1>9. \A i \in 0 .. n : v[i] \in Nat
  <2> DEFINE E == {i \in Nat : i <= n => v[i] \in Nat}
  <2>1. 0 \in E
    BY <1>8
  <2>2. ASSUME NEW i \in Nat, i \in E PROVE i + 1 \in E
    <3> SUFFICES ASSUME i + 1 <= n PROVE v[i + 1] \in Nat
      OBVIOUS
    <3>1. i + 1 \in 1 .. n /\ (i + 1) - 1 = i /\ i <= n
      BY <1>1
    <3>2. v[i] \in Nat
      BY <2>2, <3>1
    <3> QED BY <1>2, <1>8, <3>1, <3>2, Zenon
  <2> HIDE DEF E
  <2>3. \A i \in Nat : i \in E
    BY <2>1, <2>2, SetInduction, Zenon
  <2> QED BY <1>1, <2>3 DEF E
<1>10. v \in [0 .. n -> Nat]
  <2>1. v = [i \in 0 .. n |-> v[i]]
    BY <1>6
  <2> QED BY <1>9, <2>1, Zenon
<1> QED BY <1>7, <1>8, <1>10, Zenon DEF n


-----------------------------------------------------------------------------
(* DiffieHellman: powers.                                                  *)

(* The powers of a.                                                        *)
Pow(a) == CHOOSE v : v = [i \in Nat |-> IF i = 0 THEN 1 ELSE (v[i - 1] * a) % modulus]

(* What BN_mod_exp computes, for exponents that are not negative.          *)
LEMMA PowIs ==
  ASSUME NEW a \in Nat
  PROVE  /\ Pow(a) \in [Nat -> Nat] /\ Pow(a)[0] = 1
         /\ \A i \in Nat : Pow(a)[i + 1] = (Pow(a)[i] * a) % modulus /\ Pow(a)[i + 1] < modulus
         /\ \A e \in Nat : BN_mod_exp(a, e) = Pow(a)[e]
<1> DEFINE F == [k \in Nat |-> [y \in Nat |-> (y * a) % modulus]]
           Eq(v) == v = [i \in Nat |-> IF i = 0 THEN 1 ELSE (v[i - 1] * a) % modulus]
<1>1. modulus \in Nat \ {0}
  BY ModulusIs
<1>2. ASSUME NEW y \in Nat PROVE (y * a) % modulus \in Nat /\ (y * a) % modulus < modulus
  <2>1. y * a \in Nat
    OBVIOUS
  <2> QED BY <1>1, <2>1, DivMod, Zenon
<1>3. F \in Rules(Nat)
  BY <1>2 DEF Rules
<1> HIDE DEF F
<1>4. PICK f \in [Nat -> Nat] : f[0] = 1 /\ \A k \in Nat : f[k + 1] = F[k][f[k]]
  <2>1. 1 \in Nat
    OBVIOUS
  <2>2. Computes(Nat, 1, F)
    BY <1>3, <2>1, Recursion, Zenon
  <2> QED BY <2>2, Zenon DEF Computes
<1>5. Eq(f)
  <2>1. ASSUME NEW i \in Nat PROVE f[i] = IF i = 0 THEN 1 ELSE (f[i - 1] * a) % modulus
    <3>1. CASE i = 0
      BY <1>4, <3>1
    <3>2. CASE i # 0
      <4>1. i - 1 \in Nat /\ (i - 1) + 1 = i
        BY <3>2
      <4>2. f[i] = F[i - 1][f[i - 1]] /\ f[i - 1] \in Nat
        BY <1>4, <4>1
      <4>3. F[i - 1][f[i - 1]] = (f[i - 1] * a) % modulus
        BY <4>1, <4>2, Zenon DEF F
      <4> QED BY <3>2, <4>2, <4>3, Zenon
    <3> QED BY <3>1, <3>2, Zenon
  <2>2. f = [i \in Nat |-> f[i]]
    OBVIOUS
  <2> QED BY <2>1, <2>2, Zenon
<1> DEFINE v == CHOOSE u : Eq(u)
<1>6. Eq(v)
  <2>1. \E u : Eq(u)
    BY <1>5, Zenon
  <2> QED BY <2>1, Zenon
<1>7. Pow(a) = v /\ \A e \in Nat : BN_mod_exp(a, e) = v[e]
  <2>1. Pow(a) = v
    BY DEF Pow
  <2>2. ASSUME NEW e \in Nat PROVE BN_mod_exp(a, e) = v[e]
    <3>1. BN_mod_exp(a, e) = v[IF e < 0 THEN -e ELSE e]
      BY DEF BN_mod_exp
    <3>2. ~(e < 0)
      OBVIOUS
    <3> HIDE DEF v
    <3> QED BY <3>1, <3>2, Zenon
  <2> QED BY <2>1, <2>2, Zenon
<1> HIDE DEF v
<1>8. v[0] = 1 /\ \A i \in Nat : v[i + 1] = (v[i] * a) % modulus
  <2> DEFINE g == [i \in Nat |-> IF i = 0 THEN 1 ELSE (v[i - 1] * a) % modulus]
  <2>1. v = g
    BY <1>6, Zenon
  <2>2. ASSUME NEW i \in Nat PROVE g[i] = IF i = 0 THEN 1 ELSE (v[i - 1] * a) % modulus
    BY Zenon
  <2> HIDE DEF g
  <2>3. 0 \in Nat /\ \A i \in Nat : i + 1 \in Nat /\ i + 1 # 0 /\ (i + 1) - 1 = i
    OBVIOUS
  <2>4. v[0] = 1
    BY <2>1, <2>2, <2>3, Zenon
  <2>5. ASSUME NEW i \in Nat PROVE v[i + 1] = (v[i] * a) % modulus
    <3>1. v[i + 1] = (v[(i + 1) - 1] * a) % modulus
      BY <2>1, <2>2, <2>3, Zenon
    <3> QED BY <2>3, <3>1, Zenon
  <2> QED BY <2>4, <2>5, Zenon
<1>9. \A i \in Nat : v[i] \in Nat
  <2> DEFINE E == {i \in Nat : v[i] \in Nat}
  <2>1. 0 \in E
    BY <1>8
  <2>2. ASSUME NEW i \in Nat, i \in E PROVE i + 1 \in E
    <3>1. v[i] \in Nat /\ i + 1 \in Nat
      BY <2>2
    <3>2. v[i + 1] \in Nat
      BY <1>2, <1>8, <3>1, Zenon
    <3> QED BY <3>1, <3>2, Zenon
  <2> HIDE DEF E
  <2>3. \A i \in Nat : i \in E
    BY <2>1, <2>2, SetInduction, Zenon
  <2> QED BY <2>3, Zenon DEF E
<1>10. v \in [Nat -> Nat]
  <2>1. v = [i \in Nat |-> v[i]]
    BY <1>6
  <2> QED BY <1>9, <2>1, Zenon
<1>11. \A i \in Nat : v[i + 1] < modulus
  BY <1>2, <1>8, <1>9, Zenon
<1> QED BY <1>7, <1>8, <1>10, <1>11, Zenon

(* A factor can be reduced first.                                          *)
LEMMA ModTimes ==
  ASSUME NEW m \in Nat \ {0}, NEW x \in Nat, NEW y \in Nat
  PROVE  (x * (y % m)) % m = (x * y) % m
<1> DEFINE q == y \div m
           r == y % m
<1>1. q \in Nat /\ r \in Nat /\ r = y - m * q
  BY DivMod, Zenon
<1> HIDE DEF q, r
<1>2. m * q \in Nat /\ x * q \in Nat /\ x * r \in Nat
  BY <1>1
<1>3. y = m * q + r
  BY <1>1, <1>2
<1>4. x * (m * q + r) = m * (x * q) + x * r
  BY <1>1
<1>5. (m * (x * q) + x * r) % m = (x * r) % m
  BY <1>2, DivAdds, Zenon
<1>6. (x * y) % m = (x * r) % m
  BY <1>3, <1>4, <1>5, Zenon
<1> QED BY <1>6, Zenon DEF r

(* A small number is its own remainder.                                    *)
LEMMA ModSmall ==
  ASSUME NEW m \in Nat \ {0}, NEW y \in Nat, y < m
  PROVE  y % m = y
<1>1. m * 0 + y = y /\ y \in 0 .. (m - 1) /\ 0 \in Nat
  OBVIOUS
<1>2. (m * 0 + y) % m = y
  BY <1>1, DivModUnique, Zenon
<1> QED BY <1>1, <1>2, Zenon

(* Exponents add,                                                          *)
LEMMA PowAdd ==
  ASSUME NEW a \in Nat, NEW i \in Nat \ {0}, NEW j \in Nat
  PROVE  (Pow(a)[i] * Pow(a)[j]) % modulus = Pow(a)[i + j]
<1> DEFINE P == Pow(a)
           m == modulus
           E == {k \in Nat : (P[i] * P[k]) % m = P[i + k]}
<1>1. /\ m \in Nat \ {0} /\ P[0] = 1
      /\ \A k \in Nat : P[k] \in Nat /\ P[k + 1] = (P[k] * a) % m /\ P[k + 1] < m
  BY ModulusIs, PowIs
<1> HIDE DEF P, m
<1>2. P[i] \in Nat /\ P[i] < m
  <2>1. i - 1 \in Nat /\ (i - 1) + 1 = i
    OBVIOUS
  <2>2. P[(i - 1) + 1] < m
    BY <1>1, <2>1, Zenon
  <2> QED BY <1>1, <2>1, <2>2
<1>3. 0 \in E
  <2>1. P[i] * 1 = P[i] /\ i + 0 = i /\ 0 \in Nat
    BY <1>2
  <2>2. P[i] % m = P[i]
    BY <1>1, <1>2, ModSmall, Zenon
  <2>3. (P[i] * P[0]) % m = P[i + 0]
    BY <1>1, <2>1, <2>2, Zenon
  <2> QED BY <2>1, <2>3, Zenon
<1>4. ASSUME NEW k \in Nat, k \in E PROVE k + 1 \in E
  <2> DEFINE x == P[i]
             y == P[k]
             z == (x * y) % m
  <2>1. x \in Nat /\ y \in Nat
    BY <1>1, <1>2
  <2>2. z = P[i + k] /\ i + k \in Nat /\ (i + k) + 1 = i + (k + 1) /\ k + 1 \in Nat
    BY <1>4
  <2>3. P[k + 1] = (y * a) % m /\ P[i + (k + 1)] = (z * a) % m
    <3>1. P[(i + k) + 1] = (P[i + k] * a) % m
      BY <1>1, <2>2, Zenon
    <3> QED BY <1>1, <2>2, <3>1, Zenon
  <2>4. y * a \in Nat /\ x * y \in Nat /\ z \in Nat /\ z * a = a * z
        /\ x * (y * a) = a * (x * y)
    <3>1. y * a \in Nat /\ x * y \in Nat /\ x * (y * a) = a * (x * y)
      <4> HIDE DEF x, y, z
      <4> QED BY <2>1
    <3>2. z \in Nat
      <4> HIDE DEF x, y
      <4> QED BY <1>1, <3>1, DivMod, Zenon
    <3> HIDE DEF x, y, z
    <3>3. z * a = a * z
      BY <3>2
    <3> QED BY <3>1, <3>2, <3>3
  <2>5. (x * ((y * a) % m)) % m = (x * (y * a)) % m
    <3> HIDE DEF x, y, z
    <3> QED BY <1>1, <2>1, <2>4, ModTimes, Zenon
  <2>6. (a * z) % m = (a * (x * y)) % m
    <3>1. (a * ((x * y) % m)) % m = (a * (x * y)) % m
      <4> HIDE DEF x, y
      <4> QED BY <1>1, <2>4, ModTimes, Zenon
    <3> QED BY <3>1, Zenon
  <2> HIDE DEF z
  <2>7. (P[i] * P[k + 1]) % m = P[i + (k + 1)]
    <3>1. (x * P[k + 1]) % m = P[i + (k + 1)]
      <4> HIDE DEF x, y
      <4> QED BY <2>3, <2>4, <2>5, <2>6, Zenon
    <3> QED BY <3>1, Zenon
  <2> QED BY <2>2, <2>7, Zenon
<1> HIDE DEF E
<1>5. \A k \in Nat : k \in E
  BY <1>3, <1>4, SetInduction, Zenon
<1> QED BY <1>5, Zenon DEF E, P, m

(* and multiply.                                                           *)
LEMMA PowTimes ==
  ASSUME NEW a \in Nat, NEW i \in Nat \ {0}, NEW j \in Nat
  PROVE  Pow(Pow(a)[i])[j] = Pow(a)[i * j]
<1> DEFINE P == Pow(a)
           Q == Pow(P[i])
           m == modulus
           E == {k \in Nat : Q[k] = P[i * k]}
<1>1. m \in Nat \ {0} /\ P[0] = 1 /\ P[i] \in Nat /\ \A k \in Nat : P[k] \in Nat
  BY ModulusIs, PowIs, Zenon
<1>2. Q[0] = 1 /\ \A k \in Nat : Q[k + 1] = (Q[k] * P[i]) % m
  <2> HIDE DEF P
  <2> QED BY <1>1, PowIs, Zenon
<1>3. \A k \in Nat : (P[i] * P[k]) % m = P[i + k]
  BY PowAdd, Zenon
<1> HIDE DEF P, Q, m
<1>4. 0 \in E
  <2>1. i * 0 = 0 /\ 0 \in Nat
    OBVIOUS
  <2> QED BY <1>1, <1>2, <2>1, Zenon
<1>5. ASSUME NEW k \in Nat, k \in E PROVE k + 1 \in E
  <2>1. i * k \in Nat /\ i * (k + 1) = i + i * k /\ k + 1 \in Nat
    OBVIOUS
  <2>2. Q[k + 1] = (P[i * k] * P[i]) % m
    BY <1>2, <1>5, Zenon
  <2>3. P[i * k] * P[i] = P[i] * P[i * k]
    <3>1. P[i * k] \in Nat
      BY <1>1, <2>1, Zenon
    <3> DEFINE y == P[i * k]
               x == P[i]
    <3>2. x \in Nat /\ y \in Nat
      BY <1>1, <3>1, Zenon
    <3> HIDE DEF x, y
    <3>3. y * x = x * y
      BY <3>2
    <3> QED BY <3>3, Zenon DEF x, y
  <2>4. (P[i] * P[i * k]) % m = P[i + i * k]
    BY <1>3, <2>1, Zenon
  <2>5. Q[k + 1] = P[i * (k + 1)]
    BY <2>1, <2>2, <2>3, <2>4, Zenon
  <2> QED BY <2>1, <2>5, Zenon
<1> HIDE DEF E
<1>6. \A k \in Nat : k \in E
  BY <1>4, <1>5, SetInduction, Zenon
<1> QED BY <1>6, Zenon DEF E, P, Q

-----------------------------------------------------------------------------
(* DiffieHellman: digits of numbers.                                       *)

(* Division is monotone.                                                   *)
LEMMA DivMonotone ==
  ASSUME NEW d \in Nat \ {0}, NEW x \in Nat, NEW y \in Nat, NEW r \in 0 .. (d - 1), x <= y * d + r
  PROVE  x \div d <= y
<1> DEFINE q == x \div d
<1>1. q \in Nat /\ d * q <= x
  BY DivMod
<1> HIDE DEF q
<1> SUFFICES ASSUME ~(q <= y) PROVE FALSE
  BY DEF q
<1>2. y + 1 <= q /\ y + 1 \in Nat
  BY <1>1
<1>3. (y + 1) * d <= q * d
  BY <1>1, <1>2, TimesMonotone
<1>4. (y + 1) * d = y * d + d /\ q * d = d * q /\ y * d \in Nat /\ d * q \in Nat
  BY <1>1
<1>5. d \in Nat /\ r < d /\ r \in Nat
  OBVIOUS
<1> DEFINE u == y * d
           v == d * q
<1>6. u \in Nat /\ v \in Nat /\ u + d <= v /\ v <= x /\ x <= u + r
  BY <1>1, <1>3, <1>4
<1> HIDE DEF u, v
<1> QED BY ONLY <1>5, <1>6, x \in Nat

(* All digits of a number up to the modulus are split off.                 *)
LEMMA RestIsZero ==
  ASSUME NEW x \in Nat, x <= modulus
  PROVE  Rest(x)[CRYPTO_DH_PUBLEN] = 0
<1> DEFINE n == CRYPTO_DH_PUBLEN
           g == crypto_dh_group14
           v == Value(g)
           r == Rest(x)
           E == {k \in Nat : k <= n => r[k] <= v[n - k]}
<1>1. g \in Seq(Digit) /\ g \in Seq(Nat) /\ n = Len(g) /\ n \in Nat /\ Base \in Nat \ {0}
  BY DhAssumption DEF Digit, CRYPTO_DH_PUBLEN
<1>2. /\ v \in [0 .. n -> Nat] /\ modulus = v[n] /\ v[0] = 0
      /\ \A k \in 1 .. n : v[k] = v[k - 1] * Base + g[k]
  BY <1>1, ValueIs, Zenon DEF modulus
<1>3. r \in [0 .. n -> Nat] /\ r[0] = x /\ \A k \in 1 .. n : r[k] = r[k - 1] \div Base
  BY RestIs
<1>4. \A k \in 1 .. n : g[k] \in 0 .. (Base - 1)
  BY <1>1 DEF Digit
<1> HIDE DEF n, g, v, r
<1>5. 0 \in E
  <2>1. n - 0 = n /\ 0 \in Nat
    BY <1>1
  <2> QED BY <1>2, <1>3, <2>1
<1>6. ASSUME NEW k \in Nat, k \in E PROVE k + 1 \in E
  <2> SUFFICES ASSUME k + 1 <= n PROVE r[k + 1] <= v[n - (k + 1)]
    OBVIOUS
  <2>1. /\ k + 1 \in 1 .. n /\ (k + 1) - 1 = k /\ k \in 0 .. n /\ k <= n
        /\ n - k \in 1 .. n /\ (n - k) - 1 = n - (k + 1) /\ n - (k + 1) \in 0 .. n
    BY <1>1
  <2>2. r[k + 1] = r[k] \div Base /\ r[k] \in Nat /\ r[k] <= v[n - k]
    BY <1>3, <1>6, <2>1
  <2>3. v[n - k] = v[n - (k + 1)] * Base + g[n - k] /\ v[n - (k + 1)] \in Nat
        /\ g[n - k] \in 0 .. (Base - 1)
    BY <1>2, <1>4, <2>1
  <2>4. r[k] <= v[n - (k + 1)] * Base + g[n - k]
    BY <2>2, <2>3, Zenon
  <2>5. r[k] \div Base <= v[n - (k + 1)]
    BY <1>1, <2>2, <2>3, <2>4, DivMonotone, Zenon
  <2> QED BY <2>2, <2>5, Zenon
<1> HIDE DEF E
<1>7. \A k \in Nat : k \in E
  BY <1>5, <1>6, SetInduction, Zenon
<1>8. r[n] <= v[n - n] /\ n - n = 0
  BY <1>1, <1>7 DEF E
<1>9. r[n] \in Nat
  BY <1>1, <1>3
<1>10. r[n] = 0
  BY <1>2, <1>8, <1>9
<1> QED BY <1>10, Zenon DEF r, n

(* The number that the digits make is that again.                          *)
LEMMA DigitsRoundTrip ==
  ASSUME NEW x \in Nat, x <= modulus
  PROVE  Digits(x) \in Pub /\ BN_bin2bn(Digits(x)) = x
<1> DEFINE n == CRYPTO_DH_PUBLEN
           r == Rest(x)
           d == Digits(x)
           v == Value(d)
           E == {k \in Nat : k <= n => v[k] = r[n - k]}
<1>1. n \in Nat /\ Base \in Nat \ {0}
  BY ModulusIs, DhAssumption
<1>2. /\ r \in [0 .. n -> Nat] /\ r[0] = x /\ \A k \in 1 .. n : r[k] = r[k - 1] \div Base
      /\ d = [i \in 1 .. n |-> r[n - i] % Base]
  BY RestIs
<1>3. r[n] = 0
  BY RestIsZero
<1> HIDE DEF n, r, d
<1>4. ASSUME NEW i \in 1 .. n PROVE d[i] = r[n - i] % Base /\ r[n - i] \in Nat /\ d[i] \in 0 .. (Base - 1)
  <2>1. n - i \in 0 .. n
    BY <1>1
  <2>2. r[n - i] \in Nat
    BY <1>2, <2>1
  <2>3. r[n - i] % Base \in Nat /\ r[n - i] % Base < Base
    BY <1>1, <2>2, DivMod, Zenon
  <2>4. d[i] = r[n - i] % Base
    BY <1>2, Zenon
  <2>5. d[i] \in Nat /\ d[i] < Base
    BY <2>3, <2>4, Zenon
  <2>6. d[i] \in 0 .. (Base - 1)
    BY <1>1, <2>5
  <2> QED BY <2>2, <2>4, <2>6, Zenon
<1>5. d \in [1 .. n -> Digit]
  <2>1. d = [i \in 1 .. n |-> d[i]]
    BY <1>2
  <2> QED BY <1>4, <2>1, Zenon DEF Digit
<1>6. d \in Seq(Nat) /\ Len(d) = n
  <2>1. d \in Seq(Digit) /\ Len(d) = n
    BY <1>1, <1>5
  <2> QED BY <1>1, <1>5, <2>1 DEF Digit
<1>7. v[0] = 0 /\ BN_bin2bn(d) = v[n] /\ \A k \in 1 .. n : v[k] = v[k - 1] * Base + d[k]
  BY <1>6, ValueIs, Zenon
<1> HIDE DEF v
<1>8. 0 \in E
  <2>1. n - 0 = n /\ 0 \in Nat
    BY <1>1
  <2> QED BY <1>3, <1>7, <2>1, Zenon
<1>9. ASSUME NEW k \in Nat, k \in E PROVE k + 1 \in E
  <2> SUFFICES ASSUME k + 1 <= n PROVE v[k + 1] = r[n - (k + 1)]
    OBVIOUS
  <2> DEFINE y == r[n - (k + 1)]
  <2>1. k + 1 \in 1 .. n /\ (k + 1) - 1 = k /\ k <= n /\ n - k \in 1 .. n /\ (n - k) - 1 = n - (k + 1)
    BY <1>1
  <2>2. v[k + 1] = v[k] * Base + d[k + 1] /\ v[k] = r[n - k]
    <3>1. v[k + 1] = v[(k + 1) - 1] * Base + d[k + 1]
      BY <1>7, <2>1, Zenon
    <3> QED BY <1>9, <2>1, <3>1, Zenon
  <2>3. r[n - k] = y \div Base
    <3>1. r[n - k] = r[(n - k) - 1] \div Base
      BY <1>2, <2>1, Zenon
    <3> QED BY <2>1, <3>1, Zenon
  <2>4. d[k + 1] = y % Base /\ y \in Nat
    BY <1>4, <2>1, Zenon
  <2> HIDE DEF y
  <2>5. y = (y \div Base) * Base + (y % Base)
    <3> DEFINE q == y \div Base
               z == y % Base
    <3>1. q \in Nat /\ z \in Nat /\ z = y - Base * q
      BY <1>1, <2>4, DivMod, Zenon
    <3> HIDE DEF q, z
    <3>2. y = q * Base + z
      BY <1>1, <2>4, <3>1
    <3> QED BY <3>2, Zenon DEF q, z
  <2>6. v[k + 1] = y
    BY <2>2, <2>3, <2>4, <2>5, Zenon
  <2> QED BY <2>6, Zenon DEF y
<1> HIDE DEF E
<1>10. \A k \in Nat : k \in E
  BY <1>8, <1>9, SetInduction, Zenon
<1>11. v[n] = r[n - n] /\ n - n = 0
  BY <1>1, <1>10 DEF E
<1>12. BN_bin2bn(d) = x
  BY <1>2, <1>7, <1>11, Zenon
<1> QED BY <1>5, <1>12, Zenon DEF d, n, Pub

(* Digits make a number.                                                   *)
LEMMA DigitSeq ==
  ASSUME NEW n \in Nat, NEW s \in [1 .. n -> Digit]
  PROVE  s \in Seq(Nat) /\ Len(s) = n /\ \A i \in 1 .. n : s[i] \in Nat
<1>1. \A d \in Digit : d \in Nat
  BY DhAssumption DEF Digit
<1>2. s \in [1 .. n -> Nat]
  BY <1>1
<1> QED BY <1>2

(* Leading zeros that BN_bn2bin leaves out are filled up again.            *)
LEMMA ExportIs ==
  ASSUME NEW x \in Nat, x <= modulus
  PROVE  export(x) \in Pub /\ BN_bin2bn(export(x)) = x /\ export(x) # <<>>
<1> DEFINE n == CRYPTO_DH_PUBLEN
           D == Digits(x)
           Zeros(z, k) == (\A j \in 1 .. z : D[j] = 0) /\ (z < k => D[z + 1] # 0)
           E == {k \in Nat : k <= n => \E z \in 0 .. k : Zeros(z, k)}
           z == CHOOSE y \in 0 .. n : Zeros(y, n)
           S == SubSeq(D, z + 1, n)
           Z == [i \in 1 .. (n - Len(S)) |-> 0]
<1>1. n \in Nat \ {0} /\ D \in [1 .. n -> Digit] /\ BN_bin2bn(D) = x
  BY ModulusIs, DigitsRoundTrip DEF Pub
<1>2. BN_bn2bin(x) = S /\ export(x) = Z \o S
  <2>1. BN_bn2bin(x) = S
    BY Zenon DEF BN_bn2bin
  <2> HIDE DEF S
  <2> QED BY <2>1, Zenon DEF export
<1>d. Digit \subseteq Nat
  BY DhAssumption DEF Digit
<1> HIDE DEF n, D
<1>3. z \in 0 .. n /\ Zeros(z, n)
  <2>1. 0 \in E
    <3>1. Zeros(0, 0) /\ 0 \in 0 .. 0
      OBVIOUS
    <3> QED BY <3>1
  <2>2. ASSUME NEW k \in Nat, k \in E PROVE k + 1 \in E
    <3> SUFFICES ASSUME k + 1 <= n PROVE \E y \in 0 .. (k + 1) : Zeros(y, k + 1)
      OBVIOUS
    <3>0. k <= n
      BY <1>1
    <3>1. PICK y \in 0 .. k : Zeros(y, k)
      BY <2>2, <3>0, Zenon
    <3>2. CASE y < k
      <4>1. y \in 0 .. (k + 1) /\ Zeros(y, k + 1)
        BY <3>1, <3>2
      <4> QED BY <4>1, Zenon
    <3>3. CASE y = k /\ D[k + 1] # 0
      <4>1. y \in 0 .. (k + 1) /\ Zeros(y, k + 1)
        BY <3>1, <3>3
      <4> QED BY <4>1, Zenon
    <3>4. CASE y = k /\ D[k + 1] = 0
      <4>1. k + 1 \in 0 .. (k + 1) /\ Zeros(k + 1, k + 1)
        BY <3>1, <3>4
      <4> QED BY <4>1, Zenon
    <3> QED BY <3>2, <3>3, <3>4
  <2> HIDE DEF E
  <2>3. \A k \in Nat : k \in E
    BY <2>1, <2>2, SetInduction, Zenon
  <2>4. n \in Nat /\ n <= n
    BY <1>1
  <2>5. \E y \in 0 .. n : Zeros(y, n)
    BY <2>3, <2>4, Zenon DEF E
  <2> QED BY <2>5, Zenon
<1>4. z \in 0 .. n /\ \A j \in 1 .. z : D[j] = 0
  BY <1>3, Zenon
<1> HIDE DEF z
<1>5. D \in Seq(Nat) /\ Len(D) = n
  BY <1>1, <1>d, DigitSeq, Zenon
<1>6. S \in Seq(Nat) /\ Len(S) = n - z /\ \A i \in 1 .. (n - z) : S[i] = D[z + i]
  <2>1. Len(S) = n - z
    BY <1>1, <1>4, <1>5
  <2>2. ASSUME NEW i \in 1 .. (n - z) PROVE S[i] = D[z + i]
    BY <1>1, <1>4, <1>5
  <2>3. S \in Seq(Nat)
    BY <1>1, <1>4, <1>5
  <2> QED BY <2>1, <2>2, <2>3, Zenon
<1> HIDE DEF S
<1>7. Z \in Seq(Nat) /\ Len(Z) = z /\ \A i \in 1 .. z : Z[i] = 0
  <2>1. n - Len(S) = z /\ z \in Nat
    BY <1>1, <1>4, <1>6
  <2>2. Z = [i \in 1 .. z |-> 0]
    BY <2>1, Zenon
  <2> HIDE DEF Z
  <2> QED BY <2>1, <2>2
<1> HIDE DEF Z
<1>8. Z \o S = D
  <2> DEFINE W == Z \o S
  <2>1. W \in Seq(Nat) /\ Len(W) = n
    BY <1>1, <1>4, <1>6, <1>7
  <2>2. ASSUME NEW i \in 1 .. n PROVE W[i] = D[i]
    <3>1. CASE i <= z
      <4>1. W[i] = Z[i] /\ i \in 1 .. z
        BY <1>1, <1>4, <1>6, <1>7, <3>1
      <4> QED BY <1>4, <1>7, <4>1, Zenon
    <3>2. CASE ~(i <= z)
      <4>1. W[i] = S[i - z] /\ i - z \in 1 .. (n - z) /\ z + (i - z) = i
        BY <1>1, <1>4, <1>6, <1>7, <3>2
      <4>2. S[i - z] = D[z + (i - z)]
        BY <1>6, <4>1, Zenon
      <4> QED BY <4>1, <4>2, Zenon
    <3> QED BY <3>1, <3>2, Zenon
  <2> HIDE DEF W
  <2>3. W = D
    BY <1>5, <2>1, <2>2
  <2> QED BY <2>3, Zenon DEF W
<1>9. export(x) = D
  BY <1>2, <1>8, Zenon
<1>10. D # <<>>
  BY <1>1
<1> QED BY <1>1, <1>9, <1>10, Zenon DEF Pub, n

(* What the check refuses is at least the modulus.                         *)
LEMMA SanityIs ==
  ASSUME NEW p \in Pub, crypto_dh_sanitycheck(p) # 0
  PROVE  BN_bin2bn(p) >= modulus
<1> DEFINE n == CRYPTO_DH_PUBLEN
           g == crypto_dh_group14
           v == Value(g)
           u == Value(p)
<1>1. g \in Seq(Nat) /\ n = Len(g) /\ n \in Nat /\ Base \in Nat \ {0} /\ \A k \in 1 .. n : g[k] \in Digit
  BY DhAssumption DEF Digit, CRYPTO_DH_PUBLEN
<1>2. /\ v \in [0 .. n -> Nat] /\ modulus = v[n] /\ v[0] = 0
      /\ \A k \in 1 .. n : v[k] = v[k - 1] * Base + g[k]
  BY <1>1, ValueIs DEF modulus
<1>3. p \in Seq(Nat) /\ Len(p) = n /\ \A k \in 1 .. n : p[k] \in Nat
  BY <1>1, DigitSeq, Zenon DEF Pub
<1>4. /\ u \in [0 .. n -> Nat] /\ BN_bin2bn(p) = u[n] /\ u[0] = 0
      /\ \A k \in 1 .. n : u[k] = u[k - 1] * Base + p[k]
  BY <1>3, ValueIs, Zenon
<1>5. \/ p = g
      \/ \E i \in 1 .. n : p[i] > g[i] /\ \A j \in 1 .. (i - 1) : p[j] = g[j]
  BY Zenon DEF crypto_dh_sanitycheck
<1> HIDE DEF n, g, v, u
<1>6. CASE p = g
  <2>1. BN_bin2bn(p) = modulus
    BY <1>6, Zenon DEF modulus, g
  <2> QED BY <1>2, <1>1, <2>1
<1>7. ASSUME NEW i \in 1 .. n, p[i] > g[i], \A j \in 1 .. (i - 1) : p[j] = g[j]
      PROVE  u[n] >= v[n]
  <2> DEFINE E == {k \in Nat : k <= n => (IF k < i THEN u[k] = v[k] ELSE v[k] + 1 <= u[k])}
  <2>1. 0 \in E
    BY <1>2, <1>4
  <2>2. ASSUME NEW k \in Nat, k \in E PROVE k + 1 \in E
    <3> SUFFICES ASSUME k + 1 <= n
                 PROVE  IF k + 1 < i THEN u[k + 1] = v[k + 1] ELSE v[k + 1] + 1 <= u[k + 1]
      OBVIOUS
    <3>1. k + 1 \in 1 .. n /\ (k + 1) - 1 = k /\ k \in 0 .. n /\ k <= n
      BY <1>1
    <3>2. /\ u[k + 1] = u[k] * Base + p[k + 1] /\ v[k + 1] = v[k] * Base + g[k + 1]
          /\ u[k] \in Nat /\ v[k] \in Nat /\ p[k + 1] \in Nat /\ g[k + 1] \in Digit
      <4>1. u[k + 1] = u[(k + 1) - 1] * Base + p[k + 1] /\ v[k + 1] = v[(k + 1) - 1] * Base + g[k + 1]
        BY <1>2, <1>4, <3>1, Zenon
      <4>2. u[k] \in Nat /\ v[k] \in Nat /\ p[k + 1] \in Nat /\ g[k + 1] \in Digit
        BY <1>1, <1>2, <1>3, <1>4, <3>1, Zenon
      <4> QED BY <3>1, <4>1, <4>2, Zenon
    <3>3. CASE k + 1 < i
      <4>1. k < i /\ k + 1 \in 1 .. (i - 1)
        BY <3>3
      <4>2. u[k] = v[k] /\ p[k + 1] = g[k + 1]
        BY <1>7, <2>2, <3>1, <4>1, Zenon
      <4> QED BY <3>2, <3>3, <4>2, Zenon
    <3>4. CASE k + 1 = i
      <4>1. k < i
        BY <3>4
      <4>2. u[k] = v[k]
        BY <2>2, <3>1, <4>1, Zenon
      <4>3. g[i] + 1 <= p[i] /\ g[i] \in Nat /\ p[i] \in Nat
        <5>1. g[i] \in Digit /\ p[i] \in Nat /\ p[i] > g[i]
          BY ONLY <1>1, <1>3, <1>7, i \in 1 .. n, Zenon
        <5> QED BY ONLY <5>1, DhAssumption DEF Digit
      <4>4. v[k] * Base \in Nat
        BY <1>1, <3>2, LinearNat
      <4> DEFINE y == v[k] * Base
      <4>5. u[k + 1] = y + p[i] /\ v[k + 1] = y + g[i] /\ y \in Nat
        BY <3>2, <3>4, <4>2, <4>4, Zenon
      <4> HIDE DEF y
      <4>6. v[k + 1] + 1 <= u[k + 1]
        BY <4>3, <4>5
      <4> QED BY <3>4, <4>6
    <3>5. CASE k + 1 > i
      <4>1. ~(k < i) /\ ~(k + 1 < i)
        BY <3>5
      <4>2. v[k] + 1 <= u[k]
        BY <2>2, <3>1, <4>1, Zenon
      <4>3. v[k] * Base + g[k + 1] + 1 <= u[k] * Base /\ u[k] * Base \in Nat
        BY <3>2, <4>2, DigitBelow, Zenon
      <4> DEFINE y == u[k] * Base
      <4>4. v[k + 1] + 1 <= y /\ y \in Nat /\ u[k + 1] = y + p[k + 1] /\ v[k + 1] \in Nat
        <5>1. v[k + 1] \in Nat
          BY <1>2, <3>1
        <5> QED BY <3>2, <4>3, <5>1, Zenon
      <4> HIDE DEF y
      <4>5. v[k + 1] + 1 <= u[k + 1]
        BY <3>2, <4>4
      <4> QED BY <4>1, <4>5, Zenon
    <3>6. k + 1 < i \/ k + 1 = i \/ k + 1 > i
      OBVIOUS
    <3> QED BY <3>3, <3>4, <3>5, <3>6, Zenon
  <2> HIDE DEF E
  <2>3. \A k \in Nat : k \in E
    BY <2>1, <2>2, SetInduction, Zenon
  <2>e. n \in Nat /\ n <= n /\ ~(n < i)
    BY <1>1
  <2>4. v[n] + 1 <= u[n]
    BY <2>3, <2>e, Zenon DEF E
  <2>5. n \in 0 .. n
    BY <1>1
  <2>6. v[n] \in Nat /\ u[n] \in Nat
    BY <1>2, <1>4, <2>5, Zenon
  <2> QED BY <2>4, <2>6
<1> QED BY <1>2, <1>4, <1>5, <1>6, <1>7, Zenon

-----------------------------------------------------------------------------
(* DiffieHellman: blinding.                                                *)

(* A private key is less than 2^256.                                       *)
LEMMA PrivIs ==
  ASSUME NEW s \in Priv
  PROVE  BN_bin2bn(s) \in Nat /\ two_exp_256 \in Nat \ {0} /\ BN_bin2bn(s) < two_exp_256
<1> DEFINE n == CRYPTO_DH_PRIVLEN
           t == [i \in 1 .. n + 1 |-> IF i = 1 THEN 1 ELSE 0]
           u == Value(s)
           v == Value(t)
           E == {k \in Nat : k <= n => u[k] + 1 <= v[k + 1]}
<1>1. n \in Nat /\ n + 1 \in Nat /\ Base \in Nat \ {0}
  BY DhAssumption
<1>2. s \in Seq(Nat) /\ Len(s) = n /\ \A i \in 1 .. n : s[i] \in Digit
  <2>1. s \in [1 .. n -> Digit]
    BY DEF Priv
  <2> QED BY <1>1, <2>1, DigitSeq
<1> HIDE DEF n
<1>3. t \in Seq(Nat) /\ Len(t) = n + 1 /\ t[1] = 1 /\ \A i \in 1 .. n : t[i + 1] = 0
  <2>1. t \in [1 .. n + 1 -> Nat]
    BY <1>1
  <2>2. t[1] = 1 /\ \A i \in 1 .. n : t[i + 1] = 0
    BY <1>1
  <2> HIDE DEF t
  <2> QED BY <1>1, <2>1, <2>2
<1>4. two_exp_256 = BN_bin2bn(t)
  BY Zenon DEF two_exp_256, n
<1> HIDE DEF t
<1>5. /\ u \in [0 .. n -> Nat] /\ u[0] = 0 /\ BN_bin2bn(s) = u[n]
      /\ \A i \in 1 .. n : u[i] = u[i - 1] * Base + s[i]
  BY <1>2, ValueIs, Zenon
<1>6. /\ v \in [0 .. n + 1 -> Nat] /\ v[0] = 0 /\ BN_bin2bn(t) = v[n + 1]
      /\ \A i \in 1 .. n + 1 : v[i] = v[i - 1] * Base + t[i]
  BY <1>3, ValueIs, Zenon
<1> HIDE DEF u, v
<1>7. 0 \in E
  <2>1. 1 \in 1 .. n + 1 /\ 1 - 1 = 0 /\ 0 * Base + 1 = 1 /\ 0 + 1 = 1 /\ 0 \in Nat /\ 1 <= 1
    BY <1>1
  <2>2. v[1] = v[1 - 1] * Base + t[1]
    BY <1>6, <2>1, Zenon
  <2>3. u[0] + 1 <= v[0 + 1]
    BY <1>3, <1>5, <1>6, <2>1, <2>2, Zenon
  <2> QED BY <2>1, <2>3, Zenon
<1>8. ASSUME NEW k \in Nat, k \in E PROVE k + 1 \in E
  <2> SUFFICES ASSUME k + 1 <= n PROVE u[k + 1] + 1 <= v[(k + 1) + 1]
    OBVIOUS
  <2>1. /\ k + 1 \in 1 .. n /\ (k + 1) - 1 = k /\ k <= n /\ k \in 0 .. n /\ k + 1 \in 0 .. n + 1
        /\ (k + 1) + 1 \in 1 .. n + 1 /\ ((k + 1) + 1) - 1 = k + 1
    BY <1>1
  <2>2. u[k] \in Nat /\ v[k + 1] \in Nat /\ u[k] + 1 <= v[k + 1] /\ s[k + 1] \in Digit
    BY <1>2, <1>5, <1>6, <1>8, <2>1, Zenon
  <2>3. u[k + 1] = u[k] * Base + s[k + 1]
    <3>1. u[k + 1] = u[(k + 1) - 1] * Base + s[k + 1]
      BY <1>5, <2>1, Zenon
    <3> QED BY <2>1, <3>1, Zenon
  <2>4. v[(k + 1) + 1] = v[k + 1] * Base + 0
    <3>1. v[(k + 1) + 1] = v[((k + 1) + 1) - 1] * Base + t[(k + 1) + 1]
      BY <1>6, <2>1, Zenon
    <3> QED BY <1>3, <2>1, <3>1, Zenon
  <2>5. u[k] * Base + s[k + 1] + 1 <= v[k + 1] * Base /\ v[k + 1] * Base \in Nat
    BY <2>2, DigitBelow, Zenon
  <2>6. v[k + 1] * Base + 0 = v[k + 1] * Base
    BY <2>5
  <2> QED BY <2>3, <2>4, <2>5, <2>6, Zenon
<1> HIDE DEF E
<1>9. \A k \in Nat : k \in E
  BY <1>7, <1>8, SetInduction, Zenon
<1>10. n <= n /\ n \in 0 .. n /\ n + 1 \in 0 .. n + 1
  BY <1>1
<1>11. u[n] + 1 <= v[n + 1] /\ u[n] \in Nat /\ v[n + 1] \in Nat
  BY <1>1, <1>5, <1>6, <1>9, <1>10, Zenon DEF E
<1>12. u[n] < v[n + 1] /\ v[n + 1] # 0
  BY <1>11
<1>13. v[n + 1] \in Nat \ {0}
  BY <1>11, <1>12
<1> QED BY <1>4, <1>5, <1>6, <1>11, <1>12, <1>13, Zenon

(* Blinding does not change the power.                                     *)
LEMMA BlindedIs ==
  ASSUME NEW a \in Nat, NEW priv \in Priv, NEW blinding \in Priv
  PROVE  /\ FullExponent(priv) \in Nat \ {0}
         /\ blinded(a, priv, blinding) = Pow(a)[FullExponent(priv)]
         /\ BN_mod_exp(a, FullExponent(priv)) = Pow(a)[FullExponent(priv)]
         /\ Pow(a)[FullExponent(priv)] \in Nat
         /\ Pow(a)[FullExponent(priv)] < modulus
<1> DEFINE T == two_exp_256
           x == BN_bin2bn(priv)
           y == BN_bin2bn(blinding)
           i == y + T
           j == exponent(priv) - i
           e == FullExponent(priv)
<1>1. T \in Nat \ {0} /\ x \in Nat /\ y \in Nat /\ y < T
  BY PrivIs, Zenon
<1>2. exponent(priv) = x + T + T + T + T /\ e = 4 * T + x
  BY Zenon DEF exponent, FullExponent
<1>3. blinded(a, priv, blinding) = (BN_mod_exp(a, i) * BN_mod_exp(a, j)) % modulus
  BY Zenon DEF blinded
<1> HIDE DEF T, x, y
<1>4. i \in Nat \ {0} /\ j \in Nat /\ i + j = e /\ e \in Nat \ {0}
  <2> DEFINE p == exponent(priv)
             q == e
  <2>1. p = x + T + T + T + T /\ q = 4 * T + x
    BY <1>2, Zenon
  <2> HIDE DEF p, q
  <2>2. y + T \in Nat \ {0} /\ p - (y + T) \in Nat /\ (y + T) + (p - (y + T)) = q /\ q \in Nat \ {0}
    BY <1>1, <2>1
  <2> QED BY <2>2, Zenon DEF p, q
<1> HIDE DEF i, j, e
<1>5. BN_mod_exp(a, i) = Pow(a)[i] /\ BN_mod_exp(a, j) = Pow(a)[j] /\ BN_mod_exp(a, e) = Pow(a)[e]
  <2>1. i \in Nat /\ e \in Nat
    BY <1>4
  <2> QED BY <1>4, <2>1, PowIs, Zenon
<1>6. (Pow(a)[i] * Pow(a)[j]) % modulus = Pow(a)[i + j]
  BY <1>4, PowAdd, Zenon
<1>7. Pow(a)[e] \in Nat /\ Pow(a)[e] < modulus
  <2>1. e - 1 \in Nat /\ (e - 1) + 1 = e /\ e \in Nat
    BY <1>4
  <2>2. Pow(a)[(e - 1) + 1] < modulus /\ Pow(a) \in [Nat -> Nat]
    BY <2>1, PowIs, Zenon
  <2> QED BY <2>1, <2>2, Zenon
<1>8. blinded(a, priv, blinding) = Pow(a)[e]
  BY <1>3, <1>4, <1>5, <1>6, Zenon
<1> QED BY <1>4, <1>5, <1>7, <1>8, Zenon DEF e

-----------------------------------------------------------------------------
(* DiffieHellman: the exchange.                                            *)

(* What is allocated where a call has come to line l.                      *)
Held(l) ==
    IF l \in 1 .. 15 THEN modexp_err(Line[l][2]) \cup {"base"}
    ELSE IF l = RESULT THEN Numbers \cup {"base"}
    ELSE IF l = SET THEN {"base"} ELSE {}

Places == (1 .. 15) \cup {START, BASE, SET, RESULT, END}

LinesOk ==
    /\ turn \in 1 .. 4 /\ outcome \in {"running", "done", "failed", "insane"}
    /\ line \in Places /\ (line = END <=> outcome # "running")
    /\ ~misfreed /\ bns = Held(line)

(* The public key and the key of an end are these powers.                  *)
PairOk(e) ==
    /\ priv_of[e] \in Priv
    /\ pub_of[e] = export(Pow(2)[FullExponent(priv_of[e])])

KeyOk(e) ==
    /\ priv_of[e] \in Priv /\ sent[e] \in Pub
    /\ key_of[e] = export(Pow(BN_bin2bn(sent[e]))[FullExponent(priv_of[e])])

(* The calls that e makes.                                                 *)
Gen(e) == IF e = "c" THEN 1 ELSE 2
Com(e) == IF e = "c" THEN 3 ELSE 4

(* What an end has follows from the calls that it has made.                *)
EndOk(e) ==
    /\ pub_of[e] # <<>> => PairOk(e)
    /\ key_of[e] # <<>> => KeyOk(e)
    /\ turn > Gen(e) => PairOk(e)
    /\ turn > Com(e) => KeyOk(e)
    /\ outcome = "running" =>
          /\ turn <= Gen(e) => pub_of[e] = <<>>
          /\ turn <= Com(e) => key_of[e] = <<>>
          /\ turn = Gen(e) /\ line # START => priv_of[e] \in Priv
          /\ turn = Com(e) /\ line # START => sent[e] \in Pub

ValuesOk ==
    /\ DOMAIN priv_of = Party /\ DOMAIN pub_of = Party /\ DOMAIN key_of = Party
    /\ DOMAIN sent = Party
    /\ line \in (5 .. 15) \cup {RESULT} => rnd \in Priv
    /\ \A e \in Party : EndOk(e)
    /\ outcome = "done" /\ (\A e \in Party : sent[e] = pub_of[Other(e)]) => \A e \in Party : KeyOk(e)
    /\ outcome = "insane" =>
          /\ turn > 2 /\ pub_of[Other(self)] # <<>>
          /\ sent[self] \in Pub /\ BN_bin2bn(sent[self]) >= modulus

(* The places are different.                                               *)
LEMMA PlacesDiffer ==
  /\ START \notin 1 .. 15 /\ BASE \notin 1 .. 15 /\ SET \notin 1 .. 15 /\ RESULT \notin 1 .. 15
  /\ END \notin 1 .. 15 /\ START # BASE /\ START # SET /\ START # RESULT /\ START # END
  /\ BASE # SET /\ BASE # RESULT /\ BASE # END /\ SET # RESULT /\ SET # END /\ RESULT # END
BY DEF START, BASE, SET, RESULT, END

(* The calls in their order.                                               *)
LEMMA CallIs ==
  ASSUME turn \in 1 .. 4
  PROVE  /\ self \in Party
         /\ call = "generate" <=> turn = Gen(self)
         /\ call = "compute" <=> turn = Com(self)
         /\ call = "generate" \/ call = "compute"
         /\ call = "generate" => turn <= 2
         /\ call = "compute" => turn > 2
<1>1. turn = 1 \/ turn = 2 \/ turn = 3 \/ turn = 4
  OBVIOUS
<1>2. CASE turn = 1
  BY <1>2 DEF call, self, Calls, Gen, Com, Party
<1>3. CASE turn = 2
  BY <1>3 DEF call, self, Calls, Gen, Com, Party
<1>4. CASE turn = 3
  BY <1>4 DEF call, self, Calls, Gen, Com, Party
<1>5. CASE turn = 4
  BY <1>5 DEF call, self, Calls, Gen, Com, Party
<1> QED BY <1>1, <1>2, <1>3, <1>4, <1>5, Zenon

(* A line takes what the next one holds more.                              *)
LEMMA LineIs ==
  /\ DOMAIN Line = 1 .. 15 /\ Len(Line) = 15
  /\ modexp_err(Line[1][2]) = {}
  /\ \A l \in 1 .. 15 :
        LET next == IF l = 15 THEN Numbers ELSE modexp_err(Line[l + 1][2])
        IN  IF Line[l][1] \in Numbers
            THEN /\ Line[l][1] \notin modexp_err(Line[l][2]) \cup {"base"}
                 /\ next = modexp_err(Line[l][2]) \cup {Line[l][1]}
            ELSE next = modexp_err(Line[l][2])
  /\ \A l \in 1 .. 15 : Line[l][1] = "random" <=> l = 4
<1>1. DOMAIN Line = 1 .. 15 /\ Len(Line) = 15
  BY DEF Line
<1>2. Numbers = {"two_exp_256_bn", "priv_bn", "blinding_bn", "priv_blinded", "m_bn", "ctx", "r1", "r2"}
  BY DEF Numbers, Number
<1>3. /\ modexp_err(0) = {} /\ modexp_err(1) = {"two_exp_256_bn"}
      /\ modexp_err(2) = {"two_exp_256_bn", "priv_bn"}
      /\ modexp_err(3) = {"two_exp_256_bn", "priv_bn", "blinding_bn"}
      /\ modexp_err(4) = {"two_exp_256_bn", "priv_bn", "blinding_bn", "priv_blinded"}
  BY DEF modexp_err, Number
<1>4. /\ modexp_err(5) = {"two_exp_256_bn", "priv_bn", "blinding_bn", "priv_blinded", "m_bn"}
      /\ modexp_err(6) = {"two_exp_256_bn", "priv_bn", "blinding_bn", "priv_blinded", "m_bn", "ctx"}
      /\ modexp_err(7) = {"two_exp_256_bn", "priv_bn", "blinding_bn", "priv_blinded", "m_bn", "ctx", "r1"}
      /\ modexp_err(8) = Numbers
  BY <1>2 DEF modexp_err, Number
<1> DEFINE Is(l, o, k) == Line[l][1] = o /\ Line[l][2] = k
<1>5. /\ Is(1, "two_exp_256_bn", 0) /\ Is(2, "priv_bn", 1) /\ Is(3, "", 2) /\ Is(4, "random", 2)
      /\ Is(5, "blinding_bn", 2) /\ Is(6, "", 3) /\ Is(7, "priv_blinded", 3) /\ Is(8, "", 4)
      /\ Is(9, "m_bn", 4) /\ Is(10, "ctx", 5) /\ Is(11, "r1", 6) /\ Is(12, "r2", 7)
      /\ Is(13, "", 8) /\ Is(14, "", 8) /\ Is(15, "", 8)
  BY DEF Line
<1> DEFINE Next(l) == IF l = 15 THEN Numbers ELSE modexp_err(Line[l + 1][2])
           Good(l) == /\ Line[l][1] \in Numbers =>
                           /\ Line[l][1] \notin modexp_err(Line[l][2]) \cup {"base"}
                           /\ Next(l) = modexp_err(Line[l][2]) \cup {Line[l][1]}
                      /\ Line[l][1] \notin Numbers => Next(l) = modexp_err(Line[l][2])
           Named(l) == Line[l][1] = "random" <=> l = 4
<1>6. Good(1) /\ Named(1)
  <2>1. Line[1][1] = "two_exp_256_bn" /\ modexp_err(Line[1][2]) = modexp_err(0)
    BY <1>5, Zenon DEF Is
  <2>2. Next(1) = modexp_err(1)
    <3>1. 1 # 15 /\ 1 + 1 = 2
      OBVIOUS
    <3> QED BY <1>5, <3>1, Zenon DEF Is
  <2>3. "two_exp_256_bn" \in Numbers /\ "two_exp_256_bn" \notin modexp_err(0) \cup {"base"}
        /\ modexp_err(1) = modexp_err(0) \cup {"two_exp_256_bn"} /\ "two_exp_256_bn" # "random" /\ 1 # 4
    BY <1>2, <1>3, <1>4
  <2> QED BY <2>1, <2>2, <2>3, Zenon
<1>7. Good(2) /\ Named(2)
  <2>1. Line[2][1] = "priv_bn" /\ modexp_err(Line[2][2]) = modexp_err(1)
    BY <1>5, Zenon DEF Is
  <2>2. Next(2) = modexp_err(2)
    <3>1. 2 # 15 /\ 2 + 1 = 3
      OBVIOUS
    <3> QED BY <1>5, <3>1, Zenon DEF Is
  <2>3. "priv_bn" \in Numbers /\ "priv_bn" \notin modexp_err(1) \cup {"base"}
        /\ modexp_err(2) = modexp_err(1) \cup {"priv_bn"} /\ "priv_bn" # "random" /\ 2 # 4
    BY <1>2, <1>3, <1>4
  <2> QED BY <2>1, <2>2, <2>3, Zenon
<1>8. Good(3) /\ Named(3)
  <2>1. Line[3][1] = "" /\ modexp_err(Line[3][2]) = modexp_err(2)
    BY <1>5, Zenon DEF Is
  <2>2. Next(3) = modexp_err(2)
    <3>1. 3 # 15 /\ 3 + 1 = 4
      OBVIOUS
    <3> QED BY <1>5, <3>1, Zenon DEF Is
  <2>3. "" \notin Numbers /\ "" # "random" /\ 3 # 4
    BY <1>2
  <2> QED BY <1>4, <2>1, <2>2, <2>3, Zenon
<1>9. Good(4) /\ Named(4)
  <2>1. Line[4][1] = "random" /\ modexp_err(Line[4][2]) = modexp_err(2)
    BY <1>5, Zenon DEF Is
  <2>2. Next(4) = modexp_err(2)
    <3>1. 4 # 15 /\ 4 + 1 = 5
      OBVIOUS
    <3> QED BY <1>5, <3>1, Zenon DEF Is
  <2>3. "random" \notin Numbers /\ "random" = "random" /\ 4 = 4
    BY <1>2
  <2> QED BY <1>4, <2>1, <2>2, <2>3, Zenon
<1>10. Good(5) /\ Named(5)
  <2>1. Line[5][1] = "blinding_bn" /\ modexp_err(Line[5][2]) = modexp_err(2)
    BY <1>5, Zenon DEF Is
  <2>2. Next(5) = modexp_err(3)
    <3>1. 5 # 15 /\ 5 + 1 = 6
      OBVIOUS
    <3> QED BY <1>5, <3>1, Zenon DEF Is
  <2>3. "blinding_bn" \in Numbers /\ "blinding_bn" \notin modexp_err(2) \cup {"base"}
        /\ modexp_err(3) = modexp_err(2) \cup {"blinding_bn"} /\ "blinding_bn" # "random" /\ 5 # 4
    BY <1>2, <1>3, <1>4
  <2> QED BY <2>1, <2>2, <2>3, Zenon
<1>11. Good(6) /\ Named(6)
  <2>1. Line[6][1] = "" /\ modexp_err(Line[6][2]) = modexp_err(3)
    BY <1>5, Zenon DEF Is
  <2>2. Next(6) = modexp_err(3)
    <3>1. 6 # 15 /\ 6 + 1 = 7
      OBVIOUS
    <3> QED BY <1>5, <3>1, Zenon DEF Is
  <2>3. "" \notin Numbers /\ "" # "random" /\ 6 # 4
    BY <1>2
  <2> QED BY <1>4, <2>1, <2>2, <2>3, Zenon
<1>12. Good(7) /\ Named(7)
  <2>1. Line[7][1] = "priv_blinded" /\ modexp_err(Line[7][2]) = modexp_err(3)
    BY <1>5, Zenon DEF Is
  <2>2. Next(7) = modexp_err(4)
    <3>1. 7 # 15 /\ 7 + 1 = 8
      OBVIOUS
    <3> QED BY <1>5, <3>1, Zenon DEF Is
  <2>3. "priv_blinded" \in Numbers /\ "priv_blinded" \notin modexp_err(3) \cup {"base"}
        /\ modexp_err(4) = modexp_err(3) \cup {"priv_blinded"} /\ "priv_blinded" # "random" /\ 7 # 4
    BY <1>2, <1>3, <1>4
  <2> QED BY <2>1, <2>2, <2>3, Zenon
<1>13. Good(8) /\ Named(8)
  <2>1. Line[8][1] = "" /\ modexp_err(Line[8][2]) = modexp_err(4)
    BY <1>5, Zenon DEF Is
  <2>2. Next(8) = modexp_err(4)
    <3>1. 8 # 15 /\ 8 + 1 = 9
      OBVIOUS
    <3> QED BY <1>5, <3>1, Zenon DEF Is
  <2>3. "" \notin Numbers /\ "" # "random" /\ 8 # 4
    BY <1>2
  <2> QED BY <1>4, <2>1, <2>2, <2>3, Zenon
<1>14. Good(9) /\ Named(9)
  <2>1. Line[9][1] = "m_bn" /\ modexp_err(Line[9][2]) = modexp_err(4)
    BY <1>5, Zenon DEF Is
  <2>2. Next(9) = modexp_err(5)
    <3>1. 9 # 15 /\ 9 + 1 = 10
      OBVIOUS
    <3> QED BY <1>5, <3>1, Zenon DEF Is
  <2>3. "m_bn" \in Numbers /\ "m_bn" \notin modexp_err(4) \cup {"base"}
        /\ modexp_err(5) = modexp_err(4) \cup {"m_bn"} /\ "m_bn" # "random" /\ 9 # 4
    BY <1>2, <1>3, <1>4
  <2> QED BY <2>1, <2>2, <2>3, Zenon
<1>15. Good(10) /\ Named(10)
  <2>1. Line[10][1] = "ctx" /\ modexp_err(Line[10][2]) = modexp_err(5)
    BY <1>5, Zenon DEF Is
  <2>2. Next(10) = modexp_err(6)
    <3>1. 10 # 15 /\ 10 + 1 = 11
      OBVIOUS
    <3> QED BY <1>5, <3>1, Zenon DEF Is
  <2>3. "ctx" \in Numbers /\ "ctx" \notin modexp_err(5) \cup {"base"}
        /\ modexp_err(6) = modexp_err(5) \cup {"ctx"} /\ "ctx" # "random" /\ 10 # 4
    BY <1>2, <1>3, <1>4
  <2> QED BY <2>1, <2>2, <2>3, Zenon
<1>16. Good(11) /\ Named(11)
  <2>1. Line[11][1] = "r1" /\ modexp_err(Line[11][2]) = modexp_err(6)
    BY <1>5, Zenon DEF Is
  <2>2. Next(11) = modexp_err(7)
    <3>1. 11 # 15 /\ 11 + 1 = 12
      OBVIOUS
    <3> QED BY <1>5, <3>1, Zenon DEF Is
  <2>3. "r1" \in Numbers /\ "r1" \notin modexp_err(6) \cup {"base"}
        /\ modexp_err(7) = modexp_err(6) \cup {"r1"} /\ "r1" # "random" /\ 11 # 4
    BY <1>2, <1>3, <1>4
  <2> QED BY <2>1, <2>2, <2>3, Zenon
<1>17. Good(12) /\ Named(12)
  <2>1. Line[12][1] = "r2" /\ modexp_err(Line[12][2]) = modexp_err(7)
    BY <1>5, Zenon DEF Is
  <2>2. Next(12) = modexp_err(8)
    <3>1. 12 # 15 /\ 12 + 1 = 13
      OBVIOUS
    <3> QED BY <1>5, <3>1, Zenon DEF Is
  <2>3. "r2" \in Numbers /\ "r2" \notin modexp_err(7) \cup {"base"}
        /\ modexp_err(8) = modexp_err(7) \cup {"r2"} /\ "r2" # "random" /\ 12 # 4
    BY <1>2, <1>3, <1>4
  <2> QED BY <2>1, <2>2, <2>3, Zenon
<1>18. Good(13) /\ Named(13)
  <2>1. Line[13][1] = "" /\ modexp_err(Line[13][2]) = modexp_err(8)
    BY <1>5, Zenon DEF Is
  <2>2. Next(13) = modexp_err(8)
    <3>1. 13 # 15 /\ 13 + 1 = 14
      OBVIOUS
    <3> QED BY <1>5, <3>1, Zenon DEF Is
  <2>3. "" \notin Numbers /\ "" # "random" /\ 13 # 4
    BY <1>2
  <2> QED BY <1>4, <2>1, <2>2, <2>3, Zenon
<1>19. Good(14) /\ Named(14)
  <2>1. Line[14][1] = "" /\ modexp_err(Line[14][2]) = modexp_err(8)
    BY <1>5, Zenon DEF Is
  <2>2. Next(14) = modexp_err(8)
    <3>1. 14 # 15 /\ 14 + 1 = 15
      OBVIOUS
    <3> QED BY <1>5, <3>1, Zenon DEF Is
  <2>3. "" \notin Numbers /\ "" # "random" /\ 14 # 4
    BY <1>2
  <2> QED BY <1>4, <2>1, <2>2, <2>3, Zenon
<1>20. Good(15) /\ Named(15)
  <2>1. Line[15][1] = "" /\ modexp_err(Line[15][2]) = modexp_err(8)
    BY <1>5, Zenon DEF Is
  <2>2. Next(15) = Numbers
    OBVIOUS
  <2>3. "" \notin Numbers /\ "" # "random" /\ 15 # 4
    BY <1>2
  <2> QED BY <1>4, <2>1, <2>2, <2>3, Zenon
<1> HIDE DEF Good, Named
<1>21. \A l \in 1 .. 15 : \/ l = 1 \/ l = 2 \/ l = 3 \/ l = 4 \/ l = 5 \/ l = 6 \/ l = 7 \/ l = 8
                         \/ l = 9 \/ l = 10 \/ l = 11 \/ l = 12 \/ l = 13 \/ l = 14 \/ l = 15
  OBVIOUS
<1>22. \A l \in 1 .. 15 : Good(l) /\ Named(l)
  BY <1>6, <1>7, <1>8, <1>9, <1>10, <1>11, <1>12, <1>13, <1>14, <1>15, <1>16, <1>17, <1>18, <1>19,
     <1>20,
     <1>21, Zenon
<1>23. modexp_err(Line[1][2]) = {}
  BY <1>3, <1>5, Zenon DEF Is
<1> QED BY <1>1, <1>22, <1>23, Zenon DEF Good, Named

(* Each step allocates and frees what its line says.                       *)
LEMMA LinesInit == DhInit => LinesOk
<1> SUFFICES ASSUME DhInit PROVE LinesOk
  OBVIOUS
<1>1. turn \in 1 .. 4 /\ ~misfreed
  BY DEF DhInit
<1>2. outcome = "running" /\ line = START /\ bns = {}
  BY Zenon DEF DhInit
<1>3. Held(START) = {}
  BY PlacesDiffer, Zenon DEF Held
<1> QED BY <1>1, <1>2, <1>3, PlacesDiffer, Zenon DEF LinesOk, Places

(* At each line just the numbers in Held are allocated, in whatever way    *)
(* the calls fail.                                                         *)
LEMMA LinesStep ==
  ASSUME LinesOk, [DhNext]_dhvars
  PROVE  LinesOk'
<1>1. /\ turn \in 1 .. 4 /\ outcome \in {"running", "done", "failed", "insane"}
      /\ line \in Places /\ (line = END <=> outcome # "running")
      /\ ~misfreed /\ bns = Held(line)
  BY Zenon DEF LinesOk
<1>2. Held(START) = {} /\ Held(BASE) = {} /\ Held(END) = {} /\ Held(SET) = {"base"}
      /\ Held(RESULT) = Numbers \cup {"base"} /\ Held(1) = {"base"}
      /\ \A l \in 1 .. 15 : Held(l) = modexp_err(Line[l][2]) \cup {"base"}
  <2>1. 1 \in 1 .. 15
    OBVIOUS
  <2>2. \A l \in 1 .. 15 : Held(l) = modexp_err(Line[l][2]) \cup {"base"}
    BY Zenon DEF Held
  <2>3. modexp_err(Line[1][2]) \cup {"base"} = {"base"}
    BY LineIs
  <2>4. Held(1) = {"base"}
    BY <2>1, <2>2, <2>3, Zenon
  <2>5. Held(START) = {} /\ Held(BASE) = {} /\ Held(END) = {}
    BY PlacesDiffer, Zenon DEF Held
  <2>6. Held(SET) = {"base"} /\ Held(RESULT) = Numbers \cup {"base"}
    BY PlacesDiffer, Zenon DEF Held
  <2> QED BY <2>2, <2>4, <2>5, <2>6, Zenon
<1>3. START \in Places /\ BASE \in Places /\ SET \in Places /\ RESULT \in Places /\ END \in Places
      /\ 1 \in Places /\ 1 # END /\ \A l \in 1 .. 15 : l \in Places /\ l # END
  BY PlacesDiffer DEF Places
<1>4. ASSUME ~misfreed', bns' = Held(line'), turn' \in 1 .. 4, line' \in Places \ {END}, outcome' = "running"
      PROVE  LinesOk'
  BY <1>4 DEF LinesOk
<1>5. ASSUME ~misfreed', bns' = {}, turn' \in 1 .. 4, line' = END, outcome' \in {"done", "failed", "insane"}
      PROVE  LinesOk'
  BY <1>2, <1>3, <1>5 DEF LinesOk
<1>6. CASE crypto_dh_generate
  <2>1. line = START /\ outcome = "running" /\ UNCHANGED <<bns, misfreed, turn>>
    BY <1>6, Zenon DEF crypto_dh_generate, Fails
  <2>2. bns = {}
    BY <1>1, <1>2, <2>1, Zenon
  <2>3. CASE line' = BASE /\ outcome' = outcome
    BY <1>1, <1>2, <1>3, <1>4, <2>1, <2>2, <2>3, PlacesDiffer
  <2>4. CASE Fails
    <3>1. line' = END /\ outcome' = "failed"
      BY <2>4, Zenon DEF Fails
    <3> QED BY <1>1, <1>5, <2>1, <2>2, <3>1
  <2> QED BY <1>6, <2>3, <2>4, Zenon DEF crypto_dh_generate
<1>7. CASE receive
  <2>1. line = START /\ outcome = "running" /\ UNCHANGED <<bns, misfreed, turn>>
    BY <1>7, Zenon DEF receive
  <2>2. bns = {}
    BY <1>1, <1>2, <2>1, Zenon
  <2>3. (line' = BASE /\ outcome' = outcome) \/ (line' = END /\ outcome' = "insane")
    BY <1>7, Zenon DEF receive
  <2>4. CASE line' = BASE /\ outcome' = outcome
    BY <1>1, <1>2, <1>3, <1>4, <2>1, <2>2, <2>4, PlacesDiffer
  <2>5. CASE line' = END /\ outcome' = "insane"
    BY <1>1, <1>5, <2>1, <2>2, <2>5
  <2> QED BY <2>3, <2>4, <2>5, Zenon
<1>8. CASE base
  <2>1. line = BASE /\ outcome = "running"
    BY <1>8, Zenon DEF base
  <2>2. bns = {}
    BY <1>1, <1>2, <2>1, Zenon
  <2>3. CASE Allocates("base") /\ line' = SET /\ UNCHANGED <<turn, outcome>>
    <3>1. bns' = {"base"} /\ ~misfreed'
      BY <1>1, <2>2, <2>3, Zenon DEF Allocates
    <3> QED BY <1>1, <1>2, <1>3, <1>4, <2>1, <2>3, <3>1, PlacesDiffer
  <2>4. CASE Fails /\ UNCHANGED <<bns, misfreed>>
    <3>1. line' = END /\ outcome' = "failed" /\ turn' = turn
      BY <2>4, Zenon DEF Fails
    <3> QED BY <1>1, <1>5, <2>2, <2>4, <3>1
  <2> QED BY <1>8, <2>3, <2>4, Zenon DEF base
<1>9. CASE BN_set_word
  <2>1. line = SET /\ outcome = "running"
    BY <1>9, Zenon DEF BN_set_word
  <2>2. bns = {"base"}
    BY <1>1, <1>2, <2>1, Zenon
  <2>3. CASE line' = 1 /\ UNCHANGED <<turn, bns, misfreed, outcome>>
    BY <1>1, <1>2, <1>3, <1>4, <2>1, <2>2, <2>3
  <2>4. CASE Releases({"base"}) /\ Fails
    <3>1. line' = END /\ outcome' = "failed" /\ turn' = turn
      BY <2>4, Zenon DEF Fails
    <3>2. bns' = {} /\ ~misfreed'
      BY <1>1, <2>2, <2>4, Zenon DEF Releases
    <3> QED BY <1>1, <1>5, <3>1, <3>2
  <2> QED BY <1>9, <2>3, <2>4, Zenon DEF BN_set_word
<1>10. CASE blinded_modexp
  <2> DEFINE l == line
             o == Line[l][1]
             M == modexp_err(Line[l][2])
             N == IF l = 15 THEN Numbers ELSE modexp_err(Line[l + 1][2])
  <2>1. l \in 1 .. 15 /\ outcome = "running" /\ turn' = turn /\ outcome' = "running"
        /\ line' = (IF l = 15 THEN RESULT ELSE l + 1)
        /\ (IF o \in Numbers THEN Allocates(o) ELSE UNCHANGED <<bns, misfreed>>)
    BY <1>10, LineIs, Zenon DEF blinded_modexp
  <2>2. bns = M \cup {"base"}
    BY <1>1, <1>2, <2>1, Zenon
  <2>3. IF o \in Numbers THEN o \notin M \cup {"base"} /\ N = M \cup {o} ELSE N = M
    BY <2>1, LineIs, Zenon
  <2>4. line' \in Places \ {END} /\ Held(line') = N \cup {"base"}
    <3>1. CASE l = 15
      BY <1>2, <1>3, <2>1, <3>1, PlacesDiffer
    <3>2. CASE l # 15
      <4>1. line' = l + 1 /\ l + 1 \in 1 .. 15
        BY <2>1, <3>2
      <4>2. N = modexp_err(Line[l + 1][2])
        BY <3>2, Zenon
      <4> HIDE DEF N
      <4> QED BY <1>2, <1>3, <4>1, <4>2
    <3> QED BY <3>1, <3>2, Zenon
  <2> HIDE DEF l, o, M, N
  <2>5. bns' = N \cup {"base"} /\ ~misfreed'
    <3>1. CASE o \in Numbers
      BY <1>1, <2>1, <2>2, <2>3, <3>1, Zenon DEF Allocates
    <3>2. CASE o \notin Numbers
      BY <1>1, <2>1, <2>2, <2>3, <3>2
    <3> QED BY <3>1, <3>2
  <2> QED BY <1>1, <1>4, <2>1, <2>4, <2>5, Zenon
<1>11. CASE blinded_modexp_fails
  <2> DEFINE S == modexp_err(Line[line][2]) \cup {"base"}
  <2>1. line \in 1 .. 15 /\ Releases(S) /\ line' = END /\ outcome' = "failed" /\ turn' = turn
    BY <1>11, LineIs, Zenon DEF blinded_modexp_fails, Fails
  <2>2. bns = S
    BY <1>1, <1>2, <2>1, Zenon
  <2> HIDE DEF S
  <2>3. bns' = {} /\ ~misfreed'
    BY <1>1, <2>1, <2>2, Zenon DEF Releases
  <2> QED BY <1>1, <1>5, <2>1, <2>3
<1>12. CASE finish
  <2> DEFINE S == Numbers \cup {"base"}
  <2>1. line = RESULT /\ outcome = "running" /\ Releases(S)
        /\ \/ outcome' = "done" /\ line' = END /\ turn' = turn
           \/ turn # Len(Calls) /\ turn' = turn + 1 /\ line' = START /\ outcome' = outcome
    BY <1>12, Zenon DEF finish
  <2>2. bns = S
    BY <1>1, <1>2, <2>1, Zenon
  <2> HIDE DEF S
  <2>3. bns' = {} /\ ~misfreed'
    BY <1>1, <2>1, <2>2, Zenon DEF Releases
  <2>4. CASE outcome' = "done" /\ line' = END /\ turn' = turn
    BY <1>1, <1>5, <2>3, <2>4
  <2>5. CASE turn # Len(Calls) /\ turn' = turn + 1 /\ line' = START /\ outcome' = outcome
    <3>1. Len(Calls) = 4
      BY DEF Calls
    <3>2. turn' \in 1 .. 4
      BY <1>1, <2>5, <3>1
    <3> QED BY <1>2, <1>3, <1>4, <2>1, <2>3, <2>5, <3>2, PlacesDiffer
  <2> QED BY <2>1, <2>4, <2>5, Zenon
<1>13. CASE UNCHANGED dhvars
  BY <1>13, Zenon DEF dhvars, LinesOk, Held, modexp_err
<1> QED BY <1>6, <1>7, <1>8, <1>9, <1>10, <1>11, <1>12, <1>13, Zenon DEF DhNext

(* What is sent is a number.                                               *)
LEMMA PubIs ==
  ASSUME NEW s \in Pub
  PROVE  BN_bin2bn(s) \in Nat
<1>1. CRYPTO_DH_PUBLEN \in Nat
  BY ModulusIs
<1>2. s \in [1 .. CRYPTO_DH_PUBLEN -> Digit]
  BY Zenon DEF Pub
<1>3. s \in Seq(Nat)
  BY <1>1, <1>2, DigitSeq, Zenon
<1> QED BY <1>3, ValueIs, Zenon

(* What an end has, as numbers.                                            *)
LEMMA PairIs ==
  ASSUME NEW e, PairOk(e)
  PROVE  /\ pub_of[e] \in Pub /\ pub_of[e] # <<>> /\ FullExponent(priv_of[e]) \in Nat \ {0}
         /\ BN_bin2bn(pub_of[e]) = Pow(2)[FullExponent(priv_of[e])]
         /\ BN_bin2bn(pub_of[e]) = BN_mod_exp(2, FullExponent(priv_of[e]))
         /\ BN_bin2bn(pub_of[e]) < modulus
<1> DEFINE x == priv_of[e]
           k == FullExponent(x)
           y == Pow(2)[k]
<1>1. x \in Priv /\ pub_of[e] = export(y)
  BY Zenon DEF PairOk
<1> HIDE DEF x
<1>2. k \in Nat \ {0} /\ BN_mod_exp(2, k) = y /\ y \in Nat /\ y < modulus
  <2>1. 2 \in Nat
    OBVIOUS
  <2> QED BY <1>1, <2>1, BlindedIs, Zenon
<1> HIDE DEF k, y
<1>3. y <= modulus
  BY <1>2, ModulusIs
<1>4. export(y) \in Pub /\ BN_bin2bn(export(y)) = y /\ export(y) # <<>>
  BY <1>2, <1>3, ExportIs, Zenon
<1> QED BY <1>1, <1>2, <1>4, Zenon DEF y, k, x

(* The same for the key.                                                   *)
LEMMA KeyIs ==
  ASSUME NEW e, KeyOk(e)
  PROVE  /\ key_of[e] \in Pub /\ key_of[e] # <<>>
         /\ BN_bin2bn(key_of[e]) = BN_mod_exp(BN_bin2bn(sent[e]), FullExponent(priv_of[e]))
<1> DEFINE x == priv_of[e]
           a == BN_bin2bn(sent[e])
           k == FullExponent(x)
           y == Pow(a)[k]
<1>1. x \in Priv /\ sent[e] \in Pub /\ key_of[e] = export(y)
  BY Zenon DEF KeyOk
<1>2. a \in Nat
  BY <1>1, PubIs, Zenon
<1> HIDE DEF x, a
<1>3. k \in Nat \ {0} /\ BN_mod_exp(a, k) = y /\ y \in Nat /\ y < modulus
  BY <1>1, <1>2, BlindedIs, Zenon
<1> HIDE DEF k, y
<1>4. y <= modulus
  BY <1>3, ModulusIs
<1>5. export(y) \in Pub /\ BN_bin2bn(export(y)) = y /\ export(y) # <<>>
  BY <1>3, <1>4, ExportIs, Zenon
<1> QED BY <1>1, <1>3, <1>5, Zenon DEF y, k, x, a

(* The values stay what they are while a call works, or when it fails.     *)
LEMMA ValuesFrame ==
  ASSUME ValuesOk, outcome = "running", UNCHANGED <<turn, priv_of, pub_of, key_of, sent>>,
         outcome' = "failed" \/ (outcome' = "running" /\ line # START),
         line' \in (5 .. 15) \cup {RESULT} => rnd' \in Priv
  PROVE  ValuesOk'
<1>1. ASSUME NEW e \in Party PROVE EndOk(e)'
  <2>1. EndOk(e)
    BY Zenon DEF ValuesOk
  <2>2. PairOk(e)' <=> PairOk(e)
    BY Zenon DEF PairOk
  <2>3. KeyOk(e)' <=> KeyOk(e)
    BY Zenon DEF KeyOk
  <2> QED BY <2>1, <2>2, <2>3, Zenon DEF EndOk
<1>2. outcome' # "done" /\ outcome' # "insane"
  OBVIOUS
<1>3. DOMAIN priv_of' = Party /\ DOMAIN pub_of' = Party /\ DOMAIN key_of' = Party /\ DOMAIN sent' = Party
  BY Zenon DEF ValuesOk
<1> QED BY <1>1, <1>2, <1>3, Zenon DEF ValuesOk

(* Each end makes its calls once.                                          *)
LEMMA TurnsDiffer ==
  ASSUME NEW e \in Party, NEW f \in Party
  PROVE  /\ Gen(e) \in 1 .. 2 /\ Com(e) \in 3 .. 4 /\ Gen(e) < Com(f)
         /\ e # f => Gen(e) # Gen(f) /\ Com(e) # Com(f)
         /\ Other(e) \in Party /\ Other(e) # e /\ (e # f => f = Other(e))
BY DEF Gen, Com, Party, Other

(* A new private key: the end has no public key yet.                       *)
LEMMA GenerateStep ==
  ASSUME LinesOk, ValuesOk, crypto_dh_generate
  PROVE  ValuesOk'
<1>1. /\ outcome = "running" /\ line = START /\ call = "generate"
      /\ UNCHANGED <<turn, pub_of, key_of, sent>>
  BY Zenon DEF crypto_dh_generate, Fails, Keeps
<1>2. CASE Fails
  <2>1. outcome' = "failed" /\ line' = END /\ UNCHANGED <<turn, priv_of, pub_of, key_of, sent>>
    BY <1>2, Zenon DEF Fails, Keeps
  <2>2. line' \notin (5 .. 15) \cup {RESULT}
    BY <2>1 DEF END, RESULT
  <2> QED BY <1>1, <2>1, <2>2, ValuesFrame, Zenon
<1>3. ASSUME NEW x \in Priv, priv_of' = [priv_of EXCEPT ![self] = x], line' = BASE, outcome' = outcome
      PROVE  ValuesOk'
  <2>1. turn \in 1 .. 4 /\ self \in Party /\ turn = Gen(self)
    BY <1>1, CallIs, Zenon DEF LinesOk
  <2>2. DOMAIN priv_of = Party
    BY Zenon DEF ValuesOk
  <2>3. line' \notin (5 .. 15) \cup {RESULT} /\ line' # START
    BY <1>3 DEF BASE, RESULT, START
  <2>4. ASSUME NEW e \in Party PROVE EndOk(e)'
    <3>1. EndOk(e)
      BY Zenon DEF ValuesOk
    <3>2. CASE e = self
      <4>1. turn <= Gen(e) /\ turn <= Com(e) /\ ~(turn > Gen(e)) /\ ~(turn > Com(e)) /\ turn # Com(e)
        BY <2>1, <3>2, TurnsDiffer
      <4>2. pub_of'[e] = <<>> /\ key_of'[e] = <<>>
        BY <1>1, <3>1, <4>1, Zenon DEF EndOk
      <4>3. priv_of'[e] \in Priv
        BY <1>3, <2>2, <3>2, Zenon
      <4> QED BY <1>1, <4>1, <4>2, <4>3, Zenon DEF EndOk
    <3>3. CASE e # self
      <4>1. priv_of'[e] = priv_of[e]
        BY <1>3, <2>2, <3>3, Zenon
      <4>2. PairOk(e)' <=> PairOk(e)
        BY <1>1, <4>1, Zenon DEF PairOk
      <4>3. KeyOk(e)' <=> KeyOk(e)
        BY <1>1, <4>1, Zenon DEF KeyOk
      <4>4. turn # Gen(e) /\ turn # Com(e)
        BY <2>1, <3>3, TurnsDiffer
      <4> QED BY <1>1, <1>3, <3>1, <4>2, <4>3, <4>4, Zenon DEF EndOk
    <3> QED BY <3>2, <3>3, Zenon
  <2>5. DOMAIN priv_of' = Party /\ DOMAIN pub_of' = Party /\ DOMAIN key_of' = Party /\ DOMAIN sent' = Party
    BY <1>1, <1>3 DEF ValuesOk
  <2>6. outcome' # "done" /\ outcome' # "insane"
    BY <1>1, <1>3
  <2> QED BY <2>3, <2>4, <2>5, <2>6, Zenon DEF ValuesOk
<1> QED BY <1>2, <1>3, Zenon DEF crypto_dh_generate

(* An end that is sent something has no key yet.                           *)
LEMMA ReceiveStep ==
  ASSUME LinesOk, ValuesOk, receive
  PROVE  ValuesOk'
<1>1. /\ outcome = "running" /\ line = START /\ call = "compute"
      /\ UNCHANGED <<turn, priv_of, pub_of, key_of>>
  BY Zenon DEF receive
<1>2. PICK y \in Pub : /\ sent' = [sent EXCEPT ![self] = y]
                       /\ IF crypto_dh_sanitycheck(y) = 0 THEN line' = BASE /\ UNCHANGED outcome
                          ELSE line' = END /\ outcome' = "insane"
  BY Zenon DEF receive
<1>3. turn \in 1 .. 4 /\ self \in Party /\ turn = Com(self) /\ turn > 2
  BY <1>1, CallIs, Zenon DEF LinesOk
<1>4. DOMAIN sent = Party
  BY Zenon DEF ValuesOk
<1>5. line' \notin (5 .. 15) \cup {RESULT}
  <2>1. line' = BASE \/ line' = END
    BY <1>2, Zenon
  <2> QED BY <2>1 DEF BASE, RESULT, END
<1>6. sent'[self] = y
  BY <1>2, <1>3, <1>4, Zenon
<1>7. ASSUME NEW e \in Party PROVE EndOk(e)'
  <2>1. EndOk(e)
    BY Zenon DEF ValuesOk
  <2>2. PairOk(e)' <=> PairOk(e)
    BY <1>1, Zenon DEF PairOk
  <2>3. CASE e = self
    <3>1. turn <= Com(e) /\ ~(turn > Com(e)) /\ ~(turn <= Gen(e)) /\ turn # Gen(e)
      BY <1>3, <2>3, TurnsDiffer
    <3>2. key_of'[e] = <<>>
      BY <1>1, <2>1, <3>1, Zenon DEF EndOk
    <3>3. sent'[e] \in Pub
      BY <1>6, <2>3, Zenon
    <3> QED BY <1>1, <2>1, <2>2, <3>1, <3>2, <3>3, Zenon DEF EndOk
  <2>4. CASE e # self
    <3>1. sent'[e] = sent[e]
      BY <1>2, <1>4, <2>4, Zenon
    <3>2. KeyOk(e)' <=> KeyOk(e)
      BY <1>1, <3>1, Zenon DEF KeyOk
    <3>3. turn # Gen(e) /\ turn # Com(e)
      BY <1>3, <2>4, TurnsDiffer
    <3> QED BY <1>1, <2>1, <2>2, <3>2, <3>3, Zenon DEF EndOk
  <2> QED BY <2>3, <2>4, Zenon
<1>8. DOMAIN priv_of' = Party /\ DOMAIN pub_of' = Party /\ DOMAIN key_of' = Party /\ DOMAIN sent' = Party
  BY <1>1, <1>2 DEF ValuesOk
<1>9. outcome' # "done"
  BY <1>1, <1>2
<1>10. ASSUME outcome' = "insane"
       PROVE  (turn > 2 /\ pub_of[Other(self)] # <<>> /\ sent[self] \in Pub /\ BN_bin2bn(sent[self]) >= modulus)'
  <2>1. crypto_dh_sanitycheck(y) # 0
    BY <1>1, <1>2, <1>10
  <2>2. BN_bin2bn(y) >= modulus
    BY <2>1, SanityIs, Zenon
  <2>3. self' = self
    BY <1>1, Zenon DEF self
  <2>4. pub_of[Other(self)] # <<>>
    <3> DEFINE f == Other(self)
    <3>1. f \in Party /\ turn > Gen(f)
      BY <1>3, TurnsDiffer
    <3>2. PairOk(f)
      BY <3>1, Zenon DEF ValuesOk, EndOk
    <3> HIDE DEF f
    <3>3. pub_of[f] # <<>>
      BY <3>2, PairIs, Zenon
    <3> QED BY <3>3, Zenon DEF f
  <2> QED BY <1>1, <1>3, <1>6, <2>2, <2>3, <2>4, Zenon DEF Other
<1> QED BY <1>5, <1>7, <1>8, <1>9, <1>10, Zenon DEF ValuesOk

(* The result of a call is the power that was asked for.                   *)
LEMMA FinishStep ==
  ASSUME LinesOk, ValuesOk, finish
  PROVE  ValuesOk'
<1> DEFINE a == IF call = "generate" THEN 2 ELSE BN_bin2bn(sent[self])
           r == export(blinded(a, priv_of[self], rnd))
           k == FullExponent(priv_of[self])
           Stops == turn = Len(Calls) \/ (call = "compute" /\ sent[self] # pub_of[Other(self)])
<1>1. /\ outcome = "running" /\ line = RESULT /\ UNCHANGED <<priv_of, sent>>
      /\ IF call = "generate" THEN pub_of' = [pub_of EXCEPT ![self] = r] /\ UNCHANGED key_of
         ELSE key_of' = [key_of EXCEPT ![self] = r] /\ UNCHANGED pub_of
      /\ IF Stops THEN outcome' = "done" /\ line' = END /\ UNCHANGED turn
         ELSE turn' = turn + 1 /\ line' = START /\ UNCHANGED outcome
  BY Zenon DEF finish
<1> HIDE DEF r, Stops
<1>2. turn \in 1 .. 4 /\ self \in Party
  BY CallIs, Zenon DEF LinesOk
<1>3. rnd \in Priv /\ line # START
  BY <1>1, PlacesDiffer, Zenon DEF ValuesOk
<1>4. DOMAIN priv_of' = Party /\ DOMAIN pub_of' = Party /\ DOMAIN key_of' = Party /\ DOMAIN sent' = Party
  <2>1. CASE call = "generate"
    BY <1>1, <2>1 DEF ValuesOk
  <2>2. CASE call # "generate"
    BY <1>1, <2>2 DEF ValuesOk
  <2> QED BY <2>1, <2>2, Zenon
<1>5. line' \notin (5 .. 15) \cup {RESULT}
  <2>1. line' = START \/ line' = END
    BY <1>1, Zenon
  <2> QED BY <2>1 DEF START, RESULT, END
<1>6. \A e \in Party : EndOk(e)
  BY Zenon DEF ValuesOk
<1>7. DOMAIN pub_of = Party /\ DOMAIN key_of = Party
  BY Zenon DEF ValuesOk
<1>8. Len(Calls) = 4
  BY DEF Calls
<1>9. outcome' # "insane"
  BY <1>1
<1>10. CASE call = "generate"
  <2>1. turn = Gen(self) /\ turn <= 2
    BY <1>2, <1>10, CallIs, Zenon
  <2>2. priv_of[self] \in Priv /\ key_of[self] = <<>>
    <3>1. turn <= Com(self)
      BY <1>2, <2>1, TurnsDiffer
    <3> QED BY <1>1, <1>2, <1>3, <1>6, <2>1, <3>1, Zenon DEF EndOk
  <2>3. r = export(Pow(2)[k])
    <3>1. 2 \in Nat
      OBVIOUS
    <3>2. blinded(2, priv_of[self], rnd) = Pow(2)[k]
      BY <1>3, <2>2, <3>1, BlindedIs, Zenon
    <3> QED BY <1>10, <3>2, Zenon DEF r
  <2>4. ~Stops
    <3>1. turn # 4 /\ "generate" # "compute"
      BY <2>1
    <3> QED BY <1>8, <1>10, <3>1, Zenon DEF Stops
  <2>5. turn' = turn + 1 /\ line' = START /\ outcome' = "running"
    BY <1>1, <2>4, Zenon
  <2>6. pub_of' = [pub_of EXCEPT ![self] = r] /\ key_of' = key_of
    BY <1>1, <1>10, Zenon
  <2>7. ASSUME NEW e \in Party PROVE EndOk(e)'
    <3>1. EndOk(e)
      BY <1>6, Zenon
    <3>2. KeyOk(e)' <=> KeyOk(e)
      BY <1>1, <2>6, Zenon DEF KeyOk
    <3>3. CASE e = self
      <4>1. pub_of'[e] = r
        BY <1>2, <1>7, <2>6, <3>3, Zenon
      <4>2. PairOk(e)'
        BY <1>1, <2>2, <2>3, <3>3, <4>1, Zenon DEF PairOk
      <4>3. ~(turn' > Com(e)) /\ ~(turn' <= Gen(e)) /\ turn' # Gen(e)
        BY <1>2, <2>1, <2>5, <3>3, TurnsDiffer
      <4>4. key_of'[e] = <<>>
        BY <2>2, <2>6, <3>3, Zenon
      <4> QED BY <2>5, <4>2, <4>3, <4>4, Zenon DEF EndOk
    <3>4. CASE e # self
      <4>1. pub_of'[e] = pub_of[e]
        BY <1>7, <2>6, <3>4, Zenon
      <4>2. PairOk(e)' <=> PairOk(e)
        BY <1>1, <4>1, Zenon DEF PairOk
      <4>3. ~(turn' > Com(e)) /\ (turn' > Gen(e) => turn > Gen(e)) /\ (turn' <= Gen(e) => turn <= Gen(e))
            /\ turn <= Com(e)
        BY <1>2, <2>1, <2>5, <3>4, TurnsDiffer
      <4> QED BY <1>1, <2>5, <2>6, <3>1, <3>2, <4>1, <4>2, <4>3, Zenon DEF EndOk
    <3> QED BY <3>3, <3>4, Zenon
  <2>8. outcome' # "done"
    BY <2>5
  <2> QED BY <1>4, <1>5, <1>9, <2>7, <2>8, Zenon DEF ValuesOk
<1>11. CASE call # "generate"
  <2>1. call = "compute" /\ turn = Com(self) /\ turn > 2
    BY <1>2, <1>11, CallIs, Zenon
  <2>2. priv_of[self] \in Priv /\ sent[self] \in Pub
    <3>1. turn > Gen(self)
      BY <1>2, <2>1, TurnsDiffer
    <3>2. PairOk(self)
      BY <1>2, <1>6, <3>1, Zenon DEF EndOk
    <3> QED BY <1>1, <1>2, <1>3, <1>6, <2>1, <3>2, Zenon DEF EndOk, PairOk
  <2>3. r = export(Pow(BN_bin2bn(sent[self]))[k])
    <3> DEFINE b == BN_bin2bn(sent[self])
    <3>1. b \in Nat
      BY <2>2, PubIs, Zenon
    <3> HIDE DEF b
    <3>2. blinded(b, priv_of[self], rnd) = Pow(b)[k]
      BY <1>3, <2>2, <3>1, BlindedIs, Zenon
    <3> QED BY <1>11, <3>2, Zenon DEF r, b
  <2>4. key_of' = [key_of EXCEPT ![self] = r] /\ pub_of' = pub_of
    BY <1>1, <1>11, Zenon
  <2>5. ASSUME NEW e \in Party, e = self PROVE KeyOk(e)'
    <3>1. key_of'[e] = r
      BY <1>2, <1>7, <2>4, <2>5, Zenon
    <3> QED BY <1>1, <2>2, <2>3, <2>5, <3>1, Zenon DEF KeyOk
  <2>6. ASSUME NEW e \in Party, e # self PROVE KeyOk(e)' <=> KeyOk(e)
    <3>1. key_of'[e] = key_of[e]
      BY <1>7, <2>4, <2>6, Zenon
    <3> QED BY <1>1, <3>1, Zenon DEF KeyOk
  <2>7. ASSUME NEW e \in Party PROVE PairOk(e)' <=> PairOk(e)
    BY <1>1, <2>4, Zenon DEF PairOk
  <2>8. ASSUME NEW e \in Party PROVE turn > Gen(e) /\ (turn' > Gen(e))
    <3>1. turn' = turn \/ turn' = turn + 1
      BY <1>1, Zenon
    <3> QED BY <1>2, <2>1, <3>1, TurnsDiffer
  <2>9. ASSUME NEW e \in Party PROVE EndOk(e)'
    <3>1. EndOk(e)
      BY <1>6, Zenon
    <3>2. ~(turn' <= Gen(e)) /\ turn' # Gen(e)
      <4>1. turn' \in Nat
        BY <1>1, <1>2
      <4> QED BY <2>8, <4>1, TurnsDiffer
    <3>3. PairOk(e)'
      BY <2>7, <2>8, <3>1, Zenon DEF EndOk
    <3>4. outcome' = "running" => line' = START /\ turn' = turn + 1
      BY <1>1
    <3>5. CASE e = self
      <4>1. KeyOk(e)'
        BY <2>5, <3>5, Zenon
      <4>2. outcome' = "running" => ~(turn' <= Com(e))
        BY <1>2, <2>1, <3>4, <3>5, TurnsDiffer
      <4> QED BY <3>2, <3>3, <3>4, <4>1, <4>2, Zenon DEF EndOk
    <3>6. CASE e # self
      <4>1. (turn' > Com(e) => turn > Com(e)) /\ (turn' <= Com(e) => turn <= Com(e))
        <5>1. turn' = turn \/ turn' = turn + 1
          BY <1>1, Zenon
        <5> QED BY <1>2, <2>1, <3>6, <5>1, TurnsDiffer
      <4>2. KeyOk(e)' <=> KeyOk(e)
        BY <2>6, <3>6, Zenon
      <4>3. key_of'[e] = key_of[e]
        BY <1>7, <2>4, <3>6, Zenon
      <4> QED BY <1>1, <3>1, <3>2, <3>3, <3>4, <4>1, <4>2, <4>3, Zenon DEF EndOk
    <3> QED BY <3>5, <3>6, Zenon
  <2>10. ASSUME outcome' = "done", \A e \in Party : sent'[e] = pub_of'[Other(e)]
         PROVE  \A e \in Party : KeyOk(e)'
    <3>1. Stops
      BY <1>1, <2>10
    <3>2. turn = 4
      BY <1>1, <1>2, <1>8, <2>4, <2>10, <3>1, Zenon DEF Stops
    <3>3. ASSUME NEW e \in Party, e # self PROVE KeyOk(e)
      <4>1. Com(e) \in 3 .. 4 /\ Com(e) # Com(self)
        BY <1>2, <3>3, TurnsDiffer, Zenon
      <4>2. turn > Com(e)
        BY <2>1, <3>2, <4>1
      <4> QED BY <1>6, <4>2, Zenon DEF EndOk
    <3> QED BY <2>5, <2>6, <3>3, Zenon
  <2> QED BY <1>4, <1>5, <1>9, <2>9, <2>10, Zenon DEF ValuesOk, Other
<1> QED BY <1>10, <1>11, Zenon

(* At first no end has anything.                                           *)
LEMMA ValuesInit == DhInit => ValuesOk
<1> SUFFICES ASSUME DhInit PROVE ValuesOk
  OBVIOUS
<1>1. turn = 1 /\ line = START /\ outcome = "running"
      /\ \A e \in Party : pub_of[e] = <<>> /\ key_of[e] = <<>>
  BY Zenon DEF DhInit
<1>2. DOMAIN priv_of = Party /\ DOMAIN pub_of = Party /\ DOMAIN key_of = Party /\ DOMAIN sent = Party
  BY Zenon DEF DhInit
<1>3. line \notin (5 .. 15) \cup {RESULT}
  BY <1>1 DEF START, RESULT
<1>4. ASSUME NEW e \in Party PROVE EndOk(e)
  <2>1. ~(turn > Gen(e)) /\ ~(turn > Com(e))
    BY <1>1, TurnsDiffer
  <2> QED BY <1>1, <2>1, Zenon DEF EndOk
<1>5. outcome # "done" /\ outcome # "insane"
  BY <1>1
<1> QED BY <1>2, <1>3, <1>4, <1>5, Zenon DEF ValuesOk

(* All steps keep the values right.                                        *)
LEMMA ValuesStep ==
  ASSUME LinesOk, ValuesOk, [DhNext]_dhvars
  PROVE  ValuesOk'
<1>1. CASE base \/ BN_set_word \/ blinded_modexp \/ blinded_modexp_fails
  <2>1. outcome = "running" /\ UNCHANGED <<turn, priv_of, pub_of, key_of, sent>>
    BY <1>1, Zenon DEF base, BN_set_word, blinded_modexp, blinded_modexp_fails, Fails, Keeps
  <2>2. line # START
    BY <1>1, LineIs, PlacesDiffer, Zenon DEF base, BN_set_word, blinded_modexp, blinded_modexp_fails
  <2>3. outcome' = "failed" \/ outcome' = "running"
    BY <1>1, Zenon DEF base, BN_set_word, blinded_modexp, blinded_modexp_fails, Fails
  <2>4. ASSUME line' \in (5 .. 15) \cup {RESULT} PROVE rnd' \in Priv
    <3>1. line' # SET /\ line' # END /\ line' # 1
      BY <2>4 DEF SET, END, RESULT
    <3>2. blinded_modexp
      BY <1>1, <3>1, Zenon DEF base, BN_set_word, blinded_modexp_fails, Fails
    <3>3. line \in 1 .. 15 /\ line' = (IF line = 15 THEN RESULT ELSE line + 1)
          /\ (Line[line][1] = "random" <=> line = 4)
          /\ IF Line[line][1] = "random" THEN rnd' \in Priv ELSE UNCHANGED rnd
      BY <3>2, LineIs, Zenon DEF blinded_modexp
    <3>4. line = 4 \/ line \in 5 .. 15
      BY <2>4, <3>3 DEF RESULT
    <3>5. CASE line = 4
      BY <3>3, <3>5, Zenon
    <3>6. CASE line \in 5 .. 15 /\ line # 4
      BY <3>3, <3>6, Zenon DEF ValuesOk
    <3> QED BY <3>4, <3>5, <3>6, Zenon
  <2> QED BY <2>1, <2>2, <2>3, <2>4, ValuesFrame, Zenon
<1>2. CASE UNCHANGED dhvars
  <2>1. /\ turn' = turn /\ line' = line /\ rnd' = rnd /\ priv_of' = priv_of /\ pub_of' = pub_of
        /\ key_of' = key_of /\ sent' = sent /\ outcome' = outcome
    BY <1>2, Zenon DEF dhvars
  <2>2. self' = self
    BY <2>1, Zenon DEF self
  <2> QED BY <2>1, <2>2, Zenon DEF ValuesOk, EndOk, PairOk, KeyOk
<1> QED BY <1>1, <1>2, GenerateStep, ReceiveStep, FinishStep, Zenon DEF DhNext

(* Both ends compute the power of the product.                             *)
LEMMA KeysAgree ==
  ASSUME \A e \in Party : KeyOk(e) /\ PairOk(e) /\ sent[e] = pub_of[Other(e)]
  PROVE  key_of["c"] = key_of["s"]
<1> DEFINE i == FullExponent(priv_of["c"])
           j == FullExponent(priv_of["s"])
<1>1. "c" \in Party /\ "s" \in Party /\ Other("c") = "s" /\ Other("s") = "c"
  BY DEF Party, Other
<1>2. /\ i \in Nat \ {0} /\ BN_bin2bn(pub_of["c"]) = Pow(2)[i]
      /\ j \in Nat \ {0} /\ BN_bin2bn(pub_of["s"]) = Pow(2)[j]
  BY <1>1, PairIs, Zenon
<1>3. key_of["c"] = export(Pow(Pow(2)[j])[i]) /\ key_of["s"] = export(Pow(Pow(2)[i])[j])
  BY <1>1, <1>2, Zenon DEF KeyOk
<1> HIDE DEF i, j
<1>4. i * j = j * i /\ i \in Nat /\ j \in Nat /\ 2 \in Nat
  BY <1>2
<1>5. Pow(Pow(2)[j])[i] = Pow(2)[j * i] /\ Pow(Pow(2)[i])[j] = Pow(2)[i * j]
  BY <1>2, <1>4, PowTimes, Zenon
<1> QED BY <1>3, <1>4, <1>5, Zenon

(* What is said of the exchange follows.                                   *)
LEMMA ExchangeIs ==
  ASSUME LinesOk, ValuesOk
  PROVE  KeyExchangeIsRight
<1>1. \A e \in Party : EndOk(e)
  BY Zenon DEF ValuesOk
<1>2. ASSUME NEW e \in Party, pub_of[e] # <<>> PROVE PairOk(e)
  BY <1>1, <1>2, Zenon DEF EndOk
<1>3. ASSUME NEW e \in Party, key_of[e] # <<>> PROVE KeyOk(e)
  BY <1>1, <1>3, Zenon DEF EndOk
<1>4. BlindingIsSound
  BY <1>2, <1>3, PairIs, KeyIs, Zenon DEF BlindingIsSound, Power
<1>5. SameKey
  <2>1. ASSUME outcome = "done", \A e \in Party : sent[e] = pub_of[Other(e)]
        PROVE  key_of["c"] = key_of["s"] /\ key_of["c"] # <<>>
    <3>1. \A e \in Party : KeyOk(e)
      BY <2>1, Zenon DEF ValuesOk
    <3>2. ASSUME NEW e \in Party PROVE PairOk(e)
      <4> DEFINE f == Other(e)
      <4>1. f \in Party /\ Other(f) = e
        BY DEF Party, Other
      <4>2. sent[f] \in Pub /\ sent[f] = pub_of[e]
        BY <2>1, <3>1, <4>1, Zenon DEF KeyOk
      <4>3. pub_of[e] # <<>>
        <5>1. CRYPTO_DH_PUBLEN \in Nat \ {0} /\ pub_of[e] \in [1 .. CRYPTO_DH_PUBLEN -> Digit]
          BY <4>2, ModulusIs, Zenon DEF Pub
        <5> QED BY <5>1
      <4> QED BY <1>2, <4>3, Zenon
    <3>3. key_of["c"] = key_of["s"]
      BY <2>1, <3>1, <3>2, KeysAgree, Zenon
    <3>4. key_of["c"] # <<>>
      <4>1. "c" \in Party
        BY DEF Party
      <4> QED BY <3>1, <4>1, KeyIs, Zenon
    <3> QED BY <3>3, <3>4, Zenon
  <2>2. ASSUME NEW e \in Party
        PROVE  /\ pub_of[e] # <<>> => pub_of[e] \in Pub
               /\ key_of[e] # <<>> => key_of[e] \in Pub
    BY <1>2, <1>3, PairIs, KeyIs, Zenon
  <2>3. ASSUME NEW e \in Party, outcome = "insane", pub_of[Other(e)] # <<>>, self = e
        PROVE  sent[e] # pub_of[Other(e)] /\ BN_bin2bn(sent[e]) >= modulus
    <3>1. sent[e] \in Pub /\ BN_bin2bn(sent[e]) >= modulus
      BY <2>3, Zenon DEF ValuesOk
    <3>2. Other(e) \in Party
      BY TurnsDiffer, Zenon
    <3>3. BN_bin2bn(pub_of[Other(e)]) < modulus
      BY <1>2, <2>3, <3>2, PairIs, Zenon
    <3>4. BN_bin2bn(sent[e]) \in Nat /\ modulus \in Nat
      BY <3>1, PubIs, ModulusIs
    <3> QED BY <3>1, <3>3, <3>4
  <2> QED BY <2>1, <2>2, <2>3, Zenon DEF SameKey
<1>6. NumbersFreed
  BY PlacesDiffer, Zenon DEF LinesOk, Held, NumbersFreed
<1> QED BY <1>4, <1>5, <1>6, Zenon DEF KeyExchangeIsRight

(* crypto_dh.c: for every modulus and base, and all private and blinding   *)
(* exponents, blinding does not change what is computed; two ends that get *)
(* what the other has sent have the same key; what the check refuses is    *)
(* not a public key; and every number is freed once, wherever a call       *)
(* fails.                                                                  *)
THEOREM KeyExchangeCorrect == DhSpec => []KeyExchangeIsRight
<1>1. DhInit => LinesOk /\ ValuesOk
  BY LinesInit, ValuesInit
<1>2. LinesOk /\ ValuesOk /\ [DhNext]_dhvars => (LinesOk /\ ValuesOk)'
  BY LinesStep, ValuesStep
<1>3. LinesOk /\ ValuesOk => KeyExchangeIsRight
  BY ExchangeIs
<1> QED BY <1>1, <1>2, <1>3, PTL DEF DhSpec

(* Sha256: sequences of any bytes.                                         *)

(* A sequence, whatever its elements are.                                  *)
IsSeq(s) == Len(s) \in Nat /\ s = [i \in 1 .. Len(s) |-> s[i]]
Elements(s) == {s[i] : i \in 1 .. Len(s)}

(* Such a sequence is one of its elements, and of any larger set.          *)
LEMMA SeqOf ==
  ASSUME NEW s, IsSeq(s), NEW T, Elements(s) \subseteq T
  PROVE  s \in Seq(T)
<1> DEFINE n == Len(s)
<1>1. n \in Nat /\ s = [i \in 1 .. n |-> s[i]]
  BY Zenon DEF IsSeq
<1>2. \A i \in 1 .. n : s[i] \in T
  BY DEF Elements
<1> HIDE DEF n
<1>3. s \in [1 .. n -> T]
  BY <1>1, <1>2
<1> QED BY <1>1, <1>3

(* A sequence of some set is such a sequence.                              *)
LEMMA SeqFrom ==
  ASSUME NEW T, NEW s \in Seq(T)
  PROVE  IsSeq(s)
<1>1. Len(s) \in Nat
  OBVIOUS
<1>2. s = [i \in 1 .. Len(s) |-> s[i]]
  OBVIOUS
<1> QED BY <1>1, <1>2 DEF IsSeq

(* A function over the first n numbers has length n.                       *)
LEMMA SeqMade ==
  ASSUME NEW n \in Nat, NEW f, f = [i \in 1 .. n |-> f[i]]
  PROVE  IsSeq(f) /\ Len(f) = n
<1> DEFINE T == {f[i] : i \in 1 .. n}
<1>1. \A i \in 1 .. n : f[i] \in T
  OBVIOUS
<1> HIDE DEF T
<1>2. f \in [1 .. n -> T]
  BY <1>1
<1>3. f \in Seq(T) /\ Len(f) = n
  BY <1>2
<1> QED BY <1>3, SeqFrom, Zenon

(* Sequences with the same elements are the same.                          *)
LEMMA SameSeq ==
  ASSUME NEW s, NEW t, IsSeq(s), IsSeq(t), Len(s) = Len(t),
         \A i \in 1 .. Len(s) : s[i] = t[i]
  PROVE  s = t
<1> DEFINE n == Len(s)
<1>1. s = [i \in 1 .. n |-> s[i]] /\ t = [i \in 1 .. n |-> t[i]]
  BY Zenon DEF IsSeq
<1>2. \A i \in 1 .. n : s[i] = t[i]
  OBVIOUS
<1> HIDE DEF n
<1>3. [i \in 1 .. n |-> s[i]] = [i \in 1 .. n |-> t[i]]
  BY <1>2
<1> QED BY <1>1, <1>3, Zenon

(* Concatenation,                                                          *)
LEMMA Joined ==
  ASSUME NEW s, NEW t, IsSeq(s), IsSeq(t)
  PROVE  /\ IsSeq(s \o t) /\ Len(s \o t) = Len(s) + Len(t)
         /\ \A i \in 1 .. Len(s) + Len(t) :
               (s \o t)[i] = IF i <= Len(s) THEN s[i] ELSE t[i - Len(s)]
<1> DEFINE T == Elements(s) \cup Elements(t)
<1>1. Elements(s) \subseteq T /\ Elements(t) \subseteq T
  OBVIOUS
<1> HIDE DEF T
<1>2. s \in Seq(T) /\ t \in Seq(T)
  BY <1>1, SeqOf, Zenon
<1>3. /\ s \o t \in Seq(T) /\ Len(s \o t) = Len(s) + Len(t)
      /\ \A i \in 1 .. Len(s) + Len(t) :
            (s \o t)[i] = IF i <= Len(s) THEN s[i] ELSE t[i - Len(s)]
  BY <1>2, ConcatProperties, Zenon
<1> QED BY <1>3, SeqFrom, Zenon

(* a part of a sequence,                                                   *)
LEMMA PartOf ==
  ASSUME NEW s, IsSeq(s), NEW a \in Nat \ {0}, NEW b \in Nat, b <= Len(s), a <= b + 1
  PROVE  /\ IsSeq(SubSeq(s, a, b)) /\ Len(SubSeq(s, a, b)) = b - a + 1
         /\ \A i \in 1 .. b - a + 1 : SubSeq(s, a, b)[i] = s[a + i - 1]
<1> DEFINE T == Elements(s)
<1>1. \A i \in a .. b : s[i] \in T
  BY DEF IsSeq, Elements
<1> HIDE DEF T
<1>2. a \in Int /\ b \in Int
  OBVIOUS
<1>3. /\ SubSeq(s, a, b) \in Seq(T)
      /\ Len(SubSeq(s, a, b)) = IF a <= b THEN b - a + 1 ELSE 0
      /\ \A i \in 1 .. b - a + 1 : SubSeq(s, a, b)[i] = s[a + i - 1]
  BY <1>1, <1>2, SubSeqProperties
<1>4. Len(SubSeq(s, a, b)) = b - a + 1
  <2>1. CASE a <= b
    BY <1>3, <2>1, Zenon
  <2>2. CASE ~(a <= b)
    <3>1. b - a + 1 = 0
      BY <2>2
    <3> QED BY <1>3, <2>2, <3>1, Zenon
  <2> QED BY <2>1, <2>2, Zenon
<1>5. IsSeq(SubSeq(s, a, b))
  BY <1>3, SeqFrom, Zenon
<1> QED BY <1>3, <1>4, <1>5, Zenon

(* and one more element.                                                   *)
LEMMA Appended ==
  ASSUME NEW s, IsSeq(s), NEW x
  PROVE  /\ IsSeq(Append(s, x)) /\ Len(Append(s, x)) = Len(s) + 1
         /\ \A i \in 1 .. Len(s) : Append(s, x)[i] = s[i]
         /\ Append(s, x)[Len(s) + 1] = x
<1> DEFINE T == Elements(s) \cup {x}
<1>1. Elements(s) \subseteq T /\ x \in T
  OBVIOUS
<1> HIDE DEF T
<1>2. s \in Seq(T)
  BY <1>1, SeqOf, Zenon
<1>3. /\ Append(s, x) \in Seq(T) /\ Len(Append(s, x)) = Len(s) + 1
      /\ \A i \in 1 .. Len(s) : Append(s, x)[i] = s[i]
      /\ Append(s, x)[Len(s) + 1] = x
  BY <1>1, <1>2, AppendProperties
<1> QED BY <1>3, SeqFrom, Zenon

(* The n elements behind the first a: where they are, and what they are.   *)
Within(s, a, n, b, p) ==
    /\ IsSeq(s) /\ a \in Nat /\ n \in Nat /\ a + n <= Len(s)
    /\ b = a + n /\ p = SubSeq(s, a + 1, b)
Piece(s, a, n, p) ==
    IsSeq(p) /\ Len(p) = n /\ \A i \in 1 .. n : p[i] = s[a + i]

(* A part of a sequence holds those elements.                              *)
LEMMA PieceIs ==
  ASSUME NEW s, NEW a, NEW n, NEW b, NEW p, Within(s, a, n, b, p)
  PROVE  Piece(s, a, n, p)
<1>0. IsSeq(s) /\ a \in Nat /\ n \in Nat /\ a + n <= Len(s) /\ b = a + n /\ p = SubSeq(s, a + 1, b)
  BY Zenon DEF Within
<1> DEFINE e == a + 1
           L == Len(s)
<1>1. L \in Nat
  BY <1>0, Zenon DEF IsSeq
<1> HIDE DEF L
<1>2. /\ e \in Nat \ {0} /\ b \in Nat /\ b <= L /\ e <= b + 1 /\ b - e + 1 = n
      /\ \A i \in 1 .. n : e + i - 1 = a + i
  BY <1>0, <1>1 DEF L
<1> HIDE DEF e
<1>3. b <= Len(s)
  BY <1>2, Zenon DEF L
<1>4. /\ IsSeq(SubSeq(s, e, b)) /\ Len(SubSeq(s, e, b)) = b - e + 1
      /\ \A i \in 1 .. b - e + 1 : SubSeq(s, e, b)[i] = s[e + i - 1]
  <2>1. IsSeq(s) /\ e \in Nat \ {0} /\ b \in Nat /\ b <= Len(s) /\ e <= b + 1
    BY <1>0, <1>2, <1>3, Zenon
  <2> QED BY ONLY <2>1, PartOf
<1>5. /\ IsSeq(p) /\ Len(p) = b - e + 1
      /\ \A i \in 1 .. b - e + 1 : p[i] = s[e + i - 1]
  BY <1>0, <1>4, Zenon DEF e
<1> QED BY <1>2, <1>5, Zenon DEF Piece

-----------------------------------------------------------------------------
(* Sha256: blocks.                                                         *)

(* Block b of the sequence m, and the first q of them.                     *)
BlockOf(m, b) == [i \in 1 .. BLOCK |-> m[BLOCK * (b - 1) + i]]
Blocks(m, q) == [b \in 1 .. q |-> BlockOf(m, b)]

(* A place in one of the first q blocks.                                   *)
LEMMA Place ==
  ASSUME NEW d \in Nat \ {0}, NEW q \in Nat, NEW b \in 1 .. q, NEW i \in 1 .. d
  PROVE  d * (b - 1) \in Nat /\ d * q \in Nat /\ d * (b - 1) + i \in 1 .. d * q
<1> DEFINE x == d * (b - 1)
           y == d * (q - b)
<1>1. b - 1 \in Nat /\ q - b \in Nat /\ q = (b - 1) + (q - b) + 1
  OBVIOUS
<1>2. x \in Nat /\ y \in Nat
  BY <1>1
<1>3. d * q = x + y + d
  BY <1>1
<1> HIDE DEF x, y
<1>4. x + i \in 1 .. x + y + d /\ x + y + d \in Nat
  BY <1>2
<1> QED BY <1>2, <1>3, <1>4 DEF x

(* Blocks are sequences,                                                   *)
LEMMA BlocksAre ==
  ASSUME NEW m, NEW q \in Nat
  PROVE  /\ IsSeq(Blocks(m, q)) /\ Len(Blocks(m, q)) = q
         /\ \A b \in 1 .. q : Blocks(m, q)[b] = BlockOf(m, b)
<1> DEFINE f == Blocks(m, q)
<1>1. \A b \in 1 .. q : f[b] = BlockOf(m, b)
  BY Zenon DEF Blocks
<1>2. f = [b \in 1 .. q |-> f[b]]
  BY Zenon DEF Blocks
<1> HIDE DEF f
<1>3. IsSeq(f) /\ Len(f) = q
  BY <1>2, SeqMade, Zenon
<1> QED BY <1>1, <1>3, Zenon DEF f

(* that grow by one block at a time,                                       *)
LEMMA BlocksGrow ==
  ASSUME NEW m, NEW q \in Nat
  PROVE  Append(Blocks(m, q), BlockOf(m, q + 1)) = Blocks(m, q + 1)
<1> DEFINE s == Blocks(m, q)
           x == BlockOf(m, q + 1)
           t == Blocks(m, q + 1)
<1>1. IsSeq(s) /\ Len(s) = q /\ \A b \in 1 .. q : s[b] = BlockOf(m, b)
  BY BlocksAre, Zenon
<1>2. q + 1 \in Nat
  OBVIOUS
<1>3. IsSeq(t) /\ Len(t) = q + 1 /\ \A b \in 1 .. q + 1 : t[b] = BlockOf(m, b)
  BY <1>2, BlocksAre, Zenon
<1>4. t[q + 1] = x
  <2>1. q + 1 \in 1 .. q + 1
    OBVIOUS
  <2> QED BY <1>3, <2>1, Zenon
<1> HIDE DEF s, x, t
<1>5. /\ IsSeq(Append(s, x)) /\ Len(Append(s, x)) = q + 1
      /\ \A i \in 1 .. q : Append(s, x)[i] = s[i]
      /\ Append(s, x)[q + 1] = x
  <2>1. /\ IsSeq(Append(s, x)) /\ Len(Append(s, x)) = Len(s) + 1
        /\ \A i \in 1 .. Len(s) : Append(s, x)[i] = s[i]
        /\ Append(s, x)[Len(s) + 1] = x
    BY <1>1, Appended
  <2> QED BY <1>1, <2>1, Zenon
<1>6. ASSUME NEW i \in 1 .. q + 1 PROVE Append(s, x)[i] = t[i]
  <2>1. CASE i = q + 1
    BY <1>4, <1>5, <2>1, Zenon
  <2>2. CASE i # q + 1
    <3>1. i \in 1 .. q
      BY <2>2
    <3> QED BY <1>1, <1>3, <1>5, <3>1, Zenon
  <2> QED BY <2>1, <2>2, Zenon
<1>7. Append(s, x) = t
  BY <1>3, <1>5, <1>6, SameSeq, Zenon
<1> QED BY <1>7, Zenon DEF s, x, t

(* and depend on that many bytes.                                          *)
LEMMA BlocksSame ==
  ASSUME NEW m, NEW l, NEW q \in Nat, \A i \in 1 .. BLOCK * q : m[i] = l[i]
  PROVE  Blocks(m, q) = Blocks(l, q)
<1>1. BLOCK \in Nat \ {0}
  BY ShaAssumption
<1>2. ASSUME NEW b \in 1 .. q PROVE BlockOf(m, b) = BlockOf(l, b)
  <2>1. ASSUME NEW i \in 1 .. BLOCK PROVE m[BLOCK * (b - 1) + i] = l[BLOCK * (b - 1) + i]
    <3>1. BLOCK * (b - 1) + i \in 1 .. BLOCK * q
      BY <1>1, Place, Zenon
    <3> QED BY <3>1, Zenon
  <2> QED BY <2>1, Zenon DEF BlockOf
<1> QED BY <1>2, Zenon DEF Blocks

(* The states of the loop of SHA256_Update.                                *)
Mixed(st, first, rest, w) ==
    CHOOSE v : v = [k \in 0 .. w |->
        IF k = 0 THEN SHA256_Transform(st, first)
        ELSE SHA256_Transform(v[k - 1], SubSeq(rest, BLOCK * (k - 1) + 1, BLOCK * k))]

(* rest holds w blocks of m, the ones behind block q + 1.                  *)
Continues(m, q, rest, w) ==
    \A k \in 1 .. w : SubSeq(rest, BLOCK * (k - 1) + 1, BLOCK * k) = BlockOf(m, q + 1 + k)

(* It mixes in the blocks that follow.                                     *)
LEMMA MixedIs ==
  ASSUME NEW m, NEW q \in Nat, NEW w \in Nat, NEW rest,
         Continues(m, q, rest, w)
  PROVE  Mixed(Blocks(m, q), BlockOf(m, q + 1), rest, w)[w] = Blocks(m, q + 1 + w)
<1> DEFINE st == Blocks(m, q)
           first == BlockOf(m, q + 1)
           part(k) == SubSeq(rest, BLOCK * (k - 1) + 1, BLOCK * k)
           Eq(v) == v = [k \in 0 .. w |-> IF k = 0 THEN SHA256_Transform(st, first)
                                          ELSE SHA256_Transform(v[k - 1], part(k))]
           g == [k \in 0 .. w |-> Blocks(m, q + 1 + k)]
           v == CHOOSE u : Eq(u)
<1>1. SHA256_Transform(st, first) = Blocks(m, q + 1 + 0)
  <2>1. q + 1 + 0 = q + 1
    OBVIOUS
  <2> QED BY <2>1, BlocksGrow, Zenon DEF SHA256_Transform
<1>2. ASSUME NEW k \in 1 .. w
      PROVE  SHA256_Transform(Blocks(m, q + 1 + (k - 1)), part(k)) = Blocks(m, q + 1 + k)
  <2>1. q + 1 + (k - 1) \in Nat /\ (q + 1 + (k - 1)) + 1 = q + 1 + k
    OBVIOUS
  <2>2. part(k) = BlockOf(m, q + 1 + k)
    BY Zenon DEF Continues
  <2> HIDE DEF part
  <2> QED BY <2>1, <2>2, BlocksGrow, Zenon DEF SHA256_Transform
<1>3. Mixed(st, first, rest, w) = v
  BY Zenon DEF Mixed
<1> HIDE DEF part, st, first
<1>4. Eq(g)
  <2>1. ASSUME NEW k \in 0 .. w
        PROVE  g[k] = IF k = 0 THEN SHA256_Transform(st, first) ELSE SHA256_Transform(g[k - 1], part(k))
    <3>1. CASE k = 0
      BY <1>1, <3>1, Zenon
    <3>2. CASE k # 0
      <4>1. k \in 1 .. w /\ k - 1 \in 0 .. w
        BY <3>2
      <4> QED BY <1>2, <3>2, <4>1, Zenon
    <3> QED BY <3>1, <3>2, Zenon
  <2> QED BY <2>1, Zenon
<1> HIDE DEF g
<1>5. Eq(v)
  <2>1. \E u : Eq(u)
    BY <1>4, Zenon
  <2> QED BY <2>1, Zenon
<1> HIDE DEF v
<1>6. ASSUME NEW k \in 0 .. w
      PROVE  v[k] = IF k = 0 THEN SHA256_Transform(st, first) ELSE SHA256_Transform(v[k - 1], part(k))
  <2> DEFINE h == [i \in 0 .. w |-> IF i = 0 THEN SHA256_Transform(st, first)
                                    ELSE SHA256_Transform(v[i - 1], part(i))]
  <2>1. v = h
    BY <1>5, Zenon
  <2>2. h[k] = IF k = 0 THEN SHA256_Transform(st, first) ELSE SHA256_Transform(v[k - 1], part(k))
    BY Zenon
  <2> HIDE DEF h
  <2> QED BY <2>1, <2>2, Zenon
<1> DEFINE E == {k \in Nat : k <= w => v[k] = Blocks(m, q + 1 + k)}
<1>7. 0 \in E
  <2>1. 0 \in 0 .. w /\ 0 \in Nat
    OBVIOUS
  <2> QED BY <1>1, <1>6, <2>1, Zenon
<1>8. ASSUME NEW k \in Nat, k \in E PROVE k + 1 \in E
  <2> SUFFICES ASSUME k + 1 <= w PROVE v[k + 1] = Blocks(m, q + 1 + (k + 1))
    OBVIOUS
  <2>1. k + 1 \in 1 .. w /\ k + 1 \in 0 .. w /\ k + 1 # 0 /\ (k + 1) - 1 = k /\ k <= w
    OBVIOUS
  <2>2. v[k] = Blocks(m, q + 1 + k)
    BY <1>8, <2>1, Zenon
  <2> QED BY <1>2, <1>6, <2>1, <2>2, Zenon
<1> HIDE DEF E
<1>9. \A k \in Nat : k \in E
  BY <1>7, <1>8, SetInduction, Zenon
<1>10. v[w] = Blocks(m, q + 1 + w)
  <2>1. w <= w
    OBVIOUS
  <2> QED BY <1>9, <2>1, Zenon DEF E
<1> QED BY <1>3, <1>10, Zenon DEF st, first

-----------------------------------------------------------------------------
(* Sha256: buffering.                                                      *)

(* The context c is what it has to be after the input m: whole blocks have *)
(* been mixed in, and what is left is at the start of the buffer.          *)
Absorbed(c, m) ==
    /\ c = [state |-> Blocks(m, Len(m) \div BLOCK), count |-> Len(m), buf |-> c.buf]
    /\ \A i \in 1 .. Len(m) % BLOCK : c.buf[i] = m[BLOCK * (Len(m) \div BLOCK) + i]

(* What memcpy does to a buffer.                                           *)
LEMMA CopiedIs ==
  ASSUME NEW old, NEW pos, NEW src, NEW i \in 1 .. BLOCK
  PROVE  Copied(old, pos, src)[i] = IF i > pos /\ i <= pos + Len(src) THEN src[i - pos] ELSE old[i]
BY Zenon DEF Copied

(* and it has its length again.                                            *)
LEMMA CopiedFills ==
  ASSUME NEW old, NEW pos, NEW src
  PROVE  Copied(old, pos, src) = [i \in 1 .. BLOCK |-> Copied(old, pos, src)[i]]
BY Zenon DEF Copied

(* The numbers of a context: n bytes are q blocks and a rest r.            *)
LEMMA Numbered ==
  ASSUME NEW n \in Nat
  PROVE  /\ BLOCK \in Nat \ {0} /\ n \div BLOCK \in Nat /\ n % BLOCK \in Nat /\ n % BLOCK < BLOCK
         /\ BLOCK * (n \div BLOCK) \in Nat /\ n = BLOCK * (n \div BLOCK) + (n % BLOCK)
<1>1. BLOCK \in Nat \ {0}
  BY ShaAssumption
<1> DEFINE q == n \div BLOCK
           r == n % BLOCK
           x == BLOCK * q
<1>2. q \in Nat /\ r \in Nat /\ r < BLOCK /\ r = n - x
  BY <1>1, DivMod, Zenon
<1>3. x \in Nat
  <2> HIDE DEF q
  <2> QED BY <1>1, <1>2
<1> HIDE DEF q, r, x
<1>4. n = x + r
  BY <1>2, <1>3
<1> QED BY <1>1, <1>2, <1>3, <1>4, Zenon DEF q, r, x

(* Input that does not fill the buffer is put behind what is there.        *)
LEMMA UpdateShort ==
  ASSUME NEW c, NEW m, NEW in, IsSeq(m), IsSeq(in), Absorbed(c, m),
         Len(in) < BLOCK - (Len(m) % BLOCK)
  PROVE  Absorbed(SHA256_Update(c, in), m \o in)
<1> DEFINE n == Len(m)
           len == Len(in)
           q == n \div BLOCK
           r == n % BLOCK
           x == BLOCK * q
           l == m \o in
           new == Copied(c.buf, r, in)
           d == SHA256_Update(c, in)
<1>1. /\ BLOCK \in Nat \ {0} /\ n \in Nat /\ len \in Nat /\ q \in Nat /\ r \in Nat /\ r < BLOCK
      /\ x \in Nat /\ n = x + r
  <2>1. n \in Nat /\ len \in Nat
    BY Zenon DEF IsSeq
  <2> QED BY <2>1, Numbered, Zenon
<1>2. IsSeq(l) /\ Len(l) = n + len
      /\ \A i \in 1 .. n + len : l[i] = IF i <= n THEN m[i] ELSE in[i - n]
  BY Joined, Zenon
<1>3. c = [state |-> Blocks(m, q), count |-> n, buf |-> c.buf] /\ \A i \in 1 .. r : c.buf[i] = m[x + i]
  BY Zenon DEF Absorbed
<1>4. len < BLOCK - r /\ r + len < BLOCK
  BY <1>1
<1>5. d = [state |-> Blocks(m, q), count |-> n + len, buf |-> new]
  <2>1. c.state = Blocks(m, q) /\ c.count = n
    BY <1>3
  <2>2. d = [c EXCEPT !.count = c.count + len, !.buf = Copied(c.buf, c.count % BLOCK, in)]
    BY <1>4, <2>1, Zenon DEF SHA256_Update
  <2>3. d = [c EXCEPT !.count = n + len, !.buf = new]
    BY <2>1, <2>2, Zenon
  <2> DEFINE Q == Blocks(m, q)
             b == c.buf
  <2>4. c = [state |-> Q, count |-> n, buf |-> b]
    BY <1>3, Zenon
  <2> HIDE DEF Q, b, new, d
  <2>5. d = [state |-> Q, count |-> n + len, buf |-> new]
    BY <2>3, <2>4, Zenon
  <2> QED BY <2>5, Zenon DEF Q
<1>6. (n + len) \div BLOCK = q /\ (n + len) % BLOCK = r + len
  BY <1>1, <1>4, DivStays, Zenon
<1> HIDE DEF q, r, x, d, l, n, len
<1>7. Blocks(m, q) = Blocks(l, q)
  <2>1. ASSUME NEW i \in 1 .. x PROVE m[i] = l[i]
    <3>1. i \in 1 .. n + len /\ i <= n
      BY <1>1
    <3> QED BY <1>2, <3>1, Zenon
  <2> QED BY <1>1, <2>1, BlocksSame, Zenon DEF x
<1>8. ASSUME NEW i \in 1 .. r + len PROVE new[i] = l[x + i]
  <2>1. i \in 1 .. BLOCK /\ x + i \in 1 .. n + len
    BY <1>1, <1>4
  <2>2. new[i] = IF i > r /\ i <= r + len THEN in[i - r] ELSE c.buf[i]
    BY <2>1, Zenon DEF len, Copied
  <2> HIDE DEF new
  <2>3. CASE i <= r
    <3>1. i \in 1 .. r /\ x + i <= n /\ ~(i > r)
      BY <1>1, <2>3
    <3> QED BY <1>2, <1>3, <2>1, <2>2, <3>1, Zenon
  <2>4. CASE ~(i <= r)
    <3>1. i > r /\ i <= r + len /\ ~(x + i <= n) /\ (x + i) - n = i - r
      BY <1>1, <2>4
    <3> QED BY <1>2, <2>1, <2>2, <3>1, Zenon
  <2> QED BY <2>3, <2>4, Zenon
<1>9. d.buf = new
  <2> HIDE DEF new
  <2> QED BY <1>5
<1> HIDE DEF new
<1>10. d = [state |-> Blocks(l, q), count |-> n + len, buf |-> d.buf]
  BY <1>5, <1>7, <1>9, Zenon
<1>11. Absorbed(d, l)
  <2>1. \A i \in 1 .. r + len : d.buf[i] = l[x + i]
    BY <1>8, <1>9, Zenon
  <2> QED BY <1>2, <1>6, <1>10, <2>1, Zenon DEF Absorbed, x
<1> QED BY <1>11, Zenon DEF d, l

(* Input that fills the buffer: its first bytes complete the block there,  *)
(* whole blocks follow, and the rest is at the start of the buffer.        *)
LEMMA UpdateLong ==
  ASSUME NEW c, NEW m, NEW in, IsSeq(m), IsSeq(in), Absorbed(c, m),
         ~(Len(in) < BLOCK - (Len(m) % BLOCK))
  PROVE  Absorbed(SHA256_Update(c, in), m \o in)
<1> DEFINE n == Len(m)
           len == Len(in)
           q == n \div BLOCK
           r == n % BLOCK
           x == BLOCK * q
           y == BLOCK * (q + 1)
           l == m \o in
           a == BLOCK - r
           head == SubSeq(in, 1, a)
           rest == SubSeq(in, a + 1, len)
           t == Len(rest)
           w == t \div BLOCK
           s == t % BLOCK
           z == BLOCK * w
           tail == SubSeq(rest, z + 1, t)
           first == Copied(c.buf, r, head)
           last == Copied(first, 0, tail)
           d == SHA256_Update(c, in)
<1>1. /\ BLOCK \in Nat \ {0} /\ n \in Nat /\ len \in Nat /\ q \in Nat /\ r \in Nat /\ r < BLOCK
      /\ x \in Nat /\ n = x + r
  <2>1. n \in Nat /\ len \in Nat
    BY Zenon DEF IsSeq
  <2> QED BY <2>1, Numbered, Zenon
<1>2. IsSeq(l) /\ Len(l) = n + len
      /\ \A i \in 1 .. n + len : l[i] = IF i <= n THEN m[i] ELSE in[i - n]
  BY Joined, Zenon
<1>3. c = [state |-> Blocks(m, q), count |-> n, buf |-> c.buf] /\ \A i \in 1 .. r : c.buf[i] = m[x + i]
  BY Zenon DEF Absorbed
<1>4. d = [state |-> Mixed(Blocks(m, q), first, rest, w)[w], count |-> n + len, buf |-> last]
  <2>1. c.state = Blocks(m, q) /\ c.count = n
    BY <1>3
  <2>2. d = [state |-> Mixed(c.state, first, rest, w)[w], count |-> c.count + len, buf |-> last]
    BY <2>1, Zenon DEF SHA256_Update, Mixed
  <2> HIDE DEF d, first, rest, w, last, n, q
  <2> QED BY <2>1, <2>2, Zenon
<1>5. ~(len < a)
  BY Zenon
<1>0. IsSeq(in) /\ len = Len(in)
  BY Zenon
<1> HIDE DEF q, r, x, d, l, n, len
<1>6. y \in Nat /\ y = x + BLOCK
  <2>1. BLOCK * (q + 1) = BLOCK * q + BLOCK
    BY ONLY <1>1
  <2> QED BY <1>1, <2>1 DEF x
<1> HIDE DEF y
<1>7. a \in Nat /\ a # 0 /\ a <= len /\ y = n + a /\ a + r = BLOCK
  BY <1>1, <1>5, <1>6
<1> HIDE DEF a
<1>8. IsSeq(head) /\ Len(head) = a /\ \A i \in 1 .. a : head[i] = in[i]
  <2>1. head = SubSeq(in, 0 + 1, a)
    BY 0 + 1 = 1, Zenon
  <2> HIDE DEF head
  <2>2. 0 \in Nat /\ a = 0 + a /\ 0 + a <= len /\ \A i \in 1 .. a : 0 + i = i
    BY <1>7
  <2>3. IsSeq(head) /\ Len(head) = a /\ \A i \in 1 .. a : head[i] = in[0 + i]
    <3>1. Within(in, 0, a, a, head)
      BY ONLY <1>0, <1>7, <2>1, <2>2, Zenon DEF Within
    <3>2. Piece(in, 0, a, head)
      BY ONLY <3>1, PieceIs, Zenon
    <3> QED BY ONLY <3>2, Zenon DEF Piece
  <2> QED BY <2>2, <2>3, Zenon
<1>9. IsSeq(rest) /\ t = len - a /\ \A j \in 1 .. t : rest[j] = in[a + j]
  <2> DEFINE e == len - a
  <2>1. e \in Nat /\ len = a + e /\ a + e <= len
    BY <1>1, <1>7
  <2>2. rest = SubSeq(in, a + 1, len)
    BY Zenon
  <2> HIDE DEF e, rest
  <2>3. IsSeq(rest) /\ Len(rest) = e /\ \A j \in 1 .. e : rest[j] = in[a + j]
    <3>1. Within(in, a, e, len, rest)
      BY ONLY <1>0, <1>7, <2>1, <2>2, Zenon DEF Within
    <3>2. Piece(in, a, e, rest)
      BY ONLY <3>1, PieceIs, Zenon
    <3> QED BY ONLY <3>2, Zenon DEF Piece
  <2> QED BY <2>3, Zenon DEF e
<1> HIDE DEF head, rest
<1>10. t \in Nat /\ w \in Nat /\ s \in Nat /\ s < BLOCK /\ z \in Nat /\ t = z + s
  <2>1. t \in Nat
    BY <1>1, <1>7, <1>9
  <2> QED BY <2>1, Numbered, Zenon
<1> HIDE DEF t, w, s, z
<1>11. IsSeq(tail) /\ Len(tail) = s /\ \A i \in 1 .. s : tail[i] = rest[z + i]
  <2>1. tail = SubSeq(rest, z + 1, t) /\ t = Len(rest)
    BY Zenon DEF t
  <2>2. z + s <= t
    BY <1>10
  <2> HIDE DEF tail
  <2>3. Within(rest, z, s, t, tail)
    BY ONLY <1>9, <1>10, <2>1, <2>2, Zenon DEF Within
  <2>4. Piece(rest, z, s, tail)
    BY ONLY <2>3, PieceIs, Zenon
  <2> QED BY ONLY <2>4, Zenon DEF Piece
<1> HIDE DEF tail
<1>12. n + len = y + t
  BY <1>1, <1>7, <1>9, <1>10
<1>13. ASSUME NEW j \in 1 .. t PROVE l[y + j] = rest[j]
  <2>1. y + j \in 1 .. n + len /\ ~(y + j <= n) /\ (y + j) - n = a + j
    BY <1>1, <1>6, <1>7, <1>10, <1>12
  <2> QED BY <1>2, <1>9, <2>1, Zenon
<1>14. first = BlockOf(l, q + 1)
  <2>1. BLOCK * ((q + 1) - 1) = x
    <3>1. (q + 1) - 1 = q
      BY <1>1
    <3> QED BY <3>1, Zenon DEF x
  <2>2. first = [i \in 1 .. BLOCK |-> IF i > r /\ i <= r + Len(head) THEN head[i - r] ELSE c.buf[i]]
    BY Zenon DEF Copied
  <2>3. ASSUME NEW i \in 1 .. BLOCK
        PROVE  (IF i > r /\ i <= r + Len(head) THEN head[i - r] ELSE c.buf[i]) = l[x + i]
    <3>1. x + i \in 1 .. n + len
      BY <1>1, <1>7
    <3>2. CASE i <= r
      <4>1. i \in 1 .. r /\ x + i <= n /\ ~(i > r)
        BY <1>1, <3>2
      <4> QED BY <1>2, <1>3, <3>1, <4>1, Zenon
    <3>3. CASE ~(i <= r)
      <4>1. i > r /\ i <= r + a /\ ~(x + i <= n) /\ (x + i) - n = i - r /\ i - r \in 1 .. a
        BY <1>1, <1>7, <3>3
      <4> QED BY <1>2, <1>8, <3>1, <4>1, Zenon
    <3> QED BY <3>2, <3>3, Zenon
  <2>4. BlockOf(l, q + 1) = [i \in 1 .. BLOCK |-> l[x + i]]
    BY <2>1, Zenon DEF BlockOf
  <2> QED BY <2>2, <2>3, <2>4, Zenon
<1>15. ASSUME NEW k \in 1 .. w
       PROVE  SubSeq(rest, BLOCK * (k - 1) + 1, BLOCK * k) = BlockOf(l, q + 1 + k)
  <2> DEFINE u == BLOCK * (k - 1)
             v == BLOCK * k
             P == SubSeq(rest, u + 1, v)
  <2>1. u \in Nat /\ v = u + BLOCK /\ v <= z
    <3>1. BLOCK \in 1 .. BLOCK
      BY <1>1
    <3>2. u \in Nat /\ u + BLOCK \in 1 .. z
      BY <1>1, <1>10, <3>1, Place, Zenon DEF z
    <3>3. v = u + BLOCK
      BY ONLY <1>1, <1>10, k \in 1 .. w
    <3> HIDE DEF u, v
    <3> QED BY <1>1, <1>10, <3>2, <3>3
  <2>2. BLOCK * ((q + 1 + k) - 1) = y + u
    <3>1. BLOCK * ((q + 1 + k) - 1) = BLOCK * (q + 1) + BLOCK * (k - 1)
      BY ONLY <1>1, <1>10, k \in 1 .. w
    <3> QED BY <3>1, Zenon DEF y
  <2> HIDE DEF u, v
  <2>3. P = SubSeq(rest, u + 1, v) /\ t = Len(rest)
    BY Zenon DEF t
  <2> HIDE DEF P
  <2>4. u + BLOCK <= t /\ BLOCK \in Nat
    BY <1>1, <1>10, <2>1
  <2>5. IsSeq(P) /\ Len(P) = BLOCK /\ \A i \in 1 .. BLOCK : P[i] = rest[u + i]
    <3>1. Within(rest, u, BLOCK, v, P)
      BY ONLY <1>9, <2>1, <2>3, <2>4, Zenon DEF Within
    <3>2. Piece(rest, u, BLOCK, P)
      BY ONLY <3>1, PieceIs, Zenon
    <3> QED BY ONLY <3>2, Zenon DEF Piece
  <2>6. P = [i \in 1 .. BLOCK |-> P[i]]
    BY <2>5, Zenon DEF IsSeq
  <2>7. ASSUME NEW i \in 1 .. BLOCK PROVE P[i] = l[(y + u) + i]
    <3>1. u + i \in 1 .. t /\ y + (u + i) = (y + u) + i
      BY <1>1, <1>6, <1>10, <2>1
    <3> QED BY <1>13, <2>5, <3>1, Zenon
  <2>8. BlockOf(l, q + 1 + k) = [i \in 1 .. BLOCK |-> l[(y + u) + i]]
    BY <2>2, Zenon DEF BlockOf
  <2>9. P = BlockOf(l, q + 1 + k)
    BY <2>6, <2>7, <2>8, Zenon
  <2> QED BY <2>9, Zenon DEF P, u, v
<1>16. Blocks(m, q) = Blocks(l, q)
  <2>1. ASSUME NEW i \in 1 .. x PROVE m[i] = l[i]
    <3>1. i \in 1 .. n + len /\ i <= n
      BY <1>1
    <3> QED BY <1>2, <3>1, Zenon
  <2> QED BY <1>1, <2>1, BlocksSame, Zenon DEF x
<1>17. Mixed(Blocks(m, q), first, rest, w)[w] = Blocks(l, q + 1 + w)
  <2>1. Mixed(Blocks(l, q), BlockOf(l, q + 1), rest, w)[w] = Blocks(l, q + 1 + w)
    <3>1. Continues(l, q, rest, w)
      BY ONLY <1>15, Zenon DEF Continues
    <3>2. q \in Nat /\ w \in Nat
      BY <1>1, <1>10, Zenon
    <3> HIDE DEF rest
    <3> QED BY ONLY <3>1, <3>2, MixedIs
  <2> HIDE DEF first
  <2> QED BY ONLY <1>14, <1>16, <2>1, Zenon
<1>18. (n + len) \div BLOCK = q + 1 + w /\ (n + len) % BLOCK = s
  <2>1. q + 1 \in Nat
    BY <1>1
  <2>2. (BLOCK * (q + 1) + t) \div BLOCK = (q + 1) + (t \div BLOCK) /\ (BLOCK * (q + 1) + t) % BLOCK = t % BLOCK
    BY <1>1, <1>10, <2>1, DivAdds, Zenon
  <2> QED BY <1>12, <2>2, Zenon DEF y, w, s
<1>19. BLOCK * (q + 1 + w) = y + z
  <2>1. BLOCK * (q + 1 + w) = BLOCK * (q + 1) + BLOCK * w
    BY ONLY <1>1, <1>10
  <2> QED BY <2>1, Zenon DEF y, z
<1>20. ASSUME NEW i \in 1 .. s PROVE last[i] = l[(y + z) + i]
  <2>1. i \in 1 .. BLOCK /\ i > 0 /\ i <= 0 + s /\ i - 0 = i
    BY <1>1, <1>10
  <2>2. last[i] = IF i > 0 /\ i <= 0 + Len(tail) THEN tail[i - 0] ELSE first[i]
    BY <2>1, CopiedIs, Zenon
  <2> HIDE DEF last, first
  <2>3. last[i] = rest[z + i]
    BY <1>11, <2>1, <2>2, Zenon
  <2>4. z + i \in 1 .. t /\ y + (z + i) = (y + z) + i
    BY <1>6, <1>10
  <2> QED BY <1>13, <2>3, <2>4, Zenon
<1> HIDE DEF last, first
<1>21. d = [state |-> Blocks(l, q + 1 + w), count |-> n + len, buf |-> last]
  BY <1>4, <1>17, Zenon
<1>22. d.buf = last
  BY <1>21
<1>23. Absorbed(d, l)
  <2>1. \A i \in 1 .. s : d.buf[i] = l[(y + z) + i]
    BY <1>20, <1>22, Zenon
  <2>2. d = [state |-> Blocks(l, q + 1 + w), count |-> n + len, buf |-> d.buf]
    BY <1>21, <1>22, Zenon
  <2> QED BY <1>2, <1>18, <1>19, <2>1, <2>2, Zenon DEF Absorbed
<1> QED BY <1>23, Zenon DEF d, l

(* However the input is cut into calls.                                    *)
LEMMA UpdateIs ==
  ASSUME NEW c, NEW m, NEW in, IsSeq(m), IsSeq(in), Absorbed(c, m)
  PROVE  Absorbed(SHA256_Update(c, in), m \o in) /\ IsSeq(m \o in)
<1>1. CASE Len(in) < BLOCK - (Len(m) % BLOCK)
  BY <1>1, UpdateShort, Joined, Zenon
<1>2. CASE ~(Len(in) < BLOCK - (Len(m) % BLOCK))
  BY <1>2, UpdateLong, Joined, Zenon
<1> QED BY <1>1, <1>2, Zenon

-----------------------------------------------------------------------------
(* Sha256: padding.                                                        *)

(* A part that is a block.                                                 *)
LEMMA PartBlock ==
  ASSUME NEW s, IsSeq(s), NEW q \in Nat, BLOCK * q <= Len(s), NEW b \in 1 .. q
  PROVE  SubSeq(s, BLOCK * (b - 1) + 1, BLOCK * b) = BlockOf(s, b)
<1> DEFINE u == BLOCK * (b - 1)
           v == BLOCK * b
           z == BLOCK * q
           P == SubSeq(s, u + 1, v)
<1>1. BLOCK \in Nat \ {0} /\ Len(s) \in Nat
  BY ShaAssumption DEF IsSeq
<1>2. u \in Nat /\ z \in Nat /\ u + BLOCK \in 1 .. z
  <2>1. BLOCK \in 1 .. BLOCK
    BY <1>1
  <2> QED BY <1>1, <2>1, Place, Zenon
<1>3. v = u + BLOCK
  BY ONLY <1>1, q \in Nat, b \in 1 .. q
<1> HIDE DEF u, v
<1>4. u + BLOCK <= Len(s)
  <2> HIDE DEF z
  <2> QED BY <1>1, <1>2, z <= Len(s) DEF z
<1>5. Piece(s, u, BLOCK, P)
  <2>1. Within(s, u, BLOCK, v, P)
    BY <1>1, <1>2, <1>3, <1>4, Zenon DEF Within
  <2> HIDE DEF P
  <2> QED BY ONLY <2>1, PieceIs, Zenon
<1> HIDE DEF P
<1>6. P = [i \in 1 .. BLOCK |-> P[i]] /\ \A i \in 1 .. BLOCK : P[i] = s[u + i]
  BY <1>5, Zenon DEF Piece, IsSeq
<1>7. P = [i \in 1 .. BLOCK |-> s[u + i]]
  BY <1>6, Zenon
<1> QED BY <1>7, Zenon DEF BlockOf, P, u, v

(* There is one number of zeroes that fills the last block.                *)
LEMMA ZeroesAre ==
  ASSUME NEW n \in Nat, NEW Z \in 0 .. (BLOCK - 1), NEW k \in Nat,
         n + 1 + Z + LENGTH = BLOCK * k
  PROVE  (CHOOSE z \in 0 .. (BLOCK - 1) : (n + 1 + z + LENGTH) % BLOCK = 0) = Z
<1> DEFINE Good(z) == (n + 1 + z + LENGTH) % BLOCK = 0
<1>1. BLOCK \in Nat \ {0} /\ LENGTH \in Nat
  BY ShaAssumption
<1>2. Good(Z)
  <2>1. 0 \in 0 .. (BLOCK - 1) /\ BLOCK * k + 0 = BLOCK * k
    BY <1>1
  <2>2. (BLOCK * k + 0) % BLOCK = 0
    BY <1>1, <2>1, DivModUnique, Zenon
  <2> QED BY <2>1, <2>2, Zenon
<1>3. ASSUME NEW z \in 0 .. (BLOCK - 1), Good(z) PROVE z = Z
  <2> DEFINE N == n + 1 + z + LENGTH
             p == N \div BLOCK
             M == BLOCK * k
             L == BLOCK * p
  <2>1. N \in Nat
    BY <1>1
  <2>2. N % BLOCK = 0 /\ L \in Nat /\ N = L + (N % BLOCK) /\ p \in Nat
    BY <1>3, <2>1, Numbered, Zenon
  <2>3. N = L
    BY <2>1, <2>2
  <2> HIDE DEF p
  <2>4. M \in Nat
    BY <1>1
  <2>5. p <= k
    <3> SUFFICES ASSUME p > k PROVE FALSE
      BY <2>2
    <3> DEFINE e == p - (k + 1)
               D == BLOCK * e
    <3>1. e \in Nat /\ p = k + 1 + e
      BY <2>2
    <3> HIDE DEF e
    <3>2. BLOCK * p = BLOCK * k + BLOCK + BLOCK * e /\ D \in Nat
      BY ONLY <1>1, <2>2, <3>1, k \in Nat
    <3>3. L = M + BLOCK + D
      BY <3>2, Zenon
    <3> HIDE DEF D, L, M
    <3>4. n + 1 + Z + LENGTH = M
      BY Zenon DEF M
    <3>5. n + 1 + z + LENGTH = L
      BY <2>3, Zenon
    <3> QED BY ONLY <1>1, <2>2, <2>4, <3>2, <3>3, <3>4, <3>5, n \in Nat,
                    z \in 0 .. (BLOCK - 1), Z \in 0 .. (BLOCK - 1)
  <2>6. k <= p
    <3> SUFFICES ASSUME k > p PROVE FALSE
      BY <2>2
    <3> DEFINE e == k - (p + 1)
               D == BLOCK * e
    <3>1. e \in Nat /\ k = p + 1 + e
      BY <2>2
    <3> HIDE DEF e
    <3>2. BLOCK * k = BLOCK * p + BLOCK + BLOCK * e /\ D \in Nat
      BY ONLY <1>1, <2>2, <3>1, k \in Nat
    <3>3. M = L + BLOCK + D
      BY <3>2, Zenon
    <3> HIDE DEF D, L, M
    <3>4. n + 1 + Z + LENGTH = M
      BY Zenon DEF M
    <3>5. n + 1 + z + LENGTH = L
      BY <2>3, Zenon
    <3> QED BY ONLY <1>1, <2>2, <2>4, <3>2, <3>3, <3>4, <3>5, n \in Nat,
                    z \in 0 .. (BLOCK - 1), Z \in 0 .. (BLOCK - 1)
  <2>7. p = k
    BY <2>2, <2>5, <2>6
  <2>8. n + 1 + z + LENGTH = n + 1 + Z + LENGTH
    BY <2>3, <2>7, Zenon
  <2> QED BY ONLY <1>1, <2>8, n \in Nat, z \in 0 .. (BLOCK - 1), Z \in 0 .. (BLOCK - 1)
<1> HIDE DEF Good
<1>4. (CHOOSE z \in 0 .. (BLOCK - 1) : Good(z)) = Z
  BY <1>2, <1>3
<1> QED BY <1>4, Zenon DEF Good

(* The parts of the padding are sequences.                                 *)
LEMMA PaddingIs ==
  /\ \A z \in Nat : IsSeq(Zeroes(z)) /\ Len(Zeroes(z)) = z /\ \A i \in 1 .. z : Zeroes(z)[i] = <<"0">>
  /\ \A z \in Nat : /\ Len(PAD(z)) = z
                    /\ \A i \in 1 .. z : PAD(z)[i] = IF i = 1 THEN <<"0x80">> ELSE <<"0">>
  /\ \A n : /\ IsSeq(BitCount(n)) /\ Len(BitCount(n)) = LENGTH
            /\ \A i \in 1 .. LENGTH : BitCount(n)[i] = <<"count", n, i>>
  /\ IsSeq(<<<<"0x80">>>>) /\ Len(<<<<"0x80">>>>) = 1 /\ <<<<"0x80">>>>[1] = <<"0x80">>
<1>1. ASSUME NEW z \in Nat
      PROVE  IsSeq(Zeroes(z)) /\ Len(Zeroes(z)) = z /\ \A i \in 1 .. z : Zeroes(z)[i] = <<"0">>
  <2> DEFINE f == Zeroes(z)
  <2>1. f = [i \in 1 .. z |-> f[i]] /\ \A i \in 1 .. z : f[i] = <<"0">>
    BY Zenon DEF Zeroes
  <2> HIDE DEF f
  <2>2. IsSeq(f) /\ Len(f) = z
    BY <2>1, SeqMade, Zenon
  <2> QED BY <2>1, <2>2, Zenon DEF f
<1>2. ASSUME NEW z \in Nat
      PROVE  /\ Len(PAD(z)) = z
             /\ \A i \in 1 .. z : PAD(z)[i] = IF i = 1 THEN <<"0x80">> ELSE <<"0">>
  <2> DEFINE f == PAD(z)
  <2>1. f = [i \in 1 .. z |-> f[i]] /\ \A i \in 1 .. z : f[i] = <<IF i = 1 THEN "0x80" ELSE "0">>
    BY Zenon DEF PAD
  <2> HIDE DEF f
  <2>2. Len(f) = z
    BY <2>1, SeqMade, Zenon
  <2>3. ASSUME NEW i \in 1 .. z PROVE f[i] = IF i = 1 THEN <<"0x80">> ELSE <<"0">>
    <3>1. CASE i = 1
      BY <2>1, <3>1, Zenon
    <3>2. CASE i # 1
      BY <2>1, <3>2, Zenon
    <3> QED BY <3>1, <3>2, Zenon
  <2> QED BY <2>2, <2>3, Zenon DEF f
<1>3. ASSUME NEW n
      PROVE  /\ IsSeq(BitCount(n)) /\ Len(BitCount(n)) = LENGTH
             /\ \A i \in 1 .. LENGTH : BitCount(n)[i] = <<"count", n, i>>
  <2> DEFINE f == BitCount(n)
  <2>0. LENGTH \in Nat
    BY ShaAssumption
  <2>1. f = [i \in 1 .. LENGTH |-> f[i]] /\ \A i \in 1 .. LENGTH : f[i] = <<"count", n, i>>
    BY Zenon DEF BitCount
  <2> HIDE DEF f
  <2>2. IsSeq(f) /\ Len(f) = LENGTH
    BY <2>0, <2>1, SeqMade, Zenon
  <2> QED BY <2>1, <2>2, Zenon DEF f
<1>4. IsSeq(<<<<"0x80">>>>) /\ Len(<<<<"0x80">>>>) = 1 /\ <<<<"0x80">>>>[1] = <<"0x80">>
  <2> DEFINE x == <<"0x80">>
  <2> HIDE DEF x
  <2>1. <<x>> \in Seq({x}) /\ Len(<<x>>) = 1 /\ <<x>>[1] = x
    OBVIOUS
  <2>2. IsSeq(<<x>>)
    BY <2>1, SeqFrom, Zenon
  <2> QED BY <2>1, <2>2, Zenon DEF x
<1> QED BY <1>1, <1>2, <1>3, <1>4, Zenon

(* The two parts of a concatenation.                                       *)
Joins(s, t, u) ==
    /\ IsSeq(u) /\ Len(u) = Len(s) + Len(t)
    /\ \A i \in 1 .. Len(s) : u[i] = s[i]
    /\ \A j \in 1 .. Len(t) : u[Len(s) + j] = t[j]

(* A concatenation has these parts.                                        *)
LEMMA JoinsAre ==
  ASSUME NEW s, NEW t, IsSeq(s), IsSeq(t)
  PROVE  Joins(s, t, s \o t)
<1> DEFINE a == Len(s)
           b == Len(t)
           u == s \o t
<1>1. a \in Nat /\ b \in Nat
  BY Zenon DEF IsSeq
<1>2. /\ IsSeq(u) /\ Len(u) = a + b
      /\ \A i \in 1 .. a + b : u[i] = IF i <= a THEN s[i] ELSE t[i - a]
  BY Joined, Zenon
<1> HIDE DEF a, b, u
<1>3. ASSUME NEW i \in 1 .. a PROVE u[i] = s[i]
  <2>1. i \in 1 .. a + b /\ i <= a
    BY <1>1
  <2> QED BY <1>2, <2>1, Zenon
<1>4. ASSUME NEW j \in 1 .. b PROVE u[a + j] = t[j]
  <2>1. a + j \in 1 .. a + b /\ ~(a + j <= a) /\ (a + j) - a = j
    BY <1>1
  <2> QED BY <1>2, <2>1, Zenon
<1> QED BY <1>2, <1>3, <1>4, Zenon DEF Joins, a, b, u

(* A message with its padding, k blocks with Z zeroes in the last of them. *)
PadFits(m, n, Z, k, P) ==
    /\ IsSeq(m) /\ n = Len(m) /\ Z \in 0 .. (BLOCK - 1) /\ k \in Nat
    /\ n + 1 + Z + LENGTH = BLOCK * k /\ P = Padded(m)
PadShape(m, n, Z, k, P) ==
    /\ IsSeq(P) /\ Len(P) = BLOCK * k
    /\ \A i \in 1 .. n : P[i] = m[i]
    /\ P[n + 1] = <<"0x80">>
    /\ \A j \in 1 .. Z : P[n + 1 + j] = <<"0">>
    /\ \A j \in 1 .. LENGTH : P[n + 1 + Z + j] = <<"count", n, j>>

(* The padding of FIPS 180 has that shape.                                 *)
LEMMA PaddedIs ==
  ASSUME NEW m, NEW n, NEW Z, NEW k, NEW P, PadFits(m, n, Z, k, P)
  PROVE  PadShape(m, n, Z, k, P)
<1> USE DEF PadFits
<1> DEFINE one == <<<<"0x80">>>>
           zs == Zeroes(Z)
           bc == BitCount(n)
           u == m \o one
           v == u \o zs
           w == v \o bc
<1>1. n \in Nat /\ Z \in Nat /\ LENGTH \in Nat
  BY ShaAssumption DEF IsSeq
<1>2. P = w
  <2>1. (CHOOSE z \in 0 .. (BLOCK - 1) : (n + 1 + z + LENGTH) % BLOCK = 0) = Z
    BY <1>1, ZeroesAre, Zenon
  <2>2. (CHOOSE z \in 0 .. (BLOCK - 1) : (Len(m) + 1 + z + LENGTH) % BLOCK = 0) = Z
    BY <2>1, Zenon
  <2> QED BY <2>2, Zenon DEF Padded
<1>3. /\ IsSeq(one) /\ Len(one) = 1 /\ one[1] = <<"0x80">>
      /\ IsSeq(zs) /\ Len(zs) = Z /\ \A i \in 1 .. Z : zs[i] = <<"0">>
      /\ IsSeq(bc) /\ Len(bc) = LENGTH /\ \A i \in 1 .. LENGTH : bc[i] = <<"count", n, i>>
  BY <1>1, PaddingIs, Zenon
<1> HIDE DEF one, zs, bc
<1>4. IsSeq(u) /\ Len(u) = n + 1 /\ (\A i \in 1 .. n : u[i] = m[i]) /\ u[n + 1] = <<"0x80">>
  <2>1. Joins(m, one, u)
    BY <1>3, JoinsAre, Zenon
  <2> HIDE DEF u
  <2>2. 1 \in 1 .. 1
    OBVIOUS
  <2> QED BY <1>3, <2>1, <2>2, Zenon DEF Joins
<1> HIDE DEF u
<1>5. /\ IsSeq(v) /\ Len(v) = n + 1 + Z /\ \A i \in 1 .. n + 1 : v[i] = u[i]
      /\ \A j \in 1 .. Z : v[n + 1 + j] = <<"0">>
  <2>1. Joins(u, zs, v)
    BY <1>3, <1>4, JoinsAre, Zenon
  <2> HIDE DEF v
  <2> QED BY <1>3, <1>4, <2>1, Zenon DEF Joins
<1> HIDE DEF v
<1>6. /\ IsSeq(w) /\ Len(w) = n + 1 + Z + LENGTH /\ \A i \in 1 .. n + 1 + Z : w[i] = v[i]
      /\ \A j \in 1 .. LENGTH : w[n + 1 + Z + j] = <<"count", n, j>>
  <2>1. Joins(v, bc, w)
    BY <1>3, <1>5, JoinsAre, Zenon
  <2> HIDE DEF w
  <2> QED BY <1>3, <1>5, <2>1, Zenon DEF Joins
<1> HIDE DEF w
<1>7. ASSUME NEW i \in 1 .. n PROVE w[i] = m[i]
  <2>1. i \in 1 .. n + 1 /\ i \in 1 .. n + 1 + Z
    BY <1>1
  <2> QED BY <1>4, <1>5, <1>6, <2>1, Zenon
<1>8. w[n + 1] = <<"0x80">>
  <2>1. n + 1 \in 1 .. n + 1 /\ n + 1 \in 1 .. n + 1 + Z
    BY <1>1
  <2> QED BY <1>4, <1>5, <1>6, <2>1, Zenon
<1>9. ASSUME NEW j \in 1 .. Z PROVE w[n + 1 + j] = <<"0">>
  <2>1. n + 1 + j \in 1 .. n + 1 + Z
    BY <1>1
  <2> QED BY <1>5, <1>6, <2>1, Zenon
<1> QED BY <1>2, <1>6, <1>7, <1>8, <1>9, Zenon DEF PadShape

(* What is left in the buffer, and what is added to it, make up the last   *)
(* block, or the last two; without stale bytes of the buffer.              *)
LEMMA PadIs ==
  ASSUME NEW c, NEW m, IsSeq(m), Absorbed(c, m)
  PROVE  \E k \in Nat : /\ IsSeq(Padded(m)) /\ Len(Padded(m)) = BLOCK * k
                        /\ SHA256_Pad(c) = Blocks(Padded(m), k)
<1> DEFINE n == Len(m)
           q == n \div BLOCK
           r == n % BLOCK
           x == BLOCK * q
           P == Padded(m)
           B == BLOCK - LENGTH
           bc == BitCount(n)
<1>1. /\ BLOCK \in Nat \ {0} /\ LENGTH \in Nat /\ LENGTH < BLOCK /\ n \in Nat /\ q \in Nat /\ r \in Nat
      /\ r < BLOCK /\ x \in Nat /\ n = x + r
  <2>1. n \in Nat
    BY Zenon DEF IsSeq
  <2>2. LENGTH \in Nat /\ LENGTH < BLOCK
    BY ShaAssumption
  <2> QED BY <2>1, <2>2, Numbered, Zenon
<1>2. c.state = Blocks(m, q) /\ c.count = n /\ \A i \in 1 .. r : c.buf[i] = m[x + i]
  <2>1. c = [state |-> Blocks(m, q), count |-> n, buf |-> c.buf] /\ \A i \in 1 .. r : c.buf[i] = m[x + i]
    BY Zenon DEF Absorbed
  <2> QED BY <2>1
<1>3. B \in Nat /\ B # 0 /\ B <= BLOCK /\ BLOCK = B + LENGTH
  BY <1>1
<1>4. IsSeq(bc) /\ Len(bc) = LENGTH /\ \A i \in 1 .. LENGTH : bc[i] = <<"count", n, i>>
  BY PaddingIs, Zenon
<1>5. \A i \in 1 .. x : \A l : (\A j \in 1 .. n : l[j] = m[j]) => m[i] = l[i]
  <2>1. \A i \in 1 .. x : i \in 1 .. n
    <3> HIDE DEF n, x, r
    <3> QED BY <1>1
  <2> QED BY <2>1, Zenon
<1>6. CASE r < B
  <2> DEFINE Z == B - (r + 1)
             pd == PAD(B - r)
             short == Copied(c.buf, r, pd)
             last == Copied(short, B, bc)
  <2>1. SHA256_Pad(c) = SHA256_Transform(Blocks(m, q), last)
    <3>1. SHA256_Pad(c) = SHA256_Transform(c.state, Copied(Copied(c.buf, c.count % BLOCK, PAD(B - (c.count % BLOCK))), B, BitCount(c.count)))
      BY <1>2, <1>6, Zenon DEF SHA256_Pad
    <3> QED BY <1>2, <3>1, Zenon
  <2>2. Len(pd) = B - r /\ \A i \in 1 .. B - r : pd[i] = IF i = 1 THEN <<"0x80">> ELSE <<"0">>
    <3>1. B - r \in Nat
      BY <1>1, <1>3, <1>6
    <3> QED BY <3>1, PaddingIs, Zenon
  <2>3. \A i \in 1 .. BLOCK : last[i] = IF i > B /\ i <= B + Len(bc) THEN bc[i - B] ELSE short[i]
    <3> HIDE DEF short, B, bc
    <3> QED BY ONLY CopiedIs, Zenon
  <2>4. \A i \in 1 .. BLOCK : short[i] = IF i > r /\ i <= r + Len(pd) THEN pd[i - r] ELSE c.buf[i]
    <3> DEFINE b == c.buf
    <3> HIDE DEF r, pd, b
    <3>1. \A i \in 1 .. BLOCK : Copied(b, r, pd)[i] = IF i > r /\ i <= r + Len(pd) THEN pd[i - r] ELSE b[i]
      BY ONLY CopiedIs, Zenon
    <3> QED BY ONLY <3>1, Zenon DEF b
  <2>5. last = [i \in 1 .. BLOCK |-> last[i]]
    <3> HIDE DEF short, B, bc
    <3> QED BY ONLY CopiedFills, Zenon
  <2> HIDE DEF n, q, r, B, bc, pd, last, short, P
  <2>6. Z \in 0 .. (BLOCK - 1) /\ q + 1 \in Nat /\ n + 1 + Z + LENGTH = x + BLOCK
    BY <1>1, <1>3, <1>6
  <2>7. BLOCK * (q + 1) = x + BLOCK
    BY ONLY <1>1
  <2> HIDE DEF x
  <2>8. /\ IsSeq(P) /\ Len(P) = BLOCK * (q + 1)
        /\ \A i \in 1 .. n : P[i] = m[i]
        /\ P[n + 1] = <<"0x80">>
        /\ \A j \in 1 .. Z : P[n + 1 + j] = <<"0">>
        /\ \A j \in 1 .. LENGTH : P[n + 1 + Z + j] = <<"count", n, j>>
    <3>1. n = Len(m) /\ P = Padded(m) /\ n + 1 + Z + LENGTH = BLOCK * (q + 1)
      BY <2>6, <2>7, Zenon DEF n, P
    <3>2. PadFits(m, n, Z, q + 1, P)
      BY <2>6, <3>1, Zenon DEF PadFits
    <3>3. PadShape(m, n, Z, q + 1, P)
      BY ONLY <3>2, PaddedIs, Zenon
    <3> QED BY ONLY <3>3, Zenon DEF PadShape
  <2>9. ASSUME NEW i \in 1 .. BLOCK PROVE last[i] = P[x + i]
    <3>1. CASE i > B
      <4>1. i <= B + LENGTH /\ i - B \in 1 .. LENGTH /\ n + 1 + Z + (i - B) = x + i
        BY <1>1, <1>3, <3>1
      <4> QED BY <1>4, <2>3, <2>8, <3>1, <4>1, Zenon
    <3>2. CASE ~(i > B) /\ i > r + 1
      <4>1. i > r /\ i <= r + (B - r) /\ i - r \in 1 .. B - r /\ i - r # 1
            /\ i - (r + 1) \in 1 .. Z /\ n + 1 + (i - (r + 1)) = x + i
        BY <1>1, <1>3, <1>6, <3>2
      <4> QED BY <2>2, <2>3, <2>4, <2>8, <3>2, <4>1, Zenon
    <3>3. CASE ~(i > B) /\ i = r + 1
      <4>1. i > r /\ i <= r + (B - r) /\ i - r \in 1 .. B - r /\ i - r = 1 /\ n + 1 = x + i
        BY <1>1, <1>3, <1>6, <3>3
      <4> QED BY <2>2, <2>3, <2>4, <2>8, <3>3, <4>1, Zenon
    <3>4. CASE ~(i > B) /\ i <= r
      <4>1. ~(i > r) /\ i \in 1 .. r /\ x + i \in 1 .. n
        BY <1>1, <3>4
      <4> QED BY <1>2, <2>3, <2>4, <2>8, <3>4, <4>1, Zenon
    <3>5. i > B \/ i > r + 1 \/ i = r + 1 \/ i <= r
      BY <1>1
    <3> QED BY <3>1, <3>2, <3>3, <3>4, <3>5, Zenon
  <2>10. last = BlockOf(P, q + 1)
    <3>1. BLOCK * ((q + 1) - 1) = x
      <4>1. (q + 1) - 1 = q
        BY <1>1
      <4> QED BY <4>1, Zenon DEF x
    <3>2. last = [i \in 1 .. BLOCK |-> P[x + i]]
      BY <2>5, <2>9, Zenon
    <3> QED BY <3>1, <3>2, Zenon DEF BlockOf
  <2>11. Blocks(m, q) = Blocks(P, q)
    <3>1. \A i \in 1 .. BLOCK * q : m[i] = P[i]
      BY <1>5, <2>8, Zenon DEF x
    <3> QED BY <1>1, <3>1, BlocksSame, Zenon
  <2>12. SHA256_Pad(c) = Blocks(P, q + 1)
    BY <1>1, <2>1, <2>10, <2>11, BlocksGrow, Zenon DEF SHA256_Transform
  <2> QED BY <2>6, <2>8, <2>12, Zenon DEF P
<1>7. CASE ~(r < B)
  <2> DEFINE Z == (BLOCK - (r + 1)) + B
             pd == PAD(BLOCK - r)
             full == Copied(c.buf, r, pd)
             zs == Zeroes(B)
             clear == Copied(full, 0, zs)
             last == Copied(clear, B, bc)
  <2>1. SHA256_Pad(c) = SHA256_Transform(SHA256_Transform(Blocks(m, q), full), last)
    <3>1. SHA256_Pad(c) =
            SHA256_Transform(SHA256_Transform(c.state, Copied(c.buf, c.count % BLOCK, PAD(BLOCK - (c.count % BLOCK)))),
                             Copied(Copied(Copied(c.buf, c.count % BLOCK, PAD(BLOCK - (c.count % BLOCK))), 0, zs), B, BitCount(c.count)))
      BY <1>2, <1>7, Zenon DEF SHA256_Pad
    <3> QED BY <1>2, <3>1, Zenon
  <2>2. Len(pd) = BLOCK - r /\ \A i \in 1 .. BLOCK - r : pd[i] = IF i = 1 THEN <<"0x80">> ELSE <<"0">>
    <3>1. BLOCK - r \in Nat
      BY <1>1
    <3> QED BY <3>1, PaddingIs, Zenon
  <2>3. Len(zs) = B /\ \A i \in 1 .. B : zs[i] = <<"0">>
    BY <1>3, PaddingIs, Zenon
  <2>4. /\ \A i \in 1 .. BLOCK : last[i] = IF i > B /\ i <= B + Len(bc) THEN bc[i - B] ELSE clear[i]
        /\ \A i \in 1 .. BLOCK : clear[i] = IF i > 0 /\ i <= 0 + Len(zs) THEN zs[i - 0] ELSE full[i]
        /\ \A i \in 1 .. BLOCK : full[i] = IF i > r /\ i <= r + Len(pd) THEN pd[i - r] ELSE c.buf[i]
    <3> HIDE DEF r, pd, B, bc, zs
    <3>1. \A i \in 1 .. BLOCK : full[i] = IF i > r /\ i <= r + Len(pd) THEN pd[i - r] ELSE c.buf[i]
      <4> DEFINE b == c.buf
      <4> HIDE DEF b
      <4>1. \A i \in 1 .. BLOCK : Copied(b, r, pd)[i] = IF i > r /\ i <= r + Len(pd) THEN pd[i - r] ELSE b[i]
        BY ONLY CopiedIs, Zenon
      <4> QED BY ONLY <4>1, Zenon DEF b
    <3> HIDE DEF full
    <3>2. \A i \in 1 .. BLOCK : clear[i] = IF i > 0 /\ i <= 0 + Len(zs) THEN zs[i - 0] ELSE full[i]
      BY ONLY CopiedIs, Zenon
    <3> HIDE DEF clear
    <3>3. \A i \in 1 .. BLOCK : last[i] = IF i > B /\ i <= B + Len(bc) THEN bc[i - B] ELSE clear[i]
      BY ONLY CopiedIs, Zenon
    <3> QED BY ONLY <3>1, <3>2, <3>3, Zenon
  <2>5. last = [i \in 1 .. BLOCK |-> last[i]] /\ full = [i \in 1 .. BLOCK |-> full[i]]
    <3>1. full = [i \in 1 .. BLOCK |-> full[i]]
      <4> HIDE DEF r, pd
      <4> QED BY ONLY CopiedFills, Zenon
    <3> HIDE DEF clear, B, bc
    <3>2. last = [i \in 1 .. BLOCK |-> last[i]]
      BY ONLY CopiedFills, Zenon
    <3> QED BY <3>1, <3>2, Zenon
  <2> HIDE DEF n, q, r, B, bc, pd, last, full, clear, zs, P
  <2>6. Z \in 0 .. (BLOCK - 1) /\ q + 2 \in Nat /\ n + 1 + Z + LENGTH = x + BLOCK + BLOCK
    BY <1>1, <1>3, <1>7
  <2>7. BLOCK * (q + 2) = x + BLOCK + BLOCK /\ BLOCK * (q + 1) = x + BLOCK
    BY ONLY <1>1
  <2> HIDE DEF x
  <2>8. /\ IsSeq(P) /\ Len(P) = BLOCK * (q + 2)
        /\ \A i \in 1 .. n : P[i] = m[i]
        /\ P[n + 1] = <<"0x80">>
        /\ \A j \in 1 .. Z : P[n + 1 + j] = <<"0">>
        /\ \A j \in 1 .. LENGTH : P[n + 1 + Z + j] = <<"count", n, j>>
    <3>1. n = Len(m) /\ P = Padded(m) /\ n + 1 + Z + LENGTH = BLOCK * (q + 2)
      BY <2>6, <2>7, Zenon DEF n, P
    <3>2. PadFits(m, n, Z, q + 2, P)
      BY <2>6, <3>1, Zenon DEF PadFits
    <3>3. PadShape(m, n, Z, q + 2, P)
      BY ONLY <3>2, PaddedIs, Zenon
    <3> QED BY ONLY <3>3, Zenon DEF PadShape
  <2>9. ASSUME NEW i \in 1 .. BLOCK PROVE full[i] = P[x + i]
    <3>1. CASE i > r + 1
      <4>1. i > r /\ i <= r + (BLOCK - r) /\ i - r \in 1 .. BLOCK - r /\ i - r # 1
            /\ i - (r + 1) \in 1 .. Z /\ n + 1 + (i - (r + 1)) = x + i
        BY <1>1, <1>3, <3>1
      <4> QED BY <2>2, <2>4, <2>8, <4>1, Zenon
    <3>2. CASE i = r + 1
      <4>1. i > r /\ i <= r + (BLOCK - r) /\ i - r \in 1 .. BLOCK - r /\ i - r = 1 /\ n + 1 = x + i
        BY <1>1, <3>2
      <4> QED BY <2>2, <2>4, <2>8, <4>1, Zenon
    <3>3. CASE i <= r
      <4>1. ~(i > r) /\ i \in 1 .. r /\ x + i \in 1 .. n
        BY <1>1, <3>3
      <4> QED BY <1>2, <2>4, <2>8, <4>1, Zenon
    <3>4. i > r + 1 \/ i = r + 1 \/ i <= r
      BY <1>1
    <3> QED BY <3>1, <3>2, <3>3, <3>4, Zenon
  <2>10. ASSUME NEW i \in 1 .. BLOCK PROVE last[i] = P[(x + BLOCK) + i]
    <3>1. CASE i > B
      <4>1. i <= B + LENGTH /\ i - B \in 1 .. LENGTH /\ n + 1 + Z + (i - B) = (x + BLOCK) + i
        BY <1>1, <1>3, <3>1
      <4> QED BY <1>4, <2>4, <2>8, <3>1, <4>1, Zenon
    <3>2. CASE ~(i > B)
      <4> DEFINE j == (BLOCK - (r + 1)) + i
      <4>1. i > 0 /\ i <= 0 + B /\ i - 0 = i /\ i \in 1 .. B
            /\ j \in 1 .. Z /\ n + 1 + j = (x + BLOCK) + i
        BY <1>1, <1>3, <3>2
      <4> HIDE DEF j, Z
      <4>2. last[i] = <<"0">>
        BY <2>3, <2>4, <3>2, <4>1, Zenon
      <4> QED BY <2>8, <4>1, <4>2, Zenon
    <3> QED BY <3>1, <3>2, Zenon
  <2>11. full = BlockOf(P, q + 1)
    <3>1. BLOCK * ((q + 1) - 1) = x
      <4>1. (q + 1) - 1 = q
        BY <1>1
      <4> QED BY <4>1, Zenon DEF x
    <3>2. full = [i \in 1 .. BLOCK |-> P[x + i]]
      BY <2>5, <2>9, Zenon
    <3> QED BY <3>1, <3>2, Zenon DEF BlockOf
  <2>12. last = BlockOf(P, (q + 1) + 1)
    <3>1. BLOCK * (((q + 1) + 1) - 1) = x + BLOCK
      <4>1. ((q + 1) + 1) - 1 = q + 1
        BY <1>1
      <4> QED BY <2>7, <4>1, Zenon
    <3>2. last = [i \in 1 .. BLOCK |-> P[(x + BLOCK) + i]]
      BY <2>5, <2>10, Zenon
    <3> QED BY <3>1, <3>2, Zenon DEF BlockOf
  <2>13. Blocks(m, q) = Blocks(P, q)
    <3>1. \A i \in 1 .. BLOCK * q : m[i] = P[i]
      BY <1>5, <2>8, Zenon DEF x
    <3> QED BY <1>1, <3>1, BlocksSame, Zenon
  <2>14. SHA256_Pad(c) = Blocks(P, q + 2)
    <3>1. SHA256_Transform(Blocks(m, q), full) = Blocks(P, q + 1)
      BY <1>1, <2>11, <2>13, BlocksGrow, Zenon DEF SHA256_Transform
    <3>2. q + 1 \in Nat /\ (q + 1) + 1 = q + 2
      BY <1>1
    <3>3. SHA256_Transform(Blocks(P, q + 1), last) = Blocks(P, (q + 1) + 1)
      BY <2>12, <3>2, BlocksGrow, Zenon DEF SHA256_Transform
    <3> QED BY <2>1, <3>1, <3>2, <3>3, Zenon
  <2> QED BY <2>6, <2>8, <2>14, Zenon DEF P
<1> QED BY <1>6, <1>7, Zenon

(* A digest has its length.                                                *)
LEMMA ShaSeq ==
  ASSUME NEW m
  PROVE  IsSeq(Sha(m)) /\ Len(Sha(m)) = DIGEST
<1> DEFINE f == Sha(m)
<1>1. f = [i \in 1 .. DIGEST |-> f[i]]
  BY Zenon DEF Sha
<1>2. DIGEST \in Nat
  BY ShaAssumption
<1> HIDE DEF f
<1>3. IsSeq(f) /\ Len(f) = DIGEST
  BY <1>1, <1>2, SeqMade, Zenon
<1> QED BY <1>3, Zenon DEF f

(* The digest of what was put in.                                          *)
LEMMA FinalIs ==
  ASSUME NEW c, NEW m, IsSeq(m), Absorbed(c, m)
  PROVE  SHA256_Final(c) = Sha(m)
<1> DEFINE P == Padded(m)
<1>1. PICK k \in Nat : IsSeq(P) /\ Len(P) = BLOCK * k /\ SHA256_Pad(c) = Blocks(P, k)
  BY PadIs, Zenon
<1>2. BLOCK \in Nat \ {0}
  BY ShaAssumption
<1>3. Len(P) \div BLOCK = k
  <2>1. 0 \in 0 .. (BLOCK - 1) /\ BLOCK * k + 0 = BLOCK * k
    BY <1>2
  <2>2. (BLOCK * k + 0) \div BLOCK = k
    BY <1>2, <2>1, DivModUnique, Zenon
  <2> QED BY <1>1, <2>1, <2>2, Zenon
<1> DEFINE part(b) == SubSeq(P, BLOCK * (b - 1) + 1, BLOCK * b)
<1>4. ASSUME NEW b \in 1 .. k PROVE part(b) = BlockOf(P, b)
  <2>1. BLOCK * k <= Len(P)
    <3> DEFINE x == BLOCK * k
    <3>1. x \in Nat
      BY <1>2
    <3> HIDE DEF x
    <3>2. x <= x
      BY <3>1
    <3> QED BY <1>1, <3>2, Zenon DEF x
  <2> HIDE DEF P
  <2> QED BY <1>1, <2>1, PartBlock, Zenon
<1>5. Sha(m) = [i \in 1 .. DIGEST |-> <<"digest", [b \in 1 .. Len(P) \div BLOCK |-> part(b)], i>>]
  BY Zenon DEF Sha
<1> HIDE DEF P, part
<1>6. [b \in 1 .. Len(P) \div BLOCK |-> part(b)] = SHA256_Pad(c)
  <2>1. [b \in 1 .. k |-> part(b)] = Blocks(P, k)
    BY <1>4, Zenon DEF Blocks
  <2> QED BY <1>1, <1>3, <2>1, Zenon
<1> DEFINE S == SHA256_Pad(c)
<1>7. SHA256_Final(c) = [i \in 1 .. DIGEST |-> <<"digest", S, i>>]
  BY Zenon DEF SHA256_Final
<1> HIDE DEF S
<1> QED BY <1>5, <1>6, <1>7, Zenon DEF S

(* Nothing in front of a sequence, and nothing behind it.                  *)
LEMMA JoinNothing ==
  /\ IsSeq(<<>>) /\ Len(<<>>) = 0
  /\ \A s : IsSeq(s) => <<>> \o s = s /\ s \o <<>> = s
<1>1. IsSeq(<<>>) /\ Len(<<>>) = 0
  <2>1. <<>> \in Seq({0}) /\ Len(<<>>) = 0
    OBVIOUS
  <2> QED BY <2>1, SeqFrom, Zenon
<1> DEFINE o == <<>>
<1> HIDE DEF o
<1>2. IsSeq(o) /\ Len(o) = 0
  BY <1>1, Zenon DEF o
<1>3. ASSUME NEW s, IsSeq(s) PROVE o \o s = s /\ s \o o = s
  <2> DEFINE n == Len(s)
             u == o \o s
             v == s \o o
  <2>1. n \in Nat /\ n = Len(s)
    BY <1>3, Zenon DEF IsSeq
  <2>2. Joins(o, s, u) /\ Joins(s, o, v)
    BY <1>2, <1>3, JoinsAre, Zenon
  <2>3. /\ IsSeq(u) /\ Len(u) = 0 + n /\ \A j \in 1 .. n : u[0 + j] = s[j]
        /\ IsSeq(v) /\ Len(v) = n + 0 /\ \A j \in 1 .. n : v[j] = s[j]
    <3> HIDE DEF u, v
    <3> QED BY <1>2, <2>2, Zenon DEF Joins
  <2>4. 0 + n = n /\ n + 0 = n /\ \A j \in 1 .. n : 0 + j = j
    <3> HIDE DEF n
    <3> QED BY ONLY <2>1
  <2> HIDE DEF n, u, v
  <2>5. IsSeq(u) /\ Len(u) = n /\ \A j \in 1 .. n : u[j] = s[j]
    BY <2>3, <2>4, Zenon
  <2>6. IsSeq(v) /\ Len(v) = n /\ \A j \in 1 .. n : v[j] = s[j]
    BY <2>3, <2>4, Zenon
  <2>7. u = s
    BY <1>3, <2>1, <2>5, SameSeq, Zenon
  <2>8. v = s
    BY <1>3, <2>1, <2>6, SameSeq, Zenon
  <2> QED BY <2>7, <2>8, Zenon DEF u, v
<1> QED BY <1>1, <1>3, Zenon DEF o

(* Concatenation is associative.                                           *)
LEMMA JoinThree ==
  ASSUME NEW s, NEW t, NEW u, IsSeq(s), IsSeq(t), IsSeq(u)
  PROVE  (s \o t) \o u = s \o (t \o u)
<1> DEFINE a == Len(s)
           b == Len(t)
           d == Len(u)
           st == s \o t
           tu == t \o u
           l == st \o u
           r == s \o tu
<1>1. a \in Nat /\ b \in Nat /\ d \in Nat
  BY Zenon DEF IsSeq
<1>2. /\ IsSeq(st) /\ Len(st) = a + b
      /\ \A i \in 1 .. a + b : st[i] = IF i <= a THEN s[i] ELSE t[i - a]
  BY Joined, Zenon
<1>3. /\ IsSeq(tu) /\ Len(tu) = b + d
      /\ \A i \in 1 .. b + d : tu[i] = IF i <= b THEN t[i] ELSE u[i - b]
  BY Joined, Zenon
<1> HIDE DEF st, tu
<1>4. /\ IsSeq(l) /\ Len(l) = (a + b) + d
      /\ \A i \in 1 .. (a + b) + d : l[i] = IF i <= a + b THEN st[i] ELSE u[i - (a + b)]
  <2>1. /\ IsSeq(l) /\ Len(l) = Len(st) + d
        /\ \A i \in 1 .. Len(st) + d : l[i] = IF i <= Len(st) THEN st[i] ELSE u[i - Len(st)]
    BY <1>2, Joined, Zenon
  <2> HIDE DEF l
  <2> QED BY <1>2, <2>1, Zenon
<1>5. /\ IsSeq(r) /\ Len(r) = a + (b + d)
      /\ \A i \in 1 .. a + (b + d) : r[i] = IF i <= a THEN s[i] ELSE tu[i - a]
  <2>1. /\ IsSeq(r) /\ Len(r) = a + Len(tu)
        /\ \A i \in 1 .. a + Len(tu) : r[i] = IF i <= a THEN s[i] ELSE tu[i - a]
    BY <1>3, Joined, Zenon
  <2> HIDE DEF r
  <2> QED BY <1>3, <2>1, Zenon
<1> HIDE DEF a, b, d, l, r
<1>6. (a + b) + d = a + (b + d)
  BY <1>1
<1>7. ASSUME NEW i \in 1 .. (a + b) + d PROVE l[i] = r[i]
  <2>0. i \in 1 .. a + (b + d)
    BY <1>6, Zenon
  <2>1. CASE i <= a
    <3>1. i <= a + b /\ i \in 1 .. a + b
      BY <1>1, <2>1
    <3> QED BY <1>2, <1>4, <1>5, <2>0, <2>1, <3>1, Zenon
  <2>2. CASE ~(i <= a) /\ i <= a + b
    <3>1. i \in 1 .. a + b /\ i - a \in 1 .. b + d /\ i - a <= b
      BY <1>1, <2>2
    <3> QED BY <1>2, <1>3, <1>4, <1>5, <2>0, <2>2, <3>1, Zenon
  <2>3. CASE ~(i <= a) /\ ~(i <= a + b)
    <3>1. i - a \in 1 .. b + d /\ ~(i - a <= b) /\ (i - a) - b = i - (a + b)
      BY <1>1, <2>3
    <3> QED BY <1>3, <1>4, <1>5, <2>0, <2>3, <3>1, Zenon
  <2> QED BY <2>1, <2>2, <2>3, Zenon
<1>8. l = r
  BY <1>4, <1>5, <1>6, <1>7, SameSeq, Zenon
<1> QED BY <1>8, Zenon DEF l, r, st, tu

(* A new context has absorbed nothing.                                     *)
LEMMA InitIs == Absorbed(SHA256_Init, <<>>)
<1> DEFINE b == [i \in 1 .. BLOCK |-> <<"undefined">>]
           o == <<>>
<1>1. BLOCK \in Nat \ {0}
  BY ShaAssumption
<1>2. 0 \div BLOCK = 0 /\ 0 % BLOCK = 0
  <2>1. 0 \in 0 .. (BLOCK - 1) /\ BLOCK * 0 + 0 = 0 /\ 0 \in Nat
    BY <1>1
  <2>2. (BLOCK * 0 + 0) \div BLOCK = 0 /\ (BLOCK * 0 + 0) % BLOCK = 0
    BY <1>1, <2>1, DivModUnique, Zenon
  <2> QED BY <2>1, <2>2, Zenon
<1>3. IsSeq(o) /\ Len(o) = 0
  BY JoinNothing, Zenon
<1>4. Blocks(o, 0) = o
  <2> HIDE DEF o
  <2>1. IsSeq(Blocks(o, 0)) /\ Len(Blocks(o, 0)) = 0
    BY BlocksAre, 0 \in Nat, Zenon
  <2>2. ASSUME NEW i \in 1 .. 0 PROVE Blocks(o, 0)[i] = o[i]
    <3>1. FALSE
      OBVIOUS
    <3> QED BY <3>1
  <2> QED BY <1>3, <2>1, <2>2, SameSeq, Zenon
<1> DEFINE c == SHA256_Init
<1>5. c = [state |-> o, count |-> 0, buf |-> b]
  BY Zenon DEF SHA256_Init
<1> HIDE DEF c, b, o
<1>6. c.buf = b
  BY <1>5
<1>7. c = [state |-> Blocks(o, 0), count |-> 0, buf |-> c.buf]
  BY <1>4, <1>5, <1>6, Zenon
<1>8. \A i \in 1 .. 0 : c.buf[i] = o[BLOCK * 0 + i]
  OBVIOUS
<1>9. Absorbed(c, o)
  BY <1>2, <1>3, <1>7, <1>8, Zenon DEF Absorbed
<1> QED BY <1>9, Zenon DEF c, o

(* A first call.                                                           *)
LEMMA FirstUpdate ==
  ASSUME NEW in, IsSeq(in)
  PROVE  Absorbed(SHA256_Update(SHA256_Init, in), in)
<1>1. Absorbed(SHA256_Update(SHA256_Init, in), <<>> \o in)
  BY InitIs, JoinNothing, UpdateIs, Zenon
<1> QED BY <1>1, JoinNothing, Zenon

(* All in one call.                                                        *)
LEMMA BufIs ==
  ASSUME NEW in, IsSeq(in)
  PROVE  SHA256_Buf(in) = Sha(in)
BY FirstUpdate, FinalIs, Zenon DEF SHA256_Buf

-----------------------------------------------------------------------------
(* Sha256: HMAC.                                                           *)

(* The key, or its digest if it is longer than a block.                    *)
HmacKey(k) == IF Len(k) > BLOCK THEN Sha(k) ELSE k

(* The context h is what it has to be for the key k after the input m.     *)
Hashing(h, k, m) ==
    /\ h = [ictx |-> h.ictx, octx |-> h.octx]
    /\ Absorbed(h.ictx, Keyed("0x36", HmacKey(k)) \o m)
    /\ Absorbed(h.octx, Keyed("0x5c", HmacKey(k)))

(* A key that was combined with a constant is a sequence.                  *)
LEMMA KeyedSeq ==
  ASSUME NEW const, NEW K
  PROVE  IsSeq(Keyed(const, K))
<1> DEFINE f == Keyed(const, K)
<1>1. f = [i \in 1 .. BLOCK |-> f[i]]
  BY Zenon DEF Keyed
<1>2. BLOCK \in Nat
  BY ShaAssumption
<1> HIDE DEF f
<1>3. IsSeq(f)
  BY <1>1, <1>2, SeqMade, Zenon
<1> QED BY <1>3, Zenon DEF f

(* HMAC_SHA256_Init has put in the key alone.                              *)
LEMMA HmacInit ==
  ASSUME NEW k, IsSeq(k)
  PROVE  Hashing(HMAC_SHA256_Init(k), k, <<>>)
<1> DEFINE K == HmacKey(k)
           i == SHA256_Update(SHA256_Init, Keyed("0x36", K))
           o == SHA256_Update(SHA256_Init, Keyed("0x5c", K))
           h == HMAC_SHA256_Init(k)
<1>1. (IF Len(k) > BLOCK THEN SHA256_Buf(k) ELSE k) = K
  BY BufIs, Zenon DEF HmacKey
<1>2. h = [ictx |-> i, octx |-> o]
  <2> HIDE DEF K
  <2> QED BY <1>1, Zenon DEF HMAC_SHA256_Init
<1>3. Absorbed(i, Keyed("0x36", K)) /\ Absorbed(o, Keyed("0x5c", K))
  <2> HIDE DEF K
  <2> QED BY KeyedSeq, FirstUpdate, Zenon
<1>4. Keyed("0x36", K) \o <<>> = Keyed("0x36", K)
  <2> DEFINE a == Keyed("0x36", K)
  <2>1. IsSeq(a)
    BY KeyedSeq, Zenon
  <2> HIDE DEF a
  <2>2. a \o <<>> = a
    BY <2>1, JoinNothing, Zenon
  <2> QED BY <2>2, Zenon DEF a
<1> HIDE DEF i, o, h
<1>5. h.ictx = i /\ h.octx = o
  BY <1>2
<1>6. Hashing(h, k, <<>>)
  <2> HIDE DEF K
  <2>1. h = [ictx |-> h.ictx, octx |-> h.octx]
    BY <1>2, <1>5, Zenon
  <2>2. Absorbed(h.ictx, Keyed("0x36", K) \o <<>>)
    BY <1>3, <1>4, <1>5, Zenon
  <2>3. Absorbed(h.octx, Keyed("0x5c", K))
    BY <1>3, <1>5, Zenon
  <2> QED BY <2>1, <2>2, <2>3, Zenon DEF Hashing, K
<1> QED BY <1>6, Zenon DEF h

(* HMAC_SHA256_Update puts its input behind what was there.                *)
LEMMA HmacUpdate ==
  ASSUME NEW h, NEW k, NEW m, NEW in, IsSeq(m), IsSeq(in), Hashing(h, k, m)
  PROVE  Hashing(HMAC_SHA256_Update(h, in), k, m \o in)
<1> DEFINE a == Keyed("0x36", HmacKey(k))
           i == SHA256_Update(h.ictx, in)
           o == h.octx
           g == HMAC_SHA256_Update(h, in)
<1>1. IsSeq(a)
  BY KeyedSeq, Zenon
<1>2. h = [ictx |-> h.ictx, octx |-> o] /\ Absorbed(h.ictx, a \o m) /\ Absorbed(o, Keyed("0x5c", HmacKey(k)))
  BY Zenon DEF Hashing
<1> HIDE DEF a
<1>3. Absorbed(i, a \o (m \o in))
  <2>1. IsSeq(a \o m)
    BY <1>1, Joined, Zenon
  <2>2. Absorbed(i, (a \o m) \o in)
    <3> DEFINE b == a \o m
               d == h.ictx
    <3>1. IsSeq(b) /\ Absorbed(d, b)
      BY <1>2, <2>1, Zenon
    <3> HIDE DEF b, d
    <3>2. Absorbed(SHA256_Update(d, in), b \o in)
      BY ONLY <3>1, IsSeq(in), UpdateIs, Zenon
    <3> QED BY <3>2, Zenon DEF b, d
  <2>3. (a \o m) \o in = a \o (m \o in)
    BY ONLY <1>1, IsSeq(m), IsSeq(in), JoinThree
  <2> QED BY <2>2, <2>3, Zenon
<1>4. g = [h EXCEPT !.ictx = i]
  BY Zenon DEF HMAC_SHA256_Update
<1> HIDE DEF i, g
<1>5. g = [ictx |-> i, octx |-> o]
  <2> DEFINE e == h.ictx
  <2>1. h = [ictx |-> e, octx |-> o]
    BY <1>2, Zenon
  <2> HIDE DEF e, o
  <2> QED BY <1>4, <2>1
<1> HIDE DEF o
<1>6. g.ictx = i /\ g.octx = o
  BY <1>5
<1>7. Hashing(g, k, m \o in)
  <2>1. g = [ictx |-> g.ictx, octx |-> g.octx]
    BY <1>5, <1>6, Zenon
  <2>2. Absorbed(g.ictx, a \o (m \o in)) /\ Absorbed(g.octx, Keyed("0x5c", HmacKey(k)))
    BY <1>2, <1>3, <1>6, Zenon
  <2> QED BY <2>1, <2>2, Zenon DEF Hashing, a
<1> QED BY <1>7, Zenon DEF g

(* HMAC_SHA256_Final computes what RFC 2104 says.                          *)
LEMMA HmacFinal ==
  ASSUME NEW h, NEW k, NEW m, IsSeq(m), Hashing(h, k, m)
  PROVE  HMAC_SHA256_Final(h) = Hmac(k, m)
<1> DEFINE a == Keyed("0x36", HmacKey(k))
           b == Keyed("0x5c", HmacKey(k))
<1>1. IsSeq(a) /\ IsSeq(b)
  BY KeyedSeq, Zenon
<1>2. Absorbed(h.ictx, a \o m) /\ Absorbed(h.octx, b)
  BY Zenon DEF Hashing
<1>3. Hmac(k, m) = Sha(b \o Sha(a \o m))
  BY Zenon DEF Hmac, HmacKey
<1> HIDE DEF a, b
<1>4. SHA256_Final(h.ictx) = Sha(a \o m)
  BY <1>1, <1>2, Joined, FinalIs, Zenon
<1> DEFINE s == Sha(a \o m)
<1>5. IsSeq(s)
  BY ShaSeq, Zenon
<1> HIDE DEF s
<1>6. Absorbed(SHA256_Update(h.octx, s), b \o s) /\ IsSeq(b \o s)
  BY <1>1, <1>2, <1>5, UpdateIs, Zenon
<1>7. SHA256_Final(SHA256_Update(h.octx, s)) = Sha(b \o s)
  BY <1>6, FinalIs, Zenon
<1>8. HMAC_SHA256_Final(h) = SHA256_Final(SHA256_Update(h.octx, SHA256_Final(h.ictx)))
  BY Zenon DEF HMAC_SHA256_Final
<1>9. HMAC_SHA256_Final(h) = SHA256_Final(SHA256_Update(h.octx, s))
  BY <1>4, <1>8, Zenon DEF s
<1> QED BY <1>3, <1>7, <1>9, Zenon DEF s

(* A keyed digest has the length of a digest.                              *)
LEMMA HmacSeq ==
  ASSUME NEW k, NEW m
  PROVE  IsSeq(Hmac(k, m)) /\ Len(Hmac(k, m)) = DIGEST
<1> DEFINE K == IF Len(k) > BLOCK THEN Sha(k) ELSE k
           x == Keyed("0x5c", K) \o Sha(Keyed("0x36", K) \o m)
<1>1. Hmac(k, m) = Sha(x)
  BY Zenon DEF Hmac
<1> HIDE DEF x
<1>2. IsSeq(Sha(x)) /\ Len(Sha(x)) = DIGEST
  BY ShaSeq, Zenon
<1> QED BY <1>1, <1>2, Zenon

(* The input m in a call of its own behind what h has seen.                *)
LEMMA HmacOnce ==
  ASSUME NEW h, NEW k, NEW m, NEW in, IsSeq(m), IsSeq(in), Hashing(h, k, m)
  PROVE  HMAC_SHA256_Final(HMAC_SHA256_Update(h, in)) = Hmac(k, m \o in)
<1> DEFINE g == HMAC_SHA256_Update(h, in)
           l == m \o in
<1>1. Hashing(g, k, l)
  BY HmacUpdate, Zenon
<1>2. IsSeq(l)
  BY Joined, Zenon
<1> HIDE DEF g, l
<1>3. HMAC_SHA256_Final(g) = Hmac(k, l)
  BY ONLY <1>1, <1>2, HmacFinal, Zenon
<1> QED BY <1>3, Zenon DEF g, l

-----------------------------------------------------------------------------
(* Sha256: the rounds of PBKDF2.                                           *)

(* U_1 .. U_(n + 1), of a key and U_1.                                     *)
RfcRun(k, x, n, g) == g = [j \in 0 .. n |-> IF j = 0 THEN x ELSE Hmac(k, g[j - 1])]

RunSteps(k, x, n, g) == \A j \in 0 .. n : g[j] = IF j = 0 THEN x ELSE Hmac(k, g[j - 1])

(* One value from the one before.                                          *)
LEMMA RunStep ==
  ASSUME NEW k, NEW x, NEW n, NEW g, RfcRun(k, x, n, g)
  PROVE  RunSteps(k, x, n, g)
<1> DEFINE h == [i \in 0 .. n |-> IF i = 0 THEN x ELSE Hmac(k, g[i - 1])]
<1>1. g = h
  BY Zenon DEF RfcRun
<1>2. \A j \in 0 .. n : h[j] = IF j = 0 THEN x ELSE Hmac(k, g[j - 1])
  BY Zenon
<1> HIDE DEF h
<1> QED BY <1>1, <1>2, Zenon DEF RunSteps

(* There are such values,                                                  *)
LEMMA RunExists ==
  ASSUME NEW k, NEW x
  PROVE  \A n \in Nat : \E g : RfcRun(k, x, n, g)
<1> DEFINE E == {n \in Nat : \E g : RfcRun(k, x, n, g)}
<1>1. 0 \in E
  <2> DEFINE g == [j \in 0 .. 0 |-> x]
  <2>1. ASSUME NEW j \in 0 .. 0 PROVE j = 0
    OBVIOUS
  <2>2. RfcRun(k, x, 0, g)
    BY <2>1, Zenon DEF RfcRun
  <2> HIDE DEF g
  <2> QED BY <2>2, 0 \in Nat, Zenon
<1>2. ASSUME NEW n \in Nat, n \in E PROVE n + 1 \in E
  <2>1. PICK g : RfcRun(k, x, n, g)
    BY <1>2, Zenon
  <2>0. RunSteps(k, x, n, g)
    BY ONLY <2>1, RunStep, Zenon
  <2> DEFINE h == [j \in 0 .. n + 1 |-> IF j = n + 1 THEN Hmac(k, g[n]) ELSE g[j]]
  <2>2. ASSUME NEW j \in 0 .. n + 1 PROVE h[j] = IF j = 0 THEN x ELSE Hmac(k, h[j - 1])
    <3>1. CASE j = n + 1
      <4>1. j # 0 /\ j - 1 = n /\ n \in 0 .. n + 1 /\ n # n + 1
        BY <3>1
      <4>2. h[j] = Hmac(k, g[n]) /\ h[n] = g[n]
        BY <3>1, <4>1, Zenon
      <4> HIDE DEF h
      <4> QED BY <4>1, <4>2, Zenon
    <3>2. CASE j # n + 1 /\ j = 0
      <4>1. j \in 0 .. n
        BY <3>2
      <4>2. g[j] = x
        BY <2>0, <3>2, <4>1, Zenon DEF RunSteps
      <4> QED BY <3>2, <4>2, Zenon
    <3>3. CASE j # n + 1 /\ j # 0
      <4>1. j \in 0 .. n /\ j - 1 \in 0 .. n + 1 /\ j - 1 # n + 1
        BY <3>3
      <4>2. g[j] = Hmac(k, g[j - 1])
        BY <2>0, <3>3, <4>1, Zenon DEF RunSteps
      <4>3. h[j] = g[j] /\ h[j - 1] = g[j - 1]
        BY <3>3, <4>1, Zenon
      <4> HIDE DEF h
      <4> QED BY <3>3, <4>2, <4>3, Zenon
    <3> QED BY <3>1, <3>2, <3>3, Zenon
  <2>3. h = [j \in 0 .. n + 1 |-> h[j]]
    BY Zenon
  <2> HIDE DEF h
  <2>4. RfcRun(k, x, n + 1, h)
    BY <2>2, <2>3, Zenon DEF RfcRun
  <2>5. n + 1 \in Nat
    OBVIOUS
  <2> QED BY <2>4, <2>5, Zenon
<1> HIDE DEF E
<1>3. \A n \in Nat : n \in E
  BY <1>1, <1>2, SetInduction, Zenon
<1> QED BY <1>3, Zenon DEF E

(* and a longer run of them starts with a shorter one.                     *)
LEMMA RunSame ==
  ASSUME NEW k, NEW x, NEW n \in Nat, NEW l \in Nat, n <= l, NEW g, NEW h,
         RfcRun(k, x, n, g), RfcRun(k, x, l, h)
  PROVE  \A j \in 0 .. n : g[j] = h[j]
<1>0. RunSteps(k, x, n, g) /\ RunSteps(k, x, l, h)
  BY RunStep, Zenon
<1> DEFINE E == {j \in Nat : j <= n => g[j] = h[j]}
<1>1. 0 \in E
  <2>1. 0 \in 0 .. n /\ 0 \in 0 .. l /\ 0 \in Nat
    OBVIOUS
  <2>2. g[0] = x
    BY ONLY <1>0, <2>1, Zenon DEF RunSteps
  <2>3. h[0] = x
    BY ONLY <1>0, <2>1, Zenon DEF RunSteps
  <2> QED BY <2>1, <2>2, <2>3, Zenon
<1>2. ASSUME NEW j \in Nat, j \in E PROVE j + 1 \in E
  <2> SUFFICES ASSUME j + 1 <= n PROVE g[j + 1] = h[j + 1]
    OBVIOUS
  <2>1. j + 1 \in 0 .. n /\ j + 1 \in 0 .. l /\ j + 1 # 0 /\ (j + 1) - 1 = j /\ j <= n
    OBVIOUS
  <2>2. g[j] = h[j]
    BY <1>2, <2>1, Zenon
  <2> HIDE DEF E
  <2>3. g[j + 1] = Hmac(k, g[j])
    BY ONLY <1>0, <2>1, Zenon DEF RunSteps
  <2>4. h[j + 1] = Hmac(k, h[j])
    BY ONLY <1>0, <2>1, Zenon DEF RunSteps
  <2> QED BY <2>2, <2>3, <2>4, Zenon
<1> HIDE DEF E
<1>3. \A j \in Nat : j \in E
  BY <1>1, <1>2, SetInduction, Zenon
<1>4. ASSUME NEW j \in 0 .. n PROVE g[j] = h[j]
  <2>1. j \in Nat /\ j <= n
    OBVIOUS
  <2> QED BY <1>3, <2>1, Zenon DEF E
<1> QED BY <1>4, Zenon

(* The values that the standard names, one from the other.                 *)
LEMMA RfcIs ==
  ASSUME NEW k, NEW salt, NEW i
  PROVE  /\ RfcU(k, salt, i, 1) = Hmac(k, salt \o INT(i))
         /\ \A j \in Nat \ {0} : RfcU(k, salt, i, j + 1) = Hmac(k, RfcU(k, salt, i, j))
<1> DEFINE x == Hmac(k, salt \o INT(i))
           r(n) == CHOOSE g : RfcRun(k, x, n, g)
<1>1. \A j : RfcU(k, salt, i, j) = r(j - 1)[j - 1]
  BY Zenon DEF RfcU, RfcRun
<1> HIDE DEF x
<1>2. \A n \in Nat : RfcRun(k, x, n, r(n))
  BY RunExists, Zenon
<1> HIDE DEF r
<1>0. \A n \in Nat : RunSteps(k, x, n, r(n))
  BY ONLY <1>2, RunStep, Zenon
<1>3. RfcU(k, salt, i, 1) = x
  <2>1. 1 - 1 = 0 /\ 0 \in Nat /\ 0 \in 0 .. 0
    OBVIOUS
  <2>2. r(0)[0] = x
    BY <1>0, <2>1, Zenon DEF RunSteps
  <2> QED BY <1>1, <2>1, <2>2, Zenon
<1>4. ASSUME NEW j \in Nat \ {0} PROVE RfcU(k, salt, i, j + 1) = Hmac(k, RfcU(k, salt, i, j))
  <2> DEFINE n == j - 1
  <2>1. n \in Nat /\ j \in Nat /\ (j + 1) - 1 = j /\ n <= j /\ n \in 0 .. n /\ j \in 0 .. j /\ j # 0
    OBVIOUS
  <2>2. RfcU(k, salt, i, j) = r(n)[n] /\ RfcU(k, salt, i, j + 1) = r(j)[j]
    BY <1>1, <2>1, Zenon
  <2>3. RfcRun(k, x, j, r(j)) /\ RfcRun(k, x, n, r(n))
    BY <1>2, <2>1, Zenon
  <2>4. r(j)[j] = Hmac(k, r(j)[n])
    BY <1>0, <2>1, Zenon DEF RunSteps
  <2> HIDE DEF n
  <2>5. \A e \in 0 .. n : r(n)[e] = r(j)[e]
    <3> DEFINE g == r(n)
               h == r(j)
    <3>1. n \in Nat /\ j \in Nat /\ n <= j /\ RfcRun(k, x, n, g) /\ RfcRun(k, x, j, h)
      BY ONLY <2>1, <2>3, Zenon
    <3> HIDE DEF g, h
    <3>2. \A e \in 0 .. n : g[e] = h[e]
      BY ONLY <3>1, RunSame
    <3> QED BY ONLY <3>2, Zenon DEF g, h
  <2> QED BY <2>1, <2>2, <2>4, <2>5, Zenon
<1> QED BY <1>3, <1>4, Zenon DEF x

(* They are digests.                                                       *)
LEMMA RfcSeq ==
  ASSUME NEW k, NEW salt, NEW i, NEW j \in Nat \ {0}
  PROVE  IsSeq(RfcU(k, salt, i, j))
<1>1. CASE j = 1
  <2>1. RfcU(k, salt, i, 1) = Hmac(k, salt \o INT(i))
    BY RfcIs, Zenon
  <2> QED BY <1>1, <2>1, HmacSeq, Zenon
<1>2. CASE j # 1
  <2> DEFINE n == j - 1
  <2>1. n \in Nat \ {0} /\ n + 1 = j
    BY <1>2
  <2> HIDE DEF n
  <2>2. RfcU(k, salt, i, n + 1) = Hmac(k, RfcU(k, salt, i, n))
    BY <2>1, RfcIs, Zenon
  <2> QED BY <2>1, <2>2, HmacSeq, Zenon
<1> QED BY <1>1, <1>2, Zenon

(* The byte n of U_1 .. U_j, combined.                                     *)
TUp(k, salt, i, j, n) == [l \in 1 .. j |-> RfcU(k, salt, i, l)[n]]

TUpShape(k, salt, i, j, n, t) ==
    IsSeq(t) /\ Len(t) = j /\ \A l \in 1 .. j : t[l] = RfcU(k, salt, i, l)[n]

(* The combination is the sequence of those bytes,                         *)
LEMMA TUpSeq ==
  ASSUME NEW k, NEW salt, NEW i, NEW j \in Nat, NEW n
  PROVE  TUpShape(k, salt, i, j, n, TUp(k, salt, i, j, n))
<1> DEFINE f == TUp(k, salt, i, j, n)
<1>1. f = [l \in 1 .. j |-> f[l]] /\ \A l \in 1 .. j : f[l] = RfcU(k, salt, i, l)[n]
  BY Zenon DEF TUp
<1> HIDE DEF f
<1>2. IsSeq(f) /\ Len(f) = j
  BY <1>1, SeqMade, Zenon
<1>3. TUpShape(k, salt, i, j, n, f)
  BY <1>1, <1>2, Zenon DEF TUpShape
<1> QED BY <1>3, Zenon DEF f

(* grows with another value,                                               *)
LEMMA TUpGrow ==
  ASSUME NEW k, NEW salt, NEW i, NEW j \in Nat, NEW n
  PROVE  Append(TUp(k, salt, i, j, n), RfcU(k, salt, i, j + 1)[n]) = TUp(k, salt, i, j + 1, n)
<1> DEFINE s == TUp(k, salt, i, j, n)
           x == RfcU(k, salt, i, j + 1)[n]
           t == TUp(k, salt, i, j + 1, n)
           a == Append(s, x)
<1>1. j + 1 \in Nat /\ j + 1 \in 1 .. j + 1
  OBVIOUS
<1>2. IsSeq(s) /\ Len(s) = j /\ \A l \in 1 .. j : s[l] = RfcU(k, salt, i, l)[n]
  <2>1. TUpShape(k, salt, i, j, n, s)
    BY ONLY TUpSeq, j \in Nat, Zenon
  <2> HIDE DEF s
  <2> QED BY <2>1, Zenon DEF TUpShape
<1>3. IsSeq(t) /\ Len(t) = j + 1 /\ \A l \in 1 .. j + 1 : t[l] = RfcU(k, salt, i, l)[n]
  <2>1. TUpShape(k, salt, i, j + 1, n, t)
    BY ONLY TUpSeq, <1>1, Zenon
  <2> HIDE DEF t
  <2> QED BY <2>1, Zenon DEF TUpShape
<1>4. t[j + 1] = x
  BY <1>1, <1>3, Zenon
<1> HIDE DEF s, x, t
<1>5. /\ IsSeq(a) /\ Len(a) = j + 1 /\ \A l \in 1 .. j : a[l] = s[l]
      /\ a[j + 1] = x
  <2>1. /\ IsSeq(a) /\ Len(a) = Len(s) + 1
        /\ \A l \in 1 .. Len(s) : a[l] = s[l]
        /\ a[Len(s) + 1] = x
    BY ONLY <1>2, Appended
  <2> HIDE DEF a
  <2> QED BY <1>2, <2>1, Zenon
<1> HIDE DEF a
<1>6. ASSUME NEW l \in 1 .. j + 1 PROVE a[l] = t[l]
  <2>1. CASE l = j + 1
    BY <1>4, <1>5, <2>1, Zenon
  <2>2. CASE l # j + 1
    <3>1. l \in 1 .. j
      BY <2>2
    <3> QED BY <1>2, <1>3, <1>5, <3>1, Zenon
  <2> QED BY <2>1, <2>2, Zenon
<1>7. a = t
  BY <1>3, <1>5, <1>6, SameSeq, Zenon
<1> QED BY <1>7, Zenon DEF s, x, t, a

(* and starts with the first.                                              *)
LEMMA TUpFirst ==
  ASSUME NEW k, NEW salt, NEW i, NEW n
  PROVE  <<RfcU(k, salt, i, 1)[n]>> = TUp(k, salt, i, 1, n)
<1> DEFINE x == RfcU(k, salt, i, 1)[n]
           t == TUp(k, salt, i, 1, n)
           s == <<x>>
<1>1. IsSeq(t) /\ Len(t) = 1 /\ \A l \in 1 .. 1 : t[l] = RfcU(k, salt, i, l)[n]
  <2>1. TUpShape(k, salt, i, 1, n, t)
    BY ONLY TUpSeq, 1 \in Nat, Zenon
  <2> HIDE DEF t
  <2> QED BY <2>1, Zenon DEF TUpShape
<1>2. t[1] = x
  BY <1>1, 1 \in 1 .. 1, Zenon
<1> HIDE DEF x, t
<1>3. s \in Seq({x}) /\ Len(s) = 1 /\ s[1] = x
  BY ONLY TRUE
<1> HIDE DEF s
<1>4. IsSeq(s)
  BY <1>3, SeqFrom, Zenon
<1>5. ASSUME NEW l \in 1 .. 1 PROVE s[l] = t[l]
  <2>1. l = 1
    OBVIOUS
  <2> QED BY <1>2, <1>3, <2>1, Zenon
<1>6. s = t
  BY <1>1, <1>3, <1>4, <1>5, SameSeq, Zenon
<1> QED BY <1>6, Zenon DEF s, t, x

(* What the rounds start with, and T after c of them.                      *)
RoundsStart(k, salt, Ph, PSh, c) ==
    IsSeq(salt) /\ Hashing(Ph, k, <<>>) /\ Hashing(PSh, k, salt) /\ c \in Nat \ {0}
RoundsEnd(k, salt, Ph, PSh, i, c) ==
    Rounds(Ph, PSh, i, c).T = [n \in 1 .. DIGEST |-> TUp(k, salt, i, c, n)]

(* The rounds compute the combinations, of any block.                      *)
LEMMA RoundsIs ==
  ASSUME NEW k, NEW salt, NEW Ph, NEW PSh, NEW i, NEW c, RoundsStart(k, salt, Ph, PSh, c)
  PROVE  RoundsEnd(k, salt, Ph, PSh, i, c)
<1> SUFFICES Rounds(Ph, PSh, i, c).T = [n \in 1 .. DIGEST |-> TUp(k, salt, i, c, n)]
  BY Zenon DEF RoundsEnd
<1> IsSeq(salt) /\ Hashing(Ph, k, <<>>)
  BY Zenon DEF RoundsStart
<1> Hashing(PSh, k, salt)
  BY Zenon DEF RoundsStart
<1> c \in Nat \ {0}
  BY Zenon DEF RoundsStart
<1> DEFINE U(j) == RfcU(k, salt, i, j)
           T(j) == [n \in 1 .. DIGEST |-> TUp(k, salt, i, j, n)]
           val(j) == [U |-> U(j + 1), T |-> T(j + 1)]
           U1 == HMAC_SHA256_Final(HMAC_SHA256_Update(PSh, INT(i)))
           start == [U |-> U1, T |-> [n \in 1 .. DIGEST |-> <<U1[n]>>]]
           Eq(v) == v = [j \in 0 .. c - 1 |-> IF j = 0 THEN start ELSE Round(Ph, v[j - 1])]
           g == [j \in 0 .. c - 1 |-> val(j)]
           v == CHOOSE u : Eq(u)
<1>1. Rounds(Ph, PSh, i, c) = v[c - 1]
  BY Zenon DEF Rounds
<1>2. U1 = U(1)
  <2>1. IsSeq(INT(i))
    <3> DEFINE f == INT(i)
    <3>1. f = [l \in 1 .. 4 |-> f[l]]
      BY Zenon DEF INT
    <3> HIDE DEF f
    <3>2. IsSeq(f)
      BY <3>1, 4 \in Nat, SeqMade, Zenon
    <3> QED BY <3>2, Zenon DEF f
  <2>2. U1 = Hmac(k, salt \o INT(i))
    BY ONLY <2>1, IsSeq(salt), Hashing(PSh, k, salt), HmacOnce
  <2> QED BY <2>2, RfcIs, Zenon
<1> HIDE DEF U1
<1>3. start = val(0)
  <2>1. 0 + 1 = 1
    OBVIOUS
  <2>2. ASSUME NEW n PROVE <<U1[n]>> = TUp(k, salt, i, 1, n)
    BY <1>2, TUpFirst, Zenon
  <2>3. [n \in 1 .. DIGEST |-> <<U1[n]>>] = T(1)
    BY <2>2, Zenon
  <2> HIDE DEF T, U
  <2> QED BY <1>2, <2>1, <2>3, Zenon
<1>4. ASSUME NEW j \in Nat \ {0} PROVE Round(Ph, val(j - 1)) = val(j)
  <2> DEFINE w == val(j - 1)
             N == HMAC_SHA256_Final(HMAC_SHA256_Update(Ph, w.U))
  <2>1. (j - 1) + 1 = j /\ j \in Nat
    OBVIOUS
  <2>2. w = [U |-> U(j), T |-> T(j)]
    <3> HIDE DEF U, T
    <3> QED BY <2>1, Zenon
  <2>3. w.U = U(j) /\ w.T = T(j)
    <3> HIDE DEF U, T, w
    <3> QED BY <2>2
  <2>4. Round(Ph, w) = [U |-> N, T |-> Xor(w.T, N)]
    <3> HIDE DEF w
    <3> QED BY Zenon DEF Round
  <2>5. N = U(j + 1)
    <3>1. IsSeq(U(j))
      BY RfcSeq, Zenon
    <3>2. U(j + 1) = Hmac(k, U(j))
      BY RfcIs, Zenon
    <3> DEFINE u == U(j)
    <3> HIDE DEF u
    <3>3. HMAC_SHA256_Final(HMAC_SHA256_Update(Ph, u)) = Hmac(k, <<>> \o u)
      <4> DEFINE o == <<>>
      <4>1. IsSeq(u) /\ IsSeq(o) /\ Hashing(Ph, k, o)
        BY <3>1, JoinNothing, Zenon DEF u
      <4> HIDE DEF o
      <4>2. HMAC_SHA256_Final(HMAC_SHA256_Update(Ph, u)) = Hmac(k, o \o u)
        BY ONLY <4>1, HmacOnce
      <4> QED BY ONLY <4>2, Zenon DEF o
    <3>4. <<>> \o u = u
      BY ONLY <3>1, JoinNothing, Zenon DEF u
    <3>5. N = HMAC_SHA256_Final(HMAC_SHA256_Update(Ph, u))
      <4> HIDE DEF w
      <4> QED BY <2>3, Zenon DEF u
    <3> QED BY ONLY <3>2, <3>3, <3>4, <3>5, Zenon DEF u
  <2>6. Xor(T(j), U(j + 1)) = T(j + 1)
    <3>1. ASSUME NEW n \in 1 .. DIGEST PROVE Append(T(j)[n], U(j + 1)[n]) = TUp(k, salt, i, j + 1, n)
      <4>1. T(j)[n] = TUp(k, salt, i, j, n)
        BY Zenon
      <4> HIDE DEF T
      <4>2. Append(TUp(k, salt, i, j, n), U(j + 1)[n]) = TUp(k, salt, i, j + 1, n)
        <5>1. j \in Nat
          BY <2>1, Zenon
        <5> QED BY ONLY <5>1, TUpGrow
      <4> QED BY <4>1, <4>2, Zenon
    <3>2. Xor(T(j), U(j + 1)) = [n \in 1 .. DIGEST |-> Append(T(j)[n], U(j + 1)[n])]
      <4> HIDE DEF T, U
      <4> QED BY Zenon DEF Xor
    <3> HIDE DEF U
    <3> QED BY <3>1, <3>2, Zenon
  <2> HIDE DEF w, N, U, T
  <2>7. Round(Ph, w) = [U |-> U(j + 1), T |-> T(j + 1)]
    BY <2>3, <2>4, <2>5, <2>6, Zenon
  <2> QED BY <2>7, Zenon DEF w
<1> HIDE DEF val, start
<1>5. Eq(g)
  <2>1. ASSUME NEW j \in 0 .. c - 1 PROVE g[j] = IF j = 0 THEN start ELSE Round(Ph, g[j - 1])
    <3>1. CASE j = 0
      BY <1>3, <3>1, Zenon
    <3>2. CASE j # 0
      <4>1. j \in Nat \ {0} /\ j - 1 \in 0 .. c - 1
        BY <3>2
      <4> QED BY <1>4, <3>2, <4>1, Zenon
    <3> QED BY <3>1, <3>2, Zenon
  <2> QED BY <2>1, Zenon
<1> HIDE DEF g
<1>6. Eq(v)
  <2>1. \E u : Eq(u)
    BY <1>5, Zenon
  <2> QED BY <2>1, Zenon
<1> HIDE DEF v
<1>7. ASSUME NEW j \in 0 .. c - 1 PROVE v[j] = IF j = 0 THEN start ELSE Round(Ph, v[j - 1])
  <2> DEFINE h == [e \in 0 .. c - 1 |-> IF e = 0 THEN start ELSE Round(Ph, v[e - 1])]
  <2>1. v = h
    BY <1>6, Zenon
  <2>2. h[j] = IF j = 0 THEN start ELSE Round(Ph, v[j - 1])
    BY Zenon
  <2> HIDE DEF h
  <2> QED BY <2>1, <2>2, Zenon
<1> HIDE DEF Eq
<1> DEFINE E == {j \in Nat : j <= c - 1 => v[j] = val(j)}
<1>8. 0 \in E
  <2>1. 0 \in 0 .. c - 1 /\ 0 \in Nat
    OBVIOUS
  <2> QED BY <1>3, <1>7, <2>1, Zenon
<1>9. ASSUME NEW j \in Nat, j \in E PROVE j + 1 \in E
  <2> SUFFICES ASSUME j + 1 <= c - 1 PROVE v[j + 1] = val(j + 1)
    OBVIOUS
  <2>1. j + 1 \in Nat \ {0} /\ j + 1 \in 0 .. c - 1 /\ j + 1 # 0 /\ (j + 1) - 1 = j /\ j <= c - 1
    OBVIOUS
  <2>2. v[j] = val(j)
    BY <1>9, <2>1, Zenon
  <2> QED BY <1>4, <1>7, <2>1, <2>2, Zenon
<1> HIDE DEF E
<1>10. \A j \in Nat : j \in E
  BY <1>8, <1>9, SetInduction, Zenon
<1>11. v[c - 1] = val(c - 1)
  <2>1. c - 1 \in Nat /\ c - 1 <= c - 1
    OBVIOUS
  <2> QED BY <1>10, <2>1, Zenon DEF E
<1>12. val(c - 1) = [U |-> U(c), T |-> T(c)]
  <2>1. (c - 1) + 1 = c
    OBVIOUS
  <2> HIDE DEF U, T
  <2> QED BY <2>1, Zenon DEF val
<1>13. val(c - 1).T = T(c)
  <2> HIDE DEF U, T
  <2> QED BY <1>12
<1> QED BY <1>1, <1>11, <1>13, Zenon

(* How the output is cut into blocks of d bytes.                           *)
CutOk(d, len, blocks, i) ==
    /\ (i - 1) * d \in Nat /\ (i - 1) * d < len /\ i * d = (i - 1) * d + d

(* Only the last block is cut off, and it is not empty.                    *)
LEMMA CutIs ==
  ASSUME NEW d \in Nat \ {0}, NEW len \in Nat, NEW blocks, blocks = (len + (d - 1)) \div d
  PROVE  /\ blocks \in Nat /\ blocks * d \in Nat /\ len <= blocks * d
         /\ \A i \in 1 .. blocks : CutOk(d, len, blocks, i)
<1> DEFINE N == len + (d - 1)
           r == N % d
           y == d * blocks
<1>1. N \in Nat
  OBVIOUS
<1>2. blocks \in Nat /\ r \in Nat /\ r < d /\ r = N - y
  BY ONLY <1>1, d \in Nat \ {0}, blocks = N \div d, DivMod, Zenon
<1> HIDE DEF r
<1>3. y \in Nat /\ blocks * d = y
  BY ONLY <1>2, d \in Nat \ {0}
<1>4. len <= y /\ y <= N
  <2> HIDE DEF y
  <2> QED BY <1>2, <1>3
<1>5. ASSUME NEW i \in 1 .. blocks PROVE CutOk(d, len, blocks, i)
  <2> DEFINE x == d * (i - 1)
             z == d * (blocks - i)
  <2>1. i - 1 \in Nat /\ blocks - i \in Nat /\ i \in Nat /\ i # 0
    BY <1>2
  <2>2. x \in Nat /\ z \in Nat
    BY <2>1
  <2>3. y = x + z + d
    <3>1. blocks = (i - 1) + (blocks - i) + 1
      BY <1>2
    <3> DEFINE a == i - 1
               b == blocks - i
    <3>2. a \in Nat /\ b \in Nat /\ blocks = a + b + 1
      BY <2>1, <3>1, Zenon
    <3> HIDE DEF a, b
    <3>3. d * blocks = d * a + d * b + d
      BY ONLY <3>2, d \in Nat \ {0}
    <3> QED BY <3>3, Zenon DEF a, b
  <2>4. (i - 1) * d = x /\ i * d = x + d
    BY ONLY <2>1, d \in Nat \ {0}
  <2> HIDE DEF x, z, y
  <2>5. x < len
    BY <1>3, <1>4, <2>2, <2>3
  <2> QED BY <2>2, <2>4, <2>5, Zenon DEF CutOk
<1> QED BY <1>2, <1>3, <1>4, <1>5, Zenon

(* The bytes of block i.                                                   *)
LEMMA DerivedIs ==
  ASSUME NEW k, NEW salt, NEW c, NEW i \in Nat \ {0}, NEW j \in 1 .. DIGEST
  PROVE  Derived(k, salt, c, (i - 1) * DIGEST + j) = TUp(k, salt, i, c, j)
<1> DEFINE n == (i - 1) * DIGEST + j
           D == DIGEST
           a == i - 1
<1>1. D \in Nat \ {0} /\ a \in Nat /\ j - 1 \in 0 .. (D - 1) /\ j \in Nat
  BY ShaAssumption
<1>2. n - 1 = D * a + (j - 1)
  <2> DEFINE x == D * a
  <2>1. x \in Nat /\ (i - 1) * DIGEST = x
    BY <1>1
  <2> HIDE DEF x
  <2>2. (x + j) - 1 = x + (j - 1)
    BY ONLY <1>1, <2>1
  <2> QED BY <2>1, <2>2, Zenon DEF x
<1>3. (D * a + (j - 1)) \div D = a /\ (D * a + (j - 1)) % D = j - 1
  <2> HIDE DEF D, a
  <2> QED BY <1>1, DivModUnique, Zenon
<1>4. (n - 1) \div D + 1 = i /\ ((n - 1) % D) + 1 = j
  <2>1. a + 1 = i /\ (j - 1) + 1 = j
    BY <1>1
  <2> HIDE DEF a, n, D
  <2> QED BY <1>2, <1>3, <2>1, Zenon
<1>5. Derived(k, salt, c, n) = [l \in 1 .. c |-> RfcU(k, salt, (n - 1) \div D + 1, l)[((n - 1) % D) + 1]]
  <2> HIDE DEF n
  <2> QED BY Zenon DEF Derived
<1> HIDE DEF n, D
<1>6. Derived(k, salt, c, n) = TUp(k, salt, i, c, j)
  BY <1>4, <1>5, Zenon DEF TUp
<1> QED BY <1>6, Zenon DEF n

(* PBKDF2_SHA256 computes what RFC 2898 says.                              *)
LEMMA DeriveIs ==
  ASSUME NEW k, IsSeq(k), NEW salt, IsSeq(salt), NEW c \in Nat \ {0}, NEW dkLen \in Nat
  PROVE  PBKDF2_SHA256(k, salt, c, dkLen) = [n \in 1 .. dkLen |-> Derived(k, salt, c, n)]
<1> DEFINE Ph == HMAC_SHA256_Init(k)
           PSh == HMAC_SHA256_Update(Ph, salt)
           blocks == (dkLen + DIGEST - 1) \div DIGEST
           clen(i) == IF dkLen - (i - 1) * DIGEST > DIGEST THEN DIGEST ELSE dkLen - (i - 1) * DIGEST
           T(i) == Rounds(Ph, PSh, i, c).T
           part(i) == SubSeq(T(i), 1, clen(i))
           Eq(v) == v = [i \in 0 .. blocks |-> IF i = 0 THEN <<>> ELSE v[i - 1] \o part(i)]
           e(i) == IF i * DIGEST < dkLen THEN i * DIGEST ELSE dkLen
           val(i) == [n \in 1 .. e(i) |-> Derived(k, salt, c, n)]
           g == [i \in 0 .. blocks |-> val(i)]
           v == CHOOSE u : Eq(u)
<1>1. PBKDF2_SHA256(k, salt, c, dkLen) = v[blocks]
  BY Zenon DEF PBKDF2_SHA256
<1>2. Hashing(Ph, k, <<>>) /\ Hashing(PSh, k, salt)
  <2>1. Hashing(Ph, k, <<>>)
    BY HmacInit, Zenon
  <2> HIDE DEF Ph
  <2> DEFINE o == <<>>
  <2>2. IsSeq(o) /\ o \o salt = salt /\ Hashing(Ph, k, o)
    BY <2>1, JoinNothing, Zenon
  <2> HIDE DEF o
  <2>3. Hashing(PSh, k, o \o salt)
    BY ONLY <2>2, IsSeq(salt), HmacUpdate, Zenon
  <2> HIDE DEF PSh
  <2> QED BY <2>1, <2>2, <2>3, Zenon
<1> HIDE DEF Ph, PSh
<1>3. DIGEST \in Nat \ {0}
  BY ShaAssumption
<1>4. /\ blocks \in Nat /\ blocks * DIGEST \in Nat /\ dkLen <= blocks * DIGEST
      /\ \A i \in 1 .. blocks : CutOk(DIGEST, dkLen, blocks, i)
  <2>1. blocks = (dkLen + (DIGEST - 1)) \div DIGEST
    BY Zenon
  <2> HIDE DEF blocks
  <2> QED BY ONLY <1>3, <2>1, dkLen \in Nat, CutIs
<1> HIDE DEF blocks
<1>5. ASSUME NEW i \in 1 .. blocks, NEW x, x = (i - 1) * DIGEST
      PROVE  /\ x \in Nat /\ clen(i) \in 1 .. DIGEST
             /\ e(i - 1) = x /\ e(i) = x + clen(i)
  <2>1. x \in Nat /\ x < dkLen /\ i * DIGEST = x + DIGEST
    BY <1>4, <1>5, Zenon DEF CutOk
  <2>2. e(i - 1) = x
    BY <1>5, <2>1, Zenon
  <2> DEFINE y == i * DIGEST
  <2>3. /\ y = x + DIGEST /\ e(i) = IF y < dkLen THEN y ELSE dkLen
        /\ clen(i) = IF dkLen - x > DIGEST THEN DIGEST ELSE dkLen - x
    BY <1>5, <2>1, Zenon
  <2> HIDE DEF e, clen, y
  <2>4. CASE y < dkLen
    BY <1>3, <2>1, <2>2, <2>3, <2>4
  <2>5. CASE ~(y < dkLen)
    BY <1>3, <2>1, <2>2, <2>3, <2>5
  <2> QED BY <2>4, <2>5, Zenon
<1>6. ASSUME NEW i \in 1 .. blocks
      PROVE  /\ IsSeq(part(i)) /\ Len(part(i)) = clen(i)
             /\ \A j \in 1 .. clen(i) : part(i)[j] = TUp(k, salt, i, c, j)
  <2> DEFINE t == T(i)
             a == clen(i)
             p == part(i)
  <2>1. t = [n \in 1 .. DIGEST |-> TUp(k, salt, i, c, n)]
    <3> HIDE DEF t
    <3>1. RoundsStart(k, salt, Ph, PSh, c)
      BY <1>2, Zenon DEF RoundsStart
    <3>2. RoundsEnd(k, salt, Ph, PSh, i, c)
      BY ONLY <3>1, RoundsIs, Zenon
    <3>3. Rounds(Ph, PSh, i, c).T = [n \in 1 .. DIGEST |-> TUp(k, salt, i, c, n)]
      BY ONLY <3>2, Zenon DEF RoundsEnd
    <3> QED BY <3>3, Zenon DEF t
  <2>2. p = SubSeq(t, 0 + 1, a)
    BY 0 + 1 = 1, Zenon
  <2>3. a \in 1 .. DIGEST
    BY <1>5, Zenon
  <2> HIDE DEF t, a, p
  <2>4. t = [n \in 1 .. DIGEST |-> t[n]] /\ \A n \in 1 .. DIGEST : t[n] = TUp(k, salt, i, c, n)
    BY <2>1, Zenon
  <2>5. IsSeq(t) /\ Len(t) = DIGEST
    BY <1>3, <2>4, SeqMade
  <2>6. /\ 0 \in Nat /\ a \in Nat /\ 0 + a <= DIGEST /\ a = 0 + a
        /\ \A j \in 1 .. a : 0 + j = j /\ j \in 1 .. DIGEST
    BY <1>3, <2>3
  <2>7. Within(t, 0, a, a, p)
    BY ONLY <2>2, <2>5, <2>6, Zenon DEF Within
  <2>8. Piece(t, 0, a, p)
    BY ONLY <2>7, PieceIs, Zenon
  <2>9. IsSeq(p) /\ Len(p) = a /\ \A j \in 1 .. a : p[j] = t[0 + j]
    BY ONLY <2>8, Zenon DEF Piece
  <2>10. \A j \in 1 .. a : p[j] = TUp(k, salt, i, c, j)
    BY ONLY <2>4, <2>6, <2>9, Zenon
  <2> QED BY ONLY <2>9, <2>10, Zenon DEF a, p
<1> HIDE DEF part, T
<1>7. ASSUME NEW i \in Nat, e(i) \in Nat
      PROVE  IsSeq(val(i)) /\ Len(val(i)) = e(i) /\ \A n \in 1 .. e(i) : val(i)[n] = Derived(k, salt, c, n)
  <2> DEFINE f == val(i)
             b == e(i)
  <2>1. f = [n \in 1 .. b |-> f[n]] /\ \A n \in 1 .. b : f[n] = Derived(k, salt, c, n)
    <3> HIDE DEF e
    <3> QED BY Zenon
  <2> HIDE DEF f, b
  <2>2. IsSeq(f) /\ Len(f) = b
    <3>1. b \in Nat
      BY <1>7, Zenon DEF b
    <3> QED BY <2>1, <3>1, SeqMade, Zenon
  <2> QED BY <2>1, <2>2, Zenon DEF f, b
<1>8. ASSUME NEW i \in 1 .. blocks PROVE val(i - 1) \o part(i) = val(i)
  <2> DEFINE x == (i - 1) * DIGEST
             a == clen(i)
             p == part(i)
             s == val(i - 1)
             t == val(i)
             u == s \o p
  <2>1. x \in Nat /\ a \in 1 .. DIGEST /\ e(i - 1) = x /\ e(i) = x + a
    BY <1>5, Zenon
  <2>2. i - 1 \in Nat /\ i \in Nat \ {0} /\ i \in Nat /\ x + a \in Nat /\ a \in Nat
    <3> HIDE DEF x, a
    <3> QED BY <1>3, <1>4, <2>1
  <2>3. IsSeq(p) /\ Len(p) = a /\ \A j \in 1 .. a : p[j] = TUp(k, salt, i, c, j)
    BY <1>6, Zenon
  <2>4. IsSeq(s) /\ Len(s) = x /\ \A n \in 1 .. x : s[n] = Derived(k, salt, c, n)
    <3>1. e(i - 1) \in Nat
      BY <2>1, Zenon
    <3>2. IsSeq(s) /\ Len(s) = e(i - 1) /\ \A n \in 1 .. e(i - 1) : s[n] = Derived(k, salt, c, n)
      <4> HIDE DEF e
      <4> QED BY <1>7, <2>2, <3>1, Zenon
    <3> HIDE DEF e, s, x
    <3> QED BY <2>1, <3>2, Zenon
  <2>5. IsSeq(t) /\ Len(t) = x + a /\ \A n \in 1 .. x + a : t[n] = Derived(k, salt, c, n)
    <3>1. e(i) \in Nat
      BY <2>1, <2>2, Zenon
    <3>2. IsSeq(t) /\ Len(t) = e(i) /\ \A n \in 1 .. e(i) : t[n] = Derived(k, salt, c, n)
      <4> HIDE DEF e
      <4> QED BY <1>7, <2>2, <3>1, Zenon
    <3> HIDE DEF e, t, x, a
    <3> QED BY <2>1, <3>2, Zenon
  <2> HIDE DEF a, p, s, t
  <2>6. /\ IsSeq(u) /\ Len(u) = x + a /\ \A n \in 1 .. x : u[n] = s[n]
        /\ \A j \in 1 .. a : u[x + j] = p[j]
    <3> HIDE DEF x
    <3>1. Joins(s, p, u)
      BY ONLY <2>3, <2>4, JoinsAre, Zenon
    <3> HIDE DEF u
    <3> QED BY ONLY <2>3, <2>4, <3>1, Zenon DEF Joins
  <2>7. ASSUME NEW n \in 1 .. x + a PROVE u[n] = t[n]
    <3>0. t[n] = Derived(k, salt, c, n)
      BY <2>5, Zenon
    <3> HIDE DEF u
    <3>1. CASE n <= x
      <4>1. n \in 1 .. x
        <5> HIDE DEF x
        <5> QED BY <2>1, <2>2, <3>1
      <4> QED BY <2>4, <2>6, <3>0, <4>1, Zenon
    <3>2. CASE ~(n <= x)
      <4> DEFINE j == n - x
      <4>1. j \in 1 .. a /\ x + j = n /\ j \in 1 .. DIGEST
        <5> HIDE DEF x
        <5> QED BY <1>3, <2>1, <2>2, <3>2
      <4> HIDE DEF j
      <4>2. Derived(k, salt, c, x + j) = TUp(k, salt, i, c, j)
        BY ONLY <2>2, <4>1, DerivedIs
      <4> HIDE DEF x
      <4>3. u[n] = p[j]
        BY <2>6, <4>1, Zenon
      <4> QED BY <2>3, <3>0, <4>1, <4>2, <4>3, Zenon
    <3> QED BY <3>1, <3>2, Zenon
  <2>8. u = t
    <3> HIDE DEF u, x
    <3> QED BY ONLY <2>5, <2>6, <2>7, SameSeq, Zenon
  <2> QED BY <2>8, Zenon DEF u, s, p, t
<1>9. val(0) = <<>> /\ e(blocks) = dkLen
  <2>1. e(0) = 0
    <3>1. 0 * DIGEST = 0
      BY <1>3
    <3>2. e(0) = IF 0 < dkLen THEN 0 ELSE dkLen
      BY <3>1, Zenon
    <3> HIDE DEF e
    <3> QED BY <3>2
  <2>2. IsSeq(val(0)) /\ Len(val(0)) = 0
    <3>1. 0 \in Nat /\ e(0) \in Nat
      <4> HIDE DEF e
      <4> QED BY <2>1
    <3>2. IsSeq(val(0)) /\ Len(val(0)) = e(0)
      <4> HIDE DEF e, val
      <4> QED BY <1>7, <3>1, Zenon
    <3> HIDE DEF e, val
    <3> QED BY <2>1, <3>2, Zenon
  <2>3. IsSeq(<<>>) /\ Len(<<>>) = 0
    BY JoinNothing, Zenon
  <2> DEFINE o == <<>>
             f == val(0)
  <2>4. f = o
    <3> HIDE DEF f, o
    <3>1. \A j \in 1 .. 0 : f[j] = o[j]
      BY ONLY TRUE
    <3>2. IsSeq(f) /\ Len(f) = 0 /\ IsSeq(o) /\ Len(o) = 0
      BY <2>2, <2>3, Zenon DEF f, o
    <3> QED BY ONLY <3>1, <3>2, SameSeq, Zenon
  <2>5. e(blocks) = dkLen
    <3> DEFINE y == blocks * DIGEST
    <3>1. e(blocks) = (IF y < dkLen THEN y ELSE dkLen) /\ y \in Nat /\ dkLen <= y
      BY <1>4, Zenon
    <3> HIDE DEF y, e
    <3> QED BY <3>1
  <2> QED BY <2>4, <2>5, Zenon
<1>10. val(blocks) = [n \in 1 .. dkLen |-> Derived(k, salt, c, n)]
  <2> HIDE DEF e
  <2> QED BY <1>9, Zenon
<1> HIDE DEF val, e, clen
<1>11. Eq(g)
  <2>1. ASSUME NEW i \in 0 .. blocks PROVE g[i] = IF i = 0 THEN <<>> ELSE g[i - 1] \o part(i)
    <3>1. CASE i = 0
      BY <1>9, <3>1, Zenon
    <3>2. CASE i # 0
      <4>1. i \in 1 .. blocks /\ i - 1 \in 0 .. blocks
        BY <1>4, <3>2
      <4> QED BY <1>8, <3>2, <4>1, Zenon
    <3> QED BY <3>1, <3>2, Zenon
  <2> QED BY <2>1, Zenon
<1> HIDE DEF g
<1>12. Eq(v)
  <2>1. \E u : Eq(u)
    BY <1>11, Zenon
  <2> QED BY <2>1, Zenon
<1> HIDE DEF v
<1>13. ASSUME NEW i \in 0 .. blocks PROVE v[i] = IF i = 0 THEN <<>> ELSE v[i - 1] \o part(i)
  <2> DEFINE h == [l \in 0 .. blocks |-> IF l = 0 THEN <<>> ELSE v[l - 1] \o part(l)]
  <2>1. v = h
    BY <1>12, Zenon
  <2>2. h[i] = IF i = 0 THEN <<>> ELSE v[i - 1] \o part(i)
    BY Zenon
  <2> HIDE DEF h
  <2> QED BY <2>1, <2>2, Zenon
<1> HIDE DEF Eq
<1> DEFINE E == {i \in Nat : i <= blocks => v[i] = val(i)}
<1>14. 0 \in E
  <2>1. 0 \in 0 .. blocks /\ 0 \in Nat
    BY <1>4
  <2> QED BY <1>9, <1>13, <2>1, Zenon
<1>15. ASSUME NEW i \in Nat, i \in E PROVE i + 1 \in E
  <2> SUFFICES ASSUME i + 1 <= blocks PROVE v[i + 1] = val(i + 1)
    OBVIOUS
  <2>1. i + 1 \in 1 .. blocks /\ i + 1 \in 0 .. blocks /\ i + 1 # 0 /\ (i + 1) - 1 = i /\ i <= blocks
    BY <1>4
  <2>2. v[i] = val(i)
    BY <1>15, <2>1, Zenon
  <2>3. v[i + 1] = v[i] \o part(i + 1)
    BY <1>13, <2>1, Zenon
  <2>4. val(i) \o part(i + 1) = val(i + 1)
    BY <1>8, <2>1, Zenon
  <2> QED BY <2>2, <2>3, <2>4, Zenon
<1> HIDE DEF E
<1>16. \A i \in Nat : i \in E
  BY <1>14, <1>15, SetInduction, Zenon
<1>17. v[blocks] = val(blocks)
  <2>1. blocks \in Nat /\ blocks <= blocks
    BY <1>4
  <2> QED BY <1>16, <2>1, Zenon DEF E
<1> QED BY <1>1, <1>10, <1>17, Zenon

-----------------------------------------------------------------------------
(* Sha256: the program.                                                    *)

(* What the context holds while a digest is being computed.                *)
HashInv ==
    /\ alg \in {"none", "sha", "hmac", "done_sha", "done_hmac", "done_pbkdf2"}
    /\ alg \in {"none", "sha", "hmac"} => IsSeq(input)
    /\ alg = "none" => input = <<>>
    /\ alg = "sha" => Absorbed(hctx, input)
    /\ alg = "hmac" => Hashing(hctx, hkey, input)
    /\ DigestIsRight

(* The bytes that a caller passes are a sequence.                          *)
LEMMA BytesSeq ==
  ASSUME NEW kind, NEW k, NEW n \in Nat
  PROVE  IsSeq(SomeBytes(kind, k, n))
<1> DEFINE f == SomeBytes(kind, k, n)
<1>1. f = [i \in 1 .. n |-> f[i]]
  BY Zenon DEF SomeBytes
<1> HIDE DEF f
<1>2. IsSeq(f)
  BY <1>1, SeqMade, Zenon
<1> QED BY <1>2, Zenon DEF f

(* It holds at first,                                                      *)
LEMMA HashInitially == HashInit => HashInv
<1> SUFFICES ASSUME HashInit PROVE HashInv
  OBVIOUS
<1>1. alg = "none" /\ input = <<>>
  BY Zenon DEF HashInit, Nothing
<1>2. IsSeq(input)
  BY <1>1, JoinNothing, Zenon
<1> QED BY <1>1, <1>2, Zenon DEF HashInv, DigestIsRight

(* and every call preserves it.                                            *)
LEMMA HashSteps == HashInv /\ [HashNext]_hashvars => HashInv'
<1> SUFFICES ASSUME HashInv, [HashNext]_hashvars PROVE HashInv'
  OBVIOUS
<1>0. MaxLen \in Nat /\ MaxKey \in Nat /\ MaxIter \in Nat /\ MaxOut \in Nat
  BY ShaAssumption
<1>1. CASE StartSha
  <2>1. alg' = "sha" /\ input' = <<>> /\ hctx' = SHA256_Init
    BY <1>1, Zenon DEF StartSha, HashInv
  <2>2. IsSeq(input') /\ Absorbed(hctx', input')
    BY <2>1, InitIs, JoinNothing, Zenon
  <2> QED BY <2>1, <2>2, Zenon DEF HashInv, DigestIsRight
<1>2. ASSUME NEW klen \in 0 .. MaxKey, StartHmac(klen) PROVE HashInv'
  <2>1. /\ alg' = "hmac" /\ input' = <<>> /\ hkey' = SomeBytes("k", 1, klen)
        /\ hctx' = HMAC_SHA256_Init(hkey')
    BY <1>2, Zenon DEF StartHmac, HashInv
  <2>2. klen \in Nat
    BY <1>0
  <2>3. IsSeq(hkey')
    BY <2>1, <2>2, BytesSeq, Zenon
  <2>4. Hashing(hctx', hkey', <<>>)
    BY <2>1, <2>3, HmacInit, Zenon
  <2>5. IsSeq(input') /\ Hashing(hctx', hkey', input')
    BY <2>1, <2>4, JoinNothing, Zenon
  <2> QED BY <2>1, <2>5, Zenon DEF HashInv, DigestIsRight
<1>3. ASSUME NEW len \in 0 .. MaxLen, HashUpdate(len) PROVE HashInv'
  <2> DEFINE in == SomeBytes("m", Len(input) + 1, len)
  <2>1. len \in Nat
    BY <1>0
  <2>2. IsSeq(in)
    BY <2>1, BytesSeq, Zenon
  <2>3. /\ alg \in {"sha", "hmac"} /\ input' = input \o in /\ alg' = alg /\ hkey' = hkey
        /\ alg = "sha" => hctx' = SHA256_Update(hctx, in)
        /\ alg = "hmac" => hctx' = HMAC_SHA256_Update(hctx, in)
    BY <1>3 DEF HashUpdate
  <2> HIDE DEF in
  <2>4. IsSeq(input) /\ (alg = "sha" => Absorbed(hctx, input)) /\ (alg = "hmac" => Hashing(hctx, hkey, input))
    BY <2>3, Zenon DEF HashInv
  <2>5. IsSeq(input')
    BY <2>2, <2>3, <2>4, Joined, Zenon
  <2>6. CASE alg = "sha"
    <3>1. Absorbed(SHA256_Update(hctx, in), input \o in)
      BY ONLY <2>2, <2>4, <2>6, UpdateIs, Zenon
    <3>2. Absorbed(hctx', input') /\ alg' = "sha"
      BY <2>3, <2>6, <3>1, Zenon
    <3> QED BY <2>5, <3>2, Zenon DEF HashInv, DigestIsRight
  <2>7. CASE alg = "hmac"
    <3>1. Hashing(HMAC_SHA256_Update(hctx, in), hkey, input \o in)
      BY ONLY <2>2, <2>4, <2>7, HmacUpdate, Zenon
    <3>2. Hashing(hctx', hkey', input') /\ alg' = "hmac"
      BY <2>3, <2>7, <3>1, Zenon
    <3> QED BY <2>5, <3>2, Zenon DEF HashInv, DigestIsRight
  <2> QED BY <2>3, <2>6, <2>7, Zenon
<1>4. CASE HashFinal
  <2>1. /\ alg \in {"sha", "hmac"} /\ input' = input /\ hkey' = hkey
        /\ alg = "sha" => alg' = "done_sha" /\ output' = SHA256_Final(hctx)
        /\ alg = "hmac" => alg' = "done_hmac" /\ output' = HMAC_SHA256_Final(hctx)
    BY <1>4 DEF HashFinal
  <2>2. IsSeq(input) /\ (alg = "sha" => Absorbed(hctx, input)) /\ (alg = "hmac" => Hashing(hctx, hkey, input))
    BY <2>1, Zenon DEF HashInv
  <2>3. CASE alg = "sha"
    <3>1. SHA256_Final(hctx) = Sha(input)
      BY ONLY <2>2, <2>3, FinalIs, Zenon
    <3>2. alg' = "done_sha" /\ output' = Sha(input')
      BY <2>1, <2>3, <3>1, Zenon
    <3> QED BY <3>2, Zenon DEF HashInv, DigestIsRight
  <2>4. CASE alg = "hmac"
    <3>1. HMAC_SHA256_Final(hctx) = Hmac(hkey, input)
      BY ONLY <2>2, <2>4, HmacFinal, Zenon
    <3>2. alg' = "done_hmac" /\ output' = Hmac(hkey', input')
      BY <2>1, <2>4, <3>1, Zenon
    <3> QED BY <3>2, Zenon DEF HashInv, DigestIsRight
  <2> QED BY <2>1, <2>3, <2>4, Zenon
<1>5. ASSUME NEW plen \in 0 .. MaxKey, NEW slen \in 0 .. MaxKey, NEW c \in 1 .. MaxIter, NEW dkLen \in 0 .. MaxOut,
             Derive(plen, slen, c, dkLen)
      PROVE  HashInv'
  <2> DEFINE salt == SomeBytes("s", 1, slen)
  <2>1. /\ alg' = "done_pbkdf2" /\ hkey' = SomeBytes("k", 1, plen)
        /\ input' = [salt |-> salt, c |-> c, dkLen |-> dkLen]
        /\ output' = PBKDF2_SHA256(hkey', input'.salt, c, dkLen)
    BY <1>5, Zenon DEF Derive
  <2>2. plen \in Nat /\ slen \in Nat /\ c \in Nat \ {0} /\ dkLen \in Nat
    BY <1>0
  <2>3. IsSeq(hkey') /\ IsSeq(salt)
    BY <2>1, <2>2, BytesSeq, Zenon
  <2> HIDE DEF salt
  <2>4. input'.salt = salt /\ input'.c = c /\ input'.dkLen = dkLen
    BY <2>1
  <2>5. PBKDF2_SHA256(hkey', salt, c, dkLen) = [n \in 1 .. dkLen |-> Derived(hkey', salt, c, n)]
    BY ONLY <2>2, <2>3, DeriveIs
  <2>6. output' = [n \in 1 .. input'.dkLen |-> Derived(hkey', input'.salt, input'.c, n)]
    BY <2>1, <2>4, <2>5, Zenon
  <2> QED BY <2>1, <2>6, Zenon DEF HashInv, DigestIsRight
<1>6. CASE UNCHANGED hashvars
  <2>1. alg' = alg /\ hctx' = hctx /\ hkey' = hkey /\ input' = input /\ output' = output
    BY <1>6, Zenon DEF hashvars
  <2> QED BY <2>1, Zenon DEF HashInv, DigestIsRight
<1> QED BY <1>1, <1>2, <1>3, <1>4, <1>5, <1>6, Zenon DEF HashNext

(* A digest, a keyed digest or a derived key is the one the standards      *)
(* define, however the input was cut into calls and for any length of the  *)
(* block, the digest and the bit-count.                                    *)
THEOREM DigestCorrect == HashSpec => []DigestIsRight
<1>1. HashInv => DigestIsRight
  BY Zenon DEF HashInv
<1> QED BY <1>1, HashInitially, HashSteps, PTL DEF HashSpec
=============================================================================
