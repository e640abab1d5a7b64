------------------------------- MODULE Sha256 -------------------------------
(***************************************************************************)
(* alg/sha256.c around its compression function: the buffering of input,   *)
(* the padding, HMAC and PBKDF2.                                           *)
(*                                                                         *)
(* The compression function is symbolic: the state of a context is the     *)
(* sequence of blocks that were mixed into it, and a byte of a digest      *)
(* names its context's final state and its place.  A byte is a tuple that  *)
(* says what it is; a key byte combined with a constant holds both.        *)
(* count is in bytes and does not wrap around: the code's does after 2^64  *)
(* bits, and FIPS 180 allows no longer message.                            *)
(***************************************************************************)
EXTENDS Integers, Sequences

CONSTANTS
    BLOCK,      \* bytes in a block (64)
    LENGTH,     \* bytes of the bit-count at the end (8)
    DIGEST,     \* bytes in a digest (32)
    MaxLen,     \* no input is longer than this
    MaxKey,     \* no key or salt is longer than this
    MaxIter,    \* no iteration count is larger than this
    MaxOut      \* no derived key is longer than this

ASSUME ShaAssumption ==
    /\ BLOCK \in Nat /\ LENGTH \in Nat /\ LENGTH < BLOCK
    /\ DIGEST \in 1 .. BLOCK
    /\ MaxLen \in Nat /\ MaxKey \in Nat /\ MaxIter \in Nat /\ MaxOut \in Nat

(* buf holds what earlier blocks have left in it.                          *)
SHA256_Init == [state |-> <<>>, count |-> 0, buf |-> [i \in 1 .. BLOCK |-> <<"undefined">>]]

(* memcpy(&buf[at], src, Len(src))                                         *)
Copied(buf, at, src) ==
    [i \in 1 .. BLOCK |-> IF i > at /\ i <= at + Len(src) THEN src[i - at] ELSE buf[i]]

SHA256_Transform(state, block) == Append(state, block)

(* Mutant: a block that is exactly filled is mixed in with the next call.  *)
SHA256_Update_late(ctx, in) ==
    LET r == ctx.count % BLOCK
        first == Copied(ctx.buf, r, SubSeq(in, 1, BLOCK - r))
        rest == SubSeq(in, BLOCK - r + 1, Len(in))
    IN  IF Len(in) <= BLOCK - r
        THEN [ctx EXCEPT !.count = @ + Len(in), !.buf = Copied(@, r, in)]
        ELSE [state |-> Append(ctx.state, first), count |-> ctx.count + Len(in),
              buf |-> Copied(first, 0, rest)]

(* mixed[k]: the state after the first block and k that are complete.      *)
SHA256_Update(ctx, in) ==
    LET len == Len(in)
        r == ctx.count % BLOCK
        first == Copied(ctx.buf, r, SubSeq(in, 1, BLOCK - r))
        rest == SubSeq(in, BLOCK - r + 1, len)
        whole == Len(rest) \div BLOCK
        left == SubSeq(rest, BLOCK * whole + 1, Len(rest))
        mixed[k \in 0 .. whole] ==
            IF k = 0 THEN SHA256_Transform(ctx.state, first)
            ELSE SHA256_Transform(mixed[k - 1], SubSeq(rest, BLOCK * (k - 1) + 1, BLOCK * k))
    IN  IF len < BLOCK - r
        THEN [ctx EXCEPT !.count = @ + len, !.buf = Copied(@, r, in)]
        ELSE [state |-> mixed[whole], count |-> ctx.count + len,
              buf |-> Copied(first, 0, left)]

Zeroes(n) == [i \in 1 .. n |-> <<"0">>]
PAD(n) == [i \in 1 .. n |-> <<IF i = 1 THEN "0x80" ELSE "0">>]

(* The bytes of the bit-count.                                             *)
BitCount(n) == [i \in 1 .. LENGTH |-> <<"count", n, i>>]

SHA256_Pad(ctx) ==
    LET r == ctx.count % BLOCK
        short == Copied(ctx.buf, r, PAD(BLOCK - LENGTH - r))
        full == Copied(ctx.buf, r, PAD(BLOCK - r))
        fits == r < BLOCK - LENGTH
        state == IF fits THEN ctx.state ELSE SHA256_Transform(ctx.state, full)
        buf == IF fits THEN short ELSE Copied(full, 0, Zeroes(BLOCK - LENGTH))
    IN  SHA256_Transform(state, Copied(buf, BLOCK - LENGTH, BitCount(ctx.count)))

SHA256_Final(ctx) ==
    [i \in 1 .. DIGEST |-> <<"digest", SHA256_Pad(ctx), i>>]

SHA256_Buf(in) == SHA256_Final(SHA256_Update(SHA256_Init, in))

-----------------------------------------------------------------------------
(* pad, the array, with the key combined into its start                    *)
Keyed(const, K) ==
    [i \in 1 .. BLOCK |-> IF i <= Len(K) THEN <<const, K[i]>> ELSE <<const>>]

HMAC_SHA256_Init(key) ==
    LET K == IF Len(key) > BLOCK THEN SHA256_Buf(key) ELSE key
    IN  [ictx |-> SHA256_Update(SHA256_Init, Keyed("0x36", K)),
         octx |-> SHA256_Update(SHA256_Init, Keyed("0x5c", K))]

HMAC_SHA256_Update(ctx, in) == [ctx EXCEPT !.ictx = SHA256_Update(@, in)]

HMAC_SHA256_Final(ctx) ==
    SHA256_Final(SHA256_Update(ctx.octx, SHA256_Final(ctx.ictx)))

(* T[k] ^= U[k]: the combination of values is the sequence of them.        *)
Xor(T, U) == [k \in 1 .. DIGEST |-> Append(T[k], U[k])]

(* U_j and T, from those of the round before and the state after the       *)
(* password.                                                               *)
Round(Phctx, UT) ==
    LET U == HMAC_SHA256_Final(HMAC_SHA256_Update(Phctx, UT.U))
    IN  [U |-> U, T |-> Xor(UT.T, U)]

(* be32enc(i + 1)                                                          *)
INT(i) == [k \in 1 .. 4 |-> <<"int", i, k>>]

(* U and T of block i after c rounds.                                      *)
Rounds(Phctx, PShctx, i, c) ==
    LET U1 == HMAC_SHA256_Final(HMAC_SHA256_Update(PShctx, INT(i)))
        after[j \in 0 .. c - 1] ==
            IF j = 0 THEN [U |-> U1, T |-> [k \in 1 .. DIGEST |-> <<U1[k]>>]]
            ELSE Round(Phctx, after[j - 1])
    IN  after[c - 1]

(* buf[i]: the output after i blocks; the last one may be cut off.         *)
PBKDF2_SHA256(passwd, salt, c, dkLen) ==
    LET Phctx == HMAC_SHA256_Init(passwd)
        PShctx == HMAC_SHA256_Update(Phctx, salt)
        blocks == (dkLen + DIGEST - 1) \div DIGEST
        clen(i) == IF dkLen - (i - 1) * DIGEST > DIGEST THEN DIGEST ELSE dkLen - (i - 1) * DIGEST
        buf[i \in 0 .. blocks] ==
            IF i = 0 THEN <<>>
            ELSE buf[i - 1] \o SubSeq(Rounds(Phctx, PShctx, i, c).T, 1, clen(i))
    IN  buf[blocks]

-----------------------------------------------------------------------------
(* A program that uses one context at a time                               *)

VARIABLES
    alg,        \* "none", or what is being computed
    hctx,       \* the context
    hkey,       \* history: the key
    input,      \* history: what was put in
    output      \* the result, once there is one

hashvars == <<alg, hctx, hkey, input, output>>

(* n bytes of some kind, each different, the first of them being byte k.   *)
SomeBytes(kind, k, n) == [i \in 1 .. n |-> <<kind, k + i - 1>>]

Nothing == <<>>

HashInit ==
    /\ alg = "none" /\ hctx = Nothing
    /\ hkey = Nothing /\ input = Nothing /\ output = Nothing

StartSha ==
    /\ alg = "none"
    /\ alg' = "sha" /\ hctx' = SHA256_Init
    /\ UNCHANGED <<hkey, input, output>>

StartHmac(klen) ==
    /\ alg = "none"
    /\ alg' = "hmac"
    /\ hkey' = SomeBytes("k", 1, klen)
    /\ hctx' = HMAC_SHA256_Init(hkey')
    /\ UNCHANGED <<input, output>>

HashUpdate(len) ==
    LET in == SomeBytes("m", Len(input) + 1, len)
    IN  /\ alg \in {"sha", "hmac"} /\ Len(input) + len <= MaxLen
        /\ hctx' = IF alg = "sha" THEN SHA256_Update(hctx, in) ELSE HMAC_SHA256_Update(hctx, in)
        /\ input' = input \o in
        /\ UNCHANGED <<alg, hkey, output>>

HashFinal ==
    /\ alg \in {"sha", "hmac"}
    /\ output' = IF alg = "sha" THEN SHA256_Final(hctx) ELSE HMAC_SHA256_Final(hctx)
    /\ alg' = IF alg = "sha" THEN "done_sha" ELSE "done_hmac"
    /\ hctx' = Nothing
    /\ UNCHANGED <<hkey, input>>

Derive(plen, slen, c, dkLen) ==
    /\ alg = "none"
    /\ alg' = "done_pbkdf2"
    /\ hkey' = SomeBytes("k", 1, plen)
    /\ input' = [salt |-> SomeBytes("s", 1, slen), c |-> c, dkLen |-> dkLen]
    /\ output' = PBKDF2_SHA256(hkey', input'.salt, c, dkLen)
    /\ UNCHANGED hctx

HashNext ==
    \/ StartSha
    \/ \E klen \in 0 .. MaxKey : StartHmac(klen)
    \/ \E len \in 0 .. MaxLen : HashUpdate(len)
    \/ HashFinal
    \/ \E plen, slen \in 0 .. MaxKey, c \in 1 .. MaxIter, dkLen \in 0 .. MaxOut :
          Derive(plen, slen, c, dkLen)

HashSpec == HashInit /\ [][HashNext]_hashvars

-----------------------------------------------------------------------------
(* The definitions of the standards, without buffers                       *)

(* FIPS 180: 0x80, as few zeroes as possible, and the length fill the last *)
(* block.                                                                  *)
Padded(m) ==
    LET zeroes == CHOOSE z \in 0 .. (BLOCK - 1) : (Len(m) + 1 + z + LENGTH) % BLOCK = 0
    IN  m \o <<<<"0x80">>>> \o Zeroes(zeroes) \o BitCount(Len(m))

Sha(m) ==
    [i \in 1 .. DIGEST |->
        <<"digest", [b \in 1 .. Len(Padded(m)) \div BLOCK |->
                        SubSeq(Padded(m), BLOCK * (b - 1) + 1, BLOCK * b)], i>>]

(* RFC 2104.                                                               *)
Hmac(k, m) ==
    LET K == IF Len(k) > BLOCK THEN Sha(k) ELSE k
    IN  Sha(Keyed("0x5c", K) \o Sha(Keyed("0x36", K) \o m))

(* RFC 2898: U_j of block i, and the combination of the first c of them.   *)
RfcU(k, salt, i, j) ==
    LET after[n \in 0 .. j - 1] ==
            IF n = 0 THEN Hmac(k, salt \o INT(i)) ELSE Hmac(k, after[n - 1])
    IN  after[j - 1]

Derived(k, salt, c, n) ==
    [j \in 1 .. c |-> RfcU(k, salt, (n - 1) \div DIGEST + 1, j)[((n - 1) % DIGEST) + 1]]

(* However the input is cut into calls, with lengths on either side of the *)
(* end of a block and of the room for the bit-count, the results are those *)
(* the standards define: no stale byte of the buffer gets into a block.    *)
DigestIsRight ==
    /\ alg = "done_sha" => output = Sha(input)
    /\ alg = "done_hmac" => output = Hmac(hkey, input)
    /\ alg = "done_pbkdf2" =>
          output = [n \in 1 .. input.dkLen |-> Derived(hkey, input.salt, input.c, n)]
=============================================================================
