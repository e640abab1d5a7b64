------------------------------- MODULE AesCtr -------------------------------
(***************************************************************************)
(* AES in counter mode: crypto_aesctr.c, crypto_aesctr_shared.c, and the   *)
(* two accelerated variants crypto_aesctr_aesni.c and _arm.c, which differ *)
(* only in the instructions they use.                                      *)
(*                                                                         *)
(* The generic code does not compute the counter block anew: it increments *)
(* the last byte of pblk and encodes the whole counter only when that byte *)
(* wraps.  pblk is split into the nonce, the upper bytes hi of the counter *)
(* and its last byte lo.  A block of the cipher stream is the record of    *)
(* what was encrypted, and a byte of output names the byte of the stream   *)
(* it was combined with.                                                   *)
(*                                                                         *)
(* A call of crypto_aesctr_stream takes a step for each run of bytes; left *)
(* is the number of bytes it has still to do.                              *)
(***************************************************************************)
EXTENDS Integers, Sequences

CONSTANTS
    Keys, Nonces,
    NULL,
    Blk,        \* bytes in a block (16)
    Byte,       \* number of values of a byte (256)
    MaxStream   \* no stream is longer than this

ASSUME AesCtrAssumption == Blk \in Nat \ {0} /\ Byte \in Nat \ {0} /\ MaxStream \in Nat

VARIABLES
    hwaccel,    \* which variant of the code is used
    key,        \* stream->key
    bytectr,    \* stream->bytectr
    pblk,       \* stream->pblk
    buf,        \* stream->buf
    at,         \* where crypto_aesctr_stream is
    left,       \* its buflen
    asked,      \* history: the key and the nonce that were asked for
    cipher      \* history: all output since crypto_aesctr_init2

ctrvars == <<hwaccel, key, bytectr, pblk, buf, at, left, asked, cipher>>

Undefined == "undefined"

CtrInit ==
    /\ hwaccel = "HW_UNSET"
    /\ key = NULL
    /\ bytectr = 0
    /\ pblk = [nonce |-> Undefined, hi |-> Undefined, lo |-> Undefined]
    /\ buf = Undefined
    /\ at = "none"
    /\ left = 0
    /\ asked = [key |-> NULL, nonce |-> NULL]
    /\ cipher = <<>>

(* be64enc: the counter n as pblk holds it.                                *)
be64enc(n) == [nonce |-> pblk.nonce, hi |-> n \div Byte, lo |-> n % Byte]

(* What the processor can do is looked up once.                            *)
hwaccel_init ==
    IF hwaccel = "HW_UNSET"
    THEN hwaccel' \in {"HW_SOFTWARE", "HW_X86_AESNI", "HW_ARM_AES"}
    ELSE UNCHANGED hwaccel

(* crypto_aesctr_init2, by itself or through _init and _buf; k is NULL if  *)
(* the key is kept.  The upper bytes of the counter stay as they are.      *)
crypto_aesctr_init2(k, nonce) ==
    /\ at \in {"none", "ready"}
    /\ k # NULL \/ key # NULL
    /\ key' = IF k # NULL THEN k ELSE key
    /\ pblk' = [pblk EXCEPT !.nonce = nonce, !.lo = Byte - 1]
    /\ bytectr' = 0
    /\ hwaccel_init
    /\ at' = "ready"
    /\ asked' = [key |-> key', nonce |-> nonce]
    /\ cipher' = <<>>
    /\ UNCHANGED <<buf, left>>

crypto_aesctr_stream(buflen) ==
    /\ at = "ready"
    /\ Len(cipher) + buflen <= MaxStream
    /\ left' = buflen
    /\ at' = IF hwaccel # "HW_SOFTWARE" /\ buflen >= Blk THEN "pre_hw" ELSE "pre"
    /\ UNCHANGED <<hwaccel, key, bytectr, pblk, buf, asked, cipher>>

(* crypto_aesctr_stream_cipherblock_use, of the block b                    *)
Use(b, nbytes, bytemod) ==
    /\ cipher' = cipher \o [i \in 1 .. nbytes |-> [block |-> b, at |-> bytemod + i - 1]]
    /\ bytectr' = bytectr + nbytes
    /\ left' = left - nbytes

Cipherblock(p) == [key |-> key, nonce |-> p.nonce, hi |-> p.hi, lo |-> p.lo]

(* Mutant: the counter is encoded again only after a full cycle of the     *)
(* last byte, which the accelerated code does not keep to.                 *)
Incremented_once ==
    IF bytectr = 0 THEN be64enc(0) ELSE [pblk EXCEPT !.lo = (@ + 1) % Byte]

Incremented ==
    LET lo == (pblk.lo + 1) % Byte
    IN  IF lo = 0 THEN be64enc(bytectr \div Blk) ELSE [pblk EXCEPT !.lo = lo]

crypto_aesctr_stream_cipherblock_generate ==
    /\ pblk' = Incremented
    /\ buf' = Cipherblock(pblk')

crypto_aesctr_stream_pre_wholeblock ==
    LET bytemod == bytectr % Blk
        nbytes == IF bytemod + left <= Blk THEN left ELSE Blk - bytemod
    IN  /\ at \in {"pre", "pre_hw"}
        /\ IF bytemod # 0 THEN Use(buf, nbytes, bytemod) ELSE UNCHANGED <<cipher, bytectr, left>>
        /\ at' = IF bytemod # 0 /\ bytemod + left <= Blk THEN "ready"
                 ELSE IF at = "pre" THEN "blocks" ELSE "blocks_hw"
        /\ UNCHANGED <<hwaccel, key, pblk, buf, asked>>

(* The loop over whole blocks, by a block.                                 *)
Wholeblock ==
    /\ at = "blocks" /\ left >= Blk
    /\ crypto_aesctr_stream_cipherblock_generate
    /\ Use(buf', Blk, 0)
    /\ UNCHANGED <<hwaccel, key, at, asked>>

(* The accelerated code does all blocks, does not touch buf, and leaves    *)
(* the counter of the last block in pblk.                                  *)
Wholeblocks ==
    LET block_counter == bytectr \div Blk
        num_blocks == left \div Blk
    IN  /\ at = "blocks_hw" /\ left >= Blk
        /\ cipher' = cipher \o [i \in 1 .. (num_blocks * Blk) |->
                [block |-> Cipherblock(be64enc(block_counter + (i - 1) \div Blk)),
                 at |-> (i - 1) % Blk]]
        /\ pblk' = be64enc(block_counter + num_blocks - 1)
        /\ bytectr' = bytectr + Blk * num_blocks
        /\ left' = left - Blk * num_blocks
        /\ UNCHANGED <<hwaccel, key, buf, at, asked>>

crypto_aesctr_aesni_stream_wholeblocks == hwaccel = "HW_X86_AESNI" /\ Wholeblocks

crypto_aesctr_arm_stream_wholeblocks == hwaccel = "HW_ARM_AES" /\ Wholeblocks

crypto_aesctr_stream_post_wholeblock ==
    /\ at \in {"blocks", "blocks_hw"} /\ left < Blk
    /\ IF left > 0
       THEN crypto_aesctr_stream_cipherblock_generate /\ Use(buf', left, 0)
       ELSE UNCHANGED <<pblk, buf, cipher, bytectr, left>>
    /\ at' = "ready"
    /\ UNCHANGED <<hwaccel, key, asked>>

(* The structure is cleared; the next one malloc returns holds anything.   *)
crypto_aesctr_free ==
    /\ at = "ready"
    /\ key' = NULL /\ bytectr' = 0
    /\ pblk' = [nonce |-> Undefined, hi |-> Undefined, lo |-> Undefined]
    /\ buf' = Undefined
    /\ at' = "none"
    /\ asked' = [key |-> NULL, nonce |-> NULL]
    /\ cipher' = <<>>
    /\ UNCHANGED <<hwaccel, left>>

CtrNext ==
    \/ \E k \in Keys \cup {NULL}, nonce \in Nonces : crypto_aesctr_init2(k, nonce)
    \/ \E buflen \in 0 .. MaxStream : crypto_aesctr_stream(buflen)
    \/ crypto_aesctr_stream_pre_wholeblock
    \/ Wholeblock
    \/ crypto_aesctr_aesni_stream_wholeblocks
    \/ crypto_aesctr_arm_stream_wholeblocks
    \/ crypto_aesctr_stream_post_wholeblock
    \/ crypto_aesctr_free

CtrSpec == CtrInit /\ [][CtrNext]_ctrvars

-----------------------------------------------------------------------------
(* What is byte n (from 0) of the cipher stream.                           *)
StreamByte(n) ==
    [block |-> [key |-> asked.key, nonce |-> asked.nonce,
                hi |-> (n \div Blk) \div Byte, lo |-> (n \div Blk) % Byte],
     at |-> n % Blk]

(* However a message is cut into calls, whichever code does which part and *)
(* whatever the stream was used for before, byte n of the output is made   *)
(* with byte n of the stream of the key and nonce asked for.  So the two   *)
(* ends of a connection, whose processors may differ, understand each      *)
(* other, and no byte of the stream is used twice.                         *)
StreamIsRight ==
    /\ bytectr = Len(cipher)
    /\ \A n \in 1 .. Len(cipher) : cipher[n] = StreamByte(n - 1)
=============================================================================
