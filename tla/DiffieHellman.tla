---------------------------- MODULE DiffieHellman ----------------------------
(***************************************************************************)
(* The Diffie-Hellman functions libcperciva/crypto/crypto_dh.c, as the two *)
(* ends of a handshake use them: each generates a key pair, checks what it *)
(* is sent, and computes the key.  Numbers are real, but small: digits     *)
(* have base Base, and the modulus has CRYPTO_DH_PUBLEN of them.           *)
(*                                                                         *)
(* The calls of the two ends do not meet, so they are made in turn.  Every *)
(* call of the library of big numbers may fail.                            *)
(***************************************************************************)
EXTENDS Integers, Sequences

CONSTANTS
    Base,                   \* the values of a byte
    CRYPTO_DH_PRIVLEN,
    crypto_dh_group14       \* the modulus, as digits

ASSUME DhAssumption ==
    /\ Base \in Nat \ {0, 1}
    /\ CRYPTO_DH_PRIVLEN \in Nat
    /\ crypto_dh_group14 \in Seq(0 .. Base - 1)
    /\ \E i \in DOMAIN crypto_dh_group14 : crypto_dh_group14[i] # 0

VARIABLES
    turn,       \* the call that is made, an index of Calls
    line,       \* how far it has come
    bns,        \* the numbers that are allocated
    misfreed,   \* a number was freed that is not allocated
    rnd,        \* the blinding exponent
    priv_of, pub_of, key_of,    \* what each end has
    sent,       \* what each end was sent
    outcome     \* "running", "done", or how the exchange failed

dhvars == <<turn, line, bns, misfreed, rnd, priv_of, pub_of, key_of, sent, outcome>>

CRYPTO_DH_PUBLEN == Len(crypto_dh_group14)

-----------------------------------------------------------------------------
(* Big-endian numbers                                                      *)

Digit == 0 .. Base - 1

BN_bin2bn(s) ==
    LET value[i \in 0 .. Len(s)] == IF i = 0 THEN 0 ELSE value[i - 1] * Base + s[i]
    IN  value[Len(s)]

(* The digits of x, the last one first to be split off,                    *)
Digits(x) ==
    LET rest[i \in 0 .. CRYPTO_DH_PUBLEN] == IF i = 0 THEN x ELSE rest[i - 1] \div Base
    IN  [i \in 1 .. CRYPTO_DH_PUBLEN |-> rest[CRYPTO_DH_PUBLEN - i] % Base]

(* and without leading zeros.                                              *)
BN_bn2bin(x) ==
    LET zeros == CHOOSE z \in 0 .. CRYPTO_DH_PUBLEN :
                    /\ \A j \in 1 .. z : Digits(x)[j] = 0
                    /\ z < CRYPTO_DH_PUBLEN => Digits(x)[z + 1] # 0
    IN  SubSeq(Digits(x), zeros + 1, CRYPTO_DH_PUBLEN)

modulus == BN_bin2bn(crypto_dh_group14)

(* The power of a number; the library does not look at the sign of the     *)
(* exponent.                                                               *)
BN_mod_exp(a, e) ==
    LET abs == IF e < 0 THEN -e ELSE e
        power[i \in Nat] == IF i = 0 THEN 1 ELSE (power[i - 1] * a) % modulus
    IN  power[abs]

two_exp_256 == BN_bin2bn([i \in 1 .. CRYPTO_DH_PRIVLEN + 1 |-> IF i = 1 THEN 1 ELSE 0])

Priv == [1 .. CRYPTO_DH_PRIVLEN -> Digit]
Pub == [1 .. CRYPTO_DH_PUBLEN -> Digit]

(* memcmp compares the first digits that differ.                           *)
crypto_dh_sanitycheck(pub) ==
    IF \/ pub = crypto_dh_group14
       \/ \E i \in 1 .. CRYPTO_DH_PUBLEN :
             /\ pub[i] > crypto_dh_group14[i]
             /\ \A j \in 1 .. i - 1 : pub[j] = crypto_dh_group14[j]
    THEN -1 ELSE 0

-----------------------------------------------------------------------------
(* blinded_modexp.  The numbers it allocates, in this order; err<n> frees  *)
(* the first n.                                                            *)
Number == <<"two_exp_256_bn", "priv_bn", "blinding_bn", "priv_blinded", "m_bn", "ctx",
            "r1", "r2">>

Numbers == {Number[i] : i \in DOMAIN Number}

(* Its lines: a number that is allocated (or "" for an operation), and the *)
(* label it goes to on failure.                                            *)
Line ==
    << <<"two_exp_256_bn", 0>>, <<"priv_bn", 1>>, <<"", 2>>, <<"random", 2>>,
       <<"blinding_bn", 2>>, <<"", 3>>, <<"priv_blinded", 3>>, <<"", 4>>, <<"m_bn", 4>>,
       <<"ctx", 5>>, <<"r1", 6>>, <<"r2", 7>>, <<"", 8>>, <<"", 8>>, <<"", 8>> >>

(* Mutant: 2^256 is added once.                                            *)
exponent_short(priv) == BN_bin2bn(priv) + two_exp_256

(* 2^258 and the exponent, from four additions.                            *)
exponent(priv) == BN_bin2bn(priv) + two_exp_256 + two_exp_256 + two_exp_256 + two_exp_256

(* The exponentiation is done in two parts,                                *)
blinded(a, priv, blinding) ==
    LET blinding_bn == BN_bin2bn(blinding) + two_exp_256
        priv_blinded == exponent(priv) - blinding_bn
    IN  (BN_mod_exp(a, blinding_bn) * BN_mod_exp(a, priv_blinded)) % modulus

(* and the result is filled up with zeros.                                 *)
export(r1) ==
    LET rlen == Len(BN_bn2bin(r1))
    IN  [i \in 1 .. CRYPTO_DH_PUBLEN - rlen |-> 0] \o BN_bn2bin(r1)

-----------------------------------------------------------------------------
(* The exchange                                                            *)

Party == {"c", "s"}
Other(e) == IF e = "c" THEN "s" ELSE "c"
Calls == << <<"generate", "c">>, <<"generate", "s">>, <<"compute", "c">>, <<"compute", "s">> >>

(* Places of a call that are not lines of blinded_modexp.                  *)
START == -1
BASE == -2
SET == -3
RESULT == -4
END == -5

call == Calls[turn][1]
self == Calls[turn][2]

DhInit ==
    /\ turn = 1 /\ line = START /\ bns = {} /\ misfreed = FALSE /\ rnd = <<>>
    /\ priv_of = [e \in Party |-> <<>>] /\ pub_of = [e \in Party |-> <<>>]
    /\ key_of = [e \in Party |-> <<>>] /\ sent = [e \in Party |-> <<>>]
    /\ outcome = "running"

Allocates(o) == bns' = bns \cup {o} /\ misfreed' = (misfreed \/ o \in bns)

Releases(S) == bns' = bns \ S /\ misfreed' = (misfreed \/ ~(S \subseteq bns))

Keeps == UNCHANGED <<priv_of, pub_of, key_of, sent>>

(* The call returns -1 and the handshake fails.                            *)
Fails == outcome' = "failed" /\ line' = END /\ UNCHANGED <<turn, rnd>> /\ Keeps

(* crypto_dh_generate: a private key, or no entropy.                       *)
crypto_dh_generate ==
    /\ outcome = "running" /\ line = START /\ call = "generate"
    /\ \/ /\ \E x \in Priv : priv_of' = [priv_of EXCEPT ![self] = x]
          /\ line' = BASE
          /\ UNCHANGED <<turn, bns, misfreed, rnd, pub_of, key_of, sent, outcome>>
       \/ Fails /\ UNCHANGED <<bns, misfreed>>

(* An end receives what its peer has generated, or anything else, and      *)
(* checks it (proto_crypt_dh_validate) before crypto_dh_compute.           *)
receive ==
    /\ outcome = "running" /\ line = START /\ call = "compute"
    /\ \E y \in Pub :
          /\ sent' = [sent EXCEPT ![self] = y]
          /\ IF crypto_dh_sanitycheck(y) = 0 THEN line' = BASE /\ UNCHANGED outcome
             ELSE line' = END /\ outcome' = "insane"
    /\ UNCHANGED <<turn, bns, misfreed, rnd, priv_of, pub_of, key_of>>

(* The number 2, or the public key of the peer.                            *)
base ==
    /\ outcome = "running" /\ line = BASE
    /\ \/ /\ Allocates("base")
          /\ line' = SET
          /\ UNCHANGED <<turn, rnd, outcome>> /\ Keeps
       \/ Fails /\ UNCHANGED <<bns, misfreed>>

BN_set_word ==
    /\ outcome = "running" /\ line = SET
    /\ \/ line' = 1 /\ UNCHANGED <<turn, bns, misfreed, rnd, outcome>> /\ Keeps
       \/ call = "generate" /\ Releases({"base"}) /\ Fails

(* Mutant: each label frees one number less.                               *)
modexp_err_less(k) == {Number[i] : i \in 1 .. k - 1}

(* What is freed from the label err<k> on.                                 *)
modexp_err(k) == {Number[i] : i \in 1 .. k}

(* A line of blinded_modexp that goes well,                                *)
blinded_modexp ==
    /\ outcome = "running" /\ line \in DOMAIN Line
    /\ IF Line[line][1] \in Numbers THEN Allocates(Line[line][1])
       ELSE UNCHANGED <<bns, misfreed>>
    /\ IF Line[line][1] = "random" THEN rnd' \in Priv ELSE UNCHANGED rnd
    /\ line' = IF line = Len(Line) THEN RESULT ELSE line + 1
    /\ UNCHANGED <<turn, outcome>> /\ Keeps

(* or does not: then its caller fails too.                                 *)
blinded_modexp_fails ==
    /\ outcome = "running" /\ line \in DOMAIN Line
    /\ Releases(modexp_err(Line[line][2]) \cup {"base"})
    /\ Fails

(* All is freed and the call returns the result.  The handshake ends when  *)
(* both have a key, or when one was sent something else.                   *)
finish ==
    LET a == IF call = "generate" THEN 2 ELSE BN_bin2bn(sent[self])
        r == export(blinded(a, priv_of[self], rnd))
    IN  /\ outcome = "running" /\ line = RESULT
        /\ Releases(Numbers \cup {"base"})
        /\ IF call = "generate" THEN pub_of' = [pub_of EXCEPT ![self] = r] /\ UNCHANGED key_of
           ELSE key_of' = [key_of EXCEPT ![self] = r] /\ UNCHANGED pub_of
        /\ rnd' = <<>>
        /\ IF turn = Len(Calls) \/ (call = "compute" /\ sent[self] # pub_of[Other(self)])
           THEN outcome' = "done" /\ line' = END /\ UNCHANGED turn
           ELSE turn' = turn + 1 /\ line' = START /\ UNCHANGED outcome
        /\ UNCHANGED <<priv_of, sent>>

DhNext ==
    \/ crypto_dh_generate \/ receive \/ base \/ BN_set_word
    \/ blinded_modexp \/ blinded_modexp_fails \/ finish

DhSpec == DhInit /\ [][DhNext]_dhvars

-----------------------------------------------------------------------------
(* The power of a number, without blinding.                                *)
Power(a, e) == BN_mod_exp(a, e)
FullExponent(priv) == 4 * two_exp_256 + BN_bin2bn(priv)

(* Blinding does not change what is computed, for any blinding exponent: a *)
(* public key is 2^(2^258 + priv), and a key pub^(2^258 + priv).           *)
BlindingIsSound ==
    \A e \in Party :
        /\ pub_of[e] # <<>> => BN_bin2bn(pub_of[e]) = Power(2, FullExponent(priv_of[e]))
        /\ key_of[e] # <<>> =>
              BN_bin2bn(key_of[e]) = Power(BN_bin2bn(sent[e]), FullExponent(priv_of[e]))

(* Two ends that get what the other has sent have the same key, of the     *)
(* full length; and a public key is always accepted.                       *)
SameKey ==
    /\ outcome = "done" /\ (\A e \in Party : sent[e] = pub_of[Other(e)]) =>
          key_of["c"] = key_of["s"] /\ key_of["c"] # <<>>
    /\ \A e \in Party :
          /\ pub_of[e] # <<>> => pub_of[e] \in Pub
          /\ key_of[e] # <<>> => key_of[e] \in Pub
          /\ outcome = "insane" /\ sent[e] # <<>> /\ pub_of[Other(e)] # <<>> /\ call = "compute"
                /\ self = e => sent[e] # pub_of[Other(e)] /\ BN_bin2bn(sent[e]) >= modulus

(* Wherever a call fails, all numbers that were allocated are freed, once. *)
NumbersFreed == ~misfreed /\ (line \in {START, END} => bns = {})

(* All that is said of the key exchange.                                   *)
KeyExchangeIsRight == BlindingIsSound /\ SameKey /\ NumbersFreed
=============================================================================
