--------------------------- MODULE ProtoHandshake ---------------------------
(***************************************************************************)
(* The protocol handshake between two ends of an encrypted connection:     *)
(* lib/proto/proto_handshake.c and the parts of lib/proto/proto_crypt.c    *)
(* it calls.  "c" is the end that encrypts (decr = 0), "s" the end that    *)
(* decrypts (decr = 1).                                                    *)
(*                                                                         *)
(* Values are symbolic.  The nonce of p is p.  A Diffie-Hellman value is   *)
(* the set of the ends whose secret exponent is in it: {} is 1, {p} is     *)
(* g^x_p.  A derived key is the tuple of what it is derived from, and a    *)
(* MAC is the pair of its key and what it covers.                          *)
(*                                                                         *)
(* The two ends share a byte stream in each direction.  On the way a       *)
(* message may be damaged, and either end may lose the connection, give up *)
(* (proto_handshake_cancel, when the timer of the connection expires) or   *)
(* run out of memory.  MaxFaults bounds how often this happens.            *)
(***************************************************************************)
EXTENDS Naturals, Sequences

CONSTANTS
    Secret,     \* protocol secrets (the contents of key files)
    MaxFaults   \* bound on faults of the network and of the ends

End == {"c", "s"}

Peer(p) == IF p = "c" THEN "s" ELSE "c"

VARIABLES
    conf,       \* conf[p]: the configuration of each end
    H,          \* H[p]: the handshake_cookie of each end
    stream,     \* stream[p]: what p has written and its peer has not read
    broken,     \* the connection between them is gone
    faults      \* number of faults so far

hsvars == <<conf, H, stream, broken, faults>>

(* -f (nopfs) and -g (requirepfs) exclude each other.                      *)
Config ==
    {o \in [K : Secret, nopfs : BOOLEAN, requirepfs : BOOLEAN] :
        ~(o.nopfs /\ o.requirepfs)}

(* read_cookie and write_cookie: NULL, or what is being read or written.   *)
Cookie == {"NULL", "nonce", "dh"}

Damaged == "damaged"

(* proto_handshake: both ends have sent nothing and received nothing, and  *)
(* have the write and the read of the nonces in progress.                  *)
proto_handshake ==
    [read_cookie |-> "nonce", write_cookie |-> "nonce",
     nonce_remote |-> "none", yh_remote |-> [y |-> {}, mac |-> <<>>],
     keys |-> <<>>, result |-> "running"]

Init ==
    /\ conf \in [End -> Config]
    /\ H = [p \in End |-> proto_handshake]
    /\ stream = [p \in End |-> <<>>]
    /\ broken = FALSE
    /\ faults = 0

-----------------------------------------------------------------------------
(* The parts of proto_crypt.c.                                             *)

(* The two nonces, the client's first.                                     *)
nonce_CS(p, h) ==
    IF p = "s" THEN <<h.nonce_remote, p>> ELSE <<p, h.nonce_remote>>

(* Mutant: the nonces are taken in local order.                            *)
proto_crypt_dhmac_local(p, h, who) == <<conf[p].K, <<p, h.nonce_remote>>, who>>

(* The key, as p computes it, of the MAC on the parameter of who.          *)
proto_crypt_dhmac(p, h, who) == <<conf[p].K, nonce_CS(p, h), who>>

HMAC(key, y) == <<key, y>>

(* Mutant: the value 1 is let through.                                     *)
proto_crypt_dh_validate_one(p, h, yh) ==
    yh.mac = HMAC(proto_crypt_dhmac(p, h, Peer(p)), yh.y)

proto_crypt_dh_validate(p, h, yh) ==
    /\ yh.mac = HMAC(proto_crypt_dhmac(p, h, Peer(p)), yh.y)
    /\ conf[p].requirepfs => yh.y # {}

proto_crypt_dh_generate(p, h) ==
    LET y == IF conf[p].nopfs THEN {} ELSE {p}
    IN  [y |-> y, mac |-> HMAC(proto_crypt_dhmac(p, h, p), y)]

(* Exponentiation: 1 stays 1.                                              *)
crypto_dh_compute(y, p) == IF y = {} THEN {} ELSE y \cup {p}

(* Mutant: the end that sent 1 still uses the value it received.           *)
proto_crypt_mkkeys_received(p, h) ==
    <<conf[p].K, nonce_CS(p, h),
      IF conf[p].nopfs THEN h.yh_remote.y ELSE crypto_dh_compute(h.yh_remote.y, p)>>

(* The pair of keys is determined by what it is derived from.              *)
proto_crypt_mkkeys(p, h) ==
    <<conf[p].K, nonce_CS(p, h),
      IF conf[p].nopfs THEN {} ELSE crypto_dh_compute(h.yh_remote.y, p)>>

-----------------------------------------------------------------------------
(* Steps of an end p; h is its cookie as the callback has left it.         *)

(* The cookie is freed; the connection drops its end of the stream.        *)
handshakefail(p, h) ==
    H' = [H EXCEPT ![p] = [h EXCEPT !.result = "failed",
                               !.read_cookie = "NULL", !.write_cookie = "NULL"]]

handshakedone(p, h) ==
    H' = [H EXCEPT ![p] = [h EXCEPT !.result = "done",
                                    !.keys = proto_crypt_mkkeys(p, h)]]

dhread(p, h) == H' = [H EXCEPT ![p] = [h EXCEPT !.read_cookie = "dh"]]

dhwrite(p, h) ==
    H' = [H EXCEPT ![p] = [h EXCEPT !.write_cookie = "dh"]]

gotnonces(p, h) == IF p = "s" THEN dhread(p, h) ELSE dhwrite(p, h)

(* A write in progress is completed: the message is in the stream.         *)
Written(p, m) == stream' = [stream EXCEPT ![p] = Append(@, m)]

(* Mutant: only the read callback looks whether both nonces are done.      *)
callback_nonce_write_alone(p) ==
    /\ H[p].write_cookie = "nonce"
    /\ ~broken
    /\ Written(p, [nonce |-> p])
    /\ H' = [H EXCEPT ![p].write_cookie = "NULL"]
    /\ UNCHANGED <<conf, broken, faults>>

callback_nonce_write(p) ==
    LET h == [H[p] EXCEPT !.write_cookie = "NULL"]
    IN  /\ H[p].write_cookie = "nonce"
        /\ ~broken
        /\ Written(p, [nonce |-> p])
        /\ IF h.read_cookie = "NULL" THEN gotnonces(p, h)
           ELSE H' = [H EXCEPT ![p] = h]
        /\ UNCHANGED <<conf, broken, faults>>

callback_nonce_read(p) ==
    /\ H[p].read_cookie = "nonce"
    /\ stream[Peer(p)] # <<>>
    /\ LET h == [H[p] EXCEPT !.read_cookie = "NULL",
                             !.nonce_remote = Head(stream[Peer(p)]).nonce]
       IN  IF h.write_cookie = "NULL" THEN gotnonces(p, h)
           ELSE H' = [H EXCEPT ![p] = h]
    /\ stream' = [stream EXCEPT ![Peer(p)] = Tail(@)]
    /\ UNCHANGED <<conf, broken, faults>>

callback_dh_write(p) ==
    LET h == [H[p] EXCEPT !.write_cookie = "NULL"]
    IN  /\ H[p].write_cookie = "dh"
        /\ ~broken
        /\ Written(p, proto_crypt_dh_generate(p, h))
        /\ IF p = "s" THEN handshakedone(p, h) ELSE dhread(p, h)
        /\ UNCHANGED <<conf, broken, faults>>

callback_dh_read(p) ==
    /\ H[p].read_cookie = "dh"
    /\ stream[Peer(p)] # <<>>
    /\ LET yh == Head(stream[Peer(p)])
           h == [H[p] EXCEPT !.read_cookie = "NULL", !.yh_remote = yh]
       IN  IF ~proto_crypt_dh_validate(p, h, yh) THEN handshakefail(p, h)
           ELSE IF p = "s" THEN dhwrite(p, h)
           ELSE handshakedone(p, h)
    /\ stream' = [stream EXCEPT ![Peer(p)] = Tail(@)]
    /\ UNCHANGED <<conf, broken, faults>>

(* A read at the end of a stream that has ended, or a write to it, comes   *)
(* back short.  The stream ends when the connection is lost or when the    *)
(* peer has failed.                                                        *)
short_read(p) ==
    /\ H[p].read_cookie # "NULL"
    /\ stream[Peer(p)] = <<>>
    /\ broken \/ H[Peer(p)].result = "failed"
    /\ handshakefail(p, [H[p] EXCEPT !.read_cookie = "NULL"])
    /\ UNCHANGED <<conf, stream, broken, faults>>

short_write(p) ==
    /\ H[p].write_cookie # "NULL"
    /\ broken \/ H[Peer(p)].result = "failed"
    /\ handshakefail(p, [H[p] EXCEPT !.write_cookie = "NULL"])
    /\ UNCHANGED <<conf, stream, broken, faults>>

-----------------------------------------------------------------------------
(* Faults.                                                                 *)

(* The end gives up: its timer has expired, or an allocation has failed    *)
(* (err1 of dhread, dhwrite and handshakedone).                            *)
proto_handshake_cancel(p) ==
    /\ faults < MaxFaults
    /\ H[p].result = "running"
    /\ handshakefail(p, H[p])
    /\ faults' = faults + 1
    /\ UNCHANGED <<conf, stream, broken>>

(* The connection between the two ends is lost, with any part of what is   *)
(* under way.                                                              *)
Break ==
    /\ faults < MaxFaults
    /\ ~broken
    /\ broken' = TRUE
    /\ \E c \in 0 .. Len(stream["c"]), s \in 0 .. Len(stream["s"]) :
          stream' = [p \in End |-> SubSeq(stream[p], 1, IF p = "c" THEN c ELSE s)]
    /\ faults' = faults + 1
    /\ UNCHANGED <<conf, H>>

(* A message is damaged under way: a nonce, the value or its MAC.          *)
Damage(p) ==
    /\ faults < MaxFaults
    /\ stream[p] # <<>>
    /\ LET n == Len(stream[p])
           Changed(v) == stream' = [stream EXCEPT ![p][n] = v]
       IN  IF "nonce" \in DOMAIN stream[p][n]
           THEN Changed([nonce |-> Damaged])
           ELSE \E part \in {"y", "mac"} :
                   Changed([stream[p][n] EXCEPT ![part] =
                               IF part = "y" THEN {Damaged} ELSE <<<<Damaged>>, {}>>])
    /\ faults' = faults + 1
    /\ UNCHANGED <<conf, H, broken>>

EndNext(p) ==
    \/ callback_nonce_write(p)
    \/ callback_nonce_read(p)
    \/ callback_dh_write(p)
    \/ callback_dh_read(p)
    \/ short_read(p)
    \/ short_write(p)

Next ==
    \E p \in End : EndNext(p) \/ proto_handshake_cancel(p) \/ Damage(p) \/ Break

(* What the network can do for an end that waits for it, it does.          *)
Spec == Init /\ [][Next]_hsvars

FairSpec == Spec /\ \A p \in End : WF_hsvars(EndNext(p))

-----------------------------------------------------------------------------
Done(p) == H[p].result = "done"

Nonce == End \cup {"none", Damaged}

TypeOK ==
    /\ conf \in [End -> Config]
    /\ \A p \in End :
          /\ H[p].read_cookie \in Cookie
          /\ H[p].write_cookie \in Cookie
          /\ H[p].nonce_remote \in Nonce
          /\ H[p].result \in {"running", "done", "failed"}
          /\ Done(p) => H[p].keys[3] \in SUBSET End
    /\ broken \in BOOLEAN
    /\ faults \in 0 .. MaxFaults

(* An end completes only against a peer with the same secret that has      *)
(* received this end's nonce undamaged: both have seen the same nonces.    *)
DoneMeansSamePeer ==
    \A p \in End : Done(p) =>
        /\ conf["c"].K = conf["s"].K
        /\ H["c"].nonce_remote = "s" /\ H["s"].nonce_remote = "c"

(* When the client completes, the server has derived the same keys: it has *)
(* accepted the client's parameter, and data the client now sends finds a  *)
(* server that can read it.  This holds whichever end skips the exchange   *)
(* (-f): the end that sent 1 takes 1 as the shared value, and the other    *)
(* end computes 1 from it.                                                 *)
KeysAgree == Done("c") => H["s"].keys = H["c"].keys

(* An end that requires perfect forward secrecy (-g) and completes shares  *)
(* a value that depends on the secret exponents of both ends.              *)
RequiredPfsHolds ==
    \A p \in End : Done(p) /\ conf[p].requirepfs => H[p].keys[3] = End

(* The three together: ends that complete have met each other, agree, and  *)
(* have the secrecy they asked for.                                        *)
Agreement == DoneMeansSamePeer /\ KeysAgree /\ RequiredPfsHolds

(* Neither end has a read or a write left once the handshake is over, as   *)
(* handshakedone asserts, so nothing calls back into the freed cookie.     *)
NothingPending ==
    \A p \in End : H[p].result # "running" =>
        H[p].read_cookie = "NULL" /\ H[p].write_cookie = "NULL"

(* An end that is still at it is reading or writing something: no order of *)
(* the callbacks leaves it with nothing to wait for.                       *)
NeverStuck ==
    \A p \in End : H[p].result = "running" =>
        H[p].read_cookie # "NULL" \/ H[p].write_cookie # "NULL"

(* The two together: a handshake waits for something as long as it runs,   *)
(* and for nothing any more once it is over.                               *)
CallbacksSound == NothingPending /\ NeverStuck

(* The configurations that fit together.                                   *)
Compatible ==
    /\ conf["c"].K = conf["s"].K
    /\ \A p \in End : conf[p].requirepfs => ~conf[Peer(p)].nopfs

(* Without faults, ends that fit together both complete; if they do not    *)
(* fit together, the client learns of it without waiting for its timer.    *)
HandshakeEnds ==
    [](faults = 0) =>
        /\ Compatible => <>(Done("c") /\ Done("s"))
        /\ ~Compatible => <>(H["c"].result = "failed")
=============================================================================
