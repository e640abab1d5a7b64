------------------------ MODULE ProtoHandshakeProofs ------------------------
(***************************************************************************)
(* For every set of secrets and any number of faults: ends that complete   *)
(* the handshake agree, and a handshake that runs waits for something.     *)
(* Then the same for two of the parts it rests on, HwAccel and Entropy.    *)
(*                                                                         *)
(* The argument.  Kind says what is in a stream: the nonce message is the  *)
(* first thing the peer reads, and everything after it is a Diffie-Hellman *)
(* parameter.  Sent says who made a parameter: a MAC that is not damaged   *)
(* is the one the sender computed from its own secret and from the nonces  *)
(* it has, which do not change any more.  So a MAC that verifies means     *)
(* that both ends have the same secret and the same nonces, which is what  *)
(* Accepted records; and a parameter of the server means that the server   *)
(* has completed, because it completes in the step that sends it.          *)
(***************************************************************************)
EXTENDS ProtoHandshake, HwAccel, Entropy, TLAPS

(* A Diffie-Hellman value: whose exponents it is made of.                  *)
Val == SUBSET (End \cup {Damaged})

(* A key of dhmac: the secret, both nonces and the end that uses it.       *)
MacKey == Secret \X (Nonce \X Nonce) \X End

(* <<>> before a parameter is received; a damaged MAC verifies nowhere.    *)
BadMac == <<<<Damaged>>, {}>>

(* A MAC: of a value, under a key.                                         *)
Mac == {<<>>, BadMac} \cup (MacKey \X Val)

(* The first message.                                                      *)
NonceMsg == [nonce : Nonce]

(* The second message.                                                     *)
DhMsg == [y : Val, mac : Mac]

(* The session keys, or none yet.                                          *)
SessionKeys == {<<>>} \cup (Secret \X (Nonce \X Nonce) \X Val)

(* The state of one end.                                                   *)
HandshakeCookie ==
    [read_cookie : Cookie, write_cookie : Cookie, nonce_remote : Nonce,
     yh_remote : DhMsg, keys : SessionKeys, result : {"running", "done", "failed"}]

(* The types of the variables.                                             *)
Types ==
    /\ conf \in [End -> Config]
    /\ H \in [End -> HandshakeCookie]
    /\ stream \in [End -> Seq(NonceMsg \cup DhMsg)]
    /\ broken \in BOOLEAN
    /\ faults \in Nat

(* What p reads and writes, by how far it has come.                        *)
Reading(p) == <<H[p].read_cookie, H[p].write_cookie>>

(* An end that runs reads or writes, in one of five combinations; one that *)
(* does not run does neither.                                              *)
Progress(p) ==
    /\ H[p].result = "running" =>
          Reading(p) \in {<<"nonce", "nonce">>, <<"NULL", "nonce">>, <<"nonce", "NULL">>,
                          <<"NULL", "dh">>, <<"dh", "NULL">>}
    /\ H[p].result # "running" => Reading(p) = <<"NULL", "NULL">>
    /\ H[p].read_cookie = "nonce" => H[p].nonce_remote = "none"
    /\ H[p].result # "failed" /\ H[p].read_cookie # "nonce" =>
          H[p].nonce_remote \in {Peer(p), Damaged}
    /\ H[p].nonce_remote \in {"none", Peer(p), Damaged}
    /\ H[p].write_cookie = "nonce" =>
          stream[p] = <<>> /\ H[Peer(p)].nonce_remote = "none"

(* The stream of p: a nonce comes first, and only if the peer has not had  *)
(* it.                                                                     *)
Kind(p) ==
    /\ \A i \in 1 .. Len(stream[p]) :
          IF i = 1 /\ H[Peer(p)].nonce_remote = "none"
          THEN stream[p][i] \in NonceMsg /\ stream[p][i].nonce \in {p, Damaged}
          ELSE stream[p][i] \in DhMsg
    /\ ~broken /\ H[p].result # "failed" /\ H[p].write_cookie # "nonce" =>
          stream[p] # <<>> \/ H[Peer(p)].nonce_remote # "none"

(* The parameter of p, which is 1 if p skips the exchange.                 *)
Param(p) == IF conf[p].nopfs THEN {} ELSE {p}

(* A parameter on its way from p is the one p made, or damaged.            *)
Sent(p) ==
    \A i \in 1 .. Len(stream[p]) : stream[p][i] \in DhMsg =>
        /\ H[p].nonce_remote \in {Peer(p), Damaged}
        /\ stream[p][i].mac \in {BadMac, HMAC(proto_crypt_dhmac(p, H[p], p), Param(p))}
        /\ p = "s" => H[p].result = "done"

(* p has accepted the parameter of its peer.                               *)
HasAccepted(p) ==
    H[p].result = "done" \/ (p = "s" /\ H[p].write_cookie = "dh")

(* Then both ends have the same secret and the same nonces, and the        *)
(* parameter is the one the peer made.                                     *)
Accepted(p) ==
    HasAccepted(p) =>
        /\ conf["c"].K = conf["s"].K
        /\ H["c"].nonce_remote = "s" /\ H["s"].nonce_remote = "c"
        /\ H[p].yh_remote.y = Param(Peer(p))
        /\ conf[p].requirepfs => Param(Peer(p)) # {}
        /\ p = "c" => H["s"].result = "done"

(* The keys of an end that is done are the ones mkkeys gives.              *)
Derived(p) == H[p].result = "done" => H[p].keys = proto_crypt_mkkeys(p, H[p])

(* The inductive invariant.                                                *)
IInv ==
    /\ Types
    /\ \A p \in End : Progress(p) /\ Kind(p) /\ Sent(p) /\ Accepted(p) /\ Derived(p)

-----------------------------------------------------------------------------
(* There are two ends, and each is the peer of the other.                  *)
LEMMA TwoEnds ==
    ASSUME NEW p \in End
    PROVE  /\ Peer(p) \in End /\ Peer(p) # p /\ Peer(Peer(p)) = p
           /\ End = {p, Peer(p)}
           /\ p \in Nonce \ {"none", Damaged}
BY DEF End, Peer, Nonce, Damaged

(* The invariant holds when both handshakes begin.                         *)
LEMMA InvInit == ASSUME Init PROVE IInv
<1> USE DEF Init, proto_handshake
<1>1. Types
    <2>1. proto_handshake \in HandshakeCookie
        BY DEF HandshakeCookie, Cookie, Nonce, DhMsg, Val, Mac, SessionKeys
    <2>2. stream \in [End -> Seq(NonceMsg \cup DhMsg)]
        OBVIOUS
    <2> QED
        BY <2>1, <2>2, Zenon DEF Types
<1>2. ASSUME NEW p \in End
      PROVE  Progress(p) /\ Kind(p) /\ Sent(p) /\ Accepted(p) /\ Derived(p)
    BY TwoEnds DEF Progress, Kind, Sent, Accepted, HasAccepted, Derived, Reading
<1> QED
    BY <1>1, <1>2 DEF IInv

(* What p computes stays in the types.                                     *)
LEMMA CryptTypes ==
    ASSUME Types, NEW p \in End, NEW h \in HandshakeCookie
    PROVE  /\ proto_crypt_dh_generate(p, h) \in DhMsg
           /\ proto_crypt_mkkeys(p, h) \in SessionKeys
<1>1. conf[p].K \in Secret /\ conf[p].nopfs \in BOOLEAN
    BY DEF Types, Config
<1>2. nonce_CS(p, h) \in Nonce \X Nonce
    BY DEF HandshakeCookie, nonce_CS, Nonce
<1>3. proto_crypt_dhmac(p, h, p) \in MacKey
    BY <1>1, <1>2 DEF proto_crypt_dhmac, MacKey
<1>4. {} \in Val /\ {p} \in Val /\ h.yh_remote.y \in Val
    BY DEF Val, HandshakeCookie, DhMsg
<1>5. crypto_dh_compute(h.yh_remote.y, p) \in Val
    BY <1>4 DEF crypto_dh_compute, Val
<1>6. proto_crypt_dh_generate(p, h) \in DhMsg
    BY <1>1, <1>3, <1>4 DEF proto_crypt_dh_generate, HMAC, DhMsg, Mac
<1>7. proto_crypt_mkkeys(p, h) \in SessionKeys
    BY <1>1, <1>2, <1>4, <1>5 DEF proto_crypt_mkkeys, SessionKeys
<1> QED
    BY <1>6, <1>7

(* A MAC that verifies was made by the peer, from the same secret and the  *)
(* same nonces, over the value it covers.                                  *)
LEMMA Verified ==
    ASSUME Types, NEW p \in End, NEW h, NEW g, NEW yh,
           proto_crypt_dh_validate(p, h, yh),
           yh.mac \in {BadMac, HMAC(proto_crypt_dhmac(Peer(p), g, Peer(p)), Param(Peer(p)))}
    PROVE  /\ conf["c"].K = conf["s"].K
           /\ nonce_CS(p, h) = nonce_CS(Peer(p), g)
           /\ yh.y = Param(Peer(p))
           /\ conf[p].requirepfs => Param(Peer(p)) # {}
<1> DEFINE k == proto_crypt_dhmac(p, h, Peer(p))
           l == proto_crypt_dhmac(Peer(p), g, Peer(p))
<1>1. yh.mac = <<k, yh.y>>
    BY DEF proto_crypt_dh_validate, HMAC
<1>2. k = <<conf[p].K, nonce_CS(p, h), Peer(p)>> /\ l = <<conf[Peer(p)].K, nonce_CS(Peer(p), g), Peer(p)>>
    BY DEF proto_crypt_dhmac
<1>3. k # <<Damaged>>
    <2>1. DOMAIN k = 1 .. 3 /\ DOMAIN <<Damaged>> = 1 .. 1
        BY <1>2
    <2> QED
        BY <2>1
<1> HIDE DEF k, l
<1>4. yh.mac # BadMac
    BY <1>1, <1>3 DEF BadMac
<1>5. <<k, yh.y>> = <<l, Param(Peer(p))>>
    BY <1>1, <1>4 DEF HMAC, l
<1>6. k = l /\ yh.y = Param(Peer(p))
    BY <1>5
<1>7. conf[p].K = conf[Peer(p)].K /\ nonce_CS(p, h) = nonce_CS(Peer(p), g)
    BY <1>2, <1>6
<1> QED
    BY <1>6, <1>7, TwoEnds DEF proto_crypt_dh_validate, Peer, End

-----------------------------------------------------------------------------
(* What no step undoes: an end keeps the nonce it has received, and stays  *)
(* done.                                                                   *)
Lasting ==
    /\ conf' = conf
    /\ \A e \in End :
          /\ H[e].nonce_remote # "none" => H'[e].nonce_remote = H[e].nonce_remote
          /\ H[e].result = "done" => H'[e].result = "done"

(* A parameter that is still on its way stays what it is, or is damaged.   *)
LEMMA SentKept ==
    ASSUME Lasting, NEW p \in End, Sent(p),
           \A i \in 1 .. Len(stream'[p]) : stream'[p][i] \in DhMsg =>
              \E j \in 1 .. Len(stream[p]) :
                 stream[p][j] \in DhMsg /\ stream'[p][i].mac \in {stream[p][j].mac, BadMac}
    PROVE  Sent(p)'
<1> SUFFICES ASSUME NEW i \in 1 .. Len(stream'[p]), stream'[p][i] \in DhMsg
             PROVE  /\ H'[p].nonce_remote \in {Peer(p), Damaged}
                    /\ stream'[p][i].mac \in
                          {BadMac, HMAC(proto_crypt_dhmac(p, H[p], p), Param(p))'}
                    /\ p = "s" => H'[p].result = "done"
    BY DEF Sent
<1>1. PICK j \in 1 .. Len(stream[p]) :
         stream[p][j] \in DhMsg /\ stream'[p][i].mac \in {stream[p][j].mac, BadMac}
    OBVIOUS
<1>2. /\ H[p].nonce_remote \in {Peer(p), Damaged}
      /\ stream[p][j].mac \in {BadMac, HMAC(proto_crypt_dhmac(p, H[p], p), Param(p))}
      /\ p = "s" => H[p].result = "done"
    BY <1>1 DEF Sent
<1>3. H[p].nonce_remote # "none"
    BY <1>2 DEF Peer, Damaged
<1>4. H'[p].nonce_remote = H[p].nonce_remote /\ conf' = conf
    BY <1>3 DEF Lasting
<1>5. HMAC(proto_crypt_dhmac(p, H[p], p), Param(p))' = HMAC(proto_crypt_dhmac(p, H[p], p), Param(p))
    BY <1>4 DEF HMAC, proto_crypt_dhmac, nonce_CS, Param
<1> QED
    BY <1>1, <1>2, <1>4, <1>5 DEF Lasting

(* An end that has accepted the parameter of its peer stands by it.        *)
LEMMA AcceptedKept ==
    ASSUME Lasting, NEW p \in End, Accepted(p),
           HasAccepted(p)' => HasAccepted(p) /\ H'[p].yh_remote = H[p].yh_remote
    PROVE  Accepted(p)'
<1>1. CASE HasAccepted(p)'
    <2>1. /\ conf["c"].K = conf["s"].K
          /\ H["c"].nonce_remote = "s" /\ H["s"].nonce_remote = "c"
          /\ H[p].yh_remote.y = Param(Peer(p))
          /\ conf[p].requirepfs => Param(Peer(p)) # {}
          /\ p = "c" => H["s"].result = "done"
        BY <1>1 DEF Accepted
    <2>2. H'["c"].nonce_remote = "s" /\ H'["s"].nonce_remote = "c"
        BY <2>1 DEF Lasting, End
    <2>3. conf' = conf /\ Param(Peer(p))' = Param(Peer(p))
        BY DEF Lasting, Param, Peer
    <2> QED
        BY <1>1, <2>1, <2>2, <2>3 DEF Accepted, Lasting, End
<1> QED
    BY <1>1 DEF Accepted

(* A step that leaves the keys of p, and what they are made of, alone.     *)
LEMMA DerivedKept ==
    ASSUME NEW p \in End, Derived(p), conf' = conf,
           H'[p].result = "done" =>
              H[p].result = "done" /\ H'[p].keys = H[p].keys
                 /\ H'[p].yh_remote = H[p].yh_remote /\ H'[p].nonce_remote = H[p].nonce_remote
    PROVE  Derived(p)'
BY DEF Derived, proto_crypt_mkkeys, nonce_CS

-----------------------------------------------------------------------------
(* One lemma per step.  p moves; its peer is q.                            *)

(* callback_nonce_write keeps the invariant.                               *)
LEMMA NonceWriteKeepsInv ==
    ASSUME IInv, NEW p \in End, callback_nonce_write(p)
    PROVE  IInv'
<1> DEFINE q == Peer(p)
           m == [nonce |-> p]
<1>1. /\ q \in End /\ q # p /\ Peer(q) = p /\ End = {p, q}
      /\ p \in Nonce
    BY TwoEnds
<1> HIDE DEF q
<1>2. Types /\ Progress(p) /\ Kind(p) /\ Sent(p) /\ Accepted(p) /\ Derived(p)
            /\ Progress(q) /\ Kind(q) /\ Sent(q) /\ Accepted(q) /\ Derived(q)
    BY <1>1 DEF IInv
<1>3. /\ H[p].result = "running" /\ H[p].write_cookie = "nonce"
      /\ H[p].read_cookie \in {"nonce", "NULL"}
      /\ H[p] \in HandshakeCookie
      /\ stream[p] = <<>> /\ H[q].nonce_remote = "none"
    BY <1>2 DEF callback_nonce_write, Progress, Reading, Types, q
<1>4. /\ H' = [H EXCEPT ![p] = H'[p]]
      /\ H'[p] = IF H[p].read_cookie = "nonce" THEN [H[p] EXCEPT !.write_cookie = "NULL"]
                 ELSE IF p = "s" THEN [H[p] EXCEPT !.write_cookie = "NULL", !.read_cookie = "dh"]
                 ELSE [H[p] EXCEPT !.write_cookie = "dh"]
    BY <1>2, <1>3, Zenon DEF callback_nonce_write, gotnonces, dhread, dhwrite, Types,
       HandshakeCookie
<1>5. /\ H'[q] = H[q]
      /\ H'[p] \in HandshakeCookie
      /\ H'[p].result = "running" /\ H'[p].nonce_remote = H[p].nonce_remote
      /\ Reading(p)' \in {<<"nonce", "NULL">>, <<"NULL", "dh">>, <<"dh", "NULL">>}
      /\ H'[p].read_cookie = "nonce" <=> H[p].read_cookie = "nonce"
      /\ p = "s" => H'[p].write_cookie # "dh"
    <2>1. H'[q] = H[q]
        BY <1>1, <1>2, <1>4 DEF Types
    <2>2. CASE H[p].read_cookie = "nonce"
        <3>1. H'[p] = [H[p] EXCEPT !.write_cookie = "NULL"]
            BY <1>4, <2>2
        <3> QED
            BY <1>3, <2>1, <2>2, <3>1 DEF HandshakeCookie, Cookie, Reading
    <2>3. CASE H[p].read_cookie # "nonce" /\ p = "s"
        <3>1. H'[p] = [H[p] EXCEPT !.write_cookie = "NULL", !.read_cookie = "dh"]
            BY <1>4, <2>3
        <3> QED
            BY <1>3, <2>1, <2>3, <3>1, Zenon DEF HandshakeCookie, Cookie, Reading
    <2>4. CASE H[p].read_cookie # "nonce" /\ p # "s"
        <3>1. H'[p] = [H[p] EXCEPT !.write_cookie = "dh"]
            BY <1>4, <2>4
        <3> QED
            BY <1>3, <2>1, <2>4, <3>1 DEF HandshakeCookie, Cookie, Reading
    <2> QED
        BY <2>2, <2>3, <2>4
<1>6. stream' = [stream EXCEPT ![p] = <<m>>] /\ UNCHANGED <<conf, broken, faults>>
    BY <1>2, <1>3 DEF callback_nonce_write, Written, Types
<1>7. m \in NonceMsg /\ m.nonce = p /\ m \notin DhMsg
    BY <1>1 DEF NonceMsg, DhMsg
<1> HIDE DEF m
<1>8. stream'[p] = <<m>> /\ stream'[q] = stream[q]
    BY <1>1, <1>2, <1>6 DEF Types
<1>9. Types'
    BY <1>1, <1>2, <1>4, <1>5, <1>6, <1>7 DEF Types
<1>10. Progress(p)' /\ Progress(q)'
    BY <1>1, <1>2, <1>3, <1>5, <1>8 DEF Progress, Reading, q
<1>11. Kind(p)'
    BY <1>1, <1>5, <1>3, <1>7, <1>8 DEF Kind, q
<1>12. Kind(q)'
    BY <1>1, <1>2, <1>5, <1>6, <1>8 DEF Kind, q
<1>13. Lasting
    BY <1>1, <1>3, <1>5, <1>6 DEF Lasting
<1>14. Sent(p)'
    BY <1>13, <1>2, <1>7, <1>8, SentKept
<1>15. Sent(q)'
    BY <1>13, <1>1, <1>2, <1>8, SentKept
<1>16. Accepted(p)' /\ Accepted(q)'
    BY <1>13, <1>1, <1>2, <1>5, AcceptedKept DEF HasAccepted
<1>17. Derived(p)' /\ Derived(q)'
    BY <1>1, <1>2, <1>5, <1>6, DerivedKept
<1> QED
    BY <1>1, <1>9, <1>10, <1>11, <1>12, <1>14, <1>15, <1>16, <1>17 DEF IInv

(* The rest of a stream.                                                   *)
LEMMA Rest ==
    ASSUME NEW S, NEW t \in Seq(S), t # <<>>
    PROVE  /\ Tail(t) \in Seq(S) /\ Head(t) = t[1] /\ Head(t) \in S
           /\ Len(t) \in Nat \ {0} /\ Len(Tail(t)) = Len(t) - 1
           /\ \A i \in 1 .. Len(Tail(t)) : i + 1 \in 2 .. Len(t) /\ Tail(t)[i] = t[i + 1]
OBVIOUS

(* callback_nonce_read keeps the invariant.                                *)
LEMMA NonceReadKeepsInv ==
    ASSUME IInv, NEW p \in End, callback_nonce_read(p)
    PROVE  IInv'
<1> DEFINE q == Peer(p)
           n == Head(stream[q]).nonce
<1>1. /\ q \in End /\ q # p /\ Peer(q) = p /\ End = {p, q}
      /\ q \in Nonce /\ q # "none"
    BY TwoEnds
<1>2. Types /\ Progress(p) /\ Kind(p) /\ Sent(p) /\ Accepted(p) /\ Derived(p)
            /\ Progress(q) /\ Kind(q) /\ Sent(q) /\ Accepted(q) /\ Derived(q)
    BY <1>1 DEF IInv
<1>3. /\ H[p].result = "running" /\ H[p].read_cookie = "nonce"
      /\ H[p].write_cookie \in {"nonce", "NULL"}
      /\ H[p].nonce_remote = "none"
      /\ H[p] \in HandshakeCookie
      /\ stream[q] # <<>> /\ stream[q] \in Seq(NonceMsg \cup DhMsg)
    BY <1>1, <1>2 DEF callback_nonce_read, Progress, Reading, Types
<1>4. /\ Tail(stream[q]) \in Seq(NonceMsg \cup DhMsg) /\ Head(stream[q]) = stream[q][1]
      /\ Len(stream[q]) \in Nat \ {0}
      /\ \A i \in 1 .. Len(Tail(stream[q])) :
            i + 1 \in 2 .. Len(stream[q]) /\ Tail(stream[q])[i] = stream[q][i + 1]
    BY <1>3, Rest
<1>5. n \in {q, Damaged} /\ n \in Nonce /\ n # "none"
    BY <1>1, <1>2, <1>3, <1>4 DEF Kind, Nonce, Damaged
<1>6. stream' = [stream EXCEPT ![q] = Tail(stream[q])] /\ UNCHANGED <<conf, broken, faults>>
    BY DEF callback_nonce_read
<1>7. /\ H' = [H EXCEPT ![p] = H'[p]]
      /\ H'[p] = IF H[p].write_cookie = "nonce"
                 THEN [H[p] EXCEPT !.read_cookie = "NULL", !.nonce_remote = n]
                 ELSE IF p = "s" THEN [H[p] EXCEPT !.read_cookie = "dh", !.nonce_remote = n]
                 ELSE [H[p] EXCEPT !.read_cookie = "NULL", !.nonce_remote = n, !.write_cookie = "dh"]
    BY <1>2, <1>3, Zenon DEF callback_nonce_read, gotnonces, dhread, dhwrite, Types, HandshakeCookie
<1> HIDE DEF n
<1>8. /\ H'[q] = H[q]
      /\ H'[p] \in HandshakeCookie
      /\ H'[p].result = "running" /\ H'[p].nonce_remote = n
      /\ Reading(p)' \in {<<"NULL", "nonce">>, <<"NULL", "dh">>, <<"dh", "NULL">>}
      /\ H'[p].write_cookie = "nonce" <=> H[p].write_cookie = "nonce"
      /\ p = "s" => H'[p].write_cookie # "dh"
    BY <1>1, <1>2, <1>3, <1>5, <1>7, Zenon DEF Types, HandshakeCookie, Cookie, Reading
<1>9. stream'[p] = stream[p] /\ stream'[q] = Tail(stream[q])
    BY <1>1, <1>2, <1>6 DEF Types
<1>10. Types'
    BY <1>1, <1>2, <1>4, <1>6, <1>7, <1>8 DEF Types
<1>11. Progress(p)' /\ Progress(q)'
    BY <1>1, <1>2, <1>3, <1>5, <1>8, <1>9 DEF Progress, Reading
<1>12. Kind(p)'
    BY <1>1, <1>2, <1>3, <1>6, <1>8, <1>9 DEF Kind
<1>13. Kind(q)'
    <2>1. \A i \in 2 .. Len(stream[q]) : stream[q][i] \in DhMsg
        BY <1>2, <1>4 DEF Kind
    <2>2. \A i \in 1 .. Len(stream'[q]) : stream'[q][i] \in DhMsg
        BY <2>1, <1>4, <1>9
    <2> QED
        BY <2>2, <1>1, <1>5, <1>8 DEF Kind
<1>14. Lasting
    BY <1>1, <1>3, <1>6, <1>8 DEF Lasting
<1>15. Sent(p)'
    BY <1>14, <1>2, <1>9, SentKept
<1>16. Sent(q)'
    <2>1. \A i \in 1 .. Len(stream'[q]) : stream'[q][i] \in DhMsg =>
              \E j \in 1 .. Len(stream[q]) :
                 stream[q][j] \in DhMsg /\ stream'[q][i].mac \in {stream[q][j].mac, BadMac}
        BY <1>4, <1>9
    <2> QED
        BY <2>1, <1>14, <1>1, <1>2, SentKept
<1>17. Accepted(p)' /\ Accepted(q)'
    BY <1>14, <1>1, <1>2, <1>8, AcceptedKept DEF HasAccepted
<1>18. Derived(p)' /\ Derived(q)'
    BY <1>1, <1>2, <1>6, <1>8, DerivedKept
<1> QED
    BY <1>1, <1>10, <1>11, <1>12, <1>13, <1>15, <1>16, <1>17, <1>18 DEF IInv

(* callback_dh_write keeps the invariant.                                  *)
LEMMA DhWriteKeepsInv ==
    ASSUME IInv, NEW p \in End, callback_dh_write(p)
    PROVE  IInv'
<1> DEFINE q == Peer(p)
           h == [H[p] EXCEPT !.write_cookie = "NULL"]
           m == proto_crypt_dh_generate(p, h)
<1>1. q \in End /\ q # p /\ Peer(q) = p /\ End = {p, q}
    BY TwoEnds
<1>2. Types /\ Progress(p) /\ Kind(p) /\ Sent(p) /\ Accepted(p) /\ Derived(p)
            /\ Progress(q) /\ Kind(q) /\ Sent(q) /\ Accepted(q) /\ Derived(q)
    BY <1>1 DEF IInv
<1>3. /\ H[p].result = "running" /\ H[p].write_cookie = "dh" /\ H[p].read_cookie = "NULL"
      /\ H[p].nonce_remote \in {q, Damaged}
      /\ H[p] \in HandshakeCookie /\ h \in HandshakeCookie
      /\ ~broken
      /\ stream[p] \in Seq(NonceMsg \cup DhMsg)
    BY <1>1, <1>2 DEF callback_dh_write, Progress, Reading, Types, HandshakeCookie, Cookie
<1>4. m \in DhMsg /\ proto_crypt_mkkeys(p, h) \in SessionKeys
    BY <1>2, <1>3, CryptTypes
<1>5. stream' = [stream EXCEPT ![p] = Append(stream[p], m)] /\ UNCHANGED <<conf, broken, faults>>
    BY DEF callback_dh_write, Written
<1>6. /\ H' = [H EXCEPT ![p] = H'[p]]
      /\ H'[p] = IF p = "s"
                 THEN [H[p] EXCEPT !.write_cookie = "NULL", !.result = "done",
                                   !.keys = proto_crypt_mkkeys(p, h)]
                 ELSE [H[p] EXCEPT !.write_cookie = "NULL", !.read_cookie = "dh"]
    BY <1>2, <1>3 DEF callback_dh_write, dhread, handshakedone, Types, HandshakeCookie
<1>7. m.mac = HMAC(proto_crypt_dhmac(p, H[p], p), Param(p))
    BY <1>3 DEF proto_crypt_dh_generate, Param, proto_crypt_dhmac, nonce_CS, HandshakeCookie
<1>8. proto_crypt_mkkeys(p, h) = proto_crypt_mkkeys(p, H[p])
    BY <1>3 DEF proto_crypt_mkkeys, nonce_CS, HandshakeCookie
<1> HIDE DEF m, h
<1>9. /\ H'[q] = H[q]
      /\ H'[p] \in HandshakeCookie
      /\ H'[p].nonce_remote = H[p].nonce_remote /\ H'[p].yh_remote = H[p].yh_remote
      /\ H'[p].write_cookie = "NULL"
      /\ p = "s" => /\ H'[p].result = "done" /\ H'[p].read_cookie = "NULL"
                    /\ H'[p].keys = proto_crypt_mkkeys(p, H[p])
      /\ p # "s" => H'[p].result = "running" /\ H'[p].read_cookie = "dh"
    BY <1>1, <1>2, <1>3, <1>4, <1>6, <1>8, Zenon DEF Types, HandshakeCookie, Cookie
<1>10. /\ stream'[p] = Append(stream[p], m) /\ stream'[q] = stream[q]
       /\ stream'[p] \in Seq(NonceMsg \cup DhMsg)
       /\ Len(stream'[p]) = Len(stream[p]) + 1 /\ Len(stream[p]) \in Nat
       /\ \A i \in 1 .. Len(stream[p]) : stream'[p][i] = stream[p][i]
       /\ stream'[p][Len(stream[p]) + 1] = m
       /\ stream'[p] # <<>>
    <2>1. stream'[p] = Append(stream[p], m) /\ stream'[q] = stream[q]
        BY <1>1, <1>2, <1>5 DEF Types
    <2> QED
        BY <2>1, <1>3, <1>4
<1>11. Types'
    BY <1>1, <1>2, <1>5, <1>6, <1>9, <1>10 DEF Types
<1>12. Progress(p)' /\ Progress(q)'
    BY <1>1, <1>2, <1>3, <1>9, <1>10 DEF Progress, Reading, Damaged
<1>13. Kind(p)'
    <2>1. stream[p] # <<>> \/ H[q].nonce_remote # "none"
        BY <1>2, <1>3 DEF Kind
    <2>2. Len(stream[p]) + 1 = 1 => H[q].nonce_remote # "none"
        BY <2>1, <1>3, <1>10
    <2>3. \A i \in 1 .. Len(stream'[p]) :
             i \in 1 .. Len(stream[p]) \/ (i = Len(stream[p]) + 1 /\ stream'[p][i] = m)
        BY <1>10
    <2> QED
        BY <2>2, <2>3, <1>1, <1>2, <1>4, <1>9, <1>10 DEF Kind
<1>14. Kind(q)'
    BY <1>1, <1>2, <1>5, <1>9, <1>10 DEF Kind
<1>15. Lasting
    BY <1>1, <1>3, <1>5, <1>9 DEF Lasting
<1>16. Sent(p)'
    <2> SUFFICES ASSUME NEW i \in 1 .. Len(stream'[p]), stream'[p][i] \in DhMsg
                 PROVE  /\ H'[p].nonce_remote \in {q, Damaged}
                        /\ stream'[p][i].mac \in
                              {BadMac, HMAC(proto_crypt_dhmac(p, H[p], p), Param(p))'}
                        /\ p = "s" => H'[p].result = "done"
        BY DEF Sent
    <2>1. HMAC(proto_crypt_dhmac(p, H[p], p), Param(p))' = HMAC(proto_crypt_dhmac(p, H[p], p), Param(p))
        BY <1>5, <1>9 DEF HMAC, proto_crypt_dhmac, nonce_CS, Param
    <2>2. stream'[p][i].mac \in {BadMac, HMAC(proto_crypt_dhmac(p, H[p], p), Param(p))}
        <3>1. CASE i = Len(stream[p]) + 1
            BY <3>1, <1>7, <1>10
        <3>2. CASE i # Len(stream[p]) + 1
            <4>1. i \in 1 .. Len(stream[p])
                BY <3>2, <1>10
            <4> QED
                BY <4>1, <1>2, <1>10 DEF Sent
        <3> QED
            BY <3>1, <3>2
    <2> QED
        BY <2>1, <2>2, <1>3, <1>9
<1>17. Sent(q)'
    BY <1>15, <1>1, <1>2, <1>10, SentKept
<1>18. Accepted(p)' /\ Accepted(q)'
    BY <1>15, <1>1, <1>2, <1>3, <1>9, AcceptedKept DEF HasAccepted, End
<1>19. Derived(q)'
    BY <1>1, <1>2, <1>5, <1>9, DerivedKept
<1>20. Derived(p)'
    BY <1>3, <1>5, <1>9 DEF Derived, proto_crypt_mkkeys, nonce_CS
<1> QED
    BY <1>1, <1>11, <1>12, <1>13, <1>14, <1>16, <1>17, <1>18, <1>19, <1>20 DEF IInv

(* The end that fails keeps what it has received and waits for nothing.    *)
LEMMA FailKeepsInv ==
    ASSUME IInv, NEW p \in End, NEW h \in HandshakeCookie, handshakefail(p, h),
           h.nonce_remote = H[p].nonce_remote, H[p].result = "running",
           UNCHANGED <<conf, stream, broken>>, faults' \in Nat
    PROVE  IInv'
<1> DEFINE q == Peer(p)
<1>1. q \in End /\ q # p /\ Peer(q) = p /\ End = {p, q}
    BY TwoEnds
<1>2. Types /\ Progress(p) /\ Kind(p) /\ Sent(p) /\ Accepted(p) /\ Derived(p)
            /\ Progress(q) /\ Kind(q) /\ Sent(q) /\ Accepted(q) /\ Derived(q)
    BY <1>1 DEF IInv
<1>3. /\ H' = [H EXCEPT ![p] = H'[p]] /\ H'[q] = H[q]
      /\ H'[p] \in HandshakeCookie
      /\ H'[p].result = "failed" /\ H'[p].nonce_remote = H[p].nonce_remote
      /\ H'[p].read_cookie = "NULL" /\ H'[p].write_cookie = "NULL"
    BY <1>1, <1>2, Zenon DEF handshakefail, Types, HandshakeCookie, Cookie
<1>4. Types'
    BY <1>2, <1>3, Zenon DEF Types
<1>5. Progress(p)' /\ Progress(q)'
    BY <1>1, <1>2, <1>3 DEF Progress, Reading
<1>6. Kind(p)' /\ Kind(q)'
    BY <1>1, <1>2, <1>3 DEF Kind
<1>7. Lasting
    BY <1>1, <1>3 DEF Lasting
<1>8. Sent(p)' /\ Sent(q)'
    BY <1>7, <1>1, <1>2, SentKept
<1>9. Accepted(p)' /\ Accepted(q)'
    BY <1>7, <1>1, <1>2, <1>3, AcceptedKept DEF HasAccepted
<1>10. Derived(p)' /\ Derived(q)'
    BY <1>1, <1>2, <1>3, DerivedKept
<1> QED
    BY <1>1, <1>4, <1>5, <1>6, <1>8, <1>9, <1>10 DEF IInv

(* An end that gives up, by itself or because its owner cancels, keeps the *)
(* invariant.                                                              *)
LEMMA GivesUpKeepsInv ==
    ASSUME IInv, NEW p \in End,
           short_read(p) \/ short_write(p) \/ proto_handshake_cancel(p)
    PROVE  IInv'
<1>1. Types /\ Progress(p) /\ H[p] \in HandshakeCookie
    BY DEF IInv, Types
<1>2. CASE short_read(p)
    <2>1. /\ [H[p] EXCEPT !.read_cookie = "NULL"] \in HandshakeCookie
          /\ [H[p] EXCEPT !.read_cookie = "NULL"].nonce_remote = H[p].nonce_remote
          /\ H[p].result = "running"
        BY <1>1, <1>2 DEF short_read, HandshakeCookie, Cookie, Progress, Reading
    <2> QED
        BY <1>1, <1>2, <2>1, FailKeepsInv, Zenon DEF short_read, Types
<1>3. CASE short_write(p)
    <2>1. /\ [H[p] EXCEPT !.write_cookie = "NULL"] \in HandshakeCookie
          /\ [H[p] EXCEPT !.write_cookie = "NULL"].nonce_remote = H[p].nonce_remote
          /\ H[p].result = "running"
        BY <1>1, <1>3 DEF short_write, HandshakeCookie, Cookie, Progress, Reading
    <2> QED
        BY <1>1, <1>3, <2>1, FailKeepsInv, Zenon DEF short_write, Types
<1>4. CASE proto_handshake_cancel(p)
    BY <1>1, <1>4, FailKeepsInv DEF proto_handshake_cancel, Types
<1> QED
    BY <1>2, <1>3, <1>4

(* callback_dh_read keeps the invariant: the case where a MAC is verified. *)
LEMMA DhReadKeepsInv ==
    ASSUME IInv, NEW p \in End, callback_dh_read(p)
    PROVE  IInv'
<1> DEFINE q == Peer(p)
           yh == Head(stream[q])
           h == [H[p] EXCEPT !.read_cookie = "NULL", !.yh_remote = yh]
<1>1. q \in End /\ q # p /\ Peer(q) = p /\ End = {p, q}
    BY TwoEnds
<1>2. Types /\ Progress(p) /\ Kind(p) /\ Sent(p) /\ Accepted(p) /\ Derived(p)
            /\ Progress(q) /\ Kind(q) /\ Sent(q) /\ Accepted(q) /\ Derived(q)
    BY <1>1 DEF IInv
<1>3. /\ H[p].result = "running" /\ H[p].read_cookie = "dh" /\ H[p].write_cookie = "NULL"
      /\ H[p].nonce_remote \in {q, Damaged} /\ H[p].nonce_remote # "none"
      /\ H[p] \in HandshakeCookie
      /\ stream[q] # <<>> /\ stream[q] \in Seq(NonceMsg \cup DhMsg)
    <2>1. /\ H[p].result = "running" /\ H[p].read_cookie = "dh" /\ H[p].write_cookie = "NULL"
          /\ H[p].nonce_remote \in {q, Damaged}
        BY <1>1, <1>2 DEF callback_dh_read, Progress, Reading
    <2>2. q # "none" /\ Damaged # "none"
        BY DEF Peer, Damaged
    <2> QED
        BY <2>1, <2>2, <1>1, <1>2 DEF callback_dh_read, Types
<1>4. /\ Tail(stream[q]) \in Seq(NonceMsg \cup DhMsg) /\ yh = stream[q][1]
      /\ Len(stream[q]) \in Nat \ {0}
      /\ \A i \in 1 .. Len(Tail(stream[q])) :
            i + 1 \in 2 .. Len(stream[q]) /\ Tail(stream[q])[i] = stream[q][i + 1]
    BY <1>3, Rest
<1>5. \A i \in 1 .. Len(stream[q]) : stream[q][i] \in DhMsg
    BY <1>1, <1>2, <1>3 DEF Kind
<1>6. /\ yh \in DhMsg
      /\ H[q].nonce_remote \in {p, Damaged}
      /\ yh.mac \in {BadMac, HMAC(proto_crypt_dhmac(q, H[q], q), Param(q))}
      /\ q = "s" => H[q].result = "done"
    <2>1. 1 \in 1 .. Len(stream[q]) /\ stream[q][1] \in DhMsg
        BY <1>4, <1>5
    <2> QED
        BY <2>1, <1>1, <1>2, <1>4 DEF Sent
<1>7. stream' = [stream EXCEPT ![q] = Tail(stream[q])] /\ UNCHANGED <<conf, broken, faults>>
    BY DEF callback_dh_read
<1>8. stream'[p] = stream[p] /\ stream'[q] = Tail(stream[q])
    BY <1>1, <1>2, <1>7 DEF Types
<1>9. \A i \in 1 .. Len(stream'[q]) : stream'[q][i] \in DhMsg
    BY <1>4, <1>5, <1>8
<1>10. h \in HandshakeCookie /\ h.nonce_remote = H[p].nonce_remote
    BY <1>3, <1>6, Zenon DEF HandshakeCookie, Cookie
<1>11. proto_crypt_mkkeys(p, h) \in SessionKeys
    BY <1>2, <1>10, CryptTypes
<1>12. /\ H' = [H EXCEPT ![p] = H'[p]]
       /\ H'[p] = IF ~proto_crypt_dh_validate(p, h, yh)
                  THEN [h EXCEPT !.result = "failed", !.read_cookie = "NULL", !.write_cookie = "NULL"]
                  ELSE IF p = "s" THEN [h EXCEPT !.write_cookie = "dh"]
                  ELSE [h EXCEPT !.result = "done", !.keys = proto_crypt_mkkeys(p, h)]
    BY <1>2, <1>3 DEF callback_dh_read, handshakefail, dhwrite, handshakedone, Types
<1>13. h.read_cookie = "NULL" /\ h.write_cookie = "NULL" /\ h.result = "running" /\ h.yh_remote = yh
    BY <1>3 DEF HandshakeCookie
<1> HIDE DEF h, yh
<1>14. /\ H'[q] = H[q] /\ H'[p] \in HandshakeCookie
       /\ H'[p].nonce_remote = H[p].nonce_remote /\ H'[p].yh_remote = yh
       /\ H'[p].read_cookie = "NULL"
       /\ \/ H'[p].result = "failed" /\ H'[p].write_cookie = "NULL"
          \/ /\ p = "s" /\ H'[p].result = "running" /\ H'[p].write_cookie = "dh"
             /\ proto_crypt_dh_validate(p, h, yh)
          \/ /\ p = "c" /\ H'[p].result = "done" /\ H'[p].write_cookie = "NULL"
             /\ proto_crypt_dh_validate(p, h, yh) /\ H'[p].keys = proto_crypt_mkkeys(p, h)
    <2>1. H'[q] = H[q]
        BY <1>1, <1>2, <1>12 DEF Types
    <2>2. CASE ~proto_crypt_dh_validate(p, h, yh)
        BY <2>1, <2>2, <1>10, <1>12, <1>13, Zenon DEF HandshakeCookie, Cookie
    <2>3. CASE proto_crypt_dh_validate(p, h, yh) /\ p = "s"
        BY <2>1, <2>3, <1>10, <1>12, <1>13 DEF HandshakeCookie, Cookie
    <2>4. CASE proto_crypt_dh_validate(p, h, yh) /\ p = "c"
        BY <2>1, <2>4, <1>10, <1>11, <1>12, <1>13, Zenon DEF HandshakeCookie, Cookie
    <2> QED
        BY <2>2, <2>3, <2>4 DEF End
<1>15. Types'
    BY <1>1, <1>2, <1>4, <1>7, <1>8, <1>12, <1>14 DEF Types
<1>16. Progress(p)' /\ Progress(q)'
    BY <1>1, <1>2, <1>3, <1>8, <1>14 DEF Progress, Reading
<1>17. Kind(p)'
    BY <1>1, <1>2, <1>3, <1>7, <1>8, <1>14 DEF Kind
<1>18. Kind(q)'
    BY <1>1, <1>3, <1>9, <1>14 DEF Kind
<1>19. Lasting
    BY <1>1, <1>3, <1>7, <1>14 DEF Lasting
<1>20. Sent(p)'
    BY <1>19, <1>2, <1>8, SentKept
<1>21. Sent(q)'
    <2>1. \A i \in 1 .. Len(stream'[q]) : stream'[q][i] \in DhMsg =>
              \E j \in 1 .. Len(stream[q]) :
                 stream[q][j] \in DhMsg /\ stream'[q][i].mac \in {stream[q][j].mac, BadMac}
        BY <1>4, <1>8
    <2> QED
        BY <2>1, <1>19, <1>1, <1>2, SentKept
<1>22. Accepted(p)'
    <2>1. CASE H'[p].result = "failed"
        BY <2>1, <1>14 DEF Accepted, HasAccepted
    <2>2. CASE H'[p].result # "failed"
        <3>1. /\ conf["c"].K = conf["s"].K
              /\ nonce_CS(p, h) = nonce_CS(q, H[q])
              /\ yh.y = Param(q)
              /\ conf[p].requirepfs => Param(q) # {}
            BY <2>2, <1>2, <1>6, <1>14, Verified
        <3>2. H'["c"].nonce_remote = "s" /\ H'["s"].nonce_remote = "c"
            <4>1. p = "c" => <<"c", H["c"].nonce_remote>> = <<H["s"].nonce_remote, "s">>
                BY <3>1, <1>10 DEF nonce_CS, Peer
            <4>2. p = "s" => <<H["s"].nonce_remote, "s">> = <<"c", H["c"].nonce_remote>>
                BY <3>1, <1>10 DEF nonce_CS, Peer
            <4>3. H["c"].nonce_remote = "s" /\ H["s"].nonce_remote = "c"
                BY <4>1, <4>2 DEF End
            <4> QED
                BY <4>3, <1>1, <1>14 DEF Peer, End
        <3>3. conf' = conf /\ Param(q)' = Param(q)
            BY <1>7 DEF Param
        <3>4. p = "c" => H'["s"].result = "done"
            BY <1>6, <1>14 DEF Peer
        <3> QED
            BY <3>1, <3>2, <3>3, <3>4, <1>14 DEF Accepted
    <2> QED
        BY <2>1, <2>2
<1>23. Accepted(q)'
    BY <1>19, <1>1, <1>2, <1>14, AcceptedKept DEF HasAccepted
<1>24. Derived(q)'
    BY <1>1, <1>2, <1>7, <1>14, DerivedKept
<1>25. Derived(p)'
    BY <1>7, <1>10, <1>13, <1>14 DEF Derived, proto_crypt_mkkeys, nonce_CS
<1> QED
    BY <1>1, <1>15, <1>16, <1>17, <1>18, <1>20, <1>21, <1>22, <1>23, <1>24, <1>25 DEF IInv

(* A connection that breaks keeps the invariant.                           *)
LEMMA BreakKeepsInv ==
    ASSUME IInv, Break
    PROVE  IInv'
<1>1. Types /\ UNCHANGED <<conf, H>> /\ broken' = TRUE /\ faults' = faults + 1
    BY DEF IInv, Break
<1>2. PICK c \in 0 .. Len(stream["c"]), s \in 0 .. Len(stream["s"]) :
         stream' = [p \in End |-> SubSeq(stream[p], 1, IF p = "c" THEN c ELSE s)]
    BY DEF Break
<1>3. ASSUME NEW p \in End
      PROVE  /\ stream'[p] \in Seq(NonceMsg \cup DhMsg)
             /\ \A i \in 1 .. Len(stream'[p]) :
                   i \in 1 .. Len(stream[p]) /\ stream'[p][i] = stream[p][i]
             /\ stream[p] = <<>> => stream'[p] = <<>>
    <2> DEFINE k == IF p = "c" THEN c ELSE s
    <2>1. k \in 0 .. Len(stream[p]) /\ stream[p] \in Seq(NonceMsg \cup DhMsg)
        BY <1>1 DEF Types, End
    <2>2. stream'[p] = SubSeq(stream[p], 1, k)
        BY <1>2
    <2> HIDE DEF k
    <2>3. Len(stream'[p]) = k
        BY <2>1, <2>2
    <2>4. \A i \in 1 .. k : i \in 1 .. Len(stream[p]) /\ stream'[p][i] = stream[p][i]
        BY <2>1, <2>2
    <2>5. stream'[p] \in Seq(NonceMsg \cup DhMsg)
        BY <2>1, <2>2
    <2>6. stream[p] = <<>> => stream'[p] = <<>>
        BY <2>1, <2>2
    <2> QED
        BY <2>3, <2>4, <2>5, <2>6
<1>4. Types'
    BY <1>1, <1>2, <1>3 DEF Types
<1>5. Lasting
    BY <1>1 DEF Lasting
<1>6. ASSUME NEW p \in End
      PROVE  Progress(p)' /\ Kind(p)' /\ Sent(p)' /\ Accepted(p)' /\ Derived(p)'
    <2>1. Progress(p) /\ Kind(p) /\ Sent(p) /\ Accepted(p) /\ Derived(p)
        BY DEF IInv
    <2>2. Progress(p)'
        BY <2>1, <1>1, <1>3 DEF Progress, Reading
    <2>3. Kind(p)'
        BY <2>1, <1>1, <1>3 DEF Kind
    <2>4. Sent(p)'
        BY <2>1, <1>3, <1>5, SentKept
    <2>5. Accepted(p)'
        BY <2>1, <1>1, <1>5, AcceptedKept DEF HasAccepted
    <2>6. Derived(p)'
        BY <2>1, <1>1, DerivedKept
    <2> QED
        BY <2>2, <2>3, <2>4, <2>5, <2>6
<1> QED
    BY <1>4, <1>6 DEF IInv

(* A message that is damaged on its way keeps the invariant.               *)
LEMMA DamageKeepsInv ==
    ASSUME IInv, NEW p \in End, Damage(p)
    PROVE  IInv'
<1> DEFINE n == Len(stream[p])
           old == stream[p][n]
<1>1. /\ Types /\ UNCHANGED <<conf, H, broken>> /\ faults' = faults + 1
      /\ stream[p] \in Seq(NonceMsg \cup DhMsg) /\ n \in Nat \ {0}
    BY DEF IInv, Damage, Types
<1>2. old \in NonceMsg \cup DhMsg
    BY <1>1
<1>3. \E new \in NonceMsg \cup DhMsg :
         /\ stream' = [stream EXCEPT ![p][n] = new]
         /\ \/ old \in NonceMsg /\ new \in NonceMsg /\ new \notin DhMsg /\ new.nonce = Damaged
            \/ old \in DhMsg /\ new \in DhMsg /\ new.mac \in {old.mac, BadMac}
    <2>1. CASE old \in NonceMsg
        <3> DEFINE new == [nonce |-> Damaged]
        <3>1. "nonce" \in DOMAIN old
            BY <2>1 DEF NonceMsg
        <3>2. stream' = [stream EXCEPT ![p][n] = new]
            BY <3>1 DEF Damage
        <3>3. new \in NonceMsg /\ new \notin DhMsg /\ new.nonce = Damaged
            BY DEF NonceMsg, DhMsg, Nonce
        <3> HIDE DEF new
        <3> QED
            BY <2>1, <3>2, <3>3, Zenon
    <2>2. CASE old \in DhMsg
        <3>1. "nonce" \notin DOMAIN old
            BY <2>2 DEF DhMsg
        <3>2. PICK part \in {"y", "mac"} :
                 stream' = [stream EXCEPT ![p][n] = [old EXCEPT ![part] =
                               IF part = "y" THEN {Damaged} ELSE BadMac]]
            BY <3>1 DEF Damage, BadMac
        <3> DEFINE new == [old EXCEPT ![part] = IF part = "y" THEN {Damaged} ELSE BadMac]
        <3>3. {Damaged} \in Val /\ BadMac \in Mac
            BY DEF Val, Mac
        <3>4. new \in DhMsg /\ new.mac \in {old.mac, BadMac}
            <4>1. CASE part = "y"
                BY <2>2, <3>3, <4>1, Zenon DEF DhMsg
            <4>2. CASE part = "mac"
                BY <2>2, <3>3, <4>2 DEF DhMsg
            <4> QED
                BY <4>1, <4>2
        <3> QED
            BY <2>2, <3>2, <3>4, Zenon
    <2> QED
        BY <1>2, <2>1, <2>2
<1>4. PICK new \in NonceMsg \cup DhMsg :
         /\ stream' = [stream EXCEPT ![p][n] = new]
         /\ \/ old \in NonceMsg /\ new \in NonceMsg /\ new \notin DhMsg /\ new.nonce = Damaged
            \/ old \in DhMsg /\ new \in DhMsg /\ new.mac \in {old.mac, BadMac}
    BY <1>3, Zenon
<1>5. /\ stream'[p] \in Seq(NonceMsg \cup DhMsg) /\ Len(stream'[p]) = n
      /\ stream'[p][n] = new
      /\ \A i \in 1 .. n : i # n => stream'[p][i] = stream[p][i]
      /\ \A e \in End : e # p => stream'[e] = stream[e]
      /\ stream' \in [End -> Seq(NonceMsg \cup DhMsg)]
    <2>1. stream'[p] = [stream[p] EXCEPT ![n] = new]
        BY <1>1, <1>4 DEF Types
    <2>2. stream'[p] \in Seq(NonceMsg \cup DhMsg) /\ Len(stream'[p]) = n
        BY <1>1, <2>1
    <2> QED
        BY <1>1, <1>4, <2>1, <2>2 DEF Types
<1>6. Types'
    BY <1>1, <1>5 DEF Types
<1>7. Lasting
    BY <1>1 DEF Lasting
<1>8. Kind(p) /\ Sent(p) /\ Peer(p) \in End
    BY TwoEnds DEF IInv
<1>9. Kind(p)'
    <2>1. ASSUME NEW i \in 1 .. Len(stream'[p])
          PROVE  IF i = 1 /\ H'[Peer(p)].nonce_remote = "none"
                 THEN stream'[p][i] \in NonceMsg /\ stream'[p][i].nonce \in {p, Damaged}
                 ELSE stream'[p][i] \in DhMsg
        <3>1. NonceMsg \cap DhMsg = {}
            BY DEF NonceMsg, DhMsg
        <3>2. CASE i = n
            BY <3>1, <3>2, <1>1, <1>4, <1>5, <1>8 DEF Kind
        <3>3. CASE i # n
            BY <3>3, <1>1, <1>5, <1>8 DEF Kind
        <3> QED
            BY <3>2, <3>3
    <2>2. stream'[p] # <<>>
        BY <1>1, <1>5
    <2> QED
        BY <2>1, <2>2 DEF Kind
<1>10. Sent(p)'
    <2>1. ASSUME NEW i \in 1 .. Len(stream'[p]), stream'[p][i] \in DhMsg
          PROVE  \E j \in 1 .. Len(stream[p]) :
                    stream[p][j] \in DhMsg /\ stream'[p][i].mac \in {stream[p][j].mac, BadMac}
        <3>1. CASE i = n
            BY <2>1, <3>1, <1>1, <1>4, <1>5
        <3>2. CASE i # n
            BY <2>1, <3>2, <1>1, <1>5
        <3> QED
            BY <3>1, <3>2
    <2> QED
        BY <2>1, <1>7, <1>8, SentKept
<1>11. ASSUME NEW e \in End
       PROVE  Progress(e)' /\ Kind(e)' /\ Sent(e)' /\ Accepted(e)' /\ Derived(e)'
    <2>1. Progress(e) /\ Kind(e) /\ Sent(e) /\ Accepted(e) /\ Derived(e)
        BY DEF IInv
    <2>2. Progress(e)'
        <3>1. stream[p] # <<>>
            BY <1>1
        <3> QED
            BY <2>1, <3>1, <1>1, <1>5 DEF Progress, Reading
    <2>3. Kind(e)'
        BY <2>1, <1>1, <1>5, <1>9 DEF Kind
    <2>4. Sent(e)'
        BY <2>1, <1>5, <1>7, <1>10, SentKept
    <2>5. Accepted(e)'
        BY <2>1, <1>1, <1>7, AcceptedKept DEF HasAccepted
    <2>6. Derived(e)'
        BY <2>1, <1>1, DerivedKept
    <2> QED
        BY <2>2, <2>3, <2>4, <2>5, <2>6
<1> QED
    BY <1>6, <1>11 DEF IInv

(* Every step keeps the invariant.                                         *)
LEMMA InvStep == ASSUME IInv, [Next]_hsvars PROVE IInv'
<1>1. CASE UNCHANGED hsvars
    <2>1. Lasting /\ Types' /\ UNCHANGED <<conf, H, stream, broken>>
        BY <1>1 DEF hsvars, IInv, Types, Lasting
    <2>2. ASSUME NEW p \in End
          PROVE  Progress(p)' /\ Kind(p)' /\ Sent(p)' /\ Accepted(p)' /\ Derived(p)'
        <3>1. Progress(p) /\ Kind(p) /\ Sent(p) /\ Accepted(p) /\ Derived(p)
            BY DEF IInv
        <3>2. Progress(p)' /\ Kind(p)'
            BY <2>1, <3>1 DEF Progress, Reading, Kind
        <3>3. Sent(p)' /\ Accepted(p)' /\ Derived(p)'
            BY <2>1, <3>1, SentKept, AcceptedKept, DerivedKept DEF HasAccepted
        <3> QED
            BY <3>2, <3>3
    <2> QED
        BY <2>1, <2>2 DEF IInv
<1>2. ASSUME NEW p \in End, EndNext(p) \/ proto_handshake_cancel(p) \/ Damage(p) \/ Break
      PROVE  IInv'
    BY <1>2, NonceWriteKeepsInv, NonceReadKeepsInv, DhWriteKeepsInv, DhReadKeepsInv,
       GivesUpKeepsInv, BreakKeepsInv, DamageKeepsInv DEF EndNext
<1> QED
    BY <1>1, <1>2 DEF Next

-----------------------------------------------------------------------------
(* Ends that complete the handshake have met each other, have derived the  *)
(* same keys and have the forward secrecy they required, for any secrets   *)
(* and however many messages are damaged, lost or cut off                  *)
(* (callback_dh_read, callback_dh_write, proto_crypt_mkkeys).              *)
THEOREM HandshakeAgrees == Spec => []Agreement
<1>1. ASSUME IInv PROVE Agreement
    <2>1. DoneMeansSamePeer
        BY <1>1 DEF IInv, Accepted, HasAccepted, DoneMeansSamePeer, Done
    <2>2. ASSUME NEW p \in End, Done(p)
          PROVE  H[p].keys = <<conf["c"].K, <<"c", "s">>,
                               IF conf[p].nopfs THEN {}
                               ELSE crypto_dh_compute(Param(Peer(p)), p)>>
        <3>1. /\ conf["c"].K = conf["s"].K /\ H["c"].nonce_remote = "s" /\ H["s"].nonce_remote = "c"
              /\ H[p].yh_remote.y = Param(Peer(p))
              /\ H[p].keys = proto_crypt_mkkeys(p, H[p])
            BY <1>1, <2>2 DEF IInv, Accepted, HasAccepted, Derived, Done
        <3>2. nonce_CS(p, H[p]) = <<"c", "s">> /\ conf[p].K = conf["c"].K
            BY <3>1 DEF nonce_CS, End
        <3> QED
            BY <3>1, <3>2 DEF proto_crypt_mkkeys
    <2>3. KeysAgree
        <3>1. SUFFICES ASSUME Done("c") PROVE H["s"].keys = H["c"].keys
            BY DEF KeysAgree
        <3>2. Done("s") /\ "c" \in End /\ "s" \in End
            BY <1>1, <3>1 DEF IInv, Accepted, HasAccepted, Done, End
        <3>3. (IF conf["c"].nopfs THEN {} ELSE crypto_dh_compute(Param(Peer("c")), "c"))
                = (IF conf["s"].nopfs THEN {} ELSE crypto_dh_compute(Param(Peer("s")), "s"))
            BY DEF Param, Peer, crypto_dh_compute
        <3> QED
            BY <2>2, <3>1, <3>2, <3>3
    <2>4. RequiredPfsHolds
        <3>1. SUFFICES ASSUME NEW p \in End, Done(p), conf[p].requirepfs
                       PROVE  H[p].keys[3] = End
            BY DEF RequiredPfsHolds
        <3>2. ~conf[p].nopfs /\ Param(Peer(p)) # {}
            BY <1>1, <3>1 DEF IInv, Types, Config, Accepted, HasAccepted, Done
        <3>3. Param(Peer(p)) = {Peer(p)} /\ crypto_dh_compute(Param(Peer(p)), p) = End
            BY <3>2, TwoEnds DEF Param, crypto_dh_compute
        <3> QED
            BY <2>2, <3>1, <3>2, <3>3
    <2> QED
        BY <2>1, <2>3, <2>4 DEF Agreement
<1> QED
    BY <1>1, InvInit, InvStep, PTL DEF Spec

(* A handshake that runs has a read or a write under way, and one that is  *)
(* over has none: no order of the callbacks leaves it stuck or calls back  *)
(* into the freed cookie (handshakedone, handshakefail).                   *)
THEOREM CallbacksAreSound == Spec => []CallbacksSound
<1>1. ASSUME IInv PROVE CallbacksSound
    BY <1>1 DEF IInv, Progress, Reading, CallbacksSound, NothingPending, NeverStuck
<1> QED
    BY <1>1, InvInit, InvStep, PTL DEF Spec

-----------------------------------------------------------------------------
(* HwAccel: one implementation per key.  OneImplementation speaks of the   *)
(* keys that were used; the invariant ties each key, and each choice made  *)
(* so far, to the one choice of crypto_aes.c or sha256.c.                  *)

(* What cpusupport.h has stored is what it would find again.               *)
CacheIsTrue ==
    \A f \in Feature :
        /\ present[f] => detect(f)
        /\ inited[f] /\ detect(f) => present[f]

(* OpenSSL is used only in a build without variants, or after its test.    *)
SoftwareIsTrusted == HWACCEL(AesCode) => "HW_SOFTWARE" \notin machine.broken

(* The AES code in use is one that passed its test, and it is the code     *)
(* that every expanded key and every stream was made for.                  *)
AesInv ==
    /\ hwaccel_aes \in AesCode => Trusted(hwaccel_aes)
    /\ hwaccel_aes = "HW_SOFTWARE" /\ ~aborted => SoftwareIsTrusted
    /\ hwaccel_aes # "HW_UNSET" => HWACCEL(AesCode)
    /\ hwaccel_ctr # "HW_UNSET" => hwaccel_ctr = hwaccel_aes
    /\ \A k \in Keys : kexp[k] # "NULL" =>
          /\ kexp[k] = Runs(hwaccel_aes)
          /\ HWACCEL(AesCode) => hwaccel_aes # "HW_UNSET"
          /\ ~aborted
    /\ stream_key \in Keys => kexp[stream_key] # "NULL"
    /\ \A u \in uses :
          /\ u = <<Runs(hwaccel_aes), Runs(hwaccel_aes)>>
          /\ HWACCEL(AesCode) => hwaccel_aes # "HW_UNSET"
          /\ ~aborted

(* The same for SHA256.                                                    *)
ShaInv ==
    /\ hwaccel_sha \in ShaCode => Trusted(hwaccel_sha)
    /\ hwaccel_sha = "HW_SOFTWARE" => \A j \in ShaCode : ~Trusted(j)
    /\ \A i \in digest :
          /\ i = Runs(hwaccel_sha)
          /\ HWACCEL(ShaCode) => hwaccel_sha # "HW_UNSET"

(* The inductive invariant.                                                *)
HwInv == HwTypeOK /\ CacheIsTrue /\ AesInv /\ ShaInv

(* Nothing about the machine changes while the machine does not.           *)
LEMMA MachineStays ==
    ASSUME machine' = machine
    PROVE  /\ \A i : Built(i)' <=> Built(i)
           /\ \A f : detect(f)' <=> detect(f)
           /\ \A i : Trusted(i)' <=> Trusted(i)
           /\ HWACCEL(AesCode)' <=> HWACCEL(AesCode)
           /\ HWACCEL(ShaCode)' <=> HWACCEL(ShaCode)
           /\ SoftwareIsTrusted' <=> SoftwareIsTrusted
<1>1. \A i : Built(i)' <=> Built(i)
  BY DEF Built
<1>2. \A f : detect(f)' <=> detect(f)
  BY DEF detect, x86_detect, arm_detect, cpusupport_x86_aesni_detect, cpusupport_x86_sse2_detect,
        cpusupport_x86_ssse3_detect, cpusupport_x86_shani_detect, cpusupport_arm_aes_detect,
        cpusupport_arm_sha256_detect
<1>3. \A i : Trusted(i)' <=> Trusted(i)
  BY <1>1, <1>2 DEF Trusted
<1>4. /\ HWACCEL(AesCode)' <=> HWACCEL(AesCode)
      /\ HWACCEL(ShaCode)' <=> HWACCEL(ShaCode)
  BY <1>1 DEF HWACCEL
<1>5. QED
  BY <1>1, <1>2, <1>3, <1>4 DEF SoftwareIsTrusted

(* The cache in front of the detection changes nothing: cpusupport returns *)
(* what it would return without it.                                        *)
LEMMA CacheIsTransparent ==
    ASSUME HwTypeOK, CacheIsTrue
    PROVE  \A f \in Feature : cpusupport(f) <=> detect(f)
BY DEF HwTypeOK, CacheIsTrue, cpusupport

(* And asking again keeps it so.                                           *)
LEMMA LookedKeepsCache ==
    ASSUME HwTypeOK, CacheIsTrue, machine' = machine,
           NEW asked, Looked(asked)
    PROVE  /\ CacheIsTrue'
           /\ present' \in [Feature -> BOOLEAN]
           /\ inited' \in [Feature -> BOOLEAN]
<1>1. \A f \in Feature : cpusupport(f) \in BOOLEAN
  BY DEF HwTypeOK, cpusupport
<1>2. /\ present' \in [Feature -> BOOLEAN]
      /\ inited' \in [Feature -> BOOLEAN]
  BY <1>1 DEF Looked, HwTypeOK
<1>3. SUFFICES ASSUME NEW f \in Feature
               PROVE  /\ present'[f] => detect(f)
                      /\ inited'[f] /\ detect(f) => present'[f]
  BY <1>2, MachineStays DEF CacheIsTrue
<1>4. cpusupport(f) <=> detect(f)
  BY CacheIsTransparent
<1>5. CASE f \in asked
  BY <1>3, <1>4, <1>5 DEF Looked
<1>6. CASE f \notin asked
  BY <1>3, <1>6, Zenon DEF Looked, CacheIsTrue
<1>7. QED
  BY <1>5, <1>6

(* A variant is chosen only after it has passed all that is asked of it.   *)
LEMMA ValidateChooses ==
    ASSUME HwTypeOK, CacheIsTrue, NEW i \in AesCode \cup ShaCode,
           NEW check \in BOOLEAN, NEW otherwise
    PROVE  CPUSUPPORT_VALIDATE(i, check, otherwise) =
               IF Built(i) /\ (\A f \in Needs(i) : detect(f)) /\ check THEN i ELSE otherwise
<1>1. Needs(i) \subseteq Feature
  BY DEF Needs, Feature, AesFeature, ShaFeature, AesCode, ShaCode
<1>2. \A f \in Needs(i) : cpusupport(f) <=> detect(f)
  BY <1>1, CacheIsTransparent
<1>3. QED
  BY <1>2 DEF CPUSUPPORT_VALIDATE

(* What hwaccel_init of crypto_aes.c may choose.                           *)
LEMMA AesChoice ==
    ASSUME HwTypeOK, CacheIsTrue, NEW failed
    PROVE  /\ hwaccel_init_aes(failed) \in AesCode \cup {"HW_SOFTWARE"}
           /\ hwaccel_init_aes(failed) \in AesCode => Trusted(hwaccel_init_aes(failed))
<1> DEFINE arm == CPUSUPPORT_VALIDATE("HW_ARM_AES", functest("HW_ARM_AES", failed), "HW_SOFTWARE")
<1>1. /\ arm \in AesCode \cup {"HW_SOFTWARE"}
      /\ arm \in AesCode => Trusted(arm)
  <2>1. functest("HW_ARM_AES", failed) \in BOOLEAN
    BY DEF functest
  <2>2. "HW_ARM_AES" \in AesCode \cup ShaCode
    BY DEF AesCode
  <2>3. arm = IF Built("HW_ARM_AES") /\ (\A f \in Needs("HW_ARM_AES") : detect(f))
                 /\ functest("HW_ARM_AES", failed) THEN "HW_ARM_AES" ELSE "HW_SOFTWARE"
    BY <2>1, <2>2, ValidateChooses, Zenon
  <2>4. QED
    BY <2>3 DEF Trusted, functest, AesCode
<1>2. hwaccel_init_aes(failed) =
          IF Built("HW_X86_AESNI") /\ (\A f \in Needs("HW_X86_AESNI") : detect(f))
             /\ functest("HW_X86_AESNI", failed) THEN "HW_X86_AESNI" ELSE arm
  <2>1. functest("HW_X86_AESNI", failed) \in BOOLEAN
    BY DEF functest
  <2>2. "HW_X86_AESNI" \in AesCode \cup ShaCode
    BY DEF AesCode
  <2>3. QED
    BY <2>1, <2>2, ValidateChooses, Zenon DEF hwaccel_init_aes
<1> HIDE DEF arm
<1>3. QED
  BY <1>1, <1>2 DEF Trusted, functest, AesCode

(* hwaccel_init of sha256.c chooses the portable code only if it must.     *)
LEMMA ShaChoice ==
    ASSUME HwTypeOK, CacheIsTrue
    PROVE  /\ hwaccel_init_sha \in ShaCode \cup {"HW_SOFTWARE"}
           /\ hwaccel_init_sha \in ShaCode => Trusted(hwaccel_init_sha)
           /\ hwaccel_init_sha = "HW_SOFTWARE" => \A j \in ShaCode : ~Trusted(j)
<1> DEFINE ok(i) == Built(i) /\ (\A f \in Needs(i) : detect(f)) /\ hwtest("HW_SOFTWARE", i)
           arm == CPUSUPPORT_VALIDATE("HW_ARM_SHA256", hwtest("HW_SOFTWARE", "HW_ARM_SHA256"), "HW_SOFTWARE")
           sse2 == CPUSUPPORT_VALIDATE("HW_X86_SSE2", hwtest("HW_SOFTWARE", "HW_X86_SSE2"), arm)
<1>1. ASSUME NEW i \in ShaCode, NEW otherwise
      PROVE  CPUSUPPORT_VALIDATE(i, hwtest("HW_SOFTWARE", i), otherwise) =
                 IF ok(i) THEN i ELSE otherwise
  <2>1. hwtest("HW_SOFTWARE", i) \in BOOLEAN /\ i \in AesCode \cup ShaCode
    BY DEF hwtest
  <2>2. QED
    BY <2>1, ValidateChooses, Zenon
<1>2. \A i \in ShaCode : ok(i) <=> Trusted(i)
  BY DEF Trusted, hwtest, Computes, ShaCode
<1>3. {"HW_X86_SHANI", "HW_X86_SSE2", "HW_ARM_SHA256"} = ShaCode
  BY DEF ShaCode
<1>4. "HW_X86_SHANI" \in ShaCode /\ "HW_X86_SSE2" \in ShaCode /\ "HW_ARM_SHA256" \in ShaCode
  BY <1>3
<1>5. arm = IF ok("HW_ARM_SHA256") THEN "HW_ARM_SHA256" ELSE "HW_SOFTWARE"
  BY <1>1, <1>4, Zenon
<1>6. sse2 = IF ok("HW_X86_SSE2") THEN "HW_X86_SSE2" ELSE arm
  <2> HIDE DEF arm, ok
  <2>1. QED
    BY <1>1, <1>4, Zenon DEF sse2
<1>7. hwaccel_init_sha = IF ok("HW_X86_SHANI") THEN "HW_X86_SHANI" ELSE sse2
  <2> HIDE DEF ok
  <2>1. QED
    BY <1>1, <1>4, Zenon DEF hwaccel_init_sha
<1> HIDE DEF ok, arm, sse2
<1>8. QED
  BY <1>2, <1>3, <1>5, <1>6, <1>7

(* After the choice of crypto_aes.c was made, or had been made before.     *)
LEMMA ChooseKeeps ==
    ASSUME HwInv, ~aborted, machine' = machine,
           NEW hw, Choose(hw),
           UNCHANGED <<uses>>
    PROVE  /\ hwaccel_aes' = hw
           /\ hw \in AesCode \cup {"HW_SOFTWARE", "HW_UNSET"}
           /\ hw \in AesCode => Trusted(hw)
           /\ HWACCEL(AesCode) <=> hw # "HW_UNSET"
           /\ hw = "HW_SOFTWARE" /\ ~aborted' => SoftwareIsTrusted
           /\ hwaccel_aes # "HW_UNSET" \/ ~HWACCEL(AesCode) => hw = hwaccel_aes /\ ~aborted'
           /\ aborted' \in BOOLEAN
           /\ present' \in [Feature -> BOOLEAN] /\ inited' \in [Feature -> BOOLEAN]
           /\ CacheIsTrue'
<1>1. CASE HWACCEL(AesCode) /\ hwaccel_aes = "HW_UNSET"
  <2>1. PICK failed \in SUBSET AesCode : hw = hwaccel_init_aes(failed)
    BY <1>1 DEF Choose
  <2>2. /\ hw \in AesCode \cup {"HW_SOFTWARE"}
        /\ hw \in AesCode => Trusted(hw)
    BY <2>1, AesChoice DEF HwInv
  <2>3. /\ Looked(AesFeature \cap machine.built)
        /\ hwaccel_aes' = hw
        /\ aborted' = (hw = "HW_SOFTWARE" /\ ~functest("HW_SOFTWARE", {}))
    BY <1>1 DEF Choose
  <2>4. /\ CacheIsTrue'
        /\ present' \in [Feature -> BOOLEAN] /\ inited' \in [Feature -> BOOLEAN]
    BY <2>3, LookedKeepsCache DEF HwInv
  <2>5. hw # "HW_UNSET"
    BY <2>2 DEF AesCode
  <2>6. /\ aborted' \in BOOLEAN
        /\ hw = "HW_SOFTWARE" /\ ~aborted' => SoftwareIsTrusted
    BY <2>3, Zenon DEF functest, SoftwareIsTrusted
  <2>7. QED
    BY <1>1, <2>2, <2>3, <2>4, <2>5, <2>6
<1>2. CASE ~(HWACCEL(AesCode) /\ hwaccel_aes = "HW_UNSET")
  <2>1. hw = hwaccel_aes /\ UNCHANGED <<present, inited, hwaccel_aes, aborted>>
    BY <1>2 DEF Choose
  <2>2. CacheIsTrue'
    BY <2>1, MachineStays DEF HwInv, CacheIsTrue
  <2>3. QED
    BY <1>2, <2>1, <2>2 DEF HwInv, HwTypeOK, AesInv, Chooses
<1>3. QED
  BY <1>1, <1>2

(* The parts of the invariant a step leaves alone when it leaves alone the *)
(* variables they are about.                                               *)
LEMMA CacheStays ==
    ASSUME HwInv, UNCHANGED <<machine, present, inited>>
    PROVE  CacheIsTrue'
BY MachineStays DEF HwInv, CacheIsTrue

(* A step that touches only the AES code keeps the SHA256 part.            *)
LEMMA ShaStays ==
    ASSUME HwInv, UNCHANGED <<machine, hwaccel_sha, digest>>
    PROVE  ShaInv'
BY MachineStays DEF HwInv, ShaInv, Runs

(* A step that touches only the SHA256 code keeps the AES part.            *)
LEMMA AesStays ==
    ASSUME HwInv, UNCHANGED <<machine, hwaccel_aes, hwaccel_ctr, kexp, stream_key, uses, aborted>>
    PROVE  AesInv'
BY MachineStays DEF HwInv, AesInv, Runs

(* The invariant holds when the program starts.                            *)
LEMMA InitInv == HwInit => HwInv
<1> SUFFICES ASSUME HwInit PROVE HwInv
  OBVIOUS
<1>1. HwTypeOK
  BY Zenon DEF HwInit, HwTypeOK, Chooses
<1>2. CacheIsTrue
  BY DEF HwInit, CacheIsTrue
<1>3. AesInv
  BY KeysAssumption DEF HwInit, AesInv, AesCode
<1>4. ShaInv
  BY DEF HwInit, ShaInv, ShaCode
<1>5. QED
  BY <1>1, <1>2, <1>3, <1>4 DEF HwInv

(* A digest keeps the invariant, the choice of its code included.          *)
LEMMA DigestStepKeepsInv ==
    ASSUME HwInv, SHA256_Init_chooses \/ SHA256_Transform_runs
    PROVE  HwInv'
<1>1. CASE SHA256_Init_chooses
  <2>1. AesInv'
    BY <1>1, AesStays DEF SHA256_Init_chooses
  <2>2. CASE HWACCEL(ShaCode) /\ hwaccel_sha = "HW_UNSET"
    <3>1. hwaccel_sha' = hwaccel_init_sha /\ Looked(AskedSha(hwaccel_sha')) /\ machine' = machine
      BY <1>1, <2>2 DEF SHA256_Init_chooses
    <3>2. /\ CacheIsTrue'
          /\ present' \in [Feature -> BOOLEAN] /\ inited' \in [Feature -> BOOLEAN]
      BY <3>1, LookedKeepsCache DEF HwInv
    <3>3. HwTypeOK'
      BY <1>1, <3>1, <3>2, ShaChoice DEF HwInv, HwTypeOK, SHA256_Init_chooses, Chooses
    <3>4. ShaInv'
      BY <1>1, <3>1, ShaChoice, MachineStays DEF HwInv, ShaInv, SHA256_Init_chooses, ShaCode
    <3>5. QED
      BY <2>1, <3>2, <3>3, <3>4 DEF HwInv
  <2>3. CASE ~(HWACCEL(ShaCode) /\ hwaccel_sha = "HW_UNSET")
    <3>1. UNCHANGED <<hwaccel_sha, present, inited, machine>> /\ digest' = {}
      BY <1>1, <2>3 DEF SHA256_Init_chooses
    <3>2. CacheIsTrue'
      BY <3>1, CacheStays
    <3>3. ShaInv'
      BY <3>1, MachineStays DEF HwInv, ShaInv
    <3>4. HwTypeOK'
      BY <1>1, <3>1 DEF HwInv, HwTypeOK, SHA256_Init_chooses
    <3>5. QED
      BY <2>1, <3>2, <3>3, <3>4 DEF HwInv
  <2>4. QED
    BY <2>2, <2>3
<1>2. CASE SHA256_Transform_runs
  <2>1. AesInv' /\ CacheIsTrue'
    BY <1>2, AesStays, CacheStays DEF SHA256_Transform_runs
  <2>2. Runs(hwaccel_sha) \in ShaCode \cup {"HW_SOFTWARE"}
    BY DEF HwInv, HwTypeOK, Chooses, Runs, ShaCode
  <2>3. HwTypeOK'
    BY <1>2, <2>2 DEF HwInv, HwTypeOK, SHA256_Transform_runs
  <2>4. ShaInv'
    BY <1>2, MachineStays DEF HwInv, ShaInv, SHA256_Transform_runs, Runs
  <2>5. QED
    BY <2>1, <2>3, <2>4 DEF HwInv
<1>3. QED
  BY <1>1, <1>2

(* Using and freeing a key keep the invariant.                             *)
LEMMA KeyStepKeepsInv ==
    ASSUME HwInv, NEW k \in Keys,
           crypto_aes_encrypt_block(k) \/ crypto_aes_key_free(k)
    PROVE  HwInv'
<1>1. /\ ~aborted /\ kexp[k] # "NULL"
      /\ uses' = uses \cup {<<Runs(hwaccel_aes), kexp[k]>>}
      /\ UNCHANGED <<machine, present, inited, hwaccel_aes, hwaccel_ctr, hwaccel_sha,
                     stream_key, digest, aborted>>
      /\ kexp' = kexp \/ (kexp' = [kexp EXCEPT ![k] = "NULL"] /\ stream_key # k)
  BY DEF crypto_aes_encrypt_block, crypto_aes_key_free
<1>2. CacheIsTrue' /\ ShaInv'
  BY <1>1, CacheStays, ShaStays
<1>3. HwTypeOK'
  BY <1>1 DEF HwInv, HwTypeOK
<1>4. /\ kexp[k] = Runs(hwaccel_aes)
      /\ HWACCEL(AesCode) => hwaccel_aes # "HW_UNSET"
  BY <1>1 DEF HwInv, AesInv
<1>5. \A j \in Keys : /\ kexp'[j] # "NULL" => kexp'[j] = kexp[j]
                      /\ j = stream_key => kexp'[j] = kexp[j]
  BY <1>1 DEF HwInv, HwTypeOK
<1>6. AesInv'
  BY <1>1, <1>4, <1>5, MachineStays DEF HwInv, AesInv, Runs
<1>7. QED
  BY <1>2, <1>3, <1>6 DEF HwInv

(* crypto_aes_key_expand keeps the invariant, the choice of its code       *)
(* included.                                                               *)
LEMMA ExpandKeepsInv ==
    ASSUME HwInv, NEW k \in Keys, crypto_aes_key_expand(k)
    PROVE  HwInv'
<1>1. PICK hw \in AesCode \cup {"HW_SOFTWARE", "HW_UNSET"} :
          /\ Choose(hw)
          /\ \/ ~aborted' /\ kexp' = [kexp EXCEPT ![k] = Runs(hw)]
             \/ UNCHANGED kexp
  BY DEF crypto_aes_key_expand
<1>2. /\ ~aborted /\ kexp[k] = "NULL"
      /\ UNCHANGED <<machine, hwaccel_ctr, hwaccel_sha, stream_key, digest, uses>>
  BY DEF crypto_aes_key_expand
<1>3. /\ hwaccel_aes' = hw
      /\ hw \in AesCode => Trusted(hw)
      /\ HWACCEL(AesCode) <=> hw # "HW_UNSET"
      /\ hw = "HW_SOFTWARE" /\ ~aborted' => SoftwareIsTrusted
      /\ hwaccel_aes # "HW_UNSET" \/ ~HWACCEL(AesCode) => hw = hwaccel_aes /\ ~aborted'
      /\ aborted' \in BOOLEAN
      /\ present' \in [Feature -> BOOLEAN] /\ inited' \in [Feature -> BOOLEAN]
      /\ CacheIsTrue'
  BY <1>1, <1>2, ChooseKeeps
<1>4. ShaInv'
  BY <1>2, ShaStays
<1>5. Runs(hw) \in AesCode \cup {"HW_SOFTWARE"} /\ Runs(hw) # "NULL"
  BY DEF Runs, AesCode
<1>6. HwTypeOK'
  BY <1>1, <1>2, <1>3, <1>5 DEF HwInv, HwTypeOK, Chooses
<1>7. \A j \in Keys : /\ kexp[j] # "NULL" => kexp'[j] = kexp[j] /\ hw = hwaccel_aes /\ ~aborted'
                      /\ kexp'[j] # kexp[j] => kexp'[j] = Runs(hw) /\ ~aborted'
  BY <1>1, <1>2, <1>3 DEF HwInv, HwTypeOK, AesInv
<1>8. uses # {} => hw = hwaccel_aes /\ ~aborted'
  BY <1>3 DEF HwInv, AesInv
<1>9. hwaccel_ctr # "HW_UNSET" => hwaccel_ctr = hw
  BY <1>3 DEF HwInv, AesInv
<1>10. AesInv'
  <2>1. /\ hwaccel_aes' \in AesCode => Trusted(hwaccel_aes)'
        /\ hwaccel_aes' = "HW_SOFTWARE" /\ ~aborted' => SoftwareIsTrusted'
        /\ hwaccel_aes' # "HW_UNSET" => HWACCEL(AesCode)'
        /\ hwaccel_ctr' # "HW_UNSET" => hwaccel_ctr' = hwaccel_aes'
    BY <1>2, <1>3, <1>9, MachineStays
  <2>2. \A j \in Keys : kexp'[j] # "NULL" =>
            /\ kexp'[j] = Runs(hw)
            /\ HWACCEL(AesCode) => hw # "HW_UNSET"
            /\ ~aborted'
    BY <1>3, <1>7 DEF HwInv, AesInv
  <2>3. stream_key \in Keys => kexp'[stream_key] # "NULL"
    BY <1>7 DEF HwInv, AesInv
  <2>4. \A u \in uses :
            /\ u = <<Runs(hw), Runs(hw)>>
            /\ HWACCEL(AesCode) => hw # "HW_UNSET"
            /\ ~aborted'
    BY <1>3, <1>8 DEF HwInv, AesInv
  <2>5. Runs(hwaccel_aes)' = Runs(hw)
    BY <1>3 DEF Runs
  <2>6. QED
    BY <1>2, <1>3, <2>1, <2>2, <2>3, <2>4, <2>5, MachineStays DEF AesInv
<1>11. QED
  BY <1>3, <1>4, <1>6, <1>10 DEF HwInv

(* crypto_aesctr_init2 keeps the invariant, the choice of its code         *)
(* included.                                                               *)
LEMMA CtrInitKeepsInv ==
    ASSUME HwInv, NEW k \in Keys, crypto_aesctr_init2(k)
    PROVE  HwInv'
<1>1. /\ ~aborted /\ kexp[k] # "NULL" /\ stream_key' = k
      /\ UNCHANGED <<machine, hwaccel_sha, kexp, digest, uses>>
  BY DEF crypto_aesctr_init2
<1>2. ShaInv'
  BY <1>1, ShaStays
<1>3. HWACCEL(AesCode) => hwaccel_aes # "HW_UNSET"
  BY <1>1 DEF HwInv, AesInv
<1>4. CASE HWACCEL(AesCode) /\ hwaccel_ctr = "HW_UNSET"
  <2>1. PICK hw \in AesCode \cup {"HW_SOFTWARE", "HW_UNSET"} :
            Choose(hw) /\ hwaccel_ctr' = hwaccel_init_ctr(hw)
    BY <1>4 DEF crypto_aesctr_init2
  <2>2. hw = hwaccel_aes /\ UNCHANGED <<present, inited, hwaccel_aes, aborted>>
    BY <1>3, <2>1 DEF Choose
  <2>3. hwaccel_ctr' = hwaccel_aes
    BY <1>3, <1>4, <2>1, <2>2 DEF hwaccel_init_ctr, crypto_aes_can_use_intrinsics, AesCode
  <2>4. CacheIsTrue'
    BY <1>1, <2>2, CacheStays
  <2>5. HwTypeOK'
    BY <1>1, <2>2, <2>3 DEF HwInv, HwTypeOK
  <2>6. AesInv'
    BY <1>1, <2>2, <2>3, MachineStays DEF HwInv, AesInv, Runs
  <2>7. QED
    BY <1>2, <2>4, <2>5, <2>6 DEF HwInv
<1>5. CASE ~(HWACCEL(AesCode) /\ hwaccel_ctr = "HW_UNSET")
  <2>1. UNCHANGED <<present, inited, hwaccel_aes, hwaccel_ctr, aborted>>
    BY <1>5 DEF crypto_aesctr_init2
  <2>2. CacheIsTrue'
    BY <1>1, <2>1, CacheStays
  <2>3. HwTypeOK'
    BY <1>1, <2>1 DEF HwInv, HwTypeOK
  <2>4. AesInv'
    BY <1>1, <2>1, MachineStays DEF HwInv, AesInv, Runs
  <2>5. QED
    BY <1>2, <2>2, <2>3, <2>4 DEF HwInv
<1>6. QED
  BY <1>4, <1>5

(* Using and freeing a stream keep the invariant.                          *)
LEMMA CtrStepKeepsInv ==
    ASSUME HwInv, (\E short \in BOOLEAN : crypto_aesctr_stream(short)) \/ crypto_aesctr_free
    PROVE  HwInv'
<1>1. CASE \E short \in BOOLEAN : crypto_aesctr_stream(short)
  <2>1. PICK short \in BOOLEAN : crypto_aesctr_stream(short)
    BY <1>1
  <2>2. /\ ~aborted /\ stream_key \in Keys
        /\ UNCHANGED <<machine, present, inited, hwaccel_aes, hwaccel_ctr, hwaccel_sha,
                       kexp, stream_key, digest, aborted>>
    BY <2>1 DEF crypto_aesctr_stream
  <2>3. /\ kexp[stream_key] = Runs(hwaccel_aes)
        /\ HWACCEL(AesCode) => hwaccel_aes # "HW_UNSET"
    BY <2>2 DEF HwInv, AesInv
  <2>4. (IF short \/ Runs(hwaccel_ctr) = "HW_SOFTWARE" THEN Runs(hwaccel_aes)
         ELSE hwaccel_ctr) = Runs(hwaccel_aes)
    BY DEF HwInv, AesInv, Runs
  <2>5. uses' = uses \cup {<<Runs(hwaccel_aes), Runs(hwaccel_aes)>>}
    BY <2>1, <2>3, <2>4, Zenon DEF crypto_aesctr_stream
  <2>6. CacheIsTrue' /\ ShaInv'
    BY <2>2, CacheStays, ShaStays
  <2>7. HwTypeOK'
    BY <2>2 DEF HwInv, HwTypeOK
  <2>8. AesInv'
    BY <2>2, <2>3, <2>5, MachineStays DEF HwInv, AesInv, Runs
  <2>9. QED
    BY <2>6, <2>7, <2>8 DEF HwInv
<1>2. CASE crypto_aesctr_free
  <2>1. CacheIsTrue' /\ ShaInv'
    BY <1>2, CacheStays, ShaStays DEF crypto_aesctr_free
  <2>2. HwTypeOK'
    BY <1>2 DEF HwInv, HwTypeOK, crypto_aesctr_free
  <2>3. AesInv'
    BY <1>2, KeysAssumption, MachineStays DEF HwInv, AesInv, Runs, crypto_aesctr_free
  <2>4. QED
    BY <2>1, <2>2, <2>3 DEF HwInv
<1>3. QED
  BY <1>1, <1>2

(* A step of some other part keeps the invariant.                          *)
LEMMA StutterKeepsInv ==
    ASSUME HwInv, UNCHANGED hwvars
    PROVE  HwInv'
<1>1. CacheIsTrue' /\ ShaInv' /\ AesInv'
  BY CacheStays, ShaStays, AesStays DEF hwvars
<1>2. HwTypeOK'
  BY DEF HwInv, HwTypeOK, hwvars
<1>3. QED
  BY <1>1, <1>2 DEF HwInv

(* The invariant says what OneImplementation says.                         *)
LEMMA InvImpliesOneImplementation == HwInv => OneImplementation
<1> SUFFICES ASSUME HwInv PROVE OneImplementation
  OBVIOUS
<1>1. KeysReadByTheirCode
  BY DEF HwInv, AesInv, KeysReadByTheirCode
<1>2. Runs(hwaccel_aes) \in AesCode \/ Runs(hwaccel_aes) = "HW_SOFTWARE"
  BY DEF HwInv, HwTypeOK, Chooses, Runs
<1>3. ASSUME NEW u \in uses
      PROVE  \/ u[1] \in AesCode /\ Trusted(u[1])
             \/ u[1] = "HW_SOFTWARE" /\ SoftwareIsTrusted
  <2>1. /\ u[1] = Runs(hwaccel_aes) /\ ~aborted
        /\ HWACCEL(AesCode) => hwaccel_aes # "HW_UNSET"
    BY DEF HwInv, AesInv
  <2>2. CASE hwaccel_aes = "HW_UNSET"
    BY <2>1, <2>2 DEF Runs, SoftwareIsTrusted
  <2>3. CASE hwaccel_aes # "HW_UNSET"
    BY <1>2, <2>1, <2>3 DEF HwInv, AesInv, Runs
  <2>4. QED
    BY <2>2, <2>3
<1>4. AesCodeIsTrusted
  BY <1>3 DEF AesCodeIsTrusted, SoftwareIsTrusted
<1>5. ASSUME NEW i \in digest
      PROVE  IF i = "HW_SOFTWARE" THEN \A j \in ShaCode : ~Trusted(j)
             ELSE i \in ShaCode /\ Trusted(i)
  <2>1. /\ i = Runs(hwaccel_sha)
        /\ HWACCEL(ShaCode) => hwaccel_sha # "HW_UNSET"
    BY DEF HwInv, ShaInv
  <2>2. CASE hwaccel_sha = "HW_UNSET"
    BY <2>1, <2>2 DEF Runs, HWACCEL, Trusted
  <2>3. CASE hwaccel_sha # "HW_UNSET"
    BY <2>1, <2>3 DEF HwInv, HwTypeOK, Chooses, ShaInv, Runs, ShaCode
  <2>4. QED
    BY <2>2, <2>3
<1>6. DigestByOneCode
  BY <1>5 DEF DigestByOneCode, HwInv, ShaInv
<1>7. QED
  BY <1>1, <1>4, <1>6 DEF OneImplementation

(***************************************************************************)
(* For every number of keys, and every build and processor, each key is    *)
(* used by the code that expanded it, which is tested, and each digest is  *)
(* computed by one variant: crypto_aes.c, crypto_aesctr.c and sha256.c     *)
(* agree although each caches a choice of its own.                         *)
(***************************************************************************)
THEOREM OneImplementationHolds == HwSpec => []OneImplementation
<1>1. HwInit => HwInv
  BY InitInv
<1>2. HwInv /\ [HwNext]_hwvars => HwInv'
  <2> SUFFICES ASSUME HwInv, [HwNext]_hwvars PROVE HwInv'
    OBVIOUS
  <2>1. CASE SHA256_Init_chooses \/ SHA256_Transform_runs
    BY <2>1, DigestStepKeepsInv
  <2>2. ASSUME NEW k \in Keys,
               \/ crypto_aes_key_expand(k) \/ crypto_aes_encrypt_block(k)
               \/ crypto_aes_key_free(k) \/ crypto_aesctr_init2(k)
        PROVE  HwInv'
    BY <2>2, ExpandKeepsInv, KeyStepKeepsInv, CtrInitKeepsInv
  <2>3. CASE (\E short \in BOOLEAN : crypto_aesctr_stream(short)) \/ crypto_aesctr_free
    BY <2>3, CtrStepKeepsInv
  <2>4. CASE UNCHANGED hwvars
    BY <2>4, StutterKeepsInv
  <2>5. QED
    BY <2>1, <2>2, <2>3, <2>4 DEF HwNext
<1>3. HwInv => OneImplementation
  BY InvImpliesOneImplementation
<1>4. QED
  BY <1>1, <1>2, <1>3, PTL DEF HwSpec

-----------------------------------------------------------------------------
(* Entropy: requests of random bytes and the generator that serves them.   *)

(* A value of V, or a block of output.                                     *)
Block == [by : Nat, n : Nat]
(* The generator.                                                          *)
Generator == [Key : Nat, V : Block, reseed_counter : Nat]

(* The types of the variables.                                             *)
EntropyTypes ==
    /\ drbg \in Generator
    /\ buflen \in Nat /\ want \in Nat /\ calls \in Nat
    /\ buf \in Seq(Block)

(* The inductive invariant.  The counter of the generator is one ahead of  *)
(* the calls of generate since it was seeded; what the buffer holds and    *)
(* what is still to come make up the request; the device is open only      *)
(* while a seed is read; and all output is older than the state.           *)
EntropyInv ==
    /\ EntropyTypes
    /\ instantiated \in BOOLEAN
    /\ pc = "loop" => instantiated
    /\ ~instantiated => drbg = drbg_zero /\ calls = 0 /\ buf = <<>>
    /\ instantiated => drbg.reseed_counter = calls + 1
    /\ pc # "idle" => Len(buf) + buflen = want
    /\ pc # "fill" => ~er /\ ~fd
    /\ calls <= RESEED_INTERVAL
    /\ FilledIfOk
    /\ NoWayBack

(* The generator before it is first used.                                  *)
LEMMA EntropyInit == RandomInit => EntropyInv
<1> SUFFICES ASSUME RandomInit PROVE EntropyInv
  OBVIOUS
<1> USE EntropyAssumption DEF RandomInit
<1>1. EntropyTypes
  BY DEF EntropyTypes, drbg_zero, Generator, Block
<1>2. calls <= RESEED_INTERVAL /\ FilledIfOk /\ NoWayBack
  BY DEF FilledIfOk, NoWayBack
<1>3. instantiated \in BOOLEAN /\ ~instantiated /\ ~er /\ ~fd
  BY Zenon
<1> QED BY <1>1, <1>2, <1>3 DEF EntropyInv

(* A stage of update makes a new key and a new V,                          *)
LEMMA StageGrows ==
  ASSUME NEW d \in Generator
  PROVE  /\ Stage(d) \in Generator
         /\ Stage(d).Key = d.Key + 1
         /\ Stage(d).V.n = d.V.n + 1
         /\ Stage(d).reseed_counter = d.reseed_counter
<1> DEFINE e == [d EXCEPT !.Key = @ + 1]
           v == NextV(e, 1)
<1>1. e \in Generator /\ e.Key = d.Key + 1 /\ e.V = d.V /\ e.reseed_counter = d.reseed_counter
  BY DEF Generator
<1> HIDE DEF e
<1>2. v \in Block /\ v.n = d.V.n + 1
  BY <1>1 DEF NextV, Generator, Block
<1>3. Stage(d) = [e EXCEPT !.V = v]
  BY DEF Stage, e
<1> HIDE DEF v
<1> QED
  BY <1>1, <1>2, <1>3 DEF Generator

(* and so does update, with one stage or with two.                         *)
LEMMA UpdateGrows ==
  ASSUME NEW d \in Generator, NEW data \in BOOLEAN
  PROVE  /\ update(d, data) \in Generator
         /\ update(d, data).Key > d.Key
         /\ update(d, data).V.n > d.V.n
         /\ update(d, data).reseed_counter = d.reseed_counter
<1>1. /\ Stage(d) \in Generator /\ Stage(d).Key = d.Key + 1 /\ Stage(d).V.n = d.V.n + 1
      /\ Stage(d).reseed_counter = d.reseed_counter
  BY StageGrows
<1>2. LET e == Stage(d) IN
      /\ Stage(e) \in Generator /\ Stage(e).Key = e.Key + 1 /\ Stage(e).V.n = e.V.n + 1
      /\ Stage(e).reseed_counter = e.reseed_counter
  BY <1>1, StageGrows
<1>3. d.Key \in Nat /\ d.V.n \in Nat
  BY DEF Generator, Block
<1> QED
  BY <1>1, <1>2, <1>3 DEF update

(* generate appends to the buffer; the state has moved on when it returns. *)
LEMMA GenerateStep ==
  ASSUME EntropyInv, instantiated, NEW n \in 1 .. buflen, generate(n)
  PROVE  /\ drbg' \in Generator /\ drbg'.reseed_counter = drbg.reseed_counter + 1
         /\ buf' \in Seq(Block) /\ Len(buf') = Len(buf) + n
         /\ NoWayBack'
<1> DEFINE last == [drbg EXCEPT !.V = NextV(drbg, n)]
           new == [k \in 1 .. n |-> NextV(drbg, k)]
           e == update(last, FALSE)
<1>1. drbg \in Generator /\ buf \in Seq(Block) /\ n \in Nat /\ drbg.Key \in Nat /\ drbg.V.n \in Nat
  BY DEF EntropyInv, EntropyTypes, Generator, Block
<1>2. last \in Generator /\ last.Key = drbg.Key /\ last.V.n = drbg.V.n + n /\ last.reseed_counter = drbg.reseed_counter
  <2> DEFINE v == NextV(drbg, n)
  <2>1. v \in Block /\ v.n = drbg.V.n + n
    BY <1>1 DEF NextV, Block
  <2> HIDE DEF v
  <2>2. last = [drbg EXCEPT !.V = v]
    BY DEF v
  <2> HIDE DEF last
  <2>3. last \in Generator /\ last.Key = drbg.Key /\ last.V = v
        /\ last.reseed_counter = drbg.reseed_counter
    BY <1>1, <2>1, <2>2 DEF Generator
  <2> QED BY <2>1, <2>3
<1>3. new \in Seq(Block) /\ Len(new) = n /\ \A k \in 1 .. n : new[k].by = drbg.Key /\ new[k].n = drbg.V.n + k
  <2>1. \A k \in 1 .. n : NextV(drbg, k) \in Block /\ NextV(drbg, k).by = drbg.Key /\ NextV(drbg, k).n = drbg.V.n + k
    BY <1>1 DEF NextV, Block
  <2>2. new \in [1 .. n -> Block]
    BY <2>1
  <2> QED BY <1>1, <2>1, <2>2
<1>4. buf' = buf \o new /\ drbg' = [e EXCEPT !.reseed_counter = @ + 1]
  BY DEF generate
<1> HIDE DEF last, new
<1>5. /\ e \in Generator /\ e.Key > drbg.Key /\ e.V.n > drbg.V.n + n
      /\ e.reseed_counter = drbg.reseed_counter
  BY <1>2, UpdateGrows, Zenon
<1> HIDE DEF e
<1>6. /\ drbg' \in Generator /\ drbg'.reseed_counter = drbg.reseed_counter + 1
      /\ drbg'.Key = e.Key /\ drbg'.V.n = e.V.n
  BY <1>4, <1>5 DEF Generator
<1>7. buf' \in Seq(Block) /\ Len(buf') = Len(buf) + n
  BY <1>1, <1>3, <1>4
<1>8. /\ drbg'.Key \in Nat /\ drbg'.V.n \in Nat
      /\ drbg'.Key > drbg.Key /\ drbg'.V.n > drbg.V.n + n
  <2>1. drbg'.Key \in Nat /\ drbg'.V.n \in Nat
    BY <1>6 DEF Generator, Block
  <2> QED BY <1>5, <1>6, <2>1
<1>9. ASSUME NEW k \in DOMAIN buf' PROVE buf'[k].n < drbg'.V.n /\ buf'[k].by < drbg'.Key
  <2>1. k \in 1 .. (Len(buf) + n) /\ Len(buf) \in Nat
    BY <1>1, <1>7, <1>9
  <2>2. CASE k <= Len(buf)
    <3>1. k \in DOMAIN buf /\ buf'[k] = buf[k] /\ buf[k] \in Block
      BY <1>1, <1>3, <1>4, <2>1, <2>2
    <3>2. buf[k].n < drbg.V.n /\ buf[k].by < drbg.Key /\ buf[k].n \in Nat /\ buf[k].by \in Nat
      BY <3>1 DEF EntropyInv, NoWayBack, Block
    <3>3. n \in Nat /\ drbg.Key \in Nat /\ drbg.V.n \in Nat
      BY <1>1, Zenon
    <3>4. buf[k].n < drbg'.V.n /\ buf[k].by < drbg'.Key
      BY <1>8, <3>2, <3>3
    <3> QED BY <3>1, <3>4, Zenon
  <2>3. CASE k > Len(buf)
    <3>1. k - Len(buf) \in 1 .. n /\ buf'[k] = new[k - Len(buf)]
      BY <1>1, <1>3, <1>4, <2>1, <2>3
    <3>2. buf'[k].by = drbg.Key /\ buf'[k].n = drbg.V.n + (k - Len(buf))
      BY <1>3, <3>1
    <3> QED BY <1>1, <1>8, <2>1, <3>1, <3>2
  <2> QED BY <2>1, <2>2, <2>3
<1> QED BY <1>6, <1>7, <1>9 DEF NoWayBack

(* A seed starts the count anew, of a new generator or of the one there    *)
(* is.                                                                     *)
LEMMA SeedStep ==
  ASSUME EntropyInv, NEW d, d = drbg \/ (d = drbg_zero /\ ~instantiated), Seed(d)
  PROVE  EntropyInv'
<1>1. drbg \in Generator /\ buf \in Seq(Block) /\ d = drbg
  BY DEF EntropyInv, EntropyTypes
<1>2. PICK e \in update_from_rdrand(update(d, TRUE)) : drbg' = [e EXCEPT !.reseed_counter = 1]
  BY Zenon DEF Seed
<1>3. e \in Generator /\ e.Key > drbg.Key /\ e.V.n > drbg.V.n
  <2> DEFINE f == update(d, TRUE)
             g == update(f, TRUE)
  <2>1. f \in Generator /\ f.Key > drbg.Key /\ f.V.n > drbg.V.n
    BY <1>1, UpdateGrows, Zenon
  <2> HIDE DEF f
  <2>2. g \in Generator /\ g.Key > f.Key /\ g.V.n > f.V.n
    BY <2>1, UpdateGrows, Zenon
  <2>3. e = f \/ e = g
    BY <1>2, Zenon DEF update_from_rdrand, f
  <2> HIDE DEF g
  <2>4. \A x \in Generator : x.Key \in Nat /\ x.V.n \in Nat
    BY DEF Generator, Block
  <2>5. CASE e = f
    BY <2>1, <2>5
  <2>6. CASE e = g
    BY <1>1, <2>1, <2>2, <2>4, <2>6
  <2> QED BY <2>3, <2>5, <2>6
<1>4. /\ drbg' \in Generator /\ drbg'.Key > drbg.Key /\ drbg'.V.n > drbg.V.n
      /\ drbg'.reseed_counter = 1
  BY <1>2, <1>3 DEF Generator
<1>5. /\ instantiated' = TRUE /\ calls' = 0 /\ pc' = "loop" /\ pc = "seeded"
      /\ UNCHANGED <<buflen, want, osvars, buf, rc>>
  BY DEF Seed
<1>6. NoWayBack'
  <2> SUFFICES ASSUME NEW k \in DOMAIN buf
               PROVE  buf[k].n < drbg'.V.n /\ buf[k].by < drbg'.Key
    BY <1>5 DEF NoWayBack
  <2>1. buf[k].n < drbg.V.n /\ buf[k].by < drbg.Key /\ buf[k] \in Block
    BY <1>1 DEF EntropyInv, NoWayBack
  <2> QED BY <1>1, <1>4, <2>1 DEF Generator, Block
<1>7. ~er' /\ ~fd'
  BY <1>5 DEF EntropyInv, osvars
<1> QED
  BY <1>4, <1>5, <1>6, <1>7, EntropyAssumption DEF EntropyInv, EntropyTypes, FilledIfOk

(* Every step keeps the invariant, the failures of the device included.    *)
LEMMA EntropyStep == EntropyInv /\ [RandomNext]_rndvars => EntropyInv'
<1> SUFFICES ASSUME EntropyInv, [RandomNext]_rndvars PROVE EntropyInv'
  OBVIOUS
<1> USE EntropyAssumption
<1>1. ASSUME NEW n \in 0 .. MaxBlocks, crypto_entropy_read(n) PROVE EntropyInv'
  BY <1>1 DEF crypto_entropy_read, EntropyInv, EntropyTypes, FilledIfOk, NoWayBack, osvars
<1>2. CASE entropy_read_init
  BY <1>2 DEF entropy_read_init, EntropyInv, EntropyTypes, FilledIfOk, NoWayBack, osvars, Returns
<1>3. CASE entropy_read_fill
  BY <1>3 DEF entropy_read_fill, EntropyInv, EntropyTypes, FilledIfOk, NoWayBack, osvars, Returns
<1>4. CASE entropy_read_done
  BY <1>4 DEF entropy_read_done, EntropyInv, EntropyTypes, FilledIfOk, NoWayBack, osvars, Returns
<1>5. CASE instantiate
  BY <1>5, SeedStep DEF instantiate
<1>6. CASE reseed
  BY <1>6, SeedStep DEF reseed
<1>7. CASE read_loop
  <2>1. CASE buflen > 0 /\ needs_reseed
    <3>1. /\ pc = "loop" /\ pc' = "seed"
          /\ UNCHANGED <<drbg, buflen, buf, calls, rc, instantiated, want, osvars>>
      BY <1>7, <2>1 DEF read_loop
    <3>2. EntropyTypes' /\ NoWayBack' /\ FilledIfOk'
      BY <3>1 DEF EntropyInv, EntropyTypes, NoWayBack, FilledIfOk
    <3> QED BY <3>1, <3>2 DEF EntropyInv, osvars
  <2>2. CASE buflen > 0 /\ ~needs_reseed
    <3> DEFINE n == IF buflen > GENERATE_MAXLEN THEN GENERATE_MAXLEN ELSE buflen
    <3>1. /\ generate(n) /\ buflen' = buflen - n
          /\ UNCHANGED <<pc, rc, instantiated, want, osvars>> /\ pc = "loop"
      BY <1>7, <2>2 DEF read_loop
    <3>2. n \in 1 .. buflen /\ instantiated /\ buflen \in Nat /\ calls \in Nat
      BY <2>2, <3>1 DEF EntropyInv, EntropyTypes
    <3> HIDE DEF n
    <3>3. /\ drbg' \in Generator /\ drbg'.reseed_counter = drbg.reseed_counter + 1
          /\ buf' \in Seq(Block) /\ Len(buf') = Len(buf) + n
          /\ NoWayBack'
      BY <3>1, <3>2, GenerateStep
    <3>4. calls' = calls + 1
      BY <3>1 DEF generate
    <3>5. calls' <= RESEED_INTERVAL /\ drbg'.reseed_counter = calls' + 1
      BY <2>2, <3>2, <3>3, <3>4 DEF needs_reseed, EntropyInv, EntropyTypes, Generator
    <3>6. Len(buf') + buflen' = want' /\ buflen' \in Nat
      BY <3>1, <3>2, <3>3 DEF EntropyInv, EntropyTypes
    <3>7. EntropyTypes'
      BY <3>1, <3>2, <3>3, <3>4, <3>6 DEF EntropyInv, EntropyTypes
    <3>8. ~er' /\ ~fd' /\ instantiated'
      BY <3>1, <3>2 DEF EntropyInv, osvars
    <3> QED BY <3>1, <3>3, <3>5, <3>6, <3>7, <3>8 DEF EntropyInv, FilledIfOk
  <2>3. CASE buflen = 0
    BY <1>7, <2>3 DEF read_loop, EntropyInv, EntropyTypes, FilledIfOk, NoWayBack, osvars, Returns
  <2> QED BY <1>7, <2>1, <2>2, <2>3 DEF read_loop
<1>8. CASE UNCHANGED rndvars
  BY <1>8 DEF rndvars, osvars, EntropyInv, EntropyTypes, FilledIfOk, NoWayBack
<1> QED
  BY <1>1, <1>2, <1>3, <1>4, <1>5, <1>6, <1>7, <1>8 DEF RandomNext

(* For every reseed interval, maximum of a call and length of a request,   *)
(* and wherever the device fails: the generator is seeded and reseeded in  *)
(* time, a request that returns 0 is filled, earlier output cannot be      *)
(* computed from the state, and /dev/urandom is closed between requests.   *)
THEOREM EntropyCorrect == RandomSpec => []EntropyIsSound
<1>1. EntropyInv => EntropyIsSound
  BY DEF EntropyInv, EntropyIsSound, SeededInTime, NothingOpen
<1> QED
  BY <1>1, EntropyInit, EntropyStep, PTL DEF RandomSpec
=============================================================================
