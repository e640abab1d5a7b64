-------------------------- MODULE MCProtoHandshake --------------------------
(***************************************************************************)
(* The handshake of two ends, with every pair of configurations for two    *)
(* secrets and up to MaxFaults faults at any point; and the functions it   *)
(* takes nonces, exponents, keys and MACs from: the random generator,      *)
(* Diffie-Hellman, SHA256 with HMAC and PBKDF2, and the choice of the code *)
(* for SHA256 and AES.  Only one part moves, so that the five are checked  *)
(* side by side, not multiplied.                                           *)
(***************************************************************************)
EXTENDS ProtoHandshake, HwAccel, Entropy, DiffieHellman, Sha256

VARIABLE part       \* the part that moves

(* A modulus of two digits: 23.                                            *)
Group == <<4, 3>>

(* Both ends have failed after the connection was lost.                    *)
NoHandshake ==
    /\ conf = [p \in End |-> CHOOSE o \in Config : TRUE]
    /\ H = [p \in End |-> [proto_handshake EXCEPT !.result = "failed",
                              !.read_cookie = "NULL", !.write_cookie = "NULL"]]
    /\ stream = [p \in End |-> <<>>]
    /\ broken = TRUE
    /\ faults = MaxFaults

(* A processor without any of the features, and a build without them.      *)
NoChoice ==
    /\ machine.built = {} /\ machine.bits = {} /\ machine.broken = {}
    /\ ~machine.cpuid /\ machine.level = 0 /\ ~machine.hwcap

MCInit ==
    /\ RandomInit
    /\ HashInit
    /\ DhInit
    /\ HwInit
    /\ \/ part = "handshake" /\ Init /\ NoChoice
       \/ part \in {"random", "hash", "dh"} /\ NoHandshake /\ NoChoice
       \/ part = "hw" /\ NoHandshake

MCNext ==
    \/ part = "handshake" /\ Next /\ UNCHANGED <<rndvars, hashvars, dhvars, hwvars, part>>
    \/ part = "random" /\ RandomNext /\ UNCHANGED <<hsvars, hashvars, dhvars, hwvars, part>>
    \/ part = "hash" /\ HashNext /\ UNCHANGED <<hsvars, rndvars, dhvars, hwvars, part>>
    \/ part = "dh" /\ DhNext /\ UNCHANGED <<hsvars, rndvars, hashvars, hwvars, part>>
    \/ part = "hw" /\ HwNext /\ UNCHANGED <<hsvars, rndvars, hashvars, dhvars, part>>

MCSpec ==
    /\ MCInit
    /\ [][MCNext]_<<hsvars, rndvars, hashvars, dhvars, hwvars, part>>
    /\ \A p \in End : WF_hsvars(EndNext(p))
=============================================================================
