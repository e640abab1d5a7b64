----------------------------- MODULE ProtoPipe -----------------------------
(***************************************************************************)
(* One direction of an encrypted connection (lib/proto/proto_pipe.c): the  *)
(* pipe "enc" reads plaintext from a socket and writes packets to the      *)
(* network, the pipe "dec" at the other end reads packets and writes the   *)
(* plaintext to its target.  The packets are those of proto_crypt.c, the   *)
(* reads go through module Netbuf, the writes are network_write.c.         *)
(*                                                                         *)
(* The n-th byte of plaintext is n.  A byte of a packet names the packet   *)
(* (its number and its data) and its place in it.                          *)
(*                                                                         *)
(* Every recv and send may move any part of what it could.  MaxFaults      *)
(* bounds the failures: a system call or an allocation that fails, a byte  *)
(* damaged on the network.                                                 *)
(***************************************************************************)
EXTENDS Integers, Sequences, Netbuf

CONSTANTS
    MAXDSZ,      \* PCRYPT_MAXDSZ: bytes of plaintext in a packet
    ESZ,         \* PCRYPT_ESZ: bytes in a packet
    OUTBUFSIZE,  \* size of a pipe's output buffer
    SockLen,     \* bytes a socket buffers
    MaxBytes,    \* bytes of plaintext in all
    MaxFaults    \* bound on failures

ASSUME SizesAssumption ==
    /\ MAXDSZ \in Nat \ {0} /\ ESZ \in Nat /\ MAXDSZ < ESZ
    /\ OUTBUFSIZE \in Nat \ {0} /\ OUTBUFSIZE % ESZ = 0

Pipe == {"enc", "dec"}

VARIABLES
    P,       \* P[d]: the pipe_cookie, with its reader R
    sock,    \* sock[d]: the bytes waiting in the socket d reads from
    sent,    \* number of bytes of plaintext the source has written
    closed,  \* the source has closed its end
    wired,   \* number of bytes of packets that "enc" has sent
    out,     \* the bytes the target has received
    faults   \* number of failures so far

vars == <<P, sock, sent, closed, wired, out, faults>>

minread(d) == IF d = "dec" THEN ESZ ELSE 1
full_buflen(d) == IF d = "dec" THEN ESZ ELSE MAXDSZ

(* status is 1 while the pipe runs, 0 after EOF and -1 after a failure.    *)
(* wbuf is the part of outbuf that network_write has not sent yet.         *)
proto_pipe(d) ==
    [R |-> netbuf_read_wait(netbuf_read_init, minread(d)), pnum |-> 0,
     write_cookie |-> FALSE, wbuf |-> <<>>, status |-> 1]

Init ==
    /\ P = [d \in Pipe |-> proto_pipe(d)]
    /\ sock = [d \in Pipe |-> <<>>]
    /\ sent = 0
    /\ closed = FALSE
    /\ wired = 0
    /\ out = <<>>
    /\ faults = 0

-----------------------------------------------------------------------------
(* Packets.                                                                *)

proto_crypt_enc(buf, pnum) ==
    [i \in 1 .. ESZ |-> [num |-> pnum, data |-> buf, at |-> i]]

Intact(ebuf, pnum) ==
    \A i \in 1 .. ESZ :
        ebuf[i] = [num |-> pnum, data |-> ebuf[1].data, at |-> i]

(* The plaintext of the packet, or <<>> for -1 (a damaged packet, one that *)
(* is not the pnum-th, or a bad length).                                   *)
proto_crypt_dec(ebuf, pnum) ==
    IF Intact(ebuf, pnum) THEN ebuf[1].data ELSE <<>>

-----------------------------------------------------------------------------
(* callback_pipe_read.                                                     *)

(* One turn of the loop over the input inbuf of pipe d.                    *)
Turn(d, inbuf, s) ==
    LET left == Len(inbuf) - s.inpos
        loop_inlen == IF left > full_buflen(d) THEN full_buflen(d) ELSE left
        in == SubSeq(inbuf, s.inpos + 1, s.inpos + loop_inlen)
        res == IF d = "dec" THEN proto_crypt_dec(in, s.pnum)
               ELSE proto_crypt_enc(in, s.pnum)
    IN  IF \/ s.bad
           \/ left = 0
           \/ Len(s.outbuf) + full_buflen(d) > OUTBUFSIZE
           \/ d = "dec" /\ loop_inlen < ESZ
        THEN s
        ELSE [inpos |-> s.inpos + loop_inlen, outbuf |-> s.outbuf \o res,
              pnum |-> s.pnum + 1, bad |-> res = <<>>]

(* The loop: After[k] holds the one state that k turns lead to.            *)
Packets(d, inbuf, pnum) ==
    LET After[k \in 0 .. Len(inbuf)] ==
            IF k = 0
            THEN {[inpos |-> 0, outbuf |-> <<>>, pnum |-> pnum, bad |-> FALSE]}
            ELSE {Turn(d, inbuf, s) : s \in After[k - 1]}
    IN  CHOOSE s \in After[Len(inbuf)] : TRUE

(* The pipe has ended; its connection closes the sockets when it failed.   *)
Ended(p, status) ==
    [p EXCEPT !.R = netbuf_read_wait_cancel(@), !.status = status,
              !.write_cookie = FALSE, !.wbuf = <<>>]

(* Mutant: a stream of packets never ends cleanly.                         *)
eof_partial(d, p) == IF d = "dec" THEN Ended(p, -1) ELSE Ended(p, 0)

(* Mutant: the end of the stream is always clean.                          *)
eof_clean(d, p) == Ended(p, 0)

(* EOF on the way in: clean, unless part of a packet is left.              *)
eof(d, p) ==
    IF d = "dec" /\ netbuf_read_peek(p.R) # <<>> THEN Ended(p, -1) ELSE Ended(p, 0)

(* Mutant: what was put out is written, even if that is nothing.           *)
process_empty(d, p) ==
    LET s == Packets(d, netbuf_read_peek(p.R), p.pnum)
    IN  IF s.bad THEN Ended(p, -1)
        ELSE [p EXCEPT !.R = netbuf_read_consume(@, s.inpos), !.pnum = s.pnum,
                       !.write_cookie = TRUE, !.wbuf = s.outbuf]

(* Data on the way in: the packets go out, or the pipe waits for more.     *)
process(d, p) ==
    LET s == Packets(d, netbuf_read_peek(p.R), p.pnum)
        R == netbuf_read_consume(p.R, s.inpos)
    IN  IF s.bad THEN Ended(p, -1)
        ELSE IF s.outbuf = <<>>
        THEN [p EXCEPT !.R = netbuf_read_wait(R, minread(d)), !.pnum = s.pnum]
        ELSE [p EXCEPT !.R = R, !.pnum = s.pnum,
                       !.write_cookie = TRUE, !.wbuf = s.outbuf]

(* The callback of a wait with status 0.  The operation it starts next may *)
(* fail to be registered (err1).                                           *)
callback_pipe_read(d, R) ==
    LET p == [P[d] EXCEPT !.R = R]
    IN  \/ /\ P' = [P EXCEPT ![d] = process(d, p)]
           /\ UNCHANGED faults
        \/ /\ faults < MaxFaults
           /\ faults' = faults + 1
           /\ P' = [P EXCEPT ![d] = Ended(p, -1)]

-----------------------------------------------------------------------------
(* Steps of a pipe.                                                        *)

(* The socket d reads from is at its end: nobody will write to it again.   *)
AtEof(d) ==
    /\ sock[d] = <<>>
    /\ IF d = "enc" THEN closed ELSE P["enc"].status # 1

(* The reader has enough already: callback_success.                        *)
Immediate(d) ==
    /\ P[d].R.immediate_cookie
    /\ callback_pipe_read(d, callback_success(P[d].R))
    /\ UNCHANGED <<sock, sent, closed, wired, out>>

(* recv delivers some bytes: callback_buf of network_read.c, up to         *)
(* callback_pipe_read when the read is satisfied.                          *)
Receive(d) ==
    /\ P[d].R.read_cookie.on
    /\ LET C == P[d].R.read_cookie
       IN  \E n \in 1 .. Len(sock[d]) :
              /\ n <= C.max - Len(C.got)
              /\ sock' = [sock EXCEPT ![d] = SubSeq(@, n + 1, Len(@))]
              /\ LET R == recv(P[d].R, SubSeq(sock[d], 1, n))
                 IN  IF KeepGoing(R)
                     THEN P' = [P EXCEPT ![d].R = R] /\ UNCHANGED faults
                     ELSE callback_pipe_read(d, callback_read(R, Len(R.read_cookie.got)))
    /\ UNCHANGED <<sent, closed, wired, out>>

(* recv returns 0: bytes that came before are handed over first.           *)
ReceiveEof(d) ==
    /\ P[d].R.read_cookie.on
    /\ AtEof(d)
    /\ LET R == P[d].R
           n == Len(R.read_cookie.got)
       IN  IF n > 0
           THEN callback_pipe_read(d, callback_read(R, n))
           ELSE /\ P' = [P EXCEPT ![d] = eof(d, [P[d] EXCEPT !.R = callback_read(R, 0)])]
                /\ UNCHANGED faults
    /\ UNCHANGED <<sock, sent, closed, wired, out>>

(* Where the bytes pipe d sends go.                                        *)
Delivered(d, bytes) ==
    IF d = "enc"
    THEN /\ sock' = [sock EXCEPT !["dec"] = @ \o bytes]
         /\ wired' = wired + Len(bytes)
         /\ UNCHANGED out
    ELSE /\ out' = out \o bytes
         /\ UNCHANGED <<sock, wired>>

Room(d) == IF d = "enc" THEN SockLen - Len(sock["dec"]) ELSE SockLen

(* send takes some bytes: callback_buf of network_write.c, up to           *)
(* callback_pipe_write when all of them are sent.                          *)
Send(d) ==
    /\ P[d].write_cookie
    /\ d = "enc" => P["dec"].status # -1
    /\ \E n \in 1 .. Len(P[d].wbuf) :
          LET left == SubSeq(P[d].wbuf, n + 1, Len(P[d].wbuf))
          IN  /\ n <= Room(d)
              /\ Delivered(d, SubSeq(P[d].wbuf, 1, n))
              /\ P' = [P EXCEPT ![d].wbuf = left,
                                ![d].write_cookie = left # <<>>,
                                ![d].R = IF left = <<>>
                                         THEN netbuf_read_wait(@, minread(d)) ELSE @]
    /\ UNCHANGED <<sent, closed, faults>>

(* send fails because the peer has dropped its connection.                 *)
SendRefused ==
    /\ P["enc"].write_cookie
    /\ P["dec"].status = -1
    /\ P' = [P EXCEPT !["enc"] = Ended(@, -1)]
    /\ UNCHANGED <<sock, sent, closed, wired, out, faults>>

(* Mutant: a failure is reported as EOF.                                   *)
Fail_eof(d) ==
    /\ faults < MaxFaults
    /\ P[d].status = 1
    /\ P' = [P EXCEPT ![d] = Ended(@, 0)]
    /\ faults' = faults + 1
    /\ UNCHANGED <<sock, sent, closed, wired, out>>

(* A recv, a send, a shutdown or a registration fails.                     *)
Fail(d) ==
    /\ faults < MaxFaults
    /\ P[d].status = 1
    /\ P' = [P EXCEPT ![d] = Ended(@, -1)]
    /\ faults' = faults + 1
    /\ UNCHANGED <<sock, sent, closed, wired, out>>

-----------------------------------------------------------------------------
(* The source writes its next byte, or closes; the network damages a byte. *)
SourceWrites ==
    /\ ~closed
    /\ sent < MaxBytes
    /\ Len(sock["enc"]) < SockLen
    /\ sent' = sent + 1
    /\ sock' = [sock EXCEPT !["enc"] = Append(@, sent')]
    /\ UNCHANGED <<P, closed, wired, out, faults>>

SourceCloses ==
    /\ ~closed
    /\ closed' = TRUE
    /\ UNCHANGED <<P, sock, sent, wired, out, faults>>

Damage ==
    /\ faults < MaxFaults
    /\ sock["dec"] # <<>>
    /\ sock' = [sock EXCEPT !["dec"][Len(sock["dec"])] =
                   [num |-> 0, data |-> <<>>, at |-> 0]]
    /\ faults' = faults + 1
    /\ UNCHANGED <<P, sent, closed, wired, out>>

PipeNext(d) == Immediate(d) \/ Receive(d) \/ ReceiveEof(d) \/ Send(d)

Next ==
    \/ \E d \in Pipe : PipeNext(d) \/ Fail(d)
    \/ SendRefused
    \/ SourceWrites
    \/ SourceCloses
    \/ Damage

Spec == Init /\ [][Next]_vars

(* The event loop serves a pipe whose socket is ready.                     *)
FairSpec == Spec /\ WF_vars(SendRefused) /\ \A d \in Pipe : WF_vars(PipeNext(d))

-----------------------------------------------------------------------------
TypeOK ==
    /\ \A d \in Pipe :
          /\ P[d].pnum \in Nat
          /\ P[d].status \in {-1, 0, 1}
          /\ P[d].write_cookie \in BOOLEAN
          /\ P[d].R.buflen \in Nat /\ P[d].R.bufpos \in Nat
          /\ Len(sock[d]) <= SockLen
    /\ sent \in 0 .. MaxBytes
    /\ closed \in BOOLEAN
    /\ faults \in 0 .. MaxFaults

(* The reader of a pipe keeps inside of its buffer and its assertions      *)
(* hold, wherever the consumed part ends and however short the reads are.  *)
ReadersSound == \A d \in Pipe : ReaderSound(P[d].R)

(* The output of one pass fits the output buffer, for encryption too,      *)
(* where the test compares with the size of the input of a packet.         *)
OutbufFits == \A d \in Pipe : Len(P[d].wbuf) <= OUTBUFSIZE

(* A running pipe has exactly one operation in progress, and never a write *)
(* of nothing; a pipe that has ended has none.                             *)
OneOperation ==
    \A d \in Pipe :
        /\ P[d].status = 1 <=> (Waiting(P[d].R) \/ P[d].write_cookie)
        /\ ~(Waiting(P[d].R) /\ P[d].write_cookie)
        /\ P[d].write_cookie <=> P[d].wbuf # <<>>

(* The three together: buffers are kept to, and a pipe never hangs with    *)
(* nothing in progress.                                                    *)
BuffersSound == ReadersSound /\ OutbufFits /\ OneOperation

(* The target receives the bytes of the source, in order, each once and    *)
(* none of them altered, whatever the network does.                        *)
InOrder == Len(out) <= sent /\ \A i \in 1 .. Len(out) : out[i] = i

(* When the receiving pipe reports EOF, every byte that was put on the     *)
(* network belonged to a packet it has decrypted: an end of the stream     *)
(* inside of a packet, even one whose first bytes came in a read of its    *)
(* own, is never taken for EOF.                                            *)
CleanEof == P["dec"].status = 0 => wired = ESZ * P["dec"].pnum

(* The two together: what comes out, and what its end means.               *)
OutputIsRight == InOrder /\ CleanEof

(* Without failures everything the source writes before it closes reaches  *)
(* the target, followed by EOF.                                            *)
AllDelivered ==
    [](faults = 0) =>
        [](closed => <>(P["dec"].status = 0 /\ Len(out) = sent))

Stream == INSTANCE ByteStream WITH
    delivered <- Len(out),
    over <- CASE P["dec"].status = 0 -> "eof"
              [] P["dec"].status = -1 -> "failed"
              [] OTHER -> "no",
    broken <- \E d \in Pipe : P[d].status = -1

(* The pair of pipes implements a byte stream: unless one of them fails,   *)
(* the target sees EOF only after all the source has written.              *)
ImplementsByteStream == Stream!Spec
=============================================================================
