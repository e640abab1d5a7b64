-------------------------- MODULE ProtoPipeProofs --------------------------
(***************************************************************************)
(* Proofs about ProtoPipe, for all sizes of packets, of buffers and of     *)
(* sockets, and every number of bytes and faults.                          *)
(*                                                                         *)
(* How the source is cut into packets is decided on the way, by how reads  *)
(* happen to be split.  The invariant therefore says that there is a cut   *)
(* b, a function from packets to positions, that explains everything in    *)
(* the system: the packets made so far, the bytes that are encrypted but   *)
(* not sent, those on the wire, those the other end has buffered, and what *)
(* it has put out.  A step of the pipe that encrypts extends b.  Only one  *)
(* byte, Garbage, may differ from what b says, and a packet with such a    *)
(* byte in it is not accepted.                                             *)
(***************************************************************************)
EXTENDS ProtoPipe, WellFoundedInduction, TLAPS

(* A byte on the wire, and any byte.                                       *)
PacketByte == [num : Nat, data : Seq(Nat), at : Nat]

(* A byte of the stream, or a byte of a packet.                            *)
Data == Nat \cup PacketByte

(* The reader of a pipe.                                                   *)
PipeReader ==
    [buf : Seq(Data), bufpos : Nat, buflen : Nat,
     read_cookie : [on : BOOLEAN, got : Seq(Data), max : Nat, min : Nat],
     immediate_cookie : BOOLEAN]

(* Without a read in progress nothing is left of the last one.             *)
Quiet(R) == ~R.read_cookie.on => R.read_cookie = NoRead

(* A stream is a function from positions to the bytes that may be there.   *)
(* The reader R holds, in its buffer and in the read in progress, the      *)
(* bytes of the stream f from position c + 1 on.                           *)
Carries(R, f, c) ==
    /\ \A i \in 1 .. Buffered(R) : R.buf[R.bufpos + i] \in f[c + i]
    /\ \A i \in 1 .. Len(R.read_cookie.got) : R.read_cookie.got[i] \in f[c + Buffered(R) + i]

(* A read in progress waits for as many bytes as are missing of len.       *)
Asks(R, len) == R.read_cookie.on => Buffered(R) + R.read_cookie.min = len

(* What every call of netbuf_read.c keeps, whoever makes it.               *)
SoundReader(R) == R \in PipeReader /\ ReaderSound(R) /\ Quiet(R)

(* A byte that was damaged on its way.                                     *)
Garbage == [num |-> 0, data |-> <<>>, at |-> 0]

(* The bytes of the source behind position a, up to b.  A byte of the      *)
(* source is its position.                                                 *)
Bytes(a, b) == [i \in 1 .. b - a |-> a + i]

(* The encrypted stream is what it is by how the source was cut into       *)
(* packets: packet k, counted from 0, holds bytes b[k] + 1 to b[k + 1] of  *)
(* the source.  Its nth byte.                                              *)
Wire(b, n) ==
    LET k == (n - 1) \div ESZ
    IN  [num |-> k, data |-> Bytes(b[k], b[k + 1]), at |-> ((n - 1) % ESZ) + 1]

(* The stream the source writes,                                           *)
Plain == [n \in Nat |-> {n}]

(* and the encrypted one, in which any byte may be damaged.                *)
Coded(b) == [n \in Nat |-> {Wire(b, n), Garbage}]

(* The locals of the loop in callback_pipe_read.                           *)
LoopState == [inpos : Nat, outbuf : Seq(Data), pnum : Nat, bad : BOOLEAN]

(* The cookie of a pipe.                                                   *)
Cookie ==
    [R : PipeReader, pnum : Nat, write_cookie : BOOLEAN, wbuf : Seq(Data), status : {-1, 0, 1}]

(* The types of the variables.                                             *)
PipeTypes ==
    /\ P \in [Pipe -> Cookie]
    /\ sock \in [Pipe -> Seq(Data)]
    /\ sent \in Nat /\ wired \in Nat /\ closed \in BOOLEAN
    /\ out \in Seq(Data)

(* What holds for each pipe by itself: it waits to read or to write, never *)
(* both, and it runs if and only if it does one of them.                   *)
CookieSound(d, p) ==
    /\ SoundReader(p.R) /\ Asks(p.R, minread(d))
    /\ Len(p.wbuf) <= OUTBUFSIZE
    /\ p.status = 1 <=> (Waiting(p.R) \/ p.write_cookie)
    /\ ~(Waiting(p.R) /\ p.write_cookie)
    /\ p.write_cookie <=> p.wbuf # <<>>

(* The first n packets each have between 1 and MAXDSZ bytes.               *)
Cut(b, n) == b[0] = 0 /\ \A k \in 0 .. n - 1 : b[k + 1] - b[k] \in 1 .. MAXDSZ

(* The bytes of stream f from position c on that the reader R and the      *)
(* socket s hold; the stream ends at n.                                    *)
Flows(R, s, f, c, n) ==
    /\ Carries(R, f, c)
    /\ c + Buffered(R) + Len(R.read_cookie.got) + Len(s) = n
    /\ \A i \in 1 .. Len(s) : s[i] \in f[c + Buffered(R) + Len(R.read_cookie.got) + i]

(* The pipe that encrypts: it has made pnum packets of the first b[pnum]   *)
(* bytes; w bytes of them are on the wire and the rest in wbuf; it has not *)
(* lost any byte behind them.  Its status is 0 only if there are none and  *)
(* the source is closed.                                                   *)
EncOk(b, p, s, n, w, over) ==
    /\ Cut(b, p.pnum)
    /\ b[p.pnum] <= n /\ w <= ESZ * p.pnum
    /\ p.status = 1 => Flows(p.R, s, Plain, b[p.pnum], n)
    /\ p.status = 0 => over /\ b[p.pnum] = n
    /\ p.status # -1 => w + Len(p.wbuf) = ESZ * p.pnum
    /\ p.status # -1 => \A i \in 1 .. Len(p.wbuf) : p.wbuf[i] = Wire(b, w + i)

(* The pipe that decrypts: it has taken pnum packets, and their bytes are  *)
(* those written to o and those in wbuf.  Its status is 0 only at the end  *)
(* of the wire.                                                            *)
DecOk(b, p, s, n, w, o, es) ==
    /\ Len(o) <= n /\ \A i \in 1 .. Len(o) : o[i] = i
    /\ p.status = 1 => Flows(p.R, s, Coded(b), ESZ * p.pnum, w)
    /\ p.status = 1 => Len(o) + Len(p.wbuf) = b[p.pnum]
    /\ p.status = 1 => \A i \in 1 .. Len(p.wbuf) : p.wbuf[i] = Len(o) + i
    /\ p.status = 0 => es # 1 /\ w = ESZ * p.pnum

(* The two pipes, for one way of cutting the source into packets.          *)
StreamInv(b) ==
    /\ PipeTypes
    /\ \A d \in Pipe : CookieSound(d, P[d])
    /\ EncOk(b, P["enc"], sock["enc"], sent, wired, closed)
    /\ DecOk(b, P["dec"], sock["dec"], sent, wired, out, P["enc"].status)

(* The inductive invariant: there is such a way.                           *)
PipeInv == \E b \in [Nat -> Nat] : StreamInv(b)

(* Sequences, as the provers know them.                                    *)
LEMMA EmptyIs ==
  ASSUME NEW S
  PROVE  <<>> \in Seq(S) /\ Len(<<>>) = 0 /\ \A q \in Seq(S) : q # <<>> => Len(q) \in Nat \ {0}
OBVIOUS

(* An element is replaced.                                                 *)
LEMMA ExceptIs ==
  ASSUME NEW S, NEW q \in Seq(S), NEW i \in 1 .. Len(q), NEW e \in S
  PROVE  LET r == [q EXCEPT ![i] = e]
         IN  r \in Seq(S) /\ Len(r) = Len(q) /\ \A j \in 1 .. Len(q) : r[j] = IF j = i THEN e ELSE q[j]
OBVIOUS

(* Sequences with the same elements are the same.                          *)
LEMMA SameSeq ==
  ASSUME NEW S, NEW q \in Seq(S), NEW r \in Seq(S), Len(q) = Len(r),
         \A i \in 1 .. Len(q) : q[i] = r[i]
  PROVE  q = r
OBVIOUS

(* Two sequences, one after the other.                                     *)
LEMMA ConcatIs ==
  ASSUME NEW S, NEW q \in Seq(S), NEW r \in Seq(S)
  PROVE  /\ q \o r \in Seq(S) /\ Len(q \o r) = Len(q) + Len(r)
         /\ \A i \in 1 .. Len(q) + Len(r) : (q \o r)[i] = IF i <= Len(q) THEN q[i] ELSE r[i - Len(q)]
OBVIOUS

(* The empty one changes nothing.                                          *)
LEMMA ConcatEmpty ==
  ASSUME NEW S, NEW q \in Seq(S)
  PROVE  q \o <<>> = q /\ <<>> \o q = q
OBVIOUS

(* A part of a sequence,                                                   *)
LEMMA SubSeqIs ==
  ASSUME NEW S, NEW q \in Seq(S), NEW m \in Int, NEW n \in Int, \A i \in m .. n : q[i] \in S
  PROVE  /\ SubSeq(q, m, n) \in Seq(S)
         /\ Len(SubSeq(q, m, n)) = IF m <= n THEN n - m + 1 ELSE 0
         /\ \A i \in 1 .. n - m + 1 : SubSeq(q, m, n)[i] = q[m + i - 1]
OBVIOUS

(* which may be all of it.                                                 *)
LEMMA SubSeqAll ==
  ASSUME NEW S, NEW q \in Seq(S)
  PROVE  SubSeq(q, 1, Len(q)) = q
OBVIOUS

(* One more element.                                                       *)
LEMMA AppendIs ==
  ASSUME NEW S, NEW q \in Seq(S), NEW e \in S
  PROVE  /\ Append(q, e) \in Seq(S) /\ Append(q, e) # <<>> /\ Len(Append(q, e)) = Len(q) + 1
         /\ \A i \in 1 .. Len(q) : Append(q, e)[i] = q[i]
         /\ Append(q, e)[Len(q) + 1] = e
OBVIOUS

(* Induction, for a set of numbers instead of a predicate.                 *)
LEMMA SetInduction ==
  ASSUME NEW S, 0 \in S, \A n \in Nat : n \in S => n + 1 \in S
  PROVE  \A n \in Nat : n \in S
<1> DEFINE T == {n \in Nat : n \notin S}
<1>1. SUFFICES ASSUME T # {} PROVE FALSE
  OBVIOUS
<1>2. IsWellFoundedOn(OpToRel(<, Nat), Nat)
  BY NatLessThanWellFounded, Zenon
<1>3. T \subseteq Nat
  OBVIOUS
<1> HIDE DEF T
<1>4. PICK x \in T : \A y \in T : ~(<<y, x>> \in OpToRel(<, Nat))
  BY <1>1, <1>2, <1>3, WFMin, Zenon
<1>5. \A y \in T : ~(y < x)
  BY <1>3, <1>4, Zenon DEF OpToRel
<1> USE DEF T
<1>6. x \in Nat /\ x \notin S /\ x # 0
  OBVIOUS
<1>7. x - 1 \in Nat /\ x - 1 < x
  BY <1>6
<1>8. x - 1 \in S
  BY <1>5, <1>7
<1> QED BY <1>6, <1>7, <1>8

(* The loop over packets: what holds before it and what a turn keeps holds *)
(* after it.  Packets is the last element of a recursive function, which   *)
(* has to be shown to exist.                                               *)
LEMMA PacketsLoop ==
  ASSUME NEW d, NEW D, NEW inbuf \in Seq(D), NEW pnum, NEW G,
         [inpos |-> 0, outbuf |-> <<>>, pnum |-> pnum, bad |-> FALSE] \in G,
         \A s \in G : Turn(d, inbuf, s) \in G
  PROVE  Packets(d, inbuf, pnum) \in G
<1> DEFINE N == Len(inbuf)
           start == [inpos |-> 0, outbuf |-> <<>>, pnum |-> pnum, bad |-> FALSE]
           step(X) == {Turn(d, inbuf, s) : s \in X}
           Eq(f, n) == f = [k \in 0 .. n |-> IF k = 0 THEN {start} ELSE step(f[k - 1])]
           A == CHOOSE f : Eq(f, N)
<1>1. N \in Nat
  OBVIOUS
<1>2. \E f : Eq(f, N)
  <2> DEFINE S == {n \in Nat : \E f : Eq(f, n)}
  <2> HIDE DEF step
  <2>1. 0 \in S
    <3>1. Eq([k \in 0 .. 0 |-> {start}], 0)
      OBVIOUS
    <3> QED BY <3>1, Zenon
  <2>2. ASSUME NEW n \in Nat, n \in S PROVE n + 1 \in S
    <3>1. PICK f : Eq(f, n)
      BY <2>2
    <3> DEFINE g == [k \in 0 .. n + 1 |-> IF k = n + 1 THEN step(f[n]) ELSE f[k]]
    <3>2. ASSUME NEW k \in 0 .. n + 1
          PROVE  g[k] = IF k = 0 THEN {start} ELSE step(g[k - 1])
      <4>1. CASE k = 0
        <5>1. f[0] = {start} /\ 0 \in 0 .. n + 1 /\ 0 # n + 1
          BY <3>1
        <5>2. g[0] = f[0]
          BY <5>1
        <5> QED BY <4>1, <5>1, <5>2
      <4>2. CASE k \in 1 .. n
        <5>1. k \in 0 .. n /\ k # 0 /\ k - 1 \in 0 .. n + 1
          BY <4>2
        <5>2. f[k] = step(f[k - 1])
          <6> HIDE DEF start
          <6> QED BY <3>1, <5>1, Zenon
        <5>3. g[k] = f[k] /\ g[k - 1] = f[k - 1]
          BY <4>2, <5>1
        <5> QED BY <5>1, <5>2, <5>3
      <4>3. CASE k = n + 1
        BY <3>1, <4>3
      <4> QED BY <4>1, <4>2, <4>3
    <3>3. Eq(g, n + 1)
      <4> HIDE DEF start
      <4> QED BY <3>2, Zenon
    <3> HIDE DEF g, Eq
    <3>4. \E f1 : Eq(f1, n + 1)
      BY <3>3
    <3> QED BY <3>4
  <2> HIDE DEF S
  <2>3. \A n \in Nat : n \in S
    BY <2>1, <2>2, SetInduction
  <2> QED BY <1>1, <2>3 DEF S
<1>3. Eq(A, N)
  BY <1>2, Zenon
<1>4. Packets(d, inbuf, pnum) = CHOOSE s \in A[N] : TRUE
  BY DEF Packets
<1> HIDE DEF A
<1>5. \E s \in G : A[N] = {s}
  <2> DEFINE S == {n \in Nat : n <= N => \E s \in G : A[n] = {s}}
  <2>1. 0 \in S
    <3>1. A[0] = {start} /\ start \in G
      BY <1>1, <1>3
    <3> QED BY <3>1, Zenon
  <2>2. ASSUME NEW n \in Nat, n \in S PROVE n + 1 \in S
    <3> SUFFICES ASSUME n + 1 <= N PROVE \E s \in G : A[n + 1] = {s}
      OBVIOUS
    <3>1. PICK s \in G : A[n] = {s}
      BY <1>1, <2>2
    <3>2. A[n + 1] = step(A[n])
      BY <1>1, <1>3
    <3>3. A[n + 1] = {Turn(d, inbuf, s)}
      BY <3>1, <3>2
    <3> QED BY <3>3
  <2> HIDE DEF S
  <2>3. \A n \in Nat : n \in S
    BY <2>1, <2>2, SetInduction
  <2> QED BY <1>1, <2>3 DEF S
<1> QED BY <1>4, <1>5

(* The types of what a reader holds.                                       *)
LEMMA ReaderNumbers ==
  ASSUME NEW R \in PipeReader, ReaderSound(R)
  PROVE  /\ R.buf \in Seq(Data) /\ Len(R.buf) \in Nat /\ R.bufpos \in Nat /\ R.buflen \in Nat
         /\ R.read_cookie.got \in Seq(Data) /\ Len(R.read_cookie.got) \in Nat
         /\ R.bufpos <= Len(R.buf) /\ Buffered(R) \in Nat
         /\ Len(R.buf) + Len(R.read_cookie.got) <= R.buflen
         /\ R.read_cookie.on \in BOOLEAN /\ R.immediate_cookie \in BOOLEAN
         /\ R.read_cookie.max \in Nat /\ R.read_cookie.min \in Nat
BY DEF PipeReader, ReaderSound, Buffered

(* netbuf_read_peek returns the buffered bytes.                            *)
LEMMA Peeked ==
  ASSUME NEW R \in PipeReader, ReaderSound(R)
  PROVE  /\ netbuf_read_peek(R) \in Seq(Data)
         /\ Len(netbuf_read_peek(R)) = Buffered(R)
         /\ \A i \in 1 .. Buffered(R) : netbuf_read_peek(R)[i] = R.buf[R.bufpos + i]
<1> DEFINE s == R.buf
           m == R.bufpos + 1
           n == Len(s)
<1>1. s \in Seq(Data) /\ n \in Nat /\ m \in Nat \ {0} /\ m <= n + 1 /\ R.bufpos \in Nat
  <2>1. /\ R.buf \in Seq(Data) /\ Len(R.buf) \in Nat /\ R.bufpos \in Nat
        /\ R.bufpos <= Len(R.buf)
    BY ReaderNumbers, Zenon
  <2> QED BY <2>1
<1>2. Buffered(R) = n - m + 1
  BY <1>1 DEF Buffered
<1>3. netbuf_read_peek(R) = SubSeq(s, m, n)
  BY DEF netbuf_read_peek
<1> HIDE DEF s, m, n
<1>4. /\ SubSeq(s, m, n) \in Seq(Data)
      /\ Len(SubSeq(s, m, n)) = n - m + 1
      /\ \A i \in 1 .. n - m + 1 : SubSeq(s, m, n)[i] = s[m + i - 1]
  <2>1. \A i \in m .. n : s[i] \in Data
    BY <1>1 DEF n
  <2>2. /\ SubSeq(s, m, n) \in Seq(Data)
        /\ Len(SubSeq(s, m, n)) = IF m <= n THEN n - m + 1 ELSE 0
        /\ \A i \in 1 .. n - m + 1 : SubSeq(s, m, n)[i] = s[m + i - 1]
    BY <1>1, <2>1, SubSeqIs
  <2> QED BY <1>1, <2>2
<1>5. \A i \in 1 .. n - m + 1 : m + i - 1 = R.bufpos + i
  BY <1>1 DEF m
<1> QED BY <1>2, <1>3, <1>4, <1>5 DEF s

(* Moving the data to the start of the buffer, or to a larger one, keeps   *)
(* it.                                                                     *)
LEMMA MovedKeeps ==
  ASSUME NEW R \in PipeReader, ReaderSound(R), R.read_cookie = NoRead, R.immediate_cookie = FALSE
  PROVE  /\ Moved(R) \in PipeReader /\ ReaderSound(Moved(R))
         /\ Moved(R).bufpos = 0 /\ Buffered(Moved(R)) = Buffered(R)
         /\ Moved(R).buflen = R.buflen /\ Len(Moved(R).buf) = Buffered(R)
         /\ Moved(R).read_cookie = NoRead /\ Moved(R).immediate_cookie = FALSE
         /\ \A f, c : Carries(R, f, c) => Carries(Moved(R), f, c)
<1> DEFINE p == netbuf_read_peek(R)
           M == Moved(R)
<1>1. /\ p \in Seq(Data) /\ Len(p) = Buffered(R) /\ Buffered(R) \in Nat
      /\ \A i \in 1 .. Buffered(R) : p[i] = R.buf[R.bufpos + i]
  BY Peeked, ReaderNumbers
<1>2. M = [R EXCEPT !.buf = p, !.bufpos = 0]
  BY DEF Moved
<1> HIDE DEF p, M
<1>3. /\ M \in PipeReader /\ M.buf = p /\ M.bufpos = 0 /\ M.buflen = R.buflen
      /\ M.read_cookie = NoRead /\ M.immediate_cookie = FALSE
  BY <1>1, <1>2, Zenon DEF PipeReader
<1>4. Buffered(M) = Buffered(R) /\ Len(M.buf) = Buffered(R)
  BY <1>1, <1>3 DEF Buffered
<1>5. ReaderSound(M)
  <2>1. Len(NoRead.got) = 0 /\ NoRead.on = FALSE
    BY DEF NoRead
  <2>2. /\ Len(R.buf) \in Nat /\ R.bufpos \in Nat /\ R.buflen \in Nat
        /\ Len(R.buf) + Len(R.read_cookie.got) <= R.buflen
    BY ReaderNumbers, Zenon
  <2>3. Len(R.buf) + 0 <= R.buflen
    BY <2>1, <2>2
  <2>4. Buffered(R) <= R.buflen
    BY <2>2, <2>3 DEF Buffered
  <2>5. M.bufpos <= Len(M.buf) /\ Len(M.buf) + 0 <= M.buflen
    BY <1>1, <1>3, <1>4, <2>2, <2>4
  <2> QED BY <1>3, <2>1, <2>5 DEF ReaderSound
<1>6. ASSUME NEW f, NEW c, Carries(R, f, c) PROVE Carries(M, f, c)
  <2>1. \A i \in 1 .. Buffered(M) : M.buf[M.bufpos + i] \in f[c + i]
    BY <1>1, <1>3, <1>4, <1>6 DEF Carries
  <2>2. Len(M.read_cookie.got) = 0
    BY <1>3 DEF NoRead
  <2> QED BY <2>1, <2>2 DEF Carries
<1> QED BY <1>3, <1>4, <1>5, <1>6 DEF M

(* A reader that does not wait.                                            *)
LEMMA Idles ==
  ASSUME NEW R, SoundReader(R), ~Waiting(R)
  PROVE  R.immediate_cookie = FALSE /\ R.read_cookie = NoRead
BY DEF SoundReader, Waiting, PipeReader, Quiet

(* netbuf_read_wait keeps the data and waits for what is missing,          *)
LEMMA WaitFacts ==
  ASSUME NEW R, SoundReader(R), ~Waiting(R), NEW len \in Nat \ {0}
  PROVE  LET S == netbuf_read_wait(R, len)
         IN  /\ SoundReader(S) /\ Waiting(S) /\ Asks(S, len)
             /\ Buffered(S) = Buffered(R) /\ S.read_cookie.got = <<>>
             /\ \A f, c : Carries(R, f, c) => Carries(S, f, c)
<1> DEFINE W == netbuf_read_wait(R, len)
           new == IF 2 * R.buflen < len THEN len ELSE 2 * R.buflen
           Q == IF R.buflen < len THEN netbuf_read_resize_buffer(R, len) ELSE R
           T == IF Q.buflen - Q.bufpos < len THEN Moved(Q) ELSE Q
<1>1. R \in PipeReader /\ ReaderSound(R) /\ R.immediate_cookie = FALSE /\ R.read_cookie = NoRead
  BY Idles, Zenon DEF SoundReader
<1>2. NoRead.on = FALSE /\ NoRead.got = <<>> /\ Len(NoRead.got) = 0
  BY DEF NoRead
<1>3. /\ R.buflen \in Nat /\ R.bufpos \in Nat /\ Buffered(R) \in Nat /\ R.bufpos <= Len(R.buf)
      /\ Len(R.buf) \in Nat
  BY <1>1, ReaderNumbers, Zenon
<1>4. CASE Buffered(R) >= len
  <2>1. W = [R EXCEPT !.immediate_cookie = TRUE]
    BY <1>4 DEF netbuf_read_wait
  <2> HIDE DEF W
  <2>2. /\ W \in PipeReader /\ W.buf = R.buf /\ W.bufpos = R.bufpos /\ W.buflen = R.buflen
        /\ W.read_cookie = NoRead /\ W.immediate_cookie = TRUE
    BY <1>1, <2>1, Zenon DEF PipeReader
  <2>3. Buffered(W) = Buffered(R)
    BY <2>2 DEF Buffered
  <2>4. ReaderSound(W)
    BY <1>1, <1>2, <2>2, Zenon DEF ReaderSound
  <2>5. Waiting(W) /\ Asks(W, len) /\ Quiet(W)
    BY <1>2, <2>2 DEF Waiting, Asks, Quiet
  <2>6. \A f, c : Carries(R, f, c) => Carries(W, f, c)
    BY <1>1, <2>2, <2>3 DEF Carries
  <2>7. W.read_cookie.got = <<>>
    BY <1>2, <2>2
  <2> QED BY <2>2, <2>3, <2>4, <2>5, <2>6, <2>7 DEF SoundReader, W
<1>5. CASE ~(Buffered(R) >= len)
  <2> DEFINE Same(X) ==
        /\ X \in PipeReader /\ ReaderSound(X) /\ Buffered(X) = Buffered(R)
        /\ X.read_cookie = NoRead /\ X.immediate_cookie = FALSE
        /\ \A f, c : Carries(R, f, c) => Carries(X, f, c)
  <2>1. Same(Q) /\ Q.buflen >= len
    <3>1. CASE R.buflen < len
      <4> DEFINE M == Moved(R)
      <4>1. /\ M \in PipeReader /\ ReaderSound(M)
            /\ M.bufpos = 0 /\ Buffered(M) = Buffered(R)
            /\ M.buflen = R.buflen
            /\ M.read_cookie = NoRead /\ M.immediate_cookie = FALSE
            /\ \A f, c : Carries(R, f, c) => Carries(M, f, c)
        BY <1>1, MovedKeeps, Zenon
      <4>2. Q = [M EXCEPT !.buflen = new]
        BY <3>1 DEF netbuf_read_resize_buffer
      <4>3. new \in Nat /\ new >= len /\ new >= R.buflen
        BY <1>3, <3>1
      <4> HIDE DEF M, Q, new
      <4>4. /\ Q \in PipeReader /\ Q.buf = M.buf /\ Q.bufpos = M.bufpos /\ Q.buflen = new
            /\ Q.read_cookie = NoRead /\ Q.immediate_cookie = FALSE
        BY <4>1, <4>2, <4>3 DEF PipeReader
      <4>5. Buffered(Q) = Buffered(R)
        BY <4>1, <4>4 DEF Buffered
      <4>6. Len(M.buf) \in Nat /\ M.bufpos <= Len(M.buf) /\ Len(M.buf) + 0 <= M.buflen
        <5>1. Len(M.buf) + Len(M.read_cookie.got) <= M.buflen
          BY <4>1, ReaderNumbers, Zenon
        <5> QED BY <1>2, <4>1, <5>1, ReaderNumbers, Zenon
      <4>7. Q.bufpos <= Len(Q.buf) /\ Len(Q.buf) + 0 <= Q.buflen
        BY <1>3, <4>1, <4>3, <4>4, <4>6
      <4>8. ReaderSound(Q)
        BY <1>2, <4>4, <4>7, Zenon DEF ReaderSound
      <4>9. \A f, c : Carries(R, f, c) => Carries(Q, f, c)
        <5>1. \A f, c : Carries(M, f, c) => Carries(Q, f, c)
          BY <1>2, <4>1, <4>4, <4>5 DEF Carries
        <5> QED BY <4>1, <5>1
      <4> QED BY <4>3, <4>4, <4>5, <4>8, <4>9
    <3>2. CASE ~(R.buflen < len)
      <4>1. Q = R
        BY <3>2
      <4> HIDE DEF Q
      <4> QED BY <1>1, <1>3, <3>2, <4>1
    <3> QED BY <3>1, <3>2, Zenon
  <2> HIDE DEF Q
  <2>2. Same(T) /\ T.buflen - T.bufpos >= len
    <3>1. Q.buflen \in Nat /\ Q.bufpos \in Nat
      BY <2>1, ReaderNumbers, Zenon
    <3>2. CASE Q.buflen - Q.bufpos < len
      <4>1. T = Moved(Q)
        BY <3>2
      <4>2. /\ Same(Moved(Q)) /\ Moved(Q).bufpos = 0 /\ Moved(Q).buflen = Q.buflen
        BY <2>1, MovedKeeps, Zenon
      <4> HIDE DEF T
      <4> QED BY <2>1, <3>1, <4>1, <4>2
    <3>3. CASE ~(Q.buflen - Q.bufpos < len)
      <4>1. T = Q
        BY <3>3
      <4> HIDE DEF T
      <4> QED BY <2>1, <3>1, <3>3, <4>1
    <3> QED BY <3>2, <3>3, Zenon
  <2> DEFINE max == T.buflen - Len(T.buf)
             min == T.bufpos + len - Len(T.buf)
  <2>3. W = [T EXCEPT !.read_cookie = network_read(max, min)]
    BY <1>5 DEF netbuf_read_wait, Q
  <2> HIDE DEF T, W
  <2>4. /\ T.buflen \in Nat /\ T.bufpos \in Nat /\ Len(T.buf) \in Nat /\ T.bufpos <= Len(T.buf)
        /\ Len(T.buf) + 0 <= T.buflen /\ T \in PipeReader
    <3>1. Len(T.buf) + Len(T.read_cookie.got) <= T.buflen
      BY <2>2, ReaderNumbers, Zenon
    <3> QED BY <1>2, <2>2, <3>1, ReaderNumbers, Zenon
  <2>5. Buffered(T) = Buffered(R) /\ Len(T.buf) - T.bufpos < len
    <3>1. Buffered(T) = Buffered(R)
      BY <2>2
    <3> QED BY <1>3, <1>5, <3>1 DEF Buffered
  <2>6. max \in Nat /\ max > 0 /\ min \in 1 .. max /\ Buffered(R) + min = len
        /\ Len(T.buf) + max = T.buflen /\ min \in Nat
    <3>1. Buffered(R) = Len(T.buf) - T.bufpos
      BY <2>5 DEF Buffered
    <3>2. T.buflen - T.bufpos >= len
      BY <2>2, Zenon
    <3>3. \A x, y, z \in Nat : \A l \in Nat \ {0} :
              y <= z /\ z - y < l /\ x - y >= l =>
                  /\ x - z \in Nat /\ x - z > 0 /\ y + l - z \in 1 .. (x - z)
                  /\ (z - y) + (y + l - z) = l /\ z + (x - z) = x /\ y + l - z \in Nat
      BY ONLY TRUE
    <3>4. /\ max \in Nat /\ max > 0 /\ min \in 1 .. max
          /\ (Len(T.buf) - T.bufpos) + min = len /\ Len(T.buf) + max = T.buflen /\ min \in Nat
      BY ONLY <2>4, <2>5, <3>2, <3>3, len \in Nat \ {0}, Zenon
    <3> QED BY ONLY <3>1, <3>4, Zenon
  <2> HIDE DEF max, min
  <2>7. network_read(max, min) \in [on : BOOLEAN, got : Seq(Data), max : Nat, min : Nat]
        /\ network_read(max, min).on = TRUE /\ network_read(max, min).got = <<>>
        /\ network_read(max, min).max = max /\ network_read(max, min).min = min
    BY <2>6 DEF network_read
  <2>8. /\ W \in PipeReader /\ W.buf = T.buf /\ W.bufpos = T.bufpos /\ W.buflen = T.buflen
        /\ W.read_cookie = network_read(max, min) /\ W.immediate_cookie = FALSE
    <3>1. T.immediate_cookie = FALSE
      BY <2>2
    <3> QED BY <2>3, <2>4, <2>7, <3>1, Zenon DEF PipeReader
  <2>9. Buffered(W) = Buffered(R)
    BY <2>5, <2>8 DEF Buffered
  <2>10. ReaderSound(W)
    <3>1. Len(W.read_cookie.got) = 0
      BY <2>7, <2>8
    <3>2. W.bufpos <= Len(W.buf) /\ Len(W.buf) + Len(W.read_cookie.got) <= W.buflen
      BY <2>4, <2>8, <3>1
    <3> QED BY <2>6, <2>7, <2>8, <3>2 DEF ReaderSound
  <2>11. Waiting(W) /\ Quiet(W) /\ Asks(W, len)
    BY <2>6, <2>7, <2>8, <2>9 DEF Waiting, Quiet, Asks
  <2>12. ASSUME NEW f, NEW c, Carries(R, f, c) PROVE Carries(W, f, c)
    <3>1. Carries(T, f, c)
      BY <2>2, <2>12
    <3>2. \A i \in 1 .. Buffered(W) : W.buf[W.bufpos + i] \in f[c + i]
      BY <2>5, <2>8, <2>9, <3>1 DEF Carries
    <3>3. Len(W.read_cookie.got) = 0
      BY <2>7, <2>8
    <3> QED BY <3>2, <3>3 DEF Carries
  <2>13. W.read_cookie.got = <<>>
    BY <2>7, <2>8
  <2> QED BY <2>8, <2>9, <2>10, <2>11, <2>12, <2>13 DEF SoundReader, W
<1> QED BY <1>4, <1>5

(* a part of it arrives,                                                   *)
LEMMA RecvFacts ==
  ASSUME NEW R, SoundReader(R), R.read_cookie.on, NEW new \in Seq(Data),
         Len(new) <= R.read_cookie.max - Len(R.read_cookie.got)
  PROVE  LET S == recv(R, new)
         IN  /\ SoundReader(S) /\ S.read_cookie.on /\ Buffered(S) = Buffered(R)
             /\ Len(S.read_cookie.got) = Len(R.read_cookie.got) + Len(new)
             /\ S.read_cookie.min = R.read_cookie.min
             /\ \A f, c : /\ Carries(R, f, c) /\ c \in Nat
                          /\ \A i \in 1 .. Len(new) :
                                new[i] \in f[c + Buffered(R) + Len(R.read_cookie.got) + i]
                          => Carries(S, f, c)
<1> DEFINE S == recv(R, new)
           got == R.read_cookie.got
           both == got \o new
<1>1. R \in PipeReader /\ ReaderSound(R)
  BY DEF SoundReader
<1>2. /\ got \in Seq(Data) /\ Len(got) \in Nat /\ Len(new) \in Nat /\ Buffered(R) \in Nat
      /\ Len(R.buf) \in Nat /\ R.buflen \in Nat /\ R.read_cookie.max \in Nat
  <2>1. Len(new) \in Nat
    OBVIOUS
  <2> QED BY <1>1, <2>1, ReaderNumbers, Zenon
<1>3. Len(new) <= R.read_cookie.max - Len(got)
  OBVIOUS
<1> HIDE DEF got
<1>4. /\ both \in Seq(Data) /\ Len(both) = Len(got) + Len(new)
      /\ \A i \in 1 .. Len(got) + Len(new) :
            both[i] = IF i <= Len(got) THEN got[i] ELSE new[i - Len(got)]
  BY <1>2, ConcatIs
<1>5. S = [R EXCEPT !.read_cookie.got = both]
  BY DEF recv, got
<1> HIDE DEF S, both
<1>6. /\ S \in PipeReader /\ S.buf = R.buf /\ S.bufpos = R.bufpos /\ S.buflen = R.buflen
      /\ S.immediate_cookie = R.immediate_cookie /\ S.read_cookie.got = both
      /\ S.read_cookie.on = R.read_cookie.on /\ S.read_cookie.max = R.read_cookie.max
      /\ S.read_cookie.min = R.read_cookie.min
  BY <1>1, <1>4, <1>5, Zenon DEF PipeReader
<1>7. Buffered(S) = Buffered(R)
  BY <1>6 DEF Buffered
<1>8. ReaderSound(S)
  <2>1. Len(R.buf) + R.read_cookie.max = R.buflen
    BY <1>1 DEF ReaderSound
  <2>2. Len(S.buf) + Len(S.read_cookie.got) <= S.buflen
    BY <1>2, <1>3, <1>4, <1>6, <2>1
  <2> QED BY <1>1, <1>6, <2>2 DEF ReaderSound
<1>9. ASSUME NEW f, NEW c, Carries(R, f, c), c \in Nat,
             \A i \in 1 .. Len(new) : new[i] \in f[c + Buffered(R) + Len(got) + i]
      PROVE  Carries(S, f, c)
  <2>1. \A i \in 1 .. Buffered(S) : S.buf[S.bufpos + i] \in f[c + i]
    BY <1>6, <1>7, <1>9 DEF Carries
  <2>2. ASSUME NEW i \in 1 .. Len(both) PROVE both[i] \in f[c + Buffered(R) + i]
    <3>1. CASE i <= Len(got)
      <4>1. got[i] \in f[c + Buffered(R) + i]
        BY <1>2, <1>9, <3>1 DEF Carries, got
      <4> QED BY <1>2, <1>4, <3>1, <4>1
    <3>2. CASE ~(i <= Len(got))
      <4> DEFINE j == i - Len(got)
      <4>1. j \in 1 .. Len(new) /\ c + Buffered(R) + Len(got) + j = c + Buffered(R) + i
        BY <1>2, <1>4, <1>9, <3>2
      <4>2. both[i] = new[j]
        BY <1>2, <1>4, <3>2
      <4> HIDE DEF j
      <4> QED BY <1>9, <4>1, <4>2
    <3> QED BY <3>1, <3>2
  <2> QED BY <1>6, <1>7, <2>1, <2>2 DEF Carries
<1>10. Quiet(S)
  BY <1>6 DEF Quiet
<1> QED BY <1>4, <1>6, <1>7, <1>8, <1>9, <1>10 DEF SoundReader, S, got

(* the read is over and its bytes are in the buffer,                       *)
LEMMA ReadOver ==
  ASSUME NEW R, SoundReader(R), R.read_cookie.on
  PROVE  LET S == callback_read(R, Len(R.read_cookie.got))
         IN  /\ SoundReader(S) /\ ~Waiting(S)
             /\ S.read_cookie.got = <<>>
             /\ Buffered(S) = Buffered(R) + Len(R.read_cookie.got)
             /\ \A f, c : c \in Nat /\ Carries(R, f, c) => Carries(S, f, c)
<1> DEFINE got == R.read_cookie.got
           S == callback_read(R, Len(got))
           both == R.buf \o got
<1>1. R \in PipeReader /\ ReaderSound(R)
  BY DEF SoundReader
<1>2. /\ got \in Seq(Data) /\ Len(got) \in Nat /\ Buffered(R) \in Nat /\ R.buf \in Seq(Data)
      /\ Len(R.buf) \in Nat /\ R.buflen \in Nat /\ R.bufpos \in Nat /\ R.bufpos <= Len(R.buf)
      /\ Len(R.buf) + Len(got) <= R.buflen
  BY <1>1, ReaderNumbers, Zenon
<1>3. SubSeq(got, 1, Len(got)) = got
  <2> HIDE DEF got
  <2> QED BY <1>2, SubSeqAll
<1>4. S = [R EXCEPT !.buf = both, !.read_cookie = NoRead]
  BY <1>3, Zenon DEF callback_read
<1> HIDE DEF got
<1>5. /\ both \in Seq(Data) /\ Len(both) = Len(R.buf) + Len(got)
      /\ \A i \in 1 .. Len(R.buf) + Len(got) :
            both[i] = IF i <= Len(R.buf) THEN R.buf[i] ELSE got[i - Len(R.buf)]
  <2> DEFINE old == R.buf
  <2>1. old \in Seq(Data)
    BY <1>2
  <2> HIDE DEF old
  <2>2. /\ old \o got \in Seq(Data) /\ Len(old \o got) = Len(old) + Len(got)
        /\ \A i \in 1 .. Len(old) + Len(got) :
              (old \o got)[i] = IF i <= Len(old) THEN old[i] ELSE got[i - Len(old)]
    BY <1>2, <2>1, ConcatIs
  <2> QED BY <2>2 DEF old
<1> HIDE DEF S, both
<1>6. NoRead \in [on : BOOLEAN, got : Seq(Data), max : Nat, min : Nat] /\ NoRead.on = FALSE
      /\ NoRead.got = <<>> /\ Len(NoRead.got) = 0
  BY DEF NoRead
<1>7. /\ S \in PipeReader /\ S.buf = both /\ S.bufpos = R.bufpos /\ S.buflen = R.buflen
      /\ S.read_cookie = NoRead /\ S.immediate_cookie = R.immediate_cookie
  BY <1>1, <1>4, <1>5, <1>6, Zenon DEF PipeReader
<1>8. S.immediate_cookie = FALSE
  BY <1>1, <1>7 DEF ReaderSound, PipeReader
<1>9. Buffered(S) = Buffered(R) + Len(got)
  <2>1. Buffered(S) = Len(R.buf) + Len(got) - R.bufpos
    <3>1. Buffered(S) = Len(S.buf) - S.bufpos
      BY DEF Buffered
    <3> QED BY <1>2, <1>5, <1>7, <3>1
  <2>2. Buffered(R) = Len(R.buf) - R.bufpos
    BY DEF Buffered
  <2>3. \A x, y, z \in Nat : x + y - z = x - z + y
    OBVIOUS
  <2> QED BY <1>2, <2>1, <2>2, <2>3
<1>10. ReaderSound(S)
  <2>1. S.bufpos <= Len(S.buf) /\ Len(S.buf) + 0 <= S.buflen
    BY <1>2, <1>5, <1>7
  <2> QED BY <1>6, <1>7, <1>8, <2>1 DEF ReaderSound
<1>11. Quiet(S) /\ ~Waiting(S)
  BY <1>6, <1>7, <1>8 DEF Quiet, Waiting
<1>12. ASSUME NEW f, NEW c, c \in Nat, Carries(R, f, c) PROVE Carries(S, f, c)
  <2>1. ASSUME NEW i \in 1 .. Buffered(R) + Len(got) PROVE both[R.bufpos + i] \in f[c + i]
    <3>1. Buffered(R) = Len(R.buf) - R.bufpos
      BY DEF Buffered
    <3>2. CASE i <= Buffered(R)
      <4>1. R.buf[R.bufpos + i] \in f[c + i]
        BY <1>2, <1>12, <3>2 DEF Carries
      <4>2. R.bufpos + i \in 1 .. Len(R.buf) + Len(got) /\ R.bufpos + i <= Len(R.buf)
        BY <1>2, <3>1, <3>2
      <4> QED BY <1>5, <4>1, <4>2
    <3>3. CASE ~(i <= Buffered(R))
      <4> DEFINE j == i - Buffered(R)
                 k == R.bufpos + i
      <4>1. j \in 1 .. Len(got) /\ c + Buffered(R) + j = c + i
        BY <1>2, <1>12, <2>1, <3>3
      <4>2. k \in 1 .. Len(R.buf) + Len(got) /\ ~(k <= Len(R.buf)) /\ k - Len(R.buf) = j
        <5>2. i \in 1 .. (Len(R.buf) - R.bufpos) + Len(got)
          BY <2>1, <3>1
        <5>3. ~(i <= Len(R.buf) - R.bufpos)
          BY <3>1, <3>3, Zenon
        <5>4. Len(R.buf) \in Nat /\ R.bufpos \in Nat /\ Len(got) \in Nat /\ R.bufpos <= Len(R.buf)
          BY <1>2
        <5>5. /\ k \in 1 .. Len(R.buf) + Len(got) /\ ~(k <= Len(R.buf))
              /\ k - Len(R.buf) = i - (Len(R.buf) - R.bufpos)
          <6> DEFINE x == Len(R.buf)
                     y == R.bufpos
                     z == Len(got)
          <6>1. x \in Nat /\ y \in Nat /\ z \in Nat /\ y <= x /\ i \in 1 .. (x - y) + z /\ ~(i <= x - y)
            BY <5>2, <5>3, <5>4, Zenon
          <6> HIDE DEF x, y, z
          <6>2. y + i \in 1 .. x + z /\ ~(y + i <= x) /\ (y + i) - x = i - (x - y)
            BY ONLY <6>1
          <6> QED BY <6>2, Zenon DEF x, y, z
        <5> QED BY ONLY <3>1, <5>5, Zenon
      <4> HIDE DEF j, k
      <4>3. got[j] \in f[c + Buffered(R) + j]
        BY <1>12, <4>1 DEF Carries, got
      <4>4. both[k] = got[j]
        BY <1>5, <4>2
      <4>5. both[k] \in f[c + i]
        BY <4>1, <4>3, <4>4
      <4> QED BY <4>5 DEF k
    <3> QED BY <3>2, <3>3
  <2>2. Len(S.read_cookie.got) = 0
    BY <1>6, <1>7
  <2> QED BY <1>7, <1>9, <2>1, <2>2 DEF Carries
<1>13. S.read_cookie.got = <<>>
  BY <1>6, <1>7
<1> QED BY <1>7, <1>9, <1>10, <1>11, <1>12, <1>13 DEF SoundReader, S, got

(* or the wait is cancelled,                                               *)
LEMMA Cancelled ==
  ASSUME NEW R, SoundReader(R)
  PROVE  LET S == netbuf_read_wait_cancel(R) IN SoundReader(S) /\ ~Waiting(S)
<1> DEFINE S == netbuf_read_wait_cancel(R)
<1>1. R \in PipeReader /\ ReaderSound(R)
  BY DEF SoundReader
<1>2. NoRead \in [on : BOOLEAN, got : Seq(Data), max : Nat, min : Nat] /\ NoRead.on = FALSE
      /\ NoRead.got = <<>> /\ Len(NoRead.got) = 0
  BY DEF NoRead
<1>3. /\ S \in PipeReader /\ S.buf = R.buf /\ S.bufpos = R.bufpos /\ S.buflen = R.buflen
      /\ S.read_cookie = NoRead /\ S.immediate_cookie = FALSE
  BY <1>1, <1>2, Zenon DEF PipeReader, netbuf_read_wait_cancel
<1> HIDE DEF S
<1>4. ReaderSound(S)
  <2>1. /\ Len(R.buf) \in Nat /\ Len(R.read_cookie.got) \in Nat /\ R.buflen \in Nat
        /\ R.bufpos <= Len(R.buf) /\ Len(R.buf) + Len(R.read_cookie.got) <= R.buflen
    BY <1>1, ReaderNumbers, Zenon
  <2>2. \A x, y, z \in Nat : x + y <= z => x + 0 <= z
    OBVIOUS
  <2>3. Len(R.buf) + 0 <= R.buflen
    BY <2>1, <2>2, Zenon
  <2>4. S.bufpos <= Len(S.buf) /\ Len(S.buf) + 0 <= S.buflen
    BY <1>3, <2>1, <2>3
  <2> QED BY <1>2, <1>3, <2>4 DEF ReaderSound
<1> QED BY <1>2, <1>3, <1>4 DEF SoundReader, Quiet, Waiting, S

(* or there was enough,                                                    *)
LEMMA Succeeded ==
  ASSUME NEW R, SoundReader(R), R.immediate_cookie
  PROVE  LET S == callback_success(R)
         IN  /\ SoundReader(S) /\ ~Waiting(S) /\ S.read_cookie.got = <<>>
             /\ Buffered(S) = Buffered(R) /\ Len(R.read_cookie.got) = 0
             /\ \A f, c : Carries(R, f, c) => Carries(S, f, c)
<1> DEFINE S == callback_success(R)
<1>1. R \in PipeReader /\ ReaderSound(R) /\ Quiet(R)
  BY DEF SoundReader
<1>2. R.read_cookie = NoRead
  BY <1>1 DEF PipeReader, ReaderSound, Quiet
<1>3. NoRead.on = FALSE /\ NoRead.got = <<>> /\ Len(NoRead.got) = 0
  BY DEF NoRead
<1>4. /\ S \in PipeReader /\ S.buf = R.buf /\ S.bufpos = R.bufpos /\ S.buflen = R.buflen
      /\ S.read_cookie = R.read_cookie /\ S.immediate_cookie = FALSE
  BY <1>1, Zenon DEF PipeReader, callback_success
<1> HIDE DEF S
<1>5. ReaderSound(S)
  BY <1>1, <1>2, <1>3, <1>4, Zenon DEF ReaderSound
<1>6. Buffered(S) = Buffered(R)
  BY <1>4 DEF Buffered
<1>7. \A f, c : Carries(R, f, c) => Carries(S, f, c)
  BY <1>4, <1>6 DEF Carries
<1> QED BY <1>2, <1>3, <1>4, <1>5, <1>6, <1>7 DEF SoundReader, Quiet, Waiting, S

(* and netbuf_read_consume takes bytes from the front.                     *)
LEMMA ConsumeFacts ==
  ASSUME NEW R, SoundReader(R), ~Waiting(R), NEW n \in 0 .. Buffered(R)
  PROVE  LET S == netbuf_read_consume(R, n)
         IN  /\ SoundReader(S) /\ ~Waiting(S) /\ S.read_cookie.got = <<>>
             /\ Buffered(S) = Buffered(R) - n
             /\ \A f, c : c \in Nat /\ Carries(R, f, c) => Carries(S, f, c + n)
<1> DEFINE S == netbuf_read_consume(R, n)
<1>1. R \in PipeReader /\ ReaderSound(R) /\ R.immediate_cookie = FALSE /\ R.read_cookie = NoRead
  BY Idles, Zenon DEF SoundReader
<1>2. NoRead.on = FALSE /\ NoRead.got = <<>> /\ Len(NoRead.got) = 0
  BY DEF NoRead
<1>3. /\ Buffered(R) \in Nat /\ Len(R.buf) \in Nat /\ R.bufpos \in Nat /\ n \in Nat
      /\ n <= Buffered(R) /\ Buffered(R) = Len(R.buf) - R.bufpos /\ R.bufpos + n \in Nat
  <2>1. Buffered(R) \in Nat /\ Len(R.buf) \in Nat /\ R.bufpos \in Nat
    BY <1>1, ReaderNumbers, Zenon
  <2>2. n \in Nat /\ n <= Buffered(R)
    BY <2>1
  <2> QED BY <2>1, <2>2 DEF Buffered
<1>4. /\ S \in PipeReader /\ S.buf = R.buf /\ S.bufpos = R.bufpos + n /\ S.buflen = R.buflen
      /\ S.read_cookie = NoRead /\ S.immediate_cookie = FALSE
  BY <1>1, <1>3 DEF PipeReader, netbuf_read_consume
<1> HIDE DEF S
<1>5. Buffered(S) = Buffered(R) - n
  BY <1>3, <1>4 DEF Buffered
<1>6. ReaderSound(S)
  <2>1. S.bufpos <= Len(S.buf)
    BY <1>3, <1>4
  <2> QED BY <1>1, <1>2, <1>4, <2>1, Zenon DEF ReaderSound
<1>7. ASSUME NEW f, NEW c, c \in Nat, Carries(R, f, c) PROVE Carries(S, f, c + n)
  <2>1. ASSUME NEW i \in 1 .. Buffered(S) PROVE S.buf[S.bufpos + i] \in f[c + n + i]
    <3> DEFINE j == n + i
    <3>1. /\ j \in 1 .. Buffered(R) /\ R.bufpos + j = S.bufpos + i /\ c + j = c + n + i
      <4>1. i \in Nat /\ 1 <= i /\ i <= Buffered(R) - n
        BY ONLY <1>3, <1>5, i \in 1 .. Buffered(S)
      <4>2. j \in 1 .. Buffered(R) /\ c + j = c + n + i
        BY ONLY <1>3, <4>1, c \in Nat
      <4>3. R.bufpos + j = (R.bufpos + n) + i
        BY ONLY <1>3, <4>1
      <4> QED BY <1>4, <4>2, <4>3, Zenon
    <3> HIDE DEF j
    <3>2. R.buf[R.bufpos + j] \in f[c + j]
      BY <1>7, <3>1 DEF Carries
    <3> QED BY <1>4, <3>1, <3>2
  <2>2. Len(S.read_cookie.got) = 0
    BY <1>2, <1>4
  <2> QED BY <2>1, <2>2 DEF Carries
<1> QED BY <1>2, <1>4, <1>5, <1>6, <1>7 DEF SoundReader, Quiet, Waiting, S

(* Multiples.                                                              *)
LEMMA Times ==
  ASSUME NEW a \in Nat \ {0}, NEW x \in Nat, NEW y \in Nat
  PROVE  /\ a * x \in Nat /\ a * (x + 1) = a * x + a
         /\ a * x <= a * y => x <= y
         /\ x <= y => a * x <= a * y
         /\ x <= y => a * y - a * x = a * (y - x)
<1>1. a * x \in Nat /\ a * (x + 1) = a * x + a
  OBVIOUS
<1>2. ASSUME x <= y PROVE a * x <= a * y /\ a * y - a * x = a * (y - x)
  <2> DEFINE z == y - x
  <2>1. z \in Nat /\ y = x + z
    BY <1>2
  <2> HIDE DEF z
  <2>2. a * y = a * x + a * z /\ a * z \in Nat
    BY <2>1
  <2>3. a * y - a * x = a * z
    BY <1>1, <2>2
  <2> QED BY <1>1, <2>2, <2>3 DEF z
<1>3. ASSUME y < x PROVE a * y < a * x
  <2> DEFINE z == x - y - 1
  <2>1. z \in Nat /\ x = y + (z + 1)
    BY <1>3
  <2> HIDE DEF z
  <2>2. a * x = a * y + a * (z + 1) /\ a * (z + 1) = a * z + a /\ a * z \in Nat /\ a * y \in Nat
    BY <2>1
  <2> QED BY <2>2
<1>4. a * y \in Nat
  OBVIOUS
<1>5. a * x <= a * y => x <= y
  BY <1>1, <1>3, <1>4
<1> QED BY <1>1, <1>2, <1>5

(* Division.                                                               *)
LEMMA DivMod ==
  ASSUME NEW n \in Nat, NEW d \in Nat \ {0}
  PROVE  n \div d \in Nat /\ n % d \in 0 .. d - 1 /\ n % d = n - d * (n \div d)
OBVIOUS

(* A number is in one block only.                                          *)
LEMMA Quotient ==
  ASSUME NEW d \in Nat \ {0}, NEW k \in Nat, NEW r \in 0 .. d - 1
  PROVE  (d * k + r) \div d = k /\ (d * k + r) % d = r
<1> DEFINE n == d * k + r
           q == n \div d
           m == n % d
<1>1. n \in Nat
  OBVIOUS
<1> HIDE DEF n
<1>2. q \in Nat /\ m \in 0 .. d - 1 /\ m = n - d * q
  BY <1>1
<1> HIDE DEF q, m
<1>3. d * q + m = d * k + r
  BY <1>1, <1>2 DEF n
<1>4. q = k
  <2>1. CASE q < k
    <3>1. d * (q + 1) = d * q + d /\ d * (q + 1) <= d * k /\ d * q \in Nat /\ d * k \in Nat
      BY <1>2, <2>1, Times
    <3> QED BY <1>2, <1>3, <3>1
  <2>2. CASE k < q
    <3>1. d * (k + 1) = d * k + d /\ d * (k + 1) <= d * q /\ d * q \in Nat /\ d * k \in Nat
      BY <1>2, <2>2, Times
    <3> QED BY <1>2, <1>3, <3>1
  <2> QED BY <1>2, <2>1, <2>2
<1>5. m = r
  BY <1>2, <1>3, <1>4
<1> QED BY <1>4, <1>5 DEF q, m, n

(* Byte j of packet k.                                                     *)
LEMMA WireAt ==
  ASSUME NEW b \in [Nat -> Nat], NEW k \in Nat, NEW j \in 1 .. ESZ
  PROVE  /\ Wire(b, ESZ * k + j) = [num |-> k, data |-> Bytes(b[k], b[k + 1]), at |-> j]
         /\ ESZ * k + j \in Nat
<1>1. ESZ \in Nat \ {0}
  BY SizesAssumption
<1> DEFINE r == j - 1
           n == ESZ * k + j
<1>2. r \in 0 .. ESZ - 1 /\ ESZ * k \in Nat
  BY <1>1
<1>3. n - 1 = ESZ * k + r /\ n \in Nat
  BY <1>1, <1>2
<1>4. r + 1 = j
  BY <1>1
<1> HIDE DEF r, n
<1>5. (n - 1) \div ESZ = k /\ (n - 1) % ESZ = r
  BY <1>1, <1>2, <1>3, Quotient
<1>6. Wire(b, n) = [num |-> k, data |-> Bytes(b[k], b[k + 1]), at |-> j]
  BY <1>4, <1>5 DEF Wire
<1> QED BY <1>3, <1>6 DEF n

(* Bytes(a, b) are the bytes behind a, up to b.                            *)
LEMMA BytesAre ==
  ASSUME NEW a \in Nat, NEW n \in Nat
  PROVE  /\ Bytes(a, a + n) \in Seq(Nat) /\ Len(Bytes(a, a + n)) = n
         /\ \A i \in 1 .. n : Bytes(a, a + n)[i] = a + i
<1>1. a + n - a = n
  OBVIOUS
<1> QED BY <1>1 DEF Bytes

(* What holds at each turn of the loop that encrypts inbuf, the bytes      *)
(* behind c, from packet p0 on: b2 extends b by the packets made so far,   *)
(* and outbuf holds those.                                                 *)
EncGood(inbuf, p0, c, b, s, b2) ==
    /\ s \in LoopState /\ b2 \in [Nat -> Nat]
    /\ s.inpos <= Len(inbuf) /\ ~s.bad /\ p0 <= s.pnum
    /\ ESZ * p0 + Len(s.outbuf) = ESZ * s.pnum /\ Len(s.outbuf) <= OUTBUFSIZE
    /\ \A k \in 0 .. p0 : b2[k] = b[k]
    /\ \A k \in p0 .. s.pnum - 1 : b2[k + 1] - b2[k] \in 1 .. MAXDSZ
    /\ b2[s.pnum] = c + s.inpos
    /\ \A i \in 1 .. Len(s.outbuf) : s.outbuf[i] = Wire(b2, ESZ * p0 + i)

(* A piece of the source.                                                  *)
LEMMA BytesOf ==
  ASSUME NEW inbuf \in Seq(Data), NEW c \in Nat, \A i \in 1 .. Len(inbuf) : inbuf[i] = c + i,
         NEW x \in Nat, NEW l \in Nat \ {0}, x + l <= Len(inbuf)
  PROVE  SubSeq(inbuf, x + 1, x + l) = Bytes(c + x, c + x + l)
<1> DEFINE a == c + x
           m == x + 1
           n == x + l
           N == Len(inbuf)
<1>1. a \in Nat /\ N \in Nat /\ m \in 1 .. N /\ n \in 1 .. N /\ n - m + 1 = l /\ m <= n
  OBVIOUS
<1>2. \A i \in m .. n : inbuf[i] = c + i /\ inbuf[i] \in Nat
  BY <1>1
<1>3. \A i \in 1 .. l : m + i - 1 \in m .. n /\ c + (m + i - 1) = a + i
  OBVIOUS
<1>4. /\ Bytes(a, a + l) \in Seq(Nat) /\ Len(Bytes(a, a + l)) = l
      /\ \A i \in 1 .. l : Bytes(a, a + l)[i] = a + i
  <2> HIDE DEF a
  <2> QED BY <1>1, BytesAre, Zenon
<1>5. a + l = c + x + l
  OBVIOUS
<1> HIDE DEF a, m, n
<1>6. /\ SubSeq(inbuf, m, n) \in Seq(Nat) /\ Len(SubSeq(inbuf, m, n)) = l
      /\ \A i \in 1 .. l : SubSeq(inbuf, m, n)[i] = inbuf[m + i - 1]
  <2>1. /\ SubSeq(inbuf, m, n) \in Seq(Nat)
        /\ Len(SubSeq(inbuf, m, n)) = IF m <= n THEN n - m + 1 ELSE 0
        /\ \A i \in 1 .. n - m + 1 : SubSeq(inbuf, m, n)[i] = inbuf[m + i - 1]
    <3>1. \A i \in m .. n : inbuf[i] \in Nat
      BY <1>2
    <3>2. m \in Int /\ n \in Int
      BY <1>1
    <3> QED BY <3>1, <3>2, SubSeqIs
  <2> QED BY <1>1, <2>1
<1>7. \A i \in 1 .. l : SubSeq(inbuf, m, n)[i] = a + i
  BY <1>2, <1>3, <1>6, Zenon
<1> DEFINE u == SubSeq(inbuf, m, n)
           v == Bytes(a, a + l)
<1>8. u \in Seq(Nat) /\ v \in Seq(Nat) /\ Len(u) = Len(v) /\ \A i \in 1 .. Len(u) : u[i] = v[i]
  BY <1>4, <1>6, <1>7
<1> HIDE DEF u, v
<1>9. u = v
  BY <1>8, SameSeq
<1> QED BY <1>5, <1>9 DEF u, v, m, n, a

(* Bytes of the first packets do not depend on how later ones are cut.     *)
LEMMA SameWire ==
  ASSUME NEW b \in [Nat -> Nat], NEW b2 \in [Nat -> Nat], NEW p \in Nat,
         \A k \in 0 .. p : b2[k] = b[k], NEW n \in 1 .. ESZ * p
  PROVE  Wire(b2, n) = Wire(b, n)
<1> DEFINE q == (n - 1) \div ESZ
           m == n - 1
<1>1. ESZ \in Nat \ {0} /\ ESZ * p \in Nat
  BY SizesAssumption
<1>2. m \in Nat /\ m < ESZ * p
  BY <1>1
<1>3. m \div ESZ \in Nat /\ m % ESZ = m - ESZ * (m \div ESZ) /\ m % ESZ \in 0 .. ESZ - 1
  <2> HIDE DEF m
  <2> QED BY <1>1, <1>2
<1>4. q \in Nat /\ ESZ * q \in Nat /\ ESZ * q <= m
  <2>1. q \in Nat /\ m % ESZ = m - ESZ * q /\ m % ESZ \in 0 .. ESZ - 1
    BY <1>3
  <2> HIDE DEF q, m
  <2> QED BY <1>1, <1>2, <2>1
<1> HIDE DEF m, q
<1>5. q < p
  <2> SUFFICES ASSUME p <= q PROVE FALSE
    BY <1>4
  <2>1. ESZ * p <= ESZ * q
    BY <1>1, <1>4, Times
  <2> QED BY <1>1, <1>2, <1>4, <2>1
<1>6. b2[q] = b[q] /\ b2[q + 1] = b[q + 1]
  BY <1>4, <1>5
<1> QED BY <1>6 DEF Wire, q

(* A turn encrypts at most MAXDSZ bytes and makes a packet,                *)
LEMMA EncOnce ==
  ASSUME NEW inbuf \in Seq(Data), NEW p0 \in Nat, NEW c \in Nat, NEW b \in [Nat -> Nat],
         \A i \in 1 .. Len(inbuf) : inbuf[i] = c + i,
         NEW s, NEW b2, EncGood(inbuf, p0, c, b, s, b2)
  PROVE  \E b3 : EncGood(inbuf, p0, c, b, Turn("enc", inbuf, s), b3)
<1> DEFINE N == Len(inbuf)
           x == s.inpos
           p == s.pnum
           o == s.outbuf
           rem == N - x
           ll == IF rem > MAXDSZ THEN MAXDSZ ELSE rem
           in == SubSeq(inbuf, x + 1, x + ll)
           res == proto_crypt_enc(in, p)
           t == [inpos |-> x + ll, outbuf |-> o \o res, pnum |-> p + 1, bad |-> res = <<>>]
<1>1. /\ ESZ \in Nat \ {0} /\ MAXDSZ \in Nat \ {0} /\ MAXDSZ < ESZ /\ OUTBUFSIZE \in Nat
      /\ N \in Nat
  <2>1. N \in Nat
    OBVIOUS
  <2> QED BY <2>1, SizesAssumption
<1>2. /\ x \in Nat /\ p \in Nat /\ o \in Seq(Data) /\ Len(o) \in Nat /\ x <= N /\ p0 <= p
      /\ b2 \in [Nat -> Nat] /\ s \in LoopState /\ s.bad = FALSE
  <2>1. s \in LoopState /\ s.inpos <= N /\ p0 <= s.pnum /\ b2 \in [Nat -> Nat] /\ ~s.bad
    BY Zenon DEF EncGood
  <2>2. x \in Nat /\ p \in Nat /\ o \in Seq(Data) /\ s.bad \in BOOLEAN
    BY <2>1 DEF LoopState
  <2>3. Len(o) \in Nat
    <3> HIDE DEF o
    <3> QED BY <2>2
  <2> QED BY <2>1, <2>2, <2>3, Zenon
<1>3. /\ ESZ * p0 + Len(o) = ESZ * p /\ Len(o) <= OUTBUFSIZE
      /\ (\A k \in 0 .. p0 : b2[k] = b[k])
      /\ (\A k \in p0 .. p - 1 : b2[k + 1] - b2[k] \in 1 .. MAXDSZ)
      /\ b2[p] = c + x
      /\ (\A i \in 1 .. Len(o) : o[i] = Wire(b2, ESZ * p0 + i))
  BY Zenon DEF EncGood
<1>4. \/ Turn("enc", inbuf, s) = s
      \/ rem # 0 /\ Len(o) + MAXDSZ <= OUTBUFSIZE /\ Turn("enc", inbuf, s) = t
  <2>1. ~(Len(o) + MAXDSZ > OUTBUFSIZE) <=> Len(o) + MAXDSZ <= OUTBUFSIZE
    <3>1. \A w, m, z \in Nat : ~(w + m > z) <=> w + m <= z
      OBVIOUS
    <3>2. Len(o) \in Nat /\ MAXDSZ \in Nat /\ OUTBUFSIZE \in Nat
      BY <1>1, <1>2
    <3> HIDE DEF o
    <3> QED BY <3>1, <3>2, Zenon
  <2>2. Turn("enc", inbuf, s) =
           IF s.bad \/ rem = 0 \/ Len(o) + MAXDSZ > OUTBUFSIZE THEN s ELSE t
    BY DEF Turn, full_buflen
  <2> HIDE DEF t, o, rem
  <2> QED BY <2>1, <2>2
<1> HIDE DEF t, x, p, o, N
<1>5. CASE rem # 0 /\ Len(o) + MAXDSZ <= OUTBUFSIZE /\ Turn("enc", inbuf, s) = t
  <2>1. ll \in 1 .. MAXDSZ /\ x + ll <= N /\ ll \in Nat \ {0}
    <3>1. rem \in Nat \ {0} /\ x + rem = N
      BY <1>1, <1>2, <1>5
    <3>2. \A l, m \in Nat \ {0} : \A y, n \in Nat : y + l = n =>
             LET k == IF l > m THEN m ELSE l IN k \in 1 .. m /\ y + k <= n /\ k \in Nat \ {0}
      OBVIOUS
    <3> HIDE DEF rem
    <3> QED BY <1>1, <1>2, <3>1, <3>2
  <2> HIDE DEF ll, rem
  <2> DEFINE a == c + x
             e == c + x + ll
             b3 == [b2 EXCEPT ![p + 1] = e]
  <2>2. a \in Nat /\ e \in Nat /\ e - a = ll /\ e = a + ll
    BY <1>2, <2>1
  <2>3. in = Bytes(a, e)
    BY <1>2, <2>1, BytesOf, ZenonT(30) DEF N
  <2>4. /\ b3 \in [Nat -> Nat] /\ b3[p + 1] = e /\ b3[p] = a
        /\ \A k \in 0 .. p : b3[k] = b2[k]
    <3>1. p + 1 \in Nat /\ p # p + 1 /\ p \in 0 .. p /\ \A k \in 0 .. p : k # p + 1 /\ k \in Nat
      BY <1>2
    <3>2. b2[p] = a
      BY <1>3
    <3> HIDE DEF a, e
    <3> QED BY <1>2, <2>2, <3>1, <3>2, Zenon
  <2> HIDE DEF a, e, b3, in
  <2>5. in \in Seq(Nat) /\ in = Bytes(b3[p], b3[p + 1])
    <3>1. Bytes(a, a + ll) \in Seq(Nat)
      BY <2>1, <2>2, BytesAre
    <3> QED BY <2>2, <2>3, <2>4, <3>1
  <2>6. /\ res \in Seq(Data) /\ Len(res) = ESZ /\ res # <<>>
        /\ \A i \in 1 .. ESZ : res[i] = Wire(b3, ESZ * p + i)
    <3>1. res = [i \in 1 .. ESZ |-> [num |-> p, data |-> in, at |-> i]]
      BY DEF proto_crypt_enc
    <3> HIDE DEF res
    <3>2. \A i \in 1 .. ESZ : i \in Nat
      OBVIOUS
    <3>3. \A i \in 1 .. ESZ : [num |-> p, data |-> in, at |-> i] \in PacketByte
      BY <1>2, <2>5, <3>2 DEF PacketByte
    <3>4. res \in [1 .. ESZ -> Data]
      BY <3>1, <3>3 DEF Data
    <3>5. res \in Seq(Data) /\ Len(res) = ESZ
      <4> HIDE DEF Data
      <4> QED BY <1>1, <3>4
    <3>6. \A i \in 1 .. ESZ : Wire(b3, ESZ * p + i) = [num |-> p, data |-> in, at |-> i]
      BY <1>2, <2>4, <2>5, WireAt, Zenon
    <3>7. \A i \in 1 .. ESZ : res[i] = Wire(b3, ESZ * p + i)
      BY <3>1, <3>6
    <3>8. res # <<>>
      BY <1>1, <3>5
    <3> QED BY <3>5, <3>7, <3>8
  <2> HIDE DEF res
  <2>7. /\ o \o res \in Seq(Data) /\ Len(o \o res) = Len(o) + ESZ
        /\ \A i \in 1 .. Len(o) + ESZ :
              (o \o res)[i] = IF i <= Len(o) THEN o[i] ELSE res[i - Len(o)]
    <3>1. /\ o \o res \in Seq(Data) /\ Len(o \o res) = Len(o) + Len(res)
          /\ \A i \in 1 .. Len(o) + Len(res) :
              (o \o res)[i] = IF i <= Len(o) THEN o[i] ELSE res[i - Len(o)]
      BY <1>2, <2>6, ConcatIs, Zenon
    <3> QED BY <2>6, <3>1
  <2>8. /\ t \in LoopState /\ t.inpos = x + ll /\ t.outbuf = o \o res
        /\ t.pnum = p + 1 /\ t.bad = FALSE
    <3>1. x + ll \in Nat /\ p + 1 \in Nat
      BY <1>2, <2>1
    <3>2. (res = <<>>) = FALSE
      BY <2>6
    <3> QED BY <2>7, <3>1, <3>2, Zenon DEF t, LoopState
  <2>9. ESZ * (p + 1) = ESZ * p + ESZ /\ ESZ * p \in Nat /\ ESZ * p0 \in Nat
    BY <1>1, <1>2, Times
  <2>10. ESZ * p0 + Len(t.outbuf) = ESZ * t.pnum
    <3> DEFINE A == ESZ * p0
               B == ESZ * p
               w == Len(o)
    <3>1. A \in Nat /\ B \in Nat /\ w \in Nat /\ A + w = B /\ ESZ \in Nat
      BY <1>1, <1>2, <1>3, <2>9
    <3>2. Len(t.outbuf) = w + ESZ /\ ESZ * t.pnum = B + ESZ
      BY <2>7, <2>8, <2>9
    <3>3. A + (w + ESZ) = B + ESZ
      <4> HIDE DEF A, B, w
      <4> QED BY <3>1
    <3> QED BY <3>2, <3>3
  <2>11. Len(t.outbuf) <= OUTBUFSIZE
    <3> DEFINE n == p - p0
               g == OUTBUFSIZE \div ESZ
    <3>1. n \in Nat /\ Len(o) = ESZ * n
      <4>1. n \in Nat
        BY <1>2
      <4>2. ESZ * p - ESZ * p0 = ESZ * (p - p0)
        BY <1>1, <1>2, Times
      <4>3. Len(o) = ESZ * p - ESZ * p0
        <5> DEFINE A == ESZ * p0
                   B == ESZ * p
                   w == Len(o)
        <5>1. A \in Nat /\ B \in Nat /\ w \in Nat /\ A + w = B
          BY <1>2, <1>3, <2>9
        <5> HIDE DEF A, B, w
        <5>2. w = B - A
          BY <5>1
        <5> QED BY <5>2 DEF A, B, w
      <4> QED BY <4>1, <4>2, <4>3
    <3>2. g \in Nat /\ OUTBUFSIZE = ESZ * g
      <4>1. OUTBUFSIZE % ESZ = 0
        BY SizesAssumption
      <4>2. OUTBUFSIZE % ESZ = OUTBUFSIZE - ESZ * g /\ g \in Nat
        BY <1>1, DivMod, Zenon
      <4> HIDE DEF g
      <4>3. ESZ * g \in Nat
        BY <1>1, <4>2
      <4> QED BY <1>1, <4>1, <4>2, <4>3
    <3> HIDE DEF n, g
    <3>3. n < g
      <4> SUFFICES ASSUME g <= n PROVE FALSE
        BY <3>1, <3>2
      <4>1. ESZ * g <= ESZ * n /\ ESZ * g \in Nat /\ ESZ * n \in Nat
        BY <1>1, <3>1, <3>2, Times
      <4>2. ESZ * n + MAXDSZ <= ESZ * g
        BY <1>5, <3>1, <3>2
      <4> DEFINE A == ESZ * n
                 B == ESZ * g
      <4>3. A \in Nat /\ B \in Nat /\ B <= A /\ A + MAXDSZ <= B
        BY <4>1, <4>2
      <4> HIDE DEF A, B
      <4> QED BY <1>1, <4>3
    <3>4. ESZ * (n + 1) <= ESZ * g /\ ESZ * (n + 1) = ESZ * n + ESZ
      BY <1>1, <3>1, <3>2, <3>3, Times
    <3> QED BY <2>7, <2>8, <3>1, <3>2, <3>4
  <2>12. \A k \in 0 .. p0 : b3[k] = b[k]
    BY <1>2, <1>3, <2>4
  <2>13. ASSUME NEW k \in p0 .. t.pnum - 1 PROVE b3[k + 1] - b3[k] \in 1 .. MAXDSZ
    <3>1. CASE k = p
      BY <2>1, <2>2, <2>4, <3>1, Zenon
    <3>2. CASE k # p
      <4>1. k \in p0 .. p - 1 /\ k \in 0 .. p /\ k + 1 \in 0 .. p
        BY <1>2, <2>8, <3>2
      <4> QED BY <1>3, <2>4, <4>1, Zenon
    <3> QED BY <3>1, <3>2
  <2>14. b3[t.pnum] = c + t.inpos
    <3>1. c + (x + ll) = e
      BY <1>2, <2>1 DEF e
    <3> QED BY <2>4, <2>8, <3>1, Zenon
  <2>15. ASSUME NEW i \in 1 .. Len(o) + ESZ PROVE (o \o res)[i] = Wire(b3, ESZ * p0 + i)
    <3>1. CASE i <= Len(o)
      <4> DEFINE n == ESZ * p0 + i
      <4>1. (o \o res)[i] = o[i] /\ i \in 1 .. Len(o)
        BY <1>2, <2>7, <3>1
      <4>2. o[i] = Wire(b2, n)
        BY <1>3, <4>1, Zenon
      <4>3. n \in 1 .. ESZ * p
        <5> DEFINE A == ESZ * p0
                   B == ESZ * p
                   w == Len(o)
        <5>1. A \in Nat /\ B \in Nat /\ w \in Nat /\ A + w = B /\ i \in 1 .. w
          BY <1>2, <1>3, <2>9, <4>1
        <5>2. A + i \in 1 .. B
          <6> HIDE DEF A, B, w
          <6> QED BY <5>1
        <5> QED BY <5>2
      <4> HIDE DEF n
      <4>4. Wire(b3, n) = Wire(b2, n)
        BY <1>2, <2>4, <4>3, SameWire, Zenon
      <4> QED BY <4>1, <4>2, <4>4 DEF n
    <3>2. CASE ~(i <= Len(o))
      <4> DEFINE j == i - Len(o)
      <4>1. j \in 1 .. ESZ /\ (o \o res)[i] = res[j]
        <5>1. j \in 1 .. ESZ
          BY <1>1, <1>2, <3>2
        <5>2. (o \o res)[i] = res[j]
          BY <2>7, <3>2
        <5> QED BY <5>1, <5>2
      <4>2. ESZ * p + j = ESZ * p0 + i
        BY <1>2, <1>3, <2>9
      <4> HIDE DEF j
      <4> QED BY <2>6, <4>1, <4>2
    <3> QED BY <3>1, <3>2, Zenon
  <2>16. p0 <= t.pnum /\ t.inpos <= N /\ ~t.bad
    BY <1>1, <1>2, <2>1, <2>8
  <2>17. \A i \in 1 .. Len(t.outbuf) : t.outbuf[i] = Wire(b3, ESZ * p0 + i)
    BY <2>7, <2>8, <2>15, Zenon
  <2>18. EncGood(inbuf, p0, c, b, t, b3)
    BY <2>4, <2>8, <2>10, <2>11, <2>12, <2>13, <2>14, <2>16, <2>17, Zenon DEF EncGood, N
  <2> QED BY <1>5, <2>18
<1> QED BY <1>4, <1>5

(* so the loop cuts all of inbuf, as far as outbuf has room.               *)
LEMMA EncLoop ==
  ASSUME NEW inbuf \in Seq(Data), NEW p0 \in Nat, NEW c \in Nat, NEW b \in [Nat -> Nat],
         b[p0] = c, \A i \in 1 .. Len(inbuf) : inbuf[i] = c + i
  PROVE  \E b2 : EncGood(inbuf, p0, c, b, Packets("enc", inbuf, p0), b2)
<1> DEFINE G == {s \in LoopState : \E b2 : EncGood(inbuf, p0, c, b, s, b2)}
           start == [inpos |-> 0, outbuf |-> <<>>, pnum |-> p0, bad |-> FALSE]
<1>1. start \in G
  <2>1. start \in LoopState
    BY DEF LoopState
  <2>2. EncGood(inbuf, p0, c, b, start, b)
    <3>1. Len(<<>>) = 0 /\ Len(inbuf) \in Nat /\ ESZ * p0 + 0 = ESZ * p0 /\ OUTBUFSIZE \in Nat
          /\ c + 0 = c
      BY SizesAssumption
    <3>2. start.inpos = 0 /\ start.outbuf = <<>> /\ start.pnum = p0 /\ start.bad = FALSE
      OBVIOUS
    <3>3. p0 .. p0 - 1 = {} /\ p0 <= p0 /\ 0 <= Len(inbuf) /\ 0 <= OUTBUFSIZE /\ 1 .. 0 = {}
      BY <3>1
    <3> HIDE DEF start
    <3> QED BY <2>1, <3>1, <3>2, <3>3 DEF EncGood
  <2> HIDE DEF start
  <2> QED BY <2>1, <2>2
<1>2. ASSUME NEW s \in G PROVE Turn("enc", inbuf, s) \in G
  <2>1. PICK b2 : EncGood(inbuf, p0, c, b, s, b2)
    OBVIOUS
  <2>2. PICK b3 : EncGood(inbuf, p0, c, b, Turn("enc", inbuf, s), b3)
    BY <2>1, EncOnce, Zenon
  <2>3. Turn("enc", inbuf, s) \in LoopState
    BY <2>2 DEF EncGood
  <2> QED BY <2>2, <2>3
<1>3. Packets("enc", inbuf, p0) \in G
  <2> HIDE DEF G
  <2> QED BY <1>1, <1>2, PacketsLoop
<1> QED BY <1>3

(* What holds at each turn of the loop that decrypts inbuf: so many        *)
(* packets were taken, and outbuf holds their bytes; unless one was        *)
(* damaged, which is found.                                                *)
DecGood(inbuf, p0, b, s) ==
    /\ s \in LoopState
    /\ ~s.bad =>
          /\ p0 <= s.pnum /\ ESZ * p0 + s.inpos = ESZ * s.pnum /\ s.inpos <= Len(inbuf)
          /\ b[p0] + Len(s.outbuf) = b[s.pnum] /\ Len(s.outbuf) <= OUTBUFSIZE
          /\ \A i \in 1 .. Len(s.outbuf) : s.outbuf[i] = b[p0] + i

(* A turn takes one packet or finds that it is damaged,                    *)
LEMMA DecOnce ==
  ASSUME NEW inbuf \in Seq(Data), NEW p0 \in Nat, NEW top \in Nat, NEW b \in [Nat -> Nat],
         \A k \in 0 .. top - 1 : b[k + 1] - b[k] \in 1 .. MAXDSZ,
         \A i \in 1 .. Len(inbuf) : inbuf[i] \in {Wire(b, ESZ * p0 + i), Garbage},
         ESZ * p0 + Len(inbuf) <= ESZ * top,
         NEW s, DecGood(inbuf, p0, b, s)
  PROVE  DecGood(inbuf, p0, b, Turn("dec", inbuf, s))
<1> DEFINE N == Len(inbuf)
           x == s.inpos
           p == s.pnum
           o == s.outbuf
           rem == N - x
           ll == IF rem > ESZ THEN ESZ ELSE rem
           in == SubSeq(inbuf, x + 1, x + ll)
           res == proto_crypt_dec(in, p)
           t == [inpos |-> x + ll, outbuf |-> o \o res, pnum |-> p + 1, bad |-> res = <<>>]
<1>1. /\ ESZ \in Nat \ {0} /\ MAXDSZ \in Nat \ {0} /\ MAXDSZ < ESZ /\ OUTBUFSIZE \in Nat
      /\ N \in Nat
  <2>1. N \in Nat
    OBVIOUS
  <2> QED BY <2>1, SizesAssumption
<1>2. x \in Nat /\ p \in Nat /\ o \in Seq(Data) /\ s.bad \in BOOLEAN /\ Len(o) \in Nat
  <2>1. x \in Nat /\ p \in Nat /\ o \in Seq(Data) /\ s.bad \in BOOLEAN
    BY DEF DecGood, LoopState
  <2> HIDE DEF o
  <2> QED BY <2>1
<1>3. ~s.bad =>
          /\ p0 <= p /\ ESZ * p0 + x = ESZ * p /\ x <= N
          /\ b[p0] + Len(o) = b[p] /\ Len(o) <= OUTBUFSIZE
          /\ \A i \in 1 .. Len(o) : o[i] = b[p0] + i
  BY DEF DecGood
<1>4. \/ Turn("dec", inbuf, s) = s
      \/ /\ ~s.bad /\ rem # 0 /\ Len(o) + ESZ <= OUTBUFSIZE /\ ll >= ESZ
         /\ Turn("dec", inbuf, s) = t
  <2>1. \A w, m, z \in Nat : ~(w + m > z) <=> w + m <= z
    OBVIOUS
  <2>2. ll \in Int
    <3>1. rem \in Int /\ ESZ \in Int
      <4> HIDE DEF N, x, p, o
      <4> QED BY <1>1, <1>2
    <3> HIDE DEF rem
    <3> QED BY <3>1
  <2>3. ~(ll < ESZ) <=> ll >= ESZ
    <3> HIDE DEF ll
    <3> QED BY <1>1, <2>2
  <2>4. Turn("dec", inbuf, s) =
           IF s.bad \/ rem = 0 \/ Len(o) + ESZ > OUTBUFSIZE \/ ll < ESZ THEN s ELSE t
    BY DEF Turn, full_buflen
  <2>5. ~(Len(o) + ESZ > OUTBUFSIZE) <=> Len(o) + ESZ <= OUTBUFSIZE
    <3>1. Len(o) \in Nat /\ ESZ \in Nat /\ OUTBUFSIZE \in Nat
      BY <1>1, <1>2
    <3> HIDE DEF o
    <3> QED BY <2>1, <3>1, Zenon
  <2> HIDE DEF t, o, rem, ll
  <2> QED BY <2>3, <2>4, <2>5, Zenon
<1> HIDE DEF t, x, p, o, N
<1>5. CASE /\ ~s.bad /\ rem # 0 /\ Len(o) + ESZ <= OUTBUFSIZE /\ ll >= ESZ
           /\ Turn("dec", inbuf, s) = t
  <2>1. /\ p0 <= p /\ ESZ * p0 + x = ESZ * p /\ x <= N
        /\ b[p0] + Len(o) = b[p] /\ Len(o) <= OUTBUFSIZE
        /\ \A i \in 1 .. Len(o) : o[i] = b[p0] + i
    BY <1>3, <1>5
  <2>2. ll = ESZ /\ x + ESZ <= N
    <3>1. rem \in Nat /\ x + rem = N
      BY <1>1, <1>2, <2>1
    <3>2. CASE rem > ESZ
      <4>1. ll = ESZ
        BY <3>2
      <4> HIDE DEF rem, ll
      <4> QED BY <1>1, <1>2, <3>1, <3>2, <4>1
    <3>3. CASE ~(rem > ESZ)
      <4>1. ll = rem /\ ll >= ESZ
        BY <1>5, <3>3
      <4> HIDE DEF rem, ll
      <4> QED BY <1>1, <1>2, <3>1, <3>3, <4>1
    <3> QED BY <3>2, <3>3
  <2>3. in = SubSeq(inbuf, x + 1, x + ESZ)
    BY <2>2, Zenon
  <2> HIDE DEF in, rem
  <2>4. \A i \in 1 .. ESZ : in[i] = inbuf[x + i] /\ x + i \in 1 .. N
    <3> DEFINE m == x + 1
               n == x + ESZ
    <3>1. m \in Int /\ n \in Int /\ n - m + 1 = ESZ
      BY <1>1, <1>2
    <3>2. \A i \in m .. n : i \in 1 .. N
      BY <1>1, <1>2, <2>2
    <3>3. \A i \in m .. n : inbuf[i] \in Data
      BY <3>2 DEF N
    <3>4. \A i \in 1 .. ESZ : m + i - 1 = x + i /\ x + i \in 1 .. N
      BY <1>1, <1>2, <2>2
    <3>5. in = SubSeq(inbuf, m, n)
      BY <2>3
    <3> HIDE DEF m, n
    <3>6. \A i \in 1 .. n - m + 1 : SubSeq(inbuf, m, n)[i] = inbuf[m + i - 1]
      BY <3>1, <3>3, SubSeqIs
    <3> QED BY <3>1, <3>4, <3>5, <3>6, Zenon
  <2>5. ESZ * (p + 1) = ESZ * p + ESZ /\ ESZ * p \in Nat /\ ESZ * p0 \in Nat /\ ESZ * top \in Nat
    BY <1>1, <1>2, Times
  <2>6. p < top
    <3>1. ESZ * (p + 1) <= ESZ * top
      <4> DEFINE A == ESZ * p0
                 B == ESZ * p
                 C == ESZ * top
      <4>1. A \in Nat /\ B \in Nat /\ C \in Nat /\ A + x = B /\ A + N <= C
        BY <2>1, <2>5 DEF N
      <4>2. B + ESZ <= C
        <5> HIDE DEF A, B, C
        <5> QED BY <1>1, <1>2, <2>2, <4>1
      <4> QED BY <2>5, <4>2
    <3>2. p + 1 \in Nat
      BY <1>2
    <3>3. p + 1 <= top
      BY <1>1, <3>1, <3>2, Times
    <3> QED BY <1>2, <3>3
  <2>7. \A i \in 1 .. ESZ : in[i] \in {Wire(b, ESZ * p + i), Garbage}
    <3> TAKE i \in 1 .. ESZ
    <3>1. ESZ * p0 + (x + i) = ESZ * p + i
      <4> DEFINE A == ESZ * p0
                 B == ESZ * p
      <4>1. A \in Nat /\ B \in Nat /\ A + x = B /\ i \in Nat
        BY <2>1, <2>5
      <4>2. A + (x + i) = B + i
        <5> HIDE DEF A, B
        <5> QED BY <1>2, <4>1
      <4> QED BY <4>2
    <3>2. inbuf[x + i] \in {Wire(b, ESZ * p0 + (x + i)), Garbage}
      BY <2>4, Zenon DEF N
    <3> QED BY <2>4, <3>1, <3>2, Zenon
  <2> DEFINE l == b[p + 1] - b[p]
  <2>8. /\ b[p] \in Nat /\ b[p + 1] \in Nat /\ l \in 1 .. MAXDSZ /\ b[p + 1] = b[p] + l
        /\ b[p0] \in Nat
    <3>1. p \in 0 .. top - 1 /\ p + 1 \in Nat /\ p \in Nat
      BY <1>2, <2>6
    <3>2. b[p] \in Nat /\ b[p + 1] \in Nat /\ b[p0] \in Nat
      BY <3>1, Zenon
    <3>3. l \in 1 .. MAXDSZ
      BY <3>1, Zenon
    <3>4. \A u, v \in Nat : v = u + (v - u)
      OBVIOUS
    <3>5. b[p + 1] = b[p] + l
      BY <3>2, <3>4, Zenon
    <3> QED BY <3>2, <3>3, <3>5
  <2>9. res = <<>> \/ res = Bytes(b[p], b[p] + l)
    <3>1. CASE ~Intact(in, p)
      BY <3>1 DEF proto_crypt_dec
    <3>2. CASE Intact(in, p)
      <4>1. 1 \in 1 .. ESZ
        BY <1>1
      <4>2. in[1] = [num |-> p, data |-> in[1].data, at |-> 1]
        BY <3>2, <4>1, Zenon DEF Intact
      <4>3. in[1] # Garbage
        <5> DEFINE y == in[1]
                   dd == in[1].data
        <5>1. y = [num |-> p, data |-> dd, at |-> 1]
          BY <4>2
        <5> HIDE DEF y, dd
        <5>2. y.at = 1
          BY <5>1
        <5>3. Garbage.at = 0
          BY DEF Garbage
        <5>4. y.at # Garbage.at
          BY <5>2, <5>3
        <5>5. y # Garbage
          BY <5>4, Zenon
        <5> QED BY <5>5 DEF y
      <4>4. in[1] = Wire(b, ESZ * p + 1)
        BY <2>7, <4>1, <4>3, Zenon
      <4>5. in[1] = [num |-> p, data |-> Bytes(b[p], b[p + 1]), at |-> 1]
        BY <1>2, <4>1, <4>4, WireAt, Zenon
      <4>6. in[1].data = Bytes(b[p], b[p + 1])
        BY <4>5
      <4> QED BY <2>8, <3>2, <4>6 DEF proto_crypt_dec
    <3> QED BY <3>1, <3>2
  <2> HIDE DEF res, l
  <2>10. CASE res = <<>>
    <3>1. o \o res = o
      BY <1>2, <2>10, ConcatEmpty
    <3>2. x + ll \in Nat /\ p + 1 \in Nat
      <4> HIDE DEF ll
      <4> QED BY <1>1, <1>2, <2>2
    <3>3. t \in LoopState /\ t.bad = TRUE
      BY <1>2, <2>10, <3>1, <3>2, Zenon DEF t, LoopState
    <3> QED BY <1>5, <3>3, Zenon DEF DecGood
  <2>11. CASE res = Bytes(b[p], b[p] + l)
    <3>1. res \in Seq(Nat) /\ Len(res) = l /\ l \in Nat /\ \A i \in 1 .. l : res[i] = b[p] + i
      <4> DEFINE a == b[p]
      <4>1. a \in Nat /\ l \in Nat
        BY <1>1, <2>8
      <4> HIDE DEF a
      <4>2. /\ Bytes(a, a + l) \in Seq(Nat) /\ Len(Bytes(a, a + l)) = l
            /\ \A i \in 1 .. l : Bytes(a, a + l)[i] = a + i
        BY <4>1, BytesAre, Zenon
      <4> QED BY <2>11, <4>1, <4>2 DEF a
    <3>2. res # <<>> /\ res \in Seq(Data)
      <4>1. res # <<>>
        BY <1>1, <2>8, <3>1
      <4>2. \A i \in 1 .. Len(res) : res[i] \in Data
        <5>1. \A i \in 1 .. l : b[p] + i \in Nat
          <6> DEFINE u == b[p]
          <6>1. u \in Nat
            BY <2>8
          <6> HIDE DEF u
          <6>2. \A i \in 1 .. l : u + i \in Nat
            BY <3>1, <6>1
          <6> QED BY <6>2 DEF u
        <5> QED BY <3>1, <5>1, Zenon DEF Data
      <4> QED BY <3>1, <4>1, <4>2
    <3>3. /\ o \o res \in Seq(Data) /\ Len(o \o res) = Len(o) + l
          /\ \A i \in 1 .. Len(o) + l :
              (o \o res)[i] = IF i <= Len(o) THEN o[i] ELSE res[i - Len(o)]
      <4>1. /\ o \o res \in Seq(Data) /\ Len(o \o res) = Len(o) + Len(res)
            /\ \A i \in 1 .. Len(o) + Len(res) :
                (o \o res)[i] = IF i <= Len(o) THEN o[i] ELSE res[i - Len(o)]
        BY <1>2, <3>2, ConcatIs
      <4> QED BY <3>1, <4>1, Zenon
    <3>4. /\ t \in LoopState /\ t.inpos = x + ESZ /\ t.outbuf = o \o res
          /\ t.pnum = p + 1 /\ t.bad = FALSE
      <4>1. x + ESZ \in Nat /\ p + 1 \in Nat
        BY <1>1, <1>2
      <4>2. (res = <<>>) = FALSE
        BY <3>2
      <4> QED BY <2>2, <3>3, <4>1, <4>2, Zenon DEF t, LoopState
    <3>5. ESZ * p0 + t.inpos = ESZ * t.pnum
      <4> DEFINE A == ESZ * p0
                 B == ESZ * p
      <4>1. A \in Nat /\ B \in Nat /\ A + x = B
        BY <2>1, <2>5
      <4>2. A + (x + ESZ) = B + ESZ
        <5> HIDE DEF A, B
        <5> QED BY <1>1, <1>2, <4>1
      <4> QED BY <2>5, <3>4, <4>2
    <3>6. p0 <= t.pnum /\ t.inpos <= N
      BY <1>2, <2>1, <2>2, <3>4
    <3>7. b[p0] + Len(t.outbuf) = b[t.pnum] /\ Len(t.outbuf) <= OUTBUFSIZE
      <4>1. b[p0] + (Len(o) + l) = b[p + 1]
        BY <1>2, <2>1, <2>8, <3>1
      <4>2. Len(o) + l <= OUTBUFSIZE
        BY <1>1, <1>2, <1>5, <2>8
      <4> QED BY <3>3, <3>4, <4>1, <4>2
    <3>8. ASSUME NEW i \in 1 .. Len(o) + l PROVE (o \o res)[i] = b[p0] + i
      <4>1. CASE i <= Len(o)
        <5>1. i \in 1 .. Len(o)
          BY <1>2, <4>1
        <5> QED BY <2>1, <3>3, <4>1, <5>1
      <4>2. CASE ~(i <= Len(o))
        <5> DEFINE j == i - Len(o)
        <5>1. j \in 1 .. l /\ b[p] + j = b[p0] + i
          <6> DEFINE w == Len(o)
                     u == b[p]
                     v == b[p0]
          <6>1. w \in Nat /\ u \in Nat /\ v \in Nat /\ v + w = u /\ l \in Nat /\ i \in 1 .. w + l
                /\ ~(i <= w)
            BY <1>2, <2>1, <2>8, <3>1, <3>8, <4>2
          <6>2. i - w \in 1 .. l /\ u + (i - w) = v + i
            <7> HIDE DEF w, u, v
            <7> QED BY <6>1
          <6> QED BY <6>2
        <5>2. (o \o res)[i] = res[j]
          BY <3>3, <4>2
        <5> HIDE DEF j
        <5> QED BY <3>1, <5>1, <5>2, Zenon
      <4> QED BY <4>1, <4>2, Zenon
    <3>9. DecGood(inbuf, p0, b, t)
      BY <3>3, <3>4, <3>5, <3>6, <3>7, <3>8, Zenon DEF DecGood, N
    <3> QED BY <1>5, <3>9
  <2> QED BY <2>9, <2>10, <2>11
<1> QED BY <1>4, <1>5

(* and so does the loop.                                                   *)
LEMMA DecLoop ==
  ASSUME NEW inbuf \in Seq(Data), NEW p0 \in Nat, NEW top \in Nat, NEW b \in [Nat -> Nat],
         \A k \in 0 .. top - 1 : b[k + 1] - b[k] \in 1 .. MAXDSZ,
         \A i \in 1 .. Len(inbuf) : inbuf[i] \in {Wire(b, ESZ * p0 + i), Garbage},
         ESZ * p0 + Len(inbuf) <= ESZ * top
  PROVE  DecGood(inbuf, p0, b, Packets("dec", inbuf, p0))
<1> DEFINE G == {s \in LoopState : DecGood(inbuf, p0, b, s)}
           start == [inpos |-> 0, outbuf |-> <<>>, pnum |-> p0, bad |-> FALSE]
<1>1. start \in G
  <2>1. start \in LoopState
    BY SMTT(30) DEF LoopState
  <2>2. DecGood(inbuf, p0, b, start)
    <3>1. Len(<<>>) = 0 /\ Len(inbuf) \in Nat /\ ESZ * p0 + 0 = ESZ * p0 /\ OUTBUFSIZE \in Nat
          /\ b[p0] + 0 = b[p0]
      <4>1. ESZ \in Nat /\ OUTBUFSIZE \in Nat /\ b[p0] \in Nat /\ Len(inbuf) \in Nat
        <5>1. ESZ \in Nat /\ OUTBUFSIZE \in Nat
          BY ONLY SizesAssumption
        <5>2. b[p0] \in Nat
          BY Zenon
        <5>3. Len(inbuf) \in Nat
          <6>1. \A u \in Seq(Data) : Len(u) \in Nat
            BY ONLY TRUE
          <6> QED BY <6>1, Zenon
        <5> QED BY <5>1, <5>2, <5>3, Zenon
      <4>2. ESZ * p0 \in Nat
        BY ONLY <4>1, p0 \in Nat
      <4>3. \A x \in Nat : x + 0 = x
        BY ONLY TRUE
      <4>4. Len(<<>>) = 0
        BY ONLY TRUE
      <4> QED BY <4>1, <4>2, <4>3, <4>4, Zenon
    <3>2. start.inpos = 0 /\ start.outbuf = <<>> /\ start.pnum = p0 /\ start.bad = FALSE
      OBVIOUS
    <3>3. p0 <= p0 /\ 0 <= Len(inbuf) /\ 0 <= OUTBUFSIZE /\ 1 .. 0 = {}
      BY <3>1
    <3> HIDE DEF start
    <3> QED BY <2>1, <3>1, <3>2, <3>3 DEF DecGood
  <2> HIDE DEF start
  <2> QED BY <2>1, <2>2
<1>2. ASSUME NEW s \in G PROVE Turn("dec", inbuf, s) \in G
  <2>1. DecGood(inbuf, p0, b, Turn("dec", inbuf, s))
    BY DecOnce, Zenon
  <2>2. Turn("dec", inbuf, s) \in LoopState
    BY <2>1 DEF DecGood
  <2> QED BY <2>1, <2>2
<1>3. Packets("dec", inbuf, p0) \in G
  <2> HIDE DEF G
  <2> QED BY <1>1, <1>2, PacketsLoop
<1> QED BY <1>3

(* A pipe whose wait is over and that has nothing to write.                *)
Called(p) ==
    /\ p \in Cookie /\ SoundReader(p.R) /\ ~Waiting(p.R)
    /\ p.write_cookie = FALSE /\ p.wbuf = <<>> /\ p.status = 1

(* What callback_pipe_read does after the loop, unless it fails.           *)
Onward(d, p, s) ==
    LET R == netbuf_read_consume(p.R, s.inpos)
    IN  IF s.outbuf = <<>>
        THEN [p EXCEPT !.R = netbuf_read_wait(R, minread(d)), !.pnum = s.pnum]
        ELSE [p EXCEPT !.R = R, !.pnum = s.pnum,
                       !.write_cookie = TRUE, !.wbuf = s.outbuf]

(* A pipe that has ended waits for nothing.                                *)
LEMMA EndedFacts ==
  ASSUME NEW d, NEW p \in Cookie, SoundReader(p.R), NEW st \in {-1, 0}
  PROVE  /\ Ended(p, st) \in Cookie /\ CookieSound(d, Ended(p, st))
         /\ Ended(p, st).status = st /\ Ended(p, st).pnum = p.pnum
         /\ Ended(p, st).wbuf = <<>> /\ ~Ended(p, st).write_cookie
<1> DEFINE S == netbuf_read_wait_cancel(p.R)
           q == Ended(p, st)
<1>1. SoundReader(S) /\ ~Waiting(S)
  BY Cancelled
<1>2. S \in PipeReader /\ S.read_cookie.on = FALSE /\ S.read_cookie.on \in BOOLEAN
  BY <1>1 DEF SoundReader, Waiting, PipeReader
<1>3. q = [p EXCEPT !.R = S, !.status = st, !.write_cookie = FALSE, !.wbuf = <<>>]
  BY DEF Ended
<1> HIDE DEF S, q
<1>4. /\ q.R = S /\ q.status = st /\ q.write_cookie = FALSE /\ q.wbuf = <<>> /\ q.pnum = p.pnum
      /\ q \in Cookie
  <2>1. st \in {-1, 0, 1} /\ <<>> \in Seq(Data)
    OBVIOUS
  <2> QED BY <1>2, <1>3, <2>1, Zenon DEF Cookie
<1>5. Len(q.wbuf) <= OUTBUFSIZE
  BY <1>4, SizesAssumption
<1>6. CookieSound(d, q)
  BY <1>1, <1>2, <1>4, <1>5 DEF CookieSound, Asks
<1> QED BY <1>4, <1>6 DEF q

(* It consumes what the loop has used, and writes, or waits for more.      *)
LEMMA OnwardFacts ==
  ASSUME NEW d \in Pipe, NEW p, Called(p), NEW s \in LoopState, s.inpos <= Buffered(p.R),
         Len(s.outbuf) <= OUTBUFSIZE
  PROVE  LET q == Onward(d, p, s)
         IN  /\ q \in Cookie /\ CookieSound(d, q) /\ q.status = 1
             /\ q.pnum = s.pnum /\ q.wbuf = s.outbuf
             /\ Buffered(q.R) = Buffered(p.R) - s.inpos /\ q.R.read_cookie.got = <<>>
             /\ \A f, c : c \in Nat /\ Carries(p.R, f, c) => Carries(q.R, f, c + s.inpos)
<1> DEFINE R == netbuf_read_consume(p.R, s.inpos)
           q == Onward(d, p, s)
           n == s.inpos
           Fits(Q) == /\ SoundReader(Q)
                      /\ Buffered(Q) = Buffered(p.R) - n /\ Q.read_cookie.got = <<>>
                      /\ \A f, c : c \in Nat /\ Carries(p.R, f, c) => Carries(Q, f, c + n)
<1>1. p \in Cookie /\ SoundReader(p.R) /\ ~Waiting(p.R)
      /\ p.write_cookie = FALSE /\ p.wbuf = <<>> /\ p.status = 1
  BY DEF Called
<1>2. n \in 0 .. Buffered(p.R) /\ s.pnum \in Nat /\ s.outbuf \in Seq(Data)
  <2>1. n \in Nat /\ s.pnum \in Nat /\ s.outbuf \in Seq(Data)
    BY DEF LoopState
  <2>2. Buffered(p.R) \in Nat
    BY <1>1, ReaderNumbers, Zenon DEF SoundReader
  <2> QED BY <2>1, <2>2
<1> HIDE DEF n
<1>3. Fits(R) /\ ~Waiting(R)
  BY <1>1, <1>2, ConsumeFacts DEF n
<1>4. minread(d) \in Nat \ {0}
  BY SizesAssumption DEF minread
<1> HIDE DEF R
<1>5. CASE s.outbuf = <<>>
  <2> DEFINE W == netbuf_read_wait(R, minread(d))
  <2>1. Fits(W) /\ Waiting(W) /\ Asks(W, minread(d))
    BY <1>3, <1>4, WaitFacts
  <2>2. q = [p EXCEPT !.R = W, !.pnum = s.pnum]
    BY <1>5 DEF Onward, R
  <2>3. W \in PipeReader
    BY <2>1 DEF SoundReader
  <2> HIDE DEF W, q
  <2>4. /\ q.R = W /\ q.status = 1 /\ q.write_cookie = FALSE /\ q.wbuf = <<>> /\ q.pnum = s.pnum
        /\ q \in Cookie
    BY <1>1, <1>2, <2>2, <2>3, Zenon DEF Cookie
  <2>5. Len(q.wbuf) <= OUTBUFSIZE
    BY <2>4, SizesAssumption
  <2>6. CookieSound(d, q)
    BY <2>1, <2>4, <2>5 DEF CookieSound
  <2> QED BY <1>5, <2>1, <2>4, <2>6 DEF q, n
<1>6. CASE s.outbuf # <<>>
  <2>1. q = [p EXCEPT !.R = R, !.pnum = s.pnum, !.write_cookie = TRUE, !.wbuf = s.outbuf]
    BY <1>6 DEF Onward, R
  <2>2. R \in PipeReader /\ R.read_cookie.on \in BOOLEAN
    BY <1>3 DEF SoundReader, PipeReader
  <2>3. Asks(R, minread(d))
    BY <1>3, <2>2 DEF Waiting, Asks
  <2> HIDE DEF q
  <2>4. /\ q.R = R /\ q.status = 1 /\ q.write_cookie = TRUE /\ q.wbuf = s.outbuf /\ q.pnum = s.pnum
        /\ q \in Cookie
    BY <1>1, <1>2, <2>1, <2>2, Zenon DEF Cookie
  <2>5. CookieSound(d, q)
    BY <1>3, <1>6, <2>3, <2>4 DEF CookieSound
  <2> QED BY <1>3, <2>4, <2>5 DEF q, n
<1> QED BY <1>5, <1>6

(* callback_pipe_read, encrypting: the packets it makes extend the cut.    *)
LEMMA EncProcess ==
  ASSUME NEW p, Called(p), NEW b \in [Nat -> Nat], Carries(p.R, Plain, b[p.pnum])
  PROVE  LET q == process("enc", p)
         IN  /\ q \in Cookie /\ CookieSound("enc", q) /\ q.status = 1 /\ p.pnum <= q.pnum
             /\ q.R.read_cookie.got = <<>> /\ ESZ * p.pnum + Len(q.wbuf) = ESZ * q.pnum
             /\ \E b2 \in [Nat -> Nat] :
                   /\ \A k \in 0 .. p.pnum : b2[k] = b[k]
                   /\ \A k \in p.pnum .. q.pnum - 1 : b2[k + 1] - b2[k] \in 1 .. MAXDSZ
                   /\ Carries(q.R, Plain, b2[q.pnum])
                   /\ b2[q.pnum] + Buffered(q.R) = b[p.pnum] + Buffered(p.R)
                   /\ \A i \in 1 .. Len(q.wbuf) : q.wbuf[i] = Wire(b2, ESZ * p.pnum + i)
<1> DEFINE in == netbuf_read_peek(p.R)
           p0 == p.pnum
           c == b[p0]
           s == Packets("enc", in, p0)
           q == process("enc", p)
<1>1. p \in Cookie /\ SoundReader(p.R) /\ p0 \in Nat /\ c \in Nat
  BY DEF Called, Cookie
<1>2. /\ in \in Seq(Data) /\ Len(in) = Buffered(p.R) /\ Buffered(p.R) \in Nat
      /\ \A i \in 1 .. Buffered(p.R) : in[i] = p.R.buf[p.R.bufpos + i]
  BY <1>1, Peeked, ReaderNumbers, Zenon DEF SoundReader
<1> HIDE DEF in, p0
<1>3. \A i \in 1 .. Len(in) : in[i] = c + i
  <2> TAKE i \in 1 .. Len(in)
  <2>1. in[i] \in Plain[c + i]
    BY <1>2, Zenon DEF Carries, p0
  <2> HIDE DEF c
  <2>2. c + i \in Nat
    BY <1>1, <1>2
  <2> QED BY <2>1, <2>2, Zenon DEF Plain
<1>4. PICK b2 : EncGood(in, p0, c, b, s, b2)
  BY <1>1, <1>2, <1>3, EncLoop, Zenon
<1> HIDE DEF s, c
<1>5. /\ s \in LoopState /\ b2 \in [Nat -> Nat] /\ s.inpos <= Len(in) /\ ~s.bad /\ p0 <= s.pnum
      /\ ESZ * p0 + Len(s.outbuf) = ESZ * s.pnum /\ Len(s.outbuf) <= OUTBUFSIZE
      /\ (\A k \in 0 .. p0 : b2[k] = b[k])
      /\ (\A k \in p0 .. s.pnum - 1 : b2[k + 1] - b2[k] \in 1 .. MAXDSZ)
      /\ b2[s.pnum] = c + s.inpos
      /\ (\A i \in 1 .. Len(s.outbuf) : s.outbuf[i] = Wire(b2, ESZ * p0 + i))
  BY <1>4, Zenon DEF EncGood
<1>6. q = Onward("enc", p, s)
  BY <1>5 DEF process, Onward, s, in, p0
<1> HIDE DEF q
<1>7. /\ q \in Cookie /\ CookieSound("enc", q) /\ q.status = 1
      /\ q.pnum = s.pnum /\ q.wbuf = s.outbuf
      /\ Buffered(q.R) = Buffered(p.R) - s.inpos /\ q.R.read_cookie.got = <<>>
      /\ (\A f, e : e \in Nat /\ Carries(p.R, f, e) => Carries(q.R, f, e + s.inpos))
  BY <1>2, <1>5, <1>6, OnwardFacts, Zenon DEF Pipe
<1>8. Carries(q.R, Plain, b2[q.pnum])
  BY <1>1, <1>5, <1>7, Zenon DEF c, p0
<1>9. b2[q.pnum] + Buffered(q.R) = c + Buffered(p.R)
  <2>1. s.inpos \in Nat
    BY <1>5 DEF LoopState
  <2>2. \A x, y, z \in Nat : (x + y) + (z - y) = x + z
    OBVIOUS
  <2>3. (c + s.inpos) + (Buffered(p.R) - s.inpos) = c + Buffered(p.R)
    BY <1>1, <1>2, <2>1, <2>2, Zenon
  <2> QED BY <1>5, <1>7, <2>3
<1> QED BY <1>5, <1>7, <1>8, <1>9, Zenon DEF q, c, p0

(* And decrypting: it writes the bytes of the packets that it takes.       *)
LEMMA DecProcess ==
  ASSUME NEW p, Called(p), NEW b \in [Nat -> Nat], NEW top \in Nat,
         \A k \in 0 .. top - 1 : b[k + 1] - b[k] \in 1 .. MAXDSZ,
         Carries(p.R, Coded(b), ESZ * p.pnum), ESZ * p.pnum + Buffered(p.R) <= ESZ * top
  PROVE  LET q == process("dec", p)
         IN  /\ q \in Cookie /\ CookieSound("dec", q) /\ q.status \in {1, -1}
             /\ q.status = 1 =>
                   /\ p.pnum <= q.pnum /\ q.R.read_cookie.got = <<>>
                   /\ Carries(q.R, Coded(b), ESZ * q.pnum)
                   /\ ESZ * q.pnum + Buffered(q.R) = ESZ * p.pnum + Buffered(p.R)
                   /\ b[p.pnum] + Len(q.wbuf) = b[q.pnum]
                   /\ \A i \in 1 .. Len(q.wbuf) : q.wbuf[i] = b[p.pnum] + i
<1> DEFINE in == netbuf_read_peek(p.R)
           p0 == p.pnum
           s == Packets("dec", in, p0)
           q == process("dec", p)
           c == ESZ * p0
<1>1. p \in Cookie /\ SoundReader(p.R) /\ p0 \in Nat /\ c \in Nat
  <2>1. p \in Cookie /\ SoundReader(p.R) /\ p0 \in Nat
    BY DEF Called, Cookie
  <2> HIDE DEF p0
  <2> QED BY <2>1, SizesAssumption
<1>2. /\ in \in Seq(Data) /\ Len(in) = Buffered(p.R) /\ Buffered(p.R) \in Nat
      /\ \A i \in 1 .. Buffered(p.R) : in[i] = p.R.buf[p.R.bufpos + i]
  BY <1>1, Peeked, ReaderNumbers, Zenon DEF SoundReader
<1> HIDE DEF in, p0
<1>3. \A i \in 1 .. Len(in) : in[i] \in {Wire(b, c + i), Garbage}
  <2> TAKE i \in 1 .. Len(in)
  <2>1. in[i] \in Coded(b)[c + i]
    BY <1>2, Zenon DEF Carries, p0
  <2> HIDE DEF c
  <2>2. c \in Nat /\ i \in Nat
    <3>1. Len(in) \in Nat
      BY <1>2
    <3> QED BY <1>1, <3>1
  <2>3. c + i \in Nat
    BY <2>2
  <2> QED BY <2>1, <2>3 DEF Coded
<1>4. DecGood(in, p0, b, s)
  <2>1. ESZ * p0 + Len(in) <= ESZ * top
    BY <1>2 DEF p0
  <2> QED BY <1>1, <1>2, <1>3, <2>1, DecLoop, Zenon
<1> HIDE DEF s
<1>5. CASE s.bad
  <2>1. q = Ended(p, -1)
    BY <1>5 DEF process, s, in, p0
  <2> HIDE DEF q
  <2>2. q \in Cookie /\ CookieSound("dec", q) /\ q.status = -1
    BY <1>1, <2>1, EndedFacts, Zenon
  <2> QED BY <2>2 DEF q
<1>6. CASE ~s.bad
  <2>1. /\ s \in LoopState /\ p0 <= s.pnum /\ ESZ * p0 + s.inpos = ESZ * s.pnum
        /\ s.inpos <= Len(in) /\ b[p0] + Len(s.outbuf) = b[s.pnum] /\ Len(s.outbuf) <= OUTBUFSIZE
        /\ \A i \in 1 .. Len(s.outbuf) : s.outbuf[i] = b[p0] + i
    BY <1>4, <1>6 DEF DecGood
  <2>2. q = Onward("dec", p, s)
    BY <1>6 DEF process, Onward, s, in, p0
  <2> HIDE DEF q
  <2>3. /\ q \in Cookie /\ CookieSound("dec", q) /\ q.status = 1
        /\ q.pnum = s.pnum /\ q.wbuf = s.outbuf
        /\ Buffered(q.R) = Buffered(p.R) - s.inpos /\ q.R.read_cookie.got = <<>>
        /\ (\A f, e : e \in Nat /\ Carries(p.R, f, e) => Carries(q.R, f, e + s.inpos))
    BY <1>2, <2>1, <2>2, OnwardFacts, Zenon DEF Pipe
  <2>4. Carries(q.R, Coded(b), ESZ * q.pnum)
    <3>1. Carries(p.R, Coded(b), c)
      BY DEF p0
    <3>2. Carries(q.R, Coded(b), c + s.inpos)
      <4> HIDE DEF c
      <4> QED BY <1>1, <2>3, <3>1
    <3> QED BY <2>1, <2>3, <3>2
  <2>5. ESZ * q.pnum + Buffered(q.R) = ESZ * p0 + Buffered(p.R)
    <3>1. s.inpos \in Nat
      BY <2>1 DEF LoopState
    <3>2. \A x, y, z \in Nat : (x + y) + (z - y) = x + z
      OBVIOUS
    <3>3. ESZ * q.pnum = c + s.inpos
      BY <2>1, <2>3
    <3>4. (c + s.inpos) + (Buffered(p.R) - s.inpos) = c + Buffered(p.R)
      <4> HIDE DEF c
      <4> QED BY <1>1, <1>2, <3>1, <3>2, Zenon
    <3> QED BY <2>3, <3>3, <3>4
  <2> QED BY <2>1, <2>3, <2>4, <2>5, Zenon DEF q, p0
<1> QED BY <1>5, <1>6

(* Later packets hold later bytes.                                         *)
LEMMA CutGrows ==
  ASSUME NEW b \in [Nat -> Nat], NEW n \in Nat, Cut(b, n), NEW j \in 0 .. n
  PROVE  b[j] <= b[n]
<1> DEFINE S == {k \in Nat : k \in j .. n => b[j] <= b[k]}
<1>1. MAXDSZ \in Nat /\ j \in Nat
  BY SizesAssumption
<1>2. 0 \in S
  BY <1>1
<1>3. ASSUME NEW k \in Nat, k \in S PROVE k + 1 \in S
  <2> SUFFICES ASSUME k + 1 \in j .. n PROVE b[j] <= b[k + 1]
    OBVIOUS
  <2>1. CASE k + 1 = j
    BY <1>1, <2>1
  <2>2. CASE k + 1 # j
    <3>1. k \in j .. n /\ k \in 0 .. n - 1
      BY <1>1, <2>2
    <3>2. b[k + 1] - b[k] \in 1 .. MAXDSZ /\ b[j] <= b[k]
      BY <1>3, <3>1 DEF Cut
    <3>3. b[j] \in Nat /\ b[k] \in Nat /\ b[k + 1] \in Nat
      BY <1>1
    <3>4. \A x, y, z \in Nat : y - x \in 1 .. MAXDSZ /\ z <= x => z <= y
      BY <1>1
    <3> QED BY <3>2, <3>3, <3>4
  <2> QED BY <2>1, <2>2
<1> HIDE DEF S
<1>4. n \in S
  BY <1>2, <1>3, SetInduction
<1> QED BY <1>1, <1>4 DEF S

(* Bytes keep their order when the callback finds enough,                  *)
LEMMA FlowsSuccess ==
  ASSUME NEW R, SoundReader(R), R.immediate_cookie, NEW f, NEW c \in Nat, NEW n, NEW s \in Seq(Data),
         Flows(R, s, f, c, n)
  PROVE  LET S == callback_success(R)
         IN  SoundReader(S) /\ ~Waiting(S) /\ Flows(S, s, f, c, n)
<1> DEFINE S == callback_success(R)
<1>1. /\ SoundReader(S) /\ ~Waiting(S) /\ S.read_cookie.got = <<>>
      /\ Buffered(S) = Buffered(R) /\ Len(R.read_cookie.got) = 0
      /\ (Carries(R, f, c) => Carries(S, f, c))
  BY Succeeded
<1> HIDE DEF S
<1>2. Len(S.read_cookie.got) = 0
  BY <1>1
<1>3. Flows(S, s, f, c, n)
  BY <1>1, <1>2 DEF Flows
<1> QED BY <1>1, <1>3 DEF S

(* when a read is over,                                                    *)
LEMMA FlowsRead ==
  ASSUME NEW R, SoundReader(R), R.read_cookie.on, NEW f, NEW c \in Nat, NEW n \in Nat,
         NEW s \in Seq(Data), Flows(R, s, f, c, n)
  PROVE  LET S == callback_read(R, Len(R.read_cookie.got))
         IN  SoundReader(S) /\ ~Waiting(S) /\ Flows(S, s, f, c, n)
<1> DEFINE S == callback_read(R, Len(R.read_cookie.got))
           g == Len(R.read_cookie.got)
           m == Len(s)
<1>1. /\ SoundReader(S) /\ ~Waiting(S) /\ S.read_cookie.got = <<>>
      /\ Buffered(S) = Buffered(R) + g
      /\ (Carries(R, f, c) => Carries(S, f, c))
  BY ReadOver
<1>2. g \in Nat /\ Buffered(R) \in Nat /\ m \in Nat
  <2>1. R \in PipeReader /\ ReaderSound(R)
    BY DEF SoundReader
  <2>2. m \in Nat
    OBVIOUS
  <2> QED BY <2>1, <2>2, ReaderNumbers, Zenon
<1>3. /\ Carries(R, f, c) /\ c + Buffered(R) + g + m = n
      /\ \A i \in 1 .. m : s[i] \in f[c + Buffered(R) + g + i]
  BY DEF Flows
<1> HIDE DEF S, g, m
<1>4. Len(S.read_cookie.got) = 0
  BY <1>1
<1>5. \A i \in Nat : c + Buffered(S) + 0 + i = c + Buffered(R) + g + i
  BY <1>1, <1>2
<1>6. c + Buffered(S) + 0 + m = n
  BY <1>2, <1>3, <1>5
<1>7. \A i \in 1 .. m : s[i] \in f[c + Buffered(S) + 0 + i]
  <2> TAKE i \in 1 .. m
  <2>1. i \in Nat
    BY <1>2
  <2> QED BY <1>3, <1>5, <2>1
<1>8. Flows(S, s, f, c, n)
  BY <1>1, <1>3, <1>4, <1>6, <1>7 DEF Flows, m
<1> QED BY <1>1, <1>8 DEF S, g

(* and when a part of the socket is read.                                  *)
LEMMA FlowsRecv ==
  ASSUME NEW R, SoundReader(R), R.read_cookie.on, NEW f, NEW c \in Nat, NEW n \in Nat,
         NEW s \in Seq(Data), Flows(R, s, f, c, n), NEW k \in 1 .. Len(s),
         k <= R.read_cookie.max - Len(R.read_cookie.got)
  PROVE  LET S == recv(R, SubSeq(s, 1, k))
         IN  /\ SoundReader(S) /\ S.read_cookie.on /\ Flows(S, SubSeq(s, k + 1, Len(s)), f, c, n)
             /\ \A len : Asks(R, len) => Asks(S, len)
<1> DEFINE m == Len(s)
           new == SubSeq(s, 1, k)
           rest == SubSeq(s, k + 1, m)
           g == Len(R.read_cookie.got)
           a == c + Buffered(R) + g
           S == recv(R, new)
<1>1. g \in Nat /\ Buffered(R) \in Nat /\ m \in Nat /\ k \in Nat /\ k <= m
  <2>1. R \in PipeReader /\ ReaderSound(R)
    BY DEF SoundReader
  <2>2. m \in Nat /\ k \in Nat /\ k <= m
    OBVIOUS
  <2> QED BY <2>1, <2>2, ReaderNumbers, Zenon
<1>2. a \in Nat
  BY <1>1
<1>3. /\ Carries(R, f, c) /\ a + m = n
      /\ \A i \in 1 .. m : s[i] \in f[a + i]
  BY DEF Flows
<1>4. \A i \in 1 .. m : s[i] \in Data
  OBVIOUS
<1>5. /\ new \in Seq(Data) /\ Len(new) = k /\ \A i \in 1 .. k : new[i] = s[i]
  <2>1. \A i \in 1 .. k : s[i] \in Data
    BY <1>1, <1>4
  <2>2. /\ SubSeq(s, 1, k) \in Seq(Data)
        /\ Len(SubSeq(s, 1, k)) = IF 1 <= k THEN k - 1 + 1 ELSE 0
        /\ \A i \in 1 .. k - 1 + 1 : SubSeq(s, 1, k)[i] = s[1 + i - 1]
    BY <1>1, <2>1, SubSeqIs
  <2>3. k - 1 + 1 = k /\ 1 <= k /\ \A i \in 1 .. k : 1 + i - 1 = i
    BY <1>1
  <2> QED BY <2>2, <2>3
<1>6. /\ rest \in Seq(Data) /\ Len(rest) = m - k /\ \A i \in 1 .. m - k : rest[i] = s[k + i]
  <2> DEFINE j == k + 1
  <2>1. \A i \in j .. m : s[i] \in Data
    BY <1>1, <1>4
  <2>2. j \in Int /\ m \in Int
    BY <1>1
  <2>3. (m - j) + 1 = m - k /\ (\A i \in 1 .. m - k : (j + i) - 1 = k + i)
        /\ (IF j <= m THEN m - k ELSE 0) = m - k
    BY <1>1
  <2> HIDE DEF j
  <2>4. /\ SubSeq(s, j, m) \in Seq(Data)
        /\ Len(SubSeq(s, j, m)) = IF j <= m THEN m - j + 1 ELSE 0
        /\ \A i \in 1 .. m - j + 1 : SubSeq(s, j, m)[i] = s[j + i - 1]
    <3> HIDE DEF m
    <3> QED BY <2>1, <2>2, SubSeqIs
  <2>5. m - j + 1 = m - k /\ \A i \in 1 .. m - k : j + i - 1 = k + i
    BY <1>1, <2>2, <2>3
  <2> QED BY <2>3, <2>4, <2>5, Zenon DEF j
<1>7. k <= R.read_cookie.max - g
  OBVIOUS
<1>8. \A i \in 1 .. k : s[i] \in f[a + i]
  BY <1>1, <1>3
<1> HIDE DEF m, new, rest, S
<1>9. /\ SoundReader(S) /\ S.read_cookie.on /\ Buffered(S) = Buffered(R)
      /\ Len(S.read_cookie.got) = g + k
      /\ S.read_cookie.min = R.read_cookie.min /\ Carries(S, f, c)
  BY <1>3, <1>5, <1>7, <1>8, RecvFacts, Zenon DEF S
<1> HIDE DEF g, a
<1>10. \A i \in Nat : c + Buffered(S) + (g + k) + i = a + (k + i)
  BY <1>1, <1>9 DEF a
<1>11. c + Buffered(S) + (g + k) + (m - k) = n
  <2>1. m - k \in Nat /\ k + (m - k) = m
    BY <1>1
  <2> QED BY <1>3, <1>10, <2>1
<1>12. \A i \in 1 .. m - k : rest[i] \in f[c + Buffered(S) + (g + k) + i]
  <2> TAKE i \in 1 .. m - k
  <2>1. i \in Nat /\ k + i \in 1 .. m
    BY <1>1
  <2> QED BY <1>3, <1>6, <1>10, <2>1, Zenon
<1>13. Flows(S, rest, f, c, n)
  BY <1>6, <1>9, <1>11, <1>12 DEF Flows
<1>14. \A len : Asks(R, len) => Asks(S, len)
  BY <1>9 DEF Asks
<1> QED BY <1>9, <1>13, <1>14 DEF S, rest, m, new

(* What the decrypting end has seen does not depend on how later bytes are *)
(* cut.                                                                    *)
LEMMA DecExtends ==
  ASSUME NEW b \in [Nat -> Nat], NEW b2 \in [Nat -> Nat], NEW top \in Nat,
         \A k \in 0 .. top : b2[k] = b[k],
         NEW p \in Cookie, SoundReader(p.R), NEW s \in Seq(Data), NEW w \in Nat, w <= ESZ * top,
         NEW n, NEW o, DecOk(b, p, s, n, w, o, 1), NEW es
  PROVE  DecOk(b2, p, s, n, w, o, es)
<1> DEFINE c == ESZ * p.pnum
           B == Buffered(p.R)
           g == Len(p.R.read_cookie.got)
           m == Len(s)
<1>1. p.pnum \in Nat /\ ESZ \in Nat \ {0} /\ p.status \in {-1, 0, 1}
  BY SizesAssumption DEF Cookie
<1>2. c \in Nat /\ ESZ * top \in Nat
  <2>1. \A x \in Nat : ESZ * x \in Nat
    BY <1>1
  <2> QED BY <1>1, <2>1, Zenon
<1>3. g \in Nat /\ B \in Nat /\ m \in Nat
  <2>1. p.R \in PipeReader /\ ReaderSound(p.R)
    BY DEF SoundReader
  <2>2. m \in Nat
    OBVIOUS
  <2> QED BY <2>1, <2>2, ReaderNumbers, Zenon
<1>4. Len(o) <= n /\ (\A i \in 1 .. Len(o) : o[i] = i) /\ p.status # 0
  BY Zenon DEF DecOk
<1>5. CASE p.status = 1
  <2>1. /\ Flows(p.R, s, Coded(b), c, w) /\ Len(o) + Len(p.wbuf) = b[p.pnum]
        /\ \A i \in 1 .. Len(p.wbuf) : p.wbuf[i] = Len(o) + i
    BY <1>5 DEF DecOk
  <2>2. /\ c + B + g + m = w
        /\ \A i \in 1 .. B : p.R.buf[p.R.bufpos + i] \in Coded(b)[c + i]
        /\ \A i \in 1 .. g : p.R.read_cookie.got[i] \in Coded(b)[c + B + i]
        /\ \A i \in 1 .. m : s[i] \in Coded(b)[c + B + g + i]
    BY <2>1, Zenon DEF Flows, Carries
  <2>3. p.pnum \in 0 .. top
    <3>1. c <= ESZ * top
      <4> HIDE DEF c, B, g, m
      <4> DEFINE e == ESZ * top
      <4>1. e \in Nat /\ w <= e
        BY <1>2
      <4> HIDE DEF e
      <4>2. c <= e
        BY <1>2, <1>3, <2>2, <4>1
      <4> QED BY <4>2 DEF e
    <3>2. p.pnum <= top
      BY <1>1, <3>1, Times, Zenon
    <3>3. \A x, y \in Nat : x <= y => x \in 0 .. y
      OBVIOUS
    <3> QED BY <1>1, <3>2, <3>3, Zenon
  <2>4. \A i \in 1 .. w : Coded(b2)[i] = Coded(b)[i]
    <3> TAKE i \in 1 .. w
    <3>1. i \in 1 .. ESZ * top /\ i \in Nat
      <4> DEFINE e == ESZ * top
      <4>1. e \in Nat /\ w <= e
        BY <1>2
      <4> HIDE DEF e
      <4>2. i \in 1 .. e /\ i \in Nat
        BY <4>1
      <4> QED BY <4>2 DEF e
    <3>2. Wire(b2, i) = Wire(b, i)
      BY <3>1, SameWire, Zenon
    <3> QED BY <3>1, <3>2 DEF Coded
  <2> HIDE DEF c, B, g, m
  <2>5. /\ \A i \in 1 .. B : c + i \in 1 .. w
        /\ \A i \in 1 .. g : c + B + i \in 1 .. w
        /\ \A i \in 1 .. m : c + B + g + i \in 1 .. w
    <3>1. c + B + g + m = w
      BY <2>2
    <3>2. \A i \in 1 .. B : c + i \in 1 .. w
      BY <1>2, <1>3, <3>1
    <3>3. \A i \in 1 .. g : c + B + i \in 1 .. w
      BY <1>2, <1>3, <3>1
    <3>4. \A i \in 1 .. m : c + B + g + i \in 1 .. w
      BY <1>2, <1>3, <3>1
    <3> QED BY <3>2, <3>3, <3>4
  <2>6. /\ \A i \in 1 .. B : p.R.buf[p.R.bufpos + i] \in Coded(b2)[c + i]
        /\ \A i \in 1 .. g : p.R.read_cookie.got[i] \in Coded(b2)[c + B + i]
        /\ \A i \in 1 .. m : s[i] \in Coded(b2)[c + B + g + i]
    BY <2>2, <2>4, <2>5, Zenon
  <2>7. Flows(p.R, s, Coded(b2), ESZ * p.pnum, w)
    BY <2>2, <2>6 DEF Flows, Carries, B, g, m, c
  <2> QED BY <1>4, <1>5, <2>1, <2>3, <2>7, Zenon DEF DecOk
<1>6. CASE p.status # 1
  BY <1>4, <1>6, Zenon DEF DecOk
<1> QED BY <1>5, <1>6, Zenon

(* More numbers.                                                           *)
LEMMA Below ==
  ASSUME NEW x \in Nat, NEW y \in Nat, x < y
  PROVE  x \in 0 .. y - 1 /\ x \in 0 .. y /\ x + 1 \in 0 .. y
OBVIOUS

(* Lengths are numbers.                                                    *)
LEMMA LenNat ==
  ASSUME NEW S, NEW s \in Seq(S)
  PROVE  Len(s) \in Nat
OBVIOUS

(* A part of a sum.                                                        *)
LEMMA PartOfSum ==
  ASSUME NEW x \in Nat, NEW y \in Nat, NEW z \in Nat, NEW w, NEW e \in Nat,
         x + y + 0 + z = w, w <= e
  PROVE  x + y <= e
OBVIOUS

(* A pipe runs, has failed, or has ended well.                             *)
LEMMA RunsOrFailed ==
  ASSUME NEW st \in {1, -1}
  PROVE  st # 0
OBVIOUS

(* The callback of a wait that is over keeps EncOk, for a longer cut,      *)
LEMMA EncCalled ==
  ASSUME NEW p \in Cookie, p.status = 1, p.wbuf = <<>>,
         NEW b \in [Nat -> Nat], NEW s, NEW n \in Nat, NEW w \in Nat, NEW over,
         EncOk(b, p, s, n, w, over),
         NEW pr, Called(pr), pr.pnum = p.pnum, NEW s2 \in Seq(Data),
         Flows(pr.R, s2, Plain, b[p.pnum], n),
         NEW q, q = process("enc", pr) \/ q = Ended(pr, -1)
  PROVE  /\ q \in Cookie /\ CookieSound("enc", q) /\ q.status \in {1, -1}
         /\ \E b2 \in [Nat -> Nat] :
               (\A k \in 0 .. p.pnum : b2[k] = b[k]) /\ EncOk(b2, q, s2, n, w, over)
<1> DEFINE p0 == p.pnum
           c == b[p0]
<1>1. p0 \in Nat /\ c \in Nat /\ ESZ \in Nat \ {0} /\ MAXDSZ \in Nat \ {0}
  BY SizesAssumption DEF Cookie
<1>2. p.wbuf = <<>>
  OBVIOUS
<1>3. /\ pr \in Cookie /\ SoundReader(pr.R) /\ ~Waiting(pr.R) /\ pr.pnum = p0
  BY DEF Called
<1>4. /\ Cut(b, p0) /\ c <= n /\ w <= ESZ * p0 /\ w + Len(p.wbuf) = ESZ * p0
  BY DEF EncOk
<1>5. q = process("enc", pr) \/ q = Ended(pr, -1)
  OBVIOUS
<1>6. p.pnum = p0 /\ Flows(pr.R, s2, Plain, c, n)
  OBVIOUS
<1> HIDE DEF p0, c
<1>7. c = b[p0]
  BY DEF c
<1>8. CASE q = Ended(pr, -1)
  <2>1. q \in Cookie /\ CookieSound("enc", q) /\ q.status = -1 /\ q.pnum = p0
    BY <1>3, <1>8, EndedFacts, Zenon
  <2>2. EncOk(b, q, s2, n, w, over)
    BY <1>4, <1>7, <2>1 DEF EncOk
  <2> QED BY <1>6, <2>1, <2>2, Zenon
<1>9. CASE q = process("enc", pr)
  <2>1. Called(pr)
    OBVIOUS
  <2>2. Carries(pr.R, Plain, b[pr.pnum])
    BY <1>3, <1>6, <1>7 DEF Flows
  <2>3. /\ q \in Cookie /\ CookieSound("enc", q) /\ q.status = 1 /\ p0 <= q.pnum
        /\ q.R.read_cookie.got = <<>> /\ ESZ * p0 + Len(q.wbuf) = ESZ * q.pnum
        /\ \E b2 \in [Nat -> Nat] :
              /\ \A k \in 0 .. p0 : b2[k] = b[k]
              /\ \A k \in p0 .. q.pnum - 1 : b2[k + 1] - b2[k] \in 1 .. MAXDSZ
              /\ Carries(q.R, Plain, b2[q.pnum])
              /\ b2[q.pnum] + Buffered(q.R) = c + Buffered(pr.R)
              /\ \A i \in 1 .. Len(q.wbuf) : q.wbuf[i] = Wire(b2, ESZ * p0 + i)
    <3>1. LET q1 == process("enc", pr)
          IN  /\ q1 \in Cookie /\ CookieSound("enc", q1) /\ q1.status = 1 /\ pr.pnum <= q1.pnum
              /\ q1.R.read_cookie.got = <<>> /\ ESZ * pr.pnum + Len(q1.wbuf) = ESZ * q1.pnum
              /\ \E b2 \in [Nat -> Nat] :
                    /\ \A k \in 0 .. pr.pnum : b2[k] = b[k]
                    /\ \A k \in pr.pnum .. q1.pnum - 1 : b2[k + 1] - b2[k] \in 1 .. MAXDSZ
                    /\ Carries(q1.R, Plain, b2[q1.pnum])
                    /\ b2[q1.pnum] + Buffered(q1.R) = b[pr.pnum] + Buffered(pr.R)
                    /\ \A i \in 1 .. Len(q1.wbuf) : q1.wbuf[i] = Wire(b2, ESZ * pr.pnum + i)
      BY <2>1, <2>2, EncProcess, Zenon
    <3> QED BY <1>3, <1>9, <1>7, <3>1, Zenon
  <2>4. PICK b2 \in [Nat -> Nat] :
              /\ \A k \in 0 .. p0 : b2[k] = b[k]
              /\ \A k \in p0 .. q.pnum - 1 : b2[k + 1] - b2[k] \in 1 .. MAXDSZ
              /\ Carries(q.R, Plain, b2[q.pnum])
              /\ b2[q.pnum] + Buffered(q.R) = c + Buffered(pr.R)
              /\ \A i \in 1 .. Len(q.wbuf) : q.wbuf[i] = Wire(b2, ESZ * p0 + i)
    BY <2>3, Zenon
  <2> DEFINE p1 == q.pnum
             e == b2[p1]
             B == Buffered(q.R)
             A == ESZ * p0
             L == Len(q.wbuf)
             m == Len(s2)
  <2>5. p1 \in Nat /\ e \in Nat /\ B \in Nat /\ A \in Nat /\ L \in Nat /\ m \in Nat /\ Buffered(pr.R) \in Nat
        /\ Len(q.R.read_cookie.got) = 0 /\ Len(pr.R.read_cookie.got) = 0
    <3>1. q.pnum \in Nat /\ q.wbuf \in Seq(Data) /\ q.R \in PipeReader
      BY <2>3 DEF Cookie
    <3>2. e \in Nat
      BY <3>1, Zenon
    <3>3. B \in Nat
      BY <2>3, ReaderNumbers, Zenon DEF CookieSound, SoundReader
    <3>4. Buffered(pr.R) \in Nat
      BY <1>3, ReaderNumbers, Zenon DEF SoundReader
    <3>5. A \in Nat
      BY <1>1, Times, Zenon
    <3>6. L \in Nat
      <4>1. \A u \in Seq(Data) : Len(u) \in Nat
        OBVIOUS
      <4> QED BY <3>1, <4>1, Zenon
    <3>7. Len(pr.R.read_cookie.got) = 0
      <4>1. pr.R.read_cookie = NoRead
        BY <1>3, Idles, Zenon
      <4>2. Len(NoRead.got) = 0
        BY DEF NoRead
      <4> QED BY <4>1, <4>2
    <3>8. Len(q.R.read_cookie.got) = 0 /\ m \in Nat
      BY <2>3
    <3> QED BY <3>1, <3>2, <3>3, <3>4, <3>5, <3>6, <3>7, <3>8
  <2>6. Cut(b2, p1)
    <3>1. b2[0] = 0
      <4>1. 0 \in 0 .. p0
        BY <1>1
      <4> QED BY <1>4, <2>4, <4>1 DEF Cut
    <3>2. ASSUME NEW k \in 0 .. p1 - 1 PROVE b2[k + 1] - b2[k] \in 1 .. MAXDSZ
      <4>1. k \in Nat /\ k <= p1 - 1
        BY <2>5
      <4>2. CASE k < p0
        <5>1. k \in 0 .. p0 - 1 /\ k \in 0 .. p0 /\ k + 1 \in 0 .. p0
          BY <1>1, <4>1, <4>2, Below
        <5> QED BY <1>4, <2>4, <5>1 DEF Cut
      <4>3. CASE ~(k < p0)
        <5>1. k \in p0 .. p1 - 1
          <6> HIDE DEF p1
          <6> QED BY <1>1, <2>5, <4>1, <4>3
        <5> QED BY <2>4, <5>1, Zenon
      <4> QED BY <4>2, <4>3
    <3> QED BY <3>1, <3>2 DEF Cut
  <2>7. /\ c + Buffered(pr.R) + 0 + m = n
        /\ \A i \in 1 .. m : s2[i] \in Plain[c + Buffered(pr.R) + 0 + i]
    BY <1>6, <2>5 DEF Flows
  <2>8. e + B = c + Buffered(pr.R) /\ w + 0 = A /\ A + L = ESZ * p1
    <3>1. Len(p.wbuf) = 0
      BY ONLY p.wbuf = <<>>
    <3> QED BY <1>4, <2>3, <2>4, <3>1
  <2>9. \A i \in 1 .. L : q.wbuf[i] = Wire(b2, A + i)
    BY <2>4, Zenon
  <2> HIDE DEF e, B, A, L, m
  <2>10. \A i \in Nat : e + B + 0 + i = c + Buffered(pr.R) + 0 + i
    BY <1>1, <2>5, <2>8
  <2>11. e + B + 0 + m = n /\ e <= n /\ w = A
    <3>1. e + B + 0 + m = n
      BY <2>5, <2>7, <2>10
    <3>2. \A x, y, z \in Nat : x + y + 0 + z = n => x <= n
      OBVIOUS
    <3>3. w = A
      BY <2>8
    <3> QED BY <2>5, <3>1, <3>2, <3>3
  <2>12. \A i \in 1 .. m : s2[i] \in Plain[e + B + 0 + i]
    <3> TAKE i \in 1 .. m
    <3>1. i \in Nat
      BY <2>5
    <3> QED BY <2>7, <2>10, <3>1, Zenon
  <2>13. Flows(q.R, s2, Plain, e, n)
    BY <2>4, <2>5, <2>11, <2>12 DEF Flows, B, m, e
  <2>14. w <= ESZ * p1 /\ w + L = ESZ * p1
    <3>1. w + L = ESZ * p1
      BY <2>8, <2>11, Zenon
    <3>2. \A x, y \in Nat : x <= x + y
      BY ONLY TRUE
    <3>3. w <= w + L
      BY <2>5, <3>2, Zenon
    <3> QED BY <3>1, <3>3, Zenon
  <2>15. EncOk(b2, q, s2, n, w, over)
    <3>1. Cut(b2, q.pnum) /\ b2[q.pnum] <= n /\ w <= ESZ * q.pnum
      BY <2>6, <2>11, <2>14, Zenon DEF e
    <3>2. q.status = 1 => Flows(q.R, s2, Plain, b2[q.pnum], n)
      BY <2>13, Zenon DEF e
    <3>3. q.status = 0 => over /\ b2[q.pnum] = n
      <4>1. q.status = 1
        BY <2>3, Zenon
      <4>2. 1 # 0
        OBVIOUS
      <4> QED BY <4>1, <4>2, Zenon
    <3>4. w + Len(q.wbuf) = ESZ * q.pnum
      BY <2>14, Zenon DEF L
    <3>5. \A i \in 1 .. Len(q.wbuf) : q.wbuf[i] = Wire(b2, w + i)
      BY <2>9, <2>11, Zenon DEF L
    <3> QED BY <3>1, <3>2, <3>3, <3>4, <3>5, Zenon DEF EncOk
  <2> QED BY <1>6, <2>3, <2>4, <2>15, Zenon
<1> QED BY <1>5, <1>8, <1>9, Zenon

(* and DecOk.                                                              *)
LEMMA DecCalled ==
  ASSUME NEW p \in Cookie, p.status = 1, p.wbuf = <<>>,
         NEW b \in [Nat -> Nat], NEW top \in Nat, Cut(b, top),
         NEW s, NEW n \in Nat, NEW w \in Nat, w <= ESZ * top, NEW o \in Seq(Data), NEW es,
         DecOk(b, p, s, n, w, o, es),
         NEW pr, Called(pr), pr.pnum = p.pnum, NEW s2 \in Seq(Data),
         Flows(pr.R, s2, Coded(b), ESZ * p.pnum, w),
         NEW q, q = process("dec", pr) \/ q = Ended(pr, -1)
  PROVE  /\ q \in Cookie /\ CookieSound("dec", q) /\ q.status \in {1, -1}
         /\ DecOk(b, q, s2, n, w, o, es)
<1> DEFINE p0 == p.pnum
           c == ESZ * p0
           m == Len(s2)
<1>1. p0 \in Nat /\ ESZ \in Nat \ {0}
  BY SizesAssumption DEF Cookie
<1>2. p.wbuf = <<>> /\ Len(p.wbuf) = 0
  OBVIOUS
<1>3. /\ pr \in Cookie /\ SoundReader(pr.R) /\ ~Waiting(pr.R) /\ pr.pnum = p0
  BY DEF Called
<1>4. /\ Len(o) <= n /\ (\A i \in 1 .. Len(o) : o[i] = i)
      /\ Len(o) + Len(p.wbuf) = b[p0]
  BY DEF DecOk
<1>5. q = process("dec", pr) \/ q = Ended(pr, -1)
  OBVIOUS
<1>6. p.pnum = p0 /\ Flows(pr.R, s2, Coded(b), c, w)
  OBVIOUS
<1>7. c \in Nat /\ ESZ * top \in Nat /\ m \in Nat /\ Len(o) \in Nat
  <2>1. m \in Nat /\ Len(o) \in Nat
    BY LenNat
  <2> QED BY <1>1, <2>1, Times, Zenon
<1> HIDE DEF p0, c, m
<1>8. CASE q = Ended(pr, -1)
  <2>1. q \in Cookie /\ CookieSound("dec", q) /\ q.status = -1
    BY <1>3, <1>8, EndedFacts, Zenon
  <2>2. DecOk(b, q, s2, n, w, o, es)
    BY <1>4, <2>1 DEF DecOk
  <2> QED BY <2>1, <2>2
<1>9. CASE q = process("dec", pr)
  <2>1. Called(pr)
    OBVIOUS
  <2>2. /\ Carries(pr.R, Coded(b), ESZ * pr.pnum)
        /\ c + Buffered(pr.R) + Len(pr.R.read_cookie.got) + m = w
        /\ \A i \in 1 .. m : s2[i] \in Coded(b)[c + Buffered(pr.R) + Len(pr.R.read_cookie.got) + i]
    BY <1>3, <1>6 DEF Flows, c, m
  <2>3. Len(pr.R.read_cookie.got) = 0 /\ Buffered(pr.R) \in Nat
    <3>1. pr.R.read_cookie = NoRead /\ pr.R \in PipeReader /\ ReaderSound(pr.R)
      BY <1>3, Idles, Zenon DEF SoundReader
    <3>2. Len(NoRead.got) = 0
      BY DEF NoRead
    <3> QED BY <3>1, <3>2, ReaderNumbers, Zenon
  <2>4. ESZ * pr.pnum + Buffered(pr.R) <= ESZ * top
    <3> DEFINE e == ESZ * top
    <3>1. e \in Nat /\ w <= e
      BY <1>7
    <3> HIDE DEF e
    <3>2. c + Buffered(pr.R) + 0 + m = w
      BY <2>2, <2>3
    <3> DEFINE B == Buffered(pr.R)
    <3>3. B \in Nat /\ c + B + 0 + m = w
      BY <2>3, <3>2
    <3> HIDE DEF B
    <3>4. c + B <= e
      BY <1>7, <3>1, <3>3, PartOfSum
    <3>5. c + Buffered(pr.R) <= e
      BY <3>4 DEF B
    <3> QED BY <1>3, <3>5 DEF e, c
  <2>5. \A k \in 0 .. top - 1 : b[k + 1] - b[k] \in 1 .. MAXDSZ
    BY Zenon DEF Cut
  <2>6. LET q1 == process("dec", pr)
        IN  /\ q1 \in Cookie /\ CookieSound("dec", q1) /\ q1.status \in {1, -1}
            /\ q1.status = 1 =>
                  /\ pr.pnum <= q1.pnum /\ q1.R.read_cookie.got = <<>>
                  /\ Carries(q1.R, Coded(b), ESZ * q1.pnum)
                  /\ ESZ * q1.pnum + Buffered(q1.R) = ESZ * pr.pnum + Buffered(pr.R)
                  /\ b[pr.pnum] + Len(q1.wbuf) = b[q1.pnum]
                  /\ \A i \in 1 .. Len(q1.wbuf) : q1.wbuf[i] = b[pr.pnum] + i
    BY <2>1, <2>2, <2>4, <2>5, DecProcess, Zenon
  <2>7. /\ q \in Cookie /\ CookieSound("dec", q) /\ q.status \in {1, -1}
        /\ q.status = 1 =>
              /\ q.R.read_cookie.got = <<>>
              /\ Carries(q.R, Coded(b), ESZ * q.pnum)
              /\ ESZ * q.pnum + Buffered(q.R) = c + Buffered(pr.R)
              /\ b[p0] + Len(q.wbuf) = b[q.pnum]
              /\ \A i \in 1 .. Len(q.wbuf) : q.wbuf[i] = b[p0] + i
    BY <1>3, <1>9, <2>6, Zenon DEF c
  <2>8. Len(o) = b[p0]
    <3>1. Len(o) + 0 = b[p0]
      BY <1>2, <1>4
    <3>2. Len(o) \in Nat
      BY <1>7
    <3> QED BY <3>1, <3>2
  <2>9. CASE q.status = 1
    <3> DEFINE e == ESZ * q.pnum
               B == Buffered(q.R)
    <3>1. e \in Nat /\ B \in Nat /\ Len(q.R.read_cookie.got) = 0
      <4>1. q.pnum \in Nat
        BY <2>7, Zenon DEF Cookie
      <4>2. q.R \in PipeReader /\ ReaderSound(q.R)
        BY <2>7, Zenon DEF CookieSound, SoundReader
      <4> QED BY <1>1, <2>7, <2>9, <4>1, <4>2, Times, ReaderNumbers, Zenon
    <3>2. e + B = c + Buffered(pr.R)
      BY <2>7, <2>9
    <3> HIDE DEF e, B
    <3>3. \A i \in Nat : e + B + 0 + i = c + Buffered(pr.R) + 0 + i
      BY <1>7, <2>3, <3>1, <3>2
    <3>4. e + B + 0 + m = w
      BY <1>7, <2>2, <2>3, <3>3
    <3>5. \A i \in 1 .. m : s2[i] \in Coded(b)[e + B + 0 + i]
      <4> TAKE i \in 1 .. m
      <4>1. i \in Nat
        <5>1. \A x \in Nat : \A y \in 1 .. x : y \in Nat
          BY ONLY TRUE
        <5> QED BY <1>7, <5>1, Zenon
      <4> QED BY <2>2, <2>3, <3>3, <4>1, Zenon
    <3>6. Flows(q.R, s2, Coded(b), ESZ * q.pnum, w)
      BY <2>7, <2>9, <3>1, <3>4, <3>5, Zenon DEF Flows, e, B, m
    <3>7. Len(o) + Len(q.wbuf) = b[q.pnum] /\ \A i \in 1 .. Len(q.wbuf) : q.wbuf[i] = Len(o) + i
      BY <2>7, <2>8, <2>9, Zenon
    <3>8. q.status # 0
      BY ONLY <2>9
    <3>9. DecOk(b, q, s2, n, w, o, es)
      BY <1>4, <3>6, <3>7, <3>8, Zenon DEF DecOk
    <3> QED BY <2>7, <3>9, Zenon
  <2>10. CASE q.status # 1
    <3>1. q.status \in {1, -1}
      BY <2>7
    <3>2. q.status # 0 /\ ~(q.status = 1)
      BY <2>10, <3>1, RunsOrFailed, Zenon
    <3>3. DecOk(b, q, s2, n, w, o, es)
      BY <1>4, <3>2, Zenon DEF DecOk
    <3> QED BY <2>7, <3>3
  <2>11. DecOk(b, q, s2, n, w, o, es)
    BY <2>9, <2>10, Zenon
  <2> QED BY <2>7, <2>11
<1> QED BY <1>5, <1>8, <1>9, Zenon

(* The stream a pipe reads, where it has come to, and how long it is.      *)
Source(d, b) == IF d = "enc" THEN Plain ELSE Coded(b)
From(d, b) == IF d = "enc" THEN b[P["enc"].pnum] ELSE ESZ * P["dec"].pnum
Upto(d) == IF d = "enc" THEN sent ELSE wired

(* StreamInv, part by part.                                                *)
LEMMA Parts ==
  ASSUME NEW b \in [Nat -> Nat], StreamInv(b)
  PROVE  /\ \A d \in Pipe : /\ P[d] \in Cookie /\ CookieSound(d, P[d]) /\ sock[d] \in Seq(Data)
                            /\ SoundReader(P[d].R) /\ P[d].pnum \in Nat
         /\ sent \in Nat /\ wired \in Nat /\ closed \in BOOLEAN /\ out \in Seq(Data)
         /\ P \in [Pipe -> Cookie] /\ sock \in [Pipe -> Seq(Data)]
         /\ EncOk(b, P["enc"], sock["enc"], sent, wired, closed)
         /\ DecOk(b, P["dec"], sock["dec"], sent, wired, out, P["enc"].status)
<1>1. P \in [Pipe -> Cookie] /\ sock \in [Pipe -> Seq(Data)] /\ sent \in Nat /\ wired \in Nat
      /\ closed \in BOOLEAN /\ out \in Seq(Data) /\ \A d \in Pipe : CookieSound(d, P[d])
  BY Zenon DEF StreamInv, PipeTypes
<1>2. \A d \in Pipe : P[d] \in Cookie /\ sock[d] \in Seq(Data)
  BY <1>1
<1>3. \A d \in Pipe : P[d].pnum \in Nat
  BY <1>2 DEF Cookie
<1>4. \A d \in Pipe : SoundReader(P[d].R)
  BY <1>1 DEF CookieSound
<1>5. /\ EncOk(b, P["enc"], sock["enc"], sent, wired, closed)
      /\ DecOk(b, P["dec"], sock["dec"], sent, wired, out, P["enc"].status)
  BY DEF StreamInv
<1> QED BY <1>1, <1>2, <1>3, <1>4, <1>5, Zenon

(* What a running pipe reads is in order.                                  *)
LEMMA Flowing ==
  ASSUME NEW b \in [Nat -> Nat], StreamInv(b), NEW d \in Pipe, P[d].status = 1
  PROVE  /\ Flows(P[d].R, sock[d], Source(d, b), From(d, b), Upto(d))
         /\ From(d, b) \in Nat /\ Upto(d) \in Nat
<1>1. /\ EncOk(b, P["enc"], sock["enc"], sent, wired, closed)
      /\ DecOk(b, P["dec"], sock["dec"], sent, wired, out, P["enc"].status)
      /\ P["enc"].pnum \in Nat /\ P["dec"].pnum \in Nat /\ sent \in Nat /\ wired \in Nat
  BY Parts DEF Pipe
<1>2. CASE d = "enc"
  BY <1>1, <1>2, Zenon DEF EncOk, Source, From, Upto
<1>3. CASE d = "dec"
  <2>1. Flows(P[d].R, sock[d], Source(d, b), From(d, b), Upto(d))
    BY <1>1, <1>3 DEF DecOk, Source, From, Upto
  <2>2. ESZ * P["dec"].pnum \in Nat
    BY <1>1, Times, SizesAssumption
  <2> QED BY <1>1, <1>3, <2>1, <2>2 DEF From, Upto
<1> QED BY <1>2, <1>3 DEF Pipe

(* A step of the pipe that encrypts does not disturb the other, which      *)
(* knows the cut only as far as the wire goes;                             *)
LEMMA EncMoves ==
  ASSUME NEW b \in [Nat -> Nat], StreamInv(b), P["enc"].status = 1,
         NEW q \in Cookie, CookieSound("enc", q), P' = [P EXCEPT !["enc"] = q],
         NEW s2 \in Seq(Data), sock' = [sock EXCEPT !["enc"] = s2],
         UNCHANGED <<sent, closed, wired, out>>,
         NEW b2 \in [Nat -> Nat], \A k \in 0 .. P["enc"].pnum : b2[k] = b[k],
         EncOk(b2, q, s2, sent, wired, closed)
  PROVE  StreamInv(b2)'
<1>1. /\ P \in [Pipe -> Cookie] /\ sock \in [Pipe -> Seq(Data)] /\ sent \in Nat /\ wired \in Nat
      /\ closed \in BOOLEAN /\ out \in Seq(Data) /\ CookieSound("dec", P["dec"])
      /\ P["dec"] \in Cookie /\ SoundReader(P["dec"].R) /\ sock["dec"] \in Seq(Data)
      /\ P["enc"].pnum \in Nat
  BY Parts, Zenon DEF Pipe
<1>2. /\ P' \in [Pipe -> Cookie] /\ P'["enc"] = q /\ P'["dec"] = P["dec"]
      /\ sock' \in [Pipe -> Seq(Data)] /\ sock'["enc"] = s2 /\ sock'["dec"] = sock["dec"]
  BY <1>1, Zenon DEF Pipe
<1>3. PipeTypes'
  BY <1>1, <1>2, Zenon DEF PipeTypes
<1>4. \A d \in Pipe : CookieSound(d, P'[d])
  BY <1>1, <1>2, Zenon DEF Pipe
<1>5. DecOk(b, P["dec"], sock["dec"], sent, wired, out, 1)
  BY DEF StreamInv
<1>6. wired <= ESZ * P["enc"].pnum
  BY DEF StreamInv, EncOk
<1>7. DecOk(b2, P["dec"], sock["dec"], sent, wired, out, q.status)
  BY <1>1, <1>5, <1>6, DecExtends, Zenon
<1> QED BY <1>2, <1>3, <1>4, <1>7 DEF StreamInv

(* nor does one of the pipe that decrypts.                                 *)
LEMMA DecMoves ==
  ASSUME NEW b \in [Nat -> Nat], StreamInv(b),
         NEW q \in Cookie, CookieSound("dec", q), P' = [P EXCEPT !["dec"] = q],
         NEW s2 \in Seq(Data), sock' = [sock EXCEPT !["dec"] = s2],
         UNCHANGED <<sent, closed, wired>>, out' \in Seq(Data),
         DecOk(b, q, s2, sent, wired, out', P["enc"].status)
  PROVE  StreamInv(b)'
<1>1. /\ P \in [Pipe -> Cookie] /\ sock \in [Pipe -> Seq(Data)] /\ sent \in Nat /\ wired \in Nat
      /\ closed \in BOOLEAN /\ CookieSound("enc", P["enc"])
  BY Parts, Zenon DEF Pipe
<1>2. /\ P' \in [Pipe -> Cookie] /\ P'["dec"] = q /\ P'["enc"] = P["enc"]
      /\ sock' \in [Pipe -> Seq(Data)] /\ sock'["dec"] = s2 /\ sock'["enc"] = sock["enc"]
  BY <1>1, Zenon DEF Pipe
<1>3. PipeTypes'
  BY <1>1, <1>2, Zenon DEF PipeTypes
<1>4. \A d \in Pipe : CookieSound(d, P'[d])
  BY <1>1, <1>2, Zenon DEF Pipe
<1> QED BY <1>2, <1>3, <1>4 DEF StreamInv

(* callback_pipe_read keeps the invariant.                                 *)
LEMMA CallbackStep ==
  ASSUME NEW b \in [Nat -> Nat], StreamInv(b), NEW d \in Pipe,
         P[d].status = 1, ~P[d].write_cookie,
         NEW R, SoundReader(R), ~Waiting(R), NEW s2 \in Seq(Data),
         Flows(R, s2, Source(d, b), From(d, b), Upto(d)),
         callback_pipe_read(d, R), sock' = [sock EXCEPT ![d] = s2],
         UNCHANGED <<sent, closed, wired, out>>
  PROVE  PipeInv'
<1> DEFINE p == P[d]
           q == P'[d]
           pr == [p EXCEPT !.R = R]
<1>1. /\ p \in Cookie /\ CookieSound(d, p) /\ sent \in Nat /\ wired \in Nat
      /\ P \in [Pipe -> Cookie] /\ out \in Seq(Data) /\ P["enc"].pnum \in Nat
      /\ EncOk(b, P["enc"], sock["enc"], sent, wired, closed)
      /\ DecOk(b, P["dec"], sock["dec"], sent, wired, out, P["enc"].status)
  BY Parts, Zenon DEF Pipe
<1>2. /\ q = process(d, pr) \/ q = Ended(pr, -1)
      /\ P' = [P EXCEPT ![d] = q]
  BY <1>1, Zenon DEF callback_pipe_read
<1>3. R \in PipeReader /\ p.wbuf = <<>> /\ p.write_cookie = FALSE
  BY <1>1, Zenon DEF SoundReader, CookieSound, Cookie
<1>4. Called(pr) /\ pr.pnum = p.pnum /\ pr.R = R
  BY <1>1, <1>3, Zenon DEF Called, Cookie
<1> HIDE DEF q, pr
<1>5. CASE d = "enc"
  <2>1. Flows(pr.R, s2, Plain, b[p.pnum], sent)
    BY <1>5, <1>4 DEF Source, From, Upto
  <2>2. EncOk(b, p, sock["enc"], sent, wired, closed)
    BY <1>1, <1>5
  <2>3. /\ q \in Cookie /\ CookieSound("enc", q)
        /\ \E b2 \in [Nat -> Nat] :
              (\A k \in 0 .. p.pnum : b2[k] = b[k]) /\ EncOk(b2, q, s2, sent, wired, closed)
    <3>1. /\ p \in Cookie /\ p.status = 1 /\ p.wbuf = <<>>
          /\ q = process("enc", pr) \/ q = Ended(pr, -1)
      BY <1>1, <1>2, <1>5, <1>3, Zenon
    <3> HIDE DEF p
    <3> DEFINE se == sock["enc"]
    <3>2. EncOk(b, p, se, sent, wired, closed) /\ sent \in Nat /\ wired \in Nat
      BY <1>1, <2>2
    <3> HIDE DEF se
    <3>3. Called(pr) /\ pr.pnum = p.pnum
      BY <1>4
    <3>4. CASE q = process("enc", pr)
      BY <2>1, <3>1, <3>2, <3>3, <3>4, EncCalled, Zenon
    <3>5. CASE q = Ended(pr, -1)
      BY <2>1, <3>1, <3>2, <3>3, <3>5, EncCalled, Zenon
    <3> QED BY <3>1, <3>4, <3>5, Zenon
  <2>4. PICK b2 \in [Nat -> Nat] :
              (\A k \in 0 .. p.pnum : b2[k] = b[k]) /\ EncOk(b2, q, s2, sent, wired, closed)
    BY <2>3, Zenon
  <2>5. StreamInv(b2)'
    <3>1. /\ P["enc"].status = 1 /\ P' = [P EXCEPT !["enc"] = q] /\ sock' = [sock EXCEPT !["enc"] = s2]
          /\ \A k \in 0 .. P["enc"].pnum : b2[k] = b[k]
      BY <1>2, <1>5, <2>4
    <3> QED BY <2>3, <2>4, <3>1, EncMoves, Zenon
  <2> QED BY <2>5, Zenon DEF PipeInv
<1>6. CASE d = "dec"
  <2>1. Flows(pr.R, s2, Coded(b), ESZ * p.pnum, wired)
    BY <1>6, <1>4 DEF Source, From, Upto
  <2>2. DecOk(b, p, sock["dec"], sent, wired, out, P["enc"].status)
    BY <1>1, <1>6
  <2>3. Cut(b, P["enc"].pnum) /\ wired <= ESZ * P["enc"].pnum
    BY <1>1 DEF EncOk
  <2>4. /\ q \in Cookie /\ CookieSound("dec", q)
        /\ DecOk(b, q, s2, sent, wired, out, P["enc"].status)
    <3>1. /\ p \in Cookie /\ p.status = 1 /\ p.wbuf = <<>>
          /\ q = process("dec", pr) \/ q = Ended(pr, -1)
      BY <1>1, <1>2, <1>6, <1>3, Zenon
    <3> HIDE DEF p
    <3> DEFINE se == sock["dec"]
               es == P["enc"].status
               top == P["enc"].pnum
    <3>2. DecOk(b, p, se, sent, wired, out, es) /\ sent \in Nat /\ wired \in Nat /\ out \in Seq(Data)
          /\ top \in Nat /\ Cut(b, top) /\ wired <= ESZ * top
      BY <1>1, <2>2, <2>3, Zenon
    <3> HIDE DEF se, es, top
    <3>3. Called(pr) /\ pr.pnum = p.pnum
      BY <1>4
    <3>4. /\ q \in Cookie /\ CookieSound("dec", q)
          /\ DecOk(b, q, s2, sent, wired, out, es)
      <4>1. CASE q = process("dec", pr)
        BY <2>1, <3>1, <3>2, <3>3, <4>1, DecCalled, ZenonT(30)
      <4>2. CASE q = Ended(pr, -1)
        <5>1. pr \in Cookie /\ SoundReader(pr.R)
          BY <3>3 DEF Called
        <5>2. q \in Cookie /\ CookieSound("dec", q) /\ q.status = -1
          BY <4>2, <5>1, EndedFacts, Zenon
        <5>3. DecOk(b, q, s2, sent, wired, out, es)
          <6>1. q.status # 0 /\ q.status # 1
            BY ONLY <5>2
          <6> QED BY <3>2, <6>1, Zenon DEF DecOk
        <5> QED BY <5>2, <5>3
      <4> QED BY <3>1, <4>1, <4>2, Zenon
    <3> QED BY <3>4 DEF es
  <2>5. StreamInv(b)'
    <3>1. P' = [P EXCEPT !["dec"] = q] /\ sock' = [sock EXCEPT !["dec"] = s2] /\ out' = out
      BY <1>2, <1>6
    <3> QED BY <1>1, <2>4, <3>1, DecMoves, Zenon
  <2> QED BY <2>5 DEF PipeInv
<1> QED BY <1>5, <1>6 DEF Pipe

(* A pipe that waits to read has nothing to write.                         *)
LEMMA WaitsAlone ==
  ASSUME NEW d, NEW p, CookieSound(d, p), Waiting(p.R)
  PROVE  p.status = 1 /\ ~p.write_cookie /\ p.wbuf = <<>>
BY DEF CookieSound

(* The steps of a pipe: the immediate callback,                            *)
LEMMA ImmediateStep ==
  ASSUME NEW b \in [Nat -> Nat], StreamInv(b), NEW d \in Pipe, Immediate(d)
  PROVE  PipeInv'
<1> DEFINE R == P[d].R
           S == callback_success(R)
<1>1. R.immediate_cookie /\ callback_pipe_read(d, S) /\ UNCHANGED <<sock, sent, closed, wired, out>>
  BY DEF Immediate
<1>2. CookieSound(d, P[d]) /\ SoundReader(R) /\ sock[d] \in Seq(Data) /\ sock \in [Pipe -> Seq(Data)]
  BY Parts
<1>3. P[d].status = 1 /\ ~P[d].write_cookie
  BY <1>1, <1>2, WaitsAlone DEF Waiting
<1>4. Flows(R, sock[d], Source(d, b), From(d, b), Upto(d)) /\ From(d, b) \in Nat
  BY <1>3, Flowing
<1>5. SoundReader(S) /\ ~Waiting(S) /\ Flows(S, sock[d], Source(d, b), From(d, b), Upto(d))
  <2> HIDE DEF R
  <2> QED BY <1>1, <1>2, <1>4, FlowsSuccess
<1>6. sock' = [sock EXCEPT ![d] = sock[d]]
  BY <1>1, <1>2
<1> HIDE DEF S, R
<1> QED BY <1>1, <1>2, <1>3, <1>5, <1>6, CallbackStep, Zenon

(* A pipe goes on reading.                                                 *)
LEMMA GoesOn ==
  ASSUME NEW b \in [Nat -> Nat], StreamInv(b), NEW d \in Pipe,
         P[d].status = 1, ~P[d].write_cookie,
         NEW R, SoundReader(R), R.read_cookie.on, Asks(R, minread(d)), NEW s2 \in Seq(Data),
         Flows(R, s2, Source(d, b), From(d, b), Upto(d)),
         P' = [P EXCEPT ![d].R = R], sock' = [sock EXCEPT ![d] = s2],
         UNCHANGED <<sent, closed, wired, out>>
  PROVE  PipeInv'
<1> DEFINE p == P[d]
           q == [p EXCEPT !.R = R]
<1>1. /\ p \in Cookie /\ CookieSound(d, p) /\ sent \in Nat /\ wired \in Nat
      /\ P \in [Pipe -> Cookie] /\ out \in Seq(Data)
      /\ EncOk(b, P["enc"], sock["enc"], sent, wired, closed)
      /\ DecOk(b, P["dec"], sock["dec"], sent, wired, out, P["enc"].status)
  BY Parts, Zenon DEF Pipe
<1>2. P' = [P EXCEPT ![d] = q]
  BY <1>1
<1>3. /\ q \in Cookie /\ q.R = R /\ q.pnum = p.pnum /\ q.wbuf = p.wbuf /\ q.status = 1
      /\ q.write_cookie = p.write_cookie
  BY <1>1, Zenon DEF SoundReader, Cookie
<1>4. p.status = 1 /\ ~p.write_cookie
  OBVIOUS
<1> HIDE DEF q, p
<1>5. CookieSound(d, q)
  BY <1>1, <1>3, <1>4, Zenon DEF CookieSound, Waiting
<1>6. CASE d = "enc"
  <2>1. Flows(R, s2, Plain, b[p.pnum], sent) /\ EncOk(b, p, sock["enc"], sent, wired, closed)
    BY <1>1, <1>6 DEF Source, From, Upto, p
  <2>2. EncOk(b, q, s2, sent, wired, closed)
    BY <1>3, <1>4, <2>1 DEF EncOk
  <2>3. StreamInv(b)'
    <3>1. P["enc"].status = 1 /\ P' = [P EXCEPT !["enc"] = q] /\ sock' = [sock EXCEPT !["enc"] = s2]
          /\ CookieSound("enc", q)
      BY <1>2, <1>5, <1>6, Zenon
    <3>2. \A k \in 0 .. P["enc"].pnum : b[k] = b[k]
      OBVIOUS
    <3> QED BY <1>3, <2>2, <3>1, <3>2, EncMoves, Zenon
  <2> QED BY <2>3, Zenon DEF PipeInv
<1>7. CASE d = "dec"
  <2>1. Flows(R, s2, Coded(b), ESZ * p.pnum, wired)
        /\ DecOk(b, p, sock["dec"], sent, wired, out, P["enc"].status)
    BY <1>1, <1>7 DEF Source, From, Upto, p
  <2>2. DecOk(b, q, s2, sent, wired, out, P["enc"].status)
    BY <1>3, <1>4, <2>1 DEF DecOk
  <2>3. StreamInv(b)'
    <3>1. P' = [P EXCEPT !["dec"] = q] /\ sock' = [sock EXCEPT !["dec"] = s2] /\ out' = out
          /\ CookieSound("dec", q) /\ out' \in Seq(Data)
      BY <1>1, <1>2, <1>5, <1>7, Zenon
    <3> QED BY <1>3, <2>2, <3>1, DecMoves, Zenon
  <2> QED BY <2>3, Zenon DEF PipeInv
<1> QED BY <1>6, <1>7 DEF Pipe

(* bytes that arrive, which may be enough or not,                          *)
LEMMA ReceiveStep ==
  ASSUME NEW b \in [Nat -> Nat], StreamInv(b), NEW d \in Pipe, Receive(d)
  PROVE  PipeInv'
<1> DEFINE R == P[d].R
           s == sock[d]
<1>1. R.read_cookie.on /\ UNCHANGED <<sent, closed, wired, out>>
  BY DEF Receive
<1>2. CookieSound(d, P[d]) /\ SoundReader(R) /\ s \in Seq(Data) /\ sock \in [Pipe -> Seq(Data)]
  BY Parts
<1>3. P[d].status = 1 /\ ~P[d].write_cookie
  BY <1>1, <1>2, WaitsAlone DEF Waiting
<1>4. Flows(R, s, Source(d, b), From(d, b), Upto(d)) /\ From(d, b) \in Nat /\ Upto(d) \in Nat
  BY <1>3, Flowing
<1>5. PICK k \in 1 .. Len(s) :
        /\ k <= R.read_cookie.max - Len(R.read_cookie.got)
        /\ sock' = [sock EXCEPT ![d] = SubSeq(s, k + 1, Len(s))]
        /\ LET T == recv(R, SubSeq(s, 1, k))
           IN  IF KeepGoing(T)
               THEN P' = [P EXCEPT ![d].R = T]
               ELSE callback_pipe_read(d, callback_read(T, Len(T.read_cookie.got)))
  BY Zenon DEF Receive
<1> DEFINE rest == SubSeq(s, k + 1, Len(s))
           T == recv(R, SubSeq(s, 1, k))
           B == callback_read(T, Len(T.read_cookie.got))
<1>6. /\ SoundReader(T) /\ T.read_cookie.on /\ Flows(T, rest, Source(d, b), From(d, b), Upto(d))
      /\ Asks(R, minread(d)) => Asks(T, minread(d))
  <2> DEFINE f == Source(d, b)
             c == From(d, b)
             n == Upto(d)
  <2>1. k \in 1 .. Len(s) /\ k <= R.read_cookie.max - Len(R.read_cookie.got)
    BY <1>5
  <2>2. Flows(R, s, f, c, n) /\ c \in Nat /\ n \in Nat
    BY <1>4
  <2> HIDE DEF R, s, f, c, n
  <2>3. /\ SoundReader(T) /\ T.read_cookie.on /\ Flows(T, rest, f, c, n)
        /\ Asks(R, minread(d)) => Asks(T, minread(d))
    <3>1. R.read_cookie.on /\ SoundReader(R) /\ s \in Seq(Data)
      BY <1>1, <1>2
    <3>2. k \in 1 .. Len(s)
      BY <2>1
    <3>3. k <= R.read_cookie.max - Len(R.read_cookie.got)
      BY <2>1
    <3> QED BY <2>2, <3>1, <3>2, <3>3, FlowsRecv, Zenon
  <2> QED BY <2>3 DEF f, c, n
<1>7. rest \in Seq(Data)
  <2>1. \A i \in k + 1 .. Len(s) : s[i] \in Data
    BY <1>2
  <2>2. k + 1 \in Int /\ Len(s) \in Int
    BY <1>2
  <2> DEFINE j == k + 1
             m == Len(s)
  <2> HIDE DEF j, m, s
  <2>3. SubSeq(s, j, m) \in Seq(Data)
    BY <2>1, <2>2, SubSeqIs DEF j, m
  <2> QED BY <2>3 DEF j, m
<1>8. sock' = [sock EXCEPT ![d] = rest]
  BY <1>5
<1>9. IF KeepGoing(T) THEN P' = [P EXCEPT ![d].R = T] ELSE callback_pipe_read(d, B)
  BY <1>5, Zenon
<1>10. Asks(T, minread(d))
  BY <1>2, <1>6 DEF CookieSound
<1> HIDE DEF R, s, rest, T
<1>11. CASE KeepGoing(T)
  <2>1. P' = [P EXCEPT ![d].R = T]
    BY <1>9, <1>11
  <2> QED BY <1>1, <1>3, <1>6, <1>7, <1>8, <1>10, <2>1, GoesOn, Zenon
<1>12. CASE ~KeepGoing(T)
  <2>1. SoundReader(B) /\ ~Waiting(B) /\ Flows(B, rest, Source(d, b), From(d, b), Upto(d))
    BY <1>4, <1>6, <1>7, FlowsRead, Zenon
  <2>2. callback_pipe_read(d, B)
    BY <1>9, <1>12
  <2> HIDE DEF B
  <2> QED BY <1>1, <1>3, <1>7, <1>8, <2>1, <2>2, CallbackStep, Zenon
<1> QED BY <1>11, <1>12

(* A pipe ends, well only if all was read and the other has ended too.     *)
LEMMA EndsStep ==
  ASSUME NEW b \in [Nat -> Nat], StreamInv(b), NEW d \in Pipe, P[d].status = 1,
         NEW p1 \in Cookie, SoundReader(p1.R), p1.pnum = P[d].pnum, NEW st \in {-1, 0},
         st = 0 => IF d = "enc"
                   THEN closed /\ b[P["enc"].pnum] = sent /\ P["enc"].wbuf = <<>>
                   ELSE P["enc"].status # 1 /\ wired = ESZ * P["dec"].pnum,
         P' = [P EXCEPT ![d] = Ended(p1, st)], UNCHANGED <<sock, sent, closed, wired, out>>
  PROVE  PipeInv'
<1> DEFINE q == Ended(p1, st)
<1>1. /\ q \in Cookie /\ CookieSound(d, q) /\ q.status = st /\ q.pnum = P[d].pnum
      /\ q.wbuf = <<>>
  BY EndedFacts, Zenon
<1>2. /\ sock \in [Pipe -> Seq(Data)] /\ wired \in Nat /\ out \in Seq(Data)
      /\ EncOk(b, P["enc"], sock["enc"], sent, wired, closed)
      /\ DecOk(b, P["dec"], sock["dec"], sent, wired, out, P["enc"].status)
  BY Parts DEF Pipe
<1>3. sock[d] \in Seq(Data) /\ sock' = [sock EXCEPT ![d] = sock[d]]
  BY <1>2
<1>4. st # 1 /\ Len(<<>>) = 0 /\ q.status # 1
  <2>1. st # 1
    BY ONLY st \in {-1, 0}
  <2>2. Len(<<>>) = 0
    BY ONLY TRUE
  <2> QED BY <1>1, <2>1, <2>2, Zenon
<1> HIDE DEF q
<1>5. CASE d = "enc"
  <2>1. EncOk(b, q, sock["enc"], sent, wired, closed)
    <3>1. Len(q.wbuf) = 0 /\ 1 .. Len(q.wbuf) = {}
      BY <1>1
    <3>2. /\ Cut(b, q.pnum) /\ b[q.pnum] <= sent /\ wired <= ESZ * q.pnum
          /\ wired + Len(P["enc"].wbuf) = ESZ * q.pnum
      <4>1. P["enc"].status # -1 /\ q.pnum = P["enc"].pnum
        BY <1>1, <1>5
      <4>2. EncOk(b, P["enc"], sock["enc"], sent, wired, closed)
        BY <1>2
      <4> QED BY <4>1, <4>2 DEF EncOk
    <3>3. st = 0 => closed /\ b[q.pnum] = sent /\ wired + Len(q.wbuf) = ESZ * q.pnum
      BY <1>1, <1>5, <3>1, <3>2
    <3>4. q.status # -1 => st = 0
      BY <1>1
    <3> QED BY <1>1, <1>4, <3>1, <3>2, <3>3, <3>4 DEF EncOk
  <2>2. /\ CookieSound("enc", q) /\ P["enc"].status = 1 /\ P' = [P EXCEPT !["enc"] = q]
        /\ sock' = [sock EXCEPT !["enc"] = sock["enc"]] /\ sock["enc"] \in Seq(Data)
        /\ \A k \in 0 .. P["enc"].pnum : b[k] = b[k]
    BY <1>1, <1>3, <1>5, Zenon DEF q
  <2>3. StreamInv(b)'
    BY <1>1, <2>1, <2>2, EncMoves, Zenon
  <2> QED BY <2>3 DEF PipeInv
<1>6. CASE d = "dec"
  <2>1. DecOk(b, q, sock["dec"], sent, wired, out, P["enc"].status)
    BY <1>1, <1>2, <1>4, <1>6 DEF DecOk
  <2>2. /\ CookieSound("dec", q) /\ P' = [P EXCEPT !["dec"] = q]
        /\ sock' = [sock EXCEPT !["dec"] = sock["dec"]] /\ sock["dec"] \in Seq(Data)
        /\ out' = out /\ out' \in Seq(Data)
    BY <1>1, <1>2, <1>3, <1>6, Zenon DEF q
  <2>3. StreamInv(b)'
    BY <1>1, <2>1, <2>2, DecMoves, Zenon
  <2> QED BY <2>3 DEF PipeInv
<1> QED BY <1>5, <1>6 DEF Pipe

(* It fails,                                                               *)
LEMMA FailStep ==
  ASSUME NEW b \in [Nat -> Nat], StreamInv(b), NEW d \in Pipe, P[d].status = 1,
         P' = [P EXCEPT ![d] = Ended(P[d], -1)], UNCHANGED <<sock, sent, closed, wired, out>>
  PROVE  PipeInv'
<1>1. P[d] \in Cookie /\ SoundReader(P[d].R)
  BY Parts
<1>2. -1 \in {-1, 0} /\ -1 # 0
  OBVIOUS
<1> QED BY <1>1, <1>2, EndsStep, Zenon

(* or its socket is at the end.                                            *)
LEMMA EofStep ==
  ASSUME NEW b \in [Nat -> Nat], StreamInv(b), NEW d \in Pipe, ReceiveEof(d)
  PROVE  PipeInv'
<1> DEFINE R == P[d].R
           n == Len(R.read_cookie.got)
           S == callback_read(R, n)
           p1 == [P[d] EXCEPT !.R = S]
<1>1. R.read_cookie.on /\ AtEof(d) /\ UNCHANGED <<sock, sent, closed, wired, out>>
  BY DEF ReceiveEof
<1>2. CookieSound(d, P[d]) /\ SoundReader(R) /\ sock[d] \in Seq(Data) /\ sock \in [Pipe -> Seq(Data)]
      /\ P[d] \in Cookie /\ P["enc"].pnum \in Nat
  BY Parts, Zenon DEF Pipe
<1>3. P[d].status = 1 /\ ~P[d].write_cookie /\ P[d].wbuf = <<>>
  BY <1>1, <1>2, WaitsAlone DEF Waiting
<1>4. Flows(R, sock[d], Source(d, b), From(d, b), Upto(d)) /\ From(d, b) \in Nat /\ Upto(d) \in Nat
  BY <1>3, Flowing
<1>5. SoundReader(S) /\ ~Waiting(S) /\ Flows(S, sock[d], Source(d, b), From(d, b), Upto(d))
  <2> DEFINE f == Source(d, b)
             c == From(d, b)
             m == Upto(d)
             s == sock[d]
  <2>1. Flows(R, s, f, c, m) /\ c \in Nat /\ m \in Nat /\ s \in Seq(Data)
    BY <1>2, <1>4
  <2>2. R.read_cookie.on /\ SoundReader(R)
    BY <1>1, <1>2
  <2> HIDE DEF R, s, f, c, m
  <2>3. SoundReader(S) /\ ~Waiting(S) /\ Flows(S, s, f, c, m)
    BY <2>1, <2>2, FlowsRead, Zenon
  <2> QED BY <2>3 DEF f, c, m, s
<1>6. sock' = [sock EXCEPT ![d] = sock[d]]
  BY <1>1, <1>2
<1>7. Buffered(R) \in Nat /\ n \in Nat
  <2>1. R \in PipeReader /\ ReaderSound(R)
    BY <1>2 DEF SoundReader
  <2> QED BY <2>1, ReaderNumbers, Zenon
<1>8. Buffered(S) = Buffered(R) + n
  <2> HIDE DEF R
  <2> QED BY <1>1, <1>2, ReadOver
<1>9. CASE n > 0
  <2>1. callback_pipe_read(d, S)
    BY <1>9 DEF ReceiveEof
  <2> HIDE DEF S
  <2> QED BY <1>1, <1>2, <1>3, <1>5, <1>6, <2>1, CallbackStep, Zenon
<1>10. CASE ~(n > 0)
  <2>1. n = 0
    BY <1>7, <1>10
  <2>2. P' = [P EXCEPT ![d] = eof(d, p1)]
    BY <2>1 DEF ReceiveEof
  <2>3. p1 \in Cookie /\ p1.pnum = P[d].pnum /\ p1.R = S
    BY <1>2, <1>5, Zenon DEF SoundReader, Cookie
  <2>4. From(d, b) + Buffered(R) = Upto(d)
    <3>1. Len(sock[d]) = 0
      BY <1>1 DEF AtEof
    <3>2. From(d, b) + Buffered(R) + n + Len(sock[d]) = Upto(d)
      BY <1>4 DEF Flows
    <3>3. From(d, b) + Buffered(R) + 0 + 0 = Upto(d)
      BY <2>1, <3>1, <3>2
    <3> HIDE DEF R
    <3> QED BY <1>4, <1>7, <3>3
  <2>5. eof(d, p1) = IF d = "dec" /\ netbuf_read_peek(S) # <<>> THEN Ended(p1, -1) ELSE Ended(p1, 0)
    BY <2>3 DEF eof
  <2>6. Len(netbuf_read_peek(S)) = Buffered(R)
    <3>1. S \in PipeReader /\ ReaderSound(S)
      BY <1>5 DEF SoundReader
    <3>2. Len(netbuf_read_peek(S)) = Buffered(S)
      <4> HIDE DEF S
      <4> QED BY <3>1, Peeked
    <3> QED BY <1>7, <1>8, <2>1, <3>2
  <2>7. -1 \in {-1, 0} /\ -1 # 0 /\ 0 \in {-1, 0}
    OBVIOUS
  <2> HIDE DEF S, p1, R
  <2>8. CASE d = "dec" /\ netbuf_read_peek(S) # <<>>
    <3>1. P' = [P EXCEPT ![d] = Ended(p1, -1)]
      BY <2>2, <2>5, <2>8
    <3> QED BY <1>1, <1>3, <1>5, <2>3, <2>7, <3>1, EndsStep, Zenon
  <2>9. CASE d = "dec" /\ netbuf_read_peek(S) = <<>>
    <3>1. P' = [P EXCEPT ![d] = Ended(p1, 0)]
      BY <2>2, <2>5, <2>9
    <3>2. Buffered(R) = 0
      BY <2>6, <2>9
    <3>3. d # "enc" /\ P["enc"].status # 1 /\ wired = ESZ * P["dec"].pnum
      <4>1. d # "enc" /\ P["enc"].status # 1
        BY <1>1, <2>9 DEF AtEof
      <4>2. From(d, b) = Upto(d)
        BY <1>4, <2>4, <3>2
      <4>3. wired = ESZ * P["dec"].pnum
        BY <2>9, <4>2 DEF From, Upto
      <4> QED BY <4>1, <4>3
    <3> QED BY <1>1, <1>3, <1>5, <2>3, <2>7, <3>1, <3>3, EndsStep, Zenon
  <2>10. CASE d = "enc"
    <3>1. P' = [P EXCEPT ![d] = Ended(p1, 0)]
      BY <2>2, <2>5, <2>10
    <3>2. Buffered(R) = 0
      <4>1. Asks(R, 1)
        BY <1>2, <2>10 DEF CookieSound, minread, R
      <4>2. R.read_cookie.min \in 1 .. R.read_cookie.max
        BY <1>1, <1>2 DEF SoundReader, ReaderSound
      <4>3. R.read_cookie.max \in Nat
        BY <1>2, ReaderNumbers, Zenon DEF SoundReader
      <4>4. Buffered(R) + R.read_cookie.min = 1
        BY <1>1, <4>1 DEF Asks
      <4> QED BY <1>7, <4>2, <4>3, <4>4
    <3>3. closed /\ b[P["enc"].pnum] = sent /\ P["enc"].wbuf = <<>>
      <4>1. closed /\ P["enc"].wbuf = <<>>
        BY <1>1, <1>3, <2>10 DEF AtEof
      <4>2. From(d, b) = Upto(d)
        BY <1>4, <2>4, <3>2
      <4>3. b[P["enc"].pnum] = sent
        BY <2>10, <4>2 DEF From, Upto
      <4> QED BY <4>1, <4>3
    <3> QED BY <1>1, <1>3, <1>5, <2>3, <2>7, <2>10, <3>1, <3>3, EndsStep, Zenon
  <2> QED BY <2>8, <2>9, <2>10 DEF Pipe
<1> QED BY <1>9, <1>10

(* The first k bytes and the rest.                                         *)
LEMMA Split ==
  ASSUME NEW s \in Seq(Data), NEW k \in 1 .. Len(s)
  PROVE  LET new == SubSeq(s, 1, k)
             rest == SubSeq(s, k + 1, Len(s))
         IN  /\ k \in Nat /\ new \in Seq(Data) /\ Len(new) = k /\ new # <<>>
             /\ \A i \in 1 .. k : new[i] = s[i]
             /\ rest \in Seq(Data) /\ Len(rest) = Len(s) - k /\ Len(s) - k \in Nat
             /\ \A i \in 1 .. Len(s) - k : rest[i] = s[k + i]
<1> DEFINE m == Len(s)
           new == SubSeq(s, 1, k)
           rest == SubSeq(s, k + 1, m)
<1>1. m \in Nat /\ k \in Nat /\ k <= m
  OBVIOUS
<1>2. \A i \in 1 .. m : s[i] \in Data
  OBVIOUS
<1>3. /\ new \in Seq(Data) /\ Len(new) = k /\ \A i \in 1 .. k : new[i] = s[i]
  <2>1. \A i \in 1 .. k : s[i] \in Data
    BY <1>1, <1>2
  <2>2. /\ SubSeq(s, 1, k) \in Seq(Data)
        /\ Len(SubSeq(s, 1, k)) = IF 1 <= k THEN k - 1 + 1 ELSE 0
        /\ \A i \in 1 .. k - 1 + 1 : SubSeq(s, 1, k)[i] = s[1 + i - 1]
    BY <1>1, <2>1, SubSeqIs
  <2>3. k - 1 + 1 = k /\ 1 <= k /\ \A i \in 1 .. k : 1 + i - 1 = i
    BY <1>1
  <2> QED BY <2>2, <2>3
<1>4. /\ rest \in Seq(Data) /\ Len(rest) = m - k /\ \A i \in 1 .. m - k : rest[i] = s[k + i]
  <2> DEFINE j == k + 1
  <2>1. \A i \in j .. m : s[i] \in Data
    BY <1>1, <1>2
  <2>2. j \in Int /\ m \in Int
    BY <1>1
  <2>3. (m - j) + 1 = m - k /\ (\A i \in 1 .. m - k : (j + i) - 1 = k + i)
        /\ (IF j <= m THEN m - k ELSE 0) = m - k
    BY <1>1
  <2> HIDE DEF j
  <2>4. /\ SubSeq(s, j, m) \in Seq(Data)
        /\ Len(SubSeq(s, j, m)) = IF j <= m THEN m - j + 1 ELSE 0
        /\ \A i \in 1 .. m - j + 1 : SubSeq(s, j, m)[i] = s[j + i - 1]
    <3> HIDE DEF m
    <3> QED BY <2>1, <2>2, SubSeqIs
  <2>5. m - j + 1 = m - k /\ \A i \in 1 .. m - k : j + i - 1 = k + i
    BY <1>1, <2>2, <2>3
  <2> QED BY <2>3, <2>4, <2>5, Zenon DEF j
<1>5. new # <<>> /\ m - k \in Nat
  BY <1>1, <1>3
<1> QED BY <1>1, <1>3, <1>4, <1>5

(* The cookie after a write that took all but rest.                        *)
LEMMA SendCookie ==
  ASSUME NEW d \in Pipe, NEW p \in Cookie, CookieSound(d, p), p.write_cookie, NEW rest \in Seq(Data),
         Len(rest) <= Len(p.wbuf)
  PROVE  LET q == [p EXCEPT !.wbuf = rest, !.write_cookie = rest # <<>>,
                            !.R = IF rest = <<>> THEN netbuf_read_wait(p.R, minread(d)) ELSE p.R]
         IN  /\ q \in Cookie /\ CookieSound(d, q) /\ q.status = 1 /\ p.status = 1
             /\ q.pnum = p.pnum /\ q.wbuf = rest
             /\ \A s, f, c, n : Flows(p.R, s, f, c, n) => Flows(q.R, s, f, c, n)
<1> DEFINE W == IF rest = <<>> THEN netbuf_read_wait(p.R, minread(d)) ELSE p.R
           wc == rest # <<>>
           q == [p EXCEPT !.wbuf = rest, !.write_cookie = wc, !.R = W]
<1>1. /\ SoundReader(p.R) /\ p.status = 1 /\ ~Waiting(p.R) /\ Asks(p.R, minread(d))
      /\ Len(p.wbuf) <= OUTBUFSIZE
  BY DEF CookieSound
<1>2. p.R.read_cookie = NoRead /\ p.R.read_cookie.got = <<>>
  <2>1. p.R.read_cookie = NoRead
    BY <1>1, Idles, Zenon
  <2> QED BY <2>1 DEF NoRead
<1>3. minread(d) \in Nat \ {0}
  BY SizesAssumption DEF minread
<1>4. /\ SoundReader(W) /\ Asks(W, minread(d)) /\ Buffered(W) = Buffered(p.R)
      /\ W.read_cookie.got = <<>> /\ (Waiting(W) <=> rest = <<>>)
      /\ \A f, c : Carries(p.R, f, c) => Carries(W, f, c)
  <2>1. CASE rest = <<>>
    <3> DEFINE V == netbuf_read_wait(p.R, minread(d))
    <3>1. /\ SoundReader(V) /\ Waiting(V) /\ Asks(V, minread(d))
          /\ Buffered(V) = Buffered(p.R) /\ V.read_cookie.got = <<>>
          /\ \A f, c : Carries(p.R, f, c) => Carries(V, f, c)
      BY <1>1, <1>3, WaitFacts, Zenon
    <3>2. W = V
      BY <2>1
    <3> HIDE DEF V, W
    <3> QED BY <2>1, <3>1, <3>2, Zenon
  <2>2. CASE rest # <<>>
    <3>1. W = p.R
      BY <2>2
    <3> HIDE DEF W
    <3> QED BY <1>1, <1>2, <2>2, <3>1
  <2> QED BY <2>1, <2>2, Zenon
<1>5. q = [p EXCEPT !.wbuf = rest, !.write_cookie = wc, !.R = W] /\ wc \in BOOLEAN
  OBVIOUS
<1>6. W \in PipeReader
  BY <1>4, Zenon DEF SoundReader
<1> HIDE DEF W, q
<1>7. /\ q \in Cookie /\ q.R = W /\ q.pnum = p.pnum /\ q.wbuf = rest /\ q.status = p.status
      /\ q.write_cookie = wc
  BY <1>5, <1>6, Zenon DEF Cookie
<1>8. Len(rest) <= OUTBUFSIZE
  <2>1. Len(rest) \in Nat /\ Len(p.wbuf) \in Nat
    BY LenNat DEF Cookie
  <2> QED BY <1>1, <2>1, SizesAssumption
<1>9. CookieSound(d, q)
  BY <1>1, <1>4, <1>7, <1>8, Zenon DEF CookieSound
<1>10. \A s, f, c, n : Flows(p.R, s, f, c, n) => Flows(q.R, s, f, c, n)
  BY <1>2, <1>4, <1>7, Zenon DEF Flows
<1> QED BY <1>1, <1>7, <1>9, <1>10 DEF q, W

(* Bytes that are put on the wire are those that come next,                *)
LEMMA EncSends ==
  ASSUME NEW b \in [Nat -> Nat], NEW p \in Cookie, p.status = 1, NEW s, NEW n, NEW w \in Nat, NEW over,
         EncOk(b, p, s, n, w, over), NEW k \in Nat, NEW m \in Nat, Len(p.wbuf) = m + k,
         NEW q, q.status = 1, q.pnum = p.pnum, Len(q.wbuf) = m,
         \A i \in 1 .. m : q.wbuf[i] = p.wbuf[k + i],
         \A f, c : Flows(p.R, s, f, c, n) => Flows(q.R, s, f, c, n)
  PROVE  EncOk(b, q, s, n, w + k, over)
<1> DEFINE e == ESZ * p.pnum
<1>1. /\ Cut(b, p.pnum) /\ b[p.pnum] <= n
      /\ Flows(p.R, s, Plain, b[p.pnum], n)
      /\ w + Len(p.wbuf) = e
      /\ \A i \in 1 .. Len(p.wbuf) : p.wbuf[i] = Wire(b, w + i)
  <2>1. p.status = 1 /\ p.status # -1
    BY ONLY p.status = 1
  <2>2. p.status = 1 => Flows(p.R, s, Plain, b[p.pnum], n)
    BY DEF EncOk
  <2>3. p.status # -1 => w + Len(p.wbuf) = e
    BY DEF EncOk
  <2>4. p.status # -1 => \A i \in 1 .. Len(p.wbuf) : p.wbuf[i] = Wire(b, w + i)
    BY DEF EncOk
  <2>5. Cut(b, p.pnum) /\ b[p.pnum] <= n
    BY DEF EncOk
  <2> HIDE DEF e
  <2> QED BY <2>1, <2>2, <2>3, <2>4, <2>5, Zenon
<1>2. w + (m + k) = e
  BY <1>1
<1> HIDE DEF e
<1>3. (w + k) + m = e /\ w + k <= e
  BY ONLY <1>2, w \in Nat, k \in Nat, m \in Nat
<1>4. ASSUME NEW i \in 1 .. m PROVE q.wbuf[i] = Wire(b, (w + k) + i)
  <2>1. k + i \in 1 .. m + k /\ w + (k + i) = (w + k) + i
    BY i \in 1 .. m
  <2> QED BY <1>1, <2>1, Zenon
<1>5. Flows(q.R, s, Plain, b[q.pnum], n)
  BY <1>1
<1> QED BY <1>1, <1>3, <1>4, <1>5 DEF EncOk, e

(* and the other end gets them.                                            *)
LEMMA DecReceives ==
  ASSUME NEW b \in [Nat -> Nat], NEW p \in Cookie, SoundReader(p.R), NEW s \in Seq(Data), NEW n, NEW w \in Nat, NEW o,
         DecOk(b, p, s, n, w, o, 1), NEW new \in Seq(Data),
         \A i \in 1 .. Len(new) : new[i] = Wire(b, w + i)
  PROVE  DecOk(b, p, s \o new, n, w + Len(new), o, 1)
<1> DEFINE B == Buffered(p.R)
           g == Len(p.R.read_cookie.got)
           c == ESZ * p.pnum
           m == Len(s)
           k == Len(new)
           both == s \o new
<1>1. B \in Nat /\ g \in Nat /\ m \in Nat /\ k \in Nat /\ c \in Nat
  <2>1. p.R \in PipeReader /\ ReaderSound(p.R) /\ p.pnum \in Nat
    BY DEF SoundReader, Cookie
  <2>2. B \in Nat /\ g \in Nat
    BY <2>1, ReaderNumbers, Zenon
  <2>3. m \in Nat /\ k \in Nat
    BY LenNat
  <2>4. c \in Nat
    <3>1. p.pnum \in Nat
      BY <2>1
    <3>2. ESZ \in Nat \ {0}
      BY SizesAssumption
    <3> QED BY <3>1, <3>2, Times, Zenon
  <2> QED BY <2>2, <2>3, <2>4
<1>2. /\ Len(o) <= n /\ (\A i \in 1 .. Len(o) : o[i] = i) /\ p.status # 0
      /\ p.status = 1 => Len(o) + Len(p.wbuf) = b[p.pnum]
      /\ p.status = 1 => \A i \in 1 .. Len(p.wbuf) : p.wbuf[i] = Len(o) + i
  BY Zenon DEF DecOk
<1>3. /\ both \in Seq(Data) /\ Len(both) = m + k
      /\ \A i \in 1 .. m + k : both[i] = IF i <= m THEN s[i] ELSE new[i - m]
  BY ConcatIs
<1>4. \A i \in 1 .. k : new[i] = Wire(b, w + i)
  OBVIOUS
<1>5. ASSUME p.status = 1 PROVE Flows(p.R, both, Coded(b), c, w + k)
  <2>1. Flows(p.R, s, Coded(b), c, w)
    BY <1>5 DEF DecOk
  <2>2. /\ Carries(p.R, Coded(b), c) /\ c + B + g + m = w
        /\ \A i \in 1 .. m : s[i] \in Coded(b)[c + B + g + i]
    BY <2>1, Zenon DEF Flows
  <2> HIDE DEF B, g, c, m, k, both
  <2>3. c + B + g + (m + k) = w + k
    <3>1. c \in Int /\ B \in Int /\ g \in Int /\ m \in Int /\ k \in Int /\ w \in Int
      BY <1>1
    <3>2. c + B + g + m = w
      BY <2>2
    <3> QED BY ONLY <3>1, <3>2
  <2>4. ASSUME NEW i \in 1 .. m + k PROVE both[i] \in Coded(b)[c + B + g + i]
    <3>1. i \in Nat
      BY <1>1
    <3>2. CASE i <= m
      <4>1. i \in 1 .. m
        BY <1>1, <3>2
      <4> QED BY <1>3, <2>2, <3>2, <4>1, Zenon
    <3>3. CASE ~(i <= m)
      <4> DEFINE j == i - m
                 h == c + B + g + i
      <4>1. j \in 1 .. k /\ w + j = h /\ h \in Nat
        <5>1. c \in Nat /\ B \in Nat /\ g \in Nat /\ m \in Nat /\ k \in Nat /\ w \in Nat
              /\ i \in Nat /\ 1 <= i /\ i <= m + k /\ ~(i <= m)
          BY <1>1, <3>1, <3>3
        <5>2. c + B + g + m = w
          BY <2>2
        <5> QED BY ONLY <5>1, <5>2
      <4>2. both[i] = new[j]
        BY <1>3, <3>3
      <4> HIDE DEF j, h
      <4>3. both[i] = Wire(b, h)
        BY <1>4, <4>1, <4>2, Zenon
      <4>4. both[i] \in Coded(b)[h]
        BY <4>1, <4>3 DEF Coded
      <4> QED BY <4>4 DEF h
    <3> QED BY <3>2, <3>3
  <2> QED BY <1>3, <2>2, <2>3, <2>4 DEF Flows, B, g
<1> HIDE DEF both, k
<1>6. DecOk(b, p, both, n, w + k, o, 1)
  BY <1>2, <1>5 DEF DecOk
<1> QED BY <1>6 DEF both, k

(* Bytes that are put out are those that come next.                        *)
LEMMA DecSends ==
  ASSUME NEW b \in [Nat -> Nat], NEW p \in Cookie, p.status = 1, NEW s, NEW n \in Nat, NEW w, NEW es,
         NEW o \in Seq(Data), DecOk(b, p, s, n, w, o, es), b[p.pnum] <= n,
         NEW new \in Seq(Data), NEW m \in Nat, Len(p.wbuf) = m + Len(new),
         \A i \in 1 .. Len(new) : new[i] = p.wbuf[i],
         NEW q, q.status = 1, q.pnum = p.pnum, Len(q.wbuf) = m,
         \A i \in 1 .. m : q.wbuf[i] = p.wbuf[Len(new) + i],
         \A f, c : Flows(p.R, s, f, c, w) => Flows(q.R, s, f, c, w)
  PROVE  DecOk(b, q, s, n, w, o \o new, es)
<1> DEFINE k == Len(new)
           l == Len(o)
           both == o \o new
           e == b[p.pnum]
<1>1. k \in Nat /\ l \in Nat /\ e \in Nat
  <2>1. p.pnum \in Nat
    BY Zenon DEF Cookie
  <2> QED BY <2>1, LenNat, Zenon
<1>2. /\ Flows(p.R, s, Coded(b), ESZ * p.pnum, w)
      /\ (\A i \in 1 .. l : o[i] = i)
      /\ l + Len(p.wbuf) = e
      /\ \A i \in 1 .. Len(p.wbuf) : p.wbuf[i] = l + i
  BY Zenon DEF DecOk
<1>3. /\ both \in Seq(Data) /\ Len(both) = l + k
      /\ \A i \in 1 .. l + k : both[i] = IF i <= l THEN o[i] ELSE new[i - l]
  BY ConcatIs, Zenon
<1>4. /\ Len(p.wbuf) = m + k /\ e <= n
      /\ (\A i \in 1 .. k : new[i] = p.wbuf[i])
      /\ \A i \in 1 .. m : q.wbuf[i] = p.wbuf[k + i]
  OBVIOUS
<1> HIDE DEF k, l, both, e
<1>5. l + (m + k) = e
  BY <1>2, <1>4
<1>6. (l + k) + m = e /\ l + k <= n
  <2>1. (l + k) + m = e
    BY <1>1, <1>5
  <2>2. e <= n
    BY <1>4
  <2>3. \A x, y, z \in Nat : x + y = z => x <= z
    BY ONLY TRUE
  <2>4. l + k \in Nat /\ m \in Nat
    BY ONLY <1>1, m \in Nat
  <2>5. l + k <= e
    BY <1>1, <2>1, <2>3, <2>4, Zenon
  <2>6. l + k <= n
    BY ONLY <1>1, <2>2, <2>5, n \in Nat
  <2> QED BY <2>1, <2>6, Zenon
<1>7. \A i \in 1 .. l + k : both[i] = i
  <2> TAKE i \in 1 .. l + k
  <2>1. CASE i <= l
    <3>1. i \in 1 .. l
      BY <1>1, <2>1
    <3> QED BY <1>2, <1>3, <2>1, <3>1, Zenon
  <2>2. CASE ~(i <= l)
    <3> DEFINE j == i - l
    <3>1. j \in 1 .. k /\ j \in 1 .. m + k /\ l + j = i
      BY <1>1, <2>2
    <3>2. both[i] = new[j]
      BY <1>3, <2>2
    <3> HIDE DEF j
    <3> QED BY <1>2, <1>4, <3>1, <3>2, Zenon
  <2> QED BY <2>1, <2>2
<1>8. \A i \in 1 .. m : q.wbuf[i] = (l + k) + i
  <2> TAKE i \in 1 .. m
  <2> DEFINE j == k + i
  <2>1. j \in 1 .. m + k /\ l + j = (l + k) + i
    <3>1. i \in Nat /\ 1 <= i /\ i <= m
      BY <1>1
    <3> QED BY ONLY <1>1, <3>1, m \in Nat
  <2>2. q.wbuf[i] = p.wbuf[j]
    BY <1>4, Zenon
  <2> HIDE DEF j
  <2> QED BY <1>2, <1>4, <2>1, <2>2
<1>9. Flows(q.R, s, Coded(b), ESZ * q.pnum, w)
  BY <1>2
<1>10. DecOk(b, q, s, n, w, both, es)
  BY <1>3, <1>6, <1>7, <1>8, <1>9 DEF DecOk, e
<1> QED BY <1>10 DEF both

(* Every write is of that kind.                                            *)
LEMMA SendSplit ==
  ASSUME NEW b \in [Nat -> Nat], StreamInv(b), NEW d \in Pipe, Send(d)
  PROVE  \E new \in Seq(Data), m \in Nat, q \in Cookie :
            /\ P[d].status = 1 /\ q.status = 1 /\ q.pnum = P[d].pnum /\ CookieSound(d, q)
            /\ P' = [P EXCEPT ![d] = q] /\ Delivered(d, new)
            /\ Len(new) \in Nat \ {0} /\ Len(P[d].wbuf) = m + Len(new) /\ Len(q.wbuf) = m
            /\ \A i \in 1 .. Len(new) : new[i] = P[d].wbuf[i]
            /\ \A i \in 1 .. m : q.wbuf[i] = P[d].wbuf[Len(new) + i]
            /\ \A s, f, c, n : Flows(P[d].R, s, f, c, n) => Flows(q.R, s, f, c, n)
<1> DEFINE p == P[d]
           s == p.wbuf
<1>1. P \in [Pipe -> Cookie] /\ p \in Cookie /\ CookieSound(d, p)
  BY Parts, Zenon
<1>2. p.write_cookie /\ s \in Seq(Data)
  BY <1>1, Zenon DEF Send, Cookie
<1>3. PICK k \in 1 .. Len(s) :
          LET rest == SubSeq(s, k + 1, Len(s))
          IN  /\ Delivered(d, SubSeq(s, 1, k))
              /\ P' = [P EXCEPT ![d].wbuf = rest, ![d].write_cookie = rest # <<>>,
                                ![d].R = IF rest = <<>>
                                         THEN netbuf_read_wait(@, minread(d)) ELSE @]
  BY Zenon DEF Send
<1> DEFINE new == SubSeq(s, 1, k)
           rest == SubSeq(s, k + 1, Len(s))
           m == Len(s) - k
           q == [p EXCEPT !.wbuf = rest, !.write_cookie = rest # <<>>,
                          !.R = IF rest = <<>> THEN netbuf_read_wait(p.R, minread(d)) ELSE p.R]
<1>4. /\ k \in Nat /\ new \in Seq(Data) /\ Len(new) = k
      /\ \A i \in 1 .. k : new[i] = s[i]
      /\ rest \in Seq(Data) /\ Len(rest) = m /\ m \in Nat
      /\ \A i \in 1 .. m : rest[i] = s[k + i]
  <2> HIDE DEF s
  <2> QED BY <1>2, <1>3, Split, Zenon
<1>5. P' = [P EXCEPT ![d] = q]
  <2> HIDE DEF rest
  <2>1. P' = [P EXCEPT ![d].wbuf = rest, ![d].write_cookie = rest # <<>>,
                       ![d].R = IF rest = <<>> THEN netbuf_read_wait(@, minread(d)) ELSE @]
    BY <1>3, Zenon DEF rest
  <2> QED BY <1>1, <2>1, Zenon DEF Cookie
<1>6. Delivered(d, new) /\ k # 0
  <2>1. Delivered(d, new)
    BY <1>3, Zenon
  <2>2. k # 0
    <3> HIDE DEF s
    <3> QED OBVIOUS
  <2> QED BY <2>1, <2>2
<1>7. Len(s) = m + k /\ Len(rest) <= Len(s)
  <2>1. Len(s) \in Nat
    BY <1>2, LenNat
  <2> DEFINE h == Len(s)
  <2> HIDE DEF h
  <2>2. h \in Nat /\ Len(rest) = h - k /\ h - k \in Nat
    BY <1>4, <2>1 DEF h
  <2>3. h = (h - k) + k /\ h - k <= h
    BY <1>4, <2>2
  <2> QED BY <2>2, <2>3, Zenon DEF h
<1> HIDE DEF new, rest, m
<1>8. /\ q \in Cookie /\ CookieSound(d, q) /\ q.status = 1 /\ p.status = 1
      /\ q.pnum = p.pnum /\ q.wbuf = rest
      /\ \A u, f, c, n : Flows(p.R, u, f, c, n) => Flows(q.R, u, f, c, n)
  <2>1. Len(rest) <= Len(p.wbuf) /\ p.write_cookie /\ rest \in Seq(Data)
    BY <1>2, <1>4, <1>7
  <2> HIDE DEF p
  <2> QED BY <1>1, <2>1, SendCookie, Zenon
<1> HIDE DEF q
<1>9. /\ Len(new) \in Nat \ {0} /\ Len(p.wbuf) = m + Len(new) /\ Len(q.wbuf) = m
      /\ \A i \in 1 .. Len(new) : new[i] = p.wbuf[i]
      /\ \A i \in 1 .. m : q.wbuf[i] = p.wbuf[Len(new) + i]
  BY <1>4, <1>6, <1>7, <1>8
<1>10. new \in Seq(Data) /\ m \in Nat /\ q \in Cookie
  BY <1>4, <1>8
<1> USE <1>10
<1> WITNESS new \in Seq(Data), m \in Nat, q \in Cookie
<1> QED BY <1>5, <1>6, <1>8, <1>9, Zenon

(* A write of the pipe that encrypts,                                      *)
LEMMA SendEncStep ==
  ASSUME NEW b \in [Nat -> Nat], StreamInv(b), Send("enc")
  PROVE  StreamInv(b)'
<1> DEFINE p == P["enc"]
<1>1. "enc" \in Pipe
  BY DEF Pipe
<1>2. PICK new \in Seq(Data), m \in Nat, q \in Cookie :
            /\ p.status = 1 /\ q.status = 1 /\ q.pnum = p.pnum /\ CookieSound("enc", q)
            /\ P' = [P EXCEPT !["enc"] = q] /\ Delivered("enc", new)
            /\ Len(new) \in Nat \ {0} /\ Len(p.wbuf) = m + Len(new) /\ Len(q.wbuf) = m
            /\ \A i \in 1 .. Len(new) : new[i] = p.wbuf[i]
            /\ \A i \in 1 .. m : q.wbuf[i] = p.wbuf[Len(new) + i]
            /\ \A s, f, c, n : Flows(p.R, s, f, c, n) => Flows(q.R, s, f, c, n)
  BY <1>1, SendSplit, Zenon
<1>3. /\ P \in [Pipe -> Cookie] /\ sock \in [Pipe -> Seq(Data)] /\ sent \in Nat /\ wired \in Nat
      /\ closed \in BOOLEAN /\ out \in Seq(Data) /\ CookieSound("dec", P["dec"])
      /\ P["dec"] \in Cookie /\ SoundReader(P["dec"].R) /\ sock["dec"] \in Seq(Data)
      /\ p \in Cookie
      /\ EncOk(b, p, sock["enc"], sent, wired, closed)
      /\ DecOk(b, P["dec"], sock["dec"], sent, wired, out, p.status)
  BY Parts DEF Pipe
<1> DEFINE k == Len(new)
           s == sock["enc"]
           t == sock["dec"]
           pd == P["dec"]
<1>4. /\ sock' = [sock EXCEPT !["dec"] = t \o new] /\ wired' = wired + k /\ out' = out
      /\ UNCHANGED <<sent, closed>> /\ k \in Nat /\ t \o new \in Seq(Data)
  <2>1. Delivered("enc", new)
    BY <1>2
  <2>2. sock' = [sock EXCEPT !["dec"] = t \o new] /\ wired' = wired + k /\ out' = out
    BY <2>1, Zenon DEF Delivered
  <2>3. UNCHANGED <<sent, closed>>
    BY Zenon DEF Send
  <2>4. k \in Nat /\ t \o new \in Seq(Data)
    BY <1>3, ConcatIs, LenNat
  <2> QED BY <2>2, <2>3, <2>4
<1>5. /\ P' \in [Pipe -> Cookie] /\ P'["enc"] = q /\ P'["dec"] = pd
      /\ sock' \in [Pipe -> Seq(Data)] /\ sock'["enc"] = s /\ sock'["dec"] = t \o new
  BY <1>2, <1>3, <1>4, Zenon DEF Pipe
<1>6. PipeTypes'
  <2>1. sent' \in Nat /\ closed' \in BOOLEAN /\ out' \in Seq(Data)
    BY <1>3, <1>4
  <2>2. wired' \in Nat
    <3> HIDE DEF k
    <3> QED BY <1>3, <1>4
  <2> QED BY <1>5, <2>1, <2>2, Zenon DEF PipeTypes
<1>7. \A d \in Pipe : CookieSound(d, P'[d])
  BY <1>2, <1>3, <1>5, Zenon DEF Pipe
<1>8. EncOk(b, q, s, sent, wired + k, closed)
  <2>1. /\ p \in Cookie /\ p.status = 1 /\ EncOk(b, p, s, sent, wired, closed) /\ k \in Nat
        /\ Len(p.wbuf) = m + k /\ q.status = 1 /\ q.pnum = p.pnum /\ Len(q.wbuf) = m
        /\ \A i \in 1 .. m : q.wbuf[i] = p.wbuf[k + i]
        /\ \A f, c : Flows(p.R, s, f, c, sent) => Flows(q.R, s, f, c, sent)
    BY <1>2, <1>3, <1>4, Zenon
  <2> HIDE DEF p, s, k
  <2> QED BY <1>3, <2>1, EncSends, Zenon
<1>9. DecOk(b, pd, t \o new, sent, wired + k, out, 1)
  <2>1. DecOk(b, pd, t, sent, wired, out, 1)
    BY <1>2, <1>3, Zenon
  <2>2. ASSUME NEW i \in 1 .. k PROVE new[i] = Wire(b, wired + i)
    <3>1. new[i] = p.wbuf[i]
      BY <1>2, Zenon
    <3>2. i \in 1 .. Len(p.wbuf)
      <4>1. Len(p.wbuf) = m + k
        BY <1>2
      <4> HIDE DEF k
      <4> QED BY <1>4, <4>1
    <3>3. \A j \in 1 .. Len(p.wbuf) : p.wbuf[j] = Wire(b, wired + j)
      <4>1. p.status # -1
        BY <1>2
      <4> QED BY <1>3, <4>1, Zenon DEF EncOk
    <3> QED BY <3>1, <3>2, <3>3
  <2>3. pd \in Cookie /\ SoundReader(pd.R) /\ t \in Seq(Data) /\ wired \in Nat
    BY <1>3, Zenon
  <2>4. \A i \in 1 .. Len(new) : new[i] = Wire(b, wired + i)
    BY <2>2
  <2> HIDE DEF pd, t
  <2> QED BY <2>1, <2>3, <2>4, DecReceives, Zenon
<1>10. EncOk(b, P'["enc"], sock'["enc"], sent', wired', closed')
  BY <1>4, <1>5, <1>8
<1>11. DecOk(b, P'["dec"], sock'["dec"], sent', wired', out', P'["enc"].status)
  BY <1>2, <1>4, <1>5, <1>9, Zenon
<1> QED BY <1>6, <1>7, <1>10, <1>11, Zenon DEF StreamInv

(* The other end has not taken more than was sent.                         *)
LEMMA DecBehind ==
  ASSUME NEW b \in [Nat -> Nat], StreamInv(b), P["dec"].status = 1
  PROVE  b[P["dec"].pnum] <= sent
<1> DEFINE x == P["dec"].pnum
           y == P["enc"].pnum
<1>1. /\ x \in Nat /\ y \in Nat /\ sent \in Nat /\ wired \in Nat /\ "dec" \in Pipe
      /\ SoundReader(P["dec"].R) /\ sock["dec"] \in Seq(Data)
      /\ EncOk(b, P["enc"], sock["enc"], sent, wired, closed)
      /\ DecOk(b, P["dec"], sock["dec"], sent, wired, out, P["enc"].status)
  BY Parts DEF Pipe
<1>2. Cut(b, y) /\ b[y] <= sent /\ wired <= ESZ * y
  BY <1>1 DEF EncOk
<1>3. x <= y
  <2> DEFINE R == P["dec"].R
             B == Buffered(R)
             g == Len(R.read_cookie.got)
             l == Len(sock["dec"])
             u == ESZ * x
             v == ESZ * y
  <2>1. u + B + g + l = wired
    BY <1>1 DEF DecOk, Flows
  <2>2. B \in Nat /\ g \in Nat
    <3>1. R \in PipeReader /\ ReaderSound(R)
      BY <1>1 DEF SoundReader
    <3> QED BY <3>1, ReaderNumbers, Zenon
  <2>3. l \in Nat
    BY <1>1, LenNat
  <2> HIDE DEF x, y
  <2>4. u \in Nat /\ v \in Nat
    <3>1. ESZ \in Nat \ {0}
      BY SizesAssumption
    <3> QED BY <1>1, <3>1, Times
  <2>5. wired <= v
    BY <1>2
  <2> HIDE DEF B, g, l, u, v, R
  <2>6. u <= v
    BY <1>1, <2>1, <2>2, <2>3, <2>4, <2>5
  <2>7. ESZ * x <= ESZ * y /\ ESZ \in Nat \ {0}
    BY <2>6, SizesAssumption DEF u, v
  <2> QED BY <1>1, <2>7, Times
<1> HIDE DEF x, y
<1>4. b[x] <= b[y]
  <2>1. x \in 0 .. y
    BY <1>1, <1>3
  <2> QED BY <1>1, <1>2, <2>1, CutGrows, Zenon
<1>5. b[x] \in Nat /\ b[y] \in Nat
  BY <1>1, Zenon
<1>6. b[x] <= sent
  BY <1>1, <1>2, <1>4, <1>5
<1> QED BY <1>6 DEF x

(* and one of the pipe that decrypts.                                      *)
LEMMA SendDecStep ==
  ASSUME NEW b \in [Nat -> Nat], StreamInv(b), Send("dec")
  PROVE  StreamInv(b)'
<1> DEFINE p == P["dec"]
           s2 == sock["dec"]
           es == P["enc"].status
<1>1. "dec" \in Pipe /\ "dec" # "enc"
  BY DEF Pipe
<1>2. PICK new \in Seq(Data), m \in Nat, q \in Cookie :
            /\ p.status = 1 /\ q.status = 1 /\ q.pnum = p.pnum /\ CookieSound("dec", q)
            /\ P' = [P EXCEPT !["dec"] = q] /\ Delivered("dec", new)
            /\ Len(new) \in Nat \ {0} /\ Len(p.wbuf) = m + Len(new) /\ Len(q.wbuf) = m
            /\ \A i \in 1 .. Len(new) : new[i] = p.wbuf[i]
            /\ \A i \in 1 .. m : q.wbuf[i] = p.wbuf[Len(new) + i]
            /\ \A s, f, c, n : Flows(p.R, s, f, c, n) => Flows(q.R, s, f, c, n)
  BY <1>1, SendSplit, Zenon
<1>3. /\ p \in Cookie /\ sent \in Nat /\ out \in Seq(Data) /\ sock \in [Pipe -> Seq(Data)]
      /\ s2 \in Seq(Data) /\ DecOk(b, p, s2, sent, wired, out, es)
  BY Parts DEF Pipe
<1>4. out' = out \o new /\ UNCHANGED <<sent, closed, wired>> /\ sock' = [sock EXCEPT !["dec"] = s2]
      /\ out' \in Seq(Data)
  <2>1. Delivered("dec", new)
    BY <1>2
  <2>2. out' = out \o new /\ UNCHANGED <<sent, closed, wired, sock>>
    BY <1>1, <2>1, Zenon DEF Delivered, Send
  <2> QED BY <1>3, <2>2
<1>5. b[p.pnum] <= sent
  BY <1>2, DecBehind, Zenon
<1>6. DecOk(b, q, s2, sent, wired, out \o new, es)
  <2>1. /\ p \in Cookie /\ p.status = 1 /\ DecOk(b, p, s2, sent, wired, out, es)
        /\ b[p.pnum] <= sent
        /\ Len(p.wbuf) = m + Len(new) /\ q.status = 1 /\ q.pnum = p.pnum /\ Len(q.wbuf) = m
        /\ \A i \in 1 .. Len(new) : new[i] = p.wbuf[i]
        /\ \A i \in 1 .. m : q.wbuf[i] = p.wbuf[Len(new) + i]
        /\ \A f, c : Flows(p.R, s2, f, c, wired) => Flows(q.R, s2, f, c, wired)
    BY <1>2, <1>3, <1>5, Zenon
  <2> HIDE DEF p, s2, es
  <2> QED BY <1>3, <2>1, DecSends, Zenon
<1>7. DecOk(b, q, s2, sent, wired, out', es) /\ CookieSound("dec", q) /\ P' = [P EXCEPT !["dec"] = q]
  BY <1>2, <1>4, <1>6
<1> HIDE DEF s2, p
<1> QED BY <1>3, <1>4, <1>7, DecMoves, Zenon DEF es

(* The source writes a byte,                                               *)
LEMMA FlowsAppend ==
  ASSUME NEW R, SoundReader(R), NEW s \in Seq(Data), NEW f, NEW c \in Nat, NEW n \in Nat,
         Flows(R, s, f, c, n), NEW x \in Data, x \in f[n + 1]
  PROVE  Flows(R, Append(s, x), f, c, n + 1)
<1> DEFINE B == Buffered(R)
           g == Len(R.read_cookie.got)
           m == Len(s)
           t == Append(s, x)
<1>1. B \in Nat /\ g \in Nat /\ m \in Nat
  <2>1. R \in PipeReader /\ ReaderSound(R)
    BY DEF SoundReader
  <2> QED BY <2>1, ReaderNumbers, LenNat, Zenon
<1>2. /\ Carries(R, f, c) /\ c + B + g + m = n
      /\ \A i \in 1 .. m : s[i] \in f[c + B + g + i]
  BY Zenon DEF Flows
<1>3. Len(t) = m + 1 /\ t[m + 1] = x /\ \A i \in 1 .. m : t[i] = s[i]
  BY AppendIs
<1> HIDE DEF B, g, m, t
<1>4. c + B + g + (m + 1) = n + 1
  BY <1>1, <1>2
<1>5. ASSUME NEW i \in 1 .. m + 1 PROVE t[i] \in f[c + B + g + i]
  <2>1. CASE i = m + 1
    BY <1>3, <1>4, <2>1
  <2>2. CASE i # m + 1
    <3>1. i \in 1 .. m
      BY <1>1, <2>2
    <3> QED BY <1>2, <1>3, <3>1
  <2> QED BY <2>1, <2>2
<1>6. Flows(R, t, f, c, n + 1)
  BY <1>2, <1>3, <1>4, <1>5 DEF Flows, B, g
<1> QED BY <1>6 DEF t

(* which the pipe has still to read.                                       *)
LEMMA EncGrows ==
  ASSUME NEW b \in [Nat -> Nat], NEW p \in Cookie, SoundReader(p.R), NEW s \in Seq(Data),
         NEW n \in Nat, NEW w, EncOk(b, p, s, n, w, FALSE)
  PROVE  EncOk(b, p, Append(s, n + 1), n + 1, w, FALSE)
<1>1. /\ Cut(b, p.pnum) /\ b[p.pnum] <= n /\ w <= ESZ * p.pnum /\ p.status # 0
      /\ p.status # -1 => w + Len(p.wbuf) = ESZ * p.pnum
      /\ p.status # -1 => \A i \in 1 .. Len(p.wbuf) : p.wbuf[i] = Wire(b, w + i)
  BY DEF EncOk
<1> DEFINE c == b[p.pnum]
           x == n + 1
<1>2. c \in Nat
  <2>1. p.pnum \in Nat
    BY DEF Cookie
  <2> QED BY <2>1
<1>3. x \in Data /\ x \in Plain[n + 1]
  BY DEF Data, Plain
<1>4. ASSUME p.status = 1 PROVE Flows(p.R, Append(s, x), Plain, c, n + 1)
  <2>1. Flows(p.R, s, Plain, c, n)
    BY <1>4 DEF EncOk
  <2> HIDE DEF c, x
  <2> QED BY <1>2, <1>3, <2>1, FlowsAppend, Zenon
<1>5. c <= n + 1
  <2>1. c <= n
    BY <1>1
  <2> HIDE DEF c
  <2> QED BY <1>2, <2>1
<1> QED BY <1>1, <1>4, <1>5 DEF EncOk

(* The steps of the world: a byte,                                         *)
LEMMA SourceWritesStep ==
  ASSUME NEW b \in [Nat -> Nat], StreamInv(b), SourceWrites
  PROVE  StreamInv(b)'
<1> DEFINE p == P["enc"]
           s == sock["enc"]
           n == sent + 1
<1>1. /\ sock \in [Pipe -> Seq(Data)] /\ sent \in Nat /\ wired \in Nat
      /\ closed \in BOOLEAN /\ out \in Seq(Data) /\ P \in [Pipe -> Cookie]
      /\ SoundReader(p.R) /\ s \in Seq(Data) /\ p \in Cookie
      /\ EncOk(b, p, s, sent, wired, closed)
      /\ DecOk(b, P["dec"], sock["dec"], sent, wired, out, P["enc"].status)
  BY Parts DEF Pipe
<1>2. /\ closed = FALSE /\ sent' = n /\ sock' = [sock EXCEPT !["enc"] = Append(s, n)]
      /\ UNCHANGED <<P, closed, wired, out>>
  BY <1>1 DEF SourceWrites
<1>3. n \in Nat /\ n \in Data
  BY <1>1 DEF Data
<1>4. Append(s, n) \in Seq(Data)
  BY <1>1, <1>3
<1>5. /\ sock' \in [Pipe -> Seq(Data)] /\ sock'["enc"] = Append(s, n)
      /\ sock'["dec"] = sock["dec"]
  BY <1>1, <1>2, <1>4, Zenon DEF Pipe
<1>6. EncOk(b, p, Append(s, n), n, wired, closed)
  <2>1. EncOk(b, p, s, sent, wired, FALSE)
    BY <1>1, <1>2, Zenon
  <2> HIDE DEF p, s
  <2> QED BY <1>1, <1>2, <2>1, EncGrows, Zenon
<1>7. DecOk(b, P["dec"], sock["dec"], n, wired, out, P["enc"].status)
  <2>1. Len(out) <= n
    <3>1. Len(out) <= sent
      BY <1>1 DEF DecOk
    <3>2. Len(out) \in Nat
      BY <1>1, LenNat
    <3> QED BY <1>1, <3>1, <3>2
  <2> HIDE DEF n
  <2> QED BY <1>1, <2>1, Zenon DEF DecOk
<1>8. PipeTypes'
  BY <1>1, <1>2, <1>3, <1>5, Zenon DEF PipeTypes
<1>9. \A d \in Pipe : CookieSound(d, P'[d])
  BY <1>2, Parts
<1> QED BY <1>2, <1>5, <1>6, <1>7, <1>8, <1>9 DEF StreamInv

(* the end of the source,                                                  *)
LEMMA SourceClosesStep ==
  ASSUME NEW b \in [Nat -> Nat], StreamInv(b), SourceCloses
  PROVE  StreamInv(b)'
<1>1. closed' = TRUE /\ UNCHANGED <<P, sock, sent, wired, out>>
  BY DEF SourceCloses
<1>2. PipeTypes'
  BY <1>1, Zenon DEF StreamInv, PipeTypes
<1>3. EncOk(b, P["enc"], sock["enc"], sent, wired, TRUE)
  <2>1. EncOk(b, P["enc"], sock["enc"], sent, wired, closed)
    BY Parts
  <2> QED BY <2>1 DEF EncOk
<1> QED BY <1>1, <1>2, <1>3, Zenon DEF StreamInv

(* and damage to a byte on the wire.                                       *)
LEMMA DamageStep ==
  ASSUME NEW b \in [Nat -> Nat], StreamInv(b), Damage
  PROVE  StreamInv(b)'
<1> DEFINE s == sock["dec"]
           t == [s EXCEPT ![Len(s)] = Garbage]
           p == P["dec"]
<1>1. /\ sock \in [Pipe -> Seq(Data)] /\ sent \in Nat /\ wired \in Nat
      /\ closed \in BOOLEAN /\ out \in Seq(Data) /\ P \in [Pipe -> Cookie]
      /\ s \in Seq(Data) /\ p \in Cookie /\ SoundReader(p.R)
      /\ EncOk(b, P["enc"], sock["enc"], sent, wired, closed)
      /\ DecOk(b, p, s, sent, wired, out, P["enc"].status)
  BY Parts DEF Pipe
<1>2. s # <<>> /\ sock' = [sock EXCEPT !["dec"] = t] /\ UNCHANGED <<P, sent, closed, wired, out>>
  BY <1>1 DEF Damage, Garbage, Pipe
<1>3. Garbage \in Data
  BY DEF Garbage, Data, PacketByte
<1>4. t \in Seq(Data) /\ Len(t) = Len(s) /\ \A i \in 1 .. Len(s) : t[i] \in {s[i], Garbage}
  <2> HIDE DEF s
  <2>1. Len(s) \in 1 .. Len(s)
    BY <1>1, <1>2, EmptyIs, LenNat
  <2> QED BY <1>1, <1>3, <2>1, ExceptIs
<1>5. sock' \in [Pipe -> Seq(Data)] /\ sock'["dec"] = t /\ sock'["enc"] = sock["enc"]
  <2> HIDE DEF t
  <2> QED BY <1>1, <1>2, <1>4 DEF Pipe
<1>6. ASSUME p.status = 1 PROVE Flows(p.R, t, Coded(b), ESZ * p.pnum, wired)
  <2> DEFINE B == Buffered(p.R)
             g == Len(p.R.read_cookie.got)
             c == ESZ * p.pnum
             l == Len(s)
  <2>1. /\ Carries(p.R, Coded(b), c) /\ c + B + g + l = wired
        /\ \A i \in 1 .. l : s[i] \in Coded(b)[c + B + g + i]
    BY <1>1, <1>6 DEF DecOk, Flows
  <2>2. c \in Nat /\ B \in Nat /\ g \in Nat
    <3>1. p.pnum \in Nat /\ p.R \in PipeReader /\ ReaderSound(p.R)
      BY <1>1, Zenon DEF Cookie, SoundReader
    <3>2. B \in Nat /\ g \in Nat
      BY <3>1, ReaderNumbers, Zenon
    <3>3. ESZ \in Nat \ {0} /\ p.pnum \in Nat
      BY <3>1, SizesAssumption
    <3>4. c \in Nat
      BY <3>3, Times
    <3> QED BY <3>2, <3>4
  <2> HIDE DEF B, g, c, l, t
  <2>3. ASSUME NEW i \in 1 .. l PROVE t[i] \in Coded(b)[c + B + g + i]
    <3> DEFINE j == c + B + g + i
    <3>1. j \in Nat
      <4>1. i \in Nat
        OBVIOUS
      <4> QED BY <2>2, <4>1
    <3>2. s[i] \in Coded(b)[j]
      BY <2>1
    <3>3. t[i] = s[i] \/ t[i] = Garbage
      BY <1>4 DEF l
    <3> HIDE DEF j
    <3>4. Garbage \in Coded(b)[j]
      BY <3>1 DEF Coded
    <3>5. t[i] \in Coded(b)[j]
      BY <3>2, <3>3, <3>4
    <3> QED BY <3>5 DEF j
  <2>4. Len(t) = l
    BY <1>4 DEF l
  <2>5. Flows(p.R, t, Coded(b), c, wired)
    BY <2>1, <2>3, <2>4 DEF Flows, B, g
  <2> QED BY <2>5 DEF c
<1> HIDE DEF t
<1>7. DecOk(b, p, t, sent, wired, out, P["enc"].status)
  BY <1>1, <1>6, Zenon DEF DecOk
<1>8. PipeTypes'
  BY <1>1, <1>2, <1>5, Zenon DEF PipeTypes
<1>9. \A d \in Pipe : CookieSound(d, P'[d])
  BY <1>2, Parts
<1> QED BY <1>1, <1>2, <1>5, <1>7, <1>8, <1>9 DEF StreamInv

(* Nothing was sent.                                                       *)
LEMMA PipeStarts ==
  ASSUME Init
  PROVE  PipeInv
<1> DEFINE R0 == netbuf_read_init
           b == [k \in Nat |-> 0]
<1>1. /\ SoundReader(R0) /\ ~Waiting(R0) /\ Buffered(R0) = 0 /\ R0.read_cookie.got = <<>>
      /\ \A f, c : Carries(R0, f, c)
  <2>1. R0 \in PipeReader /\ Quiet(R0) /\ ~Waiting(R0) /\ R0.read_cookie.got = <<>>
    BY NetbufAssumption, SMTT(30) DEF netbuf_read_init, NoRead, PipeReader, Quiet, Waiting
  <2>2. Buffered(R0) = 0 /\ Len(R0.read_cookie.got) = 0
    <3>1. R0.buf = <<>> /\ R0.bufpos = 0
      BY ONLY TRUE DEF netbuf_read_init
    <3>2. Len(<<>>) = 0 /\ 0 - 0 = 0
      BY ONLY TRUE
    <3> HIDE DEF R0
    <3> QED BY <2>1, <3>1, <3>2, Zenon DEF Buffered
  <2>3. ReaderSound(R0)
    BY NetbufAssumption, <2>1, <2>2 DEF ReaderSound, netbuf_read_init, NoRead, Buffered
  <2>4. ASSUME NEW f, NEW c PROVE Carries(R0, f, c)
    <3> HIDE DEF R0
    <3>1. 1 .. 0 = {}
      OBVIOUS
    <3> QED BY <2>2, <3>1 DEF Carries
  <2> QED BY <2>1, <2>2, <2>3, <2>4 DEF SoundReader
<1> HIDE DEF R0
<1>2. \A d \in Pipe : minread(d) \in Nat \ {0}
  BY SizesAssumption DEF minread
<1>3. ASSUME NEW d \in Pipe
      PROVE  /\ P[d] \in Cookie /\ CookieSound(d, P[d]) /\ P[d].pnum = 0 /\ P[d].status = 1
             /\ P[d].wbuf = <<>> /\ \A f : Flows(P[d].R, <<>>, f, 0, 0)
  <2> DEFINE W == netbuf_read_wait(R0, minread(d))
  <2>1. /\ SoundReader(W) /\ Waiting(W) /\ Asks(W, minread(d))
        /\ Buffered(W) = Buffered(R0) /\ W.read_cookie.got = <<>>
        /\ \A f, c : Carries(R0, f, c) => Carries(W, f, c)
    BY <1>1, <1>2, WaitFacts, Zenon
  <2>2. P[d] = [R |-> W, pnum |-> 0, write_cookie |-> FALSE, wbuf |-> <<>>, status |-> 1]
    BY DEF Init, proto_pipe, R0
  <2> HIDE DEF W
  <2>3. W \in PipeReader
    BY <2>1 DEF SoundReader
  <2>4. P[d] \in Cookie
    BY <2>2, <2>3, SMTT(30) DEF Cookie
  <2>5. /\ P[d].R = W /\ P[d].pnum = 0 /\ P[d].write_cookie = FALSE /\ P[d].wbuf = <<>>
        /\ P[d].status = 1 /\ Len(P[d].wbuf) = 0
    BY <2>2
  <2>6. CookieSound(d, P[d])
    <3>1. 0 <= OUTBUFSIZE
      BY ONLY SizesAssumption
    <3> QED BY <2>1, <2>5, <3>1, Zenon DEF CookieSound
  <2>7. ASSUME NEW f PROVE Flows(W, <<>>, f, 0, 0)
    <3>1. Carries(W, f, 0) /\ Buffered(W) = 0 /\ Len(W.read_cookie.got) = 0
      BY <1>1, <2>1
    <3>2. Len(<<>>) = 0 /\ 0 + 0 + 0 + 0 = 0 /\ 1 .. 0 = {}
      OBVIOUS
    <3> QED BY <3>1, <3>2 DEF Flows
  <2> QED BY <2>4, <2>5, <2>6, <2>7
<1>4. /\ sock = [d \in Pipe |-> <<>>] /\ sent = 0 /\ closed = FALSE /\ wired = 0 /\ out = <<>>
      /\ sock["enc"] = <<>> /\ sock["dec"] = <<>> /\ <<>> \in Seq(Data)
  BY DEF Init, Pipe
<1>5. PipeTypes
  <2>1. P = [d \in Pipe |-> P[d]]
    BY DEF Init
  <2>2. P \in [Pipe -> Cookie]
    BY <1>3, <2>1
  <2> QED BY <1>4, <2>2, Zenon DEF PipeTypes
<1>6. "enc" \in Pipe /\ "dec" \in Pipe /\ Len(<<>>) = 0 /\ 1 .. 0 = {} /\ ESZ * 0 = 0
  BY SizesAssumption DEF Pipe
<1>7. b \in [Nat -> Nat] /\ b[0] = 0 /\ Cut(b, 0)
  <2>1. 0 .. 0 - 1 = {}
    OBVIOUS
  <2> QED BY <2>1 DEF Cut
<1> HIDE DEF b
<1>8. EncOk(b, P["enc"], <<>>, 0, 0, FALSE)
  BY <1>3, <1>6, <1>7 DEF EncOk
<1>9. DecOk(b, P["dec"], <<>>, 0, 0, <<>>, P["enc"].status)
  BY <1>3, <1>6, <1>7 DEF DecOk
<1>10. StreamInv(b)
  BY <1>3, <1>4, <1>5, <1>8, <1>9, Zenon DEF StreamInv
<1> QED BY <1>7, <1>10 DEF PipeInv

(* Every step keeps the invariant.                                         *)
LEMMA PipeStep ==
  ASSUME PipeInv, [Next]_vars
  PROVE  PipeInv'
<1>1. PICK b \in [Nat -> Nat] : StreamInv(b)
  BY DEF PipeInv
<1>2. CASE UNCHANGED vars
  <2>1. PipeTypes'
    BY <1>1, <1>2, Zenon DEF vars, StreamInv, PipeTypes
  <2>2. StreamInv(b)'
    BY <1>1, <1>2, <2>1 DEF vars, StreamInv
  <2> QED BY <2>2 DEF PipeInv
<1>3. ASSUME NEW d \in Pipe, Immediate(d) PROVE PipeInv'
  BY <1>1, <1>3, ImmediateStep
<1>4. ASSUME NEW d \in Pipe, Receive(d) PROVE PipeInv'
  BY <1>1, <1>4, ReceiveStep
<1>5. ASSUME NEW d \in Pipe, ReceiveEof(d) PROVE PipeInv'
  BY <1>1, <1>5, EofStep
<1>6. ASSUME NEW d \in Pipe, Send(d) PROVE PipeInv'
  <2>1. CASE d = "enc"
    <3>1. StreamInv(b)'
      BY <1>1, <1>6, <2>1, SendEncStep
    <3> QED BY <3>1 DEF PipeInv
  <2>2. CASE d = "dec"
    <3>1. StreamInv(b)'
      BY <1>1, <1>6, <2>2, SendDecStep
    <3> QED BY <3>1 DEF PipeInv
  <2> QED BY <2>1, <2>2 DEF Pipe
<1>7. ASSUME NEW d \in Pipe, Fail(d) PROVE PipeInv'
  <2>1. P[d].status = 1 /\ P' = [P EXCEPT ![d] = Ended(P[d], -1)]
        /\ UNCHANGED <<sock, sent, closed, wired, out>>
    BY <1>7 DEF Fail
  <2> QED BY <1>1, <2>1, FailStep, Zenon
<1>8. CASE SendRefused
  <2>1. "enc" \in Pipe
    BY DEF Pipe
  <2>2. CookieSound("enc", P["enc"])
    BY <1>1, <2>1, Parts
  <2>3. P["enc"].status = 1 /\ P' = [P EXCEPT !["enc"] = Ended(P["enc"], -1)]
        /\ UNCHANGED <<sock, sent, closed, wired, out>>
    BY <1>8, <2>2 DEF SendRefused, CookieSound
  <2> QED BY <1>1, <2>1, <2>3, FailStep, Zenon
<1>9. CASE SourceWrites
  <2>1. StreamInv(b)'
    BY <1>1, <1>9, SourceWritesStep
  <2> QED BY <2>1 DEF PipeInv
<1>10. CASE SourceCloses
  <2>1. StreamInv(b)'
    BY <1>1, <1>10, SourceClosesStep
  <2> QED BY <2>1 DEF PipeInv
<1>11. CASE Damage
  <2>1. StreamInv(b)'
    BY <1>1, <1>11, DamageStep
  <2> QED BY <2>1 DEF PipeInv
<1> QED BY <1>2, <1>3, <1>4, <1>5, <1>6, <1>7, <1>8, <1>9, <1>10, <1>11 DEF Next, PipeNext

(* For all sizes of packets and buffers, however reads and writes are      *)
(* split and whatever is damaged on the wire: there is always one way of   *)
(* cutting the source into packets that accounts for every byte the two    *)
(* pipes, their buffers and the sockets hold.                              *)
THEOREM PipeCorrect == Spec => []PipeInv
<1> QED BY PipeStarts, PipeStep, PTL DEF Spec

(* No buffer of a pipe overflows, and a pipe reads or writes, never both,  *)
(* and runs exactly as long as it does.                                    *)
THEOREM BuffersCorrect == Spec => []BuffersSound
<1>1. PipeInv => BuffersSound
  <2> SUFFICES ASSUME NEW b \in [Nat -> Nat], StreamInv(b) PROVE BuffersSound
    BY DEF PipeInv
  <2>1. \A d \in Pipe : CookieSound(d, P[d])
    BY Parts
  <2> QED BY <2>1 DEF BuffersSound, ReadersSound, OutbufFits, OneOperation, CookieSound, SoundReader
<1> QED BY <1>1, PipeCorrect, PTL

(* What the invariant says of the output.                                  *)
LEMMA PipeClean == PipeInv => OutputIsRight
<1> SUFFICES ASSUME NEW b \in [Nat -> Nat], StreamInv(b) PROVE OutputIsRight
  BY DEF PipeInv
<1>1. DecOk(b, P["dec"], sock["dec"], sent, wired, out, P["enc"].status)
  BY Parts, Zenon
<1> QED BY <1>1 DEF OutputIsRight, InOrder, CleanEof, DecOk

(* What comes out is a prefix of what was sent, and at a clean end all of  *)
(* it, for every size of packets and buffers.                              *)
THEOREM OutputCorrect == Spec => []OutputIsRight
BY PipeCorrect, PipeClean, PTL

(* How a status is seen from outside.                                      *)
Over(st) == CASE st = 0 -> "eof" [] st = -1 -> "failed" [] OTHER -> "no"
(* Its values.                                                             *)
LEMMA OverIs ==
  Over(1) = "no" /\ Over(0) = "eof" /\ Over(-1) = "failed"
<1>1. 0 # -1 /\ 1 # 0 /\ 1 # -1
  OBVIOUS
<1> QED BY <1>1 DEF Over

(* If the wire ends behind the last packet, and it was written out, all of *)
(* the source has come through.                                            *)
LEMMA EofComplete ==
  ASSUME NEW b \in [Nat -> Nat], StreamInv(b), P["dec"].status = 1, P["enc"].status = 0,
         wired = ESZ * P["dec"].pnum, P["dec"].wbuf = <<>>, P["enc"].wbuf = <<>>
  PROVE  closed /\ Len(out) = sent
<1> DEFINE x == P["dec"].pnum
           y == P["enc"].pnum
<1>1. /\ x \in Nat /\ y \in Nat /\ sent \in Nat /\ wired \in Nat
      /\ EncOk(b, P["enc"], sock["enc"], sent, wired, closed)
      /\ DecOk(b, P["dec"], sock["dec"], sent, wired, out, P["enc"].status)
      /\ Len(out) \in Nat
  <2>1. "dec" \in Pipe /\ "enc" \in Pipe
    BY ONLY TRUE DEF Pipe
  <2> QED BY <2>1, Parts, LenNat, Zenon
<1>2. closed /\ b[y] = sent /\ wired + 0 = ESZ * y
  <2>1. Len(P["enc"].wbuf) = 0 /\ P["enc"].status # -1
    OBVIOUS
  <2> QED BY <1>1, <2>1 DEF EncOk
<1>3. Len(out) + 0 = b[x]
  <2>1. Len(P["dec"].wbuf) = 0
    OBVIOUS
  <2> QED BY <1>1, <2>1 DEF DecOk
<1>4. x = y
  <2>1. ESZ * x = ESZ * y
    <3>1. wired + 0 = wired
      BY ONLY <1>1
    <3> QED BY <1>2, <3>1, Zenon
  <2>2. ESZ \in Nat \ {0}
    BY SizesAssumption
  <2> HIDE DEF x, y
  <2> DEFINE u == ESZ * x
             v == ESZ * y
  <2>3. u \in Nat /\ v \in Nat /\ u = v
    BY <1>1, <2>1, <2>2, Times
  <2> HIDE DEF u, v
  <2>4. u <= v /\ v <= u
    BY <2>3
  <2>5. ESZ * x <= ESZ * y /\ ESZ * y <= ESZ * x
    BY <2>4 DEF u, v
  <2>6. x <= y /\ y <= x
    BY <1>1, <2>2, <2>5, Times
  <2> QED BY <1>1, <2>6
<1>5. Len(out) + 0 = Len(out)
  BY ONLY <1>1
<1> QED BY <1>2, <1>3, <1>4, <1>5, Zenon

(* A pipe's step that changes no more than a status.                       *)
LEMMA Statuses ==
  ASSUME NEW b \in [Nat -> Nat], StreamInv(b), NEW d \in Pipe, P[d].status = 1, NEW q,
         P' = [P EXCEPT ![d] = q], q.status \in {1, -1}, UNCHANGED <<sent, closed, out>>
  PROVE  [Stream!Next]_(Stream!svars)
<1> DEFINE e == P["enc"].status
           f == P["dec"].status
<1>1. P \in [Pipe -> Cookie] /\ e \in {-1, 0, 1} /\ f \in {-1, 0, 1}
  BY Parts DEF Pipe, Cookie
<1>2. /\ P'["enc"] = IF d = "enc" THEN q ELSE P["enc"]
      /\ P'["dec"] = IF d = "dec" THEN q ELSE P["dec"]
  BY <1>1 DEF Pipe
<1>3. CASE q.status = 1
  <2>1. P'["enc"].status = P["enc"].status /\ P'["dec"].status = P["dec"].status
    BY <1>2, <1>3
  <2>2. (\E k \in Pipe : P'[k].status = -1) <=> (\E k \in Pipe : P[k].status = -1)
    BY <2>1 DEF Pipe
  <2>3. UNCHANGED Stream!svars
    BY <2>1, <2>2 DEF Stream!svars
  <2> QED BY <2>3
<1>4. CASE q.status = -1
  <2>1. \E k \in Pipe : P'[k].status = -1
    BY <1>2, <1>4 DEF Pipe
  <2>2. Over(P'["dec"].status) \in {Over(f), IF Over(f) = "no" THEN "failed" ELSE Over(f)}
    <3>1. CASE d = "enc"
      BY <1>2, <3>1
    <3>2. CASE d = "dec"
      <4>1. P'["dec"].status = -1 /\ f = 1
        BY <1>2, <1>4, <3>2
      <4> QED BY <4>1, OverIs
    <3> QED BY <3>1, <3>2 DEF Pipe
  <2>3. Stream!Break
    BY <2>1, <2>2 DEF Stream!Break, Over
  <2> QED BY <2>3 DEF Stream!Next
<1> QED BY <1>3, <1>4

(* Nothing sent, nothing received.                                         *)
LEMMA StreamInit ==
  ASSUME Init
  PROVE  Stream!Init
<1>1. /\ P["enc"].status = 1 /\ P["dec"].status = 1 /\ sent = 0 /\ closed = FALSE /\ out = <<>>
  BY DEF Init, Pipe, proto_pipe
<1>2. ~\E d \in Pipe : P[d].status = -1
  BY <1>1 DEF Pipe
<1>3. Over(P["dec"].status) = "no"
  BY <1>1, OverIs
<1>4. Len(out) = 0
  BY <1>1
<1> QED BY <1>1, <1>2, <1>3, <1>4 DEF Stream!Init, Over

(* callback_pipe_read at most fails, as far as ByteStream can see.         *)
LEMMA CallbackRefines ==
  ASSUME NEW b \in [Nat -> Nat], StreamInv(b), NEW d \in Pipe, P[d].status = 1,
         NEW R, callback_pipe_read(d, R), UNCHANGED <<sent, closed, out>>
  PROVE  [Stream!Next]_(Stream!svars)
<1> DEFINE p == [P[d] EXCEPT !.R = R]
           q == P'[d]
<1>1. P \in [Pipe -> Cookie] /\ P[d] \in Cookie
  BY Parts
<1>2. P' = [P EXCEPT ![d] = process(d, p)] \/ P' = [P EXCEPT ![d] = Ended(p, -1)]
  BY DEF callback_pipe_read
<1>3. P' = [P EXCEPT ![d] = q] /\ (q = process(d, p) \/ q = Ended(p, -1))
  BY <1>1, <1>2
<1>4. p.status = 1 /\ DOMAIN p = {"R", "pnum", "write_cookie", "wbuf", "status"}
  BY <1>1 DEF Cookie
<1> HIDE DEF p, q
<1>5. Ended(p, -1).status = -1
  BY <1>4 DEF Ended
<1>6. process(d, p).status \in {1, -1}
  BY <1>4, <1>5 DEF process
<1>7. q.status \in {1, -1}
  BY <1>3, <1>5, <1>6
<1> QED BY <1>3, <1>7, Statuses, Zenon

(* The end of a socket is the end of the stream, or a failure,             *)
LEMMA EofRefines ==
  ASSUME NEW b \in [Nat -> Nat], StreamInv(b), PipeInv', NEW d \in Pipe, ReceiveEof(d)
  PROVE  [Stream!Next]_(Stream!svars)
<1> DEFINE R == P[d].R
           n == Len(R.read_cookie.got)
           p1 == [P[d] EXCEPT !.R = callback_read(R, 0)]
           q == eof(d, p1)
<1>1. R.read_cookie.on /\ AtEof(d) /\ UNCHANGED <<sock, sent, closed, wired, out>>
  BY DEF ReceiveEof
<1>2. P \in [Pipe -> Cookie] /\ P[d] \in Cookie /\ CookieSound(d, P[d])
      /\ CookieSound("enc", P["enc"]) /\ P["enc"] \in Cookie
  BY Parts, Zenon DEF Pipe
<1>3. P[d].status = 1 /\ ~P[d].write_cookie /\ P[d].wbuf = <<>>
  BY <1>1, <1>2, WaitsAlone DEF Waiting
<1>4. CASE n > 0
  <2>1. callback_pipe_read(d, callback_read(R, n))
    BY <1>4 DEF ReceiveEof
  <2> DEFINE S == callback_read(R, n)
  <2> HIDE DEF S
  <2>2. callback_pipe_read(d, S)
    BY <2>1 DEF S
  <2> QED BY <1>1, <1>3, <2>2, CallbackRefines
<1>5. CASE ~(n > 0)
  <2>1. P' = [P EXCEPT ![d] = q]
    BY <1>5 DEF ReceiveEof
  <2>2. DOMAIN p1 = {"R", "pnum", "write_cookie", "wbuf", "status"} /\ p1.pnum = P[d].pnum
    BY <1>2 DEF Cookie
  <2> HIDE DEF p1
  <2>3. q.status \in {0, -1} /\ q.pnum = P[d].pnum
    BY <2>2 DEF eof, Ended
  <2> HIDE DEF q
  <2>4. CASE q.status = -1
    <3>1. q.status \in {1, -1}
      BY <2>4
    <3> QED BY <1>1, <1>3, <2>1, <3>1, Statuses, Zenon
  <2>5. CASE q.status = 0 /\ d = "enc"
    <3>1. P'["enc"].status = 0 /\ P["enc"].status = 1 /\ P'["dec"] = P["dec"]
      BY <1>2, <1>3, <2>1, <2>5 DEF Pipe
    <3>2. 0 # -1 /\ 1 # -1
      OBVIOUS
    <3>3. (\E k \in Pipe : P'[k].status = -1) <=> (\E k \in Pipe : P[k].status = -1)
      BY <3>1, <3>2 DEF Pipe
    <3>4. UNCHANGED Stream!svars
      BY <1>1, <3>1, <3>3 DEF Stream!svars
    <3> QED BY <3>4
  <2>6. CASE q.status = 0 /\ d = "dec"
    <3>1. /\ P'["dec"].status = 0 /\ P["dec"].status = 1 /\ P'["enc"] = P["enc"]
          /\ P'["dec"].pnum = P["dec"].pnum
      BY <1>2, <1>3, <2>1, <2>3, <2>6 DEF Pipe
    <3>2. 0 # -1 /\ 1 # -1
      OBVIOUS
    <3>3. (\E k \in Pipe : P'[k].status = -1) <=> (\E k \in Pipe : P[k].status = -1)
      BY <3>1, <3>2 DEF Pipe
    <3>4. Over(P["dec"].status) = "no" /\ Over(P'["dec"].status) = "eof"
      BY <3>1, OverIs
    <3>5. (\E k \in Pipe : P[k].status = -1) \/ (closed /\ Len(out) = sent)
      <4>1. P["enc"].status \in {-1, 0}
        <5>1. P["enc"].status # 1
          BY <1>1, <2>6 DEF AtEof
        <5>2. P["enc"].status \in {-1, 0, 1}
          BY <1>2 DEF Cookie
        <5> QED BY <5>1, <5>2
      <4>2. CASE P["enc"].status = -1
        BY <4>2 DEF Pipe
      <4>3. CASE P["enc"].status = 0
        <5>1. P["enc"].wbuf = <<>>
          <6>1. ~P["enc"].write_cookie
            <7>1. P["enc"].status # 1
              BY ONLY <4>3
            <7> QED BY <1>2, <7>1, Zenon DEF CookieSound
          <6> QED BY <1>2, <6>1 DEF CookieSound
        <5>2. wired = ESZ * P["dec"].pnum
          <6>1. OutputIsRight'
            BY PipeClean, PTL
          <6> QED BY <1>1, <3>1, <6>1 DEF OutputIsRight, CleanEof
        <5>3. P["dec"].status = 1 /\ P["dec"].wbuf = <<>>
          BY <1>3, <2>6
        <5> QED BY <4>3, <5>1, <5>2, <5>3, EofComplete
      <4> QED BY <4>1, <4>2, <4>3
    <3>6. Stream!Eof
      BY <1>1, <3>3, <3>4, <3>5 DEF Stream!Eof, Over
    <3> QED BY <3>6 DEF Stream!Next
  <2> QED BY <2>3, <2>4, <2>5, <2>6 DEF Pipe
<1> QED BY <1>4, <1>5

(* a write of the pipe that decrypts delivers bytes,                       *)
LEMMA SendRefines ==
  ASSUME NEW b \in [Nat -> Nat], StreamInv(b), NEW d \in Pipe, Send(d)
  PROVE  [Stream!Next]_(Stream!svars)
<1>1. PICK new \in Seq(Data), m \in Nat, q \in Cookie :
            /\ P[d].status = 1 /\ q.status = 1
            /\ P' = [P EXCEPT ![d] = q] /\ Delivered(d, new)
            /\ Len(new) \in Nat \ {0}
  BY SendSplit, Zenon
<1>2. UNCHANGED <<sent, closed>>
  BY Zenon DEF Send
<1>3. CASE d = "enc"
  <2>1. UNCHANGED out
    BY <1>1, <1>3 DEF Delivered
  <2>2. P[d].status = 1 /\ P' = [P EXCEPT ![d] = q] /\ q.status \in {1, -1}
    BY <1>1
  <2> QED BY <1>2, <2>1, <2>2, Statuses, Zenon
<1>4. CASE d = "dec"
  <2>1. P \in [Pipe -> Cookie] /\ out \in Seq(Data) /\ sent \in Nat
    BY Parts
  <2>2. P'["dec"].status = 1 /\ P["dec"].status = 1 /\ P'["enc"] = P["enc"]
    BY <1>1, <1>4, <2>1 DEF Pipe
  <2>3. (\E k \in Pipe : P'[k].status = -1) <=> (\E k \in Pipe : P[k].status = -1)
    BY <2>2 DEF Pipe
  <2>4. Over(P["dec"].status) = "no" /\ Over(P'["dec"].status) = "no"
    BY <2>2, OverIs
  <2>5. Len(out') \in Len(out) + 1 .. sent
    <3>1. "dec" # "enc"
      OBVIOUS
    <3>2. out' = out \o new
      BY <1>1, <1>4, <3>1, Zenon DEF Delivered
    <3>3. Len(out') = Len(out) + Len(new) /\ Len(out) \in Nat
      BY <2>1, <3>2, ConcatIs, LenNat
    <3>4. Len(out') <= sent
      <4>1. Send("dec")
        BY <1>4
      <4>2. StreamInv(b)'
        BY <4>1, SendDecStep
      <4>3. DecOk(b, P'["dec"], sock'["dec"], sent', wired', out', P'["enc"].status)
        BY <4>2 DEF StreamInv
      <4>4. Len(out') <= sent'
        BY <4>3 DEF DecOk
      <4> QED BY <1>2, <4>4
    <3> QED BY <1>1, <2>1, <3>3, <3>4
  <2>6. Stream!Deliver
    BY <1>2, <2>3, <2>4, <2>5, Zenon DEF Stream!Deliver, Over
  <2> QED BY <2>6 DEF Stream!Next
<1> QED BY <1>3, <1>4 DEF Pipe

(* and every other step is one of ByteStream, or none.                     *)
LEMMA StepRefines ==
  ASSUME PipeInv, PipeInv', [Next]_vars
  PROVE  [Stream!Next]_(Stream!svars)
<1>1. PICK b \in [Nat -> Nat] : StreamInv(b)
  BY DEF PipeInv
<1>2. CASE UNCHANGED vars
  BY <1>2 DEF vars, Stream!svars
<1>3. ASSUME NEW d \in Pipe, Immediate(d) PROVE [Stream!Next]_(Stream!svars)
  <2> DEFINE S == callback_success(P[d].R)
  <2>1. callback_pipe_read(d, S) /\ UNCHANGED <<sent, closed, out>>
    BY <1>3 DEF Immediate
  <2>2. P[d].status = 1
    <3>1. Waiting(P[d].R)
      BY <1>3 DEF Immediate, Waiting
    <3>2. CookieSound(d, P[d])
      BY <1>1, Parts
    <3> QED BY <3>1, <3>2 DEF CookieSound
  <2> HIDE DEF S
  <2> QED BY <1>1, <2>1, <2>2, CallbackRefines
<1>4. ASSUME NEW d \in Pipe, Receive(d) PROVE [Stream!Next]_(Stream!svars)
  <2>1. P[d].status = 1 /\ P \in [Pipe -> Cookie] /\ P[d] \in Cookie
    <3>1. Waiting(P[d].R)
      BY <1>4 DEF Receive, Waiting
    <3>2. CookieSound(d, P[d]) /\ P \in [Pipe -> Cookie] /\ P[d] \in Cookie
      BY <1>1, Parts
    <3> QED BY <3>1, <3>2 DEF CookieSound
  <2>2. UNCHANGED <<sent, closed, out>>
    BY <1>4 DEF Receive
  <2>3. PICK k : LET R == recv(P[d].R, SubSeq(sock[d], 1, k))
                 IN  IF KeepGoing(R)
                     THEN P' = [P EXCEPT ![d].R = R]
                     ELSE callback_pipe_read(d, callback_read(R, Len(R.read_cookie.got)))
    BY <1>4, Zenon DEF Receive
  <2> DEFINE R == recv(P[d].R, SubSeq(sock[d], 1, k))
             S == callback_read(R, Len(R.read_cookie.got))
             q == [P[d] EXCEPT !.R = R]
  <2>4. CASE KeepGoing(R)
    <3>1. P' = [P EXCEPT ![d].R = R]
      BY <2>3, <2>4
    <3> HIDE DEF R
    <3>2. P' = [P EXCEPT ![d] = q]
      BY <2>1, <3>1
    <3>3. q.status \in {1, -1}
      BY <2>1 DEF Cookie
    <3> HIDE DEF q
    <3> QED BY <1>1, <2>1, <2>2, <3>2, <3>3, Statuses, Zenon
  <2>5. CASE ~KeepGoing(R)
    <3>1. callback_pipe_read(d, S)
      BY <2>3, <2>5
    <3> HIDE DEF S
    <3> QED BY <1>1, <2>1, <2>2, <3>1, CallbackRefines
  <2> QED BY <2>4, <2>5
<1>5. ASSUME NEW d \in Pipe, ReceiveEof(d) PROVE [Stream!Next]_(Stream!svars)
  BY <1>1, <1>5, EofRefines
<1>6. ASSUME NEW d \in Pipe, Send(d) PROVE [Stream!Next]_(Stream!svars)
  BY <1>1, <1>6, SendRefines
<1>7. ASSUME NEW d \in Pipe, P[d].status = 1, P' = [P EXCEPT ![d] = Ended(P[d], -1)],
             UNCHANGED <<sent, closed, out>>
      PROVE  [Stream!Next]_(Stream!svars)
  <2> DEFINE q == Ended(P[d], -1)
  <2>1. P[d] \in Cookie
    BY <1>1, Parts
  <2>2. q.status \in {1, -1} /\ P' = [P EXCEPT ![d] = q]
    BY <1>7, <2>1 DEF Ended, Cookie
  <2> HIDE DEF q
  <2> QED BY <1>1, <1>7, <2>2, Statuses, Zenon
<1>8. ASSUME NEW d \in Pipe, Fail(d) PROVE [Stream!Next]_(Stream!svars)
  <2>1. P[d].status = 1 /\ P' = [P EXCEPT ![d] = Ended(P[d], -1)] /\ UNCHANGED <<sent, closed, out>>
    BY <1>8 DEF Fail
  <2> QED BY <1>7, <2>1, Zenon
<1>9. CASE SendRefused
  <2>1. CookieSound("enc", P["enc"]) /\ "enc" \in Pipe
    BY <1>1, Parts DEF Pipe
  <2>2. /\ P["enc"].status = 1 /\ P' = [P EXCEPT !["enc"] = Ended(P["enc"], -1)]
        /\ UNCHANGED <<sent, closed, out>>
    BY <1>9, <2>1 DEF SendRefused, CookieSound
  <2> QED BY <1>7, <2>1, <2>2, Zenon
<1>10. CASE SourceWrites
  <2>1. ~closed /\ sent' = sent + 1 /\ UNCHANGED <<P, closed, out>>
    BY <1>10 DEF SourceWrites
  <2>2. Stream!Write
    BY <2>1 DEF Stream!Write
  <2> QED BY <2>2 DEF Stream!Next
<1>11. CASE SourceCloses
  <2>1. ~closed /\ closed' = TRUE /\ UNCHANGED <<P, sent, out>>
    BY <1>11 DEF SourceCloses
  <2>2. Stream!Close
    BY <2>1 DEF Stream!Close
  <2> QED BY <2>2 DEF Stream!Next
<1>12. CASE Damage
  <2>1. UNCHANGED <<P, sent, closed, out>>
    BY <1>12 DEF Damage
  <2> QED BY <2>1 DEF Stream!svars
<1> QED BY <1>2, <1>3, <1>4, <1>5, <1>6, <1>8, <1>9, <1>10, <1>11, <1>12 DEF Next, PipeNext

(* The two pipes implement a reliable stream of bytes that may fail but    *)
(* never lies, ByteStream, for every size of packets and buffers.          *)
THEOREM PipeRefinement == Spec => ImplementsByteStream
<1>1. Init => Stream!Init
  BY StreamInit
<1>2. PipeInv /\ PipeInv' /\ [Next]_vars => [Stream!Next]_(Stream!svars)
  BY StepRefines
<1> QED BY <1>1, <1>2, PipeCorrect, PTL DEF Spec, ImplementsByteStream, Stream!Spec
=============================================================================
