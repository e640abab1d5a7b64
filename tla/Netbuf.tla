------------------------------- MODULE Netbuf -------------------------------
(***************************************************************************)
(* The buffered reader (netbuf/netbuf_read.c) and the read it runs on      *)
(* (network/network_read.c), as operators on the state of one reader.      *)
(*                                                                         *)
(* R.buf holds the bytes of the buffer up to datalen; the first bufpos of  *)
(* them are consumed.  R.read_cookie is the network_read in progress: got  *)
(* are the bytes it has put behind datalen, max and min its buflen and     *)
(* minread.  An operator returns the new state of the reader.              *)
(***************************************************************************)
EXTENDS Integers, Sequences

CONSTANT NETBUFLEN  \* initial size of the buffer (4096)

ASSUME NetbufAssumption == NETBUFLEN \in Nat \ {0}

NoRead == [on |-> FALSE, got |-> <<>>, max |-> 0, min |-> 0]

netbuf_read_init ==
    [buf |-> <<>>, bufpos |-> 0, buflen |-> NETBUFLEN,
     read_cookie |-> NoRead, immediate_cookie |-> FALSE]

netbuf_read_peek(R) == SubSeq(R.buf, R.bufpos + 1, Len(R.buf))

Buffered(R) == Len(R.buf) - R.bufpos

(* The data is moved to the start of the buffer.                           *)
Moved(R) == [R EXCEPT !.buf = netbuf_read_peek(R), !.bufpos = 0]

(* Mutant: the position is not reset when the data is copied.              *)
netbuf_read_resize_buffer_pos(R, len) ==
    [R EXCEPT !.buf = netbuf_read_peek(R),
              !.buflen = IF 2 * R.buflen < len THEN len ELSE 2 * R.buflen]

netbuf_read_resize_buffer(R, len) ==
    [Moved(R) EXCEPT !.buflen = IF 2 * R.buflen < len THEN len ELSE 2 * R.buflen]

network_read(buflen, minread) ==
    [on |-> TRUE, got |-> <<>>, max |-> buflen, min |-> minread]

netbuf_read_wait(R, len) ==
    LET S == IF R.buflen < len THEN netbuf_read_resize_buffer(R, len) ELSE R
        T == IF S.buflen - S.bufpos < len THEN Moved(S) ELSE S
    IN  IF Buffered(R) >= len THEN [R EXCEPT !.immediate_cookie = TRUE]
        ELSE [T EXCEPT !.read_cookie =
                network_read(T.buflen - Len(T.buf), T.bufpos + len - Len(T.buf))]

(* recv has delivered some bytes: callback_buf of network_read.c up to the *)
(* decision whether to wait for more.                                      *)
recv(R, bytes) == [R EXCEPT !.read_cookie.got = @ \o bytes]

KeepGoing(R) == Len(R.read_cookie.got) < R.read_cookie.min

(* The state in which callback_read and callback_success call back.  Bytes *)
(* of a read that has failed are never counted in datalen.                 *)
callback_read(R, lenread) ==
    [R EXCEPT !.buf = @ \o SubSeq(R.read_cookie.got, 1, lenread),
              !.read_cookie = NoRead]

callback_success(R) == [R EXCEPT !.immediate_cookie = FALSE]

netbuf_read_wait_cancel(R) ==
    [R EXCEPT !.read_cookie = NoRead, !.immediate_cookie = FALSE]

netbuf_read_consume(R, len) == [R EXCEPT !.bufpos = @ + len]

Waiting(R) == R.read_cookie.on \/ R.immediate_cookie

(* What netbuf_read.c and network_read.c assert: consumed bytes are bytes  *)
(* the buffer has, one wait at a time, a read never has a buffer of size 0 *)
(* and the bytes it has received lie inside of the buffer.                 *)
ReaderSound(R) ==
    /\ R.bufpos <= Len(R.buf)
    /\ Len(R.buf) + Len(R.read_cookie.got) <= R.buflen
    /\ ~(R.read_cookie.on /\ R.immediate_cookie)
    /\ R.read_cookie.on =>
          /\ R.read_cookie.max > 0
          /\ Len(R.buf) + R.read_cookie.max = R.buflen
          /\ R.read_cookie.min \in 1 .. R.read_cookie.max
=============================================================================
