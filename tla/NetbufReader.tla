---------------------------- MODULE NetbufReader ----------------------------
(***************************************************************************)
(* A buffered reader (netbuf/netbuf_read.c) in the hands of any caller     *)
(* that keeps to its assertions: waits of every length, so that the buffer *)
(* moves and grows, cancellation at any time, and every failure.  The pipe *)
(* (ProtoPipe) always waits for the same length, consumes whole packets    *)
(* and gives up after the first error; this is what the reader promises to *)
(* others.                                                                 *)
(*                                                                         *)
(* The byte at position i of the stream is the number i.                   *)
(***************************************************************************)
EXTENDS Netbuf

CONSTANTS
    Lens,       \* the numbers of bytes that callers wait for
    MaxTaken    \* no stream is longer than this

ASSUME ReaderAssumption == Lens \subseteq Nat /\ MaxTaken \in Nat

VARIABLES
    reader,     \* the struct netbuf_read
    owned,      \* it is allocated
    wanted,     \* len in the last call of netbuf_read_wait
    answer,     \* status in the callback of that wait; 2 until there is one
    taken,      \* how many bytes recv has delivered
    consumed,   \* how many bytes the caller has consumed
    ended,      \* recv has returned 0
    spoiled     \* bytes were thrown away with a read that failed or was cancelled

readervars == <<reader, owned, wanted, answer, taken, consumed, ended, spoiled>>

(* netbuf_read_init, which may also fail.                                  *)
ReaderInit ==
    /\ reader = netbuf_read_init
    /\ owned \in BOOLEAN
    /\ wanted = 0
    /\ answer = 2
    /\ taken = 0
    /\ consumed = 0
    /\ ended = FALSE
    /\ spoiled = FALSE

Idle == owned /\ ~Waiting(reader)

Wait(len) ==
    /\ Idle
    /\ reader' = netbuf_read_wait(reader, len)
    /\ wanted' = len
    /\ answer' = 2
    /\ UNCHANGED <<owned, taken, consumed, ended, spoiled>>

(* netbuf_read_wait fails: an event cannot be registered, or there is no   *)
(* memory for a larger buffer.  In the last case nothing has changed; but  *)
(* when the read cannot be started the data has moved already.             *)
WaitFails(len) ==
    /\ Idle
    /\ reader' \in {[netbuf_read_wait(reader, len) EXCEPT
                        !.read_cookie = NoRead, !.immediate_cookie = FALSE]}
                   \cup (IF Buffered(reader) < len /\ reader.buflen < len
                         THEN {reader} ELSE {})
    /\ wanted' = len
    /\ answer' = -1
    /\ UNCHANGED <<owned, taken, consumed, ended, spoiled>>

Success ==
    /\ owned
    /\ reader.immediate_cookie
    /\ reader' = callback_success(reader)
    /\ answer' = 0
    /\ UNCHANGED <<owned, wanted, taken, consumed, ended, spoiled>>

(* The bytes of the stream from position a + 1 to position b.              *)
Bytes(a, b) == [i \in 1 .. b - a |-> a + i]

Recv(n) ==
    LET R == recv(reader, Bytes(taken, taken + n))
    IN  /\ owned
        /\ reader.read_cookie.on
        /\ ~ended
        /\ n <= reader.read_cookie.max - Len(reader.read_cookie.got)
        /\ taken + n <= MaxTaken
        /\ taken' = taken + n
        /\ IF KeepGoing(R)
           THEN reader' = R /\ UNCHANGED answer
           ELSE reader' = callback_read(R, Len(R.read_cookie.got)) /\ answer' = 0
        /\ UNCHANGED <<owned, wanted, consumed, ended, spoiled>>

(* recv returns 0: bytes that came before are handed over first.           *)
RecvEof ==
    LET n == Len(reader.read_cookie.got)
    IN  /\ owned
        /\ reader.read_cookie.on
        /\ ended' = TRUE
        /\ reader' = callback_read(reader, n)
        /\ answer' = (IF n > 0 THEN 0 ELSE 1)
        /\ UNCHANGED <<owned, wanted, taken, consumed, spoiled>>

(* recv fails, or the event cannot be registered again.                    *)
RecvFails ==
    /\ owned
    /\ reader.read_cookie.on
    /\ reader' = callback_read(reader, 0)
    /\ answer' = -1
    /\ spoiled' = (spoiled \/ reader.read_cookie.got # <<>>)
    /\ UNCHANGED <<owned, wanted, taken, consumed, ended>>

Cancel ==
    /\ owned
    /\ reader' = netbuf_read_wait_cancel(reader)
    /\ answer' = -1
    /\ spoiled' = (spoiled \/ reader.read_cookie.got # <<>>)
    /\ UNCHANGED <<owned, wanted, taken, consumed, ended>>

Consume(n) ==
    /\ Idle
    /\ n <= Buffered(reader)
    /\ reader' = netbuf_read_consume(reader, n)
    /\ consumed' = consumed + n
    /\ answer' = 2
    /\ UNCHANGED <<owned, wanted, taken, ended, spoiled>>

netbuf_read_free ==
    /\ Idle
    /\ owned' = FALSE
    /\ UNCHANGED <<reader, wanted, answer, taken, consumed, ended, spoiled>>

ReaderNext ==
    \/ \E len \in Lens : Wait(len) \/ WaitFails(len)
    \/ \E n \in 1 .. MaxTaken : Recv(n) \/ Consume(n)
    \/ Success \/ RecvEof \/ RecvFails \/ Cancel \/ netbuf_read_free

ReaderSpec == ReaderInit /\ [][ReaderNext]_readervars

-----------------------------------------------------------------------------
(* What the caller sees, and what the read in progress will add to it, is  *)
(* the stream from the first byte that was not consumed, without a gap or  *)
(* a repetition, wherever the data was moved to (netbuf_read_wait,         *)
(* netbuf_read_resize_buffer).                                             *)
NothingLost ==
    ~spoiled =>
        netbuf_read_peek(reader) \o reader.read_cookie.got = Bytes(consumed, taken)

(* The read asks for as many bytes as are missing, no more and no fewer,   *)
(* and an immediate callback means that none are.                          *)
AsksForMissing ==
    /\ reader.read_cookie.on => Buffered(reader) + reader.read_cookie.min = wanted
    /\ reader.immediate_cookie => Buffered(reader) >= wanted

(* Status 0 means that there is what was waited for, unless the stream has *)
(* ended; then it means at least that there is something.  Status 1 means  *)
(* that the stream has ended.                                              *)
StatusIsRight ==
    /\ answer = 0 =>
          \/ Buffered(reader) >= wanted
          \/ ended /\ Buffered(reader) > 0
    /\ answer = 1 => ended

(* The buffer grows, but not beyond twice the longest wait.                *)
BufferIsBounded ==
    reader.buflen = NETBUFLEN \/ \E len \in Lens : reader.buflen < 2 * len

(* The assertions of netbuf_read.c and network_read.c, and all of these.   *)
ReaderIsRight ==
    /\ ReaderSound(reader)
    /\ NothingLost
    /\ AsksForMissing
    /\ StatusIsRight
    /\ BufferIsBounded

(* What the comment on netbuf_read_wait says of status 0: the len bytes    *)
(* that were waited for are there.                                         *)
WaitDelivers == answer = 0 => Buffered(reader) >= wanted
=============================================================================
