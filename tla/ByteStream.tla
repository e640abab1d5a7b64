----------------------------- MODULE ByteStream -----------------------------
(***************************************************************************)
(* What one direction of a connection promises: bytes come out in the      *)
(* order they went in, and the reader learns of the end of the stream only *)
(* when it has got all of it, unless the stream broke on the way.          *)
(***************************************************************************)
EXTENDS Naturals

VARIABLES
    sent,       \* number of bytes written
    closed,     \* the writer has closed the stream
    delivered,  \* number of bytes read
    over,       \* "no", "eof" or "failed", as the reader sees it
    broken      \* some part of the stream has failed

svars == <<sent, closed, delivered, over, broken>>

Init ==
    /\ sent = 0
    /\ closed = FALSE
    /\ delivered = 0
    /\ over = "no"
    /\ broken = FALSE

Write ==
    /\ ~closed
    /\ sent' = sent + 1
    /\ UNCHANGED <<closed, delivered, over, broken>>

Close ==
    /\ ~closed
    /\ closed' = TRUE
    /\ UNCHANGED <<sent, delivered, over, broken>>

Deliver ==
    /\ over = "no"
    /\ delivered' \in delivered + 1 .. sent
    /\ UNCHANGED <<sent, closed, over, broken>>

Eof ==
    /\ over = "no"
    /\ broken \/ (closed /\ delivered = sent)
    /\ over' = "eof"
    /\ UNCHANGED <<sent, closed, delivered, broken>>

(* The stream breaks; the reader may be the one who notices first.         *)
Break ==
    /\ broken' = TRUE
    /\ over' \in {over, IF over = "no" THEN "failed" ELSE over}
    /\ UNCHANGED <<sent, closed, delivered>>

Next == Write \/ Close \/ Deliver \/ Eof \/ Break

Spec == Init /\ [][Next]_svars
=============================================================================
