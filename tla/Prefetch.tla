------------------------------ MODULE Prefetch ------------------------------
(***************************************************************************)
(* The prefetching reader of pkg/prefetch/prefetch.go: a ring buffer that a *)
(* background goroutine (prefetch) fills from src and Read drains.         *)
(*                                                                         *)
(* The lock guards the indices only.  The bytes move without it, so each   *)
(* side has a step that chooses its span under the lock, one that copies   *)
(* and one that moves the indices under the lock.  A byte is the position  *)
(* it has in src; src.Read may use all of the slice it is given as scratch *)
(* space, as io.Reader allows.  Close may come from a third goroutine.     *)
(***************************************************************************)
EXTENDS Integers, Sequences

CONSTANTS
    BufLen,  \* len(buf)
    SrcLen,  \* bytes src has before it ends
    MaxRead  \* the largest slice a caller passes to Read

Junk == SrcLen + 1  \* what src.Read leaves in the rest of its slice

ASSUME PrefetchAssumption == BufLen \in Nat \ {0} /\ SrcLen \in Nat /\ MaxRead \in Nat \ {0}

VARIABLES
    buf, r, n, done, closed,  \* the fields
    srcErr,                   \* err: what src.Read ended with, "none", "EOF" or "failed"
    srcPos, srcClosed,        \* the source
    asleep,                   \* who waits on cond
    producer,                 \* [pc, w, span, m] of prefetch
    consumer,                 \* [pc, want, span, got] of Read
    out,                      \* what the caller has been given
    result                    \* what the last Read returned: "none", "data", "EOF", "failed", "closed"

vars == <<buf, r, n, done, closed, srcErr, srcPos, srcClosed, asleep, producer, consumer, out, result>>

Init ==
    /\ buf = [i \in 0 .. BufLen - 1 |-> 0]
    /\ r = 0 /\ n = 0
    /\ done = FALSE /\ closed = FALSE
    /\ srcErr = "none" /\ srcPos = 0 /\ srcClosed = FALSE
    /\ asleep = {}
    /\ producer = [pc |-> "lock", w |-> 0, span |-> 0, m |-> 0]
    /\ consumer = [pc |-> "idle", want |-> 0, span |-> 0, got |-> <<>>]
    /\ out = <<>>
    /\ result = "none"

Least(a, b) == IF a < b THEN a ELSE b

------------------------------------------------------------------------------
(* prefetch *)

\* Under the lock: wait while the buffer is full, stop when closed, or choose the
\* contiguous free span to fill.
Choose ==
    /\ producer.pc = "lock" /\ "producer" \notin asleep
    /\ \/ /\ n = BufLen /\ ~closed
          /\ asleep' = asleep \union {"producer"}
          /\ UNCHANGED producer
       \/ /\ closed
          /\ producer' = [producer EXCEPT !.pc = "end"]
          /\ UNCHANGED asleep
       \/ /\ n < BufLen /\ ~closed
          /\ LET w == (r + n) % BufLen IN
             producer' = [producer EXCEPT !.pc = "read", !.w = w, !.span = Least(BufLen - w, BufLen - n)]
          /\ UNCHANGED asleep
    /\ UNCHANGED <<buf, r, n, done, closed, srcErr, srcPos, srcClosed, consumer, out, result>>

\* src.Read(dst): some bytes, with or without the end of the source or an error;
\* once src has been closed it may also return nothing at all.
SrcRead ==
    /\ producer.pc = "read"
    /\ \E m \in 0 .. Least(producer.span, SrcLen - srcPos), err \in {"none", "EOF", "failed"} :
        /\ err = "EOF" => srcPos + m = SrcLen
        /\ err = "none" => m > 0 \/ srcClosed
        /\ buf' = [i \in 0 .. BufLen - 1 |->
                     IF i \in producer.w .. producer.w + m - 1 THEN srcPos + 1 + i - producer.w
                     ELSE IF i \in producer.w .. producer.w + producer.span - 1 THEN Junk
                     ELSE buf[i]]
        /\ srcPos' = srcPos + m
        /\ srcErr' = err
        /\ producer' = [producer EXCEPT !.pc = "publish", !.m = m]
    /\ UNCHANGED <<r, n, done, closed, srcClosed, asleep, consumer, out, result>>

\* Under the lock: count what has arrived and wake Read.
Publish ==
    /\ producer.pc = "publish"
    /\ n' = n + producer.m
    /\ done' = (srcErr # "none")
    /\ asleep' = IF producer.m > 0 \/ srcErr # "none" THEN {} ELSE asleep
    /\ producer' = [producer EXCEPT !.pc = IF srcErr # "none" \/ closed THEN "end" ELSE "lock"]
    /\ UNCHANGED <<buf, r, closed, srcErr, srcPos, srcClosed, consumer, out, result>>

------------------------------------------------------------------------------
(* Read and Close *)

\* Read(b) is called with a slice of any length.
Call ==
    /\ consumer.pc = "idle" /\ result \in {"none", "data"}
    /\ \E want \in 1 .. MaxRead : consumer' = [consumer EXCEPT !.pc = "lock", !.want = want]
    /\ result' = "none"
    /\ UNCHANGED <<buf, r, n, done, closed, srcErr, srcPos, srcClosed, asleep, producer, out>>

\* Under the lock: wait while there is nothing, report the end, or choose the
\* contiguous occupied span to hand back.
Take ==
    /\ consumer.pc = "lock" /\ "consumer" \notin asleep
    /\ \/ /\ n = 0 /\ ~done /\ ~closed
          /\ asleep' = asleep \union {"consumer"}
          /\ UNCHANGED <<consumer, result>>
       \/ /\ closed
          /\ result' = "closed"
          /\ consumer' = [consumer EXCEPT !.pc = "idle"]
          /\ UNCHANGED asleep
       \/ /\ n = 0 /\ done /\ ~closed
          /\ result' = srcErr
          /\ consumer' = [consumer EXCEPT !.pc = "idle"]
          /\ UNCHANGED asleep
       \/ /\ n > 0 /\ ~closed
          /\ consumer' = [consumer EXCEPT !.pc = "copy", !.span = Least(Least(BufLen - r, n), consumer.want)]
          /\ UNCHANGED <<asleep, result>>
    /\ UNCHANGED <<buf, r, n, done, closed, srcErr, srcPos, srcClosed, producer, out>>

\* copy(b, src), without the lock.
Copy ==
    /\ consumer.pc = "copy"
    /\ consumer' = [consumer EXCEPT !.pc = "advance", !.got = [i \in 1 .. consumer.span |-> buf[r + i - 1]]]
    /\ UNCHANGED <<buf, r, n, done, closed, srcErr, srcPos, srcClosed, asleep, producer, out, result>>

\* Under the lock: give the span back to prefetch.
Advance ==
    /\ consumer.pc = "advance"
    /\ r' = (r + consumer.span) % BufLen
    /\ n' = n - consumer.span
    /\ asleep' = {}
    /\ out' = out \o consumer.got
    /\ result' = "data"
    /\ consumer' = [consumer EXCEPT !.pc = "idle", !.got = <<>>]
    /\ UNCHANGED <<buf, done, closed, srcErr, srcPos, srcClosed, producer>>

\* Close: the flag, and then src.Close, which interrupts a Read of src.
Close ==
    /\ ~closed
    /\ closed' = TRUE
    /\ asleep' = {}
    /\ UNCHANGED <<buf, r, n, done, srcErr, srcPos, srcClosed, producer, consumer, out, result>>

CloseSrc ==
    /\ closed /\ ~srcClosed
    /\ srcClosed' = TRUE
    /\ UNCHANGED <<buf, r, n, done, closed, srcErr, srcPos, asleep, producer, consumer, out, result>>

Next == Choose \/ SrcRead \/ Publish \/ Call \/ Take \/ Copy \/ Advance \/ Close \/ CloseSrc

\* Both goroutines run, and src delivers or ends; nobody has to call Read or Close.
Fairness ==
    /\ WF_vars(Choose) /\ WF_vars(SrcRead) /\ WF_vars(Publish)
    /\ WF_vars(Take) /\ WF_vars(Copy) /\ WF_vars(Advance)
    /\ WF_vars(CloseSrc)

Spec == Init /\ [][Next]_vars /\ Fairness

------------------------------------------------------------------------------
(* Properties *)

TypeOK ==
    /\ buf \in [0 .. BufLen - 1 -> 0 .. Junk]
    /\ r \in 0 .. BufLen - 1 /\ n \in 0 .. BufLen
    /\ done \in BOOLEAN /\ closed \in BOOLEAN /\ srcClosed \in BOOLEAN
    /\ srcErr \in {"none", "EOF", "failed"} /\ srcPos \in 0 .. SrcLen
    /\ asleep \subseteq {"producer", "consumer"}
    /\ result \in {"none", "data", "EOF", "failed", "closed"}

\* The bytes prefetch may write while its src.Read is under way.
Filling == IF producer.pc = "read" THEN producer.w .. producer.w + producer.span - 1 ELSE {}

\* The bytes Read is about to copy.
Draining == IF consumer.pc = "copy" THEN r .. r + consumer.span - 1 ELSE {}

\* Read hands back the bytes of src in order, all of them before it reports EOF, and
\* the two unlocked copies never touch the same byte (prefetch, Read).
PrefetchIsFaithful ==
    /\ TypeOK
    /\ out = [i \in 1 .. Len(out) |-> i]
    /\ result = "EOF" => Len(out) = SrcLen
    /\ Filling \intersect Draining = {}

\* A Read returns, and after Close the background goroutine ends, also when it was
\* waiting for room (Read, Close).
Rests == consumer.pc = "idle" /\ (closed => producer.pc = "end")
=============================================================================
