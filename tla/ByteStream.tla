----------------------------- MODULE ByteStream -----------------------------
(***************************************************************************)
(* Reading a blob from the remote cache: ReadBlob and ReaderForBlob with   *)
(* batchReadOne and byteStreamReadCloser (pkg/cas/read.go), and the retry  *)
(* loop they share (pkg/cas/retry.go).                                     *)
(*                                                                         *)
(* A byte is the position it has in the blob.  The server tears streams    *)
(* down at any point, stalls until the watchdog cancels the stream, fails  *)
(* for good, or sends messages of any length, empty ones included.         *)
(***************************************************************************)
EXTENDS Integers, Sequences

CONSTANTS
    MaxSize,     \* the largest blob
    MaxBatch,    \* capabilities.MaxBatchTotalSizeBytes
    MaxMessage,  \* the longest ReadResponse
    MaxRead,     \* the largest slice a caller passes to Read
    MaxAttempts  \* RetryPolicy.MaxAttempts

NoStream == -1

VARIABLES
    size,            \* digest.SizeBytes
    pc,              \* "start", "batch", "connect", "idle", "recv", or how the read ended
    resume,          \* where connect goes on: "idle" on the first connect, "recv" later
    stream,          \* the position the server sends next on the open stream
    readFromRemote,
    buf, eof,
    room, copied,    \* of the Read under way: what is left of the slice, what is in it
    attempt,         \* retrier.attempt
    out              \* what the caller has been given

vars == <<size, pc, resume, stream, readFromRemote, buf, eof, room, copied, attempt, out>>

Init ==
    /\ size \in 0 .. MaxSize
    /\ pc = "start" /\ resume = "idle"
    /\ stream = NoStream /\ readFromRemote = 0
    /\ buf = <<>> /\ eof = FALSE
    /\ room = 0 /\ copied = <<>>
    /\ attempt = 0
    /\ out = <<>>

\* Bytes first .. last of the blob.
Bytes(first, last) == [i \in 1 .. last - first |-> first + i]

Least(a, b) == IF a < b THEN a ELSE b

------------------------------------------------------------------------------
(* retrier.next: another attempt, or the end of the read. *)

Retry(again) ==
    /\ attempt' = attempt + 1
    /\ pc' \in {"failed", IF attempt + 1 >= MaxAttempts THEN "failed" ELSE again}

------------------------------------------------------------------------------

\* ReadBlob, ReaderForBlob: an empty blob, a small one or a stream.
Start ==
    /\ pc = "start"
    /\ pc' = IF size = 0 THEN "EOF" ELSE IF size <= MaxBatch THEN "batch" ELSE "connect"
    /\ UNCHANGED <<size, resume, stream, readFromRemote, buf, eof, room, copied, attempt, out>>

\* batchReadOne: one response with exactly one blob of the right size, or a retry.
BatchRead ==
    /\ pc = "batch"
    /\ \/ out' = Bytes(0, size) /\ pc' = "EOF" /\ UNCHANGED attempt
       \/ Retry("batch") /\ UNCHANGED out
    /\ UNCHANGED <<size, resume, stream, readFromRemote, buf, eof, room, copied>>


\* connect, in the loop of ensureStream.
Connect ==
    /\ pc = "connect"
    /\ \/ /\ stream' = readFromRemote
          /\ pc' = resume
          /\ resume' = "recv"
          /\ UNCHANGED attempt
       \/ /\ Retry("connect")
          /\ stream' = NoStream
          /\ UNCHANGED resume
    /\ UNCHANGED <<size, readFromRemote, buf, eof, room, copied, out>>

\* Read(p) is called, perhaps again after EOF: buffered bytes first, and the stream when
\* they are not enough.
Read ==
    /\ pc = "idle" \/ (pc = "EOF" /\ eof)
    /\ \E want \in 1 .. MaxRead :
        LET m == Least(want, Len(buf))
            rest == SubSeq(buf, m + 1, Len(buf))
        IN  /\ buf' = rest
            /\ \/ /\ m = want
                  /\ out' = out \o SubSeq(buf, 1, m)
                  /\ pc' = IF eof /\ rest = <<>> THEN "EOF" ELSE "idle"
                  /\ UNCHANGED <<room, copied>>
               \/ /\ m < want /\ eof
                  /\ pc' = "EOF"
                  /\ UNCHANGED <<out, room, copied>>
               \/ /\ m < want /\ ~eof
                  /\ pc' = "recv"
                  /\ room' = want - m
                  /\ copied' = SubSeq(buf, 1, m)
                  /\ UNCHANGED out
    /\ UNCHANGED <<size, resume, stream, readFromRemote, eof, attempt>>

\* The rest of Read, with what recvWithReconnect returned.
Return(data, end) ==
    LET m == Least(room, Len(data)) IN
    /\ readFromRemote' = readFromRemote + Len(data)
    /\ out' = out \o copied \o SubSeq(data, 1, m)
    /\ buf' = SubSeq(data, m + 1, Len(data))
    /\ eof' = end
    /\ pc' = IF end /\ buf' = <<>> THEN "EOF" ELSE "idle"
    /\ room' = 0 /\ copied' = <<>>

\* recvOnce returns a message: forward progress restores the budget.  The stream may
\* be cancelled by a watchdog that fires as the message arrives.
Receive ==
    /\ pc = "recv" /\ readFromRemote < size /\ stream # NoStream
    /\ \E m \in 0 .. Least(MaxMessage, size - stream) :
        /\ Return(Bytes(stream, stream + m), FALSE)
        /\ attempt' = IF m > 0 THEN 0 ELSE attempt
        /\ stream' \in {stream + m, NoStream}
    /\ UNCHANGED <<size, resume>>

\* Everything has been received: no further Recv.
ReceivedAll ==
    /\ pc = "recv" /\ readFromRemote >= size
    /\ Return(<<>>, TRUE)
    /\ UNCHANGED <<size, resume, stream, attempt>>

\* The stream is torn down, stalls or was cancelled: reconnect from where it was.
Broken ==
    /\ pc = "recv" /\ readFromRemote < size
    /\ Retry("connect")
    /\ stream' = NoStream
    /\ UNCHANGED <<size, resume, readFromRemote, buf, eof, room, copied, out>>

\* Close, by a caller that has had enough.
Close ==
    /\ pc = "idle"
    /\ pc' = "closed"
    /\ stream' = NoStream
    /\ UNCHANGED <<size, resume, readFromRemote, buf, eof, room, copied, attempt, out>>

\* What goes on while a call is under way: the server answers or the watchdog fires.
Proceed == Start \/ BatchRead \/ Connect \/ Receive \/ ReceivedAll \/ Broken

Next == Proceed \/ Read \/ Close

\* A call goes on; nobody has to make one.
Fairness == WF_vars(Proceed)

Spec == Init /\ [][Next]_vars /\ Fairness

------------------------------------------------------------------------------
(* Properties *)

TypeOK ==
    /\ size \in 0 .. MaxSize
    /\ pc \in {"start", "batch", "connect", "idle", "recv", "EOF", "failed", "closed"}
    /\ resume \in {"idle", "recv"}
    /\ stream \in {NoStream} \union 0 .. MaxSize
    /\ readFromRemote \in 0 .. MaxSize
    /\ eof \in BOOLEAN
    /\ room \in 0 .. MaxRead
    /\ attempt \in 0 .. MaxAttempts

\* Whatever is torn down, the caller gets the bytes of the blob in order, each once,
\* and EOF only after the last of them (connect, Read, recvWithReconnect).
ReadIsFaithful ==
    /\ TypeOK
    /\ out = Bytes(0, Len(out))
    /\ pc = "EOF" => Len(out) = size
    /\ pc = "idle" => Len(out) + Len(buf) = readFromRemote

\* A call returns: the retry budget bounds the failures between two messages, however
\* often a stream can be reopened (next, progress).
Returned == pc \notin {"start", "batch", "connect", "recv"}
=============================================================================
