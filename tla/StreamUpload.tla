---------------------------- MODULE StreamUpload ----------------------------
(***************************************************************************)
(* Writing a blob to the remote cache: WriteBlob with batchUploadOne and   *)
(* byteStreamUpload (pkg/cas/write.go), a ByteStream write that is resumed *)
(* after a failure from what the server says it has committed.             *)
(*                                                                         *)
(* A byte is the position it has in the blob; what is sent is what the     *)
(* source yields at its own position, so that a source that is not where   *)
(* the upload believes it to be shows.  The server keeps what it committed *)
(* under each upload name, may tear a stream down with requests still on   *)
(* the way and commit those later, may lose an upload, may not implement   *)
(* QueryWriteStatus, and may find the blob finished by another client.     *)
(***************************************************************************)
EXTENDS Integers, Sequences

CONSTANTS
    Sizes,       \* of the blob
    MaxBatch,    \* capabilities.MaxBatchTotalSizeBytes, also the length of a chunk
    MaxAttempts  \* RetryPolicy.MaxAttempts

Names == 0 .. MaxAttempts  \* resource names: restart makes a new one per attempt

VARIABLES
    size, seekable, implemented,     \* the digest's size, the source, the server's QueryWriteStatus
    pc,                              \* "start", "batch", "send", "receive", "rewind", "done" or why it failed
    name, chunkStart, chunk,         \* resourceName; buf[:chunkLen] as the bytes it holds
    committed, srcEOF, noQuery,
    pos,                             \* the position of the source
    offset,                          \* of sendFrom
    attempt,                         \* retrier.attempt
    open, wire,                      \* the stream, and the requests on the way
    answer,                          \* its status: "none", "ok", "exists", "short", "transient", "permanent"
    held,                            \* what the server has under each name
    stored                           \* the server has the blob

client == <<chunkStart, chunk, srcEOF, pos>>
server == <<open, wire, answer, held, stored>>
fixed == <<size, seekable, implemented>>
vars == <<fixed, pc, name, client, committed, noQuery, offset, attempt, server>>

Init ==
    /\ size \in Sizes /\ seekable \in BOOLEAN /\ implemented \in BOOLEAN
    /\ pc = "start"
    /\ name = 0 /\ chunkStart = 0 /\ chunk = <<>>
    /\ committed = 0 /\ srcEOF = FALSE /\ noQuery = FALSE
    /\ pos = 0 /\ offset = 0 /\ attempt = 0
    /\ open = FALSE /\ wire = <<>> /\ answer = "none"
    /\ held = [m \in Names |-> <<>>]
    /\ stored = FALSE

\* The bytes of the blob after the first a, up to the b-th.
Bytes(a, b) == [i \in 1 .. b - a |-> a + i]

Least(a, b) == IF a < b THEN a ELSE b

read == chunkStart + Len(chunk)

------------------------------------------------------------------------------
(* WriteBlob *)

\* An empty blob, a small one, or a stream.
Start ==
    /\ pc = "start"
    /\ pc' = IF size = 0 THEN "done" ELSE IF size <= MaxBatch THEN "batch" ELSE "connect"
    /\ stored' = (size = 0)
    /\ UNCHANGED <<fixed, name, client, committed, noQuery, offset, attempt, open, wire, answer, held>>

\* retrier.next: another attempt or the error to report; an error that is not
\* retriable, or a context that has ended, is reported at once.
Retry(again) ==
    /\ attempt' = attempt + 1
    /\ pc' \in {"failed", IF attempt + 1 >= MaxAttempts THEN "failed" ELSE again}

\* batchUploadOne: the answer to a request that was carried out may be lost.
BatchUpload ==
    /\ pc = "batch"
    /\ \/ stored' = TRUE /\ pc' = "done" /\ UNCHANGED attempt
       \/ Retry("batch") /\ stored' \in {stored, TRUE}
    /\ UNCHANGED <<fixed, name, client, committed, noQuery, offset, open, wire, answer, held>>

------------------------------------------------------------------------------
(* sendFrom *)

\* byteStreamClient.Write opens a stream, or the attempt is over.
Connect ==
    /\ pc = "connect"
    /\ \/ /\ pc' = "send"
          /\ open' = TRUE /\ answer' = "none"
          /\ offset' = committed
          /\ UNCHANGED attempt
       \/ Retry("rewind") /\ UNCHANGED <<open, answer, offset>>
    /\ UNCHANGED <<fixed, name, client, committed, noQuery, wire, held, stored>>

\* One turn of the loop: the chunk at offset (chunkAt) is sent.  A Send on a stream
\* that has ended fails, at once or after a few more chunks, and the status is read
\* with CloseAndRecv.
Send ==
    /\ pc = "send"
    /\ LET buffered == offset < read
           n == Least(MaxBatch, size - pos)
           data == IF buffered THEN SubSeq(chunk, offset - chunkStart + 1, Len(chunk))
                   ELSE IF srcEOF THEN <<>>
                   ELSE Bytes(pos, pos + n)
           last == offset + Len(data) >= size
       IN  IF offset < chunkStart \/ (data = <<>> /\ ~last)
           THEN /\ pc' = "lost"  \* "cannot re-send blob", "source ended after"
                /\ UNCHANGED <<client, offset, wire>>
           ELSE /\ IF buffered \/ srcEOF
                   THEN UNCHANGED client
                   ELSE /\ chunkStart' = offset
                        /\ chunk' = data
                        /\ pos' = pos + n
                        /\ srcEOF' = (n < MaxBatch)
                /\ \/ /\ wire' = IF open
                                THEN Append(wire, [stream |-> attempt, name |-> name, offset |-> offset,
                                                   data |-> data, finish |-> last])
                                ELSE wire
                      /\ offset' = offset + Len(data)
                      /\ pc' = IF last THEN "receive" ELSE "send"
                   \/ /\ ~open
                      /\ pc' = "receive"
                      /\ UNCHANGED <<wire, offset>>
    /\ UNCHANGED <<fixed, name, committed, noQuery, attempt, open, answer, held, stored>>

\* CloseAndRecv: the whole blob, somebody else's, or an error.
Receive ==
    /\ pc = "receive" /\ answer # "none"
    /\ \/ /\ answer \in {"ok", "exists"}
          /\ pc' = "done"
          /\ UNCHANGED attempt
       \/ /\ answer \in {"short", "permanent"}
          /\ pc' = "failed"
          /\ attempt' = attempt + 1
       \/ /\ answer = "transient"
          /\ Retry("rewind")
    /\ UNCHANGED <<fixed, name, client, committed, noQuery, offset, server>>

------------------------------------------------------------------------------
(* rewind *)

\* rewindTo(at): the source is put back and the chunk dropped.
RewindTo(at) ==
    /\ chunkStart' = at /\ chunk' = <<>> /\ srcEOF' = FALSE
    /\ pos' = at

\* restart: from offset 0 under a fresh name, when that can still be produced.
restart ==
    \/ /\ chunkStart > 0 /\ ~seekable
       /\ pc' = "failed"
       /\ UNCHANGED <<name, client, committed>>
    \/ /\ chunkStart = 0 \/ seekable
       /\ pc' = "connect"
       /\ committed' = 0
       /\ name' = name + 1
       /\ IF chunkStart > 0 THEN RewindTo(0) ELSE UNCHANGED client

\* The server says it has the first c bytes.
ResumeAt(c) ==
    \/ /\ c >= size
       /\ pc' = "done"
       /\ UNCHANGED <<client, committed>>
    \/ /\ c < size /\ (c < chunkStart \/ c > read) /\ ~seekable
       /\ pc' = "failed"
       /\ UNCHANGED <<client, committed>>
    \/ /\ c < size /\ (c \in chunkStart .. read \/ seekable)
       /\ pc' = "connect"
       /\ committed' = c
       /\ IF c \in chunkStart .. read THEN UNCHANGED client ELSE RewindTo(c)

\* What the server answers to QueryWriteStatus for an upload it knows.
Committed == IF stored THEN size ELSE Len(held[name])

Rewind ==
    /\ pc = "rewind"
    /\ \/ noQuery /\ restart /\ UNCHANGED noQuery                            \* not asked again
       \/ ~noQuery /\ ~implemented /\ restart /\ noQuery' = TRUE             \* Unimplemented
       \/ ~noQuery /\ implemented /\ held[name] = <<>> /\ restart /\ UNCHANGED noQuery  \* NotFound
       \/ ~noQuery /\ implemented /\ ResumeAt(Committed) /\ UNCHANGED <<name, noQuery>>
       \/ ~noQuery /\ implemented /\ pc' = "failed" /\ UNCHANGED <<name, client, committed, noQuery>>
    /\ UNCHANGED <<fixed, offset, attempt, server>>

------------------------------------------------------------------------------
(* The server (external) *)

\* It takes the next request: bytes where it expects them are committed, others end
\* the stream.  Requests of a stream that has been torn down may still arrive.
Serve ==
    /\ wire # <<>>
    /\ LET msg == Head(wire)
           mine == open /\ msg.stream = attempt
           fits == msg.offset = Len(held[msg.name])
           now == held[msg.name] \o msg.data
       IN  /\ wire' = Tail(wire)
           /\ held' = IF fits THEN [held EXCEPT ![msg.name] = now] ELSE held
           /\ stored' = (stored \/ (fits /\ msg.finish /\ Len(now) = size))
           /\ answer' = IF ~mine THEN answer
                        ELSE IF ~fits THEN "permanent"
                        ELSE IF msg.finish THEN "ok" ELSE answer
           /\ open' = IF mine /\ (~fits \/ msg.finish) THEN FALSE ELSE open
    /\ UNCHANGED <<fixed, pc, name, client, committed, noQuery, offset, attempt>>

\* The stream ends early: a failure, or a blob another client has finished.  What was
\* on the way is dropped or arrives later.
TearDown ==
    /\ open
    /\ open' = FALSE
    /\ \/ answer' \in {"transient", "permanent", "short"} /\ UNCHANGED stored
       \/ answer' = "exists" /\ stored' = TRUE
    /\ wire' \in {wire, <<>>}
    /\ UNCHANGED <<fixed, pc, name, client, committed, noQuery, offset, attempt, held>>

\* The server forgets an upload.
Forget ==
    /\ held[name] # <<>> /\ ~open /\ ~stored
    /\ held' = [held EXCEPT ![name] = <<>>]
    /\ UNCHANGED <<fixed, pc, name, client, committed, noQuery, offset, attempt, open, wire, answer, stored>>

Client == Start \/ BatchUpload \/ Connect \/ Send \/ Receive \/ Rewind

Next == Client \/ Serve \/ TearDown \/ Forget

\* The client goes on, and the server takes what is sent to it.
Fairness == WF_vars(Client) /\ WF_vars(Serve)

Spec == Init /\ [][Next]_vars /\ Fairness

------------------------------------------------------------------------------
(* Properties *)

TypeOK ==
    /\ pc \in {"start", "batch", "connect", "send", "receive", "rewind", "done", "failed", "lost"}
    /\ name \in Names /\ attempt \in 0 .. MaxAttempts
    /\ chunkStart \in 0 .. size /\ pos \in 0 .. size /\ committed \in 0 .. size
    /\ answer \in {"none", "ok", "exists", "short", "transient", "permanent"}

\* Whatever is resumed from wherever, the server has under every name a prefix of the
\* blob, success means it has the blob, and the upload never asks itself for bytes it
\* does not hold or believes its source to be elsewhere than it is (chunkAt, rewind,
\* restart, rewindTo).
UploadIsFaithful ==
    /\ TypeOK
    /\ \A m \in Names : held[m] = Bytes(0, Len(held[m]))
    /\ pc = "done" => stored
    /\ pc # "lost"
    /\ pc # "batch" => pos = read

\* An upload ends (run, next).
Ended == pc \in {"done", "failed"}
=============================================================================
