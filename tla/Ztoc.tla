-------------------------------- MODULE Ztoc --------------------------------
(***************************************************************************)
(* The checkpoints of a ztoc (pkg/ztoc/inflate.go, zinfo.go): while a      *)
(* gzip stream of any number of members is inflated, the state of the      *)
(* decompressor is recorded at block boundaries more than a span apart, so *)
(* that a reader can resume there with the bytes of one span.              *)
(*                                                                         *)
(* The stream is what the inflater meets in it: headers, blocks, literals  *)
(* and copies, each with the bits it takes.  consumed and output are the   *)
(* stream's own account, the rest is the inflater's.                       *)
(***************************************************************************)
EXTENDS Integers, Sequences

CONSTANTS
    WinSize,      \* of the sliding window
    SpanSize,
    LiteralBits,  \* the bits a literal may take
    CopyBits,
    Copies,       \* the <<length, distance>> of the copies
    HeaderBytes,  \* the sizes of a gzip header
    MaxOutput,
    MaxBlocks,
    MaxMembers

VARIABLES
    incnt, nbits,   \* bitReader: the next byte unread, the valid bits held
    buf, pos,       \* window
    total,
    memberStart,
    at,             \* "header", "boundary", "stored", "codes", "trailer", "done" or "failed"
    final,          \* whether the block is the last of its member
    lastPoint,      \* buildGzipZinfo: the output at the last checkpoint
    checkpoints,    \* sequence of [in, out, bits, window]
    consumed,       \* the bits of the stream read
    output,         \* the bytes the stream stands for
    truePoints,     \* the bits consumed at every checkpoint
    blocks, members

readerVars == <<incnt, nbits, consumed>>
windowVars == <<buf, pos, total, output>>
pointVars == <<lastPoint, checkpoints, truePoints>>
countVars == <<memberStart, blocks, members>>
Least(a, b) == IF a < b THEN a ELSE b

-----------------------------------------------------------------------------
(* bitReader *)

\* bits: bytes are loaded one at a time while fewer bits than needed are held.
Loads(need) == IF nbits < need THEN (need - nbits + 7) \div 8 ELSE 0
Bits(need) ==
    /\ incnt' = incnt + Loads(need)
    /\ nbits' = nbits + 8 * Loads(need) - need
    /\ consumed' = consumed + need

\* align, then n bytes by readByte: held ones first.
AlignedBytes(n) ==
    LET held == nbits \div 8
        fromHeld == Least(held, n)
    IN /\ incnt' = incnt + n - fromHeld
       /\ nbits' = 8 * (held - fromHeld)
       /\ consumed' = consumed + (nbits % 8) + 8 * n


\* offset: whole bytes held are put back.
offset == [in |-> incnt - nbits \div 8, bits |-> nbits % 8]

-----------------------------------------------------------------------------
(* window *)

\* emit, once and for a copy byte by byte: the n bytes dist back from the writing
\* position, each after the ones before it.
At(f, p, dist) == f[(p - dist) % WinSize]
EmitByte(b) ==
    /\ buf' = [buf EXCEPT ![pos] = b] /\ pos' = (pos + 1) % WinSize
    /\ total' = total + 1
EmitCopy(n, dist) ==
    LET step[i \in 0..n] ==
            IF i = 0 THEN buf
            ELSE [step[i - 1] EXCEPT ![(pos + i - 1) % WinSize] =
                                        At(step[i - 1], (pos + i - 1) % WinSize, dist)]
    IN /\ buf' = step[n] /\ pos' = (pos + n) % WinSize
       /\ total' = total + n

\* snapshot: the bytes before the position, zeros in front where there are fewer.
snapshot ==
    [i \in 0..(WinSize - 1) |->
        LET back == WinSize - i IN IF back > Least(total, WinSize) THEN 0 ELSE At(buf, pos, back)]

\* What a copy stands for: byte i of it is the output dist before.
Copied(n, dist) ==
    [i \in 1..n |-> output[Len(output) - dist + 1 + ((i - 1) % dist)]]

-----------------------------------------------------------------------------
(* run *)

\* readGzipHeader
ReadHeader(n) ==
    /\ at = "header" /\ at' = "boundary"
    /\ AlignedBytes(n)
    /\ memberStart' = total
    /\ UNCHANGED <<windowVars, pointVars, final, blocks, members>>

\* onBoundary of buildGzipZinfo
Record ==
    IF total # 0 /\ total - lastPoint <= SpanSize THEN UNCHANGED pointVars
    ELSE /\ checkpoints' = Append(checkpoints,
                [in |-> offset.in, out |-> total, bits |-> offset.bits, window |-> snapshot])
         /\ lastPoint' = total
         /\ truePoints' = Append(truePoints, consumed)

\* inflateBlocks: the boundary, then the three bits of the block's header.
BlockHeader(last, kind) ==
    /\ at = "boundary" /\ blocks < MaxBlocks
    /\ Record
    /\ Bits(3)
    /\ final' = last /\ at' = kind /\ blocks' = blocks + 1
    /\ UNCHANGED <<windowVars, memberStart, members>>

EndBlock == at' = IF final THEN "trailer" ELSE "boundary"

\* stored: four bytes of lengths and the bytes, here at most one.
Stored(byte) ==
    /\ at = "stored" /\ total < MaxOutput
    /\ AlignedBytes(5) /\ EmitByte(byte) /\ output' = Append(output, byte)
    /\ EndBlock
    /\ UNCHANGED <<pointVars, countVars, final>>
StoredEmpty ==
    /\ at = "stored"
    /\ AlignedBytes(4)
    /\ EndBlock
    /\ UNCHANGED <<windowVars, pointVars, countVars, final>>

\* codes2: a literal, a copy, the end of the block.
Literal(byte, n) ==
    /\ at = "codes" /\ total < MaxOutput
    /\ Bits(n) /\ EmitByte(byte) /\ output' = Append(output, byte)
    /\ UNCHANGED <<pointVars, countVars, at, final>>

CopyIsInMember(dist) == dist <= total - memberStart
Copy(c, n) ==
    /\ at = "codes" /\ total + c[1] <= MaxOutput
    /\ CopyIsInMember(c[2]) /\ c[2] <= WinSize
    /\ Bits(n) /\ EmitCopy(c[1], c[2]) /\ output' = output \o Copied(c[1], c[2])
    /\ UNCHANGED <<pointVars, countVars, at, final>>
EndOfBlock(n) ==
    /\ at = "codes"
    /\ Bits(n)
    /\ EndBlock
    /\ UNCHANGED <<windowVars, pointVars, countVars, final>>

\* readGzipTrailer, and run: the end, or another member.
ReadTrailer(more) ==
    /\ at = "trailer" /\ (more => members < MaxMembers /\ blocks < MaxBlocks)
    /\ AlignedBytes(8)
    /\ at' = IF more THEN "header" ELSE "done"
    /\ members' = members + 1
    /\ UNCHANGED <<windowVars, pointVars, memberStart, blocks, final>>

\* The stream ends early, a code is invalid, or a sum is wrong.
Invalid ==
    /\ at \notin {"done", "failed"}
    /\ at' = "failed"
    /\ UNCHANGED <<readerVars, windowVars, pointVars, countVars, final>>

ZtocInit ==
    /\ incnt = 0 /\ nbits = 0 /\ consumed = 0
    /\ buf = [i \in 0..(WinSize - 1) |-> 0] /\ pos = 0 /\ total = 0 /\ output = <<>>
    /\ memberStart = 0 /\ at = "header" /\ final = FALSE
    /\ lastPoint = 0 /\ checkpoints = <<>> /\ truePoints = <<>> /\ blocks = 0 /\ members = 0

ZtocNext ==
    \/ \E n \in HeaderBytes : ReadHeader(n)
    \/ \E last \in BOOLEAN, kind \in {"stored", "codes"} : BlockHeader(last, kind)
    \/ StoredEmpty \/ \E byte \in 1..2 : Stored(byte)
    \/ \E byte \in 1..2, n \in LiteralBits : Literal(byte, n)
    \/ \E c \in Copies, n \in CopyBits : Copy(c, n)
    \/ \E n \in LiteralBits : EndOfBlock(n)
    \/ \E more \in BOOLEAN : ReadTrailer(more)
    \/ Invalid

-----------------------------------------------------------------------------
(* spanDigests *)

Start(i) == checkpoints[i].in - (IF checkpoints[i].bits # 0 THEN 1 ELSE 0)
End(i) == IF i = Len(checkpoints) THEN incnt ELSE checkpoints[i + 1].in

-----------------------------------------------------------------------------
ZtocTypeOK ==
    /\ nbits \in 0..7 /\ pos \in 0..(WinSize - 1) /\ total \in 0..MaxOutput
    /\ at \in {"header", "boundary", "stored", "codes", "trailer", "done", "failed"}

\* A checkpoint holds the state of the decompressor where it was taken: the position to
\* the bit, and the output before it that copies may reach (of the member it is in).
CheckpointsResume ==
    \A i \in DOMAIN checkpoints :
        LET c == checkpoints[i]
        IN /\ 8 * c.in - c.bits = truePoints[i] /\ c.bits \in 0..7
           /\ \A back \in 1..WinSize :
                c.window[WinSize - back] = IF back > c.out THEN 0 ELSE output[c.out - back + 1]

\* The bytes of a span hold every bit from its checkpoint to the next, the spans leave
\* out nothing of the stream after its header, and they are more than the span size
\* apart once there is output.
SpansCoverTheStream ==
    \A i \in DOMAIN checkpoints :
        /\ 8 * Start(i) <= truePoints[i] /\ truePoints[i] - 8 * Start(i) < 8
        /\ i < Len(checkpoints) =>
            /\ truePoints[i + 1] <= 8 * End(i) /\ Start(i + 1) <= End(i)
            /\ checkpoints[i + 1].out = 0 \/ checkpoints[i + 1].out - checkpoints[i].out > SpanSize
        /\ at = "done" => 8 * incnt = consumed

\* A member is inflated from its own bytes: the window gives what the stream stands for.
WindowIsTheOutput ==
    /\ total = Len(output)
    /\ \A back \in 1..Least(total, WinSize) : At(buf, pos, back) = output[total - back + 1]

ZtocResumes == CheckpointsResume /\ SpansCoverTheStream /\ WindowIsTheOutput
=============================================================================
