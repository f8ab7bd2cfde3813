---------------------------- MODULE ImapCompress ----------------------------
(***************************************************************************)
(* COMPRESS=DEFLATE: the stream wrapper of imap/compress.rs.  Plain octets *)
(* are numbered in the order in which they are sent.  A compressed unit    *)
(* stands for a number of plain octets; the inflater is flate2's: it may   *)
(* take in units and keep octets for which its output buffer has no room.  *)
(* The inner stream takes and gives as much as it likes, or nothing.       *)
(***************************************************************************)
EXTENDS Integers, Sequences, SequencesExt

CONSTANTS
    ZChunk,         \* CHUNK: octets one inflate pass may produce
    ZUnits,         \* the units the client sends, each by the octets it stands for
    ZBuffers        \* the lengths of the buffers the server writes

VARIABLES
    \* reading
    zWire,          \* units not read from the inner stream yet
    zRaw,           \* raw_in past raw_in_pos: units read and not inflated
    zInside,        \* octets inside the inflater
    zPlain,         \* plain_in
    zRead,          \* octets handed to the caller so far
    zWaiting,       \* the caller waits for the inner stream
    \* writing
    zLeft,          \* buffers the server has still to write; the first one is in hand
    zOut,           \* raw_out, as the octets it stands for
    zSent,          \* octets the inner stream took
    zAccepted,      \* octets poll_write reported as written
    zFlushed        \* the last flush was answered Ready

zVars == <<zWire, zRaw, zInside, zPlain, zRead, zWaiting, zLeft, zOut, zSent, zAccepted, zFlushed>>
zReading == <<zWire, zRaw, zInside, zPlain, zRead, zWaiting>>
zWriting == <<zLeft, zOut, zSent, zAccepted, zFlushed>>

Sum(s) == FoldLeft(LAMBDA a, b : a + b, 0, s)
Least(a, b) == IF a < b THEN a ELSE b

ZInit ==
    /\ zWire = ZUnits /\ zRaw = <<>> /\ zInside = 0 /\ zPlain = 0 /\ zRead = 0 /\ zWaiting = FALSE
    /\ zLeft = ZBuffers /\ zOut = <<>> /\ zSent = <<>> /\ zAccepted = 0 /\ zFlushed = TRUE

----------------------------------------------------------------------------
(* poll_read *)

\* inflated octets are handed over first
TakePlain(n) ==
    /\ zPlain > 0 /\ n \in 1..zPlain
    /\ zRead' = zRead + n /\ zPlain' = zPlain - n
    /\ UNCHANGED <<zWire, zRaw, zInside, zWaiting, zWriting>>

\* one pass of the inflater over what is left of raw_in: it consumes n units
Inflate(n) ==
    /\ zPlain = 0 /\ zRaw # <<>> /\ n \in 0..Len(zRaw)
    /\ n = 0 => zInside > 0
    /\ LET inside == zInside + Sum(SubSeq(zRaw, 1, n)) IN
         /\ zPlain' = Least(inside, ZChunk)
         /\ zInside' = inside - Least(inside, ZChunk)
    /\ zRaw' = SubSeq(zRaw, n + 1, Len(zRaw))
    /\ UNCHANGED <<zWire, zRead, zWaiting, zWriting>>

\* mutant: the rest of raw_in is dropped with what is consumed
RefillDropping(n) ==
    /\ zPlain = 0 /\ n \in 1..Len(zWire)
    /\ zRaw' = SubSeq(zWire, 1, n)
    /\ zWire' = SubSeq(zWire, n + 1, Len(zWire))
    /\ zWaiting' = FALSE
    /\ UNCHANGED <<zInside, zPlain, zRead, zWriting>>

\* the inner stream has units: they are appended to the remainder
Refill(n) ==
    /\ zPlain = 0 /\ zRaw = <<>> /\ n \in 1..Len(zWire)
    /\ zRaw' = zRaw \o SubSeq(zWire, 1, n)
    /\ zWire' = SubSeq(zWire, n + 1, Len(zWire))
    /\ zWaiting' = FALSE
    /\ UNCHANGED <<zInside, zPlain, zRead, zWriting>>

\* or it has none yet
ReadPending ==
    /\ zPlain = 0 /\ zRaw = <<>> /\ ~zWaiting
    /\ zWaiting' = TRUE
    /\ UNCHANGED <<zWire, zRaw, zInside, zPlain, zRead, zWriting>>

----------------------------------------------------------------------------
(* poll_write and poll_flush *)

\* drain: the inner stream takes the first n octets of raw_out
Drained(out, n) == SubSeq(out, n + 1, Len(out))

\* the octets of a buffer, numbered on from those accepted
Octets(k) == [i \in 1..k |-> zAccepted + i]

\* mutant: the buffer is deflated before raw_out has gone out
PollWriteTwice(n, m) ==
    /\ zLeft # <<>> /\ zOut # <<>> /\ n \in 0..Len(zOut) - 1 /\ m = 0
    /\ zSent' = zSent \o SubSeq(zOut, 1, n)
    /\ zOut' = Drained(zOut, n) \o Octets(Head(zLeft))
    /\ UNCHANGED <<zLeft, zAccepted, zFlushed, zReading>>

\* raw_out is not empty and does not drain: Pending, the buffer is untouched
PollWriteBlocked(n, m) ==
    /\ zLeft # <<>> /\ zOut # <<>> /\ n \in 0..Len(zOut) - 1 /\ m = 0
    /\ zSent' = zSent \o SubSeq(zOut, 1, n)
    /\ zOut' = Drained(zOut, n)
    /\ UNCHANGED <<zLeft, zAccepted, zFlushed, zReading>>

\* raw_out drains, k octets of the buffer are deflated with a sync flush, and as
\* many as the inner stream takes go out at once
PollWrite(k, m) ==
    /\ zLeft # <<>> /\ k \in 1..Head(zLeft) /\ m \in 0..k
    /\ LET octets == Octets(k) IN
         /\ zSent' = zSent \o zOut \o SubSeq(octets, 1, m)
         /\ zOut' = Drained(octets, m)
    /\ zAccepted' = zAccepted + k
    /\ zLeft' = IF k = Head(zLeft) THEN Tail(zLeft) ELSE [zLeft EXCEPT ![1] = @ - k]
    /\ zFlushed' = FALSE
    /\ UNCHANGED zReading

\* flush drains what is left, or is pending
PollFlush(n) ==
    /\ ~zFlushed /\ n \in 0..Len(zOut)
    /\ zSent' = zSent \o SubSeq(zOut, 1, n)
    /\ zOut' = Drained(zOut, n)
    /\ zFlushed' = (n = Len(zOut))
    /\ UNCHANGED <<zLeft, zAccepted, zReading>>

ZNext ==
    \/ \E n \in 0..Sum(ZUnits) : TakePlain(n) \/ Inflate(n) \/ Refill(n) \/ PollFlush(n)
    \/ ReadPending
    \/ \E n, m \in 0..Sum(ZBuffers) : PollWriteBlocked(n, m) \/ PollWrite(n, m)

----------------------------------------------------------------------------
(* Properties *)

\* "a Pending here can never deflate the same bytes twice": the peer inflates
\* exactly the octets that were reported as written, each once and in order,
\* whatever the inner stream takes at a time; after a flush it has all of them.
WrittenOnce ==
    /\ zSent \o zOut = [i \in 1..zAccepted |-> i]
    /\ zFlushed => zOut = <<>>

\* No octet the client sent goes missing on the way in: what was read, what is
\* inflated, what is inside the inflater and what is still compressed add up.
ReadsAll == zRead + zPlain + zInside + Sum(zRaw) + Sum(zWire) = Sum(ZUnits)

\* When the reader waits for the peer, everything that came in was handed on.
\* Not so: an inflate pass that takes in the last unit and fills its output
\* buffer leaves octets inside, and they are asked for only after more input.
NothingHeldBack == (zWaiting /\ zWire = <<>> /\ zPlain = 0 /\ zRaw = <<>>) => zInside = 0

=============================================================================
