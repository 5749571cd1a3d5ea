----------------------------- MODULE FrameReader -----------------------------
(***************************************************************************)
(* sentinel_thread() of sentinel.rs: the thread that reads a sentinel      *)
(* pipe to its end, frame by frame, however the bytes arrive, and then     *)
(* sends whether one of the frames was a sentinel message.                 *)
(***************************************************************************)
EXTENDS Integers, Sequences

CONSTANTS
  Byte,           \* what the writers may put into the pipe
  SENTINEL_MAGIC, \* the four bytes a sentinel message begins with
  Zero,           \* the bytes the buffer begins with
  Writes,         \* the byte sequences WriteFile() is called with
  MaxBytes        \* bound on the bytes written in all

SENTINEL_MSG_LEN == 8

ASSUME FrameAssumption ==
  /\ Zero \in Byte
  /\ SENTINEL_MAGIC \in [1..4 -> Byte]
  /\ Writes \subseteq Seq(Byte)
  /\ MaxBytes \in Nat

VARIABLES
  written,    \* all the bytes written to the pipe, in order
  open,       \* some process has the write end
  taken,      \* how many of the bytes have been read
  buf,        \* the frame being read
  offset,     \* bytes of it read so far
  received,   \* a sentinel message was seen
  thread      \* "loop", or how it was left: "eof", "failed"

pipeVars   == <<written, open>>
readerVars == <<taken, buf, offset, received, thread>>
vars == <<pipeVars, readerVars>>

Init ==
  /\ written = <<>> /\ open = TRUE
  /\ taken = 0
  /\ buf = [i \in 1..SENTINEL_MSG_LEN |-> Zero]
  /\ offset = 0
  /\ received = FALSE
  /\ thread = "loop"

-----------------------------------------------------------------------------
(* The writers.                                                            *)

\* A WriteFile() on the write end: a whole message, or anything else.  Nobody
\* can write once the thread has closed the read end.
Write(bytes) ==
  /\ open /\ thread = "loop"
  /\ Len(written) + Len(bytes) <= MaxBytes
  /\ written' = written \o bytes
  /\ UNCHANGED <<open, readerVars>>

\* The last process that has the write end closes it, or ends.
Close ==
  /\ open
  /\ open' = FALSE
  /\ UNCHANGED <<written, readerVars>>

-----------------------------------------------------------------------------
(* The thread.                                                             *)

\* buf with the next n bytes of the pipe from offset on.
Filled(n) ==
  [i \in 1..SENTINEL_MSG_LEN |->
     IF i \in offset + 1 .. offset + n THEN written[taken + i - offset]
     ELSE buf[i]]

HasMagic(b) == \A i \in 1..4 : b[i] = SENTINEL_MAGIC[i]

\* Fault: the offset is not set back.
ReadNoReset(n) ==
  /\ thread = "loop"
  /\ offset + n <= SENTINEL_MSG_LEN /\ taken + n <= Len(written)
  /\ taken' = taken + n
  /\ buf' = Filled(n)
  /\ offset' = offset + n
  /\ received' = (received \/ (offset' >= SENTINEL_MSG_LEN /\ HasMagic(buf')))
  /\ UNCHANGED <<pipeVars, thread>>

\* Fault: every chunk is looked at, and taken for a frame of its own.
ReadByChunk(n) ==
  /\ thread = "loop"
  /\ offset + n <= SENTINEL_MSG_LEN /\ taken + n <= Len(written)
  /\ taken' = taken + n
  /\ buf' = Filled(n)
  /\ offset' = 0 /\ received' = (received \/ HasMagic(buf'))
  /\ UNCHANGED <<pipeVars, thread>>

\* ReadFile() returns n bytes, of those there are and no more than the frame
\* lacks; a complete frame is looked at, and the next one begins.
Read(n) ==
  /\ thread = "loop"
  /\ offset + n <= SENTINEL_MSG_LEN /\ taken + n <= Len(written)
  /\ taken' = taken + n
  /\ buf' = Filled(n)
  /\ IF offset + n >= SENTINEL_MSG_LEN
     THEN offset' = 0 /\ received' = (received \/ HasMagic(buf'))
     ELSE offset' = offset + n /\ received' = received
  /\ UNCHANGED <<pipeVars, thread>>

\* Fault: a frame that was begun is waited for, even if nobody can write it.
ReaderEndsAligned ==
  /\ thread = "loop" /\ ~open /\ taken = Len(written) /\ offset = 0
  /\ thread' = "eof"
  /\ UNCHANGED <<pipeVars, taken, buf, offset, received>>

\* The pipe is read to its end, and nobody can write any more.  A frame that
\* was begun is dropped, and the verdict is sent.
ReaderEnds ==
  /\ thread = "loop" /\ ~open /\ taken = Len(written)
  /\ thread' = "eof"
  /\ UNCHANGED <<pipeVars, taken, buf, offset, received>>

\* ReadFile() fails, or returns the no bytes of an empty WriteFile(): this ends
\* the loop just as well, whatever else is or will be in the pipe.
ReaderFails ==
  /\ thread = "loop"
  /\ thread' = "failed"
  /\ UNCHANGED <<pipeVars, taken, buf, offset, received>>

Reader == ReaderEnds \/ \E n \in 1..SENTINEL_MSG_LEN : Read(n)

Next ==
  \/ Reader \/ ReaderFails \/ Close
  \/ \E bytes \in Writes : Write(bytes)

Spec == Init /\ [][Next]_vars

-----------------------------------------------------------------------------
\* The offset stays within the buffer, and the reads within the pipe.
TypeOK ==
  /\ written \in Seq(Byte) /\ open \in BOOLEAN
  /\ taken \in 0..Len(written)
  /\ buf \in [1..SENTINEL_MSG_LEN -> Byte]
  /\ offset \in 0..(SENTINEL_MSG_LEN - 1)
  /\ received \in BOOLEAN
  /\ thread \in {"loop", "eof", "failed"}

\* The k-th frame of what was read, from 0 on, is complete and a message.
IsMessage(k) ==
  /\ SENTINEL_MSG_LEN * k + SENTINEL_MSG_LEN <= taken
  /\ \A i \in 1..4 : written[SENTINEL_MSG_LEN * k + i] = SENTINEL_MAGIC[i]

\* The buffer holds the frame that was begun, at its place in the pipe.
FrameInBuffer ==
  \E f \in 0..taken :
    /\ taken = SENTINEL_MSG_LEN * f + offset
    /\ \A i \in 1..offset : buf[i] = written[SENTINEL_MSG_LEN * f + i]

\* However ReadFile() cuts the bytes into pieces, the verdict is about what was
\* written: true exactly if a frame was a message, whatever came before it and
\* after it, and never for a message that was cut off or begun in mid-frame.
VerdictIsExact ==
  /\ FrameInBuffer
  /\ received <=> \E k \in 0..taken : IsMessage(k)

\* Once nobody has the write end the thread ends, also in mid-frame.
VerdictComes == ~open ~> thread # "loop"
=============================================================================
