------------------------ MODULE SentinelMessageProofs ------------------------
(***************************************************************************)
(* Theorems about SentinelMessage: from the calls of the builder to the    *)
(* verdict of the thread, for any strings, any writes and any pieces.      *)
(***************************************************************************)
EXTENDS SentinelMessage, CommandProofs, FrameReaderProofs

-----------------------------------------------------------------------------
(* The invariant.                                                          *)

\* The k-th frame that was written, from 0 on, begins as a message does.
Begins(k) == \A i \in 1..4 : written[8 * k + i] = SENTINEL_MAGIC[i]

\* What was written is frames, and one of them a message exactly if the child
\* has had its say.
FramesTell ==
  \E m \in Nat :
    /\ Len(written) = 8 * m
    /\ child = "exited" /\ thread # "failed" => \E k \in 0..(m - 1) : Begins(k)
    /\ child # "exited" => \A k \in 0..(m - 1) : ~Begins(k)

\* A child is one of a command with a sentinel, and has its handle.
ChildIsTold ==
  child # "none" =>
    /\ state = "created" /\ "Sentinel" \in monitors
    /\ OneSpelling(ENV_VAR) => told = Handle

\* Nothing is in the pipe before there is a child.
PipeIsEmpty ==
  child = "none" => written = <<>> /\ thread = "loop"

MessageInv ==
  /\ CommandInv /\ TypeOK /\ VerdictIsExact
  /\ child \in {"none", "running", "exited"} /\ whole \in BOOLEAN
  /\ ChildIsTold /\ PipeIsEmpty
  /\ thread = "eof" => taken = Len(written)
  /\ whole /\ OneSpelling(ENV_VAR) => FramesTell

\* What follows of the command, as nothing of it changes once it is created.
LEMMA CommandIsOver ==
  ASSUME state = "created", CommandNext
  PROVE  FALSE
BY DEF CommandNext, Spawn, CreateProcess, EnvClear, Arg, EnvRemove, Env,
       AddMonitor, Call

\* What does not touch the command keeps its part of the invariant.
LEMMA CommandKept ==
  ASSUME MessageInv, UNCHANGED commandVars
  PROVE  /\ CommandInv'
         /\ OneSpelling(ENV_VAR)' <=> OneSpelling(ENV_VAR)
         /\ UNCHANGED <<state, monitors, told>>
<1>1. CommandInv'
  BY CommandStep DEF MessageInv
<1>2. UNCHANGED <<state, monitors, told, spelled>>
  BY DEF commandVars
<1> QED BY <1>1, <1>2 DEF OneSpelling, Spellings

\* A function on 1..n is a sequence.
LEMMA TupleIs ==
  ASSUME NEW S, NEW n \in Nat, NEW f \in [1..n -> S]
  PROVE  f \in Seq(S) /\ Len(f) = n
OBVIOUS

\* The message is one frame, and begins with the magic.
LEMMA MessageIs ==
  /\ Message \in Seq(Byte) /\ Len(Message) = 8
  /\ \A i \in 1..4 : Message[i] = SENTINEL_MAGIC[i]
<1> DEFINE z == [i \in 1..4 |-> Zero]
<1>1. SENTINEL_MAGIC \in Seq(Byte) /\ Len(SENTINEL_MAGIC) = 4
  BY FrameAssumption, TupleIs
<1>2. z \in Seq(Byte) /\ Len(z) = 4
  <2>1. z \in [1..4 -> Byte]
    BY FrameAssumption
  <2> HIDE DEF z
  <2> QED BY <2>1, TupleIs
<1>3. Message = SENTINEL_MAGIC \o z
  BY DEF Message
<1> HIDE DEF z
<1>4. /\ SENTINEL_MAGIC \o z \in Seq(Byte) /\ Len(SENTINEL_MAGIC \o z) = 8
      /\ \A i \in 1..4 : (SENTINEL_MAGIC \o z)[i] = SENTINEL_MAGIC[i]
  BY <1>1, <1>2, ConcatProperties
<1> QED BY <1>3, <1>4

\* A write adds to what was written.
LEMMA WriteAdds ==
  ASSUME TypeOK, NEW bytes \in Seq(Byte), Write(bytes)
  PROVE  /\ Len(written') = Len(written) + Len(bytes)
         /\ Len(written) \in Nat
         /\ \A i \in 1..Len(written) : written'[i] = written[i]
         /\ \A i \in 1..Len(bytes) : written'[Len(written) + i] = bytes[i]
<1>1. written \in Seq(Byte) /\ written' = written \o bytes
  BY DEF TypeOK, Write
<1> QED BY <1>1

\* A frame that is written leaves those before it as they are.
LEMMA FrameAdded ==
  ASSUME TypeOK, NEW bytes \in Seq(Byte), Len(bytes) = 8, Write(bytes),
         NEW m \in Nat, Len(written) = 8 * m
  PROVE  /\ Len(written') = 8 * (m + 1)
         /\ \A k \in 0..(m - 1) : Begins(k)' <=> Begins(k)
         /\ Begins(m)' <=> \A i \in 1..4 : bytes[i] = SENTINEL_MAGIC[i]
<1>6. /\ Len(written') = Len(written) + Len(bytes)
      /\ \A i \in 1..Len(written) : written'[i] = written[i]
      /\ \A i \in 1..Len(bytes) : written'[Len(written) + i] = bytes[i]
  BY WriteAdds
<1>1. /\ Len(written') = 8 * m + 8
      /\ \A i \in 1..(8 * m) : written'[i] = written[i]
      /\ \A i \in 1..8 : written'[8 * m + i] = bytes[i]
  BY <1>6
<1>2. ASSUME NEW k \in 0..(m - 1), NEW i \in 1..4
      PROVE  8 * k + i \in 1..(8 * m)
  OBVIOUS
<1>3. \A k \in 0..(m - 1) : Begins(k)' <=> Begins(k)
  BY <1>1, <1>2 DEF Begins
<1>4. Begins(m)' <=> \A i \in 1..4 : bytes[i] = SENTINEL_MAGIC[i]
  <2>1. \A i \in 1..4 : written'[8 * m + i] = bytes[i]
    BY <1>1
  <2>2. Begins(m)' <=> \A i \in 1..4 : written'[8 * m + i] = SENTINEL_MAGIC[i]
    BY DEF Begins
  <2> QED BY <2>1, <2>2
<1>5. 8 * m + 8 = 8 * (m + 1)
  OBVIOUS
<1> QED BY <1>1, <1>3, <1>4, <1>5

-----------------------------------------------------------------------------
(* The steps.                                                              *)

\* The invariant holds before anything is called or written.
LEMMA MessageInitInv == MessageInit => MessageInv
<1> SUFFICES ASSUME MessageInit PROVE MessageInv
  OBVIOUS
<1>1. CommandInv
  BY CommandInitInv DEF MessageInit
<1>2. TypeOK /\ VerdictIsExact
  BY InitInvariant DEF MessageInit
<1>3. written = <<>> /\ thread = "loop" /\ child = "none" /\ whole = TRUE
  BY DEF MessageInit, Init
<1>4. FramesTell
  <2>1. Len(written) = 8 * 0 /\ \A k \in 0..(0 - 1) : ~Begins(k)
    BY <1>3
  <2> QED BY <1>3, <2>1 DEF FramesTell
<1> QED BY <1>1, <1>2, <1>3, <1>4 DEF MessageInv, ChildIsTold, PipeIsEmpty

\* Which child is told what, by CreateProcess.
LEMMA CreatedIsTold ==
  ASSUME CommandInv, CreateProcess, "Sentinel" \in monitors,
         OneSpelling(ENV_VAR)'
  PROVE  told' = Handle
<1>1. state = "asked" /\ ENV_VAR \in Names
  BY CommandAssumption DEF CreateProcess
<1>2. OneSpelling(ENV_VAR)
  <2>1. \A k \in Spellings : SameName(k, ENV_VAR) => k \in Spellings'
    BY DEF Spellings, CreateProcess
  <2> QED BY <2>1 DEF OneSpelling
<1>3. SameName(ENV_VAR, ENV_VAR)
  BY DEF SameName
<1>4. ChildReads(ENV_VAR) = Handle
  BY <1>1, <1>2, <1>3 DEF CommandInv, EnvironmentAsWanted
<1> QED BY <1>4 DEF CreateProcess

\* A step of the builder, which may start the child, keeps the invariant.
LEMMA BuildStep ==
  ASSUME MessageInv, Build
  PROVE  MessageInv'
<1>1. CommandNext /\ UNCHANGED <<written, open, taken, buf, offset, received,
                                 thread, whole>>
      /\ child' = IF state' = "created" /\ "Sentinel" \in monitors
                  THEN "running" ELSE child
  BY DEF Build, vars, pipeVars, readerVars
<1>2. child = "none" /\ written = <<>> /\ thread = "loop"
  BY <1>1, CommandIsOver DEF MessageInv, ChildIsTold, PipeIsEmpty
<1>3. CommandInv'
  BY <1>1, CommandStep DEF MessageInv
<1>4. TypeOK' /\ VerdictIsExact'
  BY <1>1 DEF MessageInv, TypeOK, VerdictIsExact, FrameInBuffer, IsMessage
<1>5. FramesTell'
  <2>1. Len(written') = 8 * 0 /\ child' # "exited"
        /\ \A k \in 0..(0 - 1) : ~Begins(k)'
    BY <1>1, <1>2
  <2> QED BY <2>1 DEF FramesTell
<1>6. ChildIsTold'
  <2> SUFFICES ASSUME child' # "none" PROVE ChildIsTold'
    BY DEF ChildIsTold
  <2>1. state' = "created" /\ "Sentinel" \in monitors
    BY <1>1, <1>2
  <2>2. CreateProcess
    BY <1>1, <2>1 DEF CommandNext, Spawn, EnvClear, Arg, EnvRemove, Env,
                      AddMonitor, Call
  <2>3. "Sentinel" \in monitors'
    BY <2>1, <2>2 DEF CreateProcess
  <2>4. OneSpelling(ENV_VAR)' => told' = Handle
    BY <2>1, <2>2, CreatedIsTold DEF MessageInv
  <2> QED BY <2>1, <2>3, <2>4 DEF ChildIsTold
<1>7. PipeIsEmpty' /\ child' \in {"none", "running", "exited"}
      /\ whole' \in BOOLEAN /\ thread' # "eof"
  BY <1>1, <1>2 DEF PipeIsEmpty, MessageInv
<1> QED BY <1>3, <1>4, <1>5, <1>6, <1>7 DEF MessageInv

\* The write of the child makes the verdict due, if it succeeds.
LEMMA CooperateStep ==
  ASSUME MessageInv, Cooperate
  PROVE  MessageInv'
<1>1. child = "running" /\ child' = "exited" /\ whole' = whole
      /\ UNCHANGED commandVars
  BY DEF Cooperate
<1>2. CommandInv' /\ (OneSpelling(ENV_VAR)' <=> OneSpelling(ENV_VAR))
      /\ UNCHANGED <<state, monitors, told>>
  BY <1>1, CommandKept
<1>3. ChildIsTold' /\ PipeIsEmpty'
  BY <1>1, <1>2 DEF MessageInv, ChildIsTold, PipeIsEmpty
<1>4. TypeOK /\ VerdictIsExact /\ whole \in BOOLEAN
  BY DEF MessageInv
<1>5. CASE told = Handle /\ thread # "failed"
  <2>1. Write(Message)
    BY <1>5 DEF Cooperate
  <2>2. thread = "loop" /\ thread' = "loop"
    BY <2>1 DEF Write, readerVars
  <2>3. TypeOK' /\ VerdictIsExact'
    BY <1>4, <2>1, MessageIs, TypeWrite, ExactWrite
  <2>4. ASSUME whole, OneSpelling(ENV_VAR) PROVE FramesTell'
    <3>1. PICK m \in Nat : Len(written) = 8 * m
      BY <2>4 DEF MessageInv, FramesTell
    <3>2. Len(written') = 8 * (m + 1) /\ Begins(m)'
      BY <1>4, <2>1, <3>1, MessageIs, FrameAdded
    <3>3. m + 1 \in Nat /\ m \in 0..((m + 1) - 1)
      OBVIOUS
    <3> QED BY <1>1, <3>2, <3>3 DEF FramesTell
  <2> QED BY <1>1, <1>2, <1>3, <1>4, <2>2, <2>3, <2>4 DEF MessageInv
<1>6. CASE ~(told = Handle /\ thread # "failed")
  <2>1. UNCHANGED <<written, open, taken, buf, offset, received, thread>>
    BY <1>6 DEF Cooperate, vars, pipeVars, readerVars
  <2>2. TypeOK' /\ VerdictIsExact'
    BY <1>4, <2>1 DEF TypeOK, VerdictIsExact, FrameInBuffer, IsMessage
  <2>3. ASSUME whole, OneSpelling(ENV_VAR) PROVE FramesTell'
    <3>1. thread = "failed"
      BY <1>1, <1>6, <2>3 DEF MessageInv, ChildIsTold
    <3>2. PICK m \in Nat : Len(written) = 8 * m
      BY <2>3 DEF MessageInv, FramesTell
    <3> QED BY <1>1, <2>1, <3>1, <3>2 DEF FramesTell
  <2>4. thread' = "eof" => taken' = Len(written')
    BY <2>1 DEF MessageInv
  <2> QED BY <1>1, <1>2, <1>3, <1>4, <2>2, <2>3, <2>4 DEF MessageInv
<1> QED BY <1>5, <1>6

\* The writes of others bring no message.
LEMMA ChatterStep ==
  ASSUME MessageInv, NEW bytes \in Writes, Chatter(bytes)
  PROVE  MessageInv'
<1>1. child # "none" /\ child' = child /\ UNCHANGED commandVars
      /\ whole' = (whole /\ Len(bytes) = 8) /\ Write(bytes)
  BY DEF Chatter, SENTINEL_MSG_LEN
<1>2. CommandInv' /\ (OneSpelling(ENV_VAR)' <=> OneSpelling(ENV_VAR))
      /\ UNCHANGED <<state, monitors, told>>
  BY <1>1, CommandKept
<1>3. ChildIsTold' /\ PipeIsEmpty'
  BY <1>1, <1>2 DEF MessageInv, ChildIsTold, PipeIsEmpty
<1>4. TypeOK /\ VerdictIsExact /\ whole' \in BOOLEAN /\ bytes \in Seq(Byte)
  BY <1>1, FrameAssumption DEF MessageInv
<1>5. thread' = "loop" /\ thread = "loop"
  BY <1>1 DEF Write, readerVars
<1>6. TypeOK' /\ VerdictIsExact'
  BY <1>1, <1>4, TypeWrite, ExactWrite
<1>7. ASSUME whole', OneSpelling(ENV_VAR)' PROVE FramesTell'
  <2>1. FramesTell /\ Len(bytes) = 8
    BY <1>1, <1>2, <1>7 DEF MessageInv
  <2>2. PICK m \in Nat :
          /\ Len(written) = 8 * m
          /\ child = "exited" /\ thread # "failed" =>
               \E k \in 0..(m - 1) : Begins(k)
          /\ child # "exited" => \A k \in 0..(m - 1) : ~Begins(k)
    BY <2>1 DEF FramesTell
  <2>3. /\ Len(written') = 8 * (m + 1)
        /\ \A k \in 0..(m - 1) : Begins(k)' <=> Begins(k)
        /\ Begins(m)' <=> \A i \in 1..4 : bytes[i] = SENTINEL_MAGIC[i]
    BY <1>1, <1>4, <2>1, <2>2, FrameAdded
  <2>4. ~Begins(m)'
    BY <2>1, <2>3, ChatterAssumption DEF SENTINEL_MSG_LEN
  <2>5. m + 1 \in Nat /\ \A k \in 0..(m - 1) : k \in 0..((m + 1) - 1)
    OBVIOUS
  <2>6. \A k \in 0..((m + 1) - 1) : k = m \/ k \in 0..(m - 1)
    OBVIOUS
  <2>7. child' = "exited" /\ thread' # "failed" =>
          \E k \in 0..((m + 1) - 1) : Begins(k)'
    BY <1>1, <1>5, <2>2, <2>3, <2>5
  <2>8. child' # "exited" => \A k \in 0..((m + 1) - 1) : ~Begins(k)'
    BY <1>1, <2>2, <2>3, <2>4, <2>6
  <2> QED BY <2>3, <2>5, <2>7, <2>8 DEF FramesTell
<1> QED BY <1>1, <1>2, <1>3, <1>4, <1>5, <1>6, <1>7 DEF MessageInv

\* The thread, and the closing of the pipe.
LEMMA ThreadStep ==
  ASSUME MessageInv, PipeStep \/ ReaderStep
  PROVE  MessageInv'
<1>1. child # "none" /\ UNCHANGED commandVars /\ child' = child
      /\ whole' = whole
      /\ (Close \/ ReaderFails \/ Reader)
  BY DEF PipeStep, ReaderStep, childVars
<1>2. CommandInv' /\ (OneSpelling(ENV_VAR)' <=> OneSpelling(ENV_VAR))
      /\ UNCHANGED <<state, monitors, told>>
  BY <1>1, CommandKept
<1>3. ChildIsTold' /\ PipeIsEmpty'
  BY <1>1, <1>2 DEF MessageInv, ChildIsTold, PipeIsEmpty
<1>4. TypeOK /\ VerdictIsExact
  BY DEF MessageInv
<1>5. [Next]_vars
  BY <1>1 DEF Next
<1>6. TypeOK' /\ VerdictIsExact'
  BY <1>4, <1>5, TypeStep, ExactStep
<1>7. written' = written /\ (thread' = thread \/ thread = "loop")
      /\ (thread' = "eof" => taken' = Len(written'))
  <2>1. CASE Close
    BY <2>1 DEF Close, readerVars, MessageInv
  <2>2. CASE ReaderFails
    BY <2>2 DEF ReaderFails, pipeVars
  <2>3. CASE Reader
    BY <2>3 DEF Reader, Read, ReaderEnds, pipeVars
  <2> QED BY <1>1, <2>1, <2>2, <2>3
<1>8. FramesTell => FramesTell'
  BY <1>1, <1>7 DEF FramesTell, Begins
<1> QED BY <1>1, <1>2, <1>3, <1>4, <1>6, <1>7, <1>8 DEF MessageInv

\* Every step keeps the invariant.
LEMMA MessageStep == MessageInv /\ [MessageNext]_messageVars => MessageInv'
<1> SUFFICES ASSUME MessageInv, [MessageNext]_messageVars PROVE MessageInv'
  OBVIOUS
<1>1. CASE MessageNext
  BY <1>1, BuildStep, CooperateStep, ChatterStep, ThreadStep DEF MessageNext
<1>2. CASE UNCHANGED messageVars
  <2>1. UNCHANGED <<commandVars, written, open, taken, buf, offset, received,
                    thread, child, whole>>
    BY <1>2 DEF messageVars, vars, pipeVars, readerVars, childVars
  <2>2. CommandInv' /\ (OneSpelling(ENV_VAR)' <=> OneSpelling(ENV_VAR))
        /\ UNCHANGED <<state, monitors, told>>
    BY <2>1, CommandKept
  <2>3. ChildIsTold' /\ PipeIsEmpty'
    BY <2>1, <2>2 DEF MessageInv, ChildIsTold, PipeIsEmpty
  <2>4. TypeOK' /\ VerdictIsExact'
    BY <2>1 DEF MessageInv, TypeOK, VerdictIsExact, FrameInBuffer, IsMessage
  <2>5. FramesTell => FramesTell'
    BY <2>1 DEF FramesTell, Begins
  <2> QED BY <2>1, <2>2, <2>3, <2>4, <2>5 DEF MessageInv
<1> QED BY <1>1, <1>2

-----------------------------------------------------------------------------
(* The theorems.                                                           *)

\* The invariant of the composition.
LEMMA MessageInvHolds == MessageSpec => []MessageInv
BY MessageInitInv, MessageStep, PTL DEF MessageSpec

\* The command, the pipe, its thread and the child have values of their types.
THEOREM MessageTypeCorrect == MessageSpec => []MessageTypeOK
<1>1. MessageInv => MessageTypeOK
  BY DEF MessageInv, MessageTypeOK, CommandInv
<1> QED BY <1>1, MessageInvHolds, PTL

\* At the end of the pipe all frames were looked at, as they were written.
LEMMA CleanExitFollows == MessageInv => CleanExitIsTold
<1> SUFFICES ASSUME MessageInv, thread = "eof", whole, OneSpelling(ENV_VAR)
             PROVE  received <=> child = "exited"
  BY DEF CleanExitIsTold
<1>1. FramesTell /\ taken = Len(written) /\ TypeOK
      /\ (received <=> \E k \in 0..taken : IsMessage(k))
  BY DEF MessageInv, VerdictIsExact
<1>2. PICK m \in Nat :
        /\ Len(written) = 8 * m
        /\ child = "exited" /\ thread # "failed" =>
             \E k \in 0..(m - 1) : Begins(k)
        /\ child # "exited" => \A k \in 0..(m - 1) : ~Begins(k)
  BY <1>1 DEF FramesTell
<1>3. ASSUME NEW k \in 0..taken, IsMessage(k)
      PROVE  k \in 0..(m - 1) /\ Begins(k)
  <2>1. 8 * k + 8 <= 8 * m /\ Begins(k)
    BY <1>1, <1>2, <1>3 DEF IsMessage, Begins, SENTINEL_MSG_LEN
  <2>2. k \in Nat
    BY <1>1 DEF TypeOK
  <2> QED BY <2>1, <2>2
<1>4. ASSUME NEW k \in 0..(m - 1), Begins(k)
      PROVE  k \in 0..taken /\ IsMessage(k)
  <2>1. k \in 0..(8 * m) /\ 8 * k + 8 <= 8 * m
    OBVIOUS
  <2> QED BY <1>1, <1>2, <1>4, <2>1 DEF IsMessage, Begins, SENTINEL_MSG_LEN
<1> QED BY <1>1, <1>2, <1>3, <1>4

\* spawn(), helper_sentinel.rs and sentinel_thread(): once the thread has read
\* the pipe to its end, it has seen a message exactly if the child has had its
\* say, for all calls of the builder before and all cuts of the bytes after.
THEOREM CleanExitIsToldEver == MessageSpec => []CleanExitIsTold
BY CleanExitFollows, MessageInvHolds, PTL

\* The parts are what they were on their own.
THEOREM PartsAreCorrect ==
  MessageSpec => [](/\ ArgumentsReadBack /\ EnvironmentAsWanted
                    /\ BlockIsSorted /\ VerdictIsExact)
<1>1. MessageInv => /\ ArgumentsReadBack /\ EnvironmentAsWanted
                    /\ BlockIsSorted /\ VerdictIsExact
  BY DEF MessageInv, CommandInv
<1> QED BY <1>1, MessageInvHolds, PTL
=============================================================================
