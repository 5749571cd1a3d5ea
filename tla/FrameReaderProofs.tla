-------------------------- MODULE FrameReaderProofs --------------------------
(***************************************************************************)
(* Theorems about FrameReader, for any bytes, any magic, any writes and    *)
(* any sizes of the pieces ReadFile() returns.                             *)
(***************************************************************************)
EXTENDS FrameReader, SequenceTheorems, TLAPS

-----------------------------------------------------------------------------
(* Types.                                                                  *)

\* A read keeps the types.
LEMMA TypeRead ==
  ASSUME TypeOK, NEW n \in 1..SENTINEL_MSG_LEN, Read(n)
  PROVE  TypeOK'
<1>1. \A i \in offset + 1 .. offset + n :
         taken + i - offset \in 1..Len(written)
  BY DEF TypeOK, Read
<1>2. \A i \in 1..Len(written) : written[i] \in Byte
  BY DEF TypeOK
<1>3. Filled(n) \in [1..SENTINEL_MSG_LEN -> Byte]
  BY <1>1, <1>2 DEF TypeOK, Filled
<1>4. offset' \in 0..(SENTINEL_MSG_LEN - 1) /\ taken' \in 0..Len(written)
  BY DEF TypeOK, Read, SENTINEL_MSG_LEN
<1>5. received' \in BOOLEAN
  BY DEF TypeOK, Read, HasMagic
<1>6. QED
  BY <1>3, <1>4, <1>5 DEF TypeOK, Read, pipeVars

\* A write of any bytes keeps the types.
LEMMA TypeWrite ==
  ASSUME TypeOK, NEW bytes \in Seq(Byte), Write(bytes)
  PROVE  TypeOK'
<1>2. /\ written' \in Seq(Byte)
      /\ Len(written') = Len(written) + Len(bytes)
      /\ Len(bytes) \in Nat
  BY DEF TypeOK, Write
<1>3. taken' \in 0..Len(written')
  BY <1>2 DEF TypeOK, Write, readerVars
<1>4. QED
  BY <1>2, <1>3 DEF TypeOK, Write, readerVars

\* Every step keeps the types.
LEMMA TypeStep == TypeOK /\ [Next]_vars => TypeOK'
<1> SUFFICES ASSUME TypeOK, [Next]_vars  PROVE TypeOK'
  OBVIOUS
<1>1. CASE UNCHANGED vars
  BY <1>1 DEF TypeOK, vars, pipeVars, readerVars
<1>2. ASSUME NEW n \in 1..SENTINEL_MSG_LEN, Read(n)  PROVE TypeOK'
  BY <1>2, TypeRead
<1>3. CASE ReaderEnds \/ ReaderFails
  BY <1>3 DEF TypeOK, ReaderEnds, ReaderFails, pipeVars
<1>4. CASE Close
  BY <1>4 DEF TypeOK, Close, readerVars
<1>5. ASSUME NEW bytes \in Writes, Write(bytes)  PROVE TypeOK'
  BY <1>5, TypeWrite, FrameAssumption
<1>6. QED
  BY <1>1, <1>2, <1>3, <1>4, <1>5 DEF Next, Reader

-----------------------------------------------------------------------------
(* The frames.                                                             *)

\* More bytes in the pipe change nothing about those that were read.
LEMMA ExactWrite ==
  ASSUME TypeOK, VerdictIsExact, NEW bytes \in Seq(Byte), Write(bytes)
  PROVE  VerdictIsExact'
<1>2. \A i \in 1..Len(written) : written'[i] = written[i]
  BY DEF TypeOK, Write
<1>3. UNCHANGED <<taken, buf, offset, received>>
  BY DEF Write, readerVars
<1>4. FrameInBuffer'
  <2>1. PICK f \in 0..taken :
          /\ taken = SENTINEL_MSG_LEN * f + offset
          /\ \A i \in 1..offset : buf[i] = written[SENTINEL_MSG_LEN * f + i]
    BY DEF VerdictIsExact, FrameInBuffer
  <2>2. \A i \in 1..offset : SENTINEL_MSG_LEN * f + i \in 1..Len(written)
    BY <2>1 DEF TypeOK, SENTINEL_MSG_LEN
  <2>3. QED
    BY <1>2, <1>3, <2>1, <2>2 DEF FrameInBuffer
<1>5. \A k \in 0..taken : IsMessage(k)' <=> IsMessage(k)
  <2>1. ASSUME NEW k \in 0..taken,
               SENTINEL_MSG_LEN * k + SENTINEL_MSG_LEN <= taken
        PROVE  \A i \in 1..4 :
                 SENTINEL_MSG_LEN * k + i \in 1..Len(written)
    BY <2>1 DEF TypeOK, SENTINEL_MSG_LEN
  <2>2. QED
    BY <1>2, <1>3, <2>1 DEF IsMessage
<1>6. QED
  BY <1>3, <1>4, <1>5 DEF VerdictIsExact

\* A read adds to the frame that was begun, or completes it.
LEMMA ExactRead ==
  ASSUME TypeOK, VerdictIsExact, NEW n \in 1..SENTINEL_MSG_LEN, Read(n)
  PROVE  VerdictIsExact'
<1>1. PICK f \in 0..taken :
        /\ taken = SENTINEL_MSG_LEN * f + offset
        /\ \A i \in 1..offset : buf[i] = written[SENTINEL_MSG_LEN * f + i]
  BY DEF VerdictIsExact, FrameInBuffer
<1>2. /\ taken \in Nat /\ offset \in Nat /\ offset < 8 /\ f \in Nat
      /\ taken' = taken + n /\ written' = written /\ n \in 1..8
      /\ offset + n <= 8
  BY DEF TypeOK, Read, SENTINEL_MSG_LEN, pipeVars
<1>3. \A i \in 1..(offset + n) : buf'[i] = written[SENTINEL_MSG_LEN * f + i]
  <2>1. SUFFICES ASSUME NEW i \in 1..(offset + n)
                 PROVE  buf'[i] = written[SENTINEL_MSG_LEN * f + i]
    OBVIOUS
  <2>2. i \in 1..SENTINEL_MSG_LEN /\ buf' = Filled(n)
    BY <1>2 DEF Read, SENTINEL_MSG_LEN
  <2>3. CASE i \in 1..offset
    BY <1>1, <1>2, <2>2, <2>3 DEF Filled
  <2>4. CASE i \in offset + 1 .. offset + n
    <3>1. taken + i - offset = SENTINEL_MSG_LEN * f + i
      BY <1>1, <1>2, <2>4 DEF SENTINEL_MSG_LEN
    <3>2. QED
      BY <2>2, <2>4, <3>1 DEF Filled
  <2>5. QED
    BY <1>2, <2>3, <2>4
<1>4. \A k \in 0..taken : IsMessage(k) => k # f /\ IsMessage(k)'
  BY <1>1, <1>2 DEF IsMessage, SENTINEL_MSG_LEN
<1>5. CASE offset + n < 8
  <2>1. offset' = offset + n /\ received' = received
    BY <1>2, <1>5 DEF Read, SENTINEL_MSG_LEN
  <2>2. FrameInBuffer'
    <3>1. f \in 0..taken' /\ taken' = SENTINEL_MSG_LEN * f + offset'
      BY <1>1, <1>2, <2>1 DEF SENTINEL_MSG_LEN
    <3>2. QED
      BY <1>2, <1>3, <2>1, <3>1 DEF FrameInBuffer
  <2>3. \A k \in 0..taken' : IsMessage(k)' => k \in 0..taken /\ IsMessage(k)
    BY <1>1, <1>2, <1>5 DEF IsMessage, SENTINEL_MSG_LEN
  <2>4. \A k \in 0..taken : k \in 0..taken'
    BY <1>2
  <2>5. QED
    BY <1>4, <2>1, <2>2, <2>3, <2>4 DEF VerdictIsExact
<1>6. CASE offset + n = 8
  <2>1. offset' = 0 /\ received' = (received \/ HasMagic(buf'))
    BY <1>2, <1>6 DEF Read, SENTINEL_MSG_LEN
  <2>2. FrameInBuffer'
    <3>1. f + 1 \in 0..taken' /\ taken' = SENTINEL_MSG_LEN * (f + 1) + offset'
      BY <1>1, <1>2, <1>6, <2>1 DEF SENTINEL_MSG_LEN
    <3>2. QED
      BY <2>1, <3>1 DEF FrameInBuffer
  <2>3. f \in 0..taken' /\ (IsMessage(f)' <=> HasMagic(buf'))
    <3>1. SENTINEL_MSG_LEN * f + SENTINEL_MSG_LEN <= taken'
      BY <1>1, <1>2, <1>6 DEF SENTINEL_MSG_LEN
    <3>2. \A i \in 1..4 : buf'[i] = written[SENTINEL_MSG_LEN * f + i]
      BY <1>3, <1>6
    <3>3. QED
      BY <1>2, <3>1, <3>2 DEF IsMessage, HasMagic
  <2>4. \A k \in 0..taken' :
           IsMessage(k)' => k = f \/ (k \in 0..taken /\ IsMessage(k))
    BY <1>1, <1>2, <1>6 DEF IsMessage, SENTINEL_MSG_LEN
  <2>5. \A k \in 0..taken : k \in 0..taken'
    BY <1>2
  <2>6. QED
    BY <1>4, <2>1, <2>2, <2>3, <2>4, <2>5 DEF VerdictIsExact
<1>7. QED
  BY <1>2, <1>5, <1>6

\* Every step keeps the verdict exact.
LEMMA ExactStep == TypeOK /\ VerdictIsExact /\ [Next]_vars => VerdictIsExact'
<1> SUFFICES ASSUME TypeOK, VerdictIsExact, [Next]_vars
             PROVE  VerdictIsExact'
  OBVIOUS
<1>1. ASSUME UNCHANGED <<written, taken, buf, offset, received>>
      PROVE  VerdictIsExact'
  BY <1>1 DEF VerdictIsExact, FrameInBuffer, IsMessage
<1>2. CASE UNCHANGED vars \/ ReaderEnds \/ ReaderFails \/ Close
  BY <1>1, <1>2
  DEF vars, pipeVars, readerVars, ReaderEnds, ReaderFails, Close
<1>3. ASSUME NEW n \in 1..SENTINEL_MSG_LEN, Read(n)  PROVE VerdictIsExact'
  BY <1>3, ExactRead
<1>4. ASSUME NEW bytes \in Writes, Write(bytes)  PROVE VerdictIsExact'
  BY <1>4, ExactWrite, FrameAssumption
<1>5. QED
  BY <1>2, <1>3, <1>4 DEF Next, Reader

-----------------------------------------------------------------------------
(* The theorems.                                                           *)

\* Both hold of an empty pipe.
LEMMA InitInvariant == Init => TypeOK /\ VerdictIsExact
<1> SUFFICES ASSUME Init  PROVE TypeOK /\ VerdictIsExact
  OBVIOUS
<1>1. TypeOK
  <2>1. buf \in [1..SENTINEL_MSG_LEN -> Byte]
    BY FrameAssumption DEF Init
  <2>2. written \in Seq(Byte) /\ Len(written) = 0
    BY DEF Init
  <2>3. taken \in 0..Len(written)
    BY <2>2 DEF Init
  <2>4. offset \in 0..(SENTINEL_MSG_LEN - 1)
    BY DEF Init, SENTINEL_MSG_LEN
  <2>5. QED
    BY <2>1, <2>2, <2>3, <2>4 DEF Init, TypeOK
<1>2. FrameInBuffer
  <2>1. taken = SENTINEL_MSG_LEN * 0 + offset /\ 0 \in 0..taken
    BY DEF Init, SENTINEL_MSG_LEN
  <2>2. 1..offset = {}
    BY DEF Init
  <2>3. QED
    BY <2>1, <2>2 DEF FrameInBuffer
<1>3. \A k \in 0..taken : ~IsMessage(k)
  BY DEF Init, IsMessage, SENTINEL_MSG_LEN
<1>4. received = FALSE
  BY DEF Init
<1>5. QED
  BY <1>1, <1>2, <1>3, <1>4 DEF VerdictIsExact

\* TypeOK: the reads never pass the end of the buffer, nor that of the pipe.
THEOREM TypeCorrect == Spec => []TypeOK
<1>1. QED
  BY InitInvariant, TypeStep, PTL DEF Spec

\* VerdictIsExact: the verdict of the sentinel thread does not depend on how
\* the bytes arrive, for any streams of any writers.
THEOREM VerdictIsExactEver == Spec => []VerdictIsExact
<1>1. QED
  BY InitInvariant, TypeCorrect, ExactStep, PTL DEF Spec
=============================================================================
