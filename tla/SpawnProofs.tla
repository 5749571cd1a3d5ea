------------------------------ MODULE SpawnProofs ------------------------------
(***************************************************************************)
(* Theorems about Spawn, for any number of spawns, of processes the        *)
(* children start, and of scenarios.  TypeOK is inductive by itself, and   *)
(* WriteEnds under it; what wait_diagnosed() promises follows from both.   *)
(***************************************************************************)
EXTENDS Spawn, TLAPS

\* The parent is no process of the model, and neither is the Worrywart.
LEMMA Distinct ==
  /\ Child \subseteq Process /\ Heir \subseteq Process
  /\ Parent \notin Process /\ Root \notin Child
  BY SpawnAssumption DEF Process

-----------------------------------------------------------------------------
(* Types.                                                                  *)

\* What the initial state, and the steps that stutter, do to the types.
LEMMA InitType == Init => TypeOK
<1>1. ASSUME Init  PROVE  TypeOK
  <2>1. PICK s \in Scenarios :
          /\ monitors = s.monitors
          /\ under = [p \in Process |-> IF p \in Child THEN p ELSE s.under[p]]
    BY <1>1 DEF Init
  <2>2. /\ s.monitors \in [Child -> SUBSET Monitor]
        /\ s.under \in [Heir -> Child \cup {Parent}]
    BY SpawnAssumption
  <2>3. under \in [Process -> Child \cup {Parent}]
    BY <2>1, <2>2 DEF Process
  <2>4. QED
    BY <1>1, <2>1, <2>2, <2>3
    DEF Init, TypeOK, CallerState, Reason, MonitorReason, Owner
<1>2. QED
  BY <1>1

\* Dropping an owner keeps the types of what it may change.
LEMMA ReleaseType ==
  ASSUME TypeOK, NEW o, NEW ch \in [Child -> MonitorReason \cup
                                     {"none", "open", "closed"}],
         Release(o, ch)
  PROVE  /\ owners' \subseteq Owner
         /\ exit_ch' \in [Child -> MonitorReason \cup {"none", "open", "closed"}]
         /\ proc' \in [Process -> {"none", "running", "ended", "gone"}]
  BY DEF TypeOK, Release, Running

LEMMA TypeDropRoot ==
  ASSUME TypeOK, DropRoot
  PROVE  TypeOK'
  BY ReleaseType
  DEF TypeOK, DropRoot, pipeVars

LEMMA TypeGiveUp ==
  ASSUME TypeOK, NEW c \in Child, GiveUp(c)
  PROVE  TypeOK'
  BY ReleaseType
  DEF TypeOK, GiveUp, Fail, pipeVars, CallerState

LEMMA TypeCreatePipe ==
  ASSUME TypeOK, NEW c \in Child, CreatePipe(c)
  PROVE  TypeOK'
  BY DEF TypeOK, CreatePipe, childVars, osVars, CallerState

LEMMA TypeCreateProcess ==
  ASSUME TypeOK, NEW c \in Child, CreateProcess(c)
  PROVE  TypeOK'
  BY Distinct
  DEF TypeOK, CreateProcess, CallerState

LEMMA TypeCreateProcessFails ==
  ASSUME TypeOK, NEW c \in Child, CreateProcessFails(c)
  PROVE  TypeOK'
  BY ReleaseType
  DEF TypeOK, CreateProcessFails, Fail, pipeVars, CallerState

LEMMA TypeStartFails ==
  ASSUME TypeOK, NEW c \in Child, StartFails(c)
  PROVE  TypeOK'
  BY ReleaseType
  DEF TypeOK, StartFails, Fail, pipeVars, CallerState

LEMMA TypeSpawnReturns ==
  ASSUME TypeOK, NEW c \in Child, SpawnReturns(c)
  PROVE  TypeOK'
  BY ReleaseType
  DEF TypeOK, SpawnReturns, pipeVars, CallerState

LEMMA TypeCloseWriteEnd ==
  ASSUME TypeOK, NEW c \in Child, CloseWriteEnd(c)
  PROVE  TypeOK'
  BY DEF TypeOK, CloseWriteEnd, osVars, CallerState

LEMMA TypeCloseFails ==
  ASSUME TypeOK, NEW c \in Child, CloseFails(c)
  PROVE  TypeOK'
  BY DEF TypeOK, CloseFails, childVars, pipeVars, osVars, CallerState

LEMMA TypeAnswerFromCache ==
  ASSUME TypeOK, NEW c \in Child, AnswerFromCache(c)
  PROVE  TypeOK'
  BY DEF TypeOK, AnswerFromCache, pipeVars, osVars

LEMMA TypeCallWait ==
  ASSUME TypeOK, NEW c \in Child, CallWait(c)
  PROVE  TypeOK'
  BY DEF TypeOK, CallWait, childVars, pipeVars, osVars, CallerState

LEMMA TypeReceive ==
  ASSUME TypeOK, NEW c \in Child, Receive(c)
  PROVE  TypeOK'
  BY DEF TypeOK, Receive, pipeVars, osVars, CallerState

LEMMA TypeFallBack ==
  ASSUME TypeOK, NEW c \in Child, FallBack(c)
  PROVE  TypeOK'
  BY DEF TypeOK, FallBack, childVars, pipeVars, osVars, CallerState

LEMMA TypeWaitPlain ==
  ASSUME TypeOK, NEW c \in Child, WaitPlain(c)
  PROVE  TypeOK'
  BY DEF TypeOK, WaitPlain, pipeVars, osVars, CallerState, MonitorReason

LEMMA TypeWaitPlainFails ==
  ASSUME TypeOK, NEW c \in Child, WaitPlainFails(c)
  PROVE  TypeOK'
  BY DEF TypeOK, WaitPlainFails, childVars, pipeVars, osVars, CallerState

LEMMA TypeRefine ==
  ASSUME TypeOK, NEW c \in Child, Refine(c)
  PROVE  TypeOK'
  BY DEF TypeOK, Refine, RefineWithSentinel, pipeVars, osVars, CallerState,
      Reason, MonitorReason

LEMMA TypeDropChild ==
  ASSUME TypeOK, NEW c \in Child, DropChild(c)
  PROVE  TypeOK'
  BY DEF TypeOK, DropChild, childVars, pipeVars, osVars, CallerState

LEMMA TypeReaderEnds ==
  ASSUME TypeOK, NEW c \in Child, ReaderEnds(c)
  PROVE  TypeOK'
  BY DEF TypeOK, ReaderEnds, childVars, osVars

LEMMA TypeReport ==
  ASSUME TypeOK, NEW c \in Child, NEW r \in MonitorReason,
         Report(c, r)
  PROVE  TypeOK'
  BY DEF TypeOK, Report, pipeVars, osVars

LEMMA TypeListenerEnds ==
  ASSUME TypeOK, ListenerEnds
  PROVE  TypeOK'
  BY DEF TypeOK, ListenerEnds, pipeVars, osVars

LEMMA TypeAnnounce ==
  ASSUME TypeOK, NEW p \in Process, NEW c \in Child, Announce(p, c)
  PROVE  TypeOK'
  BY DEF TypeOK, Announce, childVars, osVars

LEMMA TypeStartHeir ==
  ASSUME TypeOK, NEW p \in Process, NEW h \in Heir, NEW i \in BOOLEAN,
         StartHeir(p, h, i)
  PROVE  TypeOK'
  BY Distinct
  DEF TypeOK, StartHeir, childVars

LEMMA TypeEnd ==
  ASSUME TypeOK, NEW p \in Process, End(p)
  PROVE  TypeOK'
  BY DEF TypeOK, End, childVars, pipeVars

LEMMA TypeRundown ==
  ASSUME TypeOK, NEW p \in Process, Rundown(p)
  PROVE  TypeOK'
  BY DEF TypeOK, Rundown, childVars

-----------------------------------------------------------------------------
(* Write ends.                                                             *)

LEMMA WriteEndsDropRoot ==
  ASSUME TypeOK, WriteEnds, DropRoot
  PROVE  WriteEnds'
  BY DEF WriteEnds, ParentHoldsInFlight, ReaderOutlivesHolders,
      AnswerIsCached, VerdictIsTrue, DropRoot, Release, Sentinel, pipeVars

LEMMA WriteEndsGiveUp ==
  ASSUME TypeOK, WriteEnds, NEW c \in Child, GiveUp(c)
  PROVE  WriteEnds'
  BY DEF WriteEnds, ParentHoldsInFlight, ReaderOutlivesHolders,
      AnswerIsCached, VerdictIsTrue, GiveUp, Fail, Release, Sentinel, pipeVars

LEMMA WriteEndsCreatePipe ==
  ASSUME TypeOK, WriteEnds, NEW c \in Child, CreatePipe(c)
  PROVE  WriteEnds'
  BY DEF WriteEnds, ParentHoldsInFlight, ReaderOutlivesHolders,
      AnswerIsCached, VerdictIsTrue, CreatePipe, Sentinel, TypeOK, childVars

LEMMA WriteEndsCreateProcess ==
  ASSUME TypeOK, WriteEnds, NEW c \in Child, CreateProcess(c)
  PROVE  WriteEnds'
  BY DEF WriteEnds, ParentHoldsInFlight, ReaderOutlivesHolders,
      AnswerIsCached, VerdictIsTrue, CreateProcess, Sentinel

LEMMA WriteEndsCreateProcessFails ==
  ASSUME TypeOK, WriteEnds, NEW c \in Child, CreateProcessFails(c)
  PROVE  WriteEnds'
  BY DEF WriteEnds, ParentHoldsInFlight, ReaderOutlivesHolders,
      AnswerIsCached, VerdictIsTrue, CreateProcessFails, Fail, Release,
      Sentinel, pipeVars

LEMMA WriteEndsStartFails ==
  ASSUME TypeOK, WriteEnds, NEW c \in Child, StartFails(c)
  PROVE  WriteEnds'
  BY DEF WriteEnds, ParentHoldsInFlight, ReaderOutlivesHolders,
      AnswerIsCached, VerdictIsTrue, StartFails, Fail, Release, Sentinel,
      pipeVars

LEMMA WriteEndsSpawnReturns ==
  ASSUME TypeOK, WriteEnds, NEW c \in Child, SpawnReturns(c)
  PROVE  WriteEnds'
  BY DEF WriteEnds, ParentHoldsInFlight, ReaderOutlivesHolders,
      AnswerIsCached, VerdictIsTrue, SpawnReturns, Release, Sentinel, pipeVars

LEMMA WriteEndsCloseWriteEnd ==
  ASSUME TypeOK, WriteEnds, NEW c \in Child, CloseWriteEnd(c)
  PROVE  WriteEnds'
  BY DEF WriteEnds, ParentHoldsInFlight, ReaderOutlivesHolders,
      AnswerIsCached, VerdictIsTrue, CloseWriteEnd, Sentinel, TypeOK

LEMMA WriteEndsCloseFails ==
  ASSUME TypeOK, WriteEnds, NEW c \in Child, CloseFails(c)
  PROVE  WriteEnds'
  BY DEF WriteEnds, ParentHoldsInFlight, ReaderOutlivesHolders,
      AnswerIsCached, VerdictIsTrue, CloseFails, Sentinel, childVars, pipeVars

LEMMA WriteEndsAnswerFromCache ==
  ASSUME TypeOK, WriteEnds, NEW c \in Child, AnswerFromCache(c)
  PROVE  WriteEnds'
  BY DEF WriteEnds, ParentHoldsInFlight, ReaderOutlivesHolders,
      AnswerIsCached, VerdictIsTrue, AnswerFromCache, Sentinel, pipeVars

LEMMA WriteEndsCallWait ==
  ASSUME TypeOK, WriteEnds, NEW c \in Child, CallWait(c)
  PROVE  WriteEnds'
  BY DEF WriteEnds, ParentHoldsInFlight, ReaderOutlivesHolders,
      AnswerIsCached, VerdictIsTrue, CallWait, Sentinel, childVars, pipeVars

LEMMA WriteEndsReceive ==
  ASSUME TypeOK, WriteEnds, NEW c \in Child, Receive(c)
  PROVE  WriteEnds'
  BY DEF WriteEnds, ParentHoldsInFlight, ReaderOutlivesHolders,
      AnswerIsCached, VerdictIsTrue, Receive, Sentinel, TypeOK, pipeVars,
      MonitorReason

LEMMA WriteEndsFallBack ==
  ASSUME TypeOK, WriteEnds, NEW c \in Child, FallBack(c)
  PROVE  WriteEnds'
  BY DEF WriteEnds, ParentHoldsInFlight, ReaderOutlivesHolders,
      AnswerIsCached, VerdictIsTrue, FallBack, Sentinel, childVars, pipeVars

LEMMA WriteEndsWaitPlain ==
  ASSUME TypeOK, WriteEnds, NEW c \in Child, WaitPlain(c)
  PROVE  WriteEnds'
  BY DEF WriteEnds, ParentHoldsInFlight, ReaderOutlivesHolders,
      AnswerIsCached, VerdictIsTrue, WaitPlain, Sentinel, TypeOK, pipeVars

LEMMA WriteEndsWaitPlainFails ==
  ASSUME TypeOK, WriteEnds, NEW c \in Child, WaitPlainFails(c)
  PROVE  WriteEnds'
  BY DEF WriteEnds, ParentHoldsInFlight, ReaderOutlivesHolders,
      AnswerIsCached, VerdictIsTrue, WaitPlainFails, Sentinel, childVars,
      pipeVars

LEMMA WriteEndsRefine ==
  ASSUME TypeOK, WriteEnds, NEW c \in Child, Refine(c)
  PROVE  WriteEnds'
  BY DEF WriteEnds, ParentHoldsInFlight, ReaderOutlivesHolders,
      AnswerIsCached, VerdictIsTrue, Refine, RefineWithSentinel, Sentinel,
      TypeOK, pipeVars, MonitorReason

LEMMA WriteEndsDropChild ==
  ASSUME TypeOK, WriteEnds, NEW c \in Child, DropChild(c)
  PROVE  WriteEnds'
  BY DEF WriteEnds, ParentHoldsInFlight, ReaderOutlivesHolders,
      AnswerIsCached, VerdictIsTrue, DropChild, Sentinel, childVars, pipeVars

LEMMA WriteEndsReaderEnds ==
  ASSUME TypeOK, WriteEnds, NEW c \in Child, ReaderEnds(c)
  PROVE  WriteEnds'
  BY DEF WriteEnds, ParentHoldsInFlight, ReaderOutlivesHolders,
      AnswerIsCached, VerdictIsTrue, ReaderEnds, Sentinel, childVars

LEMMA WriteEndsReport ==
  ASSUME TypeOK, WriteEnds, NEW c \in Child, NEW r \in MonitorReason,
         Report(c, r)
  PROVE  WriteEnds'
  BY DEF WriteEnds, ParentHoldsInFlight, ReaderOutlivesHolders,
      AnswerIsCached, VerdictIsTrue, Report, Sentinel, pipeVars

LEMMA WriteEndsListenerEnds ==
  ASSUME TypeOK, WriteEnds, ListenerEnds
  PROVE  WriteEnds'
  BY DEF WriteEnds, ParentHoldsInFlight, ReaderOutlivesHolders,
      AnswerIsCached, VerdictIsTrue, ListenerEnds, Sentinel, pipeVars

LEMMA WriteEndsAnnounce ==
  ASSUME TypeOK, WriteEnds, NEW p \in Process, NEW c \in Child, Announce(p, c)
  PROVE  WriteEnds'
  BY DEF WriteEnds, ParentHoldsInFlight, ReaderOutlivesHolders,
      AnswerIsCached, VerdictIsTrue, Announce, Sentinel, childVars

LEMMA WriteEndsStartHeir ==
  ASSUME TypeOK, WriteEnds, NEW p \in Process, NEW h \in Heir, NEW i \in BOOLEAN,
         StartHeir(p, h, i)
  PROVE  WriteEnds'
  BY Distinct
  DEF WriteEnds, ParentHoldsInFlight, ReaderOutlivesHolders, AnswerIsCached,
      VerdictIsTrue, StartHeir, Sentinel, childVars

LEMMA WriteEndsEnd ==
  ASSUME TypeOK, WriteEnds, NEW p \in Process, End(p)
  PROVE  WriteEnds'
  BY DEF WriteEnds, ParentHoldsInFlight, ReaderOutlivesHolders,
      AnswerIsCached, VerdictIsTrue, End, Sentinel, childVars, pipeVars

LEMMA WriteEndsRundown ==
  ASSUME TypeOK, WriteEnds, NEW p \in Process, Rundown(p)
  PROVE  WriteEnds'
  BY DEF WriteEnds, ParentHoldsInFlight, ReaderOutlivesHolders,
      AnswerIsCached, VerdictIsTrue, Rundown, Sentinel, childVars

LEMMA InitWriteEnds == Init => WriteEnds
  BY DEF Init, WriteEnds, ParentHoldsInFlight, ReaderOutlivesHolders,
         AnswerIsCached, VerdictIsTrue

-----------------------------------------------------------------------------
(* Steps, one case per action.                                             *)

LEMMA TypeStep == TypeOK /\ [Next]_vars => TypeOK'
<1> SUFFICES ASSUME TypeOK, [Next]_vars  PROVE TypeOK'
  OBVIOUS
<1>1. CASE UNCHANGED vars
  BY <1>1 DEF TypeOK, vars, childVars, pipeVars, osVars
<1>2. CASE DropRoot \/ ListenerEnds
  BY <1>2, TypeDropRoot, TypeListenerEnds
<1>3. ASSUME NEW c \in Child, SpawnStep(c)  PROVE TypeOK'
  BY <1>3, TypeGiveUp, TypeCreatePipe, TypeCreateProcess,
     TypeCreateProcessFails, TypeStartFails, TypeSpawnReturns,
     TypeCloseWriteEnd, TypeCloseFails
  DEF SpawnStep
<1>4. ASSUME NEW c \in Child,
             AnswerFromCache(c) \/ CallWait(c) \/ WaitStep(c)
               \/ WaitPlainFails(c) \/ DropChild(c)
      PROVE  TypeOK'
  BY <1>4, TypeAnswerFromCache, TypeCallWait, TypeReceive, TypeFallBack,
     TypeWaitPlain, TypeRefine, TypeWaitPlainFails, TypeDropChild
  DEF WaitStep
<1>5. ASSUME NEW c \in Child, MonitorStep(c)  PROVE TypeOK'
  BY <1>5, TypeReaderEnds, TypeReport DEF MonitorStep
<1>6. ASSUME NEW p \in Process, ProcessStep(p)  PROVE TypeOK'
  BY <1>6, TypeAnnounce, TypeEnd, TypeRundown, TypeStartHeir DEF ProcessStep
<1>7. QED
  BY <1>1, <1>2, <1>3, <1>4, <1>5, <1>6 DEF Next

LEMMA WriteEndsStep == TypeOK /\ WriteEnds /\ [Next]_vars => WriteEnds'
<1> SUFFICES ASSUME TypeOK, WriteEnds, [Next]_vars  PROVE WriteEnds'
  OBVIOUS
<1>1. CASE UNCHANGED vars
  BY <1>1
  DEF WriteEnds, ParentHoldsInFlight, ReaderOutlivesHolders, AnswerIsCached,
      VerdictIsTrue, Sentinel, vars, childVars, pipeVars, osVars
<1>2. CASE DropRoot \/ ListenerEnds
  BY <1>2, WriteEndsDropRoot, WriteEndsListenerEnds
<1>3. ASSUME NEW c \in Child, SpawnStep(c)  PROVE WriteEnds'
  BY <1>3, WriteEndsGiveUp, WriteEndsCreatePipe, WriteEndsCreateProcess,
     WriteEndsCreateProcessFails, WriteEndsStartFails, WriteEndsSpawnReturns,
     WriteEndsCloseWriteEnd, WriteEndsCloseFails
  DEF SpawnStep
<1>4. ASSUME NEW c \in Child,
             AnswerFromCache(c) \/ CallWait(c) \/ WaitStep(c)
               \/ WaitPlainFails(c) \/ DropChild(c)
      PROVE  WriteEnds'
  BY <1>4, WriteEndsAnswerFromCache, WriteEndsCallWait, WriteEndsReceive,
     WriteEndsFallBack, WriteEndsWaitPlain, WriteEndsRefine,
     WriteEndsWaitPlainFails, WriteEndsDropChild
  DEF WaitStep
<1>5. ASSUME NEW c \in Child, MonitorStep(c)  PROVE WriteEnds'
  BY <1>5, WriteEndsReaderEnds, WriteEndsReport DEF MonitorStep
<1>6. ASSUME NEW p \in Process, ProcessStep(p)  PROVE WriteEnds'
  BY <1>6, WriteEndsAnnounce, WriteEndsEnd, WriteEndsRundown,
     WriteEndsStartHeir
  DEF ProcessStep
<1>7. QED
  BY <1>1, <1>2, <1>3, <1>4, <1>5, <1>6 DEF Next

-----------------------------------------------------------------------------
(* The theorems.                                                           *)

\* Every variable of Spawn keeps its type, for any scenarios.
THEOREM TypeCorrect == Spec => []TypeOK
<1>1. QED
  BY InitType, TypeStep, PTL DEF Spec

\* WriteEnds: who holds which write end when, what the sentinel thread's
\* verdict rests on, and that the cache holds what was answered.
THEOREM WriteEndsCorrect == Spec => []WriteEnds
<1>1. QED
  BY TypeCorrect, InitWriteEnds, WriteEndsStep, PTL DEF Spec

\* VerdictIsTrue: however many spawns run at once and inherit each other's
\* write ends, no child is told CleanExit without a message of its own, and
\* none ExternalKill that has announced its exit, or still will.
THEOREM VerdictIsTrueEver == Spec => []VerdictIsTrue
<1>1. WriteEnds => VerdictIsTrue
  BY DEF WriteEnds
<1>2. QED
  BY <1>1, WriteEndsCorrect, PTL

\* A step changes an answer only where there was none.
LEMMA AnswerStep ==
  ASSUME TypeOK, WriteEnds, [Next]_vars,
         NEW d \in Child, answer[d] # "none"
  PROVE  answer'[d] = answer[d]
<1>1. CASE UNCHANGED answer
  BY <1>1
<1>2. ASSUME NEW c \in Child, AnswerFromCache(c)  PROVE answer'[d] = answer[d]
  BY <1>2 DEF TypeOK, WriteEnds, AnswerIsCached, AnswerFromCache
<1>3. ASSUME NEW c \in Child, Refine(c)  PROVE answer'[d] = answer[d]
  BY <1>3 DEF TypeOK, WriteEnds, AnswerIsCached, Refine
<1>4. QED
  <2>1. CASE UNCHANGED vars
    BY <1>1, <2>1 DEF vars, childVars
  <2>2. CASE DropRoot \/ ListenerEnds
    BY <1>1, <2>2 DEF DropRoot, ListenerEnds
  <2>3. ASSUME NEW c \in Child, SpawnStep(c)  PROVE UNCHANGED answer
    BY <2>3
    DEF SpawnStep, GiveUp, Fail, CreatePipe, CreateProcess, StartFails,
        CreateProcessFails, SpawnReturns, CloseWriteEnd, CloseFails, childVars
  <2>4. ASSUME NEW c \in Child,
               CallWait(c) \/ Receive(c) \/ FallBack(c) \/ WaitPlain(c)
                 \/ WaitPlainFails(c) \/ DropChild(c) \/ MonitorStep(c)
        PROVE  UNCHANGED answer
    BY <2>4
    DEF CallWait, Receive, FallBack, WaitPlain, WaitPlainFails, DropChild,
        MonitorStep, ReaderEnds, Report, childVars
  <2>5. ASSUME NEW p \in Process, ProcessStep(p)  PROVE UNCHANGED answer
    BY <2>5
    DEF ProcessStep, Announce, StartHeir, End, Rundown, childVars
  <2>6. QED
    BY <1>1, <1>2, <1>3, <2>1, <2>2, <2>3, <2>4, <2>5 DEF Next, WaitStep

\* DiagnosisIsStable: wait_diagnosed() never contradicts itself, although it
\* empties its own cache and gives the sentinel's receiver away.
THEOREM DiagnosisIsStableEver == Spec => DiagnosisIsStable
<1>1. TypeOK /\ WriteEnds /\ [Next]_vars =>
        [\A c \in Child : answer[c] # "none" => answer'[c] = answer[c]]_vars
  BY AnswerStep
<1>2. QED
  BY <1>1, TypeCorrect, WriteEndsCorrect, PTL DEF Spec, DiagnosisIsStable
=============================================================================
