--------------------------- MODULE DebugPumpProofs ---------------------------
(***************************************************************************)
(* Theorems about DebugPump, for any number of children, descendants,      *)
(* handle values, exception codes and threads.  The induction has two      *)
(* stages: TypeOK, then the hand-over invariant HandOver under TypeOK,     *)
(* from which the safety properties of the hand-over follow.               *)
(***************************************************************************)
EXTENDS DebugPump, SequenceTheorems, TLAPS

-----------------------------------------------------------------------------
(* Facts about the values.                                                 *)

\* What the pump sends for a tracked child is a termination reason.
LEMMA ClassifyExitType ==
  ASSUME NEW pending \in Codes \cup {NoException}
  PROVE  ClassifyExit(pending) \in TerminationReason
<1>1. CASE pending = NoException
  BY <1>1 DEF ClassifyExit, TerminationReason, NoException, FastFailCodes
<1>2. CASE pending # NoException /\ pending \in FastFailCodes
  <2>1. ClassifyExit(pending) = [reason |-> "FastFail", code |-> pending]
    BY <1>2 DEF ClassifyExit
  <2>2. QED
    BY <1>2, <2>1 DEF TerminationReason
<1>3. CASE pending # NoException /\ pending \notin FastFailCodes
  <2>1. ClassifyExit(pending) = [reason |-> "Crash", code |-> pending]
    BY <1>3 DEF ClassifyExit
  <2>2. QED
    BY <1>3, <2>1 DEF TerminationReason
<1>4. QED
  BY <1>1, <1>2, <1>3

\* The result sent for an exit event is a reason, or empty if untracked.
LEMMA ClassifyEventType ==
  ASSUME TypeOK, NEW e, e.pid \in children
  PROVE  ClassifyEvent(e) \in TerminationReason
<1>1. pending_exception[e.pid] \in Codes \cup {NoException}
  BY DEF TypeOK
<1>2. QED
  BY <1>1, ClassifyExitType DEF ClassifyEvent

LEMMA ReasonIsNotEmpty == Empty \notin TerminationReason
  BY DEF Empty, TerminationReason, Unknown, ExternalKill

\* The events the processes post are debug events.
LEMMA EventType ==
  ASSUME NEW p \in Process
  PROVE  /\ \A k \in EventKind, code \in Codes \cup {BREAKPOINT, NoException} :
              Event(p, k, code, "first") \in DebugEvent
         /\ \A code \in Codes :
              Event(p, "EXCEPTION", code, "second") \in DebugEvent
  BY DEF Event, DebugEvent

\* A child of the pump process is a process.
LEMMA Disjoint ==
  /\ Root \notin Child /\ Nobody \notin Child /\ Nobody # Root
  /\ Nobody \notin Process /\ Child \subseteq Process /\ Child \subseteq Owner
  /\ Root \in Owner
  BY PumpAssumption DEF Owner, Process

-----------------------------------------------------------------------------
(* Type correctness.                                                       *)

\* The initial state is well typed.
LEMMA TypeInit == Init => TypeOK
  BY Disjoint, PumpAssumption
  DEF Init, TypeOK, CallerState, ProcState, TerminationReason, Owner

\* What AfterRelease and the values of the pump's location are.
LEMMA LocationType ==
  /\ \A o \in Owner : AfterRelease(o) \in CallerState
  /\ \A kids \in SUBSET Child : AfterMailbox(kids) \in {"top", "wait"}
  /\ AfterEvent \in {"top", "wait"}
  BY DEF AfterRelease, CallerState, AfterMailbox, AfterEvent

\* A step of a caller keeps the types.
LEMMA TypeCallerStep ==
  ASSUME TypeOK, CallerStep
  PROVE  TypeOK'
<1> USE Disjoint DEF TypeOK, callerVars, pumpVars, entryVars, eventVars, osVars
<1>1. ASSUME NEW o \in Owner, DropOwner(o)
      PROVE  TypeOK'
  BY <1>1 DEF DropOwner, CallerState
<1>2. ASSUME NEW o \in Owner, ReleasePump(o)
      PROVE  TypeOK'
  <2>1. Append(mailbox, Shutdown) \in Seq(PumpMessage)
    BY AppendProperties DEF PumpMessage
  <2>2. mailbox' \in Seq(PumpMessage)
    BY <1>2, <2>1 DEF ReleasePump
  <2>3. caller' \in [Owner -> CallerState]
    BY <1>2, LocationType DEF ReleasePump, CallerState
  <2>4. QED
    BY <1>2, <2>2, <2>3 DEF ReleasePump
<1>3. ASSUME NEW o \in Owner, JoinPump(o)
      PROVE  TypeOK'
  BY <1>3, LocationType DEF JoinPump
<1>4. ASSUME NEW c \in Child, CreateCommand(c)
      PROVE  TypeOK'
  BY <1>4 DEF CreateCommand, CallerState
<1>5. ASSUME NEW c \in Child, SendSpawn(c)
      PROVE  TypeOK'
  <2>1. SpawnMessage(c) \in PumpMessage
    BY DEF PumpMessage
  <2>2. Append(mailbox, SpawnMessage(c)) \in Seq(PumpMessage)
    BY <2>1, AppendProperties
  <2>3. QED
    BY <1>5, <2>2 DEF SendSpawn, CallerState
<1>6. ASSUME NEW c \in Child, StartFails(c)
      PROVE  TypeOK'
  BY <1>6 DEF StartFails, CallerState
<1>7. ASSUME NEW c \in Child, ReceiveReply(c)
      PROVE  TypeOK'
  BY <1>7 DEF ReceiveReply, CallerState
<1>8. ASSUME NEW c \in Child, CallWait(c)
      PROVE  TypeOK'
  BY <1>8 DEF CallWait, CallerState
<1>9. ASSUME NEW c \in Child, ReceiveResult(c)
      PROVE  TypeOK'
  BY <1>9 DEF ReceiveResult, CallerState
<1>10. ASSUME NEW c \in Child, FallBackToPlain(c)
       PROVE  TypeOK'
  BY <1>10 DEF FallBackToPlain, CallerState
<1>11. ASSUME NEW c \in Child, WaitPlain(c)
       PROVE  TypeOK'
  BY <1>11 DEF WaitPlain, CallerState, TerminationReason
<1>12. ASSUME NEW c \in Child, DropChild(c)
       PROVE  TypeOK'
  BY <1>12 DEF DropChild, CallerState
<1>13. QED
  BY <1>1, <1>2, <1>3, <1>4, <1>5, <1>6, <1>7, <1>8, <1>9, <1>10, <1>11,
     <1>12 DEF CallerStep

\* Taking the oldest event keeps the types of everything it changes.
LEMMA TypeTakeEvent ==
  ASSUME TypeOK, NEW e, NEW status, TakeEvent(e, status),
         status \in {"DBG_CONTINUE", "DBG_EXCEPTION_NOT_HANDLED"}
  PROVE  /\ e \in DebugEvent
         /\ pump' = "continue"
         /\ current' \in DebugEvent \cup {NoEvent}
         /\ debugQueue' \in Seq(DebugEvent)
         /\ continue_status' \in {"DBG_CONTINUE", "DBG_EXCEPTION_NOT_HANDLED"}
         /\ UNCHANGED <<caller, refs, lock, reply, mailbox, result, proc,
                        raised, cause>>
  BY DEF TypeOK, TakeEvent, callerVars

\* So does reporting the exit of a tracked child.
LEMMA TypeReport ==
  ASSUME TypeOK, NEW e, NEW r, ReportAndForget(e, r),
         e.pid \in children => r \in TerminationReason
  PROVE  /\ children' \subseteq Child
         /\ exit_ch' \in [Child -> TerminationReason \cup {Empty}]
  BY DEF TypeOK, ReportAndForget, SendExit

\* Every arm of dispatch_event() keeps the types.
LEMMA TypeDispatch ==
  ASSUME TypeOK, NEW e, DispatchEvent(e)
  PROVE  TypeOK'
<1>1. CASE DispatchLoaderBreakpoint(e)
  <2>1. TakeEvent(e, "DBG_CONTINUE")
    BY <1>1 DEF DispatchLoaderBreakpoint
  <2>2. affinity' \subseteq Child
    BY <1>1 DEF DispatchLoaderBreakpoint, HandleTarget, TypeOK
  <2>3. QED
    BY <1>1, <2>1, <2>2, TypeTakeEvent DEF DispatchLoaderBreakpoint, TypeOK
<1>2. CASE DispatchSecondChance(e)
  <2>1. TakeEvent(e, "DBG_EXCEPTION_NOT_HANDLED")
    BY <1>2 DEF DispatchSecondChance
  <2>2. e.code \in Codes
    BY <1>2, <2>1, TypeTakeEvent DEF DispatchSecondChance, IsSecondChance,
       DebugEvent
  <2>3. QED
    BY <1>2, <2>1, <2>2, TypeTakeEvent DEF DispatchSecondChance, TypeOK
<1>3. CASE DispatchException(e)
  BY <1>3, TypeTakeEvent DEF DispatchException, TypeOK, entryVars
<1>4. CASE DispatchExitProcess(e)
  BY <1>4, TypeTakeEvent, TypeReport, ClassifyEventType
  DEF DispatchExitProcess, TypeOK, entryVars
<1>5. CASE DispatchRip(e)
  <2>1. ExternalKill \in TerminationReason
    BY DEF TerminationReason
  <2>2. QED
    BY <1>5, <2>1, TypeTakeEvent, TypeReport DEF DispatchRip, TypeOK, entryVars
<1>6. CASE DispatchOther(e)
  BY <1>6, TypeTakeEvent DEF DispatchOther, TypeOK, entryVars
<1>7. QED
  BY <1>1, <1>2, <1>3, <1>4, <1>5, <1>6 DEF DispatchEvent

\* A step of the pump thread keeps the types.
LEMMA TypePumpStep ==
  ASSUME TypeOK, PumpStep
  PROVE  TypeOK'
<1>1. ASSUME NEW c \in Child, NEW h \in Handle, PumpSpawn(c, h)
      PROVE  TypeOK'
  <2>1. debugQueue' \in Seq(DebugEvent)
    BY <1>1, EventType, Disjoint DEF PumpSpawn, TypeOK, EventKind
  <2>2. pump' \in {"top", "wait"} /\ children' \subseteq Child
    BY <1>1, LocationType DEF PumpSpawn, TypeOK
  <2>3. mailbox' \in Seq(PumpMessage)
    BY <1>1 DEF PumpSpawn, TypeOK
  <2>4. QED
    BY <1>1, <2>1, <2>2, <2>3, Disjoint
    DEF PumpSpawn, TypeOK, eventVars, ProcState
<1>2. ASSUME NEW c \in Child, PumpSpawnFails(c)
      PROVE  TypeOK'
  <2>1. pump' \in {"top", "wait"}
    BY <1>2, LocationType DEF PumpSpawnFails, TypeOK
  <2>2. mailbox' \in Seq(PumpMessage)
    BY <1>2 DEF PumpSpawnFails, TypeOK
  <2>3. QED
    BY <1>2, <2>1, <2>2, Disjoint
    DEF PumpSpawnFails, TypeOK, entryVars, eventVars, osVars
<1>3. CASE PumpShutdown
  <2>1. proc' \in [Process -> ProcState]
    BY <1>3 DEF PumpShutdown, TypeOK, ProcState
  <2>2. cause' \in [Process -> {"none", "exit", "kill", "exception"}]
    BY <1>3 DEF PumpShutdown, TypeOK
  <2>3. mailbox' \in Seq(PumpMessage) /\ debugQueue' \in Seq(DebugEvent)
    BY <1>3 DEF PumpShutdown
  <2>4. QED
    BY <1>3, <2>1, <2>2, <2>3
    DEF PumpShutdown, TypeOK, callerVars, entryVars, eventVars
<1>4. CASE PumpNoMessage
  BY <1>4 DEF PumpNoMessage, TypeOK, callerVars, entryVars, eventVars, osVars
<1>5. CASE PumpTimeout
  BY <1>5, LocationType
  DEF PumpTimeout, TypeOK, callerVars, entryVars, eventVars, osVars
<1>6. CASE PumpContinue
  <2>1. proc' \in [Process -> ProcState]
    BY <1>6 DEF PumpContinue, TypeOK, ProcState
  <2>2. cause' \in [Process -> {"none", "exit", "kill", "exception"}]
    BY <1>6 DEF PumpContinue, TypeOK
  <2>3. QED
    BY <1>6, <2>1, <2>2, LocationType
    DEF PumpContinue, TypeOK, callerVars, entryVars
<1>7. CASE debugQueue # <<>> /\ DispatchEvent(Head(debugQueue))
  BY <1>7, TypeDispatch
<1>8. QED
  BY <1>1, <1>2, <1>3, <1>4, <1>5, <1>6, <1>7 DEF PumpStep

\* A process that stops at an event changes the queue and the history.
LEMMA TypePostEvent ==
  ASSUME TypeOK, NEW e \in DebugEvent, PostEvent(e)
  PROVE  /\ debugQueue' \in Seq(DebugEvent)
         /\ raised' \in [Process -> SUBSET Codes]
         /\ UNCHANGED <<callerVars, pumpVars, exit_ch, result, affinity>>
<1>1. e.pid \in Process /\ (e.chance = "second" => e.code \in Codes)
  BY DEF DebugEvent
<1>2. raised' \in [Process -> SUBSET Codes]
  BY <1>1 DEF PostEvent, TypeOK
<1>3. debugQueue' \in Seq(DebugEvent)
  BY DEF PostEvent, TypeOK
<1>4. QED
  BY <1>2, <1>3 DEF PostEvent

\* A step of a process keeps the types.
LEMMA TypeProcessStep ==
  ASSUME TypeOK, ProcessStep
  PROVE  TypeOK'
<1> USE DEF TypeOK, callerVars, pumpVars, entryVars, eventVars, ProcState
<1>1. ASSUME NEW p \in Process, LoaderBreak(p)
      PROVE  TypeOK'
  BY <1>1, TypePostEvent, EventType DEF LoaderBreak, EventKind
<1>2. ASSUME NEW p \in Process, ReportExit(p)
      PROVE  TypeOK'
  BY <1>2, TypePostEvent, EventType DEF ReportExit, EventKind
<1>3. ASSUME NEW p \in Process, Vanish(p)
      PROVE  TypeOK'
  BY <1>3 DEF Vanish
<1>4. ASSUME NEW p \in Process, NEW why \in {"exit", "kill"}, Die(p, why)
      PROVE  TypeOK'
  BY <1>4 DEF Die
<1>5. ASSUME NEW p \in Process, NEW code \in Codes,
             NEW chance \in {"first", "second"}, RaiseException(p, code, chance)
      PROVE  TypeOK'
  BY <1>5, TypePostEvent, EventType DEF RaiseException, EventKind
<1>6. ASSUME NEW p \in Process, NEW kind \in OtherKinds, RaiseOther(p, kind)
      PROVE  TypeOK'
  BY <1>6, TypePostEvent, EventType, PumpAssumption DEF RaiseOther, EventKind
<1>7. ASSUME NEW p \in Process, NEW d \in Descendant, StartDescendant(p, d)
      PROVE  TypeOK'
  BY <1>7, TypePostEvent, EventType DEF StartDescendant, EventKind, Process
<1>8. QED
  BY <1>1, <1>2, <1>3, <1>4, <1>5, <1>6, <1>7 DEF ProcessStep

\* A stuttering step keeps the types.
LEMMA TypeStutter ==
  ASSUME TypeOK, UNCHANGED vars
  PROVE  TypeOK'
  BY DEF TypeOK, vars, callerVars, pumpVars, entryVars, eventVars, osVars

\* Every variable keeps the values the types of the program allow: in
\* particular a result with a code always carries a code some debuggee of
\* this run could raise.
THEOREM TypeCorrect == Spec => []TypeOK
<1>1. TypeOK /\ [Next]_vars => TypeOK'
  BY TypeCallerStep, TypePumpStep, TypeProcessStep, TypeStutter DEF Next
<1>2. QED
  BY <1>1, TypeInit, PTL DEF Spec

-----------------------------------------------------------------------------
(* The hand-over.                                                          *)

\* Before the first spawn() nothing has been handed over.
LEMMA HandOverInit == Init => HandOver
  BY Disjoint
  DEF Init, HandOver, OwnersHoldThePump, SenderHoldsTheLock, MailboxHoldsOne,
      PumpEndsUnowned, ReplyBeforeChild, TrackedOrReported,
      TrackedMeansUnreported, FallBackOnlyWithoutPump, Owner

\* The messages differ, and a queue of one is read empty.
LEMMA Messages ==
  /\ \A c \in Child : SpawnMessage(c) # Shutdown
  /\ \A c, d \in Child : SpawnMessage(c) = SpawnMessage(d) => c = d
  /\ \A m : Head(<<m>>) = m /\ Tail(<<m>>) = <<>> /\ <<m>> # <<>>
  /\ \A m : Append(<<>>, m) = <<m>>
  /\ \A m, n : <<m>> = <<n>> => m = n
  BY DEF SpawnMessage, Shutdown

\* A caller's step that leaves the requests and the children alone.
LEMMA HandOverDropOwner ==
  ASSUME TypeOK, HandOver, NEW o \in Owner, DropOwner(o)
  PROVE  HandOver'
  BY Disjoint
  DEF DropOwner, TypeOK, HandOver, OwnersHoldThePump, SenderHoldsTheLock,
      MailboxHoldsOne, PumpEndsUnowned, ReplyBeforeChild, TrackedOrReported,
      TrackedMeansUnreported, FallBackOnlyWithoutPump, pumpVars

\* The last owner sends Shutdown into an empty mailbox: a request under way
\* would be that of an owner.
LEMMA HandOverReleasePump ==
  ASSUME TypeOK, HandOver, NEW o \in Owner, ReleasePump(o)
  PROVE  HandOver'
<1> USE Disjoint DEF TypeOK, HandOver, ReleasePump
<1>1. OwnersHoldThePump'
  BY DEF OwnersHoldThePump, AfterRelease
<1>2. SenderHoldsTheLock'
  BY DEF SenderHoldsTheLock, AfterRelease
<1>3. MailboxHoldsOne'
  <2>1. o \in refs
    BY DEF OwnersHoldThePump
  <2>2. CASE refs' = {} /\ pump # "none"
    <3>1. \A c \in Child : caller[c] # "sent"
      BY <2>2 DEF OwnersHoldThePump
    <3>2. mailbox = <<>>
      BY <2>1, <3>1 DEF MailboxHoldsOne
    <3>3. QED
      BY <2>2, <3>2, Messages DEF MailboxHoldsOne
  <2>3. CASE ~(refs' = {} /\ pump # "none")
    <3>1. mailbox' = mailbox /\ mailbox # <<Shutdown>>
      BY <2>1, <2>3, Messages DEF MailboxHoldsOne
    <3>2. \A c \in Child : caller[c] = "sent" => caller'[c] = "sent"
      BY <2>3
    <3>3. QED
      BY <3>1, <3>2 DEF MailboxHoldsOne
  <2>4. QED
    BY <2>2, <2>3
<1>4. PumpEndsUnowned' /\ ReplyBeforeChild'
  BY DEF PumpEndsUnowned, ReplyBeforeChild, AfterRelease
<1>5. TrackedOrReported' /\ TrackedMeansUnreported'
  BY DEF TrackedOrReported, TrackedMeansUnreported, AfterRelease
<1>6. FallBackOnlyWithoutPump'
  BY DEF FallBackOnlyWithoutPump, AfterRelease
<1>7. QED
  BY <1>1, <1>2, <1>3, <1>4, <1>5, <1>6

\* The join leaves everything but the place of its caller alone.
LEMMA HandOverJoinPump ==
  ASSUME TypeOK, HandOver, NEW o \in Owner, JoinPump(o)
  PROVE  HandOver'
  BY Disjoint
  DEF JoinPump, AfterRelease, TypeOK, HandOver, OwnersHoldThePump,
      SenderHoldsTheLock, MailboxHoldsOne, PumpEndsUnowned, ReplyBeforeChild,
      TrackedOrReported, TrackedMeansUnreported, FallBackOnlyWithoutPump,
      pumpVars

\* A new command becomes an owner before it can send anything.
LEMMA HandOverCreateCommand ==
  ASSUME TypeOK, HandOver, NEW c \in Child, CreateCommand(c)
  PROVE  HandOver'
<1> USE Disjoint DEF TypeOK, HandOver, CreateCommand, pumpVars
<1>1. Root \in refs
  BY DEF OwnersHoldThePump
<1>2. OwnersHoldThePump' /\ SenderHoldsTheLock'
  BY DEF OwnersHoldThePump, SenderHoldsTheLock
<1>3. MailboxHoldsOne' /\ PumpEndsUnowned'
  BY <1>1 DEF MailboxHoldsOne, PumpEndsUnowned
<1>4. ReplyBeforeChild' /\ TrackedOrReported'
  BY DEF ReplyBeforeChild, TrackedOrReported
<1>5. TrackedMeansUnreported' /\ FallBackOnlyWithoutPump'
  BY DEF TrackedMeansUnreported, FallBackOnlyWithoutPump
<1>6. QED
  BY <1>2, <1>3, <1>4, <1>5

\* The mutex is free, so no request is under way; the sender is an owner, so
\* no Shutdown is: the request is alone in the mailbox, of a running pump.
LEMMA HandOverSendSpawn ==
  ASSUME TypeOK, HandOver, NEW c \in Child, SendSpawn(c)
  PROVE  HandOver'
<1> USE Disjoint DEF TypeOK, HandOver, SendSpawn
<1>1. c \in refs /\ pump # "done" /\ reply[c] = "none"
  BY DEF OwnersHoldThePump, PumpEndsUnowned, ReplyBeforeChild
<1>2. \A d \in Child : caller[d] # "sent"
  BY DEF SenderHoldsTheLock
<1>3. mailbox = <<>>
  BY <1>1, <1>2 DEF MailboxHoldsOne
<1>4. mailbox' = <<SpawnMessage(c)>> /\ caller'[c] = "sent" /\ pump' # "done"
  BY <1>1, <1>3, Messages
<1>5. OwnersHoldThePump' /\ SenderHoldsTheLock'
  BY <1>1, <1>2 DEF OwnersHoldThePump, SenderHoldsTheLock
<1>6. MailboxHoldsOne' /\ PumpEndsUnowned'
  BY <1>1, <1>4 DEF MailboxHoldsOne, PumpEndsUnowned
<1>7. ReplyBeforeChild' /\ TrackedOrReported'
  BY <1>1 DEF ReplyBeforeChild, TrackedOrReported
<1>8. TrackedMeansUnreported' /\ FallBackOnlyWithoutPump'
  BY <1>1 DEF TrackedMeansUnreported, FallBackOnlyWithoutPump
<1>9. QED
  BY <1>5, <1>6, <1>7, <1>8

\* No pump was started: the caller keeps no child.
LEMMA HandOverStartFails ==
  ASSUME TypeOK, HandOver, NEW c \in Child, StartFails(c)
  PROVE  HandOver'
  BY Disjoint
  DEF StartFails, TypeOK, HandOver, OwnersHoldThePump, SenderHoldsTheLock,
      MailboxHoldsOne, PumpEndsUnowned, ReplyBeforeChild, TrackedOrReported,
      TrackedMeansUnreported, FallBackOnlyWithoutPump, pumpVars

\* The pump is there, so there is a reply, and the mailbox is empty again.
LEMMA HandOverReceiveReply ==
  ASSUME TypeOK, HandOver, NEW c \in Child, ReceiveReply(c)
  PROVE  HandOver'
<1> USE Disjoint DEF TypeOK, HandOver, ReceiveReply, pumpVars
<1>1. c \in refs /\ pump # "done" /\ reply[c] # "none" /\ reply' = reply
  BY DEF OwnersHoldThePump, PumpEndsUnowned
<1>2. OwnersHoldThePump' /\ SenderHoldsTheLock'
  BY <1>1 DEF OwnersHoldThePump, SenderHoldsTheLock
<1>3. MailboxHoldsOne' /\ PumpEndsUnowned'
  BY <1>1 DEF MailboxHoldsOne, PumpEndsUnowned
<1>4. ReplyBeforeChild' /\ TrackedOrReported'
  BY <1>1 DEF ReplyBeforeChild, TrackedOrReported
<1>5. TrackedMeansUnreported' /\ FallBackOnlyWithoutPump'
  BY DEF TrackedMeansUnreported, FallBackOnlyWithoutPump
<1>6. QED
  BY <1>2, <1>3, <1>4, <1>5

\* The steps of the WorrywartChild: the request is over, and the child has
\* been reported or is no longer tracked.
LEMMA HandOverChild ==
  ASSUME TypeOK, HandOver, NEW c \in Child,
         CallWait(c) \/ ReceiveResult(c) \/ FallBackToPlain(c)
           \/ WaitPlain(c) \/ DropChild(c)
  PROVE  HandOver'
<1> USE Disjoint DEF TypeOK, HandOver, pumpVars
<1> USE DEF OwnersHoldThePump, SenderHoldsTheLock, MailboxHoldsOne,
            PumpEndsUnowned, ReplyBeforeChild, TrackedOrReported,
            TrackedMeansUnreported, FallBackOnlyWithoutPump
<1>1. CASE CallWait(c)
  BY <1>1 DEF CallWait
<1>2. CASE ReceiveResult(c)
  BY <1>2 DEF ReceiveResult
<1>3. CASE FallBackToPlain(c)
  BY <1>3 DEF FallBackToPlain, SenderAlive
<1>4. CASE WaitPlain(c)
  BY <1>4 DEF WaitPlain
<1>5. CASE DropChild(c)
  BY <1>5 DEF DropChild
<1>6. QED
  BY <1>1, <1>2, <1>3, <1>4, <1>5

\* A step of a caller keeps the hand-over.
LEMMA HandOverCallerStep ==
  ASSUME TypeOK, HandOver, CallerStep
  PROVE  HandOver'
  BY HandOverDropOwner, HandOverReleasePump, HandOverJoinPump,
     HandOverCreateCommand, HandOverSendSpawn, HandOverStartFails,
     HandOverReceiveReply, HandOverChild
  DEF CallerStep

\* The request read is that of the caller that waits for the reply.
LEMMA RequestRead ==
  ASSUME TypeOK, HandOver, NEW c \in Child,
         mailbox # <<>>, Head(mailbox) = SpawnMessage(c)
  PROVE  /\ caller[c] = "sent" /\ reply[c] = "none" /\ Tail(mailbox) = <<>>
         /\ c \notin children /\ exit_ch[c] = Empty /\ result[c] = Empty
<1>1. mailbox # <<Shutdown>>
  BY Messages
<1>2. PICK d \in Child : /\ mailbox = <<SpawnMessage(d)>>
                         /\ caller[d] = "sent" /\ reply[d] = "none"
  BY <1>1 DEF HandOver, MailboxHoldsOne
<1>3. d = c
  BY <1>2, Messages
<1>4. QED
  BY <1>2, <1>3, Messages DEF HandOver, ReplyBeforeChild

\* The request is answered in the step that tracks its child, or drops it.
LEMMA HandOverPumpSpawn ==
  ASSUME TypeOK, HandOver, NEW c \in Child,
         (\E h \in Handle : PumpSpawn(c, h)) \/ PumpSpawnFails(c)
  PROVE  HandOver'
<1> USE Disjoint DEF TypeOK
<1>1. /\ caller[c] = "sent" /\ reply[c] = "none" /\ mailbox' = <<>>
      /\ c \notin children /\ exit_ch[c] = Empty /\ result[c] = Empty
  BY RequestRead DEF PumpSpawn, PumpSpawnFails
<1>2. /\ pump = "top" /\ pump' # "done"
      /\ children' \in {children, children \cup {c}}
      /\ reply' \in {[reply EXCEPT ![c] = "Ok"], [reply EXCEPT ![c] = "Err"]}
      /\ reply'[c] = "Ok" <=> c \in children'
      /\ UNCHANGED <<caller, refs, lock, exit_ch, result>>
  BY <1>1 DEF PumpSpawn, PumpSpawnFails, AfterMailbox, osVars
<1> HIDE DEF TypeOK
<1>3. OwnersHoldThePump' /\ SenderHoldsTheLock'
  BY <1>2 DEF HandOver, OwnersHoldThePump, SenderHoldsTheLock
<1>4. MailboxHoldsOne' /\ PumpEndsUnowned'
  BY <1>1, <1>2 DEF MailboxHoldsOne, PumpEndsUnowned
<1>5. ReplyBeforeChild' /\ TrackedOrReported'
  BY <1>1, <1>2 DEF TypeOK, HandOver, ReplyBeforeChild, TrackedOrReported
<1>6. TrackedMeansUnreported' /\ FallBackOnlyWithoutPump'
  BY <1>1, <1>2 DEF HandOver, TrackedMeansUnreported, FallBackOnlyWithoutPump
<1>7. QED
  BY <1>3, <1>4, <1>5, <1>6 DEF HandOver

\* The Shutdown read is the last message, and no owner is left to send one.
LEMMA HandOverPumpShutdown ==
  ASSUME TypeOK, HandOver, PumpShutdown
  PROVE  HandOver'
<1> USE DEF HandOver
<1>1. mailbox = <<Shutdown>> /\ refs = {}
  BY Messages DEF PumpShutdown, MailboxHoldsOne
<1>2. /\ mailbox' = <<>> /\ pump' = "done" /\ children' = {}
      /\ UNCHANGED <<caller, refs, lock, reply, exit_ch, result>>
  BY DEF PumpShutdown, callerVars
<1>3. OwnersHoldThePump' /\ SenderHoldsTheLock'
  BY <1>2 DEF OwnersHoldThePump, SenderHoldsTheLock
<1>4. MailboxHoldsOne' /\ PumpEndsUnowned'
  BY <1>1, <1>2 DEF MailboxHoldsOne, PumpEndsUnowned
<1>5. ReplyBeforeChild' /\ TrackedOrReported'
  BY <1>2 DEF ReplyBeforeChild, TrackedOrReported
<1>6. TrackedMeansUnreported' /\ FallBackOnlyWithoutPump'
  BY <1>2 DEF TrackedMeansUnreported, FallBackOnlyWithoutPump
<1>7. QED
  BY <1>3, <1>4, <1>5, <1>6

\* Steps that leave all of the hand-over alone but where a live pump is.
LEMMA HandOverUnmoved ==
  ASSUME HandOver, pump' = pump \/ (pump # "done" /\ pump' # "done"),
         UNCHANGED <<caller, refs, lock, reply, mailbox, children, exit_ch,
                     result>>
  PROVE  HandOver'
  BY DEF HandOver, OwnersHoldThePump, SenderHoldsTheLock, MailboxHoldsOne,
     PumpEndsUnowned, ReplyBeforeChild, TrackedOrReported,
     TrackedMeansUnreported, FallBackOnlyWithoutPump

\* A reported child leaves the map, with its result in the empty channel.
LEMMA HandOverReport ==
  ASSUME TypeOK, HandOver, NEW e, NEW r, ReportAndForget(e, r),
         e.pid \in children => r \in TerminationReason,
         pump # "done", pump' # "done",
         UNCHANGED <<caller, refs, lock, reply, mailbox, result>>
  PROVE  HandOver'
<1>1. CASE e.pid \notin children
  BY <1>1, HandOverUnmoved DEF ReportAndForget
<1>2. CASE e.pid \in children
  <2>1. e.pid \in Child /\ children' = children \ {e.pid} /\ r # Empty
    BY <1>2, ReasonIsNotEmpty DEF ReportAndForget, TypeOK
  <2>2. exit_ch' = IF caller[e.pid] = "finished" THEN exit_ch
                   ELSE [exit_ch EXCEPT ![e.pid] = r]
    BY <1>2 DEF ReportAndForget, SendExit
  <2>3. reply[e.pid] = "Ok"
    BY <1>2, <2>1 DEF HandOver, ReplyBeforeChild
  <2>4. OwnersHoldThePump' /\ SenderHoldsTheLock'
    BY DEF HandOver, OwnersHoldThePump, SenderHoldsTheLock
  <2>5. MailboxHoldsOne' /\ PumpEndsUnowned'
    BY DEF HandOver, MailboxHoldsOne, PumpEndsUnowned
  <2>6. ReplyBeforeChild'
    BY <2>1, <2>2, <2>3 DEF HandOver, ReplyBeforeChild, TypeOK
  <2>7. TrackedOrReported'
    BY <2>1, <2>2 DEF HandOver, TrackedOrReported, TypeOK
  <2>8. TrackedMeansUnreported'
    BY <2>1, <2>2 DEF HandOver, TrackedMeansUnreported, TypeOK
  <2>9. FallBackOnlyWithoutPump'
    BY DEF HandOver, FallBackOnlyWithoutPump
  <2>10. QED
    BY <2>4, <2>5, <2>6, <2>7, <2>8, <2>9 DEF HandOver
<1>3. QED
  BY <1>1, <1>2

\* Every arm of dispatch_event() keeps the hand-over.
LEMMA HandOverDispatch ==
  ASSUME TypeOK, HandOver, NEW e, DispatchEvent(e)
  PROVE  HandOver'
<1>1. PICK status : TakeEvent(e, status)
  BY DEF DispatchEvent, DispatchLoaderBreakpoint, DispatchSecondChance,
     DispatchException, DispatchExitProcess, DispatchRip, DispatchOther
<1>2. /\ pump # "done" /\ pump' # "done"
      /\ UNCHANGED <<caller, refs, lock, reply, mailbox, result>>
  BY <1>1 DEF TakeEvent, callerVars
<1>3. CASE DispatchExitProcess(e)
  BY <1>2, <1>3, ClassifyEventType, HandOverReport DEF DispatchExitProcess
<1>4. CASE DispatchRip(e)
  <2>1. ExternalKill \in TerminationReason
    BY DEF TerminationReason
  <2>2. QED
    BY <1>2, <1>4, <2>1, HandOverReport DEF DispatchRip
<1>5. CASE \/ DispatchLoaderBreakpoint(e) \/ DispatchSecondChance(e)
           \/ DispatchException(e) \/ DispatchOther(e)
  <2>1. UNCHANGED <<children, exit_ch>>
    BY <1>5 DEF DispatchLoaderBreakpoint, DispatchSecondChance,
       DispatchException, DispatchOther
  <2>2. QED
    BY <1>2, <2>1, HandOverUnmoved
<1>6. QED
  BY <1>3, <1>4, <1>5 DEF DispatchEvent

\* A step of the pump thread keeps the hand-over.
LEMMA HandOverPumpStep ==
  ASSUME TypeOK, HandOver, PumpStep
  PROVE  HandOver'
<1>1. CASE PumpNoMessage \/ PumpTimeout \/ PumpContinue
  BY <1>1, HandOverUnmoved
  DEF PumpNoMessage, PumpTimeout, PumpContinue, AfterEvent, callerVars
<1>2. QED
  BY <1>1, HandOverPumpSpawn, HandOverPumpShutdown, HandOverDispatch
  DEF PumpStep

\* The processes touch nothing of the hand-over.
LEMMA HandOverProcessStep ==
  ASSUME HandOver, ProcessStep \/ UNCHANGED vars
  PROVE  HandOver'
<1>1. UNCHANGED <<callerVars, pumpVars, exit_ch, result>>
  BY DEF ProcessStep, LoaderBreak, ReportExit, Vanish, Die, RaiseException,
     RaiseOther, StartDescendant, PostEvent, vars
<1>2. QED
  BY <1>1, HandOverUnmoved DEF callerVars, pumpVars

\* The hand-over holds together in every reachable state, whatever the
\* children do and however many of them there are: the mailbox never holds
\* more than the request of the mutex holder, or the Shutdown of the last
\* owner, and a child is always tracked or reported, and not both.
THEOREM HandOverCorrect == Spec => []HandOver
<1>1. TypeOK /\ HandOver /\ [Next]_vars => HandOver'
  BY HandOverCallerStep, HandOverPumpStep, HandOverProcessStep DEF Next
<1>2. QED
  BY <1>1, HandOverInit, TypeCorrect, PTL DEF Spec

\* The send of a result never blocks the pump thread: for no child it still
\* tracks has anything been put into the one-place exit channel.
THEOREM PumpNeverBlocks == Spec => []TrackedMeansUnreported
<1>1. HandOver => TrackedMeansUnreported
  BY DEF HandOver
<1>2. QED
  BY <1>1, HandOverCorrect, PTL

\* No spawn() is told that the pump thread is gone, however the drops of the
\* owners and the spawns of other threads interleave.
THEOREM NoCallerFindsPumpGoneEver == Spec => []NoCallerFindsPumpGone
<1>1. HandOver => NoCallerFindsPumpGone
  <2>1. SUFFICES ASSUME HandOver, NEW c \in Child
                 PROVE  /\ reply[c] # "BrokenPipe"
                        /\ caller[c] = "sent" =>
                             /\ pump # "done"
                             /\ \A i \in DOMAIN mailbox : mailbox[i] # Shutdown
    BY DEF NoCallerFindsPumpGone
  <2>2. reply[c] # "BrokenPipe"
    BY <2>1 DEF HandOver, ReplyBeforeChild
  <2>3. ASSUME caller[c] = "sent"
        PROVE  pump # "done" /\ \A i \in DOMAIN mailbox : mailbox[i] # Shutdown
    <3>1. refs # {}
      BY <2>1, <2>3, Disjoint DEF HandOver, OwnersHoldThePump
    <3>2. pump # "done"
      BY <2>1, <3>1 DEF HandOver, PumpEndsUnowned
    <3>3. \/ mailbox = <<>>
          \/ \E d \in Child : mailbox = <<SpawnMessage(d)>>
      BY <2>1, <3>1 DEF HandOver, MailboxHoldsOne
    <3>4. QED
      BY <3>2, <3>3, Messages
  <2>4. QED
    BY <2>2, <2>3
<1>2. QED
  BY <1>1, HandOverCorrect, PTL

\* A waiter loses its diagnosis to the plain wait only after the pump thread
\* has ended.
THEOREM FallBackIsLast == Spec => []FallBackOnlyWithoutPump
<1>1. HandOver => FallBackOnlyWithoutPump
  BY DEF HandOver
<1>2. QED
  BY <1>1, HandOverCorrect, PTL

-----------------------------------------------------------------------------
(* The refinement of ExitReport.                                           *)

\* The owner of one child moves, the others stay where ExitReport sees them.
LEMMA StageMoves ==
  ASSUME NEW c \in Child, \A d \in Child \ {c} : Stage(d)' = Stage(d)
  PROVE  Stages' = [Stages EXCEPT ![c] = Stage(c)']
  BY DEF Stages

\* A sender is in the map, or in the one request of the mailbox.
LEMMA SenderIsTrackedOrAsked ==
  ASSUME HandOver, NEW c \in Child
  PROVE  c \in Senders <=> c \in children \/ mailbox = <<SpawnMessage(c)>>
<1>1. CASE mailbox = <<>>
  BY <1>1 DEF Senders, SenderAlive
<1>2. ASSUME NEW m, mailbox = <<m>>
      PROVE  c \in Senders <=> c \in children \/ m = SpawnMessage(c)
  <2>1. DOMAIN mailbox = {1} /\ mailbox[1] = m
    BY <1>2
  <2>2. QED
    BY <2>1 DEF Senders, SenderAlive
<1>3. QED
  BY <1>1, <1>2, Messages DEF HandOver, MailboxHoldsOne

\* The Shutdown message carries no sender.
LEMMA ShutdownIsNoSender ==
  ASSUME TypeOK, NEW c \in Child
  PROVE  (\E i \in DOMAIN Append(mailbox, Shutdown) :
            Append(mailbox, Shutdown)[i] = SpawnMessage(c))
         <=> \E i \in DOMAIN mailbox : mailbox[i] = SpawnMessage(c)
<1>1. mailbox \in Seq(PumpMessage) /\ Shutdown \in PumpMessage
  BY DEF TypeOK, PumpMessage
<1> DEFINE more == Append(mailbox, Shutdown)
<1>2. /\ DOMAIN mailbox = 1 .. Len(mailbox)
      /\ DOMAIN more = 1 .. Len(mailbox) + 1
      /\ \A i \in 1 .. Len(mailbox) : more[i] = mailbox[i]
      /\ more[Len(mailbox) + 1] = Shutdown
      /\ Len(mailbox) \in Nat
  BY <1>1, AppendProperties
<1> HIDE DEF more
<1>3. QED
  BY <1>2, Messages DEF more

\* Steps that leave the owners, the senders and the channels alone.
LEMMA PromiseStutters ==
  ASSUME \A c \in Child : Stage(c)' = Stage(c), Senders' = Senders,
         UNCHANGED <<exit_ch, result>>, (pump = "done") = (pump' = "done")
  PROVE  UNCHANGED Promise!vars
<1>1. Stages' = Stages
  BY DEF Stages
<1>2. QED
  BY <1>1 DEF Promise!vars

\* Where each owner starts.
LEMMA PromiseInit == Init => Promise!Init
<1>1. SUFFICES ASSUME Init
               PROVE  Promise!Init
  OBVIOUS
<1>2. \A c \in Child : Stage(c) = "new" /\ ~SenderAlive(c)
  BY <1>1, Disjoint DEF Init, Stage, SenderAlive, Owner
<1>3. Stages = [c \in Child |-> "new"] /\ Senders = {}
  BY <1>2 DEF Stages, Senders
<1>4. QED
  BY <1>1, <1>3 DEF Init, Promise!Init

\* A step of an owner with its Arc of the pump: seen when a command that has
\* spawned nothing goes away, otherwise not.
LEMMA PromiseOwner ==
  ASSUME TypeOK, HandOver, NEW o \in Owner,
         DropOwner(o) \/ ReleasePump(o) \/ JoinPump(o)
  PROVE  [Promise!Next]_Promise!vars
<1> USE Disjoint DEF TypeOK
<1>1. UNCHANGED <<reply, children, exit_ch, result, pump>>
  BY DEF DropOwner, ReleasePump, JoinPump, pumpVars
<1>2. CASE DropOwner(o) /\ o \in Child
  <2>1. mailbox' = mailbox
    BY <1>2 DEF DropOwner, pumpVars
  <2>2. reply[o] = "none" /\ o \notin children /\ exit_ch[o] = Empty
    BY <1>2 DEF DropOwner, HandOver, ReplyBeforeChild
  <2>3. mailbox # <<SpawnMessage(o)>>
    BY <1>2, Messages DEF DropOwner, HandOver, MailboxHoldsOne
  <2>4. o \notin Senders /\ Senders' = Senders
    BY <1>1, <2>1, <2>2, <2>3, SenderIsTrackedOrAsked
    DEF Senders, SenderAlive
  <2>5. Stage(o) = "new" /\ Stage(o)' = "dropped"
    BY <1>1, <1>2, <2>2 DEF Stage, DropOwner
  <2>6. \A d \in Child \ {o} : Stage(d)' = Stage(d)
    BY <1>1, <1>2 DEF Stage, DropOwner
  <2>7. Stages' = [Stages EXCEPT ![o] = "dropped"] /\ Stages[o] = "new"
    BY <1>2, <2>5, <2>6, StageMoves DEF Stages
  <2>8. Promise!Refuse(o)
    BY <1>1, <2>2, <2>4, <2>7 DEF Promise!Refuse
  <2>9. QED
    BY <1>2, <2>8 DEF Promise!Next
<1>3. CASE ~(DropOwner(o) /\ o \in Child)
  <2>1. \A c \in Child : Stage(c)' = Stage(c)
    BY <1>1, <1>3 DEF Stage, DropOwner, ReleasePump, JoinPump, AfterRelease
  <2>2. mailbox' \in {mailbox, Append(mailbox, Shutdown)}
    BY DEF DropOwner, ReleasePump, JoinPump, pumpVars
  <2>3. \A c \in Child : SenderAlive(c)' <=> SenderAlive(c)
    BY <1>1, <2>2, ShutdownIsNoSender DEF SenderAlive
  <2>4. QED
    BY <1>1, <2>1, <2>3, PromiseStutters DEF Senders
<1>4. QED
  BY <1>2, <1>3

\* SendSpawn opens the child: its owner keeps the pump there to take the
\* sender, which is alone in the mailbox.
LEMMA PromiseSendSpawn ==
  ASSUME TypeOK, HandOver, NEW c \in Child, SendSpawn(c)
  PROVE  Promise!Open(c)
<1> USE Disjoint DEF TypeOK
<1>1. c \in refs /\ pump # "done" /\ pump' # "done" /\ reply[c] = "none"
  BY DEF SendSpawn, HandOver, OwnersHoldThePump, PumpEndsUnowned,
     ReplyBeforeChild
<1>2. \A d \in Child : caller[d] # "sent"
  BY DEF SendSpawn, HandOver, SenderHoldsTheLock
<1>3. mailbox = <<>>
  BY <1>1, <1>2 DEF HandOver, MailboxHoldsOne
<1>4. mailbox' = <<SpawnMessage(c)>>
  BY <1>1, <1>3, Messages DEF SendSpawn
<1>5. \A d \in Child : SenderAlive(d)' <=> SenderAlive(d) \/ d = c
  <2>1. DOMAIN mailbox = {} /\ DOMAIN mailbox' = {1}
    BY <1>3, <1>4
  <2>2. mailbox'[1] = SpawnMessage(c) /\ children' = children
    BY <1>4 DEF SendSpawn
  <2>3. QED
    BY <2>1, <2>2, Messages DEF SenderAlive
<1>6. Senders' = Senders \cup {c}
  BY <1>5 DEF Senders
<1>7. /\ Stage(c) = "new" /\ Stage(c)' = "opened"
      /\ \A d \in Child \ {c} : Stage(d)' = Stage(d)
  BY <1>1 DEF SendSpawn, Stage
<1>8. Stages' = [Stages EXCEPT ![c] = "opened"] /\ Stages[c] = "new"
  BY <1>7, StageMoves DEF Stages
<1>9. QED
  BY <1>1, <1>6, <1>8 DEF SendSpawn, Promise!Open

\* A spawn() that cannot start the pump has handed over nothing.
LEMMA PromiseStartFails ==
  ASSUME TypeOK, HandOver, NEW c \in Child, StartFails(c)
  PROVE  Promise!Refuse(c)
<1> USE Disjoint DEF TypeOK
<1>1. /\ caller[c] = "ready" /\ reply[c] = "none" /\ c \notin children
      /\ exit_ch[c] = Empty /\ caller'[c] = "releasing" /\ reply'[c] = "Err"
      /\ UNCHANGED <<children, mailbox, exit_ch, result, pump>>
  BY DEF StartFails, HandOver, ReplyBeforeChild, pumpVars
<1>2. mailbox # <<SpawnMessage(c)>>
  BY <1>1, Messages DEF HandOver, MailboxHoldsOne
<1>3. c \notin Senders /\ Senders' = Senders
  BY <1>1, <1>2, SenderIsTrackedOrAsked DEF Senders, SenderAlive
<1>4. /\ Stage(c) = "new" /\ Stage(c)' = "dropped"
      /\ \A d \in Child \ {c} : Stage(d)' = Stage(d)
  BY <1>1 DEF StartFails, Stage
<1>5. Stages' = [Stages EXCEPT ![c] = "dropped"] /\ Stages[c] = "new"
  BY <1>4, StageMoves DEF Stages
<1>6. QED
  BY <1>1, <1>3, <1>5 DEF Promise!Refuse

\* A new command, and the reply: the owner stays where ExitReport sees it.
LEMMA PromiseCommandOrReply ==
  ASSUME TypeOK, HandOver, NEW c \in Child, CreateCommand(c) \/ ReceiveReply(c)
  PROVE  UNCHANGED Promise!vars
<1> USE Disjoint DEF TypeOK
<1>1. reply' = reply /\ UNCHANGED pumpVars /\ UNCHANGED <<exit_ch, result>>
  <2>1. CASE ReceiveReply(c)
    <3>1. c \in refs /\ pump # "done"
      BY <2>1 DEF ReceiveReply, HandOver, OwnersHoldThePump, PumpEndsUnowned
    <3>2. QED
      BY <2>1, <3>1 DEF ReceiveReply
  <2>2. QED
    BY <2>1 DEF CreateCommand
<1>2. ReceiveReply(c) => reply[c] # "none"
  BY DEF ReceiveReply, HandOver, OwnersHoldThePump, PumpEndsUnowned
<1>3. \A d \in Child : Stage(d)' = Stage(d)
  BY <1>1, <1>2 DEF CreateCommand, ReceiveReply, Stage
<1>4. Senders' = Senders
  BY <1>1 DEF Senders, SenderAlive, pumpVars
<1>5. QED
  BY <1>1, <1>3, <1>4, PromiseStutters DEF pumpVars

\* The steps of the WorrywartChild are those of ExitReport; when it falls
\* back to the plain wait the thread has ended.
LEMMA PromiseChild ==
  ASSUME TypeOK, HandOver, NEW c \in Child,
         CallWait(c) \/ ReceiveResult(c) \/ FallBackToPlain(c)
           \/ WaitPlain(c) \/ DropChild(c)
  PROVE  Promise!Next
<1> USE Disjoint DEF TypeOK
<1>1. UNCHANGED pumpVars /\ reply' = reply /\ Senders' = Senders
  BY DEF CallWait, ReceiveResult, FallBackToPlain, WaitPlain, DropChild,
     pumpVars, Senders, SenderAlive
<1>2. reply[c] = "Ok" /\ \A d \in Child \ {c} : Stage(d)' = Stage(d)
  BY <1>1 DEF CallWait, ReceiveResult, FallBackToPlain, WaitPlain, DropChild,
     Stage, HandOver, ReplyBeforeChild
<1>3. Stages' = [Stages EXCEPT ![c] = Stage(c)'] /\ Stages[c] = Stage(c)
  BY <1>2, StageMoves DEF Stages
<1>4. CASE CallWait(c)
  <2>1. Stage(c) = "opened" /\ Stage(c)' = "waiting"
    BY <1>2, <1>4 DEF CallWait, Stage
  <2>2. Promise!Wait(c)
    BY <1>1, <1>3, <1>4, <2>1 DEF CallWait, Promise!Wait, pumpVars
  <2>3. QED
    BY <2>2 DEF Promise!Next
<1>5. CASE ReceiveResult(c)
  <2>1. Stage(c) = "waiting" /\ Stage(c)' = "diagnosed"
    BY <1>5 DEF ReceiveResult, Stage
  <2>2. Promise!Receive(c)
    BY <1>1, <1>3, <1>5, <2>1 DEF ReceiveResult, Promise!Receive, pumpVars
  <2>3. QED
    BY <2>2 DEF Promise!Next
<1>6. CASE FallBackToPlain(c)
  <2>1. Stage(c) = "waiting" /\ Stage(c)' = "plain"
    BY <1>6 DEF FallBackToPlain, Stage
  <2>2. pump = "done"
    BY <1>2, <1>6 DEF FallBackToPlain, SenderAlive, HandOver, TrackedOrReported
  <2>3. Promise!FallBack(c)
    BY <1>1, <1>3, <1>6, <2>1, <2>2
    DEF FallBackToPlain, Promise!FallBack, pumpVars
  <2>4. QED
    BY <2>3 DEF Promise!Next
<1>7. CASE WaitPlain(c)
  <2>1. Stage(c) = "plain" /\ Stage(c)' = "diagnosed"
    BY <1>7 DEF WaitPlain, Stage
  <2>2. Promise!AskPlain(c, Unknown)
    BY <1>1, <1>3, <1>7, <2>1 DEF WaitPlain, Promise!AskPlain, pumpVars
  <2>3. QED
    BY <2>2 DEF Promise!Next
<1>8. CASE DropChild(c)
  <2>1. Stage(c) \in {"opened", "diagnosed"} /\ Stage(c)' = "dropped"
    BY <1>2, <1>8 DEF DropChild, Stage
  <2>2. Promise!Drop(c)
    BY <1>1, <1>3, <1>8, <2>1 DEF DropChild, Promise!Drop, pumpVars
  <2>3. QED
    BY <2>2 DEF Promise!Next
<1>9. QED
  BY <1>4, <1>5, <1>6, <1>7, <1>8

\* A step of the callers is one of ExitReport.
LEMMA PromiseCallerStep ==
  ASSUME TypeOK, HandOver, CallerStep
  PROVE  [Promise!Next]_Promise!vars
<1>1. ASSUME NEW c \in Child, Promise!Open(c) \/ Promise!Refuse(c)
      PROVE  Promise!Next
  BY <1>1 DEF Promise!Next
<1>2. QED
  BY <1>1, PromiseOwner, PromiseSendSpawn, PromiseStartFails,
     PromiseCommandOrReply, PromiseChild DEF CallerStep

\* A request answered Ok moves its sender from the mailbox to the map.
LEMMA PromisePumpSpawn ==
  ASSUME TypeOK, HandOver, NEW c \in Child, NEW h \in Handle, PumpSpawn(c, h)
  PROVE  UNCHANGED Promise!vars
<1>1. /\ caller[c] = "sent" /\ reply[c] = "none" /\ Tail(mailbox) = <<>>
  BY RequestRead DEF PumpSpawn
<1>2. mailbox = <<SpawnMessage(c)>> /\ mailbox' = <<>>
  BY <1>1, Messages DEF PumpSpawn, HandOver, MailboxHoldsOne
<1>3. \A d \in Child : Stage(d)' = Stage(d)
  BY <1>1 DEF PumpSpawn, Stage, TypeOK, Owner
<1>4. \A d \in Child : SenderAlive(d)' <=> d \in children \cup {c}
  BY <1>2 DEF SenderAlive, PumpSpawn
<1>5. \A d \in Child : SenderAlive(d) <=> d \in children \cup {c}
  BY <1>2, SenderIsTrackedOrAsked, Messages DEF Senders
<1>6. Senders' = Senders
  BY <1>4, <1>5 DEF Senders
<1>7. UNCHANGED <<exit_ch, result>> /\ (pump = "done") = (pump' = "done")
  BY LocationType DEF PumpSpawn, AfterMailbox
<1>8. QED
  BY <1>3, <1>6, <1>7, PromiseStutters

\* A request answered with an error loses its sender.
LEMMA PromisePumpSpawnFails ==
  ASSUME TypeOK, HandOver, NEW c \in Child, PumpSpawnFails(c)
  PROVE  Promise!Refuse(c)
<1> USE Disjoint DEF TypeOK
<1>1. /\ caller[c] = "sent" /\ reply[c] = "none" /\ Tail(mailbox) = <<>>
      /\ c \notin children /\ exit_ch[c] = Empty
  BY RequestRead DEF PumpSpawnFails
<1>2. mailbox = <<SpawnMessage(c)>> /\ mailbox' = <<>>
  BY <1>1, Messages DEF PumpSpawnFails, HandOver, MailboxHoldsOne
<1>3. \A d \in Child : SenderAlive(d)' <=> d \in children
  BY <1>2 DEF SenderAlive, PumpSpawnFails
<1>4. \A d \in Child : SenderAlive(d) <=> d \in children \cup {c}
  BY <1>2, SenderIsTrackedOrAsked, Messages DEF Senders
<1>5. Senders' = Senders \ {c}
  BY <1>1, <1>3, <1>4 DEF Senders
<1>6. /\ Stage(c) = "opened" /\ Stage(c)' = "dropped"
      /\ \A d \in Child \ {c} : Stage(d)' = Stage(d)
  BY <1>1 DEF PumpSpawnFails, Stage
<1>7. Stages' = [Stages EXCEPT ![c] = "dropped"] /\ Stages[c] = "opened"
  BY <1>6, StageMoves DEF Stages
<1>8. (pump = "done") = (pump' = "done")
  BY DEF PumpSpawnFails, AfterMailbox
<1>9. QED
  BY <1>1, <1>5, <1>7, <1>8 DEF PumpSpawnFails, Promise!Refuse

\* The Shutdown ends the thread with all its senders.
LEMMA PromisePumpShutdown ==
  ASSUME PumpShutdown
  PROVE  Promise!End
<1>1. \A c \in Child : ~SenderAlive(c)'
  BY DEF SenderAlive, PumpShutdown
<1>2. Senders' = {} /\ Stages' = Stages
  BY <1>1 DEF Senders, Stages, Stage, PumpShutdown, callerVars
<1>3. QED
  BY <1>2 DEF Promise!End, PumpShutdown

\* Where the caller and the mailbox stay, so do the stages, and the senders
\* change with the map.
LEMMA PromiseUncalled ==
  ASSUME UNCHANGED <<caller, reply, mailbox>>
  PROVE  /\ \A c \in Child : Stage(c)' = Stage(c)
         /\ children' = children => Senders' = Senders
  BY DEF Stage, Senders, SenderAlive

\* The one use of a sender: on a free channel, whose owner is there unless
\* it has dropped the child.
LEMMA PromiseReport ==
  ASSUME TypeOK, HandOver, NEW e, NEW r, ReportAndForget(e, r),
         e.pid \in children => r \in TerminationReason,
         pump # "done", pump' # "done",
         UNCHANGED <<caller, reply, mailbox, result>>
  PROVE  [Promise!Next]_Promise!vars
<1>1. CASE e.pid \notin children
  <2>1. UNCHANGED <<children, exit_ch>>
    BY <1>1 DEF ReportAndForget
  <2>2. QED
    BY <2>1, PromiseUncalled, PromiseStutters
<1>2. CASE e.pid \in children
  <2> DEFINE c == e.pid
  <2>1. /\ c \in Child /\ children' = children \ {c} /\ exit_ch[c] = Empty
        /\ exit_ch' = IF caller[c] = "finished" THEN exit_ch
                      ELSE [exit_ch EXCEPT ![c] = r]
    BY <1>2 DEF ReportAndForget, SendExit, TypeOK
  <2> HIDE DEF c
  <2>2. reply[c] = "Ok" /\ caller[c] \notin {"idle", "ready"}
    BY <1>2, <2>1 DEF HandOver, ReplyBeforeChild, c
  <2>3. mailbox # <<SpawnMessage(c)>>
    BY <2>1, <2>2, Messages DEF HandOver, MailboxHoldsOne
  <2>4. ~ \E i \in DOMAIN mailbox : mailbox[i] = SpawnMessage(c)
    <3>1. mailbox = <<>> \/ \E m : mailbox = <<m>> /\ m # SpawnMessage(c)
      BY <2>1, <2>3, Messages DEF HandOver, MailboxHoldsOne
    <3>2. QED
      BY <3>1
  <2>5. c \in Senders /\ Senders' = Senders \ {c}
    BY <1>2, <2>1, <2>4 DEF Senders, SenderAlive, c
  <2>6. Stages' = Stages /\ (Stages[c] = "dropped" <=> caller[c] = "finished")
    <3>1. Stage(c) = "dropped" <=> caller[c] = "finished"
      BY <2>1, <2>2, Disjoint DEF Stage, TypeOK, CallerState
    <3>2. QED
      BY <2>1, <3>1, PromiseUncalled DEF Stages
  <2>7. Promise!Report(c, r)
    BY <2>1, <2>5, <2>6 DEF Promise!Report
  <2>8. QED
    BY <1>2, <2>1, <2>7 DEF Promise!Next
<1>3. QED
  BY <1>1, <1>2

\* An event is a report, or nothing ExitReport sees.
LEMMA PromiseDispatch ==
  ASSUME TypeOK, HandOver, NEW e, DispatchEvent(e)
  PROVE  [Promise!Next]_Promise!vars
<1>1. PICK status : TakeEvent(e, status)
  BY DEF DispatchEvent, DispatchLoaderBreakpoint, DispatchSecondChance,
     DispatchException, DispatchExitProcess, DispatchRip, DispatchOther
<1>2. /\ pump # "done" /\ pump' # "done"
      /\ UNCHANGED <<caller, reply, mailbox, result>>
  BY <1>1 DEF TakeEvent, callerVars
<1>3. CASE DispatchExitProcess(e)
  BY <1>2, <1>3, ClassifyEventType, PromiseReport DEF DispatchExitProcess
<1>4. CASE DispatchRip(e)
  <2>1. ExternalKill \in TerminationReason
    BY DEF TerminationReason
  <2>2. QED
    BY <1>2, <1>4, <2>1, PromiseReport DEF DispatchRip
<1>5. CASE \/ DispatchLoaderBreakpoint(e) \/ DispatchSecondChance(e)
           \/ DispatchException(e) \/ DispatchOther(e)
  <2>1. UNCHANGED <<children, exit_ch>>
    BY <1>5 DEF DispatchLoaderBreakpoint, DispatchSecondChance,
       DispatchException, DispatchOther
  <2>2. QED
    BY <1>2, <2>1, PromiseUncalled, PromiseStutters
<1>6. QED
  BY <1>3, <1>4, <1>5 DEF DispatchEvent

\* A step of the pump thread is one of ExitReport.
LEMMA PromisePumpStep ==
  ASSUME TypeOK, HandOver, PumpStep
  PROVE  [Promise!Next]_Promise!vars
<1>1. CASE PumpNoMessage \/ PumpTimeout \/ PumpContinue
  <2>1. /\ UNCHANGED <<caller, reply, mailbox, children, exit_ch, result>>
        /\ pump # "done" /\ pump' # "done"
    BY <1>1
    DEF PumpNoMessage, PumpTimeout, PumpContinue, AfterEvent, callerVars
  <2>2. QED
    BY <2>1, PromiseUncalled, PromiseStutters
<1>2. CASE PumpShutdown
  BY <1>2, PromisePumpShutdown DEF Promise!Next
<1>3. ASSUME NEW c \in Child, PumpSpawnFails(c)
      PROVE  Promise!Next
  BY <1>3, PromisePumpSpawnFails DEF Promise!Next
<1>4. QED
  BY <1>1, <1>2, <1>3, PromisePumpSpawn, PromiseDispatch DEF PumpStep

\* The processes do nothing ExitReport sees.
LEMMA PromiseProcessStep ==
  ASSUME ProcessStep \/ UNCHANGED vars
  PROVE  UNCHANGED Promise!vars
<1>1. UNCHANGED <<callerVars, pumpVars, exit_ch, result>>
  BY DEF ProcessStep, LoaderBreak, ReportExit, Vanish, Die, RaiseException,
     RaiseOther, StartDescendant, PostEvent, vars
<1>2. QED
  BY <1>1, PromiseUncalled, PromiseStutters DEF callerVars, pumpVars

\* The debug pump is a monitor thread as ExitReport describes it, for any
\* number of callers and whatever the debuggees do: it uses the sender of a
\* child at most once and on a free channel, it loses one only by ending, and
\* wait_diagnosed() turns to the plain wait only then.
THEOREM Refinement == Spec => ImplementsExitReport
<1>1. TypeOK /\ HandOver /\ [Next]_vars => [Promise!Next]_Promise!vars
  BY PromiseCallerStep, PromisePumpStep, PromiseProcessStep DEF Next
<1>2. QED
  BY <1>1, PromiseInit, TypeCorrect, HandOverCorrect, PTL
  DEF Spec, ImplementsExitReport, Promise!Spec
=============================================================================
