----------------------- MODULE DebugPumpDiagnosisProofs -----------------------
(***************************************************************************)
(* What the pump knows of the debuggees, and when: no child runs its own   *)
(* code before its affinity mask is set, and what the waiter is told       *)
(* agrees with what the child has done, for any number of children,        *)
(* descendants and events in the queue.                                    *)
(***************************************************************************)
EXTENDS DebugPumpProofs

\* The processes the queue has events of do not go back, and what they have
\* raised stays raised.
QueuedKept ==
  \A i \in DOMAIN debugQueue :
    LET p == debugQueue[i].pid IN
      /\ proc'[p] # "none"
      /\ proc[p] \in {"zombie", "gone"} => proc'[p] \in {"zombie", "gone"}
      /\ proc'[p] \in {"created", "loading"} => proc'[p] = proc[p]
      /\ raised[p] \subseteq raised'[p]

\* The event e, posted behind what is queued, is true.
NewEventTrue(e) ==
  /\ proc'[e.pid] # "none"
  /\ e.kind = "EXIT_PROCESS" => proc'[e.pid] \in {"zombie", "gone"}
  /\ e.chance = "second" => e.code \in raised'[e.pid]
  /\ proc'[e.pid] = "created" => e.kind = "CREATE_PROCESS"
  /\ proc'[e.pid] = "loading" =>
       e.kind = "EXCEPTION" /\ e.code = BREAKPOINT /\ ~Queued(e.pid)

-----------------------------------------------------------------------------
(* The queue.                                                              *)

\* Taking the oldest event, or ending the pump, leaves no event untrue.
LEMMA EventsRead ==
  ASSUME TypeOK, EventsAreTrue, QueuedKept,
         \/ debugQueue' = debugQueue
         \/ debugQueue' = <<>>
         \/ debugQueue # <<>> /\ debugQueue' = Tail(debugQueue)
  PROVE  EventsAreTrue' /\ \A p : Queued(p)' => Queued(p)
<1>1. debugQueue \in Seq(DebugEvent)
  BY DEF TypeOK
<1>2. CASE debugQueue' = debugQueue
  BY <1>2 DEF EventsAreTrue, QueuedKept, Queued
<1>3. CASE debugQueue' = <<>>
  BY <1>3 DEF EventsAreTrue, Queued
<1>4. CASE debugQueue # <<>> /\ debugQueue' = Tail(debugQueue)
  <2>1. \A i \in DOMAIN debugQueue' :
          i \in Int /\ i + 1 \in DOMAIN debugQueue
            /\ debugQueue'[i] = debugQueue[i + 1]
    BY <1>1, <1>4
  <2>2. \A p : Queued(p)' => Queued(p)
    BY <2>1 DEF Queued
  <2>3. SUFFICES ASSUME NEW i \in DOMAIN debugQueue', NEW f,
                        f = debugQueue'[i]
                 PROVE  /\ proc'[f.pid] # "none"
                        /\ f.kind = "EXIT_PROCESS"
                             => proc'[f.pid] \in {"zombie", "gone"}
                        /\ f.chance = "second" => f.code \in raised'[f.pid]
                        /\ proc'[f.pid] = "created" => f.kind = "CREATE_PROCESS"
                        /\ proc'[f.pid] = "loading" =>
                             /\ f.kind = "EXCEPTION" /\ f.code = BREAKPOINT
                             /\ \A j \in DOMAIN debugQueue' :
                                  debugQueue'[j].pid = f.pid => j = i
    BY <2>2 DEF EventsAreTrue, BREAKPOINT
  <2>4. i + 1 \in DOMAIN debugQueue /\ f = debugQueue[i + 1]
    BY <2>1, <2>3
  <2>5. \A j \in DOMAIN debugQueue : j = i + 1 => j - 1 = i
    BY <2>1, <2>3
  <2>6. proc'[f.pid] = "loading" =>
          \A j \in DOMAIN debugQueue' : debugQueue'[j].pid = f.pid => j = i
    <3>1. SUFFICES ASSUME proc'[f.pid] = "loading",
                          NEW j \in DOMAIN debugQueue',
                          debugQueue'[j].pid = f.pid
                   PROVE  j = i
      OBVIOUS
    <3>2. j + 1 \in DOMAIN debugQueue /\ debugQueue[j + 1].pid = f.pid
      BY <2>1, <3>1
    <3>3. j + 1 = i + 1
      BY <2>4, <3>1, <3>2 DEF EventsAreTrue, QueuedKept
    <3>4. QED
      BY <2>1, <2>3, <3>1, <3>3
  <2>7. QED
    BY <2>4, <2>6 DEF EventsAreTrue, QueuedKept
<1>5. QED
  BY <1>2, <1>3, <1>4

\* A true event may be posted.
LEMMA EventsPosted ==
  ASSUME TypeOK, EventsAreTrue, QueuedKept, NEW e \in DebugEvent,
         debugQueue' = Append(debugQueue, e), NewEventTrue(e)
  PROVE  EventsAreTrue' /\ \A p : Queued(p)' => Queued(p) \/ p = e.pid
<1>1. debugQueue \in Seq(DebugEvent) /\ Len(debugQueue) \in Nat
  BY DEF TypeOK
<1>2. \A i \in DOMAIN debugQueue' :
        \/ i = Len(debugQueue) + 1 /\ debugQueue'[i] = e
        \/ i \in DOMAIN debugQueue /\ debugQueue'[i] = debugQueue[i]
  <2>1. SUFFICES ASSUME NEW i \in DOMAIN debugQueue'
                 PROVE  \/ i = Len(debugQueue) + 1 /\ debugQueue'[i] = e
                        \/ /\ i \in DOMAIN debugQueue
                           /\ debugQueue'[i] = debugQueue[i]
    OBVIOUS
  <2>2. i \in 1 .. Len(debugQueue) + 1
    BY <1>1, <2>1
  <2>3. CASE i = Len(debugQueue) + 1
    BY <1>1, <2>3
  <2>4. CASE i # Len(debugQueue) + 1
    BY <1>1, <2>2, <2>4
  <2>5. QED
    BY <2>3, <2>4
<1>3. \A p : Queued(p)' => Queued(p) \/ p = e.pid
  BY <1>2 DEF Queued
<1>4. EventsAreTrue'
  <2>1. SUFFICES ASSUME NEW i \in DOMAIN debugQueue', NEW f,
                        f = debugQueue'[i]
                 PROVE  /\ proc'[f.pid] # "none"
                        /\ f.kind = "EXIT_PROCESS"
                             => proc'[f.pid] \in {"zombie", "gone"}
                        /\ f.chance = "second" => f.code \in raised'[f.pid]
                        /\ proc'[f.pid] = "created" => f.kind = "CREATE_PROCESS"
                        /\ proc'[f.pid] = "loading" =>
                             /\ f.kind = "EXCEPTION" /\ f.code = BREAKPOINT
                             /\ \A j \in DOMAIN debugQueue' :
                                  debugQueue'[j].pid = f.pid => j = i
    BY DEF EventsAreTrue, BREAKPOINT
  <2>2. CASE i = Len(debugQueue) + 1 /\ f = e
    BY <1>2, <2>2 DEF NewEventTrue, Queued
  <2>3. CASE i \in DOMAIN debugQueue /\ f = debugQueue[i]
    BY <1>2, <2>3 DEF EventsAreTrue, QueuedKept, NewEventTrue, Queued
  <2>4. QED
    BY <1>2, <2>1, <2>2, <2>3
<1>5. QED
  BY <1>3, <1>4

-----------------------------------------------------------------------------
(* Steps that leave the debuggees alone.                                   *)

\* What the debuggees have done, and what the pump knows of it.
Story == <<proc, debugQueue, affinity, raised, cause, children, past_loader_bp,
           pending_exception, current, continue_status>>

\* Neither the debuggees nor the entries move, and no report is made.
LEMMA NewsUnmoved ==
  ASSUME TypeOK, NewsIsTrue, UNCHANGED Story,
         pump' = "continue" => pump = "continue",
         \A c \in Child : /\ reply[c] = "Ok" => reply'[c] = "Ok"
                          /\ caller[c] = "finished" => caller'[c] = "finished"
  PROVE  /\ ProcessHistory' /\ EventsAreTrue' /\ LoaderWindow'
         /\ FatalIsRecorded' /\ AffinityBeforeUserCode'
<1>1. UNCHANGED <<proc, debugQueue, affinity, raised, cause, children,
                  past_loader_bp, pending_exception, current, continue_status>>
  BY DEF Story
<1>2. ProcessHistory'
  BY <1>1 DEF NewsIsTrue, ProcessHistory
<1>3. EventsAreTrue'
  BY <1>1 DEF NewsIsTrue, EventsAreTrue
<1>4. LoaderWindow' /\ AffinityBeforeUserCode'
  BY <1>1, PumpAssumption
  DEF NewsIsTrue, LoaderWindow, AffinityBeforeUserCode, Queued
<1>5. FatalIsRecorded'
  BY <1>1 DEF NewsIsTrue, FatalIsRecorded
<1>6. QED
  BY <1>2, <1>3, <1>4, <1>5

\* Reports stay true while the children stay ended and raised stays raised.
LEMMA ReportsKept ==
  ASSUME TypeOK, ReportsAreTrue, pump = "done" => pump' = "done",
         \A c \in Child :
           /\ raised[c] \subseteq raised'[c]
           /\ proc[c] \in {"zombie", "gone"} =>
                proc'[c] \in {"zombie", "gone"} \/ pump' = "done"
           /\ proc[c] \in {"zombie", "gone"} /\ cause'[c] = "exception"
                => cause[c] = "exception"
           /\ exit_ch'[c] \in {exit_ch[c], Empty} /\ result'[c] = result[c]
  PROVE  ReportsAreTrue'
<1>1. SUFFICES ASSUME NEW c \in Child
               PROVE  (TrueOf(exit_ch[c], c) /\ TrueOf(result[c], c))'
  BY DEF ReportsAreTrue
<1>2. TrueOf(exit_ch[c], c) /\ TrueOf(result[c], c)
  BY DEF ReportsAreTrue
<1>3. TrueOf(result[c], c)'
  BY <1>2 DEF TrueOf, FastFailCodes
<1>4. TrueOf(exit_ch[c], c)'
  BY <1>2 DEF TrueOf, FastFailCodes, Empty
<1>5. QED
  BY <1>3, <1>4

\* A step of a caller keeps the news true.
LEMMA NewsCallerStep ==
  ASSUME TypeOK, HandOver, NewsIsTrue, CallerStep
  PROVE  NewsIsTrue'
<1> USE Disjoint DEF pumpVars, entryVars, eventVars, osVars
<1>1. /\ UNCHANGED Story
      /\ pump' = "continue" => pump = "continue"
      /\ pump = "done" => pump' = "done"
      /\ \A c \in Child : caller[c] = "finished" => caller'[c] = "finished"
  BY DEF CallerStep, DropOwner, ReleasePump, JoinPump, CreateCommand,
         SendSpawn, StartFails, ReceiveReply, CallWait, ReceiveResult,
         FallBackToPlain, WaitPlain, DropChild, Story, TypeOK
<1>2. \A c \in Child : reply[c] = "Ok" => reply'[c] = "Ok"
  BY DEF CallerStep, DropOwner, ReleasePump, JoinPump, CreateCommand,
         SendSpawn, StartFails, ReceiveReply, CallWait, ReceiveResult,
         FallBackToPlain, WaitPlain, DropChild, TypeOK, HandOver,
         ReplyBeforeChild
<1>3. UNCHANGED <<proc, raised, cause>>
  BY <1>1 DEF Story
<1>4. ReportsAreTrue'
  <2>1. CASE /\ result' = result
             /\ \A c \in Child : exit_ch'[c] \in {exit_ch[c], Empty}
    BY <1>1, <1>3, <2>1, ReportsKept DEF NewsIsTrue
  <2>2. ASSUME NEW c \in Child, ReceiveResult(c) \/ WaitPlain(c)
        PROVE  ReportsAreTrue'
    <3>1. SUFFICES ASSUME NEW d \in Child
                   PROVE  (TrueOf(exit_ch[d], d) /\ TrueOf(result[d], d))'
      BY DEF ReportsAreTrue
    <3>2. /\ TrueOf(exit_ch[d], d) /\ TrueOf(result[d], d)
      BY DEF NewsIsTrue, ReportsAreTrue
    <3>3. CASE ReceiveResult(c)
      <4>1. /\ result'[d] \in {result[d], exit_ch[d]}
            /\ exit_ch'[d] \in {exit_ch[d], Empty}
        BY <3>3 DEF ReceiveResult, TypeOK
      <4>2. TrueOf(exit_ch[d], d)' /\ TrueOf(result[d], d)'
        <5>1. \A r : TrueOf(r, d) => TrueOf(r, d)'
          BY <1>1, <1>3 DEF TrueOf
        <5>2. QED
          BY <3>2, <4>1, <5>1 DEF TrueOf, Empty
      <4>3. QED
        BY <4>2
    <3>4. CASE WaitPlain(c)
      <4>1. /\ result'[d] = result[d] \/ result'[d] = Unknown
            /\ exit_ch'[d] = exit_ch[d] /\ caller[c] = "plain"
        <5>1. result \in [Child -> TerminationReason \cup {Empty}]
          BY DEF TypeOK
        <5>2. result' = [result EXCEPT ![c] = Unknown]
          BY <3>4 DEF WaitPlain
        <5>3. exit_ch' = exit_ch /\ caller[c] = "plain"
          BY <3>4 DEF WaitPlain
        <5>4. QED
          BY <5>1, <5>2, <5>3
      <4>2. pump' = "done"
        BY <1>1, <4>1 DEF HandOver, FallBackOnlyWithoutPump
      <4>3. \A r : TrueOf(r, d) => TrueOf(r, d)'
        BY <1>1, <1>3 DEF TrueOf
      <4>4. TrueOf(Unknown, d)'
        BY <4>2 DEF TrueOf, Unknown
      <4>5. QED
        BY <3>2, <4>1, <4>3, <4>4
    <3>5. QED
      BY <2>2, <3>3, <3>4
  <2>3. QED
    BY <2>1, <2>2
    DEF CallerStep, DropOwner, ReleasePump, JoinPump, CreateCommand,
        SendSpawn, StartFails, ReceiveReply, CallWait, FallBackToPlain,
        DropChild, TypeOK
<1>5. QED
  BY <1>1, <1>2, <1>4, NewsUnmoved DEF NewsIsTrue

-----------------------------------------------------------------------------
(* The pump.                                                               *)

\* A new child is tracked, unmarked and has no events before its first.
LEMMA NewsPumpSpawn ==
  ASSUME TypeOK, HandOver, NewsIsTrue,
         NEW c \in Child, NEW h \in Handle, PumpSpawn(c, h)
  PROVE  NewsIsTrue'
<1> DEFINE e == Event(c, "CREATE_PROCESS", NoException, "first")
<1> USE Disjoint
<1>1. /\ proc[c] = "none" /\ cause[c] # "exception" /\ current.pid # c
      /\ \A i \in DOMAIN debugQueue : debugQueue[i].pid # c
  <2>1. reply[c] = "none"
    BY RequestRead DEF PumpSpawn
  <2>2. proc[c] = "none"
    BY <2>1 DEF NewsIsTrue, ProcessHistory
  <2>3. cause[c] # "exception" /\ current.pid # c
    BY <2>2 DEF NewsIsTrue, ProcessHistory
  <2>4. QED
    BY <2>2, <2>3 DEF NewsIsTrue, EventsAreTrue
<1>2. /\ pump = "top" /\ pump' \in {"top", "wait"}
      /\ children' = children \cup {c}
      /\ past_loader_bp' = [past_loader_bp EXCEPT ![c] = FALSE]
      /\ pending_exception' = [pending_exception EXCEPT ![c] = NoException]
      /\ reply' = [reply EXCEPT ![c] = "Ok"]
      /\ proc' = [proc EXCEPT ![c] = "created"]
      /\ debugQueue' = Append(debugQueue, e)
      /\ UNCHANGED <<caller, current, continue_status, exit_ch, result,
                     affinity, raised, cause>>
  BY DEF PumpSpawn, AfterMailbox, eventVars
<1>3. e \in DebugEvent /\ NewEventTrue(e) /\ e.pid = c
  BY <1>2, EventType DEF NewEventTrue, TypeOK, EventKind, Event
<1>4. QueuedKept
  <2>1. \A i \in DOMAIN debugQueue : debugQueue[i].pid \in Process
    BY DEF TypeOK, DebugEvent
  <2>2. \A q \in Process : q # c => proc'[q] = proc[q] /\ raised'[q] = raised[q]
    BY <1>2 DEF TypeOK
  <2>3. QED
    BY <1>1, <2>1, <2>2 DEF NewsIsTrue, EventsAreTrue, QueuedKept
<1>5. EventsAreTrue' /\ \A p : Queued(p)' => Queued(p) \/ p = c
  BY <1>2, <1>3, <1>4, EventsPosted DEF NewsIsTrue
<1>6. ProcessHistory'
  BY <1>1, <1>2 DEF NewsIsTrue, ProcessHistory, TypeOK
<1>7. LoaderWindow'
  BY <1>1, <1>2, <1>5 DEF NewsIsTrue, LoaderWindow, TypeOK
<1>8. FatalIsRecorded' /\ AffinityBeforeUserCode'
  BY <1>2, PumpAssumption
  DEF NewsIsTrue, FatalIsRecorded, AffinityBeforeUserCode, TypeOK
<1>9. ReportsAreTrue'
  <2>1. \A d \in Child :
          /\ raised[d] \subseteq raised'[d]
          /\ proc[d] \in {"zombie", "gone"} =>
               proc'[d] \in {"zombie", "gone"} \/ pump' = "done"
          /\ proc[d] \in {"zombie", "gone"} /\ cause'[d] = "exception"
               => cause[d] = "exception"
          /\ exit_ch'[d] \in {exit_ch[d], Empty} /\ result'[d] = result[d]
    BY <1>1, <1>2 DEF TypeOK
  <2>2. QED
    BY <1>2, <2>1, ReportsKept DEF NewsIsTrue
<1>10. QED
  BY <1>5, <1>6, <1>7, <1>8, <1>9 DEF NewsIsTrue

\* The end of the pump ends its debuggees, none by an exception.
LEMMA NewsPumpShutdown ==
  ASSUME TypeOK, HandOver, NewsIsTrue, PumpShutdown
  PROVE  NewsIsTrue'
<1> USE Disjoint
<1>1. /\ pump' = "done" /\ children' = {} /\ debugQueue' = <<>>
      /\ proc' = [p \in Process |-> IF proc[p] \in {"none", "gone"}
                                    THEN proc[p] ELSE "exiting"]
      /\ cause' = [p \in Process |-> IF Live(p) THEN "kill" ELSE cause[p]]
      /\ UNCHANGED <<caller, reply, pending_exception, current, exit_ch,
                     result, affinity, raised>>
  BY DEF PumpShutdown, callerVars, entryVars, eventVars
<1>2. EventsAreTrue' /\ FatalIsRecorded'
  BY <1>1 DEF EventsAreTrue, FatalIsRecorded
<1>3. \A c \in Child : /\ proc'[c] \in {proc[c], "exiting"}
                       /\ proc'[c] \notin {"created", "loading", "running"}
                       /\ proc'[c] = "none" <=> proc[c] = "none"
                       /\ cause'[c] = "exception" => cause[c] = "exception"
  BY <1>1 DEF TypeOK, ProcState
<1>4. LoaderWindow' /\ AffinityBeforeUserCode'
  BY <1>3, PumpAssumption DEF LoaderWindow, AffinityBeforeUserCode
<1>5. ProcessHistory'
  BY <1>1, <1>3 DEF NewsIsTrue, ProcessHistory
<1>6. ReportsAreTrue'
  BY <1>1, <1>3, ReportsKept DEF NewsIsTrue
<1>7. QED
  BY <1>2, <1>4, <1>5, <1>6 DEF NewsIsTrue

\* Going on from the loader breakpoint, an exit or an unhandled exception.
LEMMA NewsPumpContinue ==
  ASSUME TypeOK, HandOver, NewsIsTrue, PumpContinue
  PROVE  NewsIsTrue'
<1> USE Disjoint
<1> DEFINE p == current.pid
           fatal == /\ current.kind = "EXCEPTION" /\ current.chance = "second"
                    /\ continue_status = "DBG_EXCEPTION_NOT_HANDLED"
<1>1. /\ pump = "continue" /\ pump' = "top" /\ current' = NoEvent
      /\ UNCHANGED <<caller, reply, children, past_loader_bp,
                     pending_exception, exit_ch, result, debugQueue,
                     affinity, raised>>
  BY DEF PumpContinue, AfterEvent, callerVars, entryVars
<1>2. \A q : q # p => proc'[q] = proc[q] /\ cause'[q] = cause[q]
  BY DEF PumpContinue, TypeOK
<1>3. p \in Process =>
        /\ proc'[p] = CASE current.kind = "EXIT_PROCESS" -> "gone"
                        [] Live(p) /\ fatal -> "exiting"
                        [] ~fatal /\ current.kind = "EXCEPTION"
                             /\ proc[p] = "loading" -> "running"
                        [] OTHER -> proc[p]
        /\ cause'[p] = IF Live(p) /\ fatal THEN "exception" ELSE cause[p]
  BY DEF PumpContinue, TypeOK
<1>4. \A q \in Process :
        /\ proc[q] \in {"zombie", "gone"} =>
             proc'[q] \in {"zombie", "gone"} /\ cause'[q] = cause[q]
        /\ proc'[q] \in {"created", "loading"} => proc'[q] = proc[q]
        /\ proc'[q] = "running" =>
             proc[q] = "running" \/ (q = p /\ proc[q] = "loading")
        /\ proc[q] # "none" => proc'[q] # "none"
        /\ proc'[q] # "none" => proc[q] # "none" \/ q = p
        /\ cause'[q] = "exception" /\ cause[q] # "exception" =>
             q = p /\ fatal /\ proc[q] # "none" /\ proc'[q] = "exiting"
        /\ proc[q] \notin {"none", "created", "loading", "running"} =>
             proc'[q] \notin {"none", "created", "loading", "running"}
  BY <1>2, <1>3 DEF Live
<1>5. EventsAreTrue' /\ \A q : Queued(q)' => Queued(q)
  <2>1. QueuedKept
    <3>1. \A i \in DOMAIN debugQueue : debugQueue[i].pid \in Process
      BY DEF TypeOK, DebugEvent
    <3>2. QED
      BY <1>1, <1>4, <3>1 DEF NewsIsTrue, EventsAreTrue, QueuedKept
  <2>2. QED
    BY <1>1, <2>1, EventsRead DEF NewsIsTrue
<1>6. ProcessHistory'
  <2>1. SUFFICES ASSUME NEW c \in Child
                 PROVE
          /\ proc'[c] # "none" => reply'[c] = "Ok"
          /\ current'.pid = c => proc'[c] # "none"
          /\ cause'[c] = "exception" =>
               /\ proc'[c] \notin {"none", "created", "loading", "running"}
               /\ c \in children' => pending_exception'[c] \in Codes
          /\ pending_exception'[c] # NoException =>
               pending_exception'[c] \in raised'[c]
    BY DEF ProcessHistory
  <2>2. current'.pid # c
    BY <1>1 DEF NoEvent
  <2>3. proc'[c] # "none" => reply'[c] = "Ok"
    BY <1>1, <1>4 DEF NewsIsTrue, ProcessHistory
  <2>4. CASE cause[c] = "exception" \/ cause'[c] # "exception"
    BY <1>1, <1>4, <2>2, <2>3, <2>4 DEF NewsIsTrue, ProcessHistory
  <2>5. CASE cause[c] # "exception" /\ cause'[c] = "exception"
    BY <1>1, <1>4, <2>2, <2>3, <2>5
    DEF NewsIsTrue, ProcessHistory, FatalIsRecorded
  <2>6. QED
    BY <2>4, <2>5
<1>7. LoaderWindow' /\ FatalIsRecorded'
  BY <1>1, <1>4, <1>5
  DEF NewsIsTrue, LoaderWindow, FatalIsRecorded, NoEvent
<1>8. AffinityBeforeUserCode'
  BY <1>1, <1>4, PumpAssumption
  DEF NewsIsTrue, LoaderWindow, AffinityBeforeUserCode
<1>9. ReportsAreTrue'
  <2>1. \A c \in Child :
          /\ raised[c] \subseteq raised'[c]
          /\ proc[c] \in {"zombie", "gone"} =>
               proc'[c] \in {"zombie", "gone"} \/ pump' = "done"
          /\ proc[c] \in {"zombie", "gone"} /\ cause'[c] = "exception"
               => cause[c] = "exception"
          /\ exit_ch'[c] \in {exit_ch[c], Empty} /\ result'[c] = result[c]
    BY <1>1, <1>4
  <2>2. QED
    BY <1>1, <2>1, ReportsKept DEF NewsIsTrue
<1>10. QED
  BY <1>5, <1>6, <1>7, <1>8, <1>9 DEF NewsIsTrue

\* What taking an event leaves for an arm of dispatch_event() to change.
LEMMA NewsTaken ==
  ASSUME TypeOK, NewsIsTrue, NEW e, NEW status, TakeEvent(e, status)
  PROVE  /\ e \in DebugEvent /\ proc[e.pid] # "none" /\ Queued(e.pid)
         /\ e.kind = "EXIT_PROCESS" => proc[e.pid] \in {"zombie", "gone"}
         /\ e.chance = "second" => e.code \in raised[e.pid]
         /\ proc[e.pid] = "created" => e.kind = "CREATE_PROCESS"
         /\ proc[e.pid] = "loading" =>
              e.kind = "EXCEPTION" /\ e.code = BREAKPOINT /\ ~Queued(e.pid)'
         /\ EventsAreTrue' /\ \A p : Queued(p)' => Queued(p)
         /\ pump = "wait" /\ pump' = "continue"
         /\ current' = e /\ continue_status' = status
         /\ UNCHANGED <<caller, reply, result, proc, raised, cause>>
<1>1. /\ debugQueue # <<>> /\ e = Head(debugQueue)
      /\ debugQueue' = Tail(debugQueue) /\ debugQueue \in Seq(DebugEvent)
      /\ pump = "wait" /\ pump' = "continue"
      /\ current' = e /\ continue_status' = status
      /\ UNCHANGED <<caller, reply, result, proc, raised, cause>>
  BY DEF TakeEvent, callerVars, TypeOK
<1>2. 1 \in DOMAIN debugQueue /\ e = debugQueue[1] /\ e \in DebugEvent
  BY <1>1
<1>3. QueuedKept
  BY <1>1 DEF NewsIsTrue, EventsAreTrue, QueuedKept
<1>4. EventsAreTrue' /\ \A p : Queued(p)' => Queued(p)
  BY <1>1, <1>3, EventsRead DEF NewsIsTrue
<1>5. proc[e.pid] = "loading" => ~Queued(e.pid)'
  <2>1. SUFFICES ASSUME proc[e.pid] = "loading", NEW j \in DOMAIN debugQueue',
                        debugQueue'[j].pid = e.pid
                 PROVE  FALSE
    BY DEF Queued
  <2>2. /\ j + 1 \in DOMAIN debugQueue /\ j + 1 # 1
        /\ debugQueue'[j] = debugQueue[j + 1]
    BY <1>1, <2>1
  <2>3. QED
    BY <1>2, <2>1, <2>2 DEF NewsIsTrue, EventsAreTrue
<1>6. QED
  BY <1>1, <1>2, <1>4, <1>5 DEF NewsIsTrue, EventsAreTrue, Queued

\* The arms that mark, record or do nothing make no report.
LEMMA NewsUnreported ==
  ASSUME TypeOK, HandOver, NewsIsTrue, NEW e,
         \/ DispatchLoaderBreakpoint(e) \/ DispatchSecondChance(e)
         \/ DispatchException(e) \/ DispatchOther(e)
  PROVE  NewsIsTrue'
<1> USE Disjoint
<1>1. PICK status : TakeEvent(e, status)
  BY DEF DispatchLoaderBreakpoint, DispatchSecondChance, DispatchException,
         DispatchOther
<1>2. /\ e \in DebugEvent /\ proc[e.pid] # "none" /\ Queued(e.pid)
      /\ e.chance = "second" => e.code \in raised[e.pid]
      /\ proc[e.pid] = "created" => e.kind = "CREATE_PROCESS"
      /\ proc[e.pid] = "loading" =>
           e.kind = "EXCEPTION" /\ e.code = BREAKPOINT /\ ~Queued(e.pid)'
      /\ EventsAreTrue' /\ \A p : Queued(p)' => Queued(p)
      /\ pump = "wait" /\ pump' = "continue" /\ current' = e
      /\ UNCHANGED <<caller, reply, result, proc, raised, cause>>
  BY <1>1, NewsTaken
<1>3. UNCHANGED <<children, exit_ch, process_handle>>
  BY DEF DispatchLoaderBreakpoint, DispatchSecondChance, DispatchException,
         DispatchOther, entryVars
<1>4. /\ affinity \subseteq affinity'
      /\ \A c \in Child : past_loader_bp'[c] # past_loader_bp[c] =>
           c = e.pid /\ e.kind = "EXCEPTION"
      /\ \A c \in Child : pending_exception'[c] # pending_exception[c] =>
           /\ c = e.pid /\ DispatchSecondChance(e)
           /\ pending_exception'[c] = e.code
  BY DEF DispatchLoaderBreakpoint, DispatchSecondChance, DispatchException,
         DispatchOther, IsLoaderBreakpoint, entryVars, TypeOK
<1>5. DispatchSecondChance(e) =>
        /\ e.chance = "second" /\ e.code \in Codes /\ e.pid \in Child
        /\ pending_exception'[e.pid] = e.code
  BY <1>2 DEF DispatchSecondChance, IsSecondChance, DebugEvent, TypeOK
<1>6. ProcessHistory'
  BY <1>2, <1>3, <1>4, <1>5 DEF NewsIsTrue, ProcessHistory
<1>7. LoaderWindow'
  <2>1. SUFFICES ASSUME NEW c \in Child
                 PROVE
          /\ proc'[c] \in {"created", "loading"} => c \in children'
          /\ proc'[c] = "created" => ~past_loader_bp'[c]
          /\ proc'[c] = "loading" /\ Queued(c)' => ~past_loader_bp'[c]
          /\ proc'[c] = "loading" /\ current'.pid = c /\ c \in Affine
               => c \in affinity' \/ caller'[c] = "finished"
    BY DEF LoaderWindow
  <2>2. /\ proc'[c] \in {"created", "loading"} => c \in children'
        /\ proc'[c] = "created" => ~past_loader_bp'[c]
        /\ proc'[c] = "loading" /\ Queued(c)' => ~past_loader_bp'[c]
    BY <1>2, <1>3, <1>4 DEF NewsIsTrue, LoaderWindow
  <2>3. ASSUME proc'[c] = "loading", current'.pid = c, c \in Affine,
               caller'[c] # "finished"
        PROVE  c \in affinity'
    <3>1. /\ e.pid = c /\ e.kind = "EXCEPTION" /\ e.code = BREAKPOINT
          /\ c \in children /\ ~past_loader_bp[c] /\ caller[c] # "finished"
      BY <1>2, <2>3 DEF NewsIsTrue, LoaderWindow
    <3>2. DispatchLoaderBreakpoint(e)
      BY <3>1 DEF DispatchSecondChance, IsSecondChance, DispatchException,
                  IsLoaderBreakpoint, DispatchOther
    <3>3. c \in HandleTarget(process_handle[c])
      BY <3>1 DEF HandleTarget
    <3>4. QED
      BY <2>3, <3>1, <3>2, <3>3 DEF DispatchLoaderBreakpoint
  <2>4. QED
    BY <2>2, <2>3
<1>8. FatalIsRecorded'
  <2>1. SUFFICES ASSUME e.chance = "second", e.pid \in children,
                        continue_status' = "DBG_EXCEPTION_NOT_HANDLED"
                 PROVE  pending_exception'[e.pid] \in Codes
    BY <1>2, <1>3 DEF FatalIsRecorded
  <2>2. e.kind = "EXCEPTION"
    BY <1>2, <2>1 DEF DebugEvent
  <2>3. DispatchSecondChance(e)
    BY <2>1, <2>2 DEF DispatchLoaderBreakpoint, DispatchException,
                      IsSecondChance, DispatchOther, TakeEvent
  <2>4. QED
    BY <1>5, <2>3
<1>9. AffinityBeforeUserCode'
  BY <1>2, <1>4 DEF NewsIsTrue, AffinityBeforeUserCode
<1>10. ReportsAreTrue'
  BY <1>2, <1>3, ReportsKept DEF NewsIsTrue
<1>11. QED
  BY <1>2, <1>6, <1>7, <1>8, <1>9, <1>10 DEF NewsIsTrue

\* The report of an exit is true, and only an ended or running child goes.
LEMMA NewsReported ==
  ASSUME TypeOK, HandOver, NewsIsTrue, NEW e,
         DispatchExitProcess(e) \/ DispatchRip(e)
  PROVE  NewsIsTrue'
<1> USE Disjoint
<1> DEFINE r == IF e.kind = "RIP" THEN ExternalKill ELSE ClassifyEvent(e)
<1>1. /\ TakeEvent(e, "DBG_CONTINUE") /\ ReportAndForget(e, r)
      /\ e.kind \in {"EXIT_PROCESS", "RIP"}
      /\ UNCHANGED <<past_loader_bp, pending_exception, affinity>>
  BY DEF DispatchExitProcess, DispatchRip, entryVars
<1>2. /\ e \in DebugEvent
      /\ e.kind = "EXIT_PROCESS" => proc[e.pid] \in {"zombie", "gone"}
      /\ proc[e.pid] \notin {"none", "created", "loading"}
      /\ EventsAreTrue' /\ \A p : Queued(p)' => Queued(p)
      /\ pump = "wait" /\ pump' = "continue" /\ current' = e
      /\ continue_status' = "DBG_CONTINUE"
      /\ UNCHANGED <<caller, reply, result, proc, raised, cause>>
  BY <1>1, NewsTaken
<1>3. /\ children' \subseteq children
      /\ \A c \in Child : c \in children => c \in children' \/ c = e.pid
  BY <1>1 DEF ReportAndForget
<1>4. ProcessHistory' /\ FatalIsRecorded' /\ AffinityBeforeUserCode'
  BY <1>1, <1>2, <1>3
  DEF NewsIsTrue, ProcessHistory, FatalIsRecorded, AffinityBeforeUserCode
<1>5. LoaderWindow'
  BY <1>1, <1>2, <1>3 DEF NewsIsTrue, LoaderWindow
<1>6. ReportsAreTrue'
  <2>1. SUFFICES ASSUME NEW c \in Child
                 PROVE  TrueOf(exit_ch[c], c)' /\ TrueOf(result[c], c)'
    BY DEF ReportsAreTrue
  <2>2. \A x : TrueOf(x, c) => TrueOf(x, c)'
    BY <1>2 DEF TrueOf
  <2>3. TrueOf(exit_ch[c], c) /\ TrueOf(result[c], c)
    BY DEF NewsIsTrue, ReportsAreTrue
  <2>4. CASE exit_ch'[c] = exit_ch[c]
    BY <1>2, <2>2, <2>3, <2>4
  <2>5. CASE exit_ch'[c] # exit_ch[c]
    <3>1. c = e.pid /\ c \in children /\ exit_ch'[c] = r
      BY <1>1, <2>5 DEF ReportAndForget, SendExit, TypeOK
    <3>2. TrueOf(r, c)
      <4>1. CASE e.kind = "RIP"
        BY <4>1 DEF TrueOf, ExternalKill
      <4>2. CASE e.kind # "RIP" /\ pending_exception[c] = NoException
        <5>1. r = Unknown /\ proc[c] \in {"zombie", "gone"}
          <6>1. r = ClassifyExit(NoException)
            BY <3>1, <4>2 DEF ClassifyEvent
          <6>2. QED
            BY <1>1, <1>2, <3>1, <4>2, <6>1
            DEF ClassifyExit, NoException, FastFailCodes
        <5>2. cause[c] # "exception"
          BY <3>1, <4>2, PumpAssumption DEF NewsIsTrue, ProcessHistory
        <5>3. QED
          BY <5>1, <5>2 DEF TrueOf, Unknown
      <4>3. CASE e.kind # "RIP" /\ pending_exception[c] # NoException
        <5>1. pending_exception[c] \in raised[c]
          BY <4>3 DEF NewsIsTrue, ProcessHistory
        <5>2. r = ClassifyExit(pending_exception[c])
          BY <3>1, <4>3 DEF ClassifyEvent
        <5>3. \/ /\ pending_exception[c] \in FastFailCodes
                 /\ r = [reason |-> "FastFail", code |-> pending_exception[c]]
              \/ /\ pending_exception[c] \notin FastFailCodes
                 /\ r = [reason |-> "Crash", code |-> pending_exception[c]]
          BY <4>3, <5>2 DEF ClassifyExit
        <5>4. QED
          BY <5>1, <5>3 DEF TrueOf
      <4>4. QED
        BY <4>1, <4>2, <4>3
    <3>3. QED
      BY <1>2, <2>2, <2>3, <3>1, <3>2
  <2>6. QED
    BY <2>4, <2>5
<1>7. QED
  BY <1>2, <1>4, <1>5, <1>6 DEF NewsIsTrue

\* A step of the pump thread keeps the news true.
LEMMA NewsPumpStep ==
  ASSUME TypeOK, HandOver, NewsIsTrue, PumpStep
  PROVE  NewsIsTrue'
<1>1. ASSUME NEW c \in Child, PumpSpawnFails(c)
      PROVE  NewsIsTrue'
  <2>1. /\ UNCHANGED Story /\ pump' \in {"top", "wait"} /\ pump = "top"
        /\ UNCHANGED <<caller, exit_ch, result>>
    BY <1>1 DEF PumpSpawnFails, AfterMailbox, Story, entryVars, eventVars,
                osVars
  <2>2. reply[c] = "none" /\ reply' = [reply EXCEPT ![c] = "Err"]
    BY <1>1, RequestRead DEF PumpSpawnFails
  <2>3. \A d \in Child : reply[d] = "Ok" => reply'[d] = "Ok"
    BY <2>2, Disjoint DEF TypeOK
  <2>4. ReportsAreTrue'
    BY <2>1, ReportsKept DEF NewsIsTrue, Story
  <2>5. QED
    BY <2>1, <2>3, <2>4, NewsUnmoved DEF NewsIsTrue
<1>2. CASE PumpNoMessage \/ PumpTimeout
  <2>1. /\ UNCHANGED Story /\ pump' \in {"top", "wait"} /\ pump # "done"
        /\ UNCHANGED <<caller, reply, exit_ch, result>>
    BY <1>2 DEF PumpNoMessage, PumpTimeout, AfterEvent, Story, callerVars,
                entryVars, eventVars, osVars
  <2>2. ReportsAreTrue'
    BY <2>1, ReportsKept DEF NewsIsTrue, Story
  <2>3. QED
    BY <2>1, <2>2, NewsUnmoved DEF NewsIsTrue
<1>3. QED
  BY <1>1, <1>2, NewsPumpSpawn, NewsPumpShutdown, NewsPumpContinue,
     NewsUnreported, NewsReported
  DEF PumpStep, DispatchEvent

-----------------------------------------------------------------------------
(* The debuggees.                                                          *)

\* What an event posted by a process leaves alone.
LEMMA NewsPosted ==
  ASSUME TypeOK, NewsIsTrue, NEW e \in DebugEvent, PostEvent(e),
         e.chance = "second" => proc[e.pid] = "running"
  PROVE  /\ debugQueue' = Append(debugQueue, e)
         /\ \A p \in Process : raised[p] \subseteq raised'[p]
         /\ e.chance = "second" => e.code \in raised'[e.pid]
         /\ UNCHANGED <<caller, reply, pump, children, past_loader_bp,
                        pending_exception, current, continue_status, exit_ch,
                        result, affinity>>
<1>1. e.pid \in Process
  BY DEF DebugEvent
<1>2. QED
  BY <1>1 DEF PostEvent, TypeOK, callerVars, pumpVars, entryVars, eventVars

\* The news after a step of a process: what is queued stays true, and only the
\* process that steps has moved on.
LEMMA NewsMovedOn ==
  ASSUME TypeOK, HandOver, NewsIsTrue, NEW p \in Process,
         \A q \in Process : q # p => proc'[q] = proc[q] /\ cause'[q] = cause[q],
         \A q \in Process : raised[q] \subseteq raised'[q],
         UNCHANGED <<caller, reply, pump, children, past_loader_bp,
                     pending_exception, current, continue_status, exit_ch,
                     result, affinity>>,
         proc[p] = "none" => p \notin Child,
         proc'[p] # "none",
         proc'[p] \in {"created", "loading", "running"} /\ p \in Child =>
           \/ proc[p] = "running" /\ proc'[p] = "running"
           \/ /\ proc[p] = "created" /\ proc'[p] = "loading"
              /\ current.pid # p,
         proc[p] \in {"zombie", "gone"} => proc'[p] \in {"zombie", "gone"},
         cause'[p] = "exception" /\ p \in Child =>
           /\ cause[p] = "exception"
           /\ proc'[p] \notin {"created", "loading", "running"},
         EventsAreTrue', \A q : Queued(q)' => Queued(q) \/ q = p
  PROVE  NewsIsTrue'
<1> USE Disjoint
<1>1. ProcessHistory'
  BY DEF NewsIsTrue, ProcessHistory
<1>2. LoaderWindow'
  BY DEF NewsIsTrue, LoaderWindow
<1>3. FatalIsRecorded' /\ AffinityBeforeUserCode'
  BY PumpAssumption DEF NewsIsTrue, FatalIsRecorded, AffinityBeforeUserCode
<1>4. ReportsAreTrue'
  <2>1. \A c \in Child :
          /\ raised[c] \subseteq raised'[c]
          /\ proc[c] \in {"zombie", "gone"} =>
               proc'[c] \in {"zombie", "gone"} \/ pump' = "done"
          /\ proc[c] \in {"zombie", "gone"} /\ cause'[c] = "exception"
               => cause[c] = "exception"
          /\ exit_ch'[c] \in {exit_ch[c], Empty} /\ result'[c] = result[c]
    OBVIOUS
  <2>2. QED
    BY <2>1, ReportsKept DEF NewsIsTrue
<1>5. QED
  BY <1>1, <1>2, <1>3, <1>4 DEF NewsIsTrue

\* A stopped process has an event outstanding.
LEMMA NothingOutstanding ==
  ASSUME TypeOK, NEW p \in Process, Outstanding(p) = {}
  PROVE  ~Queued(p) /\ current.pid # p
  BY DEF Outstanding, Queued

\* A step that posts an event of the stepping process.
LEMMA NewsPost ==
  ASSUME TypeOK, HandOver, NewsIsTrue, NEW p \in Process,
         NEW e \in DebugEvent, e.pid = p, PostEvent(e),
         e.chance = "second" => proc[p] = "running",
         \/ proc' = proc /\ proc[p] = "running" /\ cause' = cause
         \/ /\ proc' = [proc EXCEPT ![p] = "loading"] /\ cause' = cause
            /\ proc[p] = "created" /\ Outstanding(p) = {}
            /\ e.kind = "EXCEPTION" /\ e.code = BREAKPOINT
         \/ /\ proc' = [proc EXCEPT ![p] = "zombie"] /\ cause' = cause
            /\ proc[p] = "exiting" /\ Outstanding(p) = {}
         \/ /\ proc' = [proc EXCEPT ![p] = "created"] /\ cause' = cause
            /\ proc[p] = "none" /\ p \notin Child
            /\ e.kind = "CREATE_PROCESS",
         e.kind = "EXIT_PROCESS" => proc'[p] = "zombie"
  PROVE  NewsIsTrue'
<1> USE Disjoint
<1>1. /\ debugQueue' = Append(debugQueue, e)
      /\ \A q \in Process : raised[q] \subseteq raised'[q]
      /\ e.chance = "second" => e.code \in raised'[p]
      /\ UNCHANGED <<caller, reply, pump, children, past_loader_bp,
                     pending_exception, current, continue_status, exit_ch,
                     result, affinity>>
  BY NewsPosted
<1>2. \A q \in Process : q # p => proc'[q] = proc[q] /\ cause'[q] = cause[q]
  BY DEF TypeOK
<1>3. \/ proc'[p] = "running" /\ proc[p] = "running"
      \/ /\ proc'[p] = "loading" /\ proc[p] = "created" /\ Outstanding(p) = {}
         /\ e.kind = "EXCEPTION" /\ e.code = BREAKPOINT
      \/ proc'[p] = "zombie" /\ proc[p] = "exiting" /\ Outstanding(p) = {}
      \/ /\ proc'[p] = "created" /\ proc[p] = "none" /\ p \notin Child
         /\ e.kind = "CREATE_PROCESS"
  BY DEF TypeOK
<1>4. Outstanding(p) = {} => ~Queued(p) /\ current.pid # p
  BY NothingOutstanding
<1>5. proc[p] = "none" => ~Queued(p)
  BY DEF NewsIsTrue, EventsAreTrue, Queued
<1>6. QueuedKept
  <2>1. \A i \in DOMAIN debugQueue : debugQueue[i].pid \in Process
    BY DEF TypeOK, DebugEvent
  <2>2. \A q \in Process : Queued(q) =>
          /\ proc[q] # "none" => proc'[q] # "none"
          /\ proc[q] \in {"zombie", "gone"} => proc'[q] \in {"zombie", "gone"}
          /\ proc'[q] \in {"created", "loading"} => proc'[q] = proc[q]
    BY <1>2, <1>3, <1>4, <1>5
  <2>3. QED
    BY <1>1, <2>1, <2>2 DEF NewsIsTrue, EventsAreTrue, QueuedKept, Queued
<1>7. NewEventTrue(e)
  BY <1>1, <1>3, <1>4 DEF NewEventTrue
<1>8. EventsAreTrue' /\ \A q : Queued(q)' => Queued(q) \/ q = p
  BY <1>1, <1>6, <1>7, EventsPosted DEF NewsIsTrue
<1>9. cause[p] = "exception" /\ p \in Child =>
        proc[p] \notin {"created", "running"}
  BY DEF NewsIsTrue, ProcessHistory
<1>10. cause'[p] = cause[p] /\ proc'[p] # "none"
  BY <1>3
<1>11. QED
  BY <1>1, <1>2, <1>3, <1>4, <1>8, <1>9, <1>10, NewsMovedOn

\* A process ends, or goes away, without an event.
LEMMA NewsEnds ==
  ASSUME TypeOK, HandOver, NewsIsTrue, NEW p \in Process,
         Vanish(p) \/ \E why \in {"exit", "kill"} : Die(p, why)
  PROVE  NewsIsTrue'
<1> USE Disjoint
<1>1. /\ \/ /\ proc[p] \in {"created", "loading", "running"}
            /\ proc' = [proc EXCEPT ![p] = "exiting"]
            /\ \E why \in {"exit", "kill"} : cause' = [cause EXCEPT ![p] = why]
         \/ /\ proc[p] = "exiting" /\ proc' = [proc EXCEPT ![p] = "gone"]
            /\ cause' = cause
      /\ UNCHANGED <<caller, reply, pump, children, past_loader_bp,
                     pending_exception, current, continue_status, exit_ch,
                     result, affinity, raised, debugQueue>>
  BY DEF Vanish, Die, Live, callerVars, pumpVars, entryVars, eventVars
<1>2. /\ \A q \in Process : q # p => proc'[q] = proc[q] /\ cause'[q] = cause[q]
      /\ \/ /\ proc[p] \in {"created", "loading", "running"}
            /\ proc'[p] = "exiting" /\ cause'[p] # "exception"
         \/ /\ proc[p] = "exiting" /\ proc'[p] = "gone"
            /\ cause'[p] = cause[p]
  BY <1>1 DEF TypeOK
<1>3. QueuedKept
  <2>1. \A i \in DOMAIN debugQueue : debugQueue[i].pid \in Process
    BY DEF TypeOK, DebugEvent
  <2>2. QED
    BY <1>1, <1>2, <2>1 DEF NewsIsTrue, EventsAreTrue, QueuedKept
<1>4. EventsAreTrue' /\ \A q : Queued(q)' => Queued(q) \/ q = p
  BY <1>1, <1>3, EventsRead DEF NewsIsTrue
<1>5. QED
  BY <1>1, <1>2, <1>4, NewsMovedOn

\* A step of a process keeps the news true.
LEMMA NewsProcessStep ==
  ASSUME TypeOK, HandOver, NewsIsTrue, ProcessStep
  PROVE  NewsIsTrue'
<1>1. ASSUME NEW p \in Process, LoaderBreak(p)
      PROVE  NewsIsTrue'
  <2>1. Event(p, "EXCEPTION", BREAKPOINT, "first") \in DebugEvent
    BY EventType DEF EventKind
  <2>2. QED
    BY <1>1, <2>1, NewsPost DEF LoaderBreak, Event
<1>2. ASSUME NEW p \in Process, ReportExit(p)
      PROVE  NewsIsTrue'
  <2>1. Event(p, "EXIT_PROCESS", NoException, "first") \in DebugEvent
    BY EventType DEF EventKind
  <2>2. proc'[p] = "zombie"
    BY <1>2 DEF ReportExit, TypeOK
  <2>3. QED
    BY <1>2, <2>1, <2>2, NewsPost DEF ReportExit, Event
<1>3. ASSUME NEW p \in Process, NEW code \in Codes,
             NEW chance \in {"first", "second"}, RaiseException(p, code, chance)
      PROVE  NewsIsTrue'
  <2>1. Event(p, "EXCEPTION", code, chance) \in DebugEvent
    BY EventType DEF EventKind
  <2>2. QED
    BY <1>3, <2>1, NewsPost DEF RaiseException, Event
<1>4. ASSUME NEW p \in Process, NEW kind \in OtherKinds, RaiseOther(p, kind)
      PROVE  NewsIsTrue'
  <2>1. /\ Event(p, kind, NoException, "first") \in DebugEvent
        /\ kind # "EXIT_PROCESS"
    BY EventType, PumpAssumption DEF EventKind
  <2>2. QED
    BY <1>4, <2>1, NewsPost DEF RaiseOther, Event
<1>5. ASSUME NEW p \in Process, NEW d \in Descendant, StartDescendant(p, d)
      PROVE  NewsIsTrue'
  <2>1. d \in Process /\ d \notin Child
    BY PumpAssumption DEF Process
  <2>2. Event(d, "CREATE_PROCESS", NoException, "first") \in DebugEvent
    BY <2>1, EventType DEF EventKind
  <2>3. QED
    BY <1>5, <2>1, <2>2, NewsPost DEF StartDescendant, Event
<1>6. QED
  BY <1>1, <1>2, <1>3, <1>4, <1>5, NewsEnds DEF ProcessStep

-----------------------------------------------------------------------------
(* The theorems.                                                           *)

\* No news in the initial state.
LEMMA NewsInit == Init => NewsIsTrue
  BY Disjoint, PumpAssumption
  DEF Init, NewsIsTrue, ProcessHistory, EventsAreTrue, LoaderWindow,
      FatalIsRecorded, ReportsAreTrue, TrueOf, AffinityBeforeUserCode, Empty,
      NoEvent, Process

\* Without a step there is no news.
LEMMA NewsStutter ==
  ASSUME TypeOK, NewsIsTrue, UNCHANGED vars
  PROVE  NewsIsTrue'
<1>1. /\ UNCHANGED Story
      /\ UNCHANGED <<pump, caller, reply, exit_ch, result>>
  BY DEF vars, Story, callerVars, pumpVars, entryVars, eventVars, osVars
<1>2. ReportsAreTrue'
  BY <1>1, ReportsKept DEF NewsIsTrue, Story
<1>3. QED
  BY <1>1, <1>2, NewsUnmoved DEF NewsIsTrue

\* From the process over its debug events to the report, what the pump knows
\* is what has happened, in every reachable state.
THEOREM NewsIsTrueEver == Spec => []NewsIsTrue
<1>1. TypeOK /\ HandOver /\ NewsIsTrue /\ [Next]_vars => NewsIsTrue'
  BY NewsCallerStep, NewsPumpStep, NewsProcessStep, NewsStutter DEF Next
<1>2. QED
  BY <1>1, NewsInit, TypeCorrect, HandOverCorrect, PTL DEF Spec

\* No child spawned with an affinity mask runs code of its own before the mask
\* is set, whatever the other children and their descendants do meanwhile.
THEOREM AffinityIsSetInTime == Spec => []AffinityBeforeUserCode
<1>1. NewsIsTrue => AffinityBeforeUserCode
  BY DEF NewsIsTrue
<1>2. QED
  BY <1>1, NewsIsTrueEver, PTL

\* A waiter is told of a crash or a fast fail only with a code its own child
\* really raised and did not handle, and is never told Unknown of a child that
\* an exception ended while the pump is there.
THEOREM DiagnosisIsOfThisChild == Spec => []DiagnosisMatchesHistory
<1>1. NewsIsTrue => DiagnosisMatchesHistory
  BY DEF NewsIsTrue, ReportsAreTrue, TrueOf, DiagnosisMatchesHistory,
         Delivered, Empty
<1>2. QED
  BY <1>1, NewsIsTrueEver, PTL
=============================================================================
