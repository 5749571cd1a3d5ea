------------------------------ MODULE DebugPump ------------------------------
(***************************************************************************)
(* The debug pump of pump.rs and the caller side of it in core.rs: the     *)
(* spawn hand-off through the pump's mailbox, the WaitForDebugEvent loop,  *)
(* the classification of exits, the delivery of the result to              *)
(* wait_diagnosed(), and the shutdown when the last owner goes away.       *)
(*                                                                         *)
(* A process is identified with its pid: the debug port keeps the process  *)
(* object, hence the pid, until its exit event is continued, and the pump  *)
(* forgets the pid before that.  Besides the children the pump created     *)
(* there are their descendants: DEBUG_PROCESS makes every process started  *)
(* by a debuggee a debuggee of the same thread.                            *)
(***************************************************************************)
EXTENDS Naturals, Sequences, FiniteSets

CONSTANTS
  Child,        \* the spawn_debug() calls, and the child each one creates
  Descendant,   \* processes the debuggees may start themselves
  Root,         \* the Worrywart value, an owner of the pump as commands are
  Nobody,       \* "no owner": the pump mutex is free
  Affine,       \* the children spawned with a non-zero affinity_mask
  Handle,       \* bound: process handle values, reused once closed
  Codes,        \* exception codes the debuggees may raise
  OtherKinds,   \* other events they may stop at: "RIP" and "OTHER"
  MaxBlocked    \* bound: threads of one process stopped at a debug event

Owner   == Child \cup {Root}
Process == Child \cup Descendant

\* exception_code of pump.rs; a code is only ever compared with these.
BREAKPOINT     == "BREAKPOINT"
FastFailCodes  == {"STACK_BUFFER_OVERRUN", "FATAL_APP_EXIT"}
NoException    == "no exception"

ASSUME PumpAssumption ==
  /\ Root \notin Process /\ Nobody \notin Owner \cup Process \cup Handle
  /\ Child \cap Descendant = {}
  /\ Affine \subseteq Child
  /\ NoException \notin Codes
  /\ OtherKinds \subseteq {"RIP", "OTHER"}
  /\ MaxBlocked \in Nat \ {0}

VARIABLES
  caller,             \* where each owner's thread is
  refs,               \* owners whose Arc of the pump is alive
  lock,               \* holder of the Mutex<Option<Pump>>
  reply,              \* content of each request's resp channel
  pump,               \* where the pump thread is
  mailbox,            \* the mpsc channel into the pump
  children,           \* pids in the pump's HashMap
  past_loader_bp,     \* ChildEntry::past_loader_bp
  pending_exception,  \* ChildEntry::pending_exception
  process_handle,     \* ChildEntry::process_handle, WorrywartChild's own
  current,            \* the DEBUG_EVENT being handled
  continue_status,    \* what dispatch_event returned for it
  exit_ch,            \* content of each child's exit channel (capacity 1)
  result,             \* what wait_diagnosed() returned
  proc,               \* life of each process
  debugQueue,         \* debug events not yet reported, oldest first
  affinity,           \* children whose affinity was set
  raised,             \* history: second-chance codes each process raised
  cause               \* history: why each process died

callerVars == <<caller, refs, lock, reply>>
entryVars  == <<past_loader_bp, pending_exception, process_handle>>
eventVars  == <<current, continue_status>>
pumpVars   == <<pump, mailbox, children, entryVars, eventVars>>
osVars     == <<proc, debugQueue, affinity, raised, cause>>
vars       == <<callerVars, pumpVars, exit_ch, result, osVars>>

-----------------------------------------------------------------------------
(* Values.                                                                 *)

SpawnMessage(c) == [type |-> "Spawn", child |-> c]
Shutdown        == [type |-> "Shutdown", child |-> Nobody]
PumpMessage     == {SpawnMessage(c) : c \in Child} \cup {Shutdown}

Empty == [reason |-> "none", code |-> NoException]
Unknown == [reason |-> "Unknown", code |-> NoException]
ExternalKill == [reason |-> "ExternalKill", code |-> NoException]
TerminationReason ==
  {Unknown, ExternalKill} \cup
  [reason : {"Crash", "FastFail"}, code : Codes]

Event(p, kind, code, chance) ==
  [pid |-> p, kind |-> kind, code |-> code, chance |-> chance]
EventKind == {"CREATE_PROCESS", "EXCEPTION", "EXIT_PROCESS", "RIP", "OTHER"}
DebugEvent ==
  [pid : Process, kind : EventKind,
   code : Codes \cup {BREAKPOINT, NoException}, chance : {"first"}]
  \cup [pid : Process, kind : {"EXCEPTION"}, code : Codes, chance : {"second"}]
NoEvent == [pid |-> Nobody, kind |-> "none", code |-> NoException,
            chance |-> "first"]

CallerState == {"idle", "ready", "sent", "releasing", "joining", "spawned",
                "waiting", "plain", "diagnosed", "finished"}
ProcState == {"none", "created", "loading", "running", "exiting", "zombie",
              "gone"}

Live(p) == proc[p] \in {"created", "loading", "running"}

\* Threads of p stopped at a debug event that has not been continued.
Outstanding(p) ==
  {i \in DOMAIN debugQueue : debugQueue[i].pid = p}
    \cup (IF current.pid = p THEN {0} ELSE {})

\* The process handle returned to the owner is open until Drop closes it; h
\* then stands for no process, until CreateProcess returns h again.
HandleTarget(h) ==
  {c \in Child : process_handle[c] = h /\ caller[c] # "finished"}

\* The exit_tx of c is owned by its ChildEntry or by a request in flight.
SenderAlive(c) ==
  c \in children \/ \E i \in DOMAIN mailbox : mailbox[i] = SpawnMessage(c)

Init ==
  /\ caller = [o \in Owner |-> IF o = Root THEN "ready" ELSE "idle"]
  /\ refs = {Root}
  /\ lock = Nobody
  /\ reply = [o \in Owner |-> "none"]
  /\ pump = "none"
  /\ mailbox = <<>>
  /\ children = {}
  /\ past_loader_bp = [c \in Child |-> FALSE]
  /\ pending_exception = [c \in Child |-> NoException]
  /\ process_handle = [c \in Child |-> Nobody]
  /\ current = NoEvent
  /\ continue_status = "DBG_CONTINUE"
  /\ exit_ch = [c \in Child |-> Empty]
  /\ result = [c \in Child |-> Empty]
  /\ proc = [p \in Process |-> "none"]
  /\ debugQueue = <<>>
  /\ affinity = {}
  /\ raised = [p \in Process |-> {}]
  /\ cause = [p \in Process |-> "none"]

-----------------------------------------------------------------------------
(* The callers: Worrywart, WorrywartCommand and WorrywartChild.            *)

\* Fault: the command borrows the pump instead of cloning the Arc.
CreateCommandBorrows(c) ==
  /\ caller[Root] = "ready" /\ caller[c] = "idle"
  /\ caller' = [caller EXCEPT ![c] = "ready"]
  /\ UNCHANGED <<refs, lock, reply, pumpVars, exit_ch, result, osVars>>

\* Worrywart::command(): the command clones the Arc of the pump.
CreateCommand(c) ==
  /\ caller[Root] = "ready" /\ caller[c] = "idle"
  /\ caller' = [caller EXCEPT ![c] = "ready"]
  /\ refs' = refs \cup {c}
  /\ UNCHANGED <<lock, reply, pumpVars, exit_ch, result, osVars>>

\* The owner is dropped without having spawned anything.
DropOwner(o) ==
  /\ caller[o] = "ready"
  /\ caller' = [caller EXCEPT ![o] = "releasing"]
  /\ UNCHANGED <<refs, lock, reply, pumpVars, exit_ch, result, osVars>>

\* Fault: the mutex is taken only to look at the pump, not for the request.
SendSpawnUnlocked(c) ==
  /\ caller[c] = "ready"
  /\ pump' = IF pump = "none" THEN "top" ELSE pump
  /\ mailbox' = IF pump = "done" THEN mailbox
                ELSE Append(mailbox, SpawnMessage(c))
  /\ caller' = [caller EXCEPT ![c] = "sent"]
  /\ UNCHANGED <<refs, lock, reply, children, entryVars, eventVars, exit_ch,
                 result, osVars>>

\* spawn_debug() up to the send of the request: take the mutex, start the
\* pump thread if there is none, send.  The mutex stays held.
SendSpawn(c) ==
  /\ caller[c] = "ready" /\ lock = Nobody
  /\ lock' = c
  /\ pump' = IF pump = "none" THEN "top" ELSE pump
  /\ mailbox' = IF pump = "done" THEN mailbox
                ELSE Append(mailbox, SpawnMessage(c))
  /\ caller' = [caller EXCEPT ![c] = "sent"]
  /\ UNCHANGED <<refs, reply, children, entryVars, eventVars, exit_ch, result,
                 osVars>>

\* Pump::start() fails: spawn_debug() returns the error and drops its self.
StartFails(c) ==
  /\ caller[c] = "ready" /\ lock = Nobody /\ pump = "none"
  /\ reply' = [reply EXCEPT ![c] = "Err"]
  /\ caller' = [caller EXCEPT ![c] = "releasing"]
  /\ UNCHANGED <<refs, lock, pumpVars, exit_ch, result, osVars>>

\* Pump::spawn_child() returns, with "pump thread gone" if the thread ended
\* without a reply; spawn_debug() releases the mutex.
ReceiveReply(c) ==
  /\ caller[c] = "sent"
  /\ reply[c] # "none" \/ pump = "done"
  /\ reply' = [reply EXCEPT ![c] = IF @ = "none" THEN "BrokenPipe" ELSE @]
  /\ lock' = Nobody
  /\ caller' = [caller EXCEPT ![c] = "releasing"]
  /\ UNCHANGED <<refs, pumpVars, exit_ch, result, osVars>>

AfterRelease(o) == IF reply[o] = "Ok" THEN "spawned" ELSE "finished"

\* The owner's Arc of the pump goes away; the last one runs Drop for Pump,
\* which sends Shutdown and joins the thread.
ReleasePump(o) ==
  /\ caller[o] = "releasing"
  /\ refs' = refs \ {o}
  /\ IF refs' = {} /\ pump # "none"
       THEN /\ mailbox' = Append(mailbox, Shutdown)
            /\ caller' = [caller EXCEPT ![o] = "joining"]
       ELSE /\ caller' = [caller EXCEPT ![o] = AfterRelease(o)]
            /\ UNCHANGED mailbox
  /\ UNCHANGED <<lock, reply, pump, children, entryVars, eventVars, exit_ch,
                 result, osVars>>

JoinPump(o) ==
  /\ caller[o] = "joining" /\ pump = "done"
  /\ caller' = [caller EXCEPT ![o] = AfterRelease(o)]
  /\ UNCHANGED <<refs, lock, reply, pumpVars, exit_ch, result, osVars>>

\* wait_diagnosed() called for the first time.
CallWait(c) ==
  /\ caller[c] = "spawned"
  /\ caller' = [caller EXCEPT ![c] = "waiting"]
  /\ UNCHANGED <<refs, lock, reply, pumpVars, exit_ch, result, osVars>>

\* exit_rx.recv() returns a result.
ReceiveResult(c) ==
  /\ caller[c] = "waiting" /\ exit_ch[c] # Empty
  /\ result' = [result EXCEPT ![c] = exit_ch[c]]
  /\ exit_ch' = [exit_ch EXCEPT ![c] = Empty]
  /\ caller' = [caller EXCEPT ![c] = "diagnosed"]
  /\ UNCHANGED <<refs, lock, reply, pumpVars, osVars>>

\* exit_rx.recv() fails: the channel is closed and empty.
FallBackToPlain(c) ==
  /\ caller[c] = "waiting" /\ exit_ch[c] = Empty /\ ~SenderAlive(c)
  /\ caller' = [caller EXCEPT ![c] = "plain"]
  /\ UNCHANGED <<refs, lock, reply, pumpVars, exit_ch, result, osVars>>

\* wait_plain(): WaitForSingleObject on the process handle.
WaitPlain(c) ==
  /\ caller[c] = "plain" /\ proc[c] = "gone"
  /\ result' = [result EXCEPT ![c] = Unknown]
  /\ caller' = [caller EXCEPT ![c] = "diagnosed"]
  /\ UNCHANGED <<refs, lock, reply, pumpVars, exit_ch, osVars>>

\* Drop for WorrywartChild: closes the handles; exit_rx and what it holds
\* go with it.
DropChild(c) ==
  /\ caller[c] \in {"spawned", "diagnosed"}
  /\ caller' = [caller EXCEPT ![c] = "finished"]
  /\ exit_ch' = [exit_ch EXCEPT ![c] = Empty]
  /\ UNCHANGED <<refs, lock, reply, pumpVars, result, osVars>>

-----------------------------------------------------------------------------
(* The pump thread: pump_loop().  Its exit on a mailbox without a sender    *)
(* is no action: Drop for Pump sends Shutdown before the sender goes away.  *)

\* Where the loop goes once the mailbox has been looked at.
AfterMailbox(kids) == IF kids = {} THEN "top" ELSE "wait"

\* Fault: an inner loop waits for events as long as there are children.
AfterEventWaitsAgain == IF children = {} THEN "top" ELSE "wait"

\* Where the loop goes after an event, and after a wait without one: to the
\* top, which polls the mailbox.
AfterEvent == "top"

\* PumpMessage::Spawn, CreateProcess succeeds with a handle h: the kernel
\* queues the CREATE_PROCESS event, the pump inserts the entry and answers.
\* The entry keeps the value of a handle that the WorrywartChild owns.
PumpSpawn(c, h) ==
  /\ pump = "top" /\ mailbox # <<>> /\ Head(mailbox) = SpawnMessage(c)
  /\ HandleTarget(h) = {}
  /\ mailbox' = Tail(mailbox)
  /\ children' = children \cup {c}
  /\ past_loader_bp' = [past_loader_bp EXCEPT ![c] = FALSE]
  /\ pending_exception' = [pending_exception EXCEPT ![c] = NoException]
  /\ process_handle' = [process_handle EXCEPT ![c] = h]
  /\ reply' = [reply EXCEPT ![c] = "Ok"]
  /\ pump' = AfterMailbox(children')
  /\ proc' = [proc EXCEPT ![c] = "created"]
  /\ debugQueue' =
       Append(debugQueue, Event(c, "CREATE_PROCESS", NoException, "first"))
  /\ UNCHANGED <<caller, refs, lock, eventVars, exit_ch, result, affinity,
                 raised, cause>>

\* PumpMessage::Spawn, CreateProcess fails: the error is the answer and the
\* request's exit_tx is dropped with it.
PumpSpawnFails(c) ==
  /\ pump = "top" /\ mailbox # <<>> /\ Head(mailbox) = SpawnMessage(c)
  /\ mailbox' = Tail(mailbox)
  /\ reply' = [reply EXCEPT ![c] = "Err"]
  /\ pump' = AfterMailbox(children)
  /\ UNCHANGED <<caller, refs, lock, children, entryVars, eventVars, exit_ch,
                 result, osVars>>

\* PumpMessage::Shutdown: the thread returns at once, its map is dropped, and
\* the kernel kills the debuggees of a thread that ends.
PumpShutdown ==
  /\ pump = "top" /\ mailbox # <<>> /\ Head(mailbox) = Shutdown
  /\ mailbox' = <<>>
  /\ pump' = "done"
  /\ children' = {}
  /\ debugQueue' = <<>>
  /\ proc' = [p \in Process |->
                IF proc[p] \in {"none", "gone"} THEN proc[p] ELSE "exiting"]
  /\ cause' = [p \in Process |-> IF Live(p) THEN "kill" ELSE cause[p]]
  /\ UNCHANGED <<callerVars, entryVars, eventVars, exit_ch, result, affinity,
                 raised>>

\* try_recv() finds nothing while children are tracked.
PumpNoMessage ==
  /\ pump = "top" /\ mailbox = <<>> /\ children # {}
  /\ pump' = "wait"
  /\ UNCHANGED <<callerVars, mailbox, children, entryVars, eventVars, exit_ch,
                 result, osVars>>

\* WaitForDebugEvent(10 ms) times out.
PumpTimeout ==
  /\ pump = "wait" /\ debugQueue = <<>>
  /\ pump' = AfterEvent
  /\ UNCHANGED <<callerVars, mailbox, children, entryVars, eventVars, exit_ch,
                 result, osVars>>

\* WaitForDebugEvent returned e; dispatch_event() will answer with status.
TakeEvent(e, status) ==
  /\ pump = "wait" /\ debugQueue # <<>> /\ e = Head(debugQueue)
  /\ pump' = "continue"
  /\ current' = e
  /\ debugQueue' = Tail(debugQueue)
  /\ continue_status' = status
  /\ UNCHANGED <<callerVars, mailbox, result, proc, raised, cause>>

\* Fault: the loader breakpoint is looked for among second-chance exceptions.
IsLoaderBreakpointSecond(e) ==
  /\ e.kind = "EXCEPTION" /\ e.code = BREAKPOINT /\ e.chance = "second"
  /\ e.pid \in children /\ ~past_loader_bp[e.pid]

\* EXCEPTION_BREAKPOINT of a child that has not passed its loader breakpoint.
IsLoaderBreakpoint(e) ==
  /\ e.kind = "EXCEPTION" /\ e.code = BREAKPOINT
  /\ e.pid \in children /\ ~past_loader_bp[e.pid]

\* Fault: the chance is not looked at.
IsSecondChanceAny(e) ==
  e.kind = "EXCEPTION" /\ e.pid \in children /\ ~IsLoaderBreakpoint(e)

\* The exception is unhandled, in a process the pump created.
IsSecondChance(e) ==
  /\ e.kind = "EXCEPTION" /\ e.chance = "second" /\ e.pid \in children
  /\ ~IsLoaderBreakpoint(e)

\* The initial breakpoint of a child: mark it passed, set the affinity of
\* whatever process the handle value now stands for.
DispatchLoaderBreakpoint(e) ==
  /\ IsLoaderBreakpoint(e)
  /\ TakeEvent(e, "DBG_CONTINUE")
  /\ past_loader_bp' = [past_loader_bp EXCEPT ![e.pid] = TRUE]
  /\ affinity' = IF e.pid \in Affine
                 THEN affinity \cup HandleTarget(process_handle[e.pid])
                 ELSE affinity
  /\ UNCHANGED <<children, pending_exception, process_handle, exit_ch>>

\* A second-chance exception of a child replaces the one recorded before.
DispatchSecondChance(e) ==
  /\ IsSecondChance(e)
  /\ TakeEvent(e, "DBG_EXCEPTION_NOT_HANDLED")
  /\ pending_exception' = [pending_exception EXCEPT ![e.pid] = e.code]
  /\ UNCHANGED <<children, past_loader_bp, process_handle, exit_ch, affinity>>

\* First-chance exceptions, and every exception of an untracked process.
DispatchException(e) ==
  /\ e.kind = "EXCEPTION" /\ ~IsLoaderBreakpoint(e) /\ ~IsSecondChance(e)
  /\ TakeEvent(e, "DBG_EXCEPTION_NOT_HANDLED")
  /\ UNCHANGED <<children, entryVars, exit_ch, affinity>>

\* exit_tx.send(): blocks on a full channel, fails when the receiver is gone.
SendExit(c, r) ==
  /\ exit_ch[c] = Empty
  /\ exit_ch' = IF caller[c] = "finished" THEN exit_ch
                ELSE [exit_ch EXCEPT ![c] = r]

\* Faults: the entry stays in the map; it goes, with nothing sent; neither.
ReportAndKeep(e, r) ==
  IF e.pid \in children
    THEN UNCHANGED children /\ SendExit(e.pid, r)
    ELSE UNCHANGED <<children, exit_ch>>

ForgetSilently(e, r) ==
  children' = children \ {e.pid} /\ UNCHANGED exit_ch

KeepSilently(e, r) == UNCHANGED <<children, exit_ch>>

\* Remove the child of e, if tracked, and send r to its waiter.
ReportAndForget(e, r) ==
  IF e.pid \in children
    THEN children' = children \ {e.pid} /\ SendExit(e.pid, r)
    ELSE UNCHANGED <<children, exit_ch>>

\* Fault: no arm for an exit without a recorded exception.
ClassifyExitAlwaysCrash(pending) ==
  [reason |-> IF pending \in FastFailCodes THEN "FastFail" ELSE "Crash",
   code |-> pending]

\* classify_exit()
ClassifyExit(pending) ==
  CASE pending = NoException -> Unknown
    [] pending \in FastFailCodes -> [reason |-> "FastFail", code |-> pending]
    [] OTHER -> [reason |-> "Crash", code |-> pending]

ClassifyEvent(e) ==
  IF e.pid \in children THEN ClassifyExit(pending_exception[e.pid]) ELSE Empty

DispatchExitProcess(e) ==
  /\ e.kind = "EXIT_PROCESS"
  /\ TakeEvent(e, "DBG_CONTINUE")
  /\ ReportAndForget(e, ClassifyEvent(e))
  /\ UNCHANGED <<entryVars, affinity>>

DispatchRip(e) ==
  /\ e.kind = "RIP"
  /\ TakeEvent(e, "DBG_CONTINUE")
  /\ ReportAndForget(e, ExternalKill)
  /\ UNCHANGED <<entryVars, affinity>>

\* CREATE_PROCESS, and the thread, DLL and debug-string events.
DispatchOther(e) ==
  /\ e.kind \in {"CREATE_PROCESS", "OTHER"}
  /\ TakeEvent(e, "DBG_CONTINUE")
  /\ UNCHANGED <<children, entryVars, exit_ch, affinity>>

DispatchEvent(e) ==
  \/ DispatchLoaderBreakpoint(e) \/ DispatchSecondChance(e)
  \/ DispatchException(e) \/ DispatchExitProcess(e)
  \/ DispatchRip(e) \/ DispatchOther(e)

\* ContinueDebugEvent(): a second-chance exception not handled ends the
\* process; a process leaves the loader breakpoint whatever the status, since
\* ntdll guards it with a handler of its own.
PumpContinue ==
  /\ pump = "continue"
  /\ pump' = AfterEvent
  /\ current' = NoEvent
  /\ LET p == current.pid
         fatal == /\ current.kind = "EXCEPTION" /\ current.chance = "second"
                  /\ continue_status = "DBG_EXCEPTION_NOT_HANDLED"
     IN  /\ proc' = [proc EXCEPT ![p] =
                       CASE current.kind = "EXIT_PROCESS" -> "gone"
                         [] Live(p) /\ fatal -> "exiting"
                         [] ~fatal /\ current.kind = "EXCEPTION"
                              /\ @ = "loading" -> "running"
                         [] OTHER -> @]
         /\ cause' = [cause EXCEPT ![p] =
                        IF Live(p) /\ fatal THEN "exception" ELSE @]
  /\ UNCHANGED <<callerVars, mailbox, children, entryVars, continue_status,
                 exit_ch, result, debugQueue, affinity, raised>>

-----------------------------------------------------------------------------
(* The debuggees, as the kernel's debug API lets them behave.              *)

\* A thread of p stops at a debug event.
PostEvent(e) ==
  /\ Cardinality(Outstanding(e.pid)) < MaxBlocked
  /\ debugQueue' = Append(debugQueue, e)
  /\ raised' = [raised EXCEPT ![e.pid] =
                  IF e.chance = "second" THEN @ \cup {e.code} ELSE @]
  /\ UNCHANGED <<callerVars, pumpVars, exit_ch, result, affinity>>

\* The process image is mapped: the loader stops at its breakpoint.
LoaderBreak(p) ==
  /\ proc[p] = "created" /\ Outstanding(p) = {}
  /\ proc' = [proc EXCEPT ![p] = "loading"]
  /\ PostEvent(Event(p, "EXCEPTION", BREAKPOINT, "first"))
  /\ UNCHANGED cause

RaiseException(p, code, chance) ==
  /\ proc[p] = "running"
  /\ PostEvent(Event(p, "EXCEPTION", code, chance))
  /\ UNCHANGED <<proc, cause>>

\* Thread, DLL and debug-string events, and the system error RIP.
RaiseOther(p, kind) ==
  /\ proc[p] = "running"
  /\ PostEvent(Event(p, kind, NoException, "first"))
  /\ UNCHANGED <<proc, cause>>

\* A debuggee starts another process, which becomes a debuggee too.
StartDescendant(p, d) ==
  /\ proc[p] = "running" /\ proc[d] = "none" /\ pump # "done"
  /\ proc' = [proc EXCEPT ![d] = "created"]
  /\ PostEvent(Event(d, "CREATE_PROCESS", NoException, "first"))
  /\ UNCHANGED cause

\* p ends by itself, or is killed: by WorrywartChild::kill() or by anyone.
Die(p, why) ==
  /\ IF why = "exit" THEN proc[p] = "running" ELSE Live(p)
  /\ proc' = [proc EXCEPT ![p] = "exiting"]
  /\ cause' = [cause EXCEPT ![p] = why]
  /\ UNCHANGED <<callerVars, pumpVars, exit_ch, result, debugQueue, affinity,
                 raised>>

\* The last thread of a dying debuggee reports the exit and stops.
ReportExit(p) ==
  /\ proc[p] = "exiting" /\ pump # "done" /\ Outstanding(p) = {}
  /\ proc' = [proc EXCEPT ![p] = "zombie"]
  /\ PostEvent(Event(p, "EXIT_PROCESS", NoException, "first"))
  /\ UNCHANGED cause

\* Without a debugger the process just goes away.
Vanish(p) ==
  /\ proc[p] = "exiting" /\ pump = "done"
  /\ proc' = [proc EXCEPT ![p] = "gone"]
  /\ UNCHANGED <<callerVars, pumpVars, exit_ch, result, debugQueue, affinity,
                 raised, cause>>

-----------------------------------------------------------------------------
CallerStep ==
  \/ \E o \in Owner : DropOwner(o) \/ ReleasePump(o) \/ JoinPump(o)
  \/ \E c \in Child :
       \/ CreateCommand(c) \/ SendSpawn(c) \/ StartFails(c) \/ ReceiveReply(c)
       \/ CallWait(c) \/ ReceiveResult(c) \/ FallBackToPlain(c)
       \/ WaitPlain(c) \/ DropChild(c)

PumpStep ==
  \/ \E c \in Child :
       PumpSpawnFails(c) \/ \E h \in Handle : PumpSpawn(c, h)
  \/ PumpShutdown \/ PumpNoMessage \/ PumpTimeout \/ PumpContinue
  \/ debugQueue # <<>> /\ DispatchEvent(Head(debugQueue))

ProcessStep ==
  \/ \E p \in Process :
       \/ LoaderBreak(p) \/ ReportExit(p) \/ Vanish(p)
       \/ \E why \in {"exit", "kill"} : Die(p, why)
       \/ \E code \in Codes, chance \in {"first", "second"} :
            RaiseException(p, code, chance)
       \/ \E kind \in OtherKinds : RaiseOther(p, kind)
       \/ \E d \in Descendant : StartDescendant(p, d)

Next == CallerStep \/ PumpStep \/ ProcessStep

Spec == Init /\ [][Next]_vars

\* The owner's thread is inside a call that can go on.
OwnerProgress(o) ==
  \/ ReleasePump(o) \/ JoinPump(o)
  \/ /\ o \in Child
     /\ \/ ReceiveReply(o) \/ ReceiveResult(o)
        \/ FallBackToPlain(o) \/ WaitPlain(o)

\* The kernel finishes what it started with p.
KernelProgress(p) == LoaderBreak(p) \/ ReportExit(p) \/ Vanish(p)

\* Threads are scheduled.  Nobody has to spawn, to wait, to exit or to be
\* dropped, and no process has to raise anything.
Fairness ==
  /\ WF_vars(PumpStep)
  /\ \A o \in Owner : WF_vars(OwnerProgress(o))
  /\ \A p \in Process : WF_vars(KernelProgress(p))

FairSpec == Spec /\ Fairness

-----------------------------------------------------------------------------
(* Safety.                                                                 *)

\* Every variable has the values the types of the program allow; a result
\* with a code always has one that a debuggee can raise.
TypeOK ==
  /\ caller \in [Owner -> CallerState]
  /\ refs \subseteq Owner
  /\ lock \in Child \cup {Nobody}
  /\ reply \in [Owner -> {"none", "Ok", "Err", "BrokenPipe"}]
  /\ pump \in {"none", "top", "wait", "continue", "done"}
  /\ mailbox \in Seq(PumpMessage)
  /\ children \subseteq Child
  /\ past_loader_bp \in [Child -> BOOLEAN]
  /\ pending_exception \in [Child -> Codes \cup {NoException}]
  /\ process_handle \in [Child -> Handle \cup {Nobody}]
  /\ current \in DebugEvent \cup {NoEvent}
  /\ continue_status \in {"DBG_CONTINUE", "DBG_EXCEPTION_NOT_HANDLED"}
  /\ exit_ch \in [Child -> TerminationReason \cup {Empty}]
  /\ result \in [Child -> TerminationReason \cup {Empty}]
  /\ proc \in [Process -> ProcState]
  /\ debugQueue \in Seq(DebugEvent)
  /\ affinity \subseteq Child
  /\ raised \in [Process -> SUBSET Codes]
  /\ cause \in [Process -> {"none", "exit", "kill", "exception"}]

\* A child the pump still tracks has had nothing sent to its waiter: the send
\* on the one-place exit channel can therefore never block the pump thread,
\* whatever events the child produces and however late its owner waits.
TrackedMeansUnreported ==
  \A c \in children : exit_ch[c] = Empty /\ result[c] = Empty

\* No spawn() ever finds the pump thread gone: the Shutdown message is sent
\* by the last owner only, and a caller in spawn_debug() is an owner.
NoCallerFindsPumpGone ==
  /\ \A c \in Child : reply[c] # "BrokenPipe"
  /\ \A c \in Child : caller[c] = "sent" =>
       pump # "done" /\ \A i \in DOMAIN mailbox : mailbox[i] # Shutdown

Delivered(c) == IF exit_ch[c] # Empty THEN exit_ch[c] ELSE result[c]

\* What the waiter is told agrees with what happened to the child: Crash and
\* FastFail name a second-chance exception the child really raised, FastFail
\* exactly for the fast-fail codes; and as long as the pump is there, a child
\* that an unhandled exception ended is never told to be Unknown.
DiagnosisMatchesHistory ==
  \A c \in Child :
    LET told == Delivered(c) IN
      /\ told.reason \in {"Crash", "FastFail"} =>
           /\ told.code \in raised[c]
           /\ told.reason = "FastFail" <=> told.code \in FastFailCodes
      /\ told.reason = "Unknown" /\ cause[c] = "exception" =>
           pump = "done"

\* A child spawned with an affinity mask runs none of its own code before the
\* mask is set, in the window the loader breakpoint gives, as long as its
\* WorrywartChild, whose handle the pump uses for it, has not been dropped.
AffinityBeforeUserCode ==
  \A c \in Affine :
    proc[c] = "running" => c \in affinity \/ caller[c] = "finished"

\* A waiter falls back to the plain wait, and loses the diagnosis, only when
\* the pump thread is gone: while it runs every tracked child is reported.
FallBackOnlyWithoutPump ==
  \A c \in Child : caller[c] = "plain" => pump = "done"

(* The hand-over of a child from its caller to the pump and back, by parts; *)
(* with TypeOK it is inductive, and the three properties of the hand-over   *)
(* above follow from it.                                                    *)

\* Whoever may still spawn, or is spawning, keeps the pump alive.
OwnersHoldThePump ==
  \A o \in Owner : caller[o] \in {"ready", "sent", "releasing"} => o \in refs

\* One caller at a time is between its request and its reply: the one that
\* holds the mutex.
SenderHoldsTheLock ==
  \A c \in Child : caller[c] = "sent" <=> lock = c

\* The unanswered request of the caller that holds the mutex, or the Shutdown
\* of the last owner: the unbounded channel never holds anything else.
MailboxHoldsOne ==
  \/ mailbox = <<>>
  \/ mailbox = <<Shutdown>> /\ refs = {}
  \/ \E c \in Child : /\ mailbox = <<SpawnMessage(c)>>
                      /\ caller[c] = "sent" /\ reply[c] = "none"

\* The pump thread ends only when nobody owns it, and forgets its children.
PumpEndsUnowned == pump = "done" => refs = {} /\ children = {}

\* Only after the Ok of the pump is there a child to track, report or wait for.
ReplyBeforeChild ==
  \A c \in Child :
    /\ caller[c] \in {"idle", "ready"} => reply[c] = "none"
    /\ caller[c] \in {"spawned", "waiting", "plain", "diagnosed"}
         => reply[c] = "Ok"
    /\ reply[c] # "BrokenPipe"
    /\ reply[c] # "Ok" =>
         c \notin children /\ exit_ch[c] = Empty /\ result[c] = Empty

\* As long as the pump is there, a child nobody has diagnosed or dropped is
\* tracked, or its result is on the way.
TrackedOrReported ==
  \A c \in Child :
    (/\ reply[c] = "Ok" /\ pump # "done"
     /\ caller[c] \notin {"diagnosed", "finished"})
    => c \in children \/ exit_ch[c] # Empty

\* All of it: what spawn_debug(), pump_loop() and wait_diagnosed() rely on.
HandOver ==
  /\ OwnersHoldThePump /\ SenderHoldsTheLock /\ MailboxHoldsOne
  /\ PumpEndsUnowned /\ ReplyBeforeChild /\ TrackedOrReported
  /\ TrackedMeansUnreported /\ FallBackOnlyWithoutPump

(* What carries DiagnosisMatchesHistory and AffinityBeforeUserCode, from    *)
(* the process over the debug event to the report, by parts; with TypeOK   *)
(* and HandOver it is inductive.                                           *)

\* A child has a process, and then events, from the Ok of the pump on, and dies
\* of an exception once, after which the pump, while it tracks the child, knows
\* the code.
ProcessHistory ==
  \A c \in Child :
    /\ proc[c] # "none" => reply[c] = "Ok"
    /\ current.pid = c => proc[c] # "none"
    /\ cause[c] = "exception" =>
         /\ proc[c] \notin {"none", "created", "loading", "running"}
         /\ c \in children => pending_exception[c] \in Codes
    /\ pending_exception[c] # NoException => pending_exception[c] \in raised[c]

\* An event in the queue tells what its process has done: before the loader
\* breakpoint it is the creation, there it is the breakpoint and nothing else,
\* and after the exit there is no way back.
EventsAreTrue ==
  \A i \in DOMAIN debugQueue :
    LET e == debugQueue[i] IN
      /\ proc[e.pid] # "none"
      /\ e.kind = "EXIT_PROCESS" => proc[e.pid] \in {"zombie", "gone"}
      /\ e.chance = "second" => e.code \in raised[e.pid]
      /\ proc[e.pid] = "created" => e.kind = "CREATE_PROCESS"
      /\ proc[e.pid] = "loading" =>
           /\ e.kind = "EXCEPTION" /\ e.code = BREAKPOINT
           /\ \A j \in DOMAIN debugQueue : debugQueue[j].pid = e.pid => j = i

Queued(p) == \E i \in DOMAIN debugQueue : debugQueue[i].pid = p

\* Up to its loader breakpoint a child is tracked and unmarked; when the pump
\* has taken that event the mask is set.
LoaderWindow ==
  \A c \in Child :
    /\ proc[c] \in {"created", "loading"} => c \in children
    /\ proc[c] = "created" => ~past_loader_bp[c]
    /\ proc[c] = "loading" /\ Queued(c) => ~past_loader_bp[c]
    /\ proc[c] = "loading" /\ current.pid = c /\ c \in Affine
         => c \in affinity \/ caller[c] = "finished"

\* An exception that ends a tracked child has been recorded before.
FatalIsRecorded ==
  pump = "continue" /\ current.chance = "second"
    /\ continue_status = "DBG_EXCEPTION_NOT_HANDLED" /\ current.pid \in children
    => pending_exception[current.pid] \in Codes

\* r agrees with what has happened to c, and with what still can.
TrueOf(r, c) ==
  /\ r.reason \in {"Crash", "FastFail"} =>
       /\ r.code \in raised[c]
       /\ r.reason = "FastFail" <=> r.code \in FastFailCodes
  /\ r.reason = "Unknown" =>
       \/ pump = "done"
       \/ proc[c] \in {"zombie", "gone"} /\ cause[c] # "exception"

ReportsAreTrue ==
  \A c \in Child : TrueOf(exit_ch[c], c) /\ TrueOf(result[c], c)

\* From the process over its debug events to the report: what the pump knows
\* of a process is never ahead of it, and never lost on the way.
NewsIsTrue ==
  /\ ProcessHistory /\ EventsAreTrue /\ LoaderWindow /\ FatalIsRecorded
  /\ ReportsAreTrue /\ AffinityBeforeUserCode

-----------------------------------------------------------------------------
(* Refinement: the pump is a monitor thread as ExitReport describes it.    *)

\* Where ExitReport sees the owner of c, whose spawn() has a request under way
\* or a child once it is "sent" and the pump has not refused it.
Stage(c) ==
  CASE caller[c] \in {"idle", "ready"} -> "new"
    [] caller[c] \in {"waiting", "plain", "diagnosed"} -> caller[c]
    [] \/ caller[c] = "sent" /\ reply[c] \in {"none", "Ok"}
       \/ caller[c] \in {"releasing", "joining", "spawned"} /\ reply[c] = "Ok"
         -> "opened"
    [] OTHER -> "dropped"

Stages  == [c \in Child |-> Stage(c)]
Senders == {c \in Child : SenderAlive(c)}

Promise ==
  INSTANCE ExitReport WITH
    MonitorReason <- TerminationReason, PlainReason <- {Unknown},
    stage <- Stages, sender <- Senders,
    channel <- exit_ch, answer <- result, gone <- (pump = "done")

\* Whatever the callers, the pump and the debuggees do, each step is one that
\* ExitReport allows or changes nothing it speaks of: the sender of a child is
\* used at most once, on a free channel, and lost only with the pump thread.
ImplementsExitReport == Promise!Spec

-----------------------------------------------------------------------------
(* Liveness, under FairSpec.                                               *)

\* Every spawn request is answered, however many debug events the other
\* children produce: the loop polls the mailbox between two events.
SpawnReturns ==
  \A c \in Child : caller[c] = "sent" ~> caller[c] # "sent"

\* A caller of wait_diagnosed() whose child is dying gets an answer, from the
\* pump or, when the pump is shut down meanwhile, from the plain wait.
WaitReturns ==
  \A c \in Child :
    (caller[c] \in {"waiting", "plain"}
       /\ proc[c] \in {"exiting", "zombie", "gone"})
      ~> caller[c] = "diagnosed"

\* Dropping the last owner returns: the pump thread reads the Shutdown message
\* even while its children keep producing events, so the join ends.
DropReturns ==
  \A o \in Owner : caller[o] = "joining" ~> caller[o] # "joining"

-----------------------------------------------------------------------------
(* What the documentation says and the code does not do.                   *)

\* DESIGN-NOTES: one thread services all debugged processes.  With one thread
\* per process able to stop (MaxBlocked = 1): a stopped process is resumed.
EveryDebuggeeServiced ==
  \A p \in Process : Outstanding(p) # {} ~> Outstanding(p) = {}

\* SpawnRequest::affinity_mask: 0 means that the affinity is not set.  (It is,
\* when the child got the handle value a dropped child's entry still has.)
AffinityOnlyWhereAsked == affinity \subseteq Affine
=============================================================================
