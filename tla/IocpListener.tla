----------------------------- MODULE IocpListener -----------------------------
(***************************************************************************)
(* The listener thread of iocp.rs, which turns the exit notifications of   *)
(* the job object into results for wait_diagnosed(), and the callers of it *)
(* in core.rs: spawn_job_monitored(), the wait with its plain fall-back,   *)
(* and the drop of the owners, the job's handle before the listener's.     *)
(*                                                                         *)
(* Processes here are not the same thing as pids: everything the listener  *)
(* knows about a process it knows by pid, and Windows reuses a pid as soon *)
(* as the process is gone and nobody holds a handle to it.                 *)
(***************************************************************************)
EXTENDS Naturals, Sequences, FiniteSets

CONSTANTS
  Call,        \* the spawn_job_monitored() calls, and the child of each
  Stranger,    \* processes of the job that are never registered: what the
               \* children start, and the children of the debug pump
  Pid,         \* process identifiers
  Root,        \* the Worrywart value, an owner as commands are
  Nobody,      \* no owner, no process
  PidReuse,    \* whether a pid is handed out twice in the time modelled
  LossyJob     \* whether the job may fail to post a notification

Owner   == Call \cup {Root}
Process == Call \cup Stranger

ASSUME IocpAssumption ==
  /\ Root \notin Process /\ Nobody \notin Owner \cup Process \cup Pid
  /\ Call \cap Stranger = {}
  /\ PidReuse \in BOOLEAN /\ LossyJob \in BOOLEAN

VARIABLES
  caller,    \* where each owner's thread is
  spawned,   \* calls whose spawn() has returned a WorrywartChild
  jobRefs,   \* owners whose Arc<JobHandle> is alive
  iocpRefs,  \* owners whose Arc<Mutex<Option<Iocp>>> is alive
  lock,      \* holder of that mutex
  listener,  \* where the listener thread is
  port,      \* packets queued at the completion port
  rx,        \* registrations not yet read by the listener
  waiters,   \* the HashMap of the listener: pid to the call waiting for it
  pending,   \* the HashMap of results nobody has registered for
  exit_ch,   \* content of each child's exit channel (capacity 1)
  result,    \* what wait_diagnosed() returned
  proc,      \* life of each process, and how it ended
  pid        \* the pid each process was given

callerVars   == <<caller, spawned, jobRefs, iocpRefs, lock>>
listenerVars == <<listener, waiters, pending>>
osVars       == <<proc, pid>>
vars == <<callerVars, listenerVars, port, rx, exit_ch, result, osVars>>

-----------------------------------------------------------------------------
(* Values.                                                                 *)

\* A packet carries the completion key, the message type and the pid.
Packet(type, n) == [key |-> "JOB_KEY", type |-> type, pid |-> n]
Shutdown == [key |-> "SHUTDOWN_KEY", type |-> "none", pid |-> Nobody]
MessageType == {"NEW_PROCESS", "EXIT_PROCESS", "ABNORMAL_EXIT_PROCESS"}

\* A reason, and the process whose exit code goes with it (Nobody: code 0).
Reason(reason, p) == [reason |-> reason, code |-> p]
Empty == Reason("none", Nobody)
TerminationReason ==
  [reason : {"Unknown", "Crash"}, code : Process \cup {Nobody}]

CallerState == {"idle", "ready", "created", "locked", "releaseJob",
                "releaseIocp", "joining", "spawned", "waiting", "plain",
                "diagnosed", "finished"}
ProcState == {"none", "running", "dying", "EXIT_PROCESS",
              "ABNORMAL_EXIT_PROCESS"}

Exited(p) == proc[p] \in {"EXIT_PROCESS", "ABNORMAL_EXIT_PROCESS"}

\* The process object, and with it the pid, is kept by the handle in the
\* WorrywartChild until its Drop; the handle of a spawn() that failed after
\* CreateProcess is never closed.
HandleOpen(p) ==
  p \in Call /\ proc[p] # "none" /\ ~(p \in spawned /\ caller[p] = "finished")

Holder(n) ==
  {p \in Process : pid[p] = n /\ (proc[p] \in {"running", "dying"}
                                    \/ HandleOpen(p))}

FreePid(n) ==
  IF PidReuse THEN Holder(n) = {} ELSE \A p \in Process : pid[p] # n

\* The job posts to the port from Iocp::start() on; when the listener has
\* closed its handle nothing reads the port any more.
Posted(packet) ==
  IF listener \in {"none", "done"} THEN port ELSE Append(port, packet)

\* The completion key GetQueuedCompletionStatus() has for the listener.
HeadKey == IF port = <<>> THEN "none" ELSE Head(port).key

\* The exit_tx of c is in the waiters map or in a registration in flight.
SenderAlive(c) ==
  (\E n \in Pid : waiters[n] = c) \/ \E i \in DOMAIN rx : rx[i] = c

Init ==
  /\ caller = [o \in Owner |-> IF o = Root THEN "ready" ELSE "idle"]
  /\ spawned = {}
  /\ jobRefs = {Root} /\ iocpRefs = {Root}
  /\ lock = Nobody
  /\ listener = "none"
  /\ port = <<>> /\ rx = <<>>
  /\ waiters = [n \in Pid |-> Nobody]
  /\ pending = [n \in Pid |-> Empty]
  /\ exit_ch = [c \in Call |-> Empty]
  /\ result = [c \in Call |-> Empty]
  /\ proc = [p \in Process |-> "none"]
  /\ pid = [p \in Process |-> Nobody]

-----------------------------------------------------------------------------
(* spawn_job_monitored().                                                  *)

\* Fault: the command clones the Arc of the job only.
CreateCommandJobOnly(c) ==
  /\ caller[Root] = "ready" /\ caller[c] = "idle"
  /\ caller' = [caller EXCEPT ![c] = "ready"]
  /\ jobRefs' = jobRefs \cup {c}
  /\ UNCHANGED <<spawned, iocpRefs, lock, listenerVars, port, rx, exit_ch,
                 result, osVars>>

\* Worrywart::command(): the command clones the Arcs of job and listener.
CreateCommand(c) ==
  /\ caller[Root] = "ready" /\ caller[c] = "idle"
  /\ caller' = [caller EXCEPT ![c] = "ready"]
  /\ jobRefs' = jobRefs \cup {c} /\ iocpRefs' = iocpRefs \cup {c}
  /\ UNCHANGED <<spawned, lock, listenerVars, port, rx, exit_ch, result,
                 osVars>>

\* The owner is dropped unused, or CreateProcess fails.
GiveUp(o) ==
  /\ caller[o] = "ready"
  /\ caller' = [caller EXCEPT ![o] = "releaseJob"]
  /\ UNCHANGED <<spawned, jobRefs, iocpRefs, lock, listenerVars, port, rx,
                 exit_ch, result, osVars>>

\* A process joins the job with pid n.
Enter(p, n) ==
  /\ proc[p] = "none" /\ FreePid(n)
  /\ proc' = [proc EXCEPT ![p] = "running"]
  /\ pid' = [pid EXCEPT ![p] = n]
  /\ port' = Posted(Packet("NEW_PROCESS", n))

\* create_process_for_job(): the child runs, and may exit, from here on.
CreateProcess(c, n) ==
  /\ caller[c] = "ready"
  /\ Enter(c, n)
  /\ caller' = [caller EXCEPT ![c] = "created"]
  /\ UNCHANGED <<spawned, jobRefs, iocpRefs, lock, listenerVars, rx, exit_ch,
                 result>>

\* Take the mutex; Iocp::start() on the first call: make the port, associate
\* the job with it, start the thread.
StartIocp(c) ==
  /\ caller[c] = "created" /\ lock = Nobody
  /\ lock' = c
  /\ listener' = IF listener = "none" THEN "registering" ELSE listener
  /\ caller' = [caller EXCEPT ![c] = "locked"]
  /\ UNCHANGED <<spawned, jobRefs, iocpRefs, waiters, pending, port, rx,
                 exit_ch, result, osVars>>

\* Iocp::start() fails: spawn() returns the error, the child keeps running.
StartFails(c) ==
  /\ caller[c] = "created" /\ lock = Nobody /\ listener = "none"
  /\ caller' = [caller EXCEPT ![c] = "releaseJob"]
  /\ UNCHANGED <<spawned, jobRefs, iocpRefs, lock, listenerVars, port, rx,
                 exit_ch, result, osVars>>

\* register(): the error of a send to an ended listener is ignored, and the
\* exit_tx is dropped with the message.
Register(c) ==
  /\ caller[c] = "locked"
  /\ rx' = IF listener = "done" THEN rx ELSE Append(rx, c)
  /\ lock' = Nobody
  /\ spawned' = spawned \cup {c}
  /\ caller' = [caller EXCEPT ![c] = "releaseJob"]
  /\ UNCHANGED <<jobRefs, iocpRefs, listenerVars, port, exit_ch, result,
                 osVars>>

-----------------------------------------------------------------------------
(* The owner goes away: job before iocp, the order of the fields.          *)

\* The last Arc<JobHandle> closes the job, which kills what is in it.
ReleaseJob(o) ==
  /\ caller[o] = "releaseJob"
  /\ jobRefs' = jobRefs \ {o}
  /\ proc' = [p \in Process |->
                IF jobRefs' = {} /\ proc[p] = "running" THEN "dying"
                ELSE proc[p]]
  /\ caller' = [caller EXCEPT ![o] = "releaseIocp"]
  /\ UNCHANGED <<spawned, iocpRefs, lock, listenerVars, port, rx, exit_ch,
                 result, pid>>

AfterRelease(o) == IF o \in spawned THEN "spawned" ELSE "finished"

\* The last Arc of the listener runs Drop for Iocp: post the shutdown packet,
\* which fails when the listener has closed the handle, and join the thread.
ReleaseIocp(o) ==
  /\ caller[o] = "releaseIocp"
  /\ iocpRefs' = iocpRefs \ {o}
  /\ IF iocpRefs' = {} /\ listener # "none"
       THEN /\ port' = Posted(Shutdown)
            /\ caller' = [caller EXCEPT ![o] = "joining"]
       ELSE /\ caller' = [caller EXCEPT ![o] = AfterRelease(o)]
            /\ UNCHANGED port
  /\ UNCHANGED <<spawned, jobRefs, lock, listenerVars, rx, exit_ch, result,
                 osVars>>

JoinListener(o) ==
  /\ caller[o] = "joining" /\ listener = "done"
  /\ caller' = [caller EXCEPT ![o] = AfterRelease(o)]
  /\ UNCHANGED <<spawned, jobRefs, iocpRefs, lock, listenerVars, port, rx,
                 exit_ch, result, osVars>>

-----------------------------------------------------------------------------
(* WorrywartChild.                                                         *)

\* wait_diagnosed() called for the first time.
CallWait(c) ==
  /\ caller[c] = "spawned"
  /\ caller' = [caller EXCEPT ![c] = "waiting"]
  /\ UNCHANGED <<spawned, jobRefs, iocpRefs, lock, listenerVars, port, rx,
                 exit_ch, result, osVars>>

\* exit_rx.recv() returns a result.
ReceiveResult(c) ==
  /\ caller[c] = "waiting" /\ exit_ch[c] # Empty
  /\ result' = [result EXCEPT ![c] = exit_ch[c]]
  /\ exit_ch' = [exit_ch EXCEPT ![c] = Empty]
  /\ caller' = [caller EXCEPT ![c] = "diagnosed"]
  /\ UNCHANGED <<spawned, jobRefs, iocpRefs, lock, listenerVars, port, rx,
                 osVars>>

\* exit_rx.recv() fails: the channel is closed and empty.
FallBackToPlain(c) ==
  /\ caller[c] = "waiting" /\ exit_ch[c] = Empty /\ ~SenderAlive(c)
  /\ caller' = [caller EXCEPT ![c] = "plain"]
  /\ UNCHANGED <<spawned, jobRefs, iocpRefs, lock, listenerVars, port, rx,
                 exit_ch, result, osVars>>

\* wait_plain(): the process handle is waited for and asked.
WaitPlain(c) ==
  /\ caller[c] = "plain" /\ Exited(c)
  /\ result' = [result EXCEPT ![c] = Reason("Unknown", c)]
  /\ caller' = [caller EXCEPT ![c] = "diagnosed"]
  /\ UNCHANGED <<spawned, jobRefs, iocpRefs, lock, listenerVars, port, rx,
                 exit_ch, osVars>>

\* Drop for WorrywartChild: the process handle is closed, exit_rx goes.
DropChild(c) ==
  /\ caller[c] \in {"spawned", "diagnosed"}
  /\ caller' = [caller EXCEPT ![c] = "finished"]
  /\ exit_ch' = [exit_ch EXCEPT ![c] = Empty]
  /\ UNCHANGED <<spawned, jobRefs, iocpRefs, lock, listenerVars, port, rx,
                 result, osVars>>

-----------------------------------------------------------------------------
(* The listener thread: iocp_loop().                                       *)

\* exit_tx.send(): blocks on a full channel, fails when the receiver is gone.
SendExit(c, r) ==
  /\ exit_ch[c] = Empty
  /\ exit_ch' = IF caller[c] = "finished" THEN exit_ch
                ELSE [exit_ch EXCEPT ![c] = r]

\* Faults: the buffer is not looked at; the buffered result is not sent; the
\* waiter is kept although it is answered.
RegisterUnbuffered(c) ==
  waiters' = [waiters EXCEPT ![pid[c]] = c] /\ UNCHANGED <<pending, exit_ch>>

RegisterUnanswered(c) ==
  IF pending[pid[c]] # Empty
    THEN /\ pending' = [pending EXCEPT ![pid[c]] = Empty]
         /\ UNCHANGED <<waiters, exit_ch>>
    ELSE /\ waiters' = [waiters EXCEPT ![pid[c]] = c]
         /\ UNCHANGED <<pending, exit_ch>>

RegisterTwice(c) ==
  /\ waiters' = [waiters EXCEPT ![pid[c]] = c]
  /\ IF pending[pid[c]] # Empty
       THEN /\ pending' = [pending EXCEPT ![pid[c]] = Empty]
            /\ SendExit(c, pending[pid[c]])
       ELSE UNCHANGED <<pending, exit_ch>>

\* rx.try_recv() yields a registration: answer it from the buffer, or keep it.
RegisterWaiter(c) ==
  IF pending[pid[c]] # Empty
    THEN /\ pending' = [pending EXCEPT ![pid[c]] = Empty]
         /\ SendExit(c, pending[pid[c]])
         /\ UNCHANGED waiters
    ELSE /\ waiters' = [waiters EXCEPT ![pid[c]] = c]
         /\ UNCHANGED <<pending, exit_ch>>

ListenerRegister ==
  /\ listener = "registering" /\ rx # <<>>
  /\ RegisterWaiter(Head(rx))
  /\ rx' = Tail(rx)
  /\ UNCHANGED <<callerVars, listener, port, result, osVars>>

ListenerRegistered ==
  /\ listener = "registering" /\ rx = <<>>
  /\ listener' = "waiting"
  /\ UNCHANGED <<callerVars, waiters, pending, port, rx, exit_ch, result,
                 osVars>>

\* get_exit_code(): whoever has the pid now is asked; code 0 if nobody has.
ExitCodeOf(n) ==
  IF Holder(n) = {} THEN Nobody ELSE CHOOSE p \in Holder(n) : TRUE

\* Faults: the message types are swapped; the pid is taken for the code.
ClassifyExitSwapped(n, type) ==
  Reason(IF type = "EXIT_PROCESS" THEN "Crash" ELSE "Unknown", ExitCodeOf(n))

ClassifyExitPidAsCode(n, type) ==
  Reason(IF type = "ABNORMAL_EXIT_PROCESS" THEN "Crash" ELSE "Unknown", n)

\* classify_iocp_exit()
ClassifyExit(n, type) ==
  Reason(IF type = "ABNORMAL_EXIT_PROCESS" THEN "Crash" ELSE "Unknown",
         ExitCodeOf(n))

\* Fault: every packet is taken for an exit.
IsExitAlways(type) == type \in MessageType

\* EXIT_PROCESS or ABNORMAL_EXIT_PROCESS; other messages are ignored.
IsExit(type) == type \in {"EXIT_PROCESS", "ABNORMAL_EXIT_PROCESS"}

Deliver(n, r) ==
  IF waiters[n] # Nobody
    THEN /\ waiters' = [waiters EXCEPT ![n] = Nobody]
         /\ SendExit(waiters[n], r)
         /\ UNCHANGED pending
    ELSE /\ pending' = [pending EXCEPT ![n] = r]
         /\ UNCHANGED <<waiters, exit_ch>>

\* dispatch_notification() on the packet at the head of the port.
DispatchNotification ==
  /\ HeadKey = "JOB_KEY"
  /\ port' = Tail(port)
  /\ IF IsExit(Head(port).type)
       THEN Deliver(Head(port).pid,
                    ClassifyExit(Head(port).pid, Head(port).type))
       ELSE UNCHANGED <<waiters, pending, exit_ch>>
  /\ UNCHANGED <<callerVars, rx, result, osVars>>

ListenerPacket ==
  /\ listener = "waiting"
  /\ DispatchNotification
  /\ listener' = "registering"

ListenerShutdown ==
  /\ listener = "waiting"
  /\ HeadKey = "SHUTDOWN_KEY"
  /\ port' = Tail(port)
  /\ listener' = "draining"
  /\ UNCHANGED <<callerVars, waiters, pending, rx, exit_ch, result, osVars>>

\* Fault: go back to the loop, and keep the waiters whose packet never comes.
AfterTimeoutLoopBack == "registering"

\* Nothing for 10 ms: key is still the 0 it was set to, and that is the value
\* of SHUTDOWN_KEY, which is looked at before the timeout is.
AfterTimeout == "draining"

ListenerTimeout ==
  /\ listener = "waiting" /\ port = <<>>
  /\ listener' = AfterTimeout
  /\ UNCHANGED <<callerVars, waiters, pending, port, rx, exit_ch, result,
                 osVars>>

\* drain_remaining()
DrainPacket ==
  /\ listener = "draining"
  /\ DispatchNotification
  /\ UNCHANGED listener

\* Fault: the drain waits for one more shutdown packet.
ListenerEndsAtSentinel ==
  /\ listener = "draining"
  /\ HeadKey = "SHUTDOWN_KEY"
  /\ listener' = "done"
  /\ port' = <<>> /\ rx' = <<>>
  /\ waiters' = [n \in Pid |-> Nobody]
  /\ pending' = [n \in Pid |-> Empty]
  /\ UNCHANGED <<callerVars, exit_ch, result, osVars>>

\* The drain ends without a packet or at a shutdown packet; the thread closes
\* the port and returns, and its maps and its receiver are dropped.
ListenerEnds ==
  /\ listener = "draining"
  /\ HeadKey \in {"none", "SHUTDOWN_KEY"}
  /\ listener' = "done"
  /\ port' = <<>> /\ rx' = <<>>
  /\ waiters' = [n \in Pid |-> Nobody]
  /\ pending' = [n \in Pid |-> Empty]
  /\ UNCHANGED <<callerVars, exit_ch, result, osVars>>

-----------------------------------------------------------------------------
(* The processes of the job, and the job.                                  *)

\* A child starts a process, or the debug pump does; both join the job.
StrangerStarts(s, n) ==
  /\ jobRefs # {}
  /\ Enter(s, n)
  /\ UNCHANGED <<callerVars, listenerVars, rx, exit_ch, result>>

\* A process ends in the way that message type how stands for, or is killed
\* by the close of the job, in which case a notification may come or not.
Exit(p, how, notified) ==
  /\ \/ proc[p] = "running" /\ (notified \/ LossyJob)
     \/ proc[p] = "dying" /\ how = "EXIT_PROCESS"
  /\ proc' = [proc EXCEPT ![p] = how]
  /\ port' = IF notified THEN Posted(Packet(how, pid[p])) ELSE port
  /\ UNCHANGED <<callerVars, listenerVars, rx, exit_ch, result, pid>>

-----------------------------------------------------------------------------
CallerStep ==
  \/ \E o \in Owner :
       GiveUp(o) \/ ReleaseJob(o) \/ ReleaseIocp(o) \/ JoinListener(o)
  \/ \E c \in Call :
       \/ CreateCommand(c) \/ StartIocp(c) \/ StartFails(c) \/ Register(c)
       \/ \E n \in Pid : CreateProcess(c, n)
       \/ CallWait(c) \/ ReceiveResult(c) \/ FallBackToPlain(c)
       \/ WaitPlain(c) \/ DropChild(c)

ListenerStep ==
  \/ ListenerRegister \/ ListenerRegistered \/ ListenerPacket
  \/ ListenerShutdown \/ ListenerTimeout \/ DrainPacket \/ ListenerEnds

ProcessStep ==
  \/ \E s \in Stranger, n \in Pid : StrangerStarts(s, n)
  \/ \E p \in Process, how \in {"EXIT_PROCESS", "ABNORMAL_EXIT_PROCESS"},
        notified \in BOOLEAN : Exit(p, how, notified)

Next == CallerStep \/ ListenerStep \/ ProcessStep

Spec == Init /\ [][Next]_vars

\* The owner's thread is inside a call that can go on.
OwnerProgress(o) ==
  \/ ReleaseJob(o) \/ ReleaseIocp(o) \/ JoinListener(o)
  \/ /\ o \in Call
     /\ \/ StartIocp(o) \/ Register(o)
        \/ ReceiveResult(o) \/ FallBackToPlain(o) \/ WaitPlain(o)

\* Threads are scheduled, and a killed process dies.  Nobody has to spawn, to
\* wait or to be dropped, and no running process has to end.
Fairness ==
  /\ WF_vars(ListenerStep)
  /\ \A o \in Owner : WF_vars(OwnerProgress(o))
  /\ \A p \in Process :
       WF_vars(proc[p] = "dying"
                 /\ \E notified \in BOOLEAN : Exit(p, "EXIT_PROCESS", notified))

FairSpec == Spec /\ Fairness

-----------------------------------------------------------------------------
(* Safety.                                                                 *)

\* Every variable has the values the types of the program allow; a waiter is
\* filed under the pid of its own child.
TypeOK ==
  /\ caller \in [Owner -> CallerState]
  /\ spawned \subseteq Call
  /\ jobRefs \subseteq Owner /\ iocpRefs \subseteq Owner
  /\ lock \in Call \cup {Nobody}
  /\ listener \in {"none", "registering", "waiting", "draining", "done"}
  /\ port \in Seq([key : {"JOB_KEY"}, type : MessageType, pid : Pid]
                    \cup {Shutdown})
  /\ rx \in Seq(Call)
  /\ waiters \in [Pid -> Call \cup {Nobody}]
  /\ \A n \in Pid : waiters[n] # Nobody => pid[waiters[n]] = n
  /\ pending \in [Pid -> TerminationReason \cup {Empty}]
  /\ exit_ch \in [Call -> TerminationReason \cup {Empty}]
  /\ result \in [Call -> TerminationReason \cup {Empty}]
  /\ proc \in [Process -> ProcState]
  /\ pid \in [Process -> Pid \cup {Nobody}]

\* The registration of a waiter and the exit notification of its child meet
\* whichever comes first: never is one kept in waiters while the other is
\* kept in pending, where neither would find the other any more.
RegistrationMeetsExit ==
  \A n \in Pid : waiters[n] = Nobody \/ pending[n] = Empty

Delivered(c) == IF exit_ch[c] # Empty THEN exit_ch[c] ELSE result[c]

\* wait_diagnosed() waits for the child to exit: nothing is delivered for a
\* child that runs.  (True as long as pids are not reused: a packet and a
\* buffered result name a process by its pid only.)
ReportOnlyAfterExit == \A c \in Call : Delivered(c) # Empty => Exited(c)

\* A waiter is told about its own child: the exit code is that of the child,
\* Crash is told exactly of an abnormal end, and Unknown of an abnormal end
\* only when the listener was gone and the plain wait answered.
DiagnosisIsOwn ==
  \A c \in Call :
    LET told == Delivered(c) IN
      told # Empty =>
        /\ told.code = c
        /\ told.reason = "Crash" => proc[c] = "ABNORMAL_EXIT_PROCESS"
        /\ told.reason = "Unknown" /\ proc[c] = "ABNORMAL_EXIT_PROCESS"
             => listener = "done"

(* What carries the two above, by parts: inductive when no pid is reused.  *)

\* A process has its pid for good, and shares it with no other.
PidsIdentify ==
  /\ \A p \in Process : pid[p] = Nobody <=> proc[p] = "none"
  /\ \A p, q \in Process : pid[p] = pid[q] /\ pid[p] # Nobody => p = q

\* An exit packet names a process that has ended in the way it says.
PacketsAreTrue ==
  \A i \in DOMAIN port :
    IsExit(port[i].type) =>
      \E p \in Process : pid[p] = port[i].pid /\ proc[p] = port[i].type

\* A buffered result was read from the process it is filed under, unless that
\* one's handle has been closed, when nobody asks for the result any more.
BufferIsTrue ==
  \A n \in Pid :
    pending[n] # Empty =>
      \E p \in Process :
        /\ pid[p] = n /\ Exited(p)
        /\ pending[n].reason = "Crash" <=> proc[p] = "ABNORMAL_EXIT_PROCESS"
        /\ HandleOpen(p) => pending[n].code = p

\* r, if it is told of c, is true of c, or as good as the plain wait can tell.
TrueOf(r, c) ==
  r # Empty =>
    /\ Exited(c) /\ r.code = c
    /\ r.reason = "Crash" => proc[c] = "ABNORMAL_EXIT_PROCESS"
    /\ r.reason = "Unknown" /\ proc[c] = "ABNORMAL_EXIT_PROCESS"
         => listener = "done"

ReportsAreTrue ==
  \A c \in Call : TrueOf(exit_ch[c], c) /\ TrueOf(result[c], c)

\* On its way from the process to the waiter, through the port, the buffer and
\* the exit channel, a result stays that of the process it is filed under.
NewsIsTrue ==
  PidsIdentify /\ PacketsAreTrue /\ BufferIsTrue /\ ReportsAreTrue

\* A registered waiter loses its channel only with the listener itself.
FallBackOnlyWithoutListener ==
  \A c \in Call : caller[c] = "plain" => listener = "done"

\* Worrywart and its commands drop the job before the listener: when the
\* shutdown packet is posted the job is closed and its processes are dying,
\* so that no process outlives the thread that reports on it.
ShutdownAfterJobClosed ==
  (\E i \in DOMAIN port : port[i] = Shutdown)
    => jobRefs = {} /\ \A p \in Process : proc[p] # "running"

(* The hand-over of a child from its caller to the listener and back, by    *)
(* parts; with the types it is inductive.                                  *)

\* An owner drops its part of the job, then its part of the listener.
RefsAsHeld ==
  \A o \in Owner :
    /\ o \in jobRefs <=>
         caller[o] \in {"ready", "created", "locked", "releaseJob"}
    /\ o \in iocpRefs <=>
         caller[o] \in {"ready", "created", "locked", "releaseJob",
                       "releaseIocp"}

\* Closing the job kills what is in it, and nothing joins it afterwards.
ClosedJobIsEmpty == jobRefs = {} => \A p \in Process : proc[p] # "running"

\* A child is registered once, after its process was created and before its
\* caller can wait for it, and only while there is a listener.
RegisteredOnce ==
  /\ \A i, j \in DOMAIN rx : rx[i] = rx[j] => i = j
  /\ \A i \in DOMAIN rx, n \in Pid : waiters[n] # rx[i]
  /\ \A c \in Call :
       /\ SenderAlive(c) => c \in spawned /\ listener # "done"
       /\ c \in spawned => proc[c] # "none"
       /\ c \notin spawned => exit_ch[c] = Empty /\ result[c] = Empty
       /\ caller[c] \in {"created", "locked"} =>
            c \notin spawned /\ proc[c] # "none"
       /\ caller[c] \in {"idle", "ready"} => proc[c] = "none"
       /\ caller[c] \in {"spawned", "waiting", "plain", "diagnosed"} =>
            c \in spawned

\* Two open handles never stand for the same pid.
OnePidOneHandle ==
  /\ \A p \in Process : proc[p] # "none" => pid[p] \in Pid
  /\ \A c, d \in Call :
       HandleOpen(c) /\ HandleOpen(d) /\ pid[c] = pid[d] => c = d

\* A pid is registered again only after the child that had it was dropped: a
\* waiter that another one replaces has nobody to wait for it.
RegisteredInOrder ==
  \A i \in DOMAIN rx, d \in Call :
    (/\ d # rx[i] /\ pid[d] = pid[rx[i]]
     /\ (\E n \in Pid : waiters[n] = d) \/ \E j \in 1..(i - 1) : rx[j] = d)
    => caller[d] = "finished"

\* A registered waiter has had nothing sent to it: the send on its one-place
\* exit channel can never block the listener thread.
RegisteredMeansUnreported ==
  \A c \in Call : SenderAlive(c) => exit_ch[c] = Empty /\ result[c] = Empty

\* As long as the listener is there, a child that nobody has diagnosed or
\* dropped is registered, or its result is on the way.
RegisteredOrReported ==
  \A c \in spawned :
    listener = "done" \/ caller[c] \in {"diagnosed", "finished"}
      \/ SenderAlive(c) \/ exit_ch[c] # Empty

\* The order of the drops, and what is known of registrations and results.
Drops == RefsAsHeld /\ ClosedJobIsEmpty /\ ShutdownAfterJobClosed

Registrations ==
  /\ RegisteredOnce /\ OnePidOneHandle /\ RegisteredInOrder
  /\ RegisteredMeansUnreported /\ RegisteredOrReported
  /\ RegistrationMeetsExit /\ FallBackOnlyWithoutListener

\* All of it: what spawn_job_monitored(), iocp_loop(), wait_diagnosed() and
\* the drops rely on.
HandOver == Drops /\ Registrations

-----------------------------------------------------------------------------
(* Refinement: the listener is a monitor thread as ExitReport describes it. *)

\* Where ExitReport sees the owner of c, whose child is registered by the end
\* of spawn().
Stage(c) ==
  IF c \in spawned
    THEN CASE caller[c] \in {"waiting", "plain", "diagnosed"} -> caller[c]
           [] caller[c] = "finished" -> "dropped"
           [] OTHER -> "opened"
    ELSE IF caller[c] \in {"idle", "ready", "created", "locked"}
           THEN "new" ELSE "dropped"

Stages  == [c \in Call |-> Stage(c)]
Senders == {c \in Call : SenderAlive(c)}

Promise ==
  INSTANCE ExitReport WITH
    Child <- Call, MonitorReason <- TerminationReason,
    PlainReason <- {Reason("Unknown", c) : c \in Call},
    stage <- Stages, sender <- Senders,
    channel <- exit_ch, answer <- result, gone <- (listener = "done")

\* Whatever the callers, the listener and the processes do, and in whatever
\* order registrations and notifications meet, each step is one that ExitReport
\* allows or changes nothing it speaks of: a waiter is answered at most once,
\* on a free channel, and loses its sender only with the listener.
ImplementsExitReport == Promise!Spec

-----------------------------------------------------------------------------
(* Liveness, under FairSpec.                                               *)

\* A caller of wait_diagnosed() whose child has exited gets an answer, even
\* when the exit notification was never posted, because the child was gone
\* before Iocp::start() or because the job lost it.
WaitReturns ==
  \A c \in Call :
    (caller[c] \in {"waiting", "plain"} /\ Exited(c))
      ~> caller[c] = "diagnosed"

\* Dropping the last owner returns: the listener thread ends.
DropReturns ==
  \A o \in Owner : caller[o] = "joining" ~> caller[o] # "joining"

-----------------------------------------------------------------------------
(* What the documentation says and the code does not do.                   *)

\* iocp_loop: a timeout is no event, and the loop goes back; the listener
\* ends when Drop for Iocp has posted the shutdown packet.
ListenerEndsOnlyOnShutdown == listener = "done" => iocpRefs = {}
=============================================================================
