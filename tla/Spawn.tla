-------------------------------- MODULE Spawn --------------------------------
(***************************************************************************)
(* WorrywartCommand::spawn(), WorrywartChild::wait_diagnosed() and the     *)
(* sentinel pipes of core.rs and sentinel.rs, over several spawns at once. *)
(*                                                                         *)
(* A sentinel child inherits the write end of its pipe, announces a clean  *)
(* exit through it, and the pipe's reader thread gives its verdict when    *)
(* nobody holds the write end any more.  Whether somebody does depends on  *)
(* all the spawns of the process, and on what the children start.          *)
(*                                                                         *)
(* The monitor threads are here only what ExitReport says of them, and the *)
(* messages are whole and the reads succeed: SentinelMessage has the rest. *)
(***************************************************************************)
EXTENDS FiniteSets

CONSTANTS
  Child,        \* the spawn() calls, and the child each one creates
  Heir,         \* processes the children may start themselves
  Root,         \* the Worrywart value, an owner as the commands are
  Parent,       \* the process that spawns
  Scenarios     \* what the calls ask for, and which child starts what

Process == Child \cup Heir
Owner   == Child \cup {Root}

Monitor == {"DebugApi", "JobObject", "Sentinel"}

ASSUME SpawnAssumption ==
  /\ Child \cap Heir = {} /\ Root \notin Child
  /\ Parent \notin Process
  /\ Scenarios \subseteq [monitors : [Child -> SUBSET Monitor],
                         under : [Heir -> Child \cup {Parent}]]

VARIABLES
  monitors,     \* WorrywartCommand::monitors
  caller,       \* where the thread of each spawn() and wait() is
  owners,       \* owners whose Arcs of pump, job and listener are alive
  listener,     \* the IOCP listener thread
  exit_ch,      \* exit_rx: "none", "open", "closed", or the reason in it
  raw,          \* what exit_rx or the plain wait has said
  sentinel_rx,  \* children with a WorrywartChild::sentinel_rx
  cached,       \* WorrywartChild::cached_reason
  answer,       \* what wait_diagnosed() has returned last
  holds,        \* who holds the write end of each child's pipe
  reader,       \* the sentinel thread of each child, and its verdict
  announced,    \* children for which a sentinel message was written
  proc,         \* life of each process
  under         \* the child each process descends from once it is started

childVars == <<exit_ch, raw, sentinel_rx, cached, answer>>
pipeVars  == <<holds, reader, announced>>
osVars    == <<proc, under>>
vars == <<monitors, caller, owners, listener, childVars, pipeVars, osVars>>

-----------------------------------------------------------------------------
(* Values.                                                                 *)

\* A monitor thread never tells CleanExit: only a sentinel can.
MonitorReason == {"Unknown", "Crash", "ExternalKill"}
Reason == MonitorReason \cup {"CleanExit"}
CallerState == {"idle", "piped", "created", "spawned", "open", "waiting",
                "plain", "refining", "failed", "dropped"}

Sentinel(c) == "Sentinel" \in monitors[c]
Debug(c)    == "DebugApi" \in monitors[c]
Plain(c)    == monitors[c] = {}
ByJob(c)    == ~Debug(c) /\ ~Plain(c)

\* CreateProcess hands on every inheritable handle of the parent: with a
\* sentinel of its own, and always when std::process::Command calls it.
Inherits(c) == Sentinel(c) \/ Plain(c)

\* The job has the children of the monitored paths and what they start.
InJob(p) == ~Plain(under[p])

Running(p) == proc[p] = "running"

Init ==
  /\ \E s \in Scenarios :
       /\ monitors = s.monitors
       /\ under = [p \in Process |-> IF p \in Child THEN p ELSE s.under[p]]
  /\ caller = [c \in Child |-> "idle"]
  /\ owners = Owner
  /\ listener = "none"
  /\ exit_ch = [c \in Child |-> "none"]
  /\ raw = [c \in Child |-> "none"]
  /\ sentinel_rx = {}
  /\ cached = [c \in Child |-> "none"]
  /\ answer = [c \in Child |-> "none"]
  /\ holds = [c \in Child |-> {}]
  /\ reader = [c \in Child |-> "none"]
  /\ announced = {}
  /\ proc = [p \in Process |-> "none"]

-----------------------------------------------------------------------------
(* spawn().                                                                *)

\* Fault: the job is closed, but nothing makes that end its processes.
ReleaseOnly(o, ch) == owners' = owners \ {o} /\ exit_ch' = ch /\ proc' = proc

\* The Arcs of o go away, with the exit channels as ch has them.  The last
\* owner ends the pump, which closes its channels and kills its debuggees, and
\* closes the job, which kills the processes in it.
Release(o, ch) ==
  /\ owners' = owners \ {o}
  /\ exit_ch' = [c \in Child |->
       IF owners' = {} /\ Debug(c) /\ ch[c] = "open" THEN "closed" ELSE ch[c]]
  /\ proc' = [p \in Process |->
       IF owners' = {} /\ Running(p) /\ InJob(p) THEN "ended" ELSE proc[p]]

DropRoot ==
  /\ Root \in owners
  /\ Release(Root, exit_ch)
  /\ UNCHANGED <<monitors, caller, listener, raw, sentinel_rx, cached, answer,
                 pipeVars, under>>

\* The call fails or never comes; its command and what it owns are dropped.
Fail(c) ==
  /\ caller' = [caller EXCEPT ![c] = "failed"]
  /\ Release(c, exit_ch)
  /\ UNCHANGED <<monitors, listener, raw, sentinel_rx, cached, answer,
                 pipeVars, under>>

\* The command is dropped, or sentinel::create() fails, which leaves nothing.
GiveUp(c) == caller[c] = "idle" /\ Fail(c)

\* sentinel::create(), when a sentinel is asked for: the parent holds the
\* write end, and the reader thread runs.
CreatePipe(c) ==
  /\ caller[c] = "idle"
  /\ caller' = [caller EXCEPT ![c] = "piped"]
  /\ holds' = [holds EXCEPT ![c] = IF Sentinel(c) THEN {Parent} ELSE {}]
  /\ reader' = [reader EXCEPT ![c] = IF Sentinel(c) THEN "reading" ELSE "none"]
  /\ UNCHANGED <<monitors, owners, listener, childVars, announced, osVars>>

\* CreateProcess by the pump, for the job, or by std: the child gets the write
\* ends of all the pipes the parent holds at that moment, not only its own.
CreateProcess(c) ==
  /\ caller[c] = "piped"
  /\ caller' = [caller EXCEPT ![c] = "created"]
  /\ proc' = [proc EXCEPT ![c] = "running"]
  /\ holds' = [d \in Child |->
       IF Inherits(c) /\ Parent \in holds[d] THEN holds[d] \cup {c}
       ELSE holds[d]]
  /\ exit_ch' = [exit_ch EXCEPT ![c] = IF Debug(c) THEN "open" ELSE "none"]
  /\ UNCHANGED <<monitors, owners, listener, raw, sentinel_rx, cached, answer,
                 reader, announced, under>>

\* CreateProcess fails: nobody closes the write end the parent has.
CreateProcessFails(c) == caller[c] = "piped" /\ Fail(c)

\* Iocp::start() fails: nor then, and the child keeps running.
StartFails(c) ==
  caller[c] = "created" /\ ByJob(c) /\ listener = "none" /\ Fail(c)

\* spawn_debug(), spawn_job_monitored() or spawn_plain() returns its child and
\* drops the command.  The job path has registered the child; the listener,
\* if it has ended, has dropped the sender.
SpawnReturns(c) ==
  /\ caller[c] = "created"
  /\ caller' = [caller EXCEPT ![c] = "spawned"]
  /\ listener' =
       IF ByJob(c) /\ listener = "none" THEN "running" ELSE listener
  /\ Release(c, IF ByJob(c)
                THEN [exit_ch EXCEPT ![c] =
                        IF listener = "done" THEN "closed" ELSE "open"]
                ELSE exit_ch)
  /\ UNCHANGED <<monitors, raw, sentinel_rx, cached, answer, pipeVars, under>>

\* Fault: the parent forgets to close its copy.
CloseNothing(c) ==
  /\ caller[c] = "spawned"
  /\ caller' = [caller EXCEPT ![c] = "open"]
  /\ sentinel_rx' = IF Sentinel(c) THEN sentinel_rx \cup {c} ELSE sentinel_rx
  /\ UNCHANGED <<monitors, owners, listener, exit_ch, raw, cached, answer,
                 pipeVars, osVars>>

\* The parent closes its copy of the write end, and spawn() returns.
CloseWriteEnd(c) ==
  /\ caller[c] = "spawned"
  /\ caller' = [caller EXCEPT ![c] = "open"]
  /\ holds' = [holds EXCEPT ![c] = @ \ {Parent}]
  /\ sentinel_rx' = IF Sentinel(c) THEN sentinel_rx \cup {c} ELSE sentinel_rx
  /\ UNCHANGED <<monitors, owners, listener, exit_ch, raw, cached, answer,
                 reader, announced, osVars>>

\* CloseHandle fails: spawn() returns the error and drops the child.
CloseFails(c) ==
  /\ caller[c] = "spawned" /\ Sentinel(c)
  /\ caller' = [caller EXCEPT ![c] = "failed"]
  /\ UNCHANGED <<monitors, owners, listener, childVars, pipeVars, osVars>>

-----------------------------------------------------------------------------
(* wait_diagnosed(), as often as the owner of the child calls it.          *)

\* Fault: what was taken out of the cache is not put back.
AnswerAndForget(c) ==
  /\ caller[c] = "open" /\ cached[c] # "none"
  /\ answer' = [answer EXCEPT ![c] = cached[c]]
  /\ cached' = [cached EXCEPT ![c] = "none"]
  /\ UNCHANGED <<monitors, caller, owners, listener, exit_ch, raw, sentinel_rx,
                 pipeVars, osVars>>

\* A later call: the cached reason is taken, returned and cached again.
AnswerFromCache(c) ==
  /\ caller[c] = "open" /\ cached[c] # "none"
  /\ answer' = [answer EXCEPT ![c] = cached[c]]
  /\ UNCHANGED <<monitors, caller, owners, listener, exit_ch, raw, sentinel_rx,
                 cached, pipeVars, osVars>>

\* A call without a cached reason waits on exit_rx, or on the process.
CallWait(c) ==
  /\ caller[c] = "open" /\ cached[c] = "none"
  /\ caller' =
       [caller EXCEPT ![c] = IF exit_ch[c] = "none" THEN "plain" ELSE "waiting"]
  /\ UNCHANGED <<monitors, owners, listener, childVars, pipeVars, osVars>>

Receive(c) ==
  /\ caller[c] = "waiting" /\ exit_ch[c] \in MonitorReason
  /\ caller' = [caller EXCEPT ![c] = "refining"]
  /\ raw' = [raw EXCEPT ![c] = exit_ch[c]]
  /\ exit_ch' = [exit_ch EXCEPT ![c] = "closed"]
  /\ UNCHANGED <<monitors, owners, listener, sentinel_rx, cached, answer,
                 pipeVars, osVars>>

FallBack(c) ==
  /\ caller[c] = "waiting" /\ exit_ch[c] = "closed"
  /\ caller' = [caller EXCEPT ![c] = "plain"]
  /\ UNCHANGED <<monitors, owners, listener, childVars, pipeVars, osVars>>

WaitPlain(c) ==
  /\ caller[c] = "plain" /\ proc[c] = "gone"
  /\ caller' = [caller EXCEPT ![c] = "refining"]
  /\ raw' = [raw EXCEPT ![c] = "Unknown"]
  /\ UNCHANGED <<monitors, owners, listener, exit_ch, sentinel_rx, cached,
                 answer, pipeVars, osVars>>

\* wait_plain() fails: the error is returned, nothing cached, and the call may
\* be repeated.
WaitPlainFails(c) ==
  /\ caller[c] = "plain"
  /\ caller' = [caller EXCEPT ![c] = "open"]
  /\ UNCHANGED <<monitors, owners, listener, childVars, pipeVars, osVars>>

\* Fault: a message means a clean exit, whatever the monitor has said.
RefineEverything(c) ==
  IF c \notin sentinel_rx THEN raw[c]
  ELSE IF reader[c] = "true" THEN "CleanExit" ELSE "ExternalKill"

\* refine_with_sentinel(): the verdict decides about Unknown exits only.
RefineWithSentinel(c) ==
  IF c \notin sentinel_rx \/ raw[c] # "Unknown" THEN raw[c]
  ELSE IF reader[c] = "true" THEN "CleanExit" ELSE "ExternalKill"

\* The verdict of the reader thread is taken, and waited for, even when the
\* reason does not depend on it; the result is cached and returned.
Refine(c) ==
  /\ caller[c] = "refining"
  /\ c \in sentinel_rx => reader[c] # "reading"
  /\ answer' = [answer EXCEPT ![c] = RefineWithSentinel(c)]
  /\ cached' = [cached EXCEPT ![c] = RefineWithSentinel(c)]
  /\ sentinel_rx' = sentinel_rx \ {c}
  /\ caller' = [caller EXCEPT ![c] = "open"]
  /\ UNCHANGED <<monitors, owners, listener, exit_ch, raw, pipeVars, osVars>>

\* Drop for WorrywartChild.
DropChild(c) ==
  /\ caller[c] = "open"
  /\ caller' = [caller EXCEPT ![c] = "dropped"]
  /\ UNCHANGED <<monitors, owners, listener, childVars, pipeVars, osVars>>

-----------------------------------------------------------------------------
(* The monitor threads and the sentinel threads.                           *)

\* Fault: an exit that is no crash is taken for a clean one.
ReportGuessing(c, r) ==
  /\ exit_ch[c] = "open" /\ proc[c] \in {"ended", "gone"} /\ r = "Unknown"
  /\ exit_ch' = [exit_ch EXCEPT ![c] = "CleanExit"]
  /\ UNCHANGED <<monitors, caller, owners, listener, raw, sentinel_rx, cached,
                 answer, pipeVars, osVars>>

\* The end of a child is reported; the pump also reports RIP of a running one.
Report(c, r) ==
  /\ exit_ch[c] = "open"
  /\ \/ proc[c] \in {"ended", "gone"} /\ r \in {"Unknown", "Crash"}
     \/ Debug(c) /\ Running(c) /\ r = "ExternalKill"
  /\ exit_ch' = [exit_ch EXCEPT ![c] = r]
  /\ UNCHANGED <<monitors, caller, owners, listener, raw, sentinel_rx, cached,
                 answer, pipeVars, osVars>>

\* The listener ends, and its senders with it: at an idle timeout, any time.
ListenerEnds ==
  /\ listener = "running"
  /\ listener' = "done"
  /\ exit_ch' = [c \in Child |->
       IF ByJob(c) /\ exit_ch[c] = "open" THEN "closed" ELSE exit_ch[c]]
  /\ UNCHANGED <<monitors, caller, owners, raw, sentinel_rx, cached, answer,
                 pipeVars, osVars>>

\* Fault: the sentinel thread does not wait for the end of the pipe.
ReaderEndsWithChild(c) ==
  /\ reader[c] = "reading" /\ c \notin holds[c] /\ Parent \notin holds[c]
  /\ reader' =
       [reader EXCEPT ![c] = IF c \in announced THEN "true" ELSE "false"]
  /\ UNCHANGED <<monitors, caller, owners, listener, childVars, holds,
                 announced, osVars>>

\* The sentinel thread has read to the end of the pipe, which comes when no
\* process has the write end, and sends whether it has seen a message.
ReaderEnds(c) ==
  /\ reader[c] = "reading" /\ holds[c] = {}
  /\ reader' =
       [reader EXCEPT ![c] = IF c \in announced THEN "true" ELSE "false"]
  /\ UNCHANGED <<monitors, caller, owners, listener, childVars, holds,
                 announced, osVars>>

-----------------------------------------------------------------------------
(* The processes.                                                          *)

\* p writes the sentinel message to the handle its environment names, the one
\* of the child it descends from.
Announce(p, c) ==
  /\ Running(p) /\ under[p] = c /\ p \in holds[c]
  /\ announced' = announced \cup {c}
  /\ UNCHANGED <<monitors, caller, owners, listener, childVars, holds, reader,
                 osVars>>

\* p starts a process, which inherits all the write ends p holds, or none.
StartHeir(p, h, inherit) ==
  /\ Running(p) /\ proc[h] = "none" /\ under[h] = under[p]
  /\ proc' = [proc EXCEPT ![h] = "running"]
  /\ holds' = [c \in Child |->
       IF inherit /\ p \in holds[c] THEN holds[c] \cup {h} ELSE holds[c]]
  /\ UNCHANGED <<monitors, caller, owners, listener, childVars, reader,
                 announced, under>>

\* p exits, or is killed: by WorrywartChild::kill() or by anyone.
End(p) ==
  /\ Running(p)
  /\ proc' = [proc EXCEPT ![p] = "ended"]
  /\ UNCHANGED <<monitors, caller, owners, listener, childVars, pipeVars, under>>

\* The kernel closes the handles of p and signals its end.
Rundown(p) ==
  /\ proc[p] = "ended"
  /\ proc' = [proc EXCEPT ![p] = "gone"]
  /\ holds' = [c \in Child |-> holds[c] \ {p}]
  /\ UNCHANGED <<monitors, caller, owners, listener, childVars, reader,
                 announced, under>>

-----------------------------------------------------------------------------
SpawnStep(c) ==
  \/ GiveUp(c) \/ CreatePipe(c) \/ CreateProcess(c) \/ CreateProcessFails(c)
  \/ StartFails(c) \/ SpawnReturns(c) \/ CloseWriteEnd(c) \/ CloseFails(c)

\* What a call of wait_diagnosed() that does not fail goes on with.
WaitStep(c) == Receive(c) \/ FallBack(c) \/ WaitPlain(c) \/ Refine(c)

MonitorStep(c) ==
  ReaderEnds(c) \/ \E r \in MonitorReason : Report(c, r)

ProcessStep(p) ==
  \/ End(p) \/ Rundown(p)
  \/ \E c \in Child : Announce(p, c)
  \/ \E h \in Heir, inherit \in BOOLEAN : StartHeir(p, h, inherit)

Next ==
  \/ DropRoot \/ ListenerEnds
  \/ \E c \in Child :
       \/ SpawnStep(c) \/ AnswerFromCache(c) \/ CallWait(c) \/ WaitStep(c)
       \/ WaitPlainFails(c) \/ DropChild(c) \/ MonitorStep(c)
  \/ \E p \in Process : ProcessStep(p)

Spec == Init /\ [][Next]_vars

\* A child that has ended is reported, or loses its channel with the thread:
\* what WaitReturns of DebugPump and of IocpListener rests on.
Resolve(c) ==
  /\ exit_ch[c] = "open" /\ proc[c] \in {"ended", "gone"}
  /\ \/ \E r \in MonitorReason : Report(c, r)
     \/ ByJob(c) /\ ListenerEnds

\* Calls of wait_diagnosed() and the threads go on, and the kernel finishes
\* what has ended.  Nobody has to spawn, to wait, to exit or to be dropped.
Fairness ==
  /\ \A c \in Child :
       WF_vars(WaitStep(c)) /\ WF_vars(ReaderEnds(c)) /\ WF_vars(Resolve(c))
  /\ \A p \in Process : WF_vars(Rundown(p))

FairSpec == Spec /\ Fairness

-----------------------------------------------------------------------------
(* Safety.                                                                 *)

\* Every variable has the values the types of the program allow.
TypeOK ==
  /\ monitors \in [Child -> SUBSET Monitor]
  /\ caller \in [Child -> CallerState]
  /\ owners \subseteq Owner
  /\ listener \in {"none", "running", "done"}
  /\ exit_ch \in [Child -> MonitorReason \cup {"none", "open", "closed"}]
  /\ raw \in [Child -> MonitorReason \cup {"none"}]
  /\ sentinel_rx \subseteq Child
  /\ cached \in [Child -> Reason \cup {"none"}]
  /\ answer \in [Child -> Reason \cup {"none"}]
  /\ holds \in [Child -> SUBSET (Process \cup {Parent})]
  /\ reader \in [Child -> {"none", "reading", "true", "false"}]
  /\ announced \subseteq Child
  /\ proc \in [Process -> {"none", "running", "ended", "gone"}]
  /\ under \in [Process -> Child \cup {Parent}]

\* What wait_diagnosed() says of a sentinel child stays true, whatever other
\* spawns and the child's own descendants do with the write end: CleanExit
\* means that the message was written, ExternalKill (unless the pump itself
\* has reported it) that it was not and never will be, and Unknown is what
\* only a child without a sentinel is told.  A Crash is never refined.
VerdictIsTrue ==
  \A c \in Child :
    /\ answer[c] = "CleanExit" =>
         Sentinel(c) /\ raw[c] = "Unknown" /\ c \in announced
    /\ answer[c] = "ExternalKill" /\ raw[c] # "ExternalKill" =>
         Sentinel(c) /\ raw[c] = "Unknown" /\ c \notin announced
    /\ answer[c] = "Unknown" => ~Sentinel(c)

(* The write ends and the answers, by parts; with TypeOK they are inductive. *)

\* The parent has a write end only during the spawn() that made the pipe, or
\* after that call has failed.
ParentHoldsInFlight ==
  \A c \in Child :
    Parent \in holds[c] =>
      caller[c] \in {"piped", "created", "spawned", "failed"}

\* The reader thread of a pipe outlives every holder of its write end, so that
\* its verdict on the messages is final.
ReaderOutlivesHolders ==
  \A c \in Child :
    /\ holds[c] # {} => reader[c] = "reading"
    /\ reader[c] = "true" => c \in announced
    /\ reader[c] = "false" => c \notin announced
    /\ caller[c] = "idle" => reader[c] = "none"
    /\ caller[c] \notin {"idle", "failed"} =>
         (Sentinel(c) <=> reader[c] # "none")

\* A call of wait_diagnosed() that is under way is the first to get as far,
\* and has the sentinel's receiver; later calls have the reason in the cache.
AnswerIsCached ==
  \A c \in Child :
    /\ caller[c] \in {"idle", "piped", "created", "spawned", "waiting",
                      "plain", "refining"} => answer[c] = "none"
    /\ cached[c] = answer[c]
    /\ caller[c] \in {"open", "waiting", "plain", "refining"}
         /\ answer[c] = "none" => (Sentinel(c) <=> c \in sentinel_rx)
    /\ caller[c] = "refining" => raw[c] # "none"
    /\ c \in sentinel_rx => Sentinel(c)
    /\ Sentinel(c) /\ answer[c] # "none" => reader[c] \in {"true", "false"}

WriteEnds ==
  /\ ParentHoldsInFlight /\ ReaderOutlivesHolders
  /\ AnswerIsCached /\ VerdictIsTrue

\* However often wait_diagnosed() is called, and although it takes the cached
\* reason and the sentinel's receiver away, what it has returned stays.
DiagnosisIsStable ==
  [][\A c \in Child : answer[c] # "none" => answer'[c] = answer[c]]_vars

-----------------------------------------------------------------------------
(* Liveness, under FairSpec.                                               *)

InWait(c) == caller[c] \in {"waiting", "plain", "refining"}

\* A call of wait_diagnosed() returns once the child and everybody who still
\* has the write end of its pipe have ended, whichever monitors are asked for
\* and whether or not the monitor threads are still there.
WaitReturns ==
  \A c \in Child :
    (/\ InWait(c) /\ proc[c] \in {"ended", "gone"}
     /\ \A p \in holds[c] \cap Process : ~Running(p)) ~> ~InWait(c)

\* Dropping the Worrywart and its commands releases the callers that wait for
\* monitored children: the job kills those who have the write end.  (Not one
\* that a plain spawn at the same time has let inherit it.)
DropReleasesWaiters ==
  \A c \in Child :
    (/\ InWait(c) /\ ~Plain(c) /\ owners = {}
     /\ \A p \in holds[c] \cap Process : InJob(p)) ~> ~InWait(c)

-----------------------------------------------------------------------------
(* What the documentation says and the code does not do.                   *)

\* wait_diagnosed(): once the child is dead, sentinel_rx resolves promptly,
\* because the child held the only remaining copy of the write end.
SentinelResolves ==
  \A c \in Child :
    (caller[c] = "refining" /\ proc[c] = "gone") ~> caller[c] # "refining"
=============================================================================
