# worrywart: specifications, checks and proofs

`worrywart` starts child processes on Windows and tells its user why each of
them ended: cleanly, by a crash, by a fast-fail, or killed from outside.  This
directory holds TLA+ modules of its concurrent core, the TLC configurations
that check them on small instances, and theorems about them that the TLA+ proof
system checks for every instance.

Paths below are relative to `src/crates/worrywart/src/`.

## 1. The system

| Part | State it keeps | Operations | Interacts with |
|---|---|---|---|
| `Worrywart`, `WorrywartCommand` (`core.rs`) | shared `Arc`s of the pump, the job and the listener, dropped in that order | `command()`, `spawn()`, drop | starts pump and listener on first use, under their mutexes; the last drop shuts them down |
| `WorrywartChild` (`core.rs`) | process handle, `exit_rx`, `sentinel_rx`, cached reason | `wait_diagnosed()`, `wait()`, `kill()`, drop | receives one result; falls back to `wait_plain()` when its channel closes |
| Debug pump (`pump.rs`) | mailbox, `HashMap<pid, ChildEntry>` | spawn, shutdown, one arm per debug event | the debug API of the kernel; the exit channels of the children |
| IOCP listener (`iocp.rs`) | registrations, `waiters`, `pending` | register, exit notification, timeout, shutdown, drain | the job's completion port; the exit channels |
| Job object (`core.rs`) | the processes in it | assignment at creation, kill on close | the listener's port |
| Sentinel (`sentinel.rs`, `core.rs`) | pipe ends, bytes read so far | create, read a frame, report at EOF | every child created while the write end is open; `refine_with_sentinel()` |
| Environment block, command line (`core.rs`) | none | pure | what `CreateProcessW` is given |
| Compat layer (`compat.rs`) | none of its own | delegates to `tokio::process` | nothing |

### What is hard about it

- *Threads.*  Any number of user threads spawn, wait, kill and drop; one pump
  thread and one listener thread serve them all; one thread per sentinel.
- *Ordering.*  A child runs before the parent has registered it.  Exit events,
  registrations, kills, drops and shutdown messages meet in any order.
- *Blocking.*  The pump blocks on its mailbox when it tracks nobody, and for at
  most 10 ms on a debug event when it does; it sends on channels of capacity 1;
  the last owner joins it.
- *Identity.*  Handles and pids are values that Windows gives out again.
- *Loss.*  Notifications of a job are not guaranteed; those of a child that ended
  before the port was associated do not exist.

`PROJECT.json` lists each hazard at its line, with the properties that cover it.

### What makes the parts correct

- Pump: every accepted request is answered; every child is tracked or reported
  and never both; a report agrees with what the child did; the affinity mask is
  in place before the child runs code; shutdown ends; no debuggee is forgotten.
- Listener: registration and notification always meet; a waiter is told about
  its own child and only after its end; a lost notification does not hang the
  waiter; shutdown ends and comes after the job is closed.
- Sentinel: what is told of a clean exit is true whoever has got hold of the write end;
  a frame is recognised however it is cut; a wait ends.
- `wait_diagnosed()`: called again, it says the same.
- Pure functions: the block and the line are read back by Windows as what the
  builder was given.

## 2. Modules

```
ExitReport        <- refined by -  DebugPump        (the debug path)
                  <- refined by -  IocpListener     (the job path)
                  <- relied on by  Spawn            (all paths, sentinels, several spawns)
Command, FrameReader  - composed in -> SentinelMessage
```

`DebugPump` and `IocpListener` each have a monitor thread in full.  `Spawn` has
what lies over them, and of the threads only what `ExitReport` and the two
`WaitReturns` say.  `SentinelMessage` follows the bytes `Spawn` takes as whole
messages.

### `ExitReport.tla`: what a monitor thread promises

The abstract specification both threads are shown to implement: a spawn hands a
sender over; the thread uses it at most once, on a free channel; the waiter gets
what was sent, and falls back to asking the process only when the thread has ended.
The refinement mapping is at the end of each module: `Stage` reads off where the
caller is, `Senders` is the set of children whose sender is somewhere: in the
mailbox, the map, the registrations, or the buffer of waiters.  A waiter falls back only
after the end of the thread, so the refinement is lost as soon as a sender is dropped
by a thread that goes on, or used twice.

### `DebugPump.tla`: the debug pump and its callers

One module holds the two sides of the protocol, since every property is about
both.

| In the module | In the code |
|---|---|
| `caller[o]` | where the thread using a `Worrywart`, command or child is |
| `refs`, `lock` | `Arc<Mutex<Option<Pump>>>`: strong count, and the guard held |
| `reply[c]` | the `resp` channel of a request (`pump.rs:174`) |
| `pump`, `mailbox` | program counter and `rx` of `pump_loop` |
| `children`, `past_loader_bp`, `pending_exception`, `process_handle` | the map and the fields of its `ChildEntry`s |
| `current`, `continue_status` | the `DEBUG_EVENT` taken and what `dispatch_event` returned |
| `exit_ch`, `result` | the exit channel of a child, and the return of `wait_diagnosed()` |
| `proc`, `debugQueue` | the kernel: life of the processes, events not yet reported |
| `affinity`, `raised`, `cause` | which processes got a mask; history used by properties only |

Actions follow the code: `SendSpawn` is `spawn_debug()` up to the send, with the
mutex held from there to `ReceiveReply`; `ReleasePump` and `JoinPump` are the two
halves of `Drop for Pump`; `PumpSpawn`, `PumpSpawnFails`, `PumpShutdown`,
`PumpNoMessage`, `PumpTimeout`, the `Dispatch...` actions (one per arm of
`dispatch_event`) and `PumpContinue` are the steps of `pump_loop`, which has a
state between the dispatch and `ContinueDebugEvent`, because the result is
sent before the process is continued.

The environment is the kernel's debug API: a process stops at its loader
breakpoint, raises first- and second-chance exceptions, stops at other events,
starts descendants (which `DEBUG_PROCESS` makes debuggees of the same thread,
though not entries of the map), exits, or is killed by `WorrywartChild::kill()` or by
anybody else.  Facts about Windows the model relies on: a stopped process reports
its exit only once its events have been continued; debug events are reported in
the order they occur; a second-chance exception continued as not handled ends the
process; `ntdll` survives its own loader breakpoint whatever the status; debuggees
die with the thread that debugs them; a closed handle's value may be used again.

Two simplifications.  A process is identified with its pid, since the debug port
keeps the pid until the pump has forgotten it.  The error branch of `rx.recv()`
(`pump.rs:207`) is absent: `Drop for Pump` sends `Shutdown` before its sender goes.

### `IocpListener.tla`: the listener, the job, and their callers

| In the module | In the code |
|---|---|
| `caller[o]`, `spawned` | where the thread is; whether `spawn()` returned a child |
| `jobRefs`, `iocpRefs`, `lock` | the `Arc`s of job and listener, and the guard |
| `listener`, `port`, `rx` | program counter of `iocp_loop`, the port's queue, the registrations |
| `waiters`, `pending` | its two maps, by pid |
| `exit_ch`, `result` | as above |
| `proc`, `pid` | life of the processes, and the pid each was given |

Here a process and its pid are two things, because the listener knows pids only.
`ExitCodeOf` is `get_exit_code()`: it asks whoever has the pid at that moment.
An exit code is represented by the process it belongs to.  `AfterTimeout` is what
`iocp_loop` does after an idle 10 ms: `key` has kept the 0 it was initialised to,
`SHUTDOWN_KEY` is 0 and is tested first, so the listener drains and ends.
`CreateProcess` comes before `StartIocp`, as in `spawn_job_monitored()`; the
owners drop the job before the listener, as the order of the fields says.
`Stranger` stands for the processes of the job that nobody registers: what
children start, and the children of the debug pump, which join the same job.
`LossyJob` allows an exit without a notification, `PidReuse` a pid given out
again once no process and no open handle holds it.

### `Spawn.tla`: all paths of `spawn()` and `wait_diagnosed()`, and the sentinel pipes

| In the module | In the code |
|---|---|
| `monitors`, `caller` | `WorrywartCommand::monitors`; where each thread is in `spawn()` and `wait_diagnosed()` |
| `owners`, `Release` | the `Arc`s of `Worrywart` and its commands; what the last drop does |
| `exit_ch`, `raw` | `exit_rx`, and what came out of it or of `wait_plain()` |
| `sentinel_rx`, `cached`, `answer` | the two `Option`s of `WorrywartChild`, and what it returned last |
| `holds[c]` | the processes, the parent included, that have the write end of `c`'s pipe |
| `reader[c]`, `announced` | the sentinel thread; the pipes a message was written to |
| `proc`, `under` | life of the processes; the child each descends from |

`CreatePipe`, `CreateProcess`, `SpawnReturns` and `CloseWriteEnd` are `spawn()` in
its order, each with its failure.  `CreateProcess` gives a child *every* inheritable
write end the parent has then: its own and those of other spawns under way.
Children may start processes that inherit further (`StartHeir`).
`RefineWithSentinel` and `Refine` are `refine_with_sentinel()`, which blocks until
the reader has ended; `AnswerFromCache` is every later call.

Simplifications.  `sentinel::create()` is one step: it leaves all or nothing.
`FastFail` behaves as `Crash` here.  Messages are whole and reads succeed;
`SentinelMessage` has the rest.  A monitor thread reports a reason only for a child
that has ended, except that the pump may report `ExternalKill` of a running one
(a RIP event).  The pump ends when its last owner is dropped, the listener at any time.

### `FrameReader.tla`: the sentinel thread

`sentinel_thread()`, one `ReadFile()` per step, of any length that fits: `offset`, `buf`
and `received` are its locals, `written` and `taken` the pipe.  `ReaderFails` is the
failing read, and the read of an empty message, which the code takes for the end.

### `Command.tla`: the builder, the command line, the environment

The builder's calls in any order, then `spawn()` up to what `CreateProcessW` is
given.  `QuoteArg` and `BuildEnvBlock` are the code; `ReadBack` is how the C runtime
of the child splits the line, `Lookup` how Windows looks up a variable,
`StdEnvironment` what `std::process::Command` does with the same calls on the plain path.
`wanted` is what the calls ask for in the words of `std`.  Names are sequences of UTF-16
units, since the order of units between `Z` and `a` is where folding to upper or lower
case differs.

The loops of the code (`Loop`) are recursive functions of the position in what they run over,
so that the proofs can follow every iteration.  `OneSpelling(n)` says that among the names the
child may find, one at most is `n` up to case: elsewhere the block has two variables that Windows
takes for one (§5).

### `SentinelMessage.tla`: a message from builder to verdict

Composes the two: the child looks its handle up in the environment `Command` has built,
writes to it as `helper_sentinel.rs` does, among other writers, and the
thread of `FrameReader` reads.  The other writers write anything but the message itself
(`ChatterAssumption`): whoever else has the write end may be any program, and one that writes the
message on behalf of the child is believed, as it has to be.

### `MCDebugPump.tla`, `MCIocpListener.tla`, `MCSpawn.tla`, `MCSentinelMessage.tla`

The instances for TLC: model values, the symmetry of the safety runs, the scenarios
of `Spawn`, and the strings and environments of `Command`.  In the first two, children
with the same affinity setting, handle values, calls and pids are interchangeable,
since no definition names one of them.

### `DebugPumpProofs.tla`, `IocpListenerProofs.tla`, `SpawnProofs.tla`, `FrameReaderProofs.tla`, `CommandProofs.tla`, `SentinelMessageProofs.tla`

The theorems about each module, in a module of their own; the last extends the two before it.  `DebugPumpDiagnosisProofs.tla`
and `IocpDiagnosisProofs.tla` extend the first two by the theorems about what a waiter
is told, which rest on the hand-over.

Definitions commented `Fault:` are plausible mistakes in the action after them.  No
behaviour uses them: put in the place of that action, each must make a property
fail, which is how the properties were tested.

## 3. Runs

| Run | Instance | Shows |
|---|---|---|
| `pump_safety` | 2 children, 2 handle values, 2 codes (a crash and a fast-fail), RIP, one stop per process | `TypeOK`, `TrackedMeansUnreported`, `NoCallerFindsPumpGone`, `DiagnosisMatchesHistory`, `AffinityBeforeUserCode`, `FallBackOnlyWithoutPump`, `HandOver`, `NewsIsTrue` |
| `pump_tree` | 1 child, 1 descendant, 2 stopped threads per process, breakpoints as exceptions, RIP | `TrackedMeansUnreported`, `DiagnosisMatchesHistory` where events of one process pile up behind each other |
| `pump_live` | 2 children producing events for ever, weak fairness | `SpawnReturns`, `DropReturns`, `WaitReturns`, `ImplementsExitReport` |
| `pump_stall` | 1 child, 1 descendant, weak fairness | finding: `EveryDebuggeeServiced` fails |
| `pump_reuse` | 2 children, one with a mask | finding: `AffinityOnlyWhereAsked` fails |
| `iocp_safety` | 2 calls, 1 stranger, 3 pids, no reuse, notifications may be lost | `TypeOK`, `RegistrationMeetsExit`, `ReportOnlyAfterExit`, `DiagnosisIsOwn`, `FallBackOnlyWithoutListener`, `ShutdownAfterJobClosed`, `RegisteredMeansUnreported`, `HandOver`, `NewsIsTrue` |
| `iocp_live` | 1 call, 1 stranger, notifications may be lost, weak fairness | `WaitReturns`, `DropReturns`, `ImplementsExitReport` |
| `iocp_timeout` | 1 call | finding: `ListenerEndsOnlyOnShutdown` fails |
| `iocp_reuse` | 2 calls, 1 stranger, 2 pids that are reused | finding: `ReportOnlyAfterExit` fails |
| `spawn` | 2 spawns, 1 process a child starts, six choices of monitors, weak fairness | `TypeOK`, `VerdictIsTrue`, `WriteEnds`, `DiagnosisIsStable`, `WaitReturns`, `DropReleasesWaiters` |
| `spawn_shared` | 2 spawns with a sentinel, weak fairness | finding: `SentinelResolves` fails |
| `sentinel_message` | 3 builder calls, 20 bytes in the pipe, weak fairness | `MessageTypeOK`, `ArgumentsReadBack`, `EnvironmentAsWanted`, `BlockIsSorted`, `VerdictIsExact`, `CleanExitIsTold`, `VerdictComes` |

*Deadlock* is not checked: once every owner and child is dropped nothing has to
happen any more.  That a caller is never stuck is what the liveness properties say.

*Bounds.*  `MaxBlocked` bounds the threads of one process stopped at once; the
queue of events is bounded by it.  Two children are the least with which one
caller can be in `spawn()` while another drops or waits, and with which one
child's handle value can become another's; with the owner of the `Worrywart` they
make three threads beside the pump.  Two handle values let both children live
at once and still allow reuse.  One crash code and one fast-fail code are the
two classes `classify_exit()` tells apart; `BREAKPOINT` as a code a child raises
is a class of its own for the loader breakpoint, so `pump_tree` has it.  Every
call and every process happens once: a thread calling `spawn()` twice is two
children.  In `spawn`, two pipes are enough for one child to hold the other's write end,
and one heir for it to be held by somebody no `spawn()` has created; the scenarios pair every
path with a sentinel beside it.  In `sentinel_message`, the first argument ranges over all
strings of up to four of backslash, quote, blank and a letter, enough for two backslashes before
a quote inside an argument with a blank, or at its end; later arguments are those that
could be mistaken for a part of their neighbour; the five names include two that differ
in case, and two that folding to upper and to lower case would sort differently; one
parent environment has the sentinel's variable already.  Three calls are set, remove,
set again.  `MaxBytes` is two and a half messages: one may be cut off, displaced or
come after another.

*Fairness.*  Weak fairness of the pump thread and of the listener thread as a
whole (they run a loop, and the scheduler runs them); of each caller inside a
call that can go on; of the kernel finishing what it started with a process.
Nobody has to call `spawn()` or `wait_diagnosed()`, to drop anything, to exit or
to stop raising events.  Weak fairness is enough.  Where a thread waits for a
channel, a join or a process, nobody else can take from it what it waits for: its
step stays enabled until it takes it.  Where it waits for a mutex, others may take
the mutex first, but each call takes it once, so that it is free for good in the
end; and nobody is promised that `spawn()` ever gets it: `SpawnReturns` begins
where the request has been sent.

In `Spawn`, fairness is that of a call that is in `wait_diagnosed()`, of the sentinel threads,
of the kernel closing the handles of what has ended, and of `Resolve`: a child that has
ended is reported or loses its channel, which is what `WaitReturns` of `DebugPump` and
of `IocpListener` have shown of the threads.  `VerdictComes` needs the sentinel
thread to be scheduled, and nobody to close the pipe.

## 4. Proofs

`DebugPumpProofs.tla`, for any finite or infinite set of children, descendants, handle
values and codes, and any `MaxBlocked`, from the single assumption `PumpAssumption`
(the identities are distinct, and a code differs from "no exception"):

| Theorem | Says |
|---|---|
| `TypeCorrect` | `[]TypeOK` |
| `HandOverCorrect` | `[]HandOver` |
| `PumpNeverBlocks` | `[]TrackedMeansUnreported` |
| `NoCallerFindsPumpGoneEver` | `[]NoCallerFindsPumpGone` |
| `FallBackIsLast` | `[]FallBackOnlyWithoutPump` |
| `Refinement` | `ImplementsExitReport` |
| `NewsIsTrueEver` | `[]NewsIsTrue` |
| `AffinityIsSetInTime` | `[]AffinityBeforeUserCode` |
| `DiagnosisIsOfThisChild` | `[]DiagnosisMatchesHistory` |

The three invariants before the refinement are not inductive.  That the pump cannot
block on a full channel needs that a request is answered once; that needs that the request in the mailbox is
the one of the caller holding the mutex; that, and that nobody finds the pump gone,
need that whoever spawns holds a reference, so that no `Shutdown` can be ahead of
it.  `HandOver` is the conjunction that closes this circle:

1. `OwnersHoldThePump`: whoever may still spawn, or is spawning, is in `refs`;
2. `SenderHoldsTheLock`: a caller between request and reply holds the mutex;
3. `MailboxHoldsOne`: the mailbox is empty, or holds the request of that caller, or the
   `Shutdown` of the last owner, never two messages;
4. `PumpEndsUnowned`: an ended pump has no owner and no children;
5. `ReplyBeforeChild`: before the `Ok` of the pump there is nothing to track or report;
6. `TrackedOrReported`: a child nobody has diagnosed or dropped is tracked or reported;
7. `TrackedMeansUnreported` and `FallBackOnlyWithoutPump` themselves.

`TypeOK` is inductive by itself; `HandOver` is inductive under it.  Each step of the
proof is one action of the module; `pump_safety` checks `HandOver` on the small
instance too.

The last three theorems of the table are in `DebugPumpDiagnosisProofs.tla`.  What a waiter
is told, and when the mask is set, depends on what the pump has read so far of a queue
of events that may name processes it does not track.  `NewsIsTrue` follows the news on
its way, and is inductive under `TypeOK` and `HandOver`:

1. `ProcessHistory`: a child has a process, and then events, from the `Ok` on; once an
   exception has ended it, its code is recorded as long as the child is tracked;
2. `EventsAreTrue`: every queued event tells what its process has done: an exit event is
   of a process that has ended, a second-chance code was raised, and a process at its
   loader breakpoint has that one event in the queue and no other;
3. `LoaderWindow`: up to that breakpoint a child is tracked and unmarked, so that the event
   is taken for what it is; once taken, the mask is set;
4. `FatalIsRecorded`: the code is in the entry before `ContinueDebugEvent` ends the process;
5. `ReportsAreTrue`: what is in a channel, or was told, agrees with the child and will:
   neither what was raised nor an exit is ever taken back.

`IocpListenerProofs.tla`, for any sets of calls, strangers and pids, with and without
reuse of pids and loss of notifications, from `IocpAssumption` (the identities are
distinct, the two switches are Boolean):

| Theorem | Says |
|---|---|
| `TypeCorrect` | `[]TypeOK` |
| `HandOverCorrect` | `[]HandOver` |
| `RegistrationNeverMissesExit` | `[]RegistrationMeetsExit` |
| `ListenerNeverBlocks` | `[]RegisteredMeansUnreported` |
| `FallBackIsLast` | `[]FallBackOnlyWithoutListener` |
| `ShutdownIsLast` | `[]ShutdownAfterJobClosed` |
| `Refinement` | `ImplementsExitReport` |
| `NewsIsTrueEver` | without reuse of pids, `[]NewsIsTrue` |
| `ReportIsNeverEarly` | without reuse of pids, `[]ReportOnlyAfterExit` |
| `DiagnosisIsOwnEver` | without reuse of pids, `[]DiagnosisIsOwn` |

Here even the types are not inductive alone: `waiters` maps a pid to the child that
has it, which holds because a child is registered only after it was given its pid.
Types and hand-over are proved together (`Inductive`), and `HandOver` has two parts:

- `Drops`: who holds job and listener is read off where the owners are
  (`RefsAsHeld`), and a closed job takes nobody in (`ClosedJobIsEmpty`); hence
  `ShutdownAfterJobClosed`.
- `Registrations`: a child is registered once and only while the listener lives
  (`RegisteredOnce`).  `waiters.insert()` may replace another child's sender, and
  the point is that this child was dropped: its pid can only have been given out
  again when its handle was closed (`OnePidOneHandle`), so whoever was registered
  before under the same pid is finished (`RegisteredInOrder`).  Hence a waiter that
  matters is never replaced (`RegisteredOrReported`), its channel closes only with
  the listener (`FallBackOnlyWithoutListener`), and one that is still registered has
  been sent nothing (`RegisteredMeansUnreported`).

`IocpDiagnosisProofs.tla` has the last three, from the same assumption and `~PidReuse`
(`iocp_reuse` shows that `ReportOnlyAfterExit` fails without it).  `NewsIsTrue` is inductive under the
invariants above, and follows a result from the process to its waiter:

1. `PidsIdentify`: a pid names one process, for good;
2. `PacketsAreTrue`: an exit packet in the port names a process that has ended so;
3. `BufferIsTrue`: so does a result kept for a child that has not registered yet;
4. `ReportsAreTrue`: what a waiter finds in its channel, or was told, is of its own child.

`Refinement` is proved in both modules in the same way: the initial state maps to the
initial state, and each action maps, under `TypeOK` and `HandOver`, to an action of
`ExitReport` or to a stutter.  Where a sender is dropped, `HandOver` says that its child is
dropped too (`Forget`) or that the thread ends (`End`); where one is used, it says
that the channel is free (`Report`).

`SpawnProofs.tla`, for any sets of children, descendants and scenarios, from
`SpawnAssumption` (the identities are distinct, the scenarios are what they should be):

| Theorem | Says |
|---|---|
| `TypeCorrect` | `[]TypeOK` |
| `WriteEndsCorrect` | `[]WriteEnds` |
| `VerdictIsTrueEver` | `[]VerdictIsTrue` |
| `DiagnosisIsStableEver` | `DiagnosisIsStable` |

`VerdictIsTrue` speaks of what was told once and must stay true: `ExternalKill` says that no
message will ever come.  It is inductive only with

1. `ParentHoldsInFlight`: the parent has a write end only while its `spawn()` runs, or after
   it has failed, so nobody can inherit it later;
2. `ReaderOutlivesHolders`: while anybody has a write end its reader has not ended, so
   that no message follows a verdict;
3. `AnswerIsCached`: a call that refines is the first to get as far, has the receiver of the
   verdict, and when a sentinel child was answered the reader had ended.

`WriteEnds` is their conjunction with `VerdictIsTrue`, inductive under `TypeOK`, and
checked by `spawn` too.  `DiagnosisIsStable` follows from `AnswerIsCached`: what is
answered is cached, and what is cached is what is answered again.

`FrameReaderProofs.tla`, for any bytes, magic, writes and bound, from `FrameAssumption`:

| Theorem | Says |
|---|---|
| `TypeCorrect` | `[]TypeOK` |
| `VerdictIsExactEver` | `[]VerdictIsExact` |

The invariant is that of the loop: `FrameInBuffer` says that the buffer holds the frame
that was begun, at its place in the pipe; with it, a frame that becomes complete
is looked at as it was written.

`CommandProofs.tla`, for any characters, programs, arguments, names, values, environments and number
of calls, from `CommandAssumption` (the characters the code looks for are characters; the names of
variables are ASCII, as `upper_wide()` expects; a program is the name of a file, without quotes and
not ending in a backslash where it has to be quoted; "no value" is no value):

| Theorem | Says |
|---|---|
| `CommandTypeCorrect` | `[]CommandTypeOK` |
| `ReadsBackArguments` | `[]ArgumentsReadBack` |
| `ReadsWantedEnvironment` | `[]EnvironmentAsWanted` |
| `SortsBlock` | `[]BlockIsSorted` |

What a loop computes for data of any length needs induction over the data, and the induction
theorems of the library cannot be used here, as they take an operator.  The proofs do without: the
induction hypothesis is a *set* of naturals (`NatInduct`, `UpToInduct`), and the principle follows
from the well-foundedness of `<`, which the library states for sets.  `LoopExists` and `LoopInvariant`
use it once for all loops: there is a function of the states of a loop, and what each step preserves
holds of all of them.  On these rest:

1. The line.  `Reads(p, s, q)` says that the runtime, in state `p`, gets to `q` over the string
   `s`; two strings are read one after the other (`ReadsTwo`).  The invariant of the loop of
   `quote_arg()` is `Written`: what is written so far is read as the argument so far, short of the
   backslashes that are held back (`QuoteCharReads`).  So one argument is read as it is
   (`ArgReads`), then the line as the program and all arguments in order (`LineReads`,
   `ReadBackIs`).
2. The order.  `Before` is a strict total order of the names (`BeforeTotal`, `BeforeOneWay`,
   `BeforeTransitive`).  In a total order the ranks of N elements are 1 to N, each once
   (`RanksFollow`); hence the block has every pair once, in order (`SortedIs`, `SortedInOrder`), and
   as the sort is stable a lookup finds in it what it finds in the pairs unsorted (`LookupSorted`).
3. The environment.  `WithoutLeaves` and `OverridingLookup` say what a lookup finds after
   the loops of `env_remove()` and `build_env_block()`: under a name with one spelling the last
   override, otherwise what was inherited, which is what `std` gives the child
   (`BlockReads`).

`EnvironmentAsWanted` speaks of the moment of `spawn()`.  It is inductive with `Building`, which says
of the time before that every name in `inherited` and `envs` is among those spelled, and that
for each of them with one spelling `std` would give the child, after the calls so far, what is wanted
or what `env_remove()` has left.

`SentinelMessageProofs.tla`, from `CommandAssumption`, `FrameAssumption` and `ChatterAssumption`, for
any bytes, writes and pieces:

| Theorem | Says |
|---|---|
| `MessageTypeCorrect` | `[]MessageTypeOK` |
| `CleanExitIsToldEver` | `[]CleanExitIsTold` |
| `PartsAreCorrect` | `[]` of `ArgumentsReadBack`, `EnvironmentAsWanted`, `BlockIsSorted`, `VerdictIsExact` in the composition |

The invariant `MessageInv` joins those of the two parts by

1. `ChildIsTold`: a child that is running was given the handle, if the name of the variable has one
   spelling (from `EnvironmentAsWanted`, as the last override is the handle's);
2. `PipeIsEmpty`: nothing is written before there is a child;
3. `FramesTell`: where all writes had the length of a frame, the pipe has carried whole frames,
   and one of them begins with the magic exactly if the child has had its say.

At the end of the pipe all of it has been taken, and by `VerdictIsExact` every frame was looked at as
it was written.  `FramesTell` needs that the write of the child succeeds: a reader that has failed has
closed the read end, which is why `CleanExitIsTold` asks for `thread = "eof"`.

Every invariant and every action property of the passing runs is thus proved, those of
the IOCP listener that need it under `~PidReuse`.  Only model-checked:

- liveness, which is beyond the prover: `SpawnReturns`, `DropReturns` and `WaitReturns` of the
  threads, `WaitReturns` and `DropReleasesWaiters` of `Spawn`, `VerdictComes`;
- the findings of §5, which are counterexamples.

## 5. Disagreements met

- *A descendant is stranded* (`pump_stall`).  With its last tracked child gone the pump
  blocks on its mailbox.  Descendants of its children are debuggees of the thread
  and stay stopped at their next event until somebody spawns again.
- *The affinity of a dropped child* (`pump_reuse`).  The pump uses a handle owned by the
  `WorrywartChild`.  Dropped before the loader breakpoint, the child runs without its
  mask, which is why `AffinityBeforeUserCode` excepts it; and if the value has been
  given to another child's handle, that child gets the mask.
- *The listener ends at its first idle 10 ms* (`iocp_timeout`).  The waiters fall back to the
  plain wait, and a crash is then diagnosed as `Unknown`.  `WaitReturns` of `iocp_live`
  rests on this: a waiter whose notification was lost is released because
  the listener ends.  A listener that kept looping would need another remedy, and
  that is the mutant that breaks the property.
- *A buffered exit outlives its pid* (`iocp_reuse`).  Results of processes nobody
  registers stay in `pending`; a later child with that pid is reported while it runs.
- *A sentinel is shared* (`spawn_shared`).  A child created while another `spawn()` has its
  write end open inherits that one too, and the caller waiting for the other child,
  which is dead, waits for both.  `WaitReturns` of `Spawn` therefore asks that all
  holders have ended.

Divergences without a run of their own:

- A RIP event is reported as `ExternalKill`, of children without a sentinel too, although
  `termination.rs:38` keeps that reason for those with one; the process may run on.
- `DESIGN-NOTES.md:433` asks for `DBG_CONTINUE` at every loader breakpoint;
  `dispatch_event` gives that of an untracked descendant `DBG_EXCEPTION_NOT_HANDLED`, which the
  `ntdll` of the descendant survives.
- `env_remove()` (`core.rs:188`) takes back what `env()` has added and never removes an
  inherited variable, as its namesake in `std` does; `RemovedInherited` is the exception
  `EnvironmentAsWanted` makes for it.
- An override that differs from the inherited name in case only (`core.rs:412`) leaves both in the
  block, and the inherited one may be found first; `OneSpelling` excepts it.
- A child without a sentinel of its own inherits a stale handle value from a parent that is a
  sentinel child (as with `std`).
- A `spawn()` that fails after `sentinel::create()` (`core.rs:246`) never closes the write
  end; its sentinel thread never ends.  Nobody waits for it.
- A plain child, created by `std` with inheritance always on, may take a write end out of the
  job: dropping the `Worrywart` does not end it, hence the exception in `DropReleasesWaiters`.
- An empty `WriteFile()` by anybody who has the write end ends the sentinel thread early
  (`sentinel.rs:127`): what is written later is not seen, hence `thread = "eof"` in
  `CleanExitIsTold`.

## 6. Not modelled

- The compat layer: it delegates to `tokio::process` and applies no monitor; it has no state.
- The crate's declarations and re-exports.
- The data of process creation: attribute list, start-up information, stdio,
  `current_dir()`; arguments and values with null characters.
- `exit_status()` and `wait()`, which turn a reason into an `ExitStatus`: pure, a match each.
- Exception addresses, exit code values, log messages.
- Reuse of the port's handle value by `Drop for Iocp` after the listener closed it.
- The instant in `sentinel::create()` in which the read end is inheritable
  (`sentinel.rs:77-84`): a child that inherits it can only keep a write from failing.
- The helper programs other than `helper_sentinel`, and the tests.

## 7. Plan

What is left to model: the monitor part of `Spawn` as an instance of `ExitReport`, with the receiver
of a dropped child kept apart from one that was used.
