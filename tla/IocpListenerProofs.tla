-------------------------- MODULE IocpListenerProofs --------------------------
(***************************************************************************)
(* Theorems about IocpListener, for any number of calls, other processes   *)
(* and pids, whether or not pids are reused and notifications lost.  The   *)
(* types and the hand-over are inductive together: a packet is well typed  *)
(* because its process was given a pid, and a waiter is filed under its    *)
(* child's pid because it was registered after that.                       *)
(***************************************************************************)
EXTENDS IocpListener, SequenceTheorems, TLAPS

JobPacket == [key : {"JOB_KEY"}, type : MessageType, pid : Pid]

\* A call is a process, and an owner other than the root.
LEMMA Identities ==
  /\ Call \subseteq Process /\ Call \subseteq Owner /\ Stranger \subseteq Process
  /\ Root \in Owner /\ Root \notin Call
  /\ Nobody \notin Call /\ Nobody \notin Process /\ Nobody \notin Pid
  BY IocpAssumption DEF Process, Owner

\* The packets the job posts, and the one Drop for Iocp posts.
LEMMA PacketType ==
  /\ \A n \in Pid, type \in MessageType : Packet(type, n) \in JobPacket
  /\ \A type, n : Packet(type, n) # Shutdown
  /\ Shutdown \notin JobPacket
  BY DEF Packet, JobPacket, Shutdown

\* What the listener sends is a reason, whoever has the pid.
LEMMA ClassifyExitType ==
  \A n, type : /\ ClassifyExit(n, type) \in TerminationReason
               /\ ClassifyExit(n, type) # Empty
<1>1. SUFFICES ASSUME NEW n, NEW type
               PROVE  /\ ClassifyExit(n, type) \in TerminationReason
                      /\ ClassifyExit(n, type) # Empty
  OBVIOUS
<1>2. ExitCodeOf(n) \in Process \cup {Nobody}
  BY DEF ExitCodeOf, Holder
<1>3. QED
  BY <1>2 DEF ClassifyExit, Reason, TerminationReason, Empty

\* Where the owner goes after the drops.
LEMMA AfterReleaseType ==
  \A o : AfterRelease(o) \in {"spawned", "finished"}
  BY DEF AfterRelease

\* A posted packet keeps the port well typed.
LEMMA PostedType ==
  ASSUME TypeOK, NEW packet \in JobPacket \cup {Shutdown}
  PROVE  Posted(packet) \in Seq(JobPacket \cup {Shutdown})
  BY DEF TypeOK, Posted, JobPacket

-----------------------------------------------------------------------------
(* Type correctness.                                                       *)

\* The initial state is well typed.
LEMMA TypeInit == Init => TypeOK
  BY Identities DEF Init, TypeOK, CallerState, ProcState

\* A step of a caller keeps the types; a child is given its pid before it is
\* registered.
LEMMA TypeCallerStep ==
  ASSUME TypeOK, Registrations, CallerStep
  PROVE  TypeOK'
<1> USE Identities DEF TypeOK, listenerVars, osVars, CallerState
<1>1. ASSUME NEW o \in Owner, GiveUp(o)
      PROVE  TypeOK'
  BY <1>1 DEF GiveUp
<1>2. ASSUME NEW o \in Owner, ReleaseJob(o)
      PROVE  TypeOK'
  BY <1>2 DEF ReleaseJob, ProcState
<1>3. ASSUME NEW o \in Owner, ReleaseIocp(o)
      PROVE  TypeOK'
  <2>1. port' \in Seq(JobPacket \cup {Shutdown})
    BY <1>3, PostedType DEF ReleaseIocp, JobPacket
  <2>2. caller' \in [Owner -> CallerState]
    BY <1>3, AfterReleaseType DEF ReleaseIocp
  <2>3. iocpRefs' \subseteq Owner
    BY <1>3 DEF ReleaseIocp
  <2>4. UNCHANGED <<spawned, jobRefs, lock, listener, waiters, pending, rx,
                    exit_ch, result, proc, pid>>
    BY <1>3 DEF ReleaseIocp
  <2>5. QED
    BY <2>1, <2>2, <2>3, <2>4 DEF JobPacket
<1>4. ASSUME NEW o \in Owner, JoinListener(o)
      PROVE  TypeOK'
  BY <1>4, AfterReleaseType DEF JoinListener
<1>5. ASSUME NEW c \in Call, CreateCommand(c)
      PROVE  TypeOK'
  BY <1>5 DEF CreateCommand
<1>6. ASSUME NEW c \in Call, StartIocp(c)
      PROVE  TypeOK'
  BY <1>6 DEF StartIocp
<1>7. ASSUME NEW c \in Call, StartFails(c)
      PROVE  TypeOK'
  BY <1>7 DEF StartFails
<1>8. ASSUME NEW c \in Call, Register(c)
      PROVE  TypeOK'
  BY <1>8 DEF Register
<1>9. ASSUME NEW c \in Call, NEW n \in Pid, CreateProcess(c, n)
      PROVE  TypeOK'
  <2>1. port' \in Seq(JobPacket \cup {Shutdown})
    BY <1>9, PostedType, PacketType DEF CreateProcess, Enter, MessageType
  <2>2. \A m \in Pid : waiters[m] # c
    BY <1>9 DEF CreateProcess, Enter, Registrations, RegisteredOnce, SenderAlive
  <2>3. QED
    BY <1>9, <2>1, <2>2 DEF CreateProcess, Enter, ProcState, JobPacket
<1>10. ASSUME NEW c \in Call, CallWait(c)
       PROVE  TypeOK'
  BY <1>10 DEF CallWait
<1>11. ASSUME NEW c \in Call, ReceiveResult(c)
       PROVE  TypeOK'
  BY <1>11 DEF ReceiveResult
<1>12. ASSUME NEW c \in Call, FallBackToPlain(c)
       PROVE  TypeOK'
  BY <1>12 DEF FallBackToPlain
<1>13. ASSUME NEW c \in Call, WaitPlain(c)
       PROVE  TypeOK'
  BY <1>13 DEF WaitPlain, TerminationReason, Reason
<1>14. ASSUME NEW c \in Call, DropChild(c)
       PROVE  TypeOK'
  BY <1>14 DEF DropChild
<1>15. QED
  BY <1>1, <1>2, <1>3, <1>4, <1>5, <1>6, <1>7, <1>8, <1>9, <1>10, <1>11,
     <1>12, <1>13, <1>14 DEF CallerStep

\* Sending a reason keeps the channels well typed.
LEMMA TypeSendExit ==
  ASSUME TypeOK, NEW c \in Call, NEW r \in TerminationReason \cup {Empty},
         SendExit(c, r)
  PROVE  exit_ch' \in [Call -> TerminationReason \cup {Empty}]
  BY DEF SendExit, TypeOK

\* A waiter is kept under its own pid, or answered.
LEMMA TypeRegisterWaiter ==
  ASSUME TypeOK, NEW c \in Call, pid[c] \in Pid, RegisterWaiter(c)
  PROVE  /\ waiters' \in [Pid -> Call \cup {Nobody}]
         /\ \A n \in Pid : waiters'[n] # Nobody => pid[waiters'[n]] = n
         /\ pending' \in [Pid -> TerminationReason \cup {Empty}]
         /\ exit_ch' \in [Call -> TerminationReason \cup {Empty}]
<1>1. CASE pending[pid[c]] # Empty
  <2>1. pending[pid[c]] \in TerminationReason \cup {Empty}
    BY DEF TypeOK
  <2>2. /\ pending' = [pending EXCEPT ![pid[c]] = Empty]
        /\ SendExit(c, pending[pid[c]]) /\ waiters' = waiters
    BY <1>1 DEF RegisterWaiter
  <2>3. QED
    BY <2>1, <2>2, TypeSendExit DEF TypeOK
<1>2. CASE pending[pid[c]] = Empty
  <2>1. /\ waiters' = [waiters EXCEPT ![pid[c]] = c]
        /\ pending' = pending /\ exit_ch' = exit_ch
    BY <1>2 DEF RegisterWaiter
  <2>2. QED
    BY <2>1 DEF TypeOK
<1>3. QED
  BY <1>1, <1>2

\* A delivered result goes to the waiter of its pid, or into the buffer.
LEMMA TypeDeliver ==
  ASSUME TypeOK, NEW n \in Pid, NEW r \in TerminationReason, Deliver(n, r)
  PROVE  /\ waiters' \in [Pid -> Call \cup {Nobody}]
         /\ \A m \in Pid : waiters'[m] # Nobody => pid[waiters'[m]] = m
         /\ pending' \in [Pid -> TerminationReason \cup {Empty}]
         /\ exit_ch' \in [Call -> TerminationReason \cup {Empty}]
<1>1. CASE waiters[n] # Nobody
  <2>1. /\ waiters' = [waiters EXCEPT ![n] = Nobody]
        /\ SendExit(waiters[n], r) /\ pending' = pending
    BY <1>1 DEF Deliver
  <2>2. waiters[n] \in Call
    BY <1>1 DEF TypeOK
  <2>3. exit_ch' \in [Call -> TerminationReason \cup {Empty}]
    BY <2>1, <2>2, TypeSendExit
  <2>4. QED
    BY <2>1, <2>3 DEF TypeOK
<1>2. CASE waiters[n] = Nobody
  <2>1. /\ pending' = [pending EXCEPT ![n] = r]
        /\ waiters' = waiters /\ exit_ch' = exit_ch
    BY <1>2 DEF Deliver
  <2>2. QED
    BY <2>1 DEF TypeOK
<1>3. QED
  BY <1>1, <1>2

\* A notification names a pid of the job, and its result is a reason.
LEMMA TypeDispatch ==
  ASSUME TypeOK, DispatchNotification,
         listener' \in {"none", "registering", "waiting", "draining", "done"}
  PROVE  TypeOK'
<1> USE Identities DEF TypeOK, DispatchNotification, callerVars, osVars
<1>1. Head(port).pid \in Pid /\ port' \in Seq(JobPacket \cup {Shutdown})
  BY DEF HeadKey, JobPacket, Shutdown
<1>2. CASE ~IsExit(Head(port).type)
  BY <1>1, <1>2 DEF JobPacket
<1>3. CASE IsExit(Head(port).type)
  <2> DEFINE n == Head(port).pid
             r == ClassifyExit(Head(port).pid, Head(port).type)
  <2>1. Deliver(n, r) /\ r \in TerminationReason /\ n \in Pid
    BY <1>1, <1>3, ClassifyExitType
  <2> HIDE DEF n, r
  <2>2. /\ waiters' \in [Pid -> Call \cup {Nobody}]
        /\ \A m \in Pid : waiters'[m] # Nobody => pid[waiters'[m]] = m
        /\ pending' \in [Pid -> TerminationReason \cup {Empty}]
        /\ exit_ch' \in [Call -> TerminationReason \cup {Empty}]
    BY <2>1, TypeDeliver
  <2>3. QED
    BY <1>1, <2>2 DEF JobPacket
<1>4. QED
  BY <1>2, <1>3

\* A step of the listener keeps the types.
LEMMA TypeListenerStep ==
  ASSUME TypeOK, Registrations, ListenerStep
  PROVE  TypeOK'
<1> USE Identities DEF callerVars, osVars
<1>1. CASE ListenerRegister
  <2> DEFINE c == Head(rx)
  <2>1. /\ c \in Call /\ rx' \in Seq(Call) /\ RegisterWaiter(c)
        /\ \E i \in DOMAIN rx : rx[i] = c
    BY <1>1 DEF ListenerRegister, TypeOK
  <2>2. pid[c] \in Pid
    BY <2>1 DEF Registrations, RegisteredOnce, OnePidOneHandle, SenderAlive
  <2> HIDE DEF c
  <2>3. /\ waiters' \in [Pid -> Call \cup {Nobody}]
        /\ \A n \in Pid : waiters'[n] # Nobody => pid[waiters'[n]] = n
        /\ pending' \in [Pid -> TerminationReason \cup {Empty}]
        /\ exit_ch' \in [Call -> TerminationReason \cup {Empty}]
    BY <2>1, <2>2, TypeRegisterWaiter
  <2>4. QED
    BY <1>1, <2>1, <2>3 DEF ListenerRegister, TypeOK
<1>2. CASE ListenerRegistered
  BY <1>2 DEF ListenerRegistered, TypeOK
<1>3. CASE ListenerPacket
  BY <1>3, TypeDispatch DEF ListenerPacket
<1>4. CASE ListenerShutdown
  BY <1>4 DEF ListenerShutdown, TypeOK, HeadKey
<1>5. CASE ListenerTimeout
  BY <1>5 DEF ListenerTimeout, TypeOK, AfterTimeout
<1>6. CASE DrainPacket
  BY <1>6, TypeDispatch DEF DrainPacket, TypeOK
<1>7. CASE ListenerEnds
  BY <1>7 DEF ListenerEnds, TypeOK
<1>8. QED
  BY <1>1, <1>2, <1>3, <1>4, <1>5, <1>6, <1>7 DEF ListenerStep

\* A step of a process keeps the types.
LEMMA TypeProcessStep ==
  ASSUME TypeOK, Registrations, ProcessStep
  PROVE  TypeOK'
<1> USE Identities DEF TypeOK, callerVars, listenerVars, ProcState
<1>1. ASSUME NEW s \in Stranger, NEW n \in Pid, StrangerStarts(s, n)
      PROVE  TypeOK'
  <2>1. port' \in Seq(JobPacket \cup {Shutdown})
    BY <1>1, PostedType, PacketType DEF StrangerStarts, Enter, MessageType
  <2>2. s \notin Call
    BY IocpAssumption
  <2>3. QED
    BY <1>1, <2>1, <2>2 DEF StrangerStarts, Enter, JobPacket
<1>2. ASSUME NEW p \in Process,
             NEW how \in {"EXIT_PROCESS", "ABNORMAL_EXIT_PROCESS"},
             NEW notified \in BOOLEAN, Exit(p, how, notified)
      PROVE  TypeOK'
  <2>1. pid[p] \in Pid
    BY <1>2 DEF Exit, Registrations, OnePidOneHandle
  <2>2. port' \in Seq(JobPacket \cup {Shutdown})
    BY <1>2, <2>1, PostedType, PacketType DEF Exit, MessageType, JobPacket
  <2>3. QED
    BY <1>2, <2>2 DEF Exit, JobPacket
<1>3. QED
  BY <1>1, <1>2 DEF ProcessStep

\* A stuttering step keeps the types.
LEMMA TypeStutter ==
  ASSUME TypeOK, UNCHANGED vars
  PROVE  TypeOK'
  BY DEF TypeOK, vars, callerVars, listenerVars, osVars

-----------------------------------------------------------------------------
(* The order of the drops.                                                 *)

\* In the beginning the root holds job and listener.
LEMMA DropsInit == Init => Drops
  BY Identities
  DEF Init, Drops, RefsAsHeld, ClosedJobIsEmpty, ShutdownAfterJobClosed

\* A packet of the job is not the shutdown packet.
LEMMA PostedPacket ==
  ASSUME TypeOK, NEW packet \in JobPacket, port' = Posted(packet)
  PROVE  (\E i \in DOMAIN port' : port'[i] = Shutdown)
           => \E i \in DOMAIN port : port[i] = Shutdown
  BY PacketType DEF TypeOK, Posted, JobPacket

\* Reading a packet adds none.
LEMMA TakenPacket ==
  ASSUME TypeOK, port # <<>>, port' = Tail(port)
  PROVE  (\E i \in DOMAIN port' : port'[i] = Shutdown)
           => \E i \in DOMAIN port : port[i] = Shutdown
  BY DEF TypeOK

\* A step of a caller keeps the order of the drops.
LEMMA DropsCallerStep ==
  ASSUME TypeOK, Registrations, Drops, CallerStep
  PROVE  Drops'
<1> USE Identities DEF Drops, RefsAsHeld, ClosedJobIsEmpty,
                       ShutdownAfterJobClosed
<1>1. ASSUME NEW o \in Owner, GiveUp(o)
      PROVE  Drops'
  BY <1>1 DEF GiveUp, TypeOK, osVars
<1>2. ASSUME NEW o \in Owner, ReleaseJob(o)
      PROVE  Drops'
  BY <1>2 DEF ReleaseJob, TypeOK
<1>3. ASSUME NEW o \in Owner, ReleaseIocp(o)
      PROVE  Drops'
  <2>1. RefsAsHeld'
    BY <1>3, AfterReleaseType DEF ReleaseIocp, TypeOK
  <2>2. ClosedJobIsEmpty'
    BY <1>3 DEF ReleaseIocp, osVars
  <2>3. iocpRefs' = {} => jobRefs = {}
    BY <1>3 DEF ReleaseIocp, TypeOK
  <2>4. ShutdownAfterJobClosed'
    BY <1>3, <2>3 DEF ReleaseIocp, osVars
  <2>5. QED
    BY <2>1, <2>2, <2>4
<1>4. ASSUME NEW o \in Owner, JoinListener(o)
      PROVE  Drops'
  BY <1>4, AfterReleaseType DEF JoinListener, TypeOK, osVars
<1>5. ASSUME NEW c \in Call, CreateCommand(c)
      PROVE  Drops'
  BY <1>5 DEF CreateCommand, TypeOK, osVars
<1>6. ASSUME NEW c \in Call, StartIocp(c)
      PROVE  Drops'
  BY <1>6 DEF StartIocp, TypeOK, osVars
<1>7. ASSUME NEW c \in Call, StartFails(c)
      PROVE  Drops'
  BY <1>7 DEF StartFails, TypeOK, osVars
<1>8. ASSUME NEW c \in Call, Register(c)
      PROVE  Drops'
  BY <1>8 DEF Register, TypeOK, osVars
<1>9. ASSUME NEW c \in Call, NEW n \in Pid, CreateProcess(c, n)
      PROVE  Drops'
  <2>1. jobRefs # {}
    BY <1>9 DEF CreateProcess
  <2>2. RefsAsHeld'
    BY <1>9 DEF CreateProcess, TypeOK
  <2>3. (\E i \in DOMAIN port' : port'[i] = Shutdown)
          => \E i \in DOMAIN port : port[i] = Shutdown
    BY <1>9, PostedPacket, PacketType DEF CreateProcess, Enter, MessageType
  <2>4. UNCHANGED jobRefs
    BY <1>9 DEF CreateProcess
  <2>5. QED
    BY <2>1, <2>2, <2>3, <2>4
<1>10. ASSUME NEW c \in Call, CallWait(c)
       PROVE  Drops'
  BY <1>10 DEF CallWait, TypeOK, osVars
<1>11. ASSUME NEW c \in Call, ReceiveResult(c)
       PROVE  Drops'
  BY <1>11 DEF ReceiveResult, TypeOK, osVars
<1>12. ASSUME NEW c \in Call, FallBackToPlain(c)
       PROVE  Drops'
  BY <1>12 DEF FallBackToPlain, TypeOK, osVars
<1>13. ASSUME NEW c \in Call, WaitPlain(c)
       PROVE  Drops'
  BY <1>13 DEF WaitPlain, TypeOK, osVars
<1>14. ASSUME NEW c \in Call, DropChild(c)
       PROVE  Drops'
  BY <1>14 DEF DropChild, TypeOK, osVars
<1>15. QED
  BY <1>1, <1>2, <1>3, <1>4, <1>5, <1>6, <1>7, <1>8, <1>9, <1>10, <1>11,
     <1>12, <1>13, <1>14 DEF CallerStep

\* The listener reads the port, or closes it.
LEMMA DropsListenerStep ==
  ASSUME TypeOK, Drops, ListenerStep
  PROVE  Drops'
<1>1. /\ UNCHANGED <<caller, jobRefs, iocpRefs, proc>>
      /\ \/ UNCHANGED port
         \/ port # <<>> /\ port' = Tail(port)
         \/ port' = <<>>
  BY DEF ListenerStep, ListenerRegister, ListenerRegistered, ListenerPacket,
         ListenerShutdown, ListenerTimeout, DrainPacket, ListenerEnds,
         DispatchNotification, HeadKey, callerVars, osVars
<1>2. (\E i \in DOMAIN port' : port'[i] = Shutdown)
        => \E i \in DOMAIN port : port[i] = Shutdown
  BY <1>1, TakenPacket
<1>3. QED
  BY <1>1, <1>2
  DEF Drops, RefsAsHeld, ClosedJobIsEmpty, ShutdownAfterJobClosed

\* A process joins an open job only, and none starts to run by ending.
LEMMA DropsProcessStep ==
  ASSUME TypeOK, Registrations, Drops, ProcessStep
  PROVE  Drops'
<1>1. ASSUME NEW s \in Stranger, NEW n \in Pid, StrangerStarts(s, n)
      PROVE  Drops'
  <2>1. (\E i \in DOMAIN port' : port'[i] = Shutdown)
          => \E i \in DOMAIN port : port[i] = Shutdown
    BY <1>1, PostedPacket, PacketType DEF StrangerStarts, Enter, MessageType
  <2>2. jobRefs # {} /\ UNCHANGED <<caller, jobRefs, iocpRefs>>
    BY <1>1 DEF StrangerStarts, callerVars
  <2>3. QED
    BY <2>1, <2>2
    DEF Drops, RefsAsHeld, ClosedJobIsEmpty, ShutdownAfterJobClosed
<1>2. ASSUME NEW p \in Process,
             NEW how \in {"EXIT_PROCESS", "ABNORMAL_EXIT_PROCESS"},
             NEW notified \in BOOLEAN, Exit(p, how, notified)
      PROVE  Drops'
  <2>1. pid[p] \in Pid
    BY <1>2 DEF Exit, Registrations, OnePidOneHandle
  <2>2. (\E i \in DOMAIN port' : port'[i] = Shutdown)
          => \E i \in DOMAIN port : port[i] = Shutdown
    BY <1>2, <2>1, PostedPacket, PacketType DEF Exit, MessageType
  <2>3. UNCHANGED <<caller, jobRefs, iocpRefs>>
    BY <1>2 DEF Exit, callerVars
  <2>4. \A q \in Process : proc'[q] = "running" => proc[q] = "running"
    BY <1>2 DEF Exit, TypeOK
  <2>5. QED
    BY <2>2, <2>3, <2>4
    DEF Drops, RefsAsHeld, ClosedJobIsEmpty, ShutdownAfterJobClosed
<1>3. QED
  BY <1>1, <1>2 DEF ProcessStep

-----------------------------------------------------------------------------
(* Registrations and results.                                              *)

\* In the beginning nothing is created, registered or sent.
LEMMA RegistrationsInit == Init => Registrations
  BY Identities
  DEF Init, Registrations, RegisteredOnce, OnePidOneHandle, RegisteredInOrder,
      RegisteredMeansUnreported, RegisteredOrReported, RegistrationMeetsExit,
      FallBackOnlyWithoutListener, SenderAlive, HandleOpen

\* A step that leaves registrations, results and pids alone keeps them right,
\* if no caller goes where its child's registration does not let it.
LEMMA RegistrationsFrame ==
  ASSUME TypeOK, Registrations,
         UNCHANGED <<spawned, waiters, pending, rx, exit_ch, result, pid>>,
         listener' = "done" <=> listener = "done",
         \A p \in Process : proc'[p] = "none" <=> proc[p] = "none",
         \A c \in Call :
           /\ caller[c] = "finished" => caller'[c] = "finished"
           /\ caller[c] = "diagnosed" => caller'[c] \in {"diagnosed", "finished"}
           /\ caller'[c] \in {"created", "locked"} =>
                c \notin spawned /\ proc[c] # "none"
           /\ caller'[c] \in {"idle", "ready"} => proc[c] = "none"
           /\ caller'[c] \in {"spawned", "waiting", "plain", "diagnosed"} =>
                c \in spawned
           /\ caller'[c] = "plain" => listener = "done"
  PROVE  Registrations'
<1> USE Identities DEF Registrations
<1>1. \A c : SenderAlive(c)' <=> SenderAlive(c)
  BY DEF SenderAlive
<1>2. \A c \in Call : HandleOpen(c)' => HandleOpen(c)
  BY DEF HandleOpen
<1>3. RegisteredOnce'
  BY <1>1 DEF RegisteredOnce
<1>4. OnePidOneHandle'
  BY <1>2 DEF OnePidOneHandle
<1>5. RegisteredInOrder'
  BY DEF RegisteredInOrder
<1>6. RegisteredMeansUnreported'
  BY <1>1 DEF RegisteredMeansUnreported
<1>7. RegisteredOrReported'
  <2>1. spawned \subseteq Call
    BY DEF TypeOK
  <2>2. QED
    BY <1>1, <2>1 DEF RegisteredOrReported
<1>8. RegistrationMeetsExit' /\ FallBackOnlyWithoutListener'
  BY DEF RegistrationMeetsExit, FallBackOnlyWithoutListener
<1>9. QED
  BY <1>3, <1>4, <1>5, <1>6, <1>7, <1>8

\* The same for the steps of one owner.
LEMMA RegistrationsMove ==
  ASSUME TypeOK, Registrations,
         UNCHANGED <<spawned, waiters, pending, rx, exit_ch, result, pid>>,
         listener' = "done" <=> listener = "done",
         \A p \in Process : proc'[p] = "none" <=> proc[p] = "none",
         NEW o \in Owner, NEW s, caller' = [caller EXCEPT ![o] = s],
         caller[o] # "finished",
         o \in Call =>
           /\ caller[o] = "diagnosed" => s \in {"diagnosed", "finished"}
           /\ s \in {"created", "locked"} => o \notin spawned /\ proc[o] # "none"
           /\ s \in {"idle", "ready"} => proc[o] = "none"
           /\ s \in {"spawned", "waiting", "plain", "diagnosed"} => o \in spawned
           /\ s = "plain" => listener = "done"
  PROVE  Registrations'
<1>1. \A c \in Call : c # o => caller'[c] = caller[c]
  BY Identities DEF TypeOK
<1>2. o \in Call => caller'[o] = s
  BY Identities DEF TypeOK
<1>3. \A c \in Call :
        /\ caller[c] = "finished" => caller'[c] = "finished"
        /\ caller[c] = "diagnosed" => caller'[c] \in {"diagnosed", "finished"}
        /\ caller'[c] \in {"created", "locked"} =>
             c \notin spawned /\ proc[c] # "none"
        /\ caller'[c] \in {"idle", "ready"} => proc[c] = "none"
        /\ caller'[c] \in {"spawned", "waiting", "plain", "diagnosed"} =>
             c \in spawned
        /\ caller'[c] = "plain" => listener = "done"
  BY <1>1, <1>2
  DEF Registrations, RegisteredOnce, FallBackOnlyWithoutListener
<1>4. QED
  BY <1>3, RegistrationsFrame

\* A created child has a pid that no other open handle stands for.
LEMMA RegistrationsCreateProcess ==
  ASSUME TypeOK, Registrations, NEW c \in Call, NEW n \in Pid,
         CreateProcess(c, n)
  PROVE  Registrations'
<1> USE Identities DEF Registrations
<1>1. /\ UNCHANGED <<spawned, listener, waiters, pending, rx, exit_ch, result>>
      /\ caller[c] = "ready" /\ caller' = [caller EXCEPT ![c] = "created"]
      /\ proc[c] = "none" /\ proc' = [proc EXCEPT ![c] = "running"]
      /\ pid' = [pid EXCEPT ![c] = n] /\ FreePid(n)
  BY DEF CreateProcess, Enter, listenerVars
<1>2. /\ caller'[c] = "created" /\ proc'[c] = "running" /\ pid'[c] = n
      /\ \A p \in Process : p # c => proc'[p] = proc[p] /\ pid'[p] = pid[p]
      /\ \A d \in Call : d # c => caller'[d] = caller[d]
  BY <1>1 DEF TypeOK
<1>3. /\ \A d : SenderAlive(d)' <=> SenderAlive(d)
      /\ c \notin spawned /\ ~SenderAlive(c)
  BY <1>1 DEF SenderAlive, RegisteredOnce
<1>4. RegisteredOnce'
  BY <1>1, <1>2, <1>3 DEF RegisteredOnce
<1>5. OnePidOneHandle'
  <2>1. \A d \in Call : d # c => (HandleOpen(d)' <=> HandleOpen(d))
    BY <1>1, <1>2 DEF HandleOpen
  <2>2. \A d \in Call : HandleOpen(d) => pid[d] # n
    BY <1>1 DEF FreePid, Holder
  <2>3. QED
    BY <1>2, <2>1, <2>2 DEF OnePidOneHandle
<1>6. RegisteredInOrder'
  <2>1. \A i \in DOMAIN rx : rx[i] # c /\ rx[i] \in Call
    BY <1>3 DEF SenderAlive, TypeOK
  <2>2. \A m \in Pid : waiters[m] # c
    BY <1>3 DEF SenderAlive
  <2>3. \A i \in DOMAIN rx : \A j \in 1..(i - 1) : j \in DOMAIN rx
    BY DEF TypeOK
  <2>4. QED
    BY <1>1, <1>2, <2>1, <2>2, <2>3 DEF RegisteredInOrder
<1>7. RegisteredMeansUnreported'
  BY <1>1, <1>3 DEF RegisteredMeansUnreported
<1>8. RegisteredOrReported'
  <2>1. spawned \subseteq Call
    BY DEF TypeOK
  <2>2. QED
    BY <1>1, <1>2, <1>3, <2>1 DEF RegisteredOrReported
<1>9. RegistrationMeetsExit' /\ FallBackOnlyWithoutListener'
  BY <1>1, <1>2 DEF RegistrationMeetsExit, FallBackOnlyWithoutListener
<1>10. QED
  BY <1>4, <1>5, <1>6, <1>7, <1>8, <1>9

\* A child is registered while its handle is open: whoever has its pid and
\* was registered before it has been dropped.
LEMMA RegistrationsRegister ==
  ASSUME TypeOK, Registrations, NEW c \in Call, Register(c)
  PROVE  Registrations'
<1> USE Identities DEF Registrations
<1>1. /\ UNCHANGED <<listener, waiters, pending, exit_ch, result, proc, pid>>
      /\ caller[c] = "locked" /\ caller' = [caller EXCEPT ![c] = "releaseJob"]
      /\ spawned' = spawned \cup {c}
      /\ rx' = IF listener = "done" THEN rx ELSE Append(rx, c)
  BY DEF Register, listenerVars, osVars
<1>2. /\ caller'[c] = "releaseJob"
      /\ \A d \in Call : d # c => caller'[d] = caller[d]
  BY <1>1 DEF TypeOK
<1>3. c \notin spawned /\ proc[c] # "none" /\ ~SenderAlive(c) /\ exit_ch[c] = Empty
      /\ result[c] = Empty
  BY <1>1 DEF RegisteredOnce
<1>4. /\ \A d \in Call : d # c => (SenderAlive(d)' <=> SenderAlive(d))
      /\ SenderAlive(c)' <=> listener # "done"
  <2>1. CASE listener = "done"
    BY <1>1, <1>3, <2>1 DEF SenderAlive
  <2>2. CASE listener # "done"
    <3>1. /\ DOMAIN rx' = DOMAIN rx \cup {Len(rx) + 1}
          /\ rx'[Len(rx) + 1] = c
          /\ \A i \in DOMAIN rx : rx'[i] = rx[i]
      BY <1>1, <2>2 DEF TypeOK
    <3>2. QED
      BY <1>1, <2>2, <3>1 DEF SenderAlive
  <2>3. QED
    BY <2>1, <2>2
<1>5. \A d \in Call : HandleOpen(d)' <=> HandleOpen(d)
  BY <1>1, <1>2, <1>3 DEF HandleOpen
<1>6. /\ \A i, j \in DOMAIN rx' : rx'[i] = rx'[j] => i = j
      /\ \A i \in DOMAIN rx', m \in Pid : waiters'[m] # rx'[i]
  <2>1. \A i \in DOMAIN rx : rx[i] # c
    BY <1>3 DEF SenderAlive
  <2>2. \A m \in Pid : waiters[m] # c
    BY <1>3 DEF SenderAlive
  <2>3. QED
    BY <1>1, <2>1, <2>2 DEF RegisteredOnce, TypeOK
<1>7. RegisteredOnce'
  <2>1. \A d \in Call :
          /\ SenderAlive(d)' => d \in spawned' /\ listener' # "done"
          /\ d \in spawned' => proc'[d] # "none"
          /\ d \notin spawned' => exit_ch'[d] = Empty /\ result'[d] = Empty
    BY <1>1, <1>3, <1>4 DEF RegisteredOnce
  <2>2. \A d \in Call :
          /\ caller'[d] \in {"created", "locked"} =>
               d \notin spawned' /\ proc'[d] # "none"
          /\ caller'[d] \in {"idle", "ready"} => proc'[d] = "none"
          /\ caller'[d] \in {"spawned", "waiting", "plain", "diagnosed"} =>
               d \in spawned'
    BY <1>1, <1>2, <1>3 DEF RegisteredOnce
  <2>3. QED
    BY <1>6, <2>1, <2>2 DEF RegisteredOnce
<1>8. OnePidOneHandle'
  BY <1>1, <1>5 DEF OnePidOneHandle
<1>9. \A d \in Call :
        d # c /\ pid[d] = pid[c] /\ SenderAlive(d) => caller[d] = "finished"
  <2>1. HandleOpen(c)
    BY <1>3 DEF HandleOpen
  <2>2. \A d \in Call : SenderAlive(d) => d \in spawned /\ proc[d] # "none"
    BY DEF RegisteredOnce
  <2>3. QED
    BY <2>1, <2>2 DEF OnePidOneHandle, HandleOpen
<1>10. RegisteredInOrder'
  <2>1. CASE listener = "done"
    BY <1>1, <1>2, <2>1 DEF RegisteredInOrder
  <2>2. ASSUME listener # "done", NEW i \in DOMAIN rx', NEW d \in Call,
               d # rx'[i], pid'[d] = pid'[rx'[i]],
               (\E m \in Pid : waiters'[m] = d)
                 \/ \E j \in 1..(i - 1) : rx'[j] = d
        PROVE  caller'[d] = "finished"
    <3>1. rx' = Append(rx, c) /\ rx \in Seq(Call)
      BY <1>1, <2>2 DEF TypeOK
    <3>2. CASE i \in DOMAIN rx
      <4>1. rx'[i] = rx[i] /\ \A j \in 1..(i - 1) : rx'[j] = rx[j]
        BY <3>1, <3>2
      <4>2. caller[d] = "finished"
        BY <1>1, <2>2, <3>2, <4>1 DEF RegisteredInOrder
      <4>3. QED
        BY <1>1, <1>2, <4>2
    <3>3. CASE i = Len(rx) + 1
      <4>1. rx'[i] = c /\ \A j \in 1..(i - 1) : j \in DOMAIN rx /\ rx'[j] = rx[j]
        BY <3>1, <3>3
      <4>2. SenderAlive(d)
        BY <1>1, <2>2, <4>1 DEF SenderAlive
      <4>3. QED
        BY <1>1, <1>2, <1>9, <2>2, <4>1, <4>2
    <3>4. QED
      BY <3>1, <3>2, <3>3
  <2>3. QED
    BY <2>1, <2>2 DEF RegisteredInOrder
<1>11. RegisteredMeansUnreported'
  BY <1>1, <1>3, <1>4 DEF RegisteredMeansUnreported
<1>12. RegisteredOrReported'
  <2>1. spawned \subseteq Call
    BY DEF TypeOK
  <2>2. QED
    BY <1>1, <1>2, <1>4, <2>1 DEF RegisteredOrReported
<1>13. RegistrationMeetsExit' /\ FallBackOnlyWithoutListener'
  BY <1>1, <1>2 DEF RegistrationMeetsExit, FallBackOnlyWithoutListener
<1>14. QED
  BY <1>7, <1>8, <1>10, <1>11, <1>12, <1>13

\* A caller that takes its result, asks the plain wait or drops its child
\* empties its own channel only, and is no longer registered or owed a result.
LEMMA RegistrationsAnswered ==
  ASSUME TypeOK, Registrations,
         UNCHANGED <<spawned, waiters, pending, rx, pid, listener, proc>>,
         NEW c \in Call, c \in spawned, caller[c] # "finished",
         NEW s \in {"diagnosed", "finished"},
         caller' = [caller EXCEPT ![c] = s],
         exit_ch' \in {exit_ch, [exit_ch EXCEPT ![c] = Empty]},
         \A d \in Call : d # c => result'[d] = result[d],
         result'[c] = result[c] \/ ~SenderAlive(c)
  PROVE  Registrations'
<1> USE Identities DEF Registrations
<1>1. /\ caller'[c] = s
      /\ \A d \in Call : d # c => caller'[d] = caller[d]
      /\ \A d \in Call : d # c => exit_ch'[d] = exit_ch[d]
      /\ exit_ch'[c] \in {Empty, exit_ch[c]}
  BY DEF TypeOK
<1>2. \A d : SenderAlive(d)' <=> SenderAlive(d)
  BY DEF SenderAlive
<1>3. \A d \in Call : HandleOpen(d)' => HandleOpen(d)
  BY <1>1 DEF HandleOpen
<1>4. RegisteredOnce'
  BY <1>1, <1>2 DEF RegisteredOnce
<1>5. OnePidOneHandle'
  BY <1>3 DEF OnePidOneHandle
<1>6. RegisteredInOrder'
  BY <1>1 DEF RegisteredInOrder
<1>7. RegisteredMeansUnreported'
  BY <1>1, <1>2 DEF RegisteredMeansUnreported
<1>8. RegisteredOrReported'
  <2>1. spawned \subseteq Call
    BY DEF TypeOK
  <2>2. QED
    BY <1>1, <1>2, <2>1 DEF RegisteredOrReported
<1>9. RegistrationMeetsExit' /\ FallBackOnlyWithoutListener'
  BY <1>1 DEF RegistrationMeetsExit, FallBackOnlyWithoutListener
<1>10. QED
  BY <1>4, <1>5, <1>6, <1>7, <1>8, <1>9

\* A step of a caller keeps registrations and results right.
LEMMA RegistrationsCallerStep ==
  ASSUME TypeOK, Registrations, CallerStep
  PROVE  Registrations'
<1> USE Identities DEF listenerVars, osVars
<1> DEFINE Quiet ==
      /\ UNCHANGED <<spawned, waiters, pending, rx, exit_ch, result, pid>>
      /\ listener' = "done" <=> listener = "done"
      /\ \A p \in Process : proc'[p] = "none" <=> proc[p] = "none"
<1>1. ASSUME NEW o \in Owner, GiveUp(o)
      PROVE  Registrations'
  <2>1. /\ Quiet /\ caller[o] = "ready"
        /\ caller' = [caller EXCEPT ![o] = "releaseJob"]
    BY <1>1 DEF GiveUp
  <2>2. QED
    BY <2>1, RegistrationsMove
<1>2. ASSUME NEW o \in Owner, ReleaseJob(o)
      PROVE  Registrations'
  <2>1. /\ Quiet /\ caller[o] = "releaseJob"
        /\ caller' = [caller EXCEPT ![o] = "releaseIocp"]
    BY <1>2 DEF ReleaseJob
  <2>2. QED
    BY <2>1, RegistrationsMove
<1>3. ASSUME NEW o \in Owner, ReleaseIocp(o)
      PROVE  Registrations'
  <2>1. Quiet /\ caller[o] = "releaseIocp"
    BY <1>3 DEF ReleaseIocp
  <2>2. CASE caller' = [caller EXCEPT ![o] = "joining"]
    BY <2>1, <2>2, RegistrationsMove
  <2>3. CASE caller' = [caller EXCEPT ![o] = "spawned"] /\ o \in spawned
    BY <2>1, <2>3, RegistrationsMove
  <2>4. CASE caller' = [caller EXCEPT ![o] = "finished"]
    BY <2>1, <2>4, RegistrationsMove
  <2>5. QED
    BY <1>3, <2>2, <2>3, <2>4 DEF ReleaseIocp, AfterRelease
<1>4. ASSUME NEW o \in Owner, JoinListener(o)
      PROVE  Registrations'
  <2>1. Quiet /\ caller[o] = "joining"
    BY <1>4 DEF JoinListener
  <2>2. CASE caller' = [caller EXCEPT ![o] = "spawned"] /\ o \in spawned
    BY <2>1, <2>2, RegistrationsMove
  <2>3. CASE caller' = [caller EXCEPT ![o] = "finished"]
    BY <2>1, <2>3, RegistrationsMove
  <2>4. QED
    BY <1>4, <2>2, <2>3 DEF JoinListener, AfterRelease
<1>5. ASSUME NEW c \in Call, CreateCommand(c)
      PROVE  Registrations'
  <2>1. /\ Quiet /\ caller[c] = "idle" /\ proc[c] = "none"
        /\ caller' = [caller EXCEPT ![c] = "ready"]
    BY <1>5 DEF CreateCommand, Registrations, RegisteredOnce
  <2>2. QED
    BY <2>1, RegistrationsMove
<1>6. ASSUME NEW c \in Call, StartIocp(c)
      PROVE  Registrations'
  <2>1. /\ Quiet /\ caller[c] = "created" /\ c \notin spawned
        /\ proc[c] # "none"
        /\ caller' = [caller EXCEPT ![c] = "locked"]
    BY <1>6 DEF StartIocp, Registrations, RegisteredOnce
  <2>2. QED
    BY <2>1, RegistrationsMove
<1>7. ASSUME NEW c \in Call, StartFails(c)
      PROVE  Registrations'
  <2>1. /\ Quiet /\ caller[c] = "created"
        /\ caller' = [caller EXCEPT ![c] = "releaseJob"]
    BY <1>7 DEF StartFails
  <2>2. QED
    BY <2>1, RegistrationsMove
<1>8. ASSUME NEW c \in Call, CallWait(c)
      PROVE  Registrations'
  <2>1. /\ Quiet /\ caller[c] = "spawned" /\ c \in spawned
        /\ caller' = [caller EXCEPT ![c] = "waiting"]
    BY <1>8 DEF CallWait, Registrations, RegisteredOnce
  <2>2. QED
    BY <2>1, RegistrationsMove
<1>9. ASSUME NEW c \in Call, FallBackToPlain(c)
      PROVE  Registrations'
  <2>1. /\ Quiet /\ caller[c] = "waiting" /\ c \in spawned
        /\ caller' = [caller EXCEPT ![c] = "plain"]
    BY <1>9 DEF FallBackToPlain, Registrations, RegisteredOnce
  <2>2. listener = "done"
    BY <1>9, <2>1 DEF FallBackToPlain, Registrations, RegisteredOrReported
  <2>3. QED
    BY <2>1, <2>2, RegistrationsMove
<1>10. ASSUME NEW c \in Call, ReceiveResult(c)
       PROVE  Registrations'
  <2>1. /\ UNCHANGED <<spawned, waiters, pending, rx, pid, listener, proc>>
        /\ c \in spawned /\ caller[c] # "finished"
        /\ caller' = [caller EXCEPT ![c] = "diagnosed"]
        /\ exit_ch' \in {exit_ch, [exit_ch EXCEPT ![c] = Empty]}
    BY <1>10 DEF ReceiveResult, Registrations, RegisteredOnce
  <2>2. \A d \in Call : d # c => result'[d] = result[d]
    BY <1>10 DEF ReceiveResult, TypeOK
  <2>3. ~SenderAlive(c)
    BY <1>10 DEF ReceiveResult, Registrations, RegisteredMeansUnreported
  <2>4. QED
    BY <2>1, <2>2, <2>3, RegistrationsAnswered
<1>11. ASSUME NEW c \in Call, WaitPlain(c)
       PROVE  Registrations'
  <2>1. /\ UNCHANGED <<spawned, waiters, pending, rx, pid, listener, proc>>
        /\ c \in spawned /\ caller[c] # "finished"
        /\ caller' = [caller EXCEPT ![c] = "diagnosed"]
        /\ exit_ch' \in {exit_ch, [exit_ch EXCEPT ![c] = Empty]}
    BY <1>11 DEF WaitPlain, Registrations, RegisteredOnce
  <2>2. \A d \in Call : d # c => result'[d] = result[d]
    BY <1>11 DEF WaitPlain, TypeOK
  <2>3. ~SenderAlive(c)
    BY <1>11 DEF WaitPlain, Registrations, RegisteredOnce,
                 FallBackOnlyWithoutListener
  <2>4. QED
    BY <2>1, <2>2, <2>3, RegistrationsAnswered
<1>12. ASSUME NEW c \in Call, DropChild(c)
       PROVE  Registrations'
  <2>1. /\ UNCHANGED <<spawned, waiters, pending, rx, pid, listener, proc,
                       result>>
        /\ c \in spawned /\ caller[c] # "finished"
        /\ caller' = [caller EXCEPT ![c] = "finished"]
        /\ exit_ch' \in {exit_ch, [exit_ch EXCEPT ![c] = Empty]}
    BY <1>12 DEF DropChild, Registrations, RegisteredOnce
  <2>2. QED
    BY <2>1, RegistrationsAnswered
<1>13. QED
  BY <1>1, <1>2, <1>3, <1>4, <1>5, <1>6, <1>7, <1>8, <1>9, <1>10, <1>11,
     <1>12, RegistrationsCreateProcess, RegistrationsRegister DEF CallerStep

\* Sending to c fills the channel of c, unless c was dropped.
LEMMA SendExitEffect ==
  ASSUME TypeOK, NEW c \in Call, NEW r, r # Empty, SendExit(c, r)
  PROVE  /\ \A d \in Call : d # c => exit_ch'[d] = exit_ch[d]
         /\ caller[c] = "finished" => exit_ch'[c] = exit_ch[c]
         /\ caller[c] = "finished" \/ exit_ch'[c] # Empty
  BY DEF SendExit, TypeOK

\* One waiter, or the registration at the head of the queue, is answered.
LEMMA RegistrationsSend ==
  ASSUME TypeOK, Registrations,
         UNCHANGED <<caller, spawned, result, proc, pid>>,
         listener' = "done" <=> listener = "done",
         NEW c \in Call, NEW r, r # Empty, SendExit(c, r), SenderAlive(c),
         \A d \in Call : d # c => (SenderAlive(d)' <=> SenderAlive(d)),
         ~SenderAlive(c)',
         rx' = rx \/ (rx # <<>> /\ rx' = Tail(rx)),
         \A n \in Pid : waiters'[n] \in {waiters[n], Nobody},
         \A n \in Pid : pending'[n] \in {pending[n], Empty}
  PROVE  Registrations'
<1> USE Identities DEF Registrations
<1>1. /\ \A d \in Call : d # c => exit_ch'[d] = exit_ch[d]
      /\ caller[c] = "finished" \/ exit_ch'[c] # Empty
  BY SendExitEffect
<1>2. c \in spawned
  BY DEF RegisteredOnce
<1>3. \E k \in {0, 1} : /\ \A i \in DOMAIN rx' : i + k \in DOMAIN rx
                        /\ \A i \in DOMAIN rx' : rx'[i] = rx[i + k]
                        /\ DOMAIN rx' \subseteq Nat
  <2>1. rx \in Seq(Call)
    BY DEF TypeOK
  <2>2. CASE rx' = rx
    <3>1. /\ \A i \in DOMAIN rx' : i + 0 \in DOMAIN rx
          /\ \A i \in DOMAIN rx' : rx'[i] = rx[i + 0]
          /\ DOMAIN rx' \subseteq Nat
      BY <2>1, <2>2
    <3>2. QED
      BY <3>1
  <2>3. CASE rx # <<>> /\ rx' = Tail(rx)
    <3>1. /\ \A i \in DOMAIN rx' : i + 1 \in DOMAIN rx
          /\ \A i \in DOMAIN rx' : rx'[i] = rx[i + 1]
          /\ DOMAIN rx' \subseteq Nat
      BY <2>1, <2>3
    <3>2. QED
      BY <3>1
  <2>4. QED
    BY <2>2, <2>3
<1>4. RegisteredOnce'
  <2>1. /\ \A i, j \in DOMAIN rx' : rx'[i] = rx'[j] => i = j
        /\ \A i \in DOMAIN rx', n \in Pid : waiters'[n] # rx'[i]
    <3>1. \A i \in DOMAIN rx : rx[i] # Nobody
      BY DEF TypeOK
    <3>2. QED
      BY <1>3, <3>1 DEF RegisteredOnce
  <2>2. \A d \in Call : SenderAlive(d)' => SenderAlive(d)
    OBVIOUS
  <2>3. QED
    BY <1>1, <1>2, <2>1, <2>2 DEF RegisteredOnce
<1>5. OnePidOneHandle'
  BY DEF OnePidOneHandle, HandleOpen
<1>6. RegisteredInOrder'
  <2>1. PICK k \in {0, 1} : /\ \A i \in DOMAIN rx' : i + k \in DOMAIN rx
                            /\ \A i \in DOMAIN rx' : rx'[i] = rx[i + k]
                            /\ DOMAIN rx' \subseteq Nat
    BY <1>3
  <2>2. ASSUME NEW i \in DOMAIN rx', NEW d \in Call,
               d # rx'[i], pid'[d] = pid'[rx'[i]],
               (\E n \in Pid : waiters'[n] = d)
                 \/ \E j \in 1..(i - 1) : rx'[j] = d
        PROVE  caller'[d] = "finished"
    <3>1. \A j \in 1..(i - 1) : j + k \in 1..(i + k - 1) /\ j \in DOMAIN rx'
      BY <2>1, <2>2 DEF TypeOK
    <3>2. (\E n \in Pid : waiters[n] = d)
            \/ \E j \in 1..(i + k - 1) : rx[j] = d
      BY <2>1, <2>2, <3>1
    <3>3. QED
      BY <2>1, <2>2, <3>2 DEF RegisteredInOrder
  <2>3. QED
    BY <2>2 DEF RegisteredInOrder
<1>7. RegisteredMeansUnreported'
  BY <1>1 DEF RegisteredMeansUnreported
<1>8. RegisteredOrReported'
  <2>1. spawned \subseteq Call
    BY DEF TypeOK
  <2>2. QED
    BY <1>1, <2>1 DEF RegisteredOrReported
<1>9. RegistrationMeetsExit'
  BY DEF RegistrationMeetsExit
<1>10. FallBackOnlyWithoutListener'
  BY DEF FallBackOnlyWithoutListener
<1>11. QED
  BY <1>4, <1>5, <1>6, <1>7, <1>8, <1>9, <1>10

\* A registration at the head of the queue becomes a waiter; the one it
\* replaces belongs to a child that was dropped.
LEMMA RegistrationsWaiter ==
  ASSUME TypeOK, Registrations, rx # <<>>, rx' = Tail(rx),
         UNCHANGED <<caller, spawned, listener, pending, exit_ch, result, proc,
                     pid>>,
         NEW c \in Call, c = Head(rx), pid[c] \in Pid, pending[pid[c]] = Empty,
         waiters' = [waiters EXCEPT ![pid[c]] = c]
  PROVE  Registrations'
<1> USE Identities DEF Registrations
<1> DEFINE n == pid[c]
<1>1. /\ waiters'[n] = c
      /\ \A m \in Pid : m # n => waiters'[m] = waiters[m]
      /\ \A m \in Pid : waiters[m] # Nobody => pid[waiters[m]] = m
  BY DEF TypeOK
<1>2. /\ 1 \in DOMAIN rx /\ rx[1] = c
      /\ \A i \in DOMAIN rx' : i + 1 \in DOMAIN rx /\ rx'[i] = rx[i + 1]
      /\ \A i \in DOMAIN rx : i # 1 => i - 1 \in DOMAIN rx' /\ rx'[i - 1] = rx[i]
      /\ DOMAIN rx' \subseteq Nat /\ DOMAIN rx \subseteq Nat
  BY DEF TypeOK
<1>3. SenderAlive(c)
  BY <1>2 DEF SenderAlive
<1>4. \A d \in Call : SenderAlive(d)' => SenderAlive(d)
  BY <1>1, <1>2, <1>3 DEF SenderAlive
<1>5. ASSUME NEW d \in Call, SenderAlive(d)
      PROVE  SenderAlive(d)' \/ caller[d] = "finished"
  <2>1. CASE d = c
    BY <1>1, <2>1 DEF SenderAlive
  <2>2. CASE \E i \in DOMAIN rx : rx[i] = d /\ d # c
    BY <1>2, <2>2 DEF SenderAlive
  <2>3. CASE d # c /\ \E m \in Pid : waiters[m] = d
    <3>1. PICK m \in Pid : waiters[m] = d
      BY <2>3
    <3>2. CASE m = n
      BY <1>1, <1>2, <2>3, <3>1, <3>2 DEF RegisteredInOrder
    <3>3. CASE m # n
      BY <1>1, <3>1, <3>3 DEF SenderAlive
    <3>4. QED
      BY <3>2, <3>3
  <2>4. QED
    BY <1>5, <2>1, <2>2, <2>3 DEF SenderAlive
<1>6. RegisteredOnce'
  <2>1. \A i, j \in DOMAIN rx' : rx'[i] = rx'[j] => i = j
    BY <1>2 DEF RegisteredOnce
  <2>2. \A i \in DOMAIN rx', m \in Pid : waiters'[m] # rx'[i]
    <3>1. \A i \in DOMAIN rx' : rx'[i] # c
      BY <1>2 DEF RegisteredOnce
    <3>2. QED
      BY <1>1, <1>2, <3>1 DEF RegisteredOnce
  <2>3. QED
    BY <1>4, <2>1, <2>2 DEF RegisteredOnce
<1>7. OnePidOneHandle'
  BY DEF OnePidOneHandle, HandleOpen
<1>8. RegisteredInOrder'
  <2>1. ASSUME NEW i \in DOMAIN rx', NEW d \in Call,
               d # rx'[i], pid'[d] = pid'[rx'[i]],
               (\E m \in Pid : waiters'[m] = d)
                 \/ \E j \in 1..(i - 1) : rx'[j] = d
        PROVE  caller'[d] = "finished"
    <3>1. \A j \in 1..(i - 1) : j + 1 \in 1..(i + 1 - 1) /\ j \in DOMAIN rx'
      BY <2>1 DEF TypeOK
    <3>2. 1 \in 1..(i + 1 - 1)
      BY <2>1 DEF TypeOK
    <3>3. (\E m \in Pid : waiters[m] = d)
            \/ \E j \in 1..(i + 1 - 1) : rx[j] = d
      <4>1. CASE d = c
        BY <1>2, <3>2, <4>1
      <4>2. CASE d # c
        BY <1>1, <1>2, <2>1, <3>1, <4>2
      <4>3. QED
        BY <4>1, <4>2
    <3>4. QED
      BY <1>2, <2>1, <3>3 DEF RegisteredInOrder
  <2>2. QED
    BY <2>1 DEF RegisteredInOrder
<1>9. RegisteredMeansUnreported'
  BY <1>4 DEF RegisteredMeansUnreported
<1>10. RegisteredOrReported'
  <2>1. spawned \subseteq Call
    BY DEF TypeOK
  <2>2. QED
    BY <1>5, <2>1 DEF RegisteredOrReported
<1>11. RegistrationMeetsExit'
  BY <1>1 DEF RegistrationMeetsExit
<1>12. FallBackOnlyWithoutListener'
  BY DEF FallBackOnlyWithoutListener
<1>13. QED
  BY <1>6, <1>7, <1>8, <1>9, <1>10, <1>11, <1>12

\* A registration finds the buffered result, or waits for it.
LEMMA RegistrationsListenerRegister ==
  ASSUME TypeOK, Registrations, ListenerRegister
  PROVE  Registrations'
<1> USE Identities
<1>0. PICK c \in Call : c = Head(rx)
  BY DEF ListenerRegister, TypeOK
<1>1. /\ c \in Call /\ rx # <<>> /\ rx' = Tail(rx) /\ RegisterWaiter(c)
      /\ UNCHANGED <<caller, spawned, listener, result, proc, pid>>
      /\ \E i \in DOMAIN rx : rx[i] = c
  BY <1>0 DEF ListenerRegister, TypeOK, callerVars, osVars
<1>2. pid[c] \in Pid /\ SenderAlive(c)
  BY <1>1 DEF Registrations, RegisteredOnce, OnePidOneHandle, SenderAlive
<1>3. \A i \in DOMAIN Tail(rx) : i + 1 \in DOMAIN rx /\ Tail(rx)[i] = rx[i + 1]
  BY <1>1 DEF TypeOK
<1>4. \A i \in DOMAIN rx : i # 1 => i - 1 \in DOMAIN Tail(rx)
                                      /\ Tail(rx)[i - 1] = rx[i]
  BY <1>1 DEF TypeOK
<1>5. 1 \in DOMAIN rx /\ rx[1] = c /\ \A i \in DOMAIN Tail(rx) : i + 1 # 1
  BY <1>0, <1>1 DEF TypeOK
<1>6. CASE pending[pid[c]] # Empty
  <2>0. PICK r : r = pending[pid[c]]
    OBVIOUS
  <2>1. /\ pending' = [pending EXCEPT ![pid[c]] = Empty]
        /\ SendExit(c, r) /\ waiters' = waiters /\ r # Empty
    BY <1>1, <1>6, <2>0 DEF RegisterWaiter
  <2>2. /\ \A n \in Pid : waiters'[n] \in {waiters[n], Nobody}
        /\ \A n \in Pid : pending'[n] \in {pending[n], Empty}
    BY <2>1 DEF TypeOK
  <2>3. \A d \in Call : d # c => (SenderAlive(d)' <=> SenderAlive(d))
    BY <1>1, <1>3, <1>4, <1>5, <2>1 DEF SenderAlive
  <2>4. ~SenderAlive(c)'
    <3>1. /\ \A m \in Pid : waiters[m] # c
          /\ \A i \in DOMAIN Tail(rx) : Tail(rx)[i] # c
      BY <1>3, <1>5 DEF Registrations, RegisteredOnce
    <3>2. QED
      BY <1>1, <2>1, <3>1 DEF SenderAlive
  <2>5. QED
    BY <1>1, <1>2, <2>1, <2>2, <2>3, <2>4, RegistrationsSend
<1>7. CASE pending[pid[c]] = Empty
  <2>1. /\ waiters' = [waiters EXCEPT ![pid[c]] = c]
        /\ pending' = pending /\ exit_ch' = exit_ch
    BY <1>1, <1>7 DEF RegisterWaiter
  <2>2. QED
    BY <1>0, <1>1, <1>2, <1>7, <2>1, RegistrationsWaiter
<1>8. QED
  BY <1>6, <1>7

\* A result goes to the waiter of its pid, or into the buffer, where no waiter
\* of that pid is.
LEMMA RegistrationsDeliver ==
  ASSUME TypeOK, Registrations, NEW n \in Pid, NEW r \in TerminationReason,
         r # Empty, Deliver(n, r),
         UNCHANGED <<caller, spawned, rx, result, proc, pid>>,
         listener' = "done" <=> listener = "done"
  PROVE  Registrations'
<1> USE Identities
<1>1. CASE waiters[n] # Nobody
  <2>1. PICK c \in Call : c = waiters[n]
    BY <1>1 DEF TypeOK
  <2>2. /\ waiters' = [waiters EXCEPT ![n] = Nobody]
        /\ SendExit(c, r) /\ pending' = pending
    BY <1>1, <2>1 DEF Deliver
  <2>3. /\ \A m \in Pid : waiters'[m] \in {waiters[m], Nobody}
        /\ \A m \in Pid : pending'[m] \in {pending[m], Empty}
    BY <2>2 DEF TypeOK
  <2>4. \A d \in Call : d # c => (SenderAlive(d)' <=> SenderAlive(d))
    BY <2>1, <2>2 DEF SenderAlive, TypeOK
  <2>5. SenderAlive(c) /\ \A i \in DOMAIN rx : rx[i] # c
    BY <2>1 DEF SenderAlive, Registrations, RegisteredOnce
  <2>6. \A m \in Pid : waiters'[m] # c
    BY <2>1, <2>2 DEF TypeOK
  <2>7. ~SenderAlive(c)'
    BY <2>5, <2>6 DEF SenderAlive
  <2>8. QED
    BY <2>2, <2>3, <2>4, <2>5, <2>7, RegistrationsSend
<1>2. CASE waiters[n] = Nobody
  <2>1. /\ pending' = [pending EXCEPT ![n] = r]
        /\ waiters' = waiters /\ exit_ch' = exit_ch
    BY <1>2 DEF Deliver
  <2>2. \A d : SenderAlive(d)' <=> SenderAlive(d)
    BY <2>1 DEF SenderAlive
  <2>3. RegistrationMeetsExit'
    BY <1>2, <2>1 DEF TypeOK, Registrations, RegistrationMeetsExit
  <2>4. RegisteredOnce' /\ RegisteredMeansUnreported'
    BY <2>1, <2>2 DEF Registrations, RegisteredOnce, RegisteredMeansUnreported
  <2>5. OnePidOneHandle' /\ RegisteredInOrder'
    BY <2>1 DEF Registrations, OnePidOneHandle, HandleOpen, RegisteredInOrder
  <2>6. RegisteredOrReported'
    <3>1. spawned \subseteq Call
      BY DEF TypeOK
    <3>2. QED
      BY <2>1, <2>2, <3>1 DEF Registrations, RegisteredOrReported
  <2>7. FallBackOnlyWithoutListener'
    BY DEF Registrations, FallBackOnlyWithoutListener
  <2>8. QED
    BY <2>3, <2>4, <2>5, <2>6, <2>7 DEF Registrations
<1>3. QED
  BY <1>1, <1>2

\* A packet that is no exit changes nothing, one that is delivers a result.
LEMMA RegistrationsDispatch ==
  ASSUME TypeOK, Registrations, DispatchNotification,
         listener' = "done" <=> listener = "done"
  PROVE  Registrations'
<1> USE Identities DEF DispatchNotification, callerVars, osVars
<1>1. Head(port).pid \in Pid
  BY DEF HeadKey, Shutdown, TypeOK
<1>2. CASE ~IsExit(Head(port).type)
  <2>1. /\ UNCHANGED <<spawned, waiters, pending, rx, exit_ch, result, pid>>
        /\ UNCHANGED <<caller, proc>>
    BY <1>2
  <2>2. QED
    BY <2>1, RegistrationsFrame
    DEF Registrations, RegisteredOnce, FallBackOnlyWithoutListener
<1>3. CASE IsExit(Head(port).type)
  <2>1. PICK n \in Pid, r \in TerminationReason : Deliver(n, r) /\ r # Empty
    BY <1>1, <1>3, ClassifyExitType
  <2>2. UNCHANGED <<caller, spawned, rx, result, proc, pid>>
    OBVIOUS
  <2>3. QED
    BY <2>1, <2>2, RegistrationsDeliver
<1>4. QED
  BY <1>2, <1>3

\* The end of the listener drops what it holds.
LEMMA RegistrationsListenerEnds ==
  ASSUME TypeOK, Registrations, ListenerEnds
  PROVE  Registrations'
<1> USE Identities DEF Registrations
<1>1. /\ UNCHANGED <<caller, spawned, exit_ch, result, proc, pid>>
      /\ listener' = "done" /\ rx' = <<>>
      /\ \A n \in Pid : waiters'[n] = Nobody /\ pending'[n] = Empty
  BY DEF ListenerEnds, callerVars, osVars
<1>2. \A c \in Call : ~SenderAlive(c)'
  BY <1>1 DEF SenderAlive
<1>3. RegisteredOnce' /\ RegisteredMeansUnreported'
  BY <1>1, <1>2 DEF RegisteredOnce, RegisteredMeansUnreported
<1>4. OnePidOneHandle' /\ RegisteredInOrder'
  BY <1>1 DEF OnePidOneHandle, HandleOpen, RegisteredInOrder
<1>5. /\ RegisteredOrReported' /\ RegistrationMeetsExit'
      /\ FallBackOnlyWithoutListener'
  BY <1>1 DEF RegisteredOrReported, RegistrationMeetsExit,
              FallBackOnlyWithoutListener
<1>6. QED
  BY <1>3, <1>4, <1>5

\* A step of the listener keeps registrations and results right.
LEMMA RegistrationsListenerStep ==
  ASSUME TypeOK, Registrations, ListenerStep
  PROVE  Registrations'
<1>1. CASE ListenerRegistered \/ ListenerShutdown \/ ListenerTimeout
  <2>1. /\ UNCHANGED <<spawned, waiters, pending, rx, exit_ch, result, pid>>
        /\ UNCHANGED <<caller, proc>>
        /\ listener' = "done" <=> listener = "done"
    BY <1>1 DEF ListenerRegistered, ListenerShutdown, ListenerTimeout,
                AfterTimeout, callerVars, osVars
  <2>2. QED
    BY <2>1, RegistrationsFrame
    DEF Registrations, RegisteredOnce, FallBackOnlyWithoutListener
<1>2. CASE ListenerPacket \/ DrainPacket
  BY <1>2, RegistrationsDispatch DEF ListenerPacket, DrainPacket
<1>3. QED
  BY <1>1, <1>2, RegistrationsListenerRegister, RegistrationsListenerEnds
  DEF ListenerStep

\* Processes that are no calls have no handle open; a child keeps its pid.
LEMMA RegistrationsProcessStep ==
  ASSUME TypeOK, Registrations, ProcessStep
  PROVE  Registrations'
<1> USE Identities DEF callerVars, listenerVars
<1>1. ASSUME NEW s \in Stranger, NEW n \in Pid, StrangerStarts(s, n)
      PROVE  Registrations'
  <2> USE DEF Registrations
  <2>1. /\ UNCHANGED <<caller, spawned, listener, waiters, pending, rx, exit_ch,
                       result>>
        /\ proc[s] = "none" /\ proc' = [proc EXCEPT ![s] = "running"]
        /\ pid' = [pid EXCEPT ![s] = n]
    BY <1>1 DEF StrangerStarts, Enter
  <2>2. s \notin Call
    BY IocpAssumption
  <2>3. /\ pid'[s] = n
        /\ \A p \in Process : p # s => proc'[p] = proc[p] /\ pid'[p] = pid[p]
    BY <2>1 DEF TypeOK
  <2>4. \A c \in Call : proc'[c] = proc[c] /\ pid'[c] = pid[c]
    BY <2>2, <2>3
  <2>5. \A c : SenderAlive(c)' <=> SenderAlive(c)
    BY <2>1 DEF SenderAlive
  <2>6. \A c \in Call : HandleOpen(c)' <=> HandleOpen(c)
    BY <2>1, <2>4 DEF HandleOpen
  <2>7. RegisteredOnce'
    BY <2>1, <2>4, <2>5 DEF RegisteredOnce
  <2>8. OnePidOneHandle'
    BY <2>3, <2>4, <2>6 DEF OnePidOneHandle
  <2>9. RegisteredInOrder'
    <3>1. \A i \in DOMAIN rx : rx[i] \in Call
      BY DEF TypeOK
    <3>2. QED
      BY <2>1, <2>4, <3>1 DEF RegisteredInOrder
  <2>10. RegisteredMeansUnreported'
    BY <2>1, <2>5 DEF RegisteredMeansUnreported
  <2>11. RegisteredOrReported'
    <3>1. spawned \subseteq Call
      BY DEF TypeOK
    <3>2. QED
      BY <2>1, <2>5, <3>1 DEF RegisteredOrReported
  <2>12. RegistrationMeetsExit' /\ FallBackOnlyWithoutListener'
    BY <2>1 DEF RegistrationMeetsExit, FallBackOnlyWithoutListener
  <2>13. QED
    BY <2>7, <2>8, <2>9, <2>10, <2>11, <2>12
<1>2. ASSUME NEW p \in Process,
             NEW how \in {"EXIT_PROCESS", "ABNORMAL_EXIT_PROCESS"},
             NEW notified \in BOOLEAN, Exit(p, how, notified)
      PROVE  Registrations'
  <2>1. /\ UNCHANGED <<spawned, waiters, pending, rx, exit_ch, result, pid>>
        /\ UNCHANGED <<caller, listener>>
    BY <1>2 DEF Exit
  <2>2. \A q \in Process : proc'[q] = "none" <=> proc[q] = "none"
    BY <1>2 DEF Exit, TypeOK
  <2>3. QED
    BY <2>1, <2>2, RegistrationsFrame
    DEF Registrations, RegisteredOnce, FallBackOnlyWithoutListener
<1>3. QED
  BY <1>1, <1>2 DEF ProcessStep

\* A stuttering step changes nothing.
LEMMA HandOverStutter ==
  ASSUME TypeOK, HandOver, UNCHANGED vars
  PROVE  HandOver'
<1>1. /\ UNCHANGED <<spawned, waiters, pending, rx, exit_ch, result, pid>>
      /\ UNCHANGED <<caller, listener, proc, port, jobRefs, iocpRefs>>
  BY DEF vars, callerVars, listenerVars, osVars
<1>2. Registrations'
  BY <1>1, RegistrationsFrame, Identities
  DEF HandOver, Registrations, RegisteredOnce, FallBackOnlyWithoutListener
<1>3. Drops'
  BY <1>1
  DEF HandOver, Drops, RefsAsHeld, ClosedJobIsEmpty, ShutdownAfterJobClosed
<1>4. QED
  BY <1>2, <1>3 DEF HandOver

-----------------------------------------------------------------------------
(* The theorems.                                                           *)

\* Types and hand-over hold in every state; neither is inductive alone.
LEMMA Inductive == Spec => [](TypeOK /\ HandOver)
<1>1. Init => TypeOK /\ HandOver
  BY TypeInit, DropsInit, RegistrationsInit DEF HandOver
<1>2. ASSUME TypeOK, HandOver, [Next]_vars
      PROVE  TypeOK' /\ HandOver'
  <2>1. CASE CallerStep
    BY <1>2, <2>1, TypeCallerStep, DropsCallerStep, RegistrationsCallerStep
    DEF HandOver
  <2>2. CASE ListenerStep
    BY <1>2, <2>2, TypeListenerStep, DropsListenerStep,
       RegistrationsListenerStep DEF HandOver
  <2>3. CASE ProcessStep
    BY <1>2, <2>3, TypeProcessStep, DropsProcessStep, RegistrationsProcessStep
    DEF HandOver
  <2>4. CASE UNCHANGED vars
    BY <1>2, <2>4, TypeStutter, HandOverStutter
  <2>5. QED
    BY <1>2, <2>1, <2>2, <2>3, <2>4 DEF Next
<1>3. QED
  BY <1>1, <1>2, PTL DEF Spec

\* Every variable has its type, and a waiter is filed in the listener's map
\* under the pid of its own child, although it is filed later than the pid is
\* given and pids are given out again.
THEOREM TypeCorrect == Spec => []TypeOK
<1>1. QED
  BY Inductive, PTL

\* What spawn_job_monitored(), iocp_loop(), wait_diagnosed() and the drops of
\* core.rs rely on holds for any number of owners, processes and pids.
THEOREM HandOverCorrect == Spec => []HandOver
<1>1. QED
  BY Inductive, PTL

\* register() and dispatch_notification() never miss each other: no pid has a
\* waiter and a buffered result.
THEOREM RegistrationNeverMissesExit == Spec => []RegistrationMeetsExit
<1>1. HandOver => RegistrationMeetsExit
  BY DEF HandOver, Registrations
<1>2. QED
  BY <1>1, Inductive, PTL

\* The listener thread is never blocked by the one-place exit channel of a
\* waiter that it answers.
THEOREM ListenerNeverBlocks == Spec => []RegisteredMeansUnreported
<1>1. HandOver => RegisteredMeansUnreported
  BY DEF HandOver, Registrations
<1>2. QED
  BY <1>1, Inductive, PTL

\* wait_diagnosed() falls back to the plain wait only when the listener thread
\* has ended, never because its registration was lost or replaced.
THEOREM FallBackIsLast == Spec => []FallBackOnlyWithoutListener
<1>1. HandOver => FallBackOnlyWithoutListener
  BY DEF HandOver, Registrations
<1>2. QED
  BY <1>1, Inductive, PTL

\* However many commands share them, the job is closed and its processes are
\* dying before the last owner of the listener posts the shutdown packet.
THEOREM ShutdownIsLast == Spec => []ShutdownAfterJobClosed
<1>1. HandOver => ShutdownAfterJobClosed
  BY DEF HandOver, Drops
<1>2. QED
  BY <1>1, Inductive, PTL

-----------------------------------------------------------------------------
(* The refinement of ExitReport.                                           *)

\* The owner of one child moves, the others stay where ExitReport sees them.
LEMMA StageMoves ==
  ASSUME NEW c \in Call, \A d \in Call \ {c} : Stage(d)' = Stage(d)
  PROVE  Stages' = [Stages EXCEPT ![c] = Stage(c)']
  BY DEF Stages

\* Where ExitReport sees an owner depends on its thread and on its spawn().
LEMMA StageKept ==
  ASSUME NEW c, caller'[c] = caller[c], c \in spawned' <=> c \in spawned
  PROVE  Stage(c)' = Stage(c)
  BY DEF Stage

\* Steps that leave the owners, the senders and the channels alone.
LEMMA PromiseStutters ==
  ASSUME \A c \in Call : Stage(c)' = Stage(c), Senders' = Senders,
         UNCHANGED <<exit_ch, result>>,
         (listener = "done") = (listener' = "done")
  PROVE  UNCHANGED Promise!vars
<1>1. Stages' = Stages
  BY DEF Stages
<1>2. QED
  BY <1>1 DEF Promise!vars

\* Where each owner starts.
LEMMA PromiseInit == Init => Promise!Init
<1>1. SUFFICES ASSUME Init
               PROVE  Promise!Init
  OBVIOUS
<1>2. \A c \in Call : Stage(c) = "new" /\ ~SenderAlive(c)
  BY <1>1, Identities DEF Init, Stage, SenderAlive, Owner
<1>3. Stages = [c \in Call |-> "new"] /\ Senders = {}
  BY <1>2 DEF Stages, Senders
<1>4. QED
  BY <1>1, <1>3 DEF Init, Promise!Init

\* A call that ends without a child has handed over nothing.
LEMMA PromiseRefuse ==
  ASSUME TypeOK, Registrations, NEW c \in Call,
         caller[c] \in {"ready", "created"},
         caller' = [caller EXCEPT ![c] = "releaseJob"],
         UNCHANGED <<spawned, listener, waiters, rx, exit_ch, result>>
  PROVE  Promise!Refuse(c)
<1> USE Identities DEF TypeOK
<1>1. c \notin spawned
  BY DEF Registrations, RegisteredOnce
<1>2. ~SenderAlive(c) /\ exit_ch[c] = Empty
  BY <1>1 DEF Registrations, RegisteredOnce
<1>3. c \notin Senders /\ Senders' = Senders
  <2>1. \A d \in Call : SenderAlive(d)' <=> SenderAlive(d)
    BY DEF SenderAlive
  <2>2. QED
    BY <1>2, <2>1 DEF Senders
<1>4. /\ Stage(c) = "new" /\ Stage(c)' = "dropped"
      /\ \A d \in Call \ {c} : Stage(d)' = Stage(d)
  <2>1. caller'[c] = "releaseJob" /\ \A d \in Call \ {c} : caller'[d] = caller[d]
    OBVIOUS
  <2>2. Stage(c) = "new" /\ Stage(c)' = "dropped"
    BY <1>1, <2>1 DEF Stage
  <2>3. QED
    BY <2>1, <2>2, StageKept
<1>5. Stages' = [Stages EXCEPT ![c] = "dropped"] /\ Stages[c] = "new"
  BY <1>4, StageMoves DEF Stages
<1>6. QED
  BY <1>2, <1>3, <1>5 DEF Promise!Refuse

\* register() opens the child; the sender is lost if the listener is gone.
LEMMA PromiseRegister ==
  ASSUME TypeOK, Registrations, NEW c \in Call, Register(c)
  PROVE  Promise!Open(c)
<1> USE Identities DEF TypeOK
<1>1. /\ UNCHANGED <<listener, waiters, exit_ch, result>>
      /\ caller[c] = "locked" /\ caller' = [caller EXCEPT ![c] = "releaseJob"]
      /\ spawned' = spawned \cup {c}
      /\ rx' = IF listener = "done" THEN rx ELSE Append(rx, c)
  BY DEF Register, listenerVars
<1>2. c \notin spawned
  BY <1>1 DEF Registrations, RegisteredOnce
<1>3. Senders' = IF listener = "done" THEN Senders ELSE Senders \cup {c}
  <2>1. CASE listener = "done"
    BY <1>1, <2>1 DEF Senders, SenderAlive
  <2>2. CASE listener # "done"
    <3>1. /\ DOMAIN rx' = DOMAIN rx \cup {Len(rx) + 1}
          /\ rx'[Len(rx) + 1] = c
          /\ \A i \in DOMAIN rx : rx'[i] = rx[i]
      BY <1>1, <2>2
    <3>2. QED
      BY <1>1, <2>2, <3>1 DEF Senders, SenderAlive
  <2>3. QED
    BY <2>1, <2>2
<1>4. /\ Stage(c) = "new" /\ Stage(c)' = "opened"
      /\ \A d \in Call \ {c} : Stage(d)' = Stage(d)
  BY <1>1, <1>2 DEF Stage
<1>5. Stages' = [Stages EXCEPT ![c] = "opened"] /\ Stages[c] = "new"
  BY <1>4, StageMoves DEF Stages
<1>6. QED
  BY <1>1, <1>3, <1>5 DEF Promise!Open

\* The other steps before the child is there, and the drops.
LEMMA PromiseOwner ==
  ASSUME TypeOK, Registrations, NEW o \in Owner,
         \/ ReleaseJob(o) \/ ReleaseIocp(o) \/ JoinListener(o)
         \/ o = Root /\ GiveUp(o)
         \/ o \in Call /\ (CreateCommand(o) \/ StartIocp(o)
                             \/ \E n \in Pid : CreateProcess(o, n))
  PROVE  UNCHANGED Promise!vars
<1> USE Identities DEF TypeOK
<1>1. UNCHANGED <<spawned, waiters, rx, exit_ch, result>>
  BY DEF ReleaseJob, ReleaseIocp, JoinListener, GiveUp, CreateCommand,
     StartIocp, CreateProcess, listenerVars
<1>2. (listener = "done") = (listener' = "done")
  BY DEF ReleaseJob, ReleaseIocp, JoinListener, GiveUp, CreateCommand,
     StartIocp, CreateProcess, listenerVars
<1>3. \A c \in Call : c # o => caller'[c] = caller[c]
  BY DEF ReleaseJob, ReleaseIocp, JoinListener, GiveUp, CreateCommand,
     StartIocp, CreateProcess
<1>4. o \in Call =>
        \/ /\ caller[o] \in {"idle", "ready", "created"}
           /\ caller'[o] \in {"ready", "created", "locked"}
        \/ /\ caller[o] \in {"releaseJob", "releaseIocp", "joining"}
           /\ caller'[o] \in {"releaseIocp", "joining", AfterRelease(o)}
  BY DEF ReleaseJob, ReleaseIocp, JoinListener, GiveUp, CreateCommand,
     StartIocp, CreateProcess
<1>5. \A c \in Call : Stage(c)' = Stage(c)
  <2>1. o \in Call => Stage(o)' = Stage(o)
    BY <1>1, <1>4 DEF AfterRelease, Stage
  <2>2. QED
    BY <1>1, <1>3, <2>1, StageKept
<1>6. Senders' = Senders
  BY <1>1 DEF Senders, SenderAlive
<1>7. QED
  BY <1>1, <1>2, <1>5, <1>6, PromiseStutters

\* The steps of the WorrywartChild are those of ExitReport; when it falls
\* back to the plain wait the thread has ended.
LEMMA PromiseChild ==
  ASSUME TypeOK, Registrations, NEW c \in Call,
         CallWait(c) \/ ReceiveResult(c) \/ FallBackToPlain(c)
           \/ WaitPlain(c) \/ DropChild(c)
  PROVE  Promise!Next
<1> USE Identities DEF TypeOK
<1>1. UNCHANGED <<spawned, listener, waiters, rx>>
  BY DEF CallWait, ReceiveResult, FallBackToPlain, WaitPlain, DropChild,
     listenerVars
<1>2. c \in spawned /\ Senders' = Senders
  BY <1>1 DEF CallWait, ReceiveResult, FallBackToPlain, WaitPlain, DropChild,
     Senders, SenderAlive, Registrations, RegisteredOnce
<1>3. \A d \in Call \ {c} : Stage(d)' = Stage(d)
  BY <1>1 DEF CallWait, ReceiveResult, FallBackToPlain, WaitPlain, DropChild,
     Stage
<1>4. Stages' = [Stages EXCEPT ![c] = Stage(c)'] /\ Stages[c] = Stage(c)
  BY <1>3, StageMoves DEF Stages
<1>5. CASE CallWait(c)
  <2>1. Stage(c) = "opened" /\ Stage(c)' = "waiting"
    BY <1>1, <1>2, <1>5 DEF CallWait, Stage
  <2>2. Promise!Wait(c)
    BY <1>1, <1>2, <1>4, <1>5, <2>1 DEF CallWait, Promise!Wait
  <2>3. QED
    BY <2>2 DEF Promise!Next
<1>6. CASE ReceiveResult(c)
  <2>1. Stage(c) = "waiting" /\ Stage(c)' = "diagnosed"
    BY <1>1, <1>2, <1>6 DEF ReceiveResult, Stage
  <2>2. Promise!Receive(c)
    BY <1>1, <1>2, <1>4, <1>6, <2>1 DEF ReceiveResult, Promise!Receive
  <2>3. QED
    BY <2>2 DEF Promise!Next
<1>7. CASE FallBackToPlain(c)
  <2>1. Stage(c) = "waiting" /\ Stage(c)' = "plain"
    BY <1>1, <1>2, <1>7 DEF FallBackToPlain, Stage
  <2>2. listener = "done"
    BY <1>2, <1>7 DEF FallBackToPlain, Registrations, RegisteredOrReported
  <2>3. Promise!FallBack(c)
    BY <1>1, <1>2, <1>4, <1>7, <2>1, <2>2 DEF FallBackToPlain, Promise!FallBack
  <2>4. QED
    BY <2>3 DEF Promise!Next
<1>8. CASE WaitPlain(c)
  <2>1. Stage(c) = "plain" /\ Stage(c)' = "diagnosed"
    BY <1>1, <1>2, <1>8 DEF WaitPlain, Stage
  <2>2. Promise!AskPlain(c, Reason("Unknown", c))
    BY <1>1, <1>2, <1>4, <1>8, <2>1 DEF WaitPlain, Promise!AskPlain
  <2>3. QED
    BY <2>2 DEF Promise!Next
<1>9. CASE DropChild(c)
  <2>1. Stage(c) \in {"opened", "diagnosed"} /\ Stage(c)' = "dropped"
    BY <1>1, <1>2, <1>9 DEF DropChild, Stage
  <2>2. Promise!Drop(c)
    BY <1>1, <1>2, <1>4, <1>9, <2>1 DEF DropChild, Promise!Drop
  <2>3. QED
    BY <2>2 DEF Promise!Next
<1>10. QED
  BY <1>5, <1>6, <1>7, <1>8, <1>9

\* A step of the callers is one of ExitReport.
LEMMA PromiseCallerStep ==
  ASSUME TypeOK, Registrations, CallerStep
  PROVE  [Promise!Next]_Promise!vars
<1>1. ASSUME NEW c \in Call, GiveUp(c) \/ StartFails(c)
      PROVE  Promise!Next
  <2>1. Promise!Refuse(c)
    BY <1>1, PromiseRefuse DEF GiveUp, StartFails, listenerVars
  <2>2. QED
    BY <2>1 DEF Promise!Next
<1>2. ASSUME NEW c \in Call, Register(c)
      PROVE  Promise!Next
  BY <1>2, PromiseRegister DEF Promise!Next
<1>3. ASSUME NEW o \in Owner,
             GiveUp(o) \/ ReleaseJob(o) \/ ReleaseIocp(o) \/ JoinListener(o)
      PROVE  [Promise!Next]_Promise!vars
  BY <1>1, <1>3, PromiseOwner DEF Owner
<1>4. ASSUME NEW c \in Call,
             CreateCommand(c) \/ StartIocp(c)
               \/ \E n \in Pid : CreateProcess(c, n)
      PROVE  UNCHANGED Promise!vars
  <2>1. c \in Owner
    BY Identities
  <2>2. QED
    BY <1>4, <2>1, PromiseOwner
<1>5. QED
  BY <1>1, <1>2, <1>3, <1>4, PromiseChild DEF CallerStep

\* Where the callers stay, so do the stages.
LEMMA StagesKept ==
  ASSUME UNCHANGED <<caller, spawned>>
  PROVE  Stages' = Stages /\ \A c \in Call : Stage(c)' = Stage(c)
  BY DEF Stages, Stage

\* The one use of a sender: on a free channel, whose owner is there unless
\* it has dropped the child.
LEMMA PromiseReport ==
  ASSUME TypeOK, Registrations, NEW c \in Call, NEW r \in TerminationReason,
         SendExit(c, r), SenderAlive(c), ~SenderAlive(c)',
         \A d \in Call : d # c => (SenderAlive(d)' <=> SenderAlive(d)),
         UNCHANGED <<caller, spawned, result>>,
         (listener = "done") = (listener' = "done")
  PROVE  Promise!Next
<1>1. Stages' = Stages
  BY StagesKept
<1>2. Stages[c] = "dropped" <=> caller[c] = "finished"
  <2>1. /\ c \in spawned /\ caller[c] \in CallerState
        /\ caller[c] \notin {"idle", "ready", "created", "locked"}
    BY Identities DEF Registrations, RegisteredOnce, TypeOK
  <2>2. QED
    BY <2>1 DEF Stages, Stage, CallerState
<1>3. c \in Senders /\ Senders' = Senders \ {c}
  BY DEF Senders
<1>4. Promise!Report(c, r)
  BY <1>1, <1>2, <1>3 DEF SendExit, Promise!Report
<1>5. QED
  BY <1>4 DEF Promise!Next

\* A registration is answered from the buffer, waits under its pid, or takes
\* the place of the waiter of a child that was dropped.
LEMMA PromiseListenerRegister ==
  ASSUME TypeOK, Registrations, ListenerRegister
  PROVE  [Promise!Next]_Promise!vars
<1> USE Identities
<1>0. PICK c \in Call : c = Head(rx)
  BY DEF ListenerRegister, TypeOK
<1>1. /\ rx # <<>> /\ rx' = Tail(rx) /\ RegisterWaiter(c)
      /\ UNCHANGED <<caller, spawned, listener, result, proc, pid>>
      /\ \E i \in DOMAIN rx : rx[i] = c
  BY <1>0 DEF ListenerRegister, TypeOK, callerVars, osVars
<1>2. pid[c] \in Pid /\ SenderAlive(c)
  BY <1>1 DEF Registrations, RegisteredOnce, OnePidOneHandle, SenderAlive
<1>3. \A i \in DOMAIN Tail(rx) : i + 1 \in DOMAIN rx /\ Tail(rx)[i] = rx[i + 1]
  BY <1>1 DEF TypeOK
<1>4. \A i \in DOMAIN rx : i # 1 => i - 1 \in DOMAIN Tail(rx)
                                      /\ Tail(rx)[i - 1] = rx[i]
  BY <1>1 DEF TypeOK
<1>5. 1 \in DOMAIN rx /\ rx[1] = c /\ \A i \in DOMAIN Tail(rx) : i + 1 # 1
  BY <1>0, <1>1 DEF TypeOK
<1>6. CASE pending[pid[c]] # Empty
  <2>0. PICK r : r = pending[pid[c]]
    OBVIOUS
  <2>1. /\ SendExit(c, r) /\ waiters' = waiters /\ r \in TerminationReason
    BY <1>1, <1>2, <1>6, <2>0 DEF RegisterWaiter, TypeOK
  <2>2. \A d \in Call : d # c => (SenderAlive(d)' <=> SenderAlive(d))
    BY <1>1, <1>3, <1>4, <1>5, <2>1 DEF SenderAlive
  <2>3. ~SenderAlive(c)'
    <3>1. /\ \A m \in Pid : waiters[m] # c
          /\ \A i \in DOMAIN Tail(rx) : Tail(rx)[i] # c
      BY <1>3, <1>5 DEF Registrations, RegisteredOnce
    <3>2. QED
      BY <1>1, <2>1, <3>1 DEF SenderAlive
  <2>4. QED
    BY <1>1, <1>2, <2>1, <2>2, <2>3, PromiseReport
<1>7. CASE pending[pid[c]] = Empty
  <2>0. PICK d : d = waiters[pid[c]]
    OBVIOUS
  <2>1. /\ waiters' = [waiters EXCEPT ![pid[c]] = c] /\ exit_ch' = exit_ch
    BY <1>1, <1>7 DEF RegisterWaiter
  <2>2. Stages' = Stages /\ \A e \in Call : Stage(e)' = Stage(e)
    BY <1>1, StagesKept
  <2>3. \A e \in Call : e # d => (SenderAlive(e)' <=> SenderAlive(e))
    <3>1. /\ waiters'[pid[c]] = c
          /\ \A m \in Pid : m # pid[c] => waiters'[m] = waiters[m]
      BY <2>1, <1>2 DEF TypeOK
    <3>2. SenderAlive(c)'
      BY <1>2, <3>1 DEF SenderAlive
    <3>3. \A e \in Call \ {c} :
            (\E i \in DOMAIN rx' : rx'[i] = e) <=> \E i \in DOMAIN rx : rx[i] = e
      BY <1>1, <1>3, <1>4, <1>5
    <3>4. \A e \in Call \ {c} : e # d =>
            ((\E m \in Pid : waiters'[m] = e) <=> \E m \in Pid : waiters[m] = e)
      BY <1>2, <2>0, <3>1
    <3>5. QED
      BY <1>2, <3>2, <3>3, <3>4 DEF SenderAlive
  <2>4. CASE d \notin Call
    BY <1>1, <2>1, <2>2, <2>3, <2>4, PromiseStutters DEF Senders
  <2>5. CASE d \in Call
    <3>1. d # c /\ pid[d] = pid[c] /\ d # Nobody
      BY <1>1, <1>2, <2>0, <2>5, Identities
      DEF Registrations, RegisteredOnce, TypeOK
    <3>2. caller[d] = "finished"
      BY <1>2, <1>5, <2>5, <2>0, <3>1
      DEF Registrations, RegisteredInOrder
    <3>3. Stages[d] = "dropped"
      BY <2>5, <3>2 DEF Stages, Stage
    <3>4. /\ \A i \in DOMAIN rx : rx[i] # d
          /\ \A m \in Pid : waiters[m] = d => m = pid[c]
      BY <1>2, <2>0, <2>5, <3>1 DEF Registrations, RegisteredOnce, TypeOK
    <3>5. ~SenderAlive(d)'
      <4>1. \A m \in Pid : waiters'[m] # d
        BY <1>2, <2>1, <3>1, <3>4 DEF TypeOK
      <4>2. \A i \in DOMAIN rx' : rx'[i] # d
        BY <1>1, <1>3, <3>4
      <4>3. QED
        BY <4>1, <4>2 DEF SenderAlive
    <3>6. Senders' = Senders \ {d}
      BY <2>3, <3>5 DEF Senders
    <3>7. Promise!Forget(d)
      BY <1>1, <2>1, <2>2, <3>3, <3>6 DEF Promise!Forget
    <3>8. QED
      BY <2>5, <3>7 DEF Promise!Next
  <2>6. QED
    BY <2>4, <2>5
<1>8. QED
  BY <1>6, <1>7

\* An exit is reported to the waiter of its pid, or buffered.
LEMMA PromiseDispatch ==
  ASSUME TypeOK, Registrations, DispatchNotification,
         (listener = "done") = (listener' = "done")
  PROVE  [Promise!Next]_Promise!vars
<1> USE Identities
<1>1. Head(port).pid \in Pid /\ UNCHANGED <<caller, spawned, rx, result>>
  BY DEF DispatchNotification, HeadKey, Shutdown, TypeOK, callerVars
<1>2. Stages' = Stages /\ \A c \in Call : Stage(c)' = Stage(c)
  BY <1>1, StagesKept
<1>3. CASE UNCHANGED <<waiters, exit_ch>>
  <2>1. Senders' = Senders
    BY <1>1, <1>3 DEF Senders, SenderAlive
  <2>2. QED
    BY <1>1, <1>2, <1>3, <2>1, PromiseStutters
<1>4. CASE ~UNCHANGED <<waiters, exit_ch>>
  <2>1. PICK n \in Pid, r \in TerminationReason : Deliver(n, r)
    BY <1>1, <1>4, ClassifyExitType DEF DispatchNotification
  <2>2. waiters[n] # Nobody
    BY <1>4, <2>1 DEF Deliver
  <2>3. PICK c \in Call : c = waiters[n]
    BY <2>2 DEF TypeOK
  <2>4. waiters' = [waiters EXCEPT ![n] = Nobody] /\ SendExit(c, r)
    BY <2>1, <2>2, <2>3 DEF Deliver
  <2>5. \A d \in Call : d # c => (SenderAlive(d)' <=> SenderAlive(d))
    BY <1>1, <2>3, <2>4 DEF SenderAlive, TypeOK
  <2>6. SenderAlive(c) /\ \A i \in DOMAIN rx : rx[i] # c
    BY <2>3 DEF SenderAlive, Registrations, RegisteredOnce
  <2>7. \A m \in Pid : waiters'[m] # c
    BY <2>3, <2>4 DEF TypeOK
  <2>8. ~SenderAlive(c)'
    BY <1>1, <2>6, <2>7 DEF SenderAlive
  <2>9. QED
    BY <1>1, <2>4, <2>5, <2>6, <2>8, PromiseReport
<1>5. QED
  BY <1>3, <1>4

\* A step of the listener is one of ExitReport.
LEMMA PromiseListenerStep ==
  ASSUME TypeOK, Registrations, ListenerStep
  PROVE  [Promise!Next]_Promise!vars
<1>1. CASE ListenerRegistered \/ ListenerShutdown \/ ListenerTimeout
  <2>1. /\ UNCHANGED <<caller, spawned, waiters, rx, exit_ch, result>>
        /\ (listener = "done") = (listener' = "done")
    BY <1>1 DEF ListenerRegistered, ListenerShutdown, ListenerTimeout,
                AfterTimeout, callerVars
  <2>2. Senders' = Senders
    BY <2>1 DEF Senders, SenderAlive
  <2>3. QED
    BY <2>1, <2>2, StagesKept, PromiseStutters
<1>2. CASE ListenerPacket \/ DrainPacket
  <2>1. DispatchNotification /\ (listener = "done") = (listener' = "done")
    BY <1>2 DEF ListenerPacket, DrainPacket
  <2>2. QED
    BY <2>1, PromiseDispatch
<1>3. CASE ListenerEnds
  <2>1. \A c \in Call : ~SenderAlive(c)'
    BY <1>3, Identities DEF ListenerEnds, SenderAlive
  <2>2. Senders' = {} /\ Stages' = Stages
    BY <1>3, <2>1, StagesKept DEF Senders, ListenerEnds, callerVars
  <2>3. Promise!End
    BY <1>3, <2>2 DEF ListenerEnds, Promise!End
  <2>4. QED
    BY <2>3 DEF Promise!Next
<1>4. QED
  BY <1>1, <1>2, <1>3, PromiseListenerRegister DEF ListenerStep

\* The processes do nothing ExitReport sees.
LEMMA PromiseProcessStep ==
  ASSUME ProcessStep \/ UNCHANGED vars
  PROVE  UNCHANGED Promise!vars
<1>1. UNCHANGED <<caller, spawned, listener, waiters, rx, exit_ch, result>>
  BY DEF ProcessStep, StrangerStarts, Enter, Exit, vars, callerVars,
     listenerVars
<1>2. Senders' = Senders
  BY <1>1 DEF Senders, SenderAlive
<1>3. QED
  BY <1>1, <1>2, StagesKept, PromiseStutters

\* The IOCP listener is a monitor thread as ExitReport describes it, for any
\* number of callers, processes and pids, reused or not, and even though it
\* ends at the first idle timeout: it uses the sender of a child at most once
\* and on a free channel, and drops one only with the thread or when the child
\* was dropped before.
THEOREM Refinement == Spec => ImplementsExitReport
<1>1. TypeOK /\ HandOver /\ [Next]_vars => [Promise!Next]_Promise!vars
  BY PromiseCallerStep, PromiseListenerStep, PromiseProcessStep
  DEF Next, HandOver
<1>2. QED
  BY <1>1, PromiseInit, Inductive, PTL
  DEF Spec, ImplementsExitReport, Promise!Spec

=============================================================================
