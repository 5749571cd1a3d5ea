-------------------------- MODULE IocpDiagnosisProofs --------------------------
(***************************************************************************)
(* Whom the listener tells what, when no pid is reused in the lifetime of  *)
(* the job: every theorem here assumes ~PidReuse, since the run with reuse *)
(* refutes them.  The listener knows pids only; that a result is that of   *)
(* the waiter's own child is followed from the process to the packet, to   *)
(* the buffer, and to the exit channel.                                    *)
(***************************************************************************)
EXTENDS IocpListenerProofs

\* What has ended stays as it is, and nobody opens its handle again.
EndsKept ==
  \A p \in Process :
    Exited(p) => /\ proc'[p] = proc[p] /\ pid'[p] = pid[p]
                 /\ HandleOpen(p)' => HandleOpen(p)

\* No exit packet is posted.
NoExitPosted ==
  \A i \in DOMAIN port' :
    IsExit(port'[i].type) => \E j \in DOMAIN port : port'[i] = port[j]

-----------------------------------------------------------------------------
(* What steps may do to the parts of the invariant.                        *)

\* A process that has ended has no state a message type does not stand for.
LEMMA ExitIsExited ==
  ASSUME NEW p, NEW type, IsExit(type), proc[p] = type
  PROVE  Exited(p)
  BY DEF IsExit, Exited

\* Packets stay true while the processes they name stay ended.
LEMMA PacketsKept ==
  ASSUME PacketsAreTrue, EndsKept, NoExitPosted
  PROVE  PacketsAreTrue'
<1>1. SUFFICES ASSUME NEW i \in DOMAIN port', IsExit(port'[i].type)
               PROVE  \E p \in Process :
                        pid'[p] = port'[i].pid /\ proc'[p] = port'[i].type
  BY DEF PacketsAreTrue, IsExit
<1>2. PICK j \in DOMAIN port : port'[i] = port[j]
  BY <1>1 DEF NoExitPosted
<1>3. PICK p \in Process : pid[p] = port[j].pid /\ proc[p] = port[j].type
  BY <1>1, <1>2 DEF PacketsAreTrue
<1>4. QED
  BY <1>1, <1>2, <1>3, ExitIsExited DEF EndsKept

\* A result that is buffered, or was before, stays true.
LEMMA BufferKept ==
  ASSUME BufferIsTrue, EndsKept,
         \A n \in Pid : pending'[n] \in {pending[n], Empty}
  PROVE  BufferIsTrue'
<1>1. SUFFICES ASSUME NEW n \in Pid, pending'[n] # Empty
               PROVE  \E p \in Process :
                        /\ pid'[p] = n /\ Exited(p)'
                        /\ pending'[n].reason = "Crash"
                             <=> proc'[p] = "ABNORMAL_EXIT_PROCESS"
                        /\ HandleOpen(p)' => pending'[n].code = p
  BY DEF BufferIsTrue, Empty, Reason
<1>2. pending'[n] = pending[n] /\ pending[n] # Empty
  BY <1>1
<1>3. PICK p \in Process :
        /\ pid[p] = n /\ Exited(p)
        /\ pending[n].reason = "Crash" <=> proc[p] = "ABNORMAL_EXIT_PROCESS"
        /\ HandleOpen(p) => pending[n].code = p
  BY <1>2 DEF BufferIsTrue
<1>4. Exited(p)' /\ pid'[p] = n /\ proc'[p] = proc[p]
  BY <1>3 DEF EndsKept, Exited
<1>5. HandleOpen(p)' => HandleOpen(p)
  BY <1>3 DEF EndsKept
<1>6. QED
  BY <1>2, <1>3, <1>4, <1>5

\* What is true of a child that has ended stays true.
LEMMA TrueKept ==
  ASSUME EndsKept, listener = "done" => listener' = "done",
         NEW c \in Call, NEW r, TrueOf(r, c)
  PROVE  (TrueOf(r, c))'
  BY Identities DEF EndsKept, TrueOf, Exited, Empty, Reason

\* Channels that keep what they hold, or lose it, stay true.
LEMMA ReportsKept ==
  ASSUME TypeOK, ReportsAreTrue, EndsKept,
         listener = "done" => listener' = "done",
         \A c \in Call : exit_ch'[c] \in {exit_ch[c], Empty},
         result' = result
  PROVE  ReportsAreTrue'
<1>1. SUFFICES ASSUME NEW c \in Call
               PROVE  (TrueOf(exit_ch[c], c) /\ TrueOf(result[c], c))'
  BY DEF ReportsAreTrue
<1>2. TrueOf(exit_ch[c], c) /\ TrueOf(result[c], c)
  BY DEF ReportsAreTrue
<1>3. TrueOf(result[c], c)'
  BY <1>2, Identities DEF EndsKept, TrueOf, Exited, Empty, Reason
<1>4. TrueOf(exit_ch[c], c)'
  BY <1>2, Identities DEF EndsKept, TrueOf, Exited, Empty, Reason
<1>5. QED
  BY <1>3, <1>4

\* One channel gets a result that is true of its child; the others are kept.
LEMMA ReportsSent ==
  ASSUME TypeOK, ReportsAreTrue, NEW c \in Call, NEW r,
         UNCHANGED <<caller, spawned, result, proc, pid>>,
         listener = "done" => listener' = "done",
         SendExit(c, r), r # Empty, Exited(c),
         r.reason = "Crash" <=> proc[c] = "ABNORMAL_EXIT_PROCESS",
         r \in TerminationReason, HandleOpen(c) => r.code = c, c \in spawned
  PROVE  ReportsAreTrue'
<1>1. SUFFICES ASSUME NEW d \in Call
               PROVE  (TrueOf(exit_ch[d], d) /\ TrueOf(result[d], d))'
  BY DEF ReportsAreTrue
<1>2. TrueOf(exit_ch[d], d) /\ TrueOf(result[d], d)
  BY DEF ReportsAreTrue
<1>3. TrueOf(result[d], d)'
  BY <1>2 DEF TrueOf, Exited, Empty, Reason
<1>4. CASE d = c /\ caller[c] # "finished"
  <2>1. exit_ch'[c] = r
    BY <1>4 DEF SendExit, TypeOK
  <2>2. HandleOpen(c)
    BY <1>4 DEF HandleOpen, Exited
  <2>3. TrueOf(exit_ch[c], c)'
    BY <2>1, <2>2 DEF TrueOf, Exited
  <2>4. QED
    BY <1>3, <1>4, <2>3
<1>5. CASE d # c \/ caller[c] = "finished"
  <2>1. exit_ch'[d] = exit_ch[d]
    BY <1>5, SendExitEffect
  <2>2. QED
    BY <1>2, <1>3, <2>1 DEF TrueOf, Exited, Empty, Reason
<1>6. QED
  BY <1>4, <1>5

\* A step that gives no pid and no result.
LEMMA NewsKept ==
  ASSUME TypeOK, NewsIsTrue, EndsKept, NoExitPosted, pid' = pid,
         \A p \in Process : proc'[p] = "none" <=> proc[p] = "none",
         listener = "done" => listener' = "done",
         \A n \in Pid : pending'[n] \in {pending[n], Empty},
         \A c \in Call : exit_ch'[c] \in {exit_ch[c], Empty},
         result' = result
  PROVE  NewsIsTrue'
<1>1. PidsIdentify'
  BY DEF NewsIsTrue, PidsIdentify
<1>2. QED
  BY <1>1, PacketsKept, BufferKept, ReportsKept DEF NewsIsTrue

-----------------------------------------------------------------------------
(* The steps of the callers.                                               *)

\* The end of a process changes nothing for the handles of ended ones, as
\* long as no owner comes back.
LEMMA OwnersMove ==
  ASSUME UNCHANGED <<proc, pid>>, spawned \subseteq spawned',
         \A c \in Call : caller[c] = "finished" => caller'[c] = "finished"
  PROVE  EndsKept
  BY DEF EndsKept, HandleOpen

\* A packet that is no exit is posted, or none is.
LEMMA PostedNoExit ==
  ASSUME TypeOK, NEW packet \in JobPacket \cup {Shutdown},
         ~IsExit(packet.type), port' = Posted(packet)
  PROVE  NoExitPosted
<1>1. port \in Seq(JobPacket \cup {Shutdown})
  BY DEF TypeOK, JobPacket
<1>2. SUFFICES ASSUME port' = Append(port, packet),
                      NEW i \in DOMAIN port', IsExit(port'[i].type)
               PROVE  \E j \in DOMAIN port : port'[i] = port[j]
  BY DEF NoExitPosted, Posted
<1>3. i \in 1 .. Len(port) + 1 /\ Len(port) \in Nat
  BY <1>1, <1>2
<1>4. i # Len(port) + 1
  BY <1>1, <1>2
<1>5. i \in DOMAIN port /\ port'[i] = port[i]
  BY <1>1, <1>2, <1>3, <1>4
<1>6. QED
  BY <1>5

\* Reading the port, or closing it.
LEMMA PortRead ==
  ASSUME TypeOK, \/ port' = port
                 \/ port' = <<>>
                 \/ port # <<>> /\ port' = Tail(port)
  PROVE  NoExitPosted
<1>1. port \in Seq(JobPacket \cup {Shutdown})
  BY DEF TypeOK, JobPacket
<1>2. CASE port # <<>> /\ port' = Tail(port)
  <2>1. \A i \in DOMAIN port' :
          i + 1 \in DOMAIN port /\ port'[i] = port[i + 1]
    BY <1>1, <1>2
  <2>2. QED
    BY <2>1 DEF NoExitPosted
<1>3. QED
  BY <1>2 DEF NoExitPosted

\* A process that joins the job has a pid nobody had.
LEMMA NewsEnter ==
  ASSUME ~PidReuse, TypeOK, NewsIsTrue, NEW p \in Process, NEW n \in Pid,
         Enter(p, n), UNCHANGED <<spawned, listener, pending, exit_ch, result>>,
         \A c \in Call : caller[c] = "finished" => caller'[c] = "finished"
  PROVE  NewsIsTrue'
<1>1. /\ proc[p] = "none" /\ \A q \in Process : pid[q] # n
      /\ proc'[p] = "running" /\ pid'[p] = n
      /\ port' = Posted(Packet("NEW_PROCESS", n))
      /\ \A q \in Process : q # p => proc'[q] = proc[q] /\ pid'[q] = pid[q]
  BY DEF Enter, FreePid, TypeOK
<1>2. PidsIdentify'
  BY <1>1, Identities DEF NewsIsTrue, PidsIdentify
<1>3. EndsKept
  BY <1>1 DEF EndsKept, Exited, HandleOpen
<1>4. NoExitPosted
  <2>1. Packet("NEW_PROCESS", n) \in JobPacket
    BY PacketType DEF MessageType
  <2>2. ~IsExit(Packet("NEW_PROCESS", n).type)
    BY DEF IsExit, Packet
  <2>3. QED
    BY <1>1, <2>1, <2>2, PostedNoExit
<1>5. QED
  BY <1>2, <1>3, <1>4, PacketsKept, BufferKept, ReportsKept DEF NewsIsTrue

\* A step of a caller keeps the news true.
LEMMA NewsCallerStep ==
  ASSUME ~PidReuse, TypeOK, HandOver, NewsIsTrue, CallerStep
  PROVE  NewsIsTrue'
<1> USE Identities DEF listenerVars, osVars
<1>1. ASSUME NEW o \in Owner, GiveUp(o) \/ JoinListener(o)
      PROVE  NewsIsTrue'
  <2>1. /\ UNCHANGED <<proc, pid, spawned, listener, pending, port, exit_ch,
                       result>>
        /\ \A c \in Call : caller[c] = "finished" => caller'[c] = "finished"
    BY <1>1 DEF GiveUp, JoinListener, TypeOK
  <2>2. QED
    BY <2>1, OwnersMove, PortRead, NewsKept
<1>2. ASSUME NEW o \in Owner, ReleaseJob(o)
      PROVE  NewsIsTrue'
  <2>1. /\ UNCHANGED <<pid, spawned, listener, pending, port, exit_ch, result>>
        /\ \A c \in Call : caller[c] = "finished" => caller'[c] = "finished"
        /\ \A p \in Process : /\ Exited(p) => proc'[p] = proc[p]
                              /\ proc'[p] = "none" <=> proc[p] = "none"
    BY <1>2 DEF ReleaseJob, TypeOK, Exited
  <2>2. EndsKept
    BY <2>1 DEF EndsKept, HandleOpen
  <2>3. QED
    BY <2>1, <2>2, PortRead, NewsKept
<1>3. ASSUME NEW o \in Owner, ReleaseIocp(o)
      PROVE  NewsIsTrue'
  <2>1. /\ UNCHANGED <<proc, pid, spawned, listener, pending, exit_ch, result>>
        /\ \A c \in Call : caller[c] = "finished" => caller'[c] = "finished"
        /\ port' = port \/ port' = Posted(Shutdown)
    BY <1>3 DEF ReleaseIocp, TypeOK
  <2>2. NoExitPosted
    BY <2>1, PortRead, PostedNoExit DEF Shutdown, IsExit
  <2>3. QED
    BY <2>1, <2>2, OwnersMove, NewsKept
<1>4. ASSUME NEW c \in Call, \/ CreateCommand(c) \/ StartIocp(c)
                             \/ StartFails(c) \/ Register(c) \/ CallWait(c)
                             \/ FallBackToPlain(c)
      PROVE  NewsIsTrue'
  <2>1. /\ UNCHANGED <<proc, pid, pending, port, exit_ch, result>>
        /\ listener = "done" => listener' = "done"
        /\ spawned \subseteq spawned'
        /\ \A d \in Call : caller[d] = "finished" => caller'[d] = "finished"
    BY <1>4 DEF CreateCommand, StartIocp, StartFails, Register, CallWait,
                FallBackToPlain, TypeOK
  <2>2. QED
    BY <2>1, OwnersMove, PortRead, NewsKept
<1>5. ASSUME NEW c \in Call, DropChild(c)
      PROVE  NewsIsTrue'
  <2>1. /\ UNCHANGED <<proc, pid, spawned, listener, pending, port, result>>
        /\ \A d \in Call : exit_ch'[d] \in {exit_ch[d], Empty}
        /\ \A d \in Call : caller[d] = "finished" => caller'[d] = "finished"
    BY <1>5 DEF DropChild, TypeOK
  <2>2. QED
    BY <2>1, OwnersMove, PortRead, NewsKept
<1>6. ASSUME NEW c \in Call, NEW n \in Pid, CreateProcess(c, n)
      PROVE  NewsIsTrue'
  <2>1. /\ Enter(c, n)
        /\ UNCHANGED <<spawned, listener, pending, exit_ch, result>>
        /\ \A d \in Call : caller[d] = "finished" => caller'[d] = "finished"
    BY <1>6 DEF CreateProcess, TypeOK
  <2>2. QED
    BY <2>1, NewsEnter
<1>7. ASSUME NEW c \in Call, ReceiveResult(c) \/ WaitPlain(c)
      PROVE  NewsIsTrue'
  <2>1. /\ UNCHANGED <<proc, pid, spawned, listener, pending, port>>
        /\ \A d \in Call : caller[d] = "finished" => caller'[d] = "finished"
    BY <1>7 DEF ReceiveResult, WaitPlain, TypeOK
  <2>2. EndsKept /\ NoExitPosted
    BY <2>1, OwnersMove, PortRead
  <2>3. PidsIdentify' /\ PacketsAreTrue' /\ BufferIsTrue'
    BY <2>1, <2>2, PacketsKept, BufferKept DEF NewsIsTrue, PidsIdentify
  <2>4. ReportsAreTrue'
    <3>1. SUFFICES ASSUME NEW d \in Call
                   PROVE  (TrueOf(exit_ch[d], d) /\ TrueOf(result[d], d))'
      BY DEF ReportsAreTrue
    <3>2. /\ TrueOf(exit_ch[d], d) /\ TrueOf(result[d], d)
          /\ caller[d] = "plain" => listener = "done"
      BY DEF NewsIsTrue, ReportsAreTrue, HandOver, Registrations,
             FallBackOnlyWithoutListener
    <3>3. CASE ReceiveResult(c)
      BY <2>1, <3>2, <3>3
      DEF ReceiveResult, TrueOf, Exited, TypeOK, Empty, Reason
    <3>4. CASE WaitPlain(c)
      BY <2>1, <3>2, <3>4
      DEF WaitPlain, TrueOf, Exited, TypeOK, Empty, Reason
    <3>5. QED
      BY <1>7, <3>3, <3>4
  <2>5. QED
    BY <2>3, <2>4 DEF NewsIsTrue
<1>8. QED
  BY <1>1, <1>2, <1>3, <1>4, <1>5, <1>6, <1>7 DEF CallerStep

-----------------------------------------------------------------------------
(* The steps of the processes.                                             *)

\* A process that ends posts the truth, or nothing.
LEMMA NewsExit ==
  ASSUME TypeOK, NewsIsTrue, NEW p \in Process,
         NEW how \in {"EXIT_PROCESS", "ABNORMAL_EXIT_PROCESS"},
         NEW notified \in BOOLEAN, Exit(p, how, notified)
  PROVE  NewsIsTrue'
<1>1. /\ UNCHANGED <<pid, spawned, caller, listener, pending, exit_ch, result>>
      /\ proc[p] \in {"running", "dying"} /\ proc'[p] = how
      /\ \A q \in Process : q # p => proc'[q] = proc[q]
      /\ port' = port \/ port' = Posted(Packet(how, pid[p]))
  BY DEF Exit, TypeOK, callerVars, listenerVars
<1>2. EndsKept
  BY <1>1 DEF EndsKept, Exited, HandleOpen
<1>3. \A q \in Process : proc'[q] = "none" <=> proc[q] = "none"
  BY <1>1
<1>4. PidsIdentify'
  BY <1>1, <1>3 DEF NewsIsTrue, PidsIdentify
<1>5. BufferIsTrue' /\ ReportsAreTrue'
  BY <1>1, <1>2, BufferKept, ReportsKept DEF NewsIsTrue
<1>6. PacketsAreTrue'
  <2>1. CASE port' = port
    BY <1>2, <2>1, PortRead, PacketsKept DEF NewsIsTrue
  <2>2. CASE port' = Append(port, Packet(how, pid[p]))
    <3>1. /\ pid[p] \in Pid
          /\ port \in Seq(JobPacket \cup {Shutdown})
          /\ Packet(how, pid[p]) \in JobPacket \cup {Shutdown}
      BY <1>1, PacketType
      DEF NewsIsTrue, PidsIdentify, TypeOK, JobPacket, MessageType
    <3>2. SUFFICES ASSUME NEW i \in DOMAIN port', IsExit(port'[i].type)
                   PROVE  \E q \in Process :
                            pid'[q] = port'[i].pid /\ proc'[q] = port'[i].type
      BY DEF PacketsAreTrue, IsExit
    <3>3. CASE i = Len(port) + 1
      <4>1. port'[i] = Packet(how, pid[p])
        BY <2>2, <3>1, <3>3
      <4>2. QED
        BY <1>1, <4>1 DEF Packet
    <3>4. CASE i # Len(port) + 1
      <4>1. i \in DOMAIN port /\ port'[i] = port[i]
        <5>1. i \in 1 .. Len(port) + 1 /\ Len(port) \in Nat
          BY <2>2, <3>1, <3>2
        <5>2. QED
          BY <2>2, <3>1, <3>4, <5>1
      <4>2. PICK q \in Process : pid[q] = port[i].pid /\ proc[q] = port[i].type
        BY <3>2, <4>1 DEF NewsIsTrue, PacketsAreTrue
      <4>3. QED
        BY <1>2, <3>2, <4>1, <4>2, ExitIsExited DEF EndsKept
    <3>5. QED
      BY <3>3, <3>4
  <2>3. QED
    BY <1>1, <2>1, <2>2 DEF Posted
<1>7. QED
  BY <1>4, <1>5, <1>6 DEF NewsIsTrue

LEMMA NewsProcessStep ==
  ASSUME ~PidReuse, TypeOK, NewsIsTrue, ProcessStep
  PROVE  NewsIsTrue'
<1>1. ASSUME NEW s \in Stranger, NEW n \in Pid, StrangerStarts(s, n)
      PROVE  NewsIsTrue'
  <2>1. /\ s \in Process /\ Enter(s, n)
        /\ UNCHANGED <<caller, spawned, listener, pending, exit_ch, result>>
    BY <1>1, Identities DEF StrangerStarts, callerVars, listenerVars
  <2>2. QED
    BY <2>1, NewsEnter
<1>2. QED
  BY <1>1, NewsExit DEF ProcessStep

-----------------------------------------------------------------------------
(* The steps of the listener.                                              *)

\* What is asked of the pid of a process that has ended is answered by it, as
\* long as its handle is open.
LEMMA CodeIsOwn ==
  ASSUME PidsIdentify, NEW p \in Process, pid[p] # Nobody, HandleOpen(p)
  PROVE  ExitCodeOf(pid[p]) = p
<1>1. Holder(pid[p]) = {p}
  BY DEF Holder, PidsIdentify
<1>2. QED
  BY <1>1 DEF ExitCodeOf

\* Only the reasons of a packet are told.
LEMMA ClassifiedTruly ==
  ASSUME NEW n, NEW type, IsExit(type)
  PROVE  /\ ClassifyExit(n, type).code = ExitCodeOf(n)
         /\ ClassifyExit(n, type).reason = "Crash"
              <=> type = "ABNORMAL_EXIT_PROCESS"
  BY DEF ClassifyExit, Reason, IsExit

\* A registration is answered from the buffer with what is true of the child.
LEMMA NewsRegister ==
  ASSUME TypeOK, HandOver, NewsIsTrue, ListenerRegister
  PROVE  NewsIsTrue'
<1> USE Identities
<1>1. PICK c \in Call : c = Head(rx)
  BY DEF ListenerRegister, TypeOK
<1>2. /\ RegisterWaiter(c) /\ rx # <<>> /\ \E i \in DOMAIN rx : rx[i] = c
      /\ UNCHANGED <<caller, spawned, listener, port, result, proc, pid>>
  BY <1>1 DEF ListenerRegister, TypeOK, callerVars, osVars
<1>3. c \in spawned /\ pid[c] \in Pid
  BY <1>2
  DEF HandOver, Registrations, RegisteredOnce, OnePidOneHandle, SenderAlive
<1>4. EndsKept /\ NoExitPosted
  BY <1>2, OwnersMove, PortRead
<1>5. CASE pending[pid[c]] = Empty
  <2>1. pending' = pending /\ exit_ch' = exit_ch
    BY <1>2, <1>5 DEF RegisterWaiter
  <2>2. QED
    BY <1>2, <1>4, <2>1, NewsKept
<1>6. CASE pending[pid[c]] # Empty
  <2>1. PICK r \in TerminationReason \cup {Empty} : r = pending[pid[c]]
    BY <1>3 DEF TypeOK
  <2>2. /\ SendExit(c, r) /\ r # Empty /\ r \in TerminationReason
        /\ \A n \in Pid : pending'[n] \in {pending[n], Empty}
    BY <1>2, <1>3, <1>6, <2>1 DEF RegisterWaiter, TypeOK
  <2>3. /\ Exited(c)
        /\ r.reason = "Crash" <=> proc[c] = "ABNORMAL_EXIT_PROCESS"
        /\ HandleOpen(c) => r.code = c
    BY <1>3, <1>6, <2>1 DEF NewsIsTrue, BufferIsTrue, PidsIdentify
  <2>4. ReportsAreTrue'
    BY <1>2, <1>3, <2>2, <2>3, ReportsSent DEF NewsIsTrue
  <2>5. PidsIdentify' /\ PacketsAreTrue' /\ BufferIsTrue'
    BY <1>2, <1>4, <2>2, PacketsKept, BufferKept DEF NewsIsTrue, PidsIdentify
  <2>6. QED
    BY <2>4, <2>5 DEF NewsIsTrue
<1>7. QED
  BY <1>5, <1>6

\* An exit packet is told to the waiter of the process it names, or buffered.
LEMMA NewsDispatch ==
  ASSUME TypeOK, HandOver, NewsIsTrue, DispatchNotification,
         listener # "done"
  PROVE  NewsIsTrue'
<1> USE Identities
<1>1. /\ port # <<>> /\ port' = Tail(port) /\ Head(port).pid \in Pid
      /\ Head(port) = port[1] /\ 1 \in DOMAIN port
      /\ UNCHANGED <<caller, spawned, result, proc, pid>>
  BY DEF DispatchNotification, HeadKey, Shutdown, TypeOK, callerVars, osVars
<1>2. EndsKept /\ NoExitPosted
  BY <1>1, OwnersMove, PortRead
<1>3. CASE ~IsExit(Head(port).type)
  <2>1. pending' = pending /\ exit_ch' = exit_ch
    BY <1>3 DEF DispatchNotification
  <2>2. QED
    BY <1>1, <1>2, <2>1, NewsKept
<1>4. CASE IsExit(Head(port).type)
  <2> PICK type : type = Head(port).type
    OBVIOUS
  <2>1. PICK n \in Pid : n = Head(port).pid /\ type = Head(port).type
    BY <1>1
  <2>2. PICK r \in TerminationReason : r = ClassifyExit(n, type)
    BY ClassifyExitType
  <2>3. Deliver(n, r) /\ IsExit(type) /\ r # Empty
    BY <1>4, <2>1, <2>2, ClassifyExitType DEF DispatchNotification
  <2>4. PICK p \in Process : pid[p] = n /\ proc[p] = type
    BY <1>1, <1>4, <2>1 DEF NewsIsTrue, PacketsAreTrue
  <2>5. /\ Exited(p)
        /\ r.reason = "Crash" <=> proc[p] = "ABNORMAL_EXIT_PROCESS"
        /\ HandleOpen(p) => r.code = p
    BY <2>2, <2>3, <2>4, ExitIsExited, ClassifiedTruly, CodeIsOwn
    DEF NewsIsTrue
  <2>6. PidsIdentify' /\ PacketsAreTrue'
    BY <1>1, <1>2, PacketsKept DEF NewsIsTrue, PidsIdentify
  <2>7. CASE waiters[n] # Nobody
    <3>1. PICK c \in Call : c = waiters[n]
      BY <2>7 DEF TypeOK
    <3>2. c = p /\ c \in spawned
      BY <2>4, <2>7, <3>1
      DEF TypeOK, NewsIsTrue, PidsIdentify, HandOver, Registrations,
          RegisteredOnce, SenderAlive
    <3>3. SendExit(c, r) /\ pending' = pending
      BY <2>3, <2>7, <3>1 DEF Deliver
    <3>4. ReportsAreTrue'
      BY <1>1, <2>3, <2>5, <3>2, <3>3, ReportsSent DEF NewsIsTrue
    <3>5. BufferIsTrue'
      BY <1>2, <3>3, BufferKept DEF NewsIsTrue
    <3>6. QED
      BY <2>6, <3>4, <3>5 DEF NewsIsTrue
  <2>8. CASE waiters[n] = Nobody
    <3>1. /\ exit_ch' = exit_ch /\ pending'[n] = r
          /\ \A m \in Pid : m # n => pending'[m] = pending[m]
      BY <2>3, <2>8 DEF Deliver, TypeOK
    <3>2. ReportsAreTrue'
      BY <1>1, <1>2, <3>1, ReportsKept DEF NewsIsTrue
    <3>3. BufferIsTrue'
      <4>1. Exited(p)' /\ (HandleOpen(p)' <=> HandleOpen(p))
        BY <1>1, <2>5 DEF Exited, HandleOpen
      <4>2. \A m \in Pid : m # n /\ pending[m] # Empty =>
              \E q \in Process :
                /\ pid'[q] = m /\ Exited(q)'
                /\ pending[m].reason = "Crash"
                     <=> proc'[q] = "ABNORMAL_EXIT_PROCESS"
                /\ HandleOpen(q)' => pending[m].code = q
        BY <1>1 DEF NewsIsTrue, BufferIsTrue, Exited, HandleOpen
      <4>3. QED
        BY <1>1, <2>4, <2>5, <3>1, <4>1, <4>2 DEF BufferIsTrue, Empty, Reason
    <3>4. QED
      BY <2>6, <3>2, <3>3 DEF NewsIsTrue
  <2>9. QED
    BY <2>7, <2>8
<1>5. QED
  BY <1>3, <1>4

\* A step of the listener keeps the news true.
LEMMA NewsListenerStep ==
  ASSUME TypeOK, HandOver, NewsIsTrue, ListenerStep
  PROVE  NewsIsTrue'
<1>1. CASE ListenerRegister
  BY <1>1, NewsRegister
<1>2. CASE ListenerPacket \/ DrainPacket
  BY <1>2, NewsDispatch DEF ListenerPacket, DrainPacket
<1>3. CASE \/ ListenerRegistered \/ ListenerShutdown \/ ListenerTimeout
           \/ ListenerEnds
  <2>1. /\ UNCHANGED <<caller, spawned, exit_ch, result, proc, pid>>
        /\ listener # "done"
        /\ \A n \in Pid : pending'[n] \in {pending[n], Empty}
        /\ \/ port' = port \/ port' = <<>>
           \/ port # <<>> /\ port' = Tail(port)
    BY <1>3
    DEF ListenerRegistered, ListenerShutdown, ListenerTimeout, ListenerEnds,
        HeadKey, callerVars, osVars
  <2>2. QED
    BY <2>1, OwnersMove, PortRead, NewsKept
<1>4. QED
  BY <1>1, <1>2, <1>3 DEF ListenerStep

-----------------------------------------------------------------------------
(* The theorems.                                                           *)

\* From the process to the waiter, no result is ever filed under another
\* process, if no pid is reused.
THEOREM NewsIsTrueEver == ASSUME ~PidReuse PROVE Spec => []NewsIsTrue
<1>1. Init => NewsIsTrue
  BY Identities
  DEF Init, NewsIsTrue, PidsIdentify, PacketsAreTrue, BufferIsTrue,
      ReportsAreTrue, TrueOf
<1>2. ASSUME TypeOK, HandOver, NewsIsTrue, [Next]_vars
      PROVE  NewsIsTrue'
  <2>1. CASE CallerStep
    BY <1>2, <2>1, NewsCallerStep
  <2>2. CASE ListenerStep
    BY <1>2, <2>2, NewsListenerStep
  <2>3. CASE ProcessStep
    BY <1>2, <2>3, NewsProcessStep
  <2>4. CASE UNCHANGED vars
    <3>1. UNCHANGED <<caller, spawned, listener, port, pending, exit_ch, result,
                      proc, pid>>
      BY <2>4 DEF vars, callerVars, listenerVars, osVars
    <3>2. QED
      BY <1>2, <3>1, OwnersMove, PortRead, NewsKept
  <2>5. QED
    BY <1>2, <2>1, <2>2, <2>3, <2>4 DEF Next
<1>3. QED
  BY <1>1, <1>2, Inductive, PTL DEF Spec

\* wait_diagnosed() is told nothing of a child that runs, if no pid is reused.
THEOREM ReportIsNeverEarly ==
  ASSUME ~PidReuse PROVE Spec => []ReportOnlyAfterExit
<1>1. NewsIsTrue => ReportOnlyAfterExit
  BY DEF NewsIsTrue, ReportsAreTrue, TrueOf, ReportOnlyAfterExit, Delivered
<1>2. QED
  BY <1>1, NewsIsTrueEver, PTL

\* wait_diagnosed() is told of its own child, and of a crash exactly when the
\* child has crashed and the listener was there to say so, if no pid is reused.
THEOREM DiagnosisIsOwnEver == ASSUME ~PidReuse PROVE Spec => []DiagnosisIsOwn
<1>1. NewsIsTrue => DiagnosisIsOwn
  BY DEF NewsIsTrue, ReportsAreTrue, TrueOf, DiagnosisIsOwn, Delivered
<1>2. QED
  BY <1>1, NewsIsTrueEver, PTL
=============================================================================
