---------------------------- MODULE SentinelMessage ----------------------------
(***************************************************************************)
(* A sentinel message on its way: the command that puts the handle into    *)
(* the child's environment, the child that looks it up there and writes,   *)
(* as helper_sentinel.rs does, and the thread that reads the pipe.         *)
(***************************************************************************)
EXTENDS Command, FrameReader

\* No process but a child that cooperates writes a message.
ASSUME ChatterAssumption ==
  \A bytes \in Writes :
    Len(bytes) = SENTINEL_MSG_LEN =>
      \E i \in 1..4 : bytes[i] # SENTINEL_MAGIC[i]

VARIABLES
  child,     \* "none", "running", or "exited" after it has had its say
  whole      \* history: all that was written were frames of full length

\* Eight bytes: the magic, and an exit code of 0.
Message == SENTINEL_MAGIC \o [i \in 1..4 |-> Zero]

childVars == <<child, whole>>
messageVars == <<commandVars, vars, childVars>>

MessageInit == CommandInit /\ Init /\ child = "none" /\ whole = TRUE

\* The builder and spawn(); with a sentinel, the child is followed further.
Build ==
  /\ CommandNext
  /\ child' = IF state' = "created" /\ "Sentinel" \in monitors THEN "running"
              ELSE child
  /\ UNCHANGED <<vars, whole>>

\* The main() of a child that cooperates: it writes the message to the handle
\* it is told, which reaches the pipe if the handle is that of the pipe.  It
\* ends in any case, in failure if the write has failed.
Cooperate ==
  /\ child = "running"
  /\ child' = "exited"
  /\ IF told = Handle /\ thread # "failed"
     THEN Write(Message) ELSE UNCHANGED vars
  /\ UNCHANGED <<commandVars, whole>>

\* Bytes of another kind, by the child or by one that has the write end too.
Chatter(bytes) ==
  /\ child # "none"
  /\ Write(bytes)
  /\ whole' = (whole /\ Len(bytes) = SENTINEL_MSG_LEN)
  /\ UNCHANGED <<commandVars, child>>

\* The end of the last holder of the write end, and the thread.
PipeStep ==
  /\ child # "none"
  /\ Close \/ ReaderFails
  /\ UNCHANGED <<commandVars, childVars>>

ReaderStep ==
  /\ child # "none"
  /\ Reader
  /\ UNCHANGED <<commandVars, childVars>>

MessageNext ==
  \/ Build \/ Cooperate \/ PipeStep \/ ReaderStep
  \/ \E bytes \in Writes : Chatter(bytes)

MessageSpec == MessageInit /\ [][MessageNext]_messageVars

\* The thread that reads is scheduled.
MessageFairSpec == MessageSpec /\ WF_messageVars(ReaderStep)

-----------------------------------------------------------------------------
\* Every variable of the three parts has a value its type allows.
MessageTypeOK ==
  /\ CommandTypeOK /\ TypeOK
  /\ child \in {"none", "running", "exited"} /\ whole \in BOOLEAN

\* From the builder to the verdict: a sentinel child is found to have exited
\* cleanly exactly if it has had its say before the pipe was closed, whatever
\* else is in its environment, provided that the reads succeed and nobody
\* puts fractions of a frame into the pipe.
CleanExitIsTold ==
  thread = "eof" /\ whole /\ OneSpelling(ENV_VAR) =>
    (received <=> child = "exited")
=============================================================================
