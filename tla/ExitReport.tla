------------------------------ MODULE ExitReport ------------------------------
(***************************************************************************)
(* What a monitor thread promises its callers, whichever thread it is: the *)
(* debug pump and the IOCP listener are both shown to implement this.      *)
(*                                                                         *)
(* Each spawn() makes a channel of capacity 1.  Its sender is handed to    *)
(* the thread, which uses it at most once and never blocks on it; the      *)
(* receiver stays with the WorrywartChild.  wait_diagnosed() returns what  *)
(* is sent, and asks the process itself only when the thread has ended     *)
(* without sending.                                                        *)
(***************************************************************************)
CONSTANTS
  Child,         \* the spawn() calls, and the child of each
  MonitorReason, \* what a thread may report
  PlainReason,   \* what the process itself can be asked for
  Empty          \* nothing sent, nothing answered

VARIABLES
  stage,    \* where the owner of each child is
  sender,   \* children whose sender is alive
  channel,  \* content of each channel
  answer,   \* what wait_diagnosed() returned
  gone      \* the thread has ended

vars == <<stage, sender, channel, answer, gone>>

Init ==
  /\ stage = [c \in Child |-> "new"]
  /\ sender = {}
  /\ channel = [c \in Child |-> Empty]
  /\ answer = [c \in Child |-> Empty]
  /\ gone = FALSE

\* spawn() hands the sender over; a thread that has ended drops it.
Open(c) ==
  /\ stage[c] = "new"
  /\ stage' = [stage EXCEPT ![c] = "opened"]
  /\ sender' = IF gone THEN sender ELSE sender \cup {c}
  /\ UNCHANGED <<channel, answer, gone>>

\* The call is given up, or fails before or after the hand-over.
Refuse(c) ==
  /\ stage[c] \in {"new", "opened"} /\ channel[c] = Empty
  /\ stage' = [stage EXCEPT ![c] = "dropped"]
  /\ sender' = sender \ {c}
  /\ UNCHANGED <<channel, answer, gone>>

\* The thread uses the sender: the channel is free, and the sender goes.
Report(c, r) ==
  /\ c \in sender /\ channel[c] = Empty
  /\ sender' = sender \ {c}
  /\ channel' = IF stage[c] = "dropped" THEN channel
                ELSE [channel EXCEPT ![c] = r]
  /\ UNCHANGED <<stage, answer, gone>>

\* The thread drops a sender that nobody listens to any more.
Forget(c) ==
  /\ stage[c] = "dropped"
  /\ sender' = sender \ {c}
  /\ UNCHANGED <<stage, channel, answer, gone>>

\* The thread ends, and all its senders with it.
End ==
  /\ gone' = TRUE
  /\ sender' = {}
  /\ UNCHANGED <<stage, channel, answer>>

Wait(c) ==
  /\ stage[c] = "opened"
  /\ stage' = [stage EXCEPT ![c] = "waiting"]
  /\ UNCHANGED <<sender, channel, answer, gone>>

Receive(c) ==
  /\ stage[c] = "waiting" /\ channel[c] # Empty
  /\ answer' = [answer EXCEPT ![c] = channel[c]]
  /\ channel' = [channel EXCEPT ![c] = Empty]
  /\ stage' = [stage EXCEPT ![c] = "diagnosed"]
  /\ UNCHANGED <<sender, gone>>

\* The channel is closed and empty: only because the thread has ended.
FallBack(c) ==
  /\ stage[c] = "waiting" /\ channel[c] = Empty /\ gone
  /\ stage' = [stage EXCEPT ![c] = "plain"]
  /\ UNCHANGED <<sender, channel, answer, gone>>

AskPlain(c, r) ==
  /\ stage[c] = "plain"
  /\ answer' = [answer EXCEPT ![c] = r]
  /\ stage' = [stage EXCEPT ![c] = "diagnosed"]
  /\ UNCHANGED <<sender, channel, gone>>

\* The WorrywartChild is dropped, with the receiver and what is in it.
Drop(c) ==
  /\ stage[c] \in {"opened", "diagnosed"}
  /\ stage' = [stage EXCEPT ![c] = "dropped"]
  /\ channel' = [channel EXCEPT ![c] = Empty]
  /\ UNCHANGED <<sender, answer, gone>>

Next ==
  \/ End
  \/ \E c \in Child :
       \/ Open(c) \/ Refuse(c) \/ Forget(c) \/ Wait(c) \/ Receive(c)
       \/ FallBack(c) \/ Drop(c)
       \/ \E r \in MonitorReason : Report(c, r)
       \/ \E r \in PlainReason : AskPlain(c, r)

Spec == Init /\ [][Next]_vars
=============================================================================
