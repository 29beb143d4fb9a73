------------------------- MODULE SuspendCoordinator -------------------------
(***************************************************************************)
(* The coordinator that queues suspend requests for a running launch       *)
(* (launch/suspend.go) and reports one outcome to every waiter.            *)
(*                                                                         *)
(* Requesters are control-socket handlers inside RequestAndWait.  The      *)
(* servicer is the goroutine that owns the VM: first startWithPlan, which  *)
(* polls once through HandleQueuedSuspend, later the library goroutine or  *)
(* the foreground session, which select on Notify.  A step is one critical *)
(* section of the coordinator's mutex or one channel operation.            *)
(***************************************************************************)
EXTENDS FiniteSets

CONSTANT Clients

VARIABLES
  requested,  \* a request is queued and not yet in flight
  inFlight,   \* the servicer is between Begin and Complete
  completed,  \* Complete has run
  result,     \* the error Complete recorded; "none" before
  token,      \* the capacity-one notify channel holds an element
  waiters,    \* requesters whose done channel the coordinator holds
  releasing,  \* Complete's private copy, still to be sent to
  done,       \* what each requester's own buffered channel holds
  reqPc,      \* where each requester is
  srvPc       \* where the servicer is

coordVars == <<requested, inFlight, completed, result, token, waiters,
               releasing, done, reqPc, srvPc>>

Outcome == {"saved", "failed"}

CoordTypeOK ==
  /\ requested \in BOOLEAN
  /\ inFlight \in BOOLEAN
  /\ completed \in BOOLEAN
  /\ result \in Outcome \cup {"none"}
  /\ token \in BOOLEAN
  /\ waiters \subseteq Clients
  /\ releasing \subseteq Clients
  /\ done \in [Clients -> Outcome \cup {"none"}]
  /\ reqPc \in [Clients -> {"idle", "notify", "wait", "answered", "gaveUp"}]
  /\ srvPc \in {"startup", "serving", "localNotify", "taken", "saving",
                "releasing", "gone"}

CoordInit ==
  /\ requested = FALSE
  /\ inFlight = FALSE
  /\ completed = FALSE
  /\ result = "none"
  /\ token = FALSE
  /\ waiters = {}
  /\ releasing = {}
  /\ done = [c \in Clients |-> "none"]
  /\ reqPc = [c \in Clients |-> "idle"]
  /\ srvPc = "startup"

-----------------------------------------------------------------------------
(* Requesters. *)

\* request() finds the coordinator completed: the recorded result goes to the
\* requester's own channel, nothing is queued.
RequestCompleted(c) ==
  /\ reqPc[c] = "idle"
  /\ completed
  /\ done' = [done EXCEPT ![c] = result]
  /\ reqPc' = [reqPc EXCEPT ![c] = "wait"]
  /\ UNCHANGED <<requested, inFlight, completed, result, token, waiters,
                 releasing, srvPc>>

\* Fault: the request is queued and no notification is sent.
RequestQueuedSilently(c) ==
  /\ reqPc[c] = "idle"
  /\ ~completed
  /\ waiters' = waiters \cup {c}
  /\ requested' = (requested \/ ~inFlight)
  /\ reqPc' = [reqPc EXCEPT ![c] = "wait"]
  /\ UNCHANGED <<inFlight, completed, result, token, releasing, done, srvPc>>

\* request() queues a waiter; the caller that turns `requested` on must also
\* send the notification, after the mutex is released.
RequestQueued(c) ==
  /\ reqPc[c] = "idle"
  /\ ~completed
  /\ waiters' = waiters \cup {c}
  /\ requested' = (requested \/ ~inFlight)
  /\ reqPc' = [reqPc EXCEPT ![c] = IF ~requested /\ ~inFlight
                                   THEN "notify" ELSE "wait"]
  /\ UNCHANGED <<inFlight, completed, result, token, releasing, done, srvPc>>

\* The non-blocking send of request(): a full channel drops the element.
SendNotify(c) ==
  /\ reqPc[c] = "notify"
  /\ token' = TRUE
  /\ reqPc' = [reqPc EXCEPT ![c] = "wait"]
  /\ UNCHANGED <<requested, inFlight, completed, result, waiters, releasing,
                 done, srvPc>>

\* RequestAndWait receives the outcome.
ReceiveOutcome(c) ==
  /\ reqPc[c] = "wait"
  /\ done[c] # "none"
  /\ reqPc' = [reqPc EXCEPT ![c] = "answered"]
  /\ UNCHANGED <<requested, inFlight, completed, result, token, waiters,
                 releasing, done, srvPc>>

\* The requester's context ends (its peer disconnected).  Its channel stays in
\* the waiter list.
GiveUp(c) ==
  /\ reqPc[c] = "wait"
  /\ reqPc' = [reqPc EXCEPT ![c] = "gaveUp"]
  /\ UNCHANGED <<requested, inFlight, completed, result, token, waiters,
                 releasing, done, srvPc>>

-----------------------------------------------------------------------------
(* The servicer. *)

\* HandleQueuedSuspend finds nothing pending: startup goes on and the launch is
\* handed to whoever services requests from then on.
NoneQueued ==
  /\ srvPc = "startup"
  /\ ~token
  /\ srvPc' = "serving"
  /\ UNCHANGED <<requested, inFlight, completed, result, token, waiters,
                 releasing, done, reqPc>>

\* The servicer receives the notification, at startup or while serving.
TakeNotify ==
  /\ srvPc \in {"startup", "serving"}
  /\ token
  /\ token' = FALSE
  /\ srvPc' = "taken"
  /\ UNCHANGED <<requested, inFlight, completed, result, waiters, releasing,
                 done, reqPc>>

\* SuspendSession: a foreground SIGTSTP queues a request with no waiter ...
RequestLocal ==
  /\ srvPc = "serving"
  /\ requested' = (requested \/ (~completed /\ ~inFlight))
  /\ srvPc' = IF ~completed /\ ~requested /\ ~inFlight
              THEN "localNotify" ELSE "taken"
  /\ UNCHANGED <<inFlight, completed, result, token, waiters, releasing, done,
                 reqPc>>

\* ... signals it, and services it without receiving from Notify.
SendNotifyLocal ==
  /\ srvPc = "localNotify"
  /\ token' = TRUE
  /\ srvPc' = "taken"
  /\ UNCHANGED <<requested, inFlight, completed, result, waiters, releasing,
                 done, reqPc>>

Begin ==
  /\ srvPc = "taken"
  /\ requested' = FALSE
  /\ inFlight' = TRUE
  /\ srvPc' = "saving"
  /\ UNCHANGED <<completed, result, token, waiters, releasing, done, reqPc>>

\* Fault: the waiter list is cleared before it is copied.
CompleteDropsWaiters(outcome) ==
  /\ srvPc = "saving"
  /\ inFlight' = FALSE
  /\ completed' = TRUE
  /\ result' = outcome
  /\ releasing' = {}
  /\ waiters' = {}
  /\ srvPc' = "releasing"
  /\ UNCHANGED <<requested, token, done, reqPc>>

\* Complete(err), the critical section.
Complete(outcome) ==
  /\ srvPc = "saving"
  /\ inFlight' = FALSE
  /\ completed' = TRUE
  /\ result' = outcome
  /\ releasing' = waiters
  /\ waiters' = {}
  /\ srvPc' = "releasing"
  /\ UNCHANGED <<requested, token, done, reqPc>>

\* Complete's loop after the unlock, one send per waiter.
Release(c) ==
  /\ srvPc = "releasing"
  /\ c \in releasing
  /\ releasing' = releasing \ {c}
  /\ done' = [done EXCEPT ![c] = result]
  /\ UNCHANGED <<requested, inFlight, completed, result, token, waiters, reqPc,
                 srvPc>>

\* Handle has returned.  A saved exit, a failed library suspend and a failed
\* startup end the servicing; a failed suspend of an SSH session whose error
\* RunSSHSession classifies as transient retries SSH and serves on.
EndHandle ==
  /\ srvPc = "releasing"
  /\ releasing = {}
  /\ srvPc' \in {"gone"} \cup (IF result = "failed" THEN {"serving"} ELSE {})
  /\ UNCHANGED <<requested, inFlight, completed, result, token, waiters,
                 releasing, done, reqPc>>

\* The machine is done, the session ended or the rest of startup failed: nobody
\* selects on Notify any more.
StopServing ==
  /\ srvPc = "serving"
  /\ srvPc' = "gone"
  /\ UNCHANGED <<requested, inFlight, completed, result, token, waiters,
                 releasing, done, reqPc>>

RequesterStep(c) ==
  \/ RequestCompleted(c)
  \/ RequestQueued(c)
  \/ SendNotify(c)
  \/ ReceiveOutcome(c)
  \/ GiveUp(c)

\* Fault: without the once, each request saves again.
CompleteAgain(outcome) == Complete(outcome)

\* saveAndExit runs once: a later request on the same launch gets the error the
\* first one recorded.
CompleteOnce(outcome) == Complete(outcome) /\ (completed => outcome = result)

ServicerStep ==
  \/ NoneQueued
  \/ TakeNotify
  \/ RequestLocal
  \/ SendNotifyLocal
  \/ Begin
  \/ \E outcome \in Outcome : CompleteOnce(outcome)
  \/ \E c \in Clients : Release(c)
  \/ EndHandle
  \/ StopServing

CoordNext == ServicerStep \/ \E c \in Clients : RequesterStep(c)

CoordSpec == CoordInit /\ [][CoordNext]_coordVars

-----------------------------------------------------------------------------
(* Properties. *)

\* No waiter is lost between request and Complete: whoever waits is still in the
\* list, about to be sent to, or already holds its outcome.
NoLostWaiter ==
  \A c \in Clients : reqPc[c] \in {"notify", "wait"} =>
    c \in waiters \cup releasing \/ done[c] # "none"

\* No wakeup is lost: while anybody is in the list, a save is in flight, or the
\* notification is in the channel, about to be sent, or already received.
NoLostWakeup ==
  waiters # {} => \/ inFlight
                  \/ token
                  \/ \E c \in Clients : reqPc[c] = "notify"
                  \/ srvPc \in {"localNotify", "taken"}

\* Every requester that is answered is told the one outcome the launch recorded,
\* whenever it asked: the coordinator implements SuspendOutcome.
Outcomes == INSTANCE SuspendOutcome WITH
  outcome <- result,
  answer <- [c \in Clients |-> IF reqPc[c] = "answered" THEN done[c] ELSE "none"]

ImplementsOutcome == Outcomes!Spec
=============================================================================
