------------------------------ MODULE QmpSession ------------------------------
(***************************************************************************)
(* One connection to a QEMU control socket shared by concurrent callers:   *)
(* qmpwire.Session, which serializes operations, arbitrates the socket     *)
(* deadline between the RPC bound and the caller's context, and poisons    *)
(* itself when the stream position is unknown, with the operations of      *)
(* qmpclient that run inside it.  Replies carry no identifier: an operation*)
(* takes the next one on the stream for its own.                           *)
(***************************************************************************)
EXTENDS Naturals

CONSTANTS
  Callers,   \* goroutines: balloon controller, hotplug, suspend, teardown
  MaxOps     \* bound: operations started in one behaviour

ASSUME CallersAssumption == "nobody" \notin Callers
ASSUME MaxOpsAssumption == MaxOps \in Nat

VARIABLES
  owner,     \* who holds Session.mu
  broken,    \* Session.broken is set
  deadline,  \* the connection's: "none", "timed" (RPC bound) or "past"
  connOpen,  \* neither side has closed the connection
  issued,    \* operations started so far; their requests are numbered from 1
  pending,   \* requests the peer has not answered
  unread,    \* answers on the stream
  deleting,  \* device_del requests whose DEVICE_DELETED is still to come
  events,    \* DEVICE_DELETED events on the stream
  opPc,      \* where each caller is
  kind,      \* "quick" (Do), "slow" (DoSlow) or "delete" (DeviceDelAndWait)
  cur,       \* the request of each caller's operation
  got,       \* the answer each caller took
  err,       \* the error each caller's operation ends with
  ctxEnded,  \* each caller's context has ended
  after      \* each caller's context.AfterFunc

sessVars == <<owner, broken, deadline, connOpen, issued, pending, unread,
              deleting, events, opPc, kind, cur, got, err, ctxEnded, after>>

Ops == 1 .. MaxOps

SessTypeOK ==
  /\ owner \in Callers \cup {"nobody"}
  /\ broken \in BOOLEAN
  /\ deadline \in {"none", "timed", "past"}
  /\ connOpen \in BOOLEAN
  /\ issued \in 0 .. MaxOps
  /\ pending \subseteq Ops /\ unread \subseteq Ops
  /\ deleting \subseteq Ops /\ events \subseteq Ops
  /\ opPc \in [Callers -> {"idle", "queued", "send", "read", "await", "finish"}]
  /\ kind \in [Callers -> {"quick", "slow", "delete"}]
  /\ cur \in [Callers -> 0 .. MaxOps]
  /\ got \in [Callers -> 0 .. MaxOps]
  /\ err \in [Callers -> {"none", "refused", "wire", "ctx", "broken", "closed"}]
  /\ ctxEnded \in [Callers -> BOOLEAN]
  /\ after \in [Callers -> {"off", "armed", "running", "closed"}]

SessInit ==
  /\ owner = "nobody"
  /\ broken = FALSE
  /\ deadline = "none"
  /\ connOpen = TRUE
  /\ issued = 0
  /\ pending = {} /\ unread = {}
  /\ deleting = {} /\ events = {}
  /\ opPc = [c \in Callers |-> "idle"]
  /\ kind = [c \in Callers |-> "quick"]
  /\ cur = [c \in Callers |-> 0]
  /\ got = [c \in Callers |-> 0]
  /\ err = [c \in Callers |-> "none"]
  /\ ctxEnded = [c \in Callers |-> FALSE]
  /\ after = [c \in Callers |-> "off"]

-----------------------------------------------------------------------------
(* An operation. *)

\* A caller starts an operation and queues for the mutex, with a new context.
Call(c, k) ==
  /\ opPc[c] = "idle"
  /\ issued < MaxOps
  /\ issued' = issued + 1
  /\ cur' = [cur EXCEPT ![c] = issued']
  /\ opPc' = [opPc EXCEPT ![c] = "queued"]
  /\ kind' = [kind EXCEPT ![c] = k]
  /\ err' = [err EXCEPT ![c] = "none"]
  /\ ctxEnded' = [ctxEnded EXCEPT ![c] = FALSE]
  /\ UNCHANGED <<owner, broken, deadline, connOpen, pending, unread, deleting,
                 events, got, after>>

\* do() under the mutex, returning before anything is sent: the session is
\* poisoned, the context has ended, or the connection takes no deadline.  None of
\* these poisons the session.
Refuse(c) ==
  /\ opPc[c] = "queued" /\ owner = "nobody"
  /\ \/ broken /\ err' = [err EXCEPT ![c] = "broken"]
     \/ ~broken /\ ctxEnded[c] /\ err' = [err EXCEPT ![c] = "ctx"]
     \/ /\ ~broken /\ ~ctxEnded[c] /\ ~connOpen
        /\ err' = [err EXCEPT ![c] = "closed"]
  /\ opPc' = [opPc EXCEPT ![c] = "idle"]
  /\ UNCHANGED <<owner, broken, deadline, connOpen, issued, pending, unread,
                 deleting, events, kind, cur, got, ctxEnded, after>>

\* do() sets the deadline, clearing whatever was left, and arms the interrupt.
Enter(c) ==
  /\ opPc[c] = "queued" /\ owner = "nobody"
  /\ ~broken /\ ~ctxEnded[c] /\ connOpen
  /\ owner' = c
  /\ deadline' = IF kind[c] = "slow" THEN "none" ELSE "timed"
  /\ after' = [after EXCEPT ![c] = "armed"]
  /\ opPc' = [opPc EXCEPT ![c] = "send"]
  /\ UNCHANGED <<broken, connOpen, issued, pending, unread, deleting, events,
                 kind, cur, got, err, ctxEnded>>

\* The request is written.
Send(c) ==
  /\ opPc[c] = "send"
  /\ connOpen /\ deadline # "past"
  /\ pending' = pending \cup {cur[c]}
  /\ deleting' = IF kind[c] = "delete" THEN deleting \cup {cur[c]} ELSE deleting
  /\ opPc' = [opPc EXCEPT ![c] = "read"]
  /\ UNCHANGED <<owner, broken, deadline, connOpen, issued, unread, events, kind,
                 cur, got, err, ctxEnded, after>>

\* readResponse takes the next answer.  An error answer is read to its end, too.
Read(c) ==
  /\ opPc[c] = "read"
  /\ \E i \in unread :
       /\ unread' = unread \ {i}
       /\ got' = [got EXCEPT ![c] = i]
  /\ \/ /\ opPc' = [opPc EXCEPT ![c] = IF kind[c] = "delete" THEN "await"
                                   ELSE "finish"]
        /\ UNCHANGED <<err, deleting>>
     \/ /\ opPc' = [opPc EXCEPT ![c] = "finish"]
        /\ err' = [err EXCEPT ![c] = "refused"]
        /\ deleting' = deleting \ {cur[c]}
  /\ UNCHANGED <<owner, broken, deadline, connOpen, issued, pending, events,
                 kind, cur, ctxEnded, after>>

\* readResponse skips an event, also the one a device_del is about to wait for.
SkipEvent(c) ==
  /\ opPc[c] = "read"
  /\ \E i \in events : events' = events \ {i}
  /\ UNCHANGED <<owner, broken, deadline, connOpen, issued, pending, unread,
                 deleting, opPc, kind, cur, got, err, ctxEnded, after>>

\* waitDeviceDeleted reads events until its own comes, or an error that the peer
\* sends unasked; that one does not poison the session, and QEMU may still remove
\* the device.
AwaitDeleted(c) ==
  /\ opPc[c] = "await"
  /\ \/ /\ \E i \in events :
             /\ events' = events \ {i}
             /\ opPc' = [opPc EXCEPT ![c] = IF i = cur[c] THEN "finish" ELSE @]
        /\ UNCHANGED err
     \/ /\ connOpen
        /\ opPc' = [opPc EXCEPT ![c] = "finish"]
        /\ err' = [err EXCEPT ![c] = "refused"]
        /\ UNCHANGED events
  /\ UNCHANGED <<owner, broken, deadline, connOpen, issued, pending, unread,
                 deleting, kind, cur, got, ctxEnded, after>>

\* Fault: no RPC bound is set on the connection.
WireFailsUntimed(c) ==
  /\ opPc[c] \in {"send", "read", "await"}
  /\ ~connOpen \/ deadline = "past"
  /\ err' = [err EXCEPT ![c] = "wire"]
  /\ opPc' = [opPc EXCEPT ![c] = "finish"]
  /\ UNCHANGED <<owner, broken, deadline, connOpen, issued, pending, unread,
                 deleting, events, kind, cur, got, ctxEnded, after>>

\* The write or the read fails: the interrupt moved the deadline into the past,
\* the RPC bound expired, or the connection closed.
WireFails(c) ==
  /\ opPc[c] \in {"send", "read", "await"}
  /\ ~connOpen \/ deadline # "none"
  /\ err' = [err EXCEPT ![c] = "wire"]
  /\ opPc' = [opPc EXCEPT ![c] = "finish"]
  /\ UNCHANGED <<owner, broken, deadline, connOpen, issued, pending, unread,
                 deleting, events, kind, cur, got, ctxEnded, after>>

\* Fault: only an interrupted operation poisons the session.
FinishTrusting(c) ==
  /\ opPc[c] = "finish"
  /\ after[c] \in {"armed", "closed"}
  /\ broken' = (broken \/ (err[c] # "none" /\ after[c] = "closed"))
  /\ after' = [after EXCEPT ![c] = "off"]
  /\ deadline' = "none"
  /\ owner' = "nobody"
  /\ opPc' = [opPc EXCEPT ![c] = "idle"]
  /\ UNCHANGED <<connOpen, issued, pending, unread, deleting, events, kind, cur,
                 got, err, ctxEnded>>

\* Fault: a fired interrupt is not waited for.
FinishUnawaited(c) ==
  /\ opPc[c] = "finish"
  /\ after[c] \in {"armed", "running", "closed"}
  /\ broken' = (broken \/ err[c] = "wire"
                       \/ (err[c] = "refused" /\ after[c] = "closed"))
  /\ after' = [after EXCEPT ![c] = IF @ = "running" THEN @ ELSE "off"]
  /\ deadline' = "none"
  /\ owner' = "nobody"
  /\ opPc' = [opPc EXCEPT ![c] = "idle"]
  /\ UNCHANGED <<connOpen, issued, pending, unread, deleting, events, kind, cur,
                 got, err, ctxEnded>>

\* The deferred functions of do(), in their order: stop the interrupt or wait
\* until it has run, poison the session on a failure that leaves the stream
\* position unknown, clear the deadline, release the mutex.
Finish(c) ==
  /\ opPc[c] = "finish"
  /\ after[c] \in {"armed", "closed"}
  /\ broken' = (broken \/ err[c] = "wire"
                       \/ (err[c] = "refused" /\ after[c] = "closed"))
  /\ after' = [after EXCEPT ![c] = "off"]
  /\ deadline' = "none"
  /\ owner' = "nobody"
  /\ opPc' = [opPc EXCEPT ![c] = "idle"]
  /\ UNCHANGED <<connOpen, issued, pending, unread, deleting, events, kind, cur,
                 got, err, ctxEnded>>

-----------------------------------------------------------------------------
(* Contexts, the interrupt's goroutine, the peer. *)

ContextEnds(c) ==
  /\ opPc[c] # "idle" /\ ~ctxEnded[c]
  /\ ctxEnded' = [ctxEnded EXCEPT ![c] = TRUE]
  /\ UNCHANGED <<owner, broken, deadline, connOpen, issued, pending, unread,
                 deleting, events, opPc, kind, cur, got, err, after>>

\* The AfterFunc starts in a goroutine of its own ...
Interrupt(c) ==
  /\ after[c] = "armed" /\ ctxEnded[c]
  /\ after' = [after EXCEPT ![c] = "running"]
  /\ UNCHANGED <<owner, broken, deadline, connOpen, issued, pending, unread,
                 deleting, events, opPc, kind, cur, got, err, ctxEnded>>

\* ... and moves the deadline of the connection, whoever is using it by then.
MoveDeadline(c) ==
  /\ after[c] = "running"
  /\ after' = [after EXCEPT ![c] = "closed"]
  /\ deadline' = "past"
  /\ UNCHANGED <<owner, broken, connOpen, issued, pending, unread, deleting,
                 events, opPc, kind, cur, got, err, ctxEnded>>

\* QEMU answers a request, however late.
Answer(i) ==
  /\ i \in pending
  /\ pending' = pending \ {i}
  /\ unread' = unread \cup {i}
  /\ UNCHANGED <<owner, broken, deadline, connOpen, issued, deleting, events,
                 opPc, kind, cur, got, err, ctxEnded, after>>

\* QEMU announces a removed device: after its answer, or before it when no guest
\* has to release the device.
Deleted(i) ==
  /\ i \in deleting
  /\ deleting' = deleting \ {i}
  /\ events' = events \cup {i}
  /\ UNCHANGED <<owner, broken, deadline, connOpen, issued, pending, unread, opPc,
                 kind, cur, got, err, ctxEnded, after>>

\* QEMU exits, or the teardown disconnects without taking the mutex.
Disconnect ==
  /\ connOpen
  /\ connOpen' = FALSE
  /\ UNCHANGED <<owner, broken, deadline, issued, pending, unread, deleting,
                 events, opPc, kind, cur, got, err, ctxEnded, after>>

Proceed(c) ==
  \/ Refuse(c) \/ Enter(c) \/ Send(c) \/ Read(c) \/ SkipEvent(c)
  \/ AwaitDeleted(c) \/ WireFails(c) \/ Finish(c)

SessNext ==
  \/ \E c \in Callers :
       \/ \E k \in {"quick", "slow", "delete"} : Call(c, k)
       \/ Proceed(c)
       \/ ContextEnds(c) \/ Interrupt(c) \/ MoveDeadline(c)
  \/ \E i \in Ops : Answer(i) \/ Deleted(i)
  \/ Disconnect

\* Callers and interrupts run, deadlines expire, and the contexts of slow
\* operations end, since the migration timeout bounds them.  The peer and the
\* contexts of other operations owe nothing.
SessFairness ==
  \A c \in Callers :
    /\ WF_sessVars(Proceed(c))
    /\ WF_sessVars(Interrupt(c)) /\ WF_sessVars(MoveDeadline(c))
    /\ WF_sessVars(kind[c] = "slow" /\ ContextEnds(c))

SessSpec == SessInit /\ [][SessNext]_sessVars /\ SessFairness

-----------------------------------------------------------------------------
(* Properties. *)

\* No operation takes another's answer, in particular not the late answer to one
\* that was interrupted or timed out before it.
OwnReply ==
  \A c \in Callers :
    opPc[c] \in {"await", "finish"} /\ err[c] = "none" => got[c] = cur[c]

\* A deadline in the past is the interrupt of the operation that holds the mutex:
\* the late interrupt of an earlier one never expires a healthy operation, so a
\* timeout is due to the context or to the RPC bound of the operation itself.
DeadlineIsOwn ==
  deadline = "past" => owner \in Callers /\ ctxEnded[owner]

\* Every operation returns, although the peer may never answer and others may be
\* queued before it behind a slow one.
OperationsReturn == \A c \in Callers : opPc[c] = "queued" ~> opPc[c] = "idle"
=============================================================================
