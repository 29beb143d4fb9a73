------------------------------ MODULE Control ------------------------------
(***************************************************************************)
(* The control socket: the server that answers one request per connection  *)
(* with a bounded number of handlers, the router behind it, the remote     *)
(* machine of client.go with the goroutine that observes the exit, the     *)
(* commands built on it (virtle suspend, status, rpc), and the part of the *)
(* machine's teardown they can see.                                        *)
(*                                                                         *)
(* A client has at most three connections: its current call, the call of   *)
(* observeExit, and the kill a Shutdown falls back to.  A connection the   *)
(* client has given up stays with the server until its handler returns.    *)
(***************************************************************************)
EXTENDS Naturals, FiniteSets

CONSTANTS
    Clients,        \* processes that use the control socket
    Programs,       \* the commands each client may run
    MaxHandlers     \* bound on concurrent handlers (limits.DefaultMaxHandlers)

Commands == {"status", "suspend", "shutdown", "kill", "guest", "raw"}

ASSUME ControlAssumption ==
    /\ MaxHandlers \in Nat \ {0}
    /\ Programs \in [Clients -> SUBSET Commands]

VARIABLES
    methods,    \* the methods the server's router has bound
    conn,       \* the connections, by client and purpose
    client,     \* the remote machine of each client and its command
    socket,     \* the socket file: "open", "removed", "stale"
    alive,      \* the virtle process runs
    qemu,       \* QEMU runs
    wedged,     \* it is stuck in the kernel and outlives SIGKILL
    saved,      \* the suspend coordinator recorded a save
    tear,       \* progress of the machine's one teardown
    tearErr     \* the teardown met an error

vars == <<methods, conn, client, socket, alive, qemu, wedged, saved, tear, tearErr>>

Kinds == {"call", "watch", "kill"}
Sockets == Clients \X Kinds
Core == {"status", "methods", "wait", "kill", "shutdown", "suspend"}

(* The server closes over its runtime and binds what it can do: a machine  *)
(* without remote control has no guest methods.  "guest" stands for the    *)
(* methods that reach the guest or a device and change nothing here.       *)
NewRouter == {Core, Core \cup {"guest"}}

(* A server of v0.3.3 or earlier, which has no wait method.                *)
LegacyRouter == {{"status", "methods", "suspend", "guest"}}
Legacy == "wait" \notin methods

Answers == {"ok", "error", "eof"}

(* A call fails with the server's error, or with the connection or the     *)
(* dial; only observeExit of an old server tells the two apart.            *)
Lost(x) == IF Legacy /\ x[2] = "watch" THEN "eof" ELSE "error"

Held == {"running", "closing", "unkilled"}
Prompt == {"status", "methods"}
NoConn == [st |-> "none", method |-> "none", open |-> FALSE]

Idle == [pc |-> "new", cmd |-> "none", result |-> "none", done |-> FALSE,
         err |-> "nil"]

Init ==
    /\ methods \in NewRouter \cup LegacyRouter
    /\ conn = [x \in Sockets |-> NoConn]
    /\ client = [c \in Clients |-> Idle]
    /\ socket = "open"
    /\ alive = TRUE
    /\ qemu = TRUE
    /\ wedged = FALSE
    /\ saved = FALSE
    /\ tear = "none"
    /\ tearErr = FALSE

machineVars == <<socket, alive, qemu, wedged, saved, tear, tearErr>>

----------------------------------------------------------------------------
(* The server.                                                             *)

SlotsTaken == Cardinality({x \in Sockets : conn[x].st \in Held})

(* The handler ends: its response is written if somebody still reads it,   *)
(* the connection closes and the slot is returned.                         *)
Respond(x, answer) ==
    conn' = [conn EXCEPT ![x] = IF @.open THEN [@ EXCEPT !.st = answer] ELSE NoConn]

(* What may keep a request from being decoded: parameters typed by a user, *)
(* or a peer that left before it had sent everything.                      *)
Malformed(x) == client[x[1]].cmd = "raw" \/ ~conn[x].open

SlotFree == SlotsTaken < MaxHandlers

(* A connection with no slot left is rejected.  One request is read within *)
(* its deadline and size and routed; a malformed request and a method that *)
(* is not bound are errors, status and methods are answered at once.       *)
Accept(x) ==
    /\ conn[x].st = "queued"
    /\ \/ /\ ~SlotFree \/ Malformed(x) \/ conn[x].method \notin methods
          /\ Respond(x, "error")
       \/ /\ SlotFree
          /\ conn[x].method \in methods
          /\ IF conn[x].method \in Prompt
                THEN Respond(x, "ok")
                ELSE conn' = [conn EXCEPT ![x].st = "running"]
    /\ UNCHANGED <<methods, client, machineVars>>

GuestMethod(x) ==
    /\ conn[x].st = "running"
    /\ conn[x].method = "guest"
    /\ \E a \in {"ok", "error"} : Respond(x, a)
    /\ UNCHANGED <<methods, client, machineVars>>

Wait(x) ==
    /\ conn[x].st = "running"
    /\ conn[x].method = "wait"
    /\ tear = "done"
    /\ Respond(x, IF tearErr THEN "error" ELSE "ok")
    /\ UNCHANGED <<methods, client, machineVars>>

(* The suspend waits for the coordinator's recorded outcome, which is      *)
(* there before the servicer tears the machine down.                       *)
Suspend(x) ==
    /\ conn[x].st = "running"
    /\ conn[x].method = "suspend"
    /\ \/ /\ saved \/ (qemu /\ tear = "none")
          /\ saved' = TRUE
          /\ Respond(x, "ok")
       \/ /\ ~saved
          /\ saved' = saved
          /\ Respond(x, "error")
    /\ UNCHANGED <<methods, client, socket, alive, qemu, wedged, tear, tearErr>>

(* The watcher's read returns when the peer has gone and cancels the       *)
(* handler's context; kill does not look at it, and a teardown that has    *)
(* begun runs to its end.                                                  *)
HonoursContextNot(method) == FALSE
HonoursContext(method) == method \in {"wait", "suspend", "guest"}

PeerGone(x) ==
    /\ conn[x].st = "running"
    /\ ~conn[x].open
    /\ HonoursContext(conn[x].method)
    /\ Respond(x, "error")
    /\ UNCHANGED <<methods, client, machineVars>>

(* kill and shutdown enter the closer's once.  kill first signals QEMU and *)
(* waits until it is gone, which one stuck in the kernel never is.         *)
EnterCloser(x) ==
    /\ conn[x].st = "running"
    /\ conn[x].method \in {"kill", "shutdown"}
    /\ conn[x].method = "kill" => ~wedged
    /\ qemu' = (qemu /\ conn[x].method # "kill")
    /\ tear' = IF tear = "none" THEN "writeback" ELSE tear
    /\ conn' = [conn EXCEPT ![x].st = "closing"]
    /\ UNCHANGED <<methods, client, socket, alive, wedged, saved, tearErr>>

(* The signal fails: the machine is torn down all the same, and the error  *)
(* joins that of the teardown.                                             *)
KillFails(x) ==
    /\ conn[x].st = "running"
    /\ conn[x].method = "kill"
    /\ qemu
    /\ tear' = IF tear = "none" THEN "writeback" ELSE tear
    /\ conn' = [conn EXCEPT ![x].st = "unkilled"]
    /\ UNCHANGED <<methods, client, socket, alive, qemu, wedged, saved, tearErr>>

(* Whoever calls the once, it returns after the teardown and with its      *)
(* error.                                                                  *)
OnceReturnsAtOnce == TRUE
OnceReturns == tear = "done"

LeaveCloser(x) ==
    /\ conn[x].st \in {"closing", "unkilled"}
    /\ OnceReturns
    /\ Respond(x, IF tearErr \/ conn[x].st = "unkilled" THEN "error" ELSE "ok")
    /\ UNCHANGED <<methods, client, machineVars>>

Serve(x) ==
    alive /\ ( \/ Accept(x) \/ Wait(x)
               \/ PeerGone(x) \/ EnterCloser(x) \/ LeaveCloser(x) )

----------------------------------------------------------------------------
(* The machine, as far as the socket sees it.                              *)

QEMUExits ==
    /\ qemu
    /\ qemu' = FALSE
    /\ wedged' = FALSE
    /\ UNCHANGED <<methods, conn, client, socket, alive, saved, tear, tearErr>>

QEMUWedges ==
    /\ qemu
    /\ ~wedged
    /\ wedged' = TRUE
    /\ UNCHANGED <<methods, conn, client, socket, alive, qemu, saved, tear, tearErr>>

(* The reaper, the suspend servicer or the owner of the handle closes it.  *)
OwnerCloses ==
    /\ alive
    /\ tear = "none"
    /\ tear' = "writeback"
    /\ UNCHANGED <<methods, conn, client, socket, alive, qemu, wedged, saved, tearErr>>

Dropped(sts) ==
    [x \in Sockets |-> IF conn[x].st \in sts
                          THEN IF conn[x].open THEN [conn[x] EXCEPT !.st = Lost(x)] ELSE NoConn
                          ELSE conn[x]]

(* After the write-back the listener closes and unlinks   *)
(* its path; connections nobody accepted are reset.  Handlers go on and    *)
(* nobody waits for them.                                                  *)
CloseControl ==
    /\ alive
    /\ tear = "writeback"
    /\ tear' = "processes"
    /\ socket' = "removed"
    /\ conn' = Dropped({"queued"})
    /\ UNCHANGED <<methods, client, alive, qemu, wedged, saved, tearErr>>

(* Processes, the QMP connection and the runtime files.  The error joins   *)
(* that of every part; a QEMU that is still there is one.                  *)
StopProcesses ==
    /\ alive
    /\ tear = "processes"
    /\ tear' = "done"
    /\ qemu' \in {wedged, qemu}
    /\ tearErr' \in {TRUE, qemu'}
    /\ UNCHANGED <<methods, conn, client, socket, alive, wedged, saved>>

Teardown == CloseControl \/ StopProcesses

(* The process ends, after the teardown or in the middle of anything; a    *)
(* crash leaves the socket file behind and QEMU running.                   *)
ProcessExits ==
    /\ alive
    /\ alive' = FALSE
    /\ socket' = IF socket = "open" THEN "stale" ELSE socket
    /\ conn' = Dropped({"queued"} \cup Held)
    /\ UNCHANGED <<methods, client, qemu, wedged, saved, tear, tearErr>>

----------------------------------------------------------------------------
(* The client.                                                             *)

(* One connection per call.  A dial that finds no listener fails.          *)
Open(cs, x, method) ==
    [cs EXCEPT ![x] = [st     |-> IF socket = "open" THEN "queued" ELSE Lost(x),
                       method |-> method, open |-> TRUE]]

Consume(cs, x) == [cs EXCEPT ![x] = NoConn]

(* The client closes its end; the server may not have noticed yet.         *)
Abandon(cs, xs) ==
    [x \in Sockets |-> IF x \notin xs THEN cs[x]
                       ELSE IF cs[x].st \in {"queued"} \cup Held
                               THEN [cs[x] EXCEPT !.open = FALSE]
                               ELSE NoConn]

Returns(c, outcome) ==
    client' = [client EXCEPT ![c].pc = "returned", ![c].result = outcome]

Dial(c) ==
    /\ client[c].pc = "new"
    /\ conn' = Open(conn, <<c, "call">>, "methods")
    /\ client' = [client EXCEPT ![c].pc = "dialing"]
    /\ UNCHANGED <<methods, machineVars>>

(* With the list of methods the machine is made and observeExit starts.    *)
Dialed(c) ==
    /\ client[c].pc = "dialing"
    /\ conn[<<c, "call">>].st \in Answers
    /\ IF conn[<<c, "call">>].st = "ok"
          THEN /\ conn' = Open(Consume(conn, <<c, "call">>), <<c, "watch">>,
                               IF Legacy THEN "status" ELSE "wait")
               /\ client' = [client EXCEPT ![c].pc = "ready"]
          ELSE /\ conn' = Consume(conn, <<c, "call">>)
               /\ client' = [client EXCEPT ![c].pc = "left"]
    /\ UNCHANGED <<methods, machineVars>>

finish(c, err) == client' = [client EXCEPT ![c].done = TRUE, ![c].err = err]

WatchError(answer) == IF answer = "ok" THEN "nil" ELSE "err"
WatchErrorLost(answer) == "nil"
ExitError(answer) == WatchError(answer)

(* Without a wait method status is polled, and a socket file that is gone  *)
(* counts as the record of an orderly end: the listener closes before      *)
(* status could answer "stopped".                                          *)
observeExit(c) ==
    LET x == <<c, "watch">>
        a == conn[x].st IN
    /\ ~client[c].done
    /\ a \in Answers
    /\ conn' = Consume(conn, x)
    /\ IF ~Legacy THEN finish(c, ExitError(a))
       ELSE CASE a # "ok" /\ socket = "removed"    -> finish(c, "nil")
              [] a = "error" /\ socket # "removed" -> finish(c, "err")
              [] OTHER                             -> client' = client
    /\ UNCHANGED <<methods, machineVars>>

PollAgain(c) ==
    /\ Legacy
    /\ client[c].pc \notin {"new", "dialing", "left"}
    /\ client[c].cmd # "raw"
    /\ ~client[c].done
    /\ conn[<<c, "watch">>].st = "none"
    /\ conn' = Open(conn, <<c, "watch">>, "status")
    /\ UNCHANGED <<methods, client, machineVars>>

(* Kill, or the unsupported error of a server without it.                  *)
CallKill(c, cl, conns) ==
    IF "kill" \in methods
       THEN /\ conn' = Open(conns, <<c, "kill">>, "kill")
            /\ client' = [client EXCEPT ![c] = [cl EXCEPT !.pc = "kill"]]
       ELSE /\ conn' = conns
            /\ client' = [client EXCEPT ![c] = [cl EXCEPT !.pc = "returned", !.result = "err"]]

(* Shutdown trusts a closed done channel; without the shutdown method it   *)
(* asks the guest, and without a guest it kills.                           *)
Invoke(c, cmd) ==
    LET cl == [client[c] EXCEPT !.cmd = cmd]
        method == IF cmd = "shutdown" /\ "shutdown" \notin methods THEN "guest" ELSE cmd
    IN
    /\ client[c].pc = "ready"
    /\ cmd \in Programs[c] \ {"raw"}
    /\ CASE cmd = "shutdown" /\ cl.done ->
              /\ client' = [client EXCEPT ![c] = [cl EXCEPT !.pc = "returned", !.result = "nil"]]
              /\ conn' = conn
         [] cmd = "kill" \/ (cmd = "shutdown" /\ ~cl.done /\ method \notin methods) ->
              CallKill(c, cl, conn)
         [] cmd \notin {"shutdown", "kill"} /\ method \notin methods ->
              /\ client' = [client EXCEPT ![c] = [cl EXCEPT !.pc = "returned", !.result = "err"]]
              /\ conn' = conn
         [] OTHER ->
              /\ client' = [client EXCEPT ![c] = [cl EXCEPT !.pc = "call"]]
              /\ conn' = Open(conn, <<c, "call">>, method)
    /\ UNCHANGED <<methods, machineVars>>

(* Commands that wait for the machine's exit after their call.             *)
Waits(cmd, method) == cmd = "suspend" \/ (cmd = "shutdown" /\ method = "guest")

(* A call in flight does not look at its context: only a deadline, set on  *)
(* the connection too, ends it.  Whether the context itself is done by the *)
(* time the caller asks (ctxDone) is a race of two timers.                 *)
AfterCall(c, answer, conns, ctxDone) ==
    LET cmd == client[c].cmd
        method == conn[<<c, "call">>].method IN
    CASE answer = "ok" /\ Waits(cmd, method) ->
           /\ conn' = conns
           /\ client' = [client EXCEPT ![c].pc = "wait"]
      [] answer = "ok" /\ ~Waits(cmd, method) ->
           /\ conn' = conns
           /\ Returns(c, "nil")
      [] answer # "ok" /\ cmd = "shutdown" /\ method = "guest" ->
           CallKill(c, client[c], conns)
      [] answer # "ok" /\ cmd = "shutdown" /\ method = "shutdown" /\ ctxDone ->
           CallKill(c, [client[c] EXCEPT !.result = "err"], conns)
      [] OTHER ->
           /\ conn' = conns
           /\ Returns(c, "err")

CallReturns(c) ==
    /\ client[c].pc = "call"
    /\ conn[<<c, "call">>].st \in Answers
    /\ \E d \in BOOLEAN :
        AfterCall(c, conn[<<c, "call">>].st, Consume(conn, <<c, "call">>), d)
    /\ UNCHANGED <<methods, machineVars>>

CallTimesOut(c) ==
    /\ client[c].pc = "call"
    /\ conn[<<c, "call">>].st \in {"queued"} \cup Held
    /\ \E d \in BOOLEAN :
        AfterCall(c, "error", Abandon(conn, {<<c, "call">>}), d)
    /\ UNCHANGED <<methods, machineVars>>

KillReturns(c) ==
    LET x == <<c, "kill">> IN
    /\ client[c].pc = "kill"
    /\ conn[x].st \in Answers
    /\ conn' = Consume(conn, x)
    /\ Returns(c, IF conn[x].st = "ok" /\ client[c].result # "err" THEN "nil" ELSE "err")
    /\ UNCHANGED <<methods, machineVars>>

(* Wait: the observed exit, or the end of the context.                     *)
WaitReturns(c) ==
    /\ client[c].pc = "wait"
    /\ \/ /\ client[c].done
          /\ client[c].err = "nil"
          /\ conn' = conn
          /\ Returns(c, "nil")
       \/ /\ client[c].done => client[c].err = "err"
          /\ IF client[c].cmd = "shutdown" /\ ~client[c].done
                THEN CallKill(c, [client[c] EXCEPT !.result = "err"], conn)
                ELSE /\ conn' = conn
                     /\ Returns(c, "err")
    /\ UNCHANGED <<methods, machineVars>>

(* The client's process ends, its command finished or not.                 *)
Leave(c) ==
    /\ client[c].pc # "left"
    /\ client' = [client EXCEPT ![c] = [Idle EXCEPT !.pc = "left"]]
    /\ conn' = Abandon(conn, {c} \X Kinds)
    /\ UNCHANGED <<methods, machineVars>>

(* One call without a machine behind it: virtle rpc and virtle hotplug.    *)
Raw(c) ==
    /\ client[c].pc = "new"
    /\ "raw" \in Programs[c]
    /\ conn' = Open(conn, <<c, "call">>, "guest")
    /\ client' = [client EXCEPT ![c].pc = "call", ![c].cmd = "raw"]
    /\ UNCHANGED <<methods, machineVars>>

ClientStep(c) ==
    \/ Dial(c) \/ Dialed(c) \/ observeExit(c) \/ PollAgain(c)
    \/ \E cmd \in Commands : Invoke(c, cmd)
    \/ CallReturns(c) \/ CallTimesOut(c)
    \/ KillReturns(c) \/ WaitReturns(c) \/ Leave(c)
    \/ Raw(c)

Next ==
    \/ \E x \in Sockets : Serve(x) \/ (alive /\ (GuestMethod(x) \/ Suspend(x) \/ KillFails(x)))
    \/ QEMUExits \/ QEMUWedges \/ OwnerCloses \/ Teardown \/ ProcessExits
    \/ \E c \in Clients : ClientStep(c)

(* Handler goroutines and the teardown run to completion; a kill waits for *)
(* QEMU as long as it takes.  Nothing is assumed of clients, of the guest, *)
(* of QEMU, or of the servicer of suspend requests.                        *)
Fairness ==
    /\ \A x \in Sockets : WF_vars(Serve(x))
    /\ WF_vars(Teardown)

Spec == Init /\ [][Next]_vars /\ Fairness

----------------------------------------------------------------------------

Methods == Core \cup {"guest"}

ConnType == [st     : {"none", "queued"} \cup Held \cup Answers,
             method : {"none"} \cup Methods,
             open   : BOOLEAN]

ClientType == [pc     : {"new", "dialing", "ready", "call", "wait", "kill", "returned", "left"},
               cmd    : {"none"} \cup Commands,
               result : {"none", "nil", "err"},
               done   : BOOLEAN,
               err    : {"nil", "err"}]

TypeOK ==
    /\ methods \in NewRouter \cup LegacyRouter
    /\ conn \in [Sockets -> ConnType]
    /\ client \in [Clients -> ClientType]
    /\ socket \in {"open", "removed", "stale"}
    /\ tear \in {"none", "writeback", "processes", "done"}
    /\ {alive, qemu, wedged, saved, tearErr} \subseteq BOOLEAN

(* A remote machine that reports a clean exit was really released: QEMU is *)
(* down and the teardown over (client.go finish, state.Finish), whatever   *)
(* crash, refusal or late answer the observing call met.  An old server's  *)
(* removed socket only says that an orderly teardown got past its          *)
(* listener, which client.go:29-37 takes for completion.                   *)
CleanExitIsReal ==
    \A c \in Clients : client[c].done /\ client[c].err = "nil" =>
        IF Legacy THEN socket = "removed"
                  ELSE ~qemu /\ tear = "done"

(* A command told the truth: after Shutdown, Kill or virtle suspend        *)
(* returned without an error QEMU is down, and for suspend the state was   *)
(* saved (client.go Shutdown, main.go runSuspend), though several clients  *)
(* stop the machine at once.  Two exceptions the code makes: an old        *)
(* server, and a Shutdown skipped because the observing call had failed,   *)
(* for instance refused with every handler slot taken (client.go:161).     *)
SuccessMeansStopped ==
    \A c \in Clients :
        /\ client[c].result = "nil"
        /\ client[c].cmd \in {"suspend", "shutdown", "kill"}
        /\ ~Legacy
        /\ ~(client[c].cmd = "shutdown" /\ client[c].done /\ client[c].err = "err")
        => ~qemu /\ (client[c].cmd = "suspend" => saved)

(* A request whose peer has gone away gives its handler slot back, also    *)
(* one that waits for the machine or is still to be received               *)
(* (server.go:137-168): abandoned calls cannot use the slots up for good.  *)
(* A kill is the exception the code makes: it ignores its context and      *)
(* waits for QEMU without a bound (concrete.go:87-93), so each kill of a   *)
(* QEMU stuck in the kernel keeps a slot.                                  *)
AbandonedSlotReturns ==
    \A x \in Sockets :
        (conn[x].st \in Held /\ ~conn[x].open)
            ~> (conn[x].st \notin Held \/ (wedged /\ conn[x].method = "kill"))

=============================================================================
