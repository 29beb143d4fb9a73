---------------------------- MODULE ControlProofs ----------------------------
(***************************************************************************)
(* Control, proved for any number of clients, of handlers and of commands: *)
(* a clean exit that a remote machine reports is real, and a command that  *)
(* succeeds has stopped the machine.                                       *)
(***************************************************************************)
EXTENDS Control, TLAPS

-----------------------------------------------------------------------------
(* The inductive invariant *)

(* The teardown is over and has stopped QEMU; nothing undoes that.         *)
Released == tear = "done" /\ ~qemu

(* A teardown that reports no error has stopped QEMU; only a QEMU that     *)
(* runs is stuck.                                                          *)
TearInv ==
    /\ wedged => qemu
    /\ tear = "done" /\ ~tearErr => ~qemu
    /\ tear # "done" => ~tearErr

(* What a server that answers "ok" to a method has done by then.           *)
Truth(method) ==
    /\ method \in {"wait", "kill", "shutdown"} => Released
    /\ method = "suspend" => saved

(* The methods a connection of each purpose carries.                       *)
Carries(kind, method) ==
    /\ kind = "kill" => method = "kill"
    /\ kind = "watch" /\ ~Legacy => method = "wait"

(* A handler answers "ok" only when it is true.                            *)
ConnInv ==
    \A x \in Sockets :
        /\ conn[x].st = "none" <=> conn[x].method = "none"
        /\ conn[x].st \in {"closing", "unkilled"} => conn[x].method \in {"kill", "shutdown"}
        /\ conn[x].st = "ok" => Truth(conn[x].method)
        /\ conn[x].st # "none" => Carries(x[2], conn[x].method)

(* A client that waits for its call still has the connection it opened for *)
(* that command; a command falls back to kill only if it stops the         *)
(* machine, and it is over once it has a result.                           *)
CommandInv(c) ==
    /\ client[c].pc = "call" =>
         /\ conn[<<c, "call">>].open
         /\ client[c].cmd # "kill"
         /\ client[c].cmd = "suspend" => conn[<<c, "call">>].method = "suspend"
         /\ client[c].cmd = "shutdown" => conn[<<c, "call">>].method \in {"shutdown", "guest"}
    /\ client[c].pc = "wait" =>
         \/ client[c].cmd = "shutdown"
         \/ client[c].cmd = "suspend" /\ saved
    /\ client[c].pc = "kill" => client[c].cmd \in {"kill", "shutdown"}
    /\ client[c].result = "nil" => client[c].pc = "returned"

(* The two properties, of one client.                                      *)
HonestExit(c) ==
    client[c].done /\ client[c].err = "nil" =>
        IF Legacy THEN socket = "removed" ELSE ~qemu /\ tear = "done"

HonestResult(c) ==
    /\ client[c].result = "nil"
    /\ client[c].cmd \in {"suspend", "shutdown", "kill"}
    /\ ~Legacy
    /\ ~(client[c].cmd = "shutdown" /\ client[c].done /\ client[c].err = "err")
    => ~qemu /\ (client[c].cmd = "suspend" => saved)

ClientInv == \A c \in Clients : CommandInv(c) /\ HonestExit(c) /\ HonestResult(c)

ControlInv == TearInv /\ ConnInv /\ ClientInv

-----------------------------------------------------------------------------
(* The operators *)

\* The three connections of a client.
LEMMA Ends ==
  /\ \A x \in Sockets : x[1] \in Clients /\ x[2] \in Kinds /\ x = <<x[1], x[2]>>
  /\ \A c \in Clients, k \in Kinds : <<c, k>> \in Sockets /\ <<c, k>>[1] = c /\ <<c, k>>[2] = k
  BY DEF Sockets

\* A response goes to whoever still reads it and frees the connection otherwise.
LEMMA RespondEffect ==
  ASSUME conn \in [Sockets -> ConnType], NEW x \in Sockets, NEW a \in Answers, Respond(x, a)
  PROVE  /\ conn' \in [Sockets -> ConnType]
         /\ \A y \in Sockets : y # x => conn'[y] = conn[y]
         /\ conn'[x] = NoConn \/ conn'[x] = [conn[x] EXCEPT !.st = a]
         /\ conn[x].open => conn'[x] = [conn[x] EXCEPT !.st = a]
  BY DEF Respond, ConnType, NoConn, Answers

\* A connection that is reset is lost to whoever reads it.
LEMMA DroppedEffect ==
  ASSUME conn \in [Sockets -> ConnType], NEW sts
  PROVE  /\ Dropped(sts) \in [Sockets -> ConnType]
         /\ \A x \in Sockets : conn[x].st \notin sts => Dropped(sts)[x] = conn[x]
         /\ \A x \in Sockets : conn[x].st \in sts =>
              /\ Dropped(sts)[x] \in {NoConn, [conn[x] EXCEPT !.st = Lost(x)]}
              /\ conn[x].open => Dropped(sts)[x] = [conn[x] EXCEPT !.st = Lost(x)]
  BY DEF Dropped, Lost, ConnType, NoConn, Answers

\* A call that is under way or has failed to get through.
Opened(r, method) ==
    /\ r.st \in {"queued", "error", "eof"}
    /\ r.method = method
    /\ r.open

LEMMA OpenEffect ==
  ASSUME NEW cs \in [Sockets -> ConnType], NEW x \in Sockets, NEW m \in Methods
  PROVE  /\ Open(cs, x, m) \in [Sockets -> ConnType]
         /\ \A y \in Sockets : y # x => Open(cs, x, m)[y] = cs[y]
         /\ Opened(Open(cs, x, m)[x], m)
  BY DEF Open, Opened, Lost, ConnType, Answers

LEMMA ConsumeEffect ==
  ASSUME NEW cs \in [Sockets -> ConnType], NEW x \in Sockets
  PROVE  /\ Consume(cs, x) \in [Sockets -> ConnType]
         /\ \A y \in Sockets : y # x => Consume(cs, x)[y] = cs[y]
         /\ Consume(cs, x)[x] = NoConn
  BY DEF Consume, NoConn, ConnType

LEMMA AbandonEffect ==
  ASSUME NEW cs \in [Sockets -> ConnType], NEW xs
  PROVE  /\ Abandon(cs, xs) \in [Sockets -> ConnType]
         /\ \A x \in Sockets : x \notin xs => Abandon(cs, xs)[x] = cs[x]
         /\ \A x \in Sockets : x \in xs => Abandon(cs, xs)[x] \in {NoConn, [cs[x] EXCEPT !.open = FALSE]}
  BY DEF Abandon, NoConn, ConnType, Held

\* Kill is asked for, or refused by a server that has no such method.
LEMMA CallKillEffect ==
  ASSUME NEW c \in Clients, NEW cl \in ClientType, NEW conns \in [Sockets -> ConnType],
         client \in [Clients -> ClientType], CallKill(c, cl, conns)
  PROVE  /\ conn' \in [Sockets -> ConnType]
         /\ client' \in [Clients -> ClientType]
         /\ \A d \in Clients : d # c => client'[d] = client[d]
         /\ \A y \in Sockets : y # <<c, "kill">> => conn'[y] = conns[y]
         /\ conn'[<<c, "kill">>] = conns[<<c, "kill">>] \/ Opened(conn'[<<c, "kill">>], "kill")
         /\ \/ client'[c] = [cl EXCEPT !.pc = "kill"]
            \/ client'[c] = [cl EXCEPT !.pc = "returned", !.result = "err"]
  <1>1. <<c, "kill">> \in Sockets /\ "kill" \in Methods
    BY Ends DEF Kinds, Methods, Core
  <1>2. CASE "kill" \in methods
    <2>1. conn' = Open(conns, <<c, "kill">>, "kill")
      BY <1>2 DEF CallKill
    <2>2. client' = [client EXCEPT ![c] = [cl EXCEPT !.pc = "kill"]]
      BY <1>2 DEF CallKill
    <2>3. client' \in [Clients -> ClientType] /\ client'[c] = [cl EXCEPT !.pc = "kill"]
      BY <2>2 DEF ClientType
    <2>4. /\ conn' \in [Sockets -> ConnType]
          /\ \A y \in Sockets : y # <<c, "kill">> => conn'[y] = conns[y]
          /\ Opened(conn'[<<c, "kill">>], "kill")
      BY <1>1, <2>1, OpenEffect
    <2>5. \A d \in Clients : d # c => client'[d] = client[d]
      BY <2>2
    <2>6. QED
      BY <2>3, <2>4, <2>5
  <1>3. CASE "kill" \notin methods
    <2>1. conn' = conns
      BY <1>3 DEF CallKill
    <2>2. client' = [client EXCEPT ![c] = [cl EXCEPT !.pc = "returned", !.result = "err"]]
      BY <1>3 DEF CallKill
    <2>3. /\ client' \in [Clients -> ClientType]
          /\ client'[c] = [cl EXCEPT !.pc = "returned", !.result = "err"]
      BY <2>2 DEF ClientType
    <2>4. QED
      BY <1>1, <2>1, <2>2, <2>3
  <1>4. QED
    BY <1>2, <1>3

-----------------------------------------------------------------------------
(* The machine *)

\* What the machine has done stays done, and the server keeps its methods.
LEMMA MachineStep ==
  ASSUME TypeOK, TearInv, [Next]_vars
  PROVE  /\ methods' = methods
         /\ socket' \in {"open", "removed", "stale"}
         /\ tear' \in {"none", "writeback", "processes", "done"}
         /\ {alive, qemu, wedged, saved, tearErr}' \subseteq BOOLEAN
         /\ TearInv'
         /\ Released => Released'
         /\ ~qemu => ~qemu'
         /\ tear = "done" => tear' = "done"
         /\ saved => saved'
         /\ socket = "removed" => socket' = "removed"
  <1> DEFINE Kept == /\ methods' = methods
                     /\ socket' \in {"open", "removed", "stale"}
                     /\ tear' \in {"none", "writeback", "processes", "done"}
                     /\ {alive, qemu, wedged, saved, tearErr}' \subseteq BOOLEAN
                     /\ TearInv'
                     /\ Released => Released'
                     /\ ~qemu => ~qemu'
                     /\ tear = "done" => tear' = "done"
                     /\ saved => saved'
                     /\ socket = "removed" => socket' = "removed"
  <1>1. ASSUME NEW x \in Sockets, Accept(x) PROVE Kept
    BY <1>1 DEF Accept, TypeOK, TearInv, Released, machineVars
  <1>2. ASSUME NEW x \in Sockets, GuestMethod(x) PROVE Kept
    BY <1>2 DEF GuestMethod, TypeOK, TearInv, Released, machineVars
  <1>3. ASSUME NEW x \in Sockets, Wait(x) PROVE Kept
    BY <1>3 DEF Wait, TypeOK, TearInv, Released, machineVars
  <1>4. ASSUME NEW x \in Sockets, Suspend(x) PROVE Kept
    BY <1>4 DEF Suspend, TypeOK, TearInv, Released
  <1>5. ASSUME NEW x \in Sockets, PeerGone(x) PROVE Kept
    BY <1>5 DEF PeerGone, TypeOK, TearInv, Released, machineVars
  <1>6. ASSUME NEW x \in Sockets, EnterCloser(x) PROVE Kept
    BY <1>6 DEF EnterCloser, TypeOK, TearInv, Released
  <1>7. ASSUME NEW x \in Sockets, LeaveCloser(x) PROVE Kept
    BY <1>7 DEF LeaveCloser, TypeOK, TearInv, Released, machineVars
  <1>26. ASSUME NEW x \in Sockets, KillFails(x) PROVE Kept
    BY <1>26 DEF KillFails, TypeOK, TearInv, Released
  <1>27. CASE QEMUWedges
    BY <1>27 DEF QEMUWedges, TypeOK, TearInv, Released
  <1>8. CASE QEMUExits
    BY <1>8 DEF QEMUExits, TypeOK, TearInv, Released
  <1>9. CASE OwnerCloses
    BY <1>9 DEF OwnerCloses, TypeOK, TearInv, Released
  <1>10. CASE CloseControl
    BY <1>10 DEF CloseControl, TypeOK, TearInv, Released
  <1>11. CASE StopProcesses
    <2>1. qemu \in BOOLEAN /\ wedged \in BOOLEAN /\ tearErr \in BOOLEAN /\ (wedged => qemu)
      BY DEF TypeOK, TearInv
    <2>2. /\ qemu' = wedged \/ qemu' = qemu
          /\ tearErr' = TRUE \/ tearErr' = qemu'
      BY <1>11 DEF StopProcesses
    <2>3. qemu' \in BOOLEAN /\ (qemu' => qemu) /\ (wedged => qemu')
      <3>1. CASE qemu' = wedged
        BY <2>1, <3>1
      <3>2. CASE qemu' = qemu
        BY <2>1, <3>2
      <3>3. QED
        BY <2>2, <3>1, <3>2
    <2>4. tearErr' \in BOOLEAN /\ (qemu' => tearErr')
      <3>1. CASE tearErr' = TRUE
        BY <3>1
      <3>2. CASE tearErr' = qemu'
        BY <2>3, <3>2
      <3>3. QED
        BY <2>2, <3>1, <3>2
    <2>5. QED
      BY <1>11, <2>3, <2>4 DEF StopProcesses, TypeOK, TearInv, Released
  <1>12. CASE ProcessExits
    BY <1>12 DEF ProcessExits, TypeOK, TearInv, Released
  <1>13. ASSUME NEW c \in Clients, Dial(c) PROVE Kept
    BY <1>13 DEF Dial, TypeOK, TearInv, Released, machineVars
  <1>14. ASSUME NEW c \in Clients, Dialed(c) PROVE Kept
    BY <1>14 DEF Dialed, TypeOK, TearInv, Released, machineVars
  <1>15. ASSUME NEW c \in Clients, observeExit(c) PROVE Kept
    BY <1>15 DEF observeExit, TypeOK, TearInv, Released, machineVars
  <1>16. ASSUME NEW c \in Clients, PollAgain(c) PROVE Kept
    BY <1>16 DEF PollAgain, TypeOK, TearInv, Released, machineVars
  <1>17. ASSUME NEW c \in Clients, NEW cmd \in Commands, Invoke(c, cmd)
        PROVE  Kept
    BY <1>17 DEF Invoke, TypeOK, TearInv, Released, machineVars
  <1>18. ASSUME NEW c \in Clients, CallReturns(c) PROVE Kept
    BY <1>18 DEF CallReturns, TypeOK, TearInv, Released, machineVars
  <1>19. ASSUME NEW c \in Clients, CallTimesOut(c) PROVE Kept
    BY <1>19 DEF CallTimesOut, TypeOK, TearInv, Released, machineVars
  <1>20. ASSUME NEW c \in Clients, KillReturns(c) PROVE Kept
    BY <1>20 DEF KillReturns, TypeOK, TearInv, Released, machineVars
  <1>21. ASSUME NEW c \in Clients, WaitReturns(c) PROVE Kept
    BY <1>21 DEF WaitReturns, TypeOK, TearInv, Released, machineVars
  <1>22. ASSUME NEW c \in Clients, Leave(c) PROVE Kept
    BY <1>22 DEF Leave, TypeOK, TearInv, Released, machineVars
  <1>23. ASSUME NEW c \in Clients, Raw(c) PROVE Kept
    BY <1>23 DEF Raw, TypeOK, TearInv, Released, machineVars
  <1>24. CASE UNCHANGED vars
    BY <1>24 DEF vars, TypeOK, TearInv, Released
  <1>25. QED
    BY <1>1, <1>2, <1>3, <1>4, <1>5, <1>6, <1>7, <1>8, <1>9, <1>10, <1>11, <1>12,
       <1>13, <1>14, <1>15, <1>16, <1>17, <1>18, <1>19, <1>20, <1>21, <1>22, <1>23,
       <1>24, <1>26, <1>27 DEF Next, Serve, Teardown, ClientStep

-----------------------------------------------------------------------------
(* The connections *)

\* What the server may do to a connection: leave it, free it once nobody reads,
\* or take its call further, to "ok" only if that is then true.
ServerMoves(x) ==
    /\ \/ conn'[x] = conn[x] \/ conn'[x] = NoConn
       \/ \E a \in Held \cup Answers :
            /\ conn[x].st # "none"
            /\ conn'[x] = [conn[x] EXCEPT !.st = a]
            /\ a \in {"closing", "unkilled"} => conn[x].method \in {"kill", "shutdown"}
            /\ a = "ok" => Truth(conn[x].method)'
    /\ conn[x].open => conn'[x].open /\ conn'[x].method = conn[x].method

\* A response of handler x is a move of the server.
LEMMA RespondMoves ==
  ASSUME TypeOK, NEW x \in Sockets, NEW a \in Answers, Respond(x, a), conn[x].st # "none",
         a = "ok" /\ conn'[x] = [conn[x] EXCEPT !.st = a] => Truth(conn[x].method)'
  PROVE  conn' \in [Sockets -> ConnType] /\ \A y \in Sockets : ServerMoves(y)
  <1>1. conn \in [Sockets -> ConnType]
    BY DEF TypeOK
  <1>2. /\ conn' \in [Sockets -> ConnType]
        /\ \A y \in Sockets : y # x => conn'[y] = conn[y]
        /\ conn'[x] = NoConn \/ conn'[x] = [conn[x] EXCEPT !.st = a]
        /\ conn[x].open => conn'[x] = [conn[x] EXCEPT !.st = a]
    BY <1>1, RespondEffect
  <1>3. ASSUME NEW y \in Sockets, y # x PROVE ServerMoves(y)
    BY <1>2, <1>3 DEF ServerMoves
  <1>4. conn[x].open => conn'[x].open /\ conn'[x].method = conn[x].method
    BY <1>1, <1>2 DEF ConnType
  <1>5. ServerMoves(x)
    <2>1. CASE conn'[x] = NoConn
      BY <1>4, <2>1 DEF ServerMoves
    <2>2. CASE conn'[x] = [conn[x] EXCEPT !.st = a]
      BY <1>4, <2>2 DEF ServerMoves, Answers
    <2>3. QED
      BY <1>2, <2>1, <2>2
  <1>6. QED
    BY <1>2, <1>3, <1>5

\* A reset of connections is a move of the server.
LEMMA DroppedMoves ==
  ASSUME TypeOK, NEW sts, "none" \notin sts, conn' = Dropped(sts)
  PROVE  conn' \in [Sockets -> ConnType] /\ \A y \in Sockets : ServerMoves(y)
  <1>1. conn \in [Sockets -> ConnType]
    BY DEF TypeOK
  <1>2. ASSUME NEW y \in Sockets PROVE ServerMoves(y)
    <2>1. CASE conn[y].st \notin sts
      BY <1>1, <2>1, DroppedEffect DEF ServerMoves
    <2>2. CASE conn[y].st \in sts
      <3>1. /\ conn'[y] \in {NoConn, [conn[y] EXCEPT !.st = Lost(y)]}
            /\ conn[y].open => conn'[y] = [conn[y] EXCEPT !.st = Lost(y)]
        BY <1>1, <2>2, DroppedEffect
      <3>2. conn[y].open => conn'[y].open /\ conn'[y].method = conn[y].method
        BY <1>1, <3>1 DEF ConnType
      <3>3. CASE conn'[y] = NoConn
        BY <3>2, <3>3 DEF ServerMoves
      <3>4. CASE conn'[y] = [conn[y] EXCEPT !.st = Lost(y)]
        <4>1. Lost(y) \in Answers /\ Lost(y) # "ok" /\ Lost(y) \notin {"closing", "unkilled"}
          BY DEF Lost, Answers
        <4>2. QED
          BY <2>2, <3>2, <3>4, <4>1 DEF ServerMoves
      <3>5. QED
        BY <3>1, <3>3, <3>4
    <2>3. QED
      BY <2>1, <2>2
  <1>3. QED
    BY <1>1, <1>2, DroppedEffect

\* Every step of the server and of the machine moves the connections so, and no
\* client.
LEMMA ServerStep ==
  ASSUME TypeOK, TearInv, ConnInv,
         \/ \E x \in Sockets : Serve(x) \/ GuestMethod(x) \/ Suspend(x) \/ KillFails(x)
         \/ QEMUExits \/ QEMUWedges \/ OwnerCloses \/ Teardown \/ ProcessExits
  PROVE  /\ client' = client
         /\ conn' \in [Sockets -> ConnType]
         /\ \A y \in Sockets : ServerMoves(y)
  <1> DEFINE Moved == /\ client' = client
                      /\ conn' \in [Sockets -> ConnType]
                      /\ \A y \in Sockets : ServerMoves(y)
  <1>1. conn \in [Sockets -> ConnType]
    BY DEF TypeOK
  <1>2. ASSUME NEW x \in Sockets, Accept(x) PROVE Moved
    <2>1. client' = client /\ conn[x].st = "queued"
      BY <1>2 DEF Accept
    <2>2. CASE Respond(x, "error")
      BY <2>1, <2>2, RespondMoves DEF Answers
    <2>3. CASE conn[x].method \in Prompt /\ Respond(x, "ok")
      <3>1. conn'[x] = [conn[x] EXCEPT !.st = "ok"] => Truth(conn[x].method)'
        BY <1>1, <2>3 DEF Truth, Prompt, ConnType
      <3>2. QED
        BY <2>1, <2>3, <3>1, RespondMoves DEF Answers
    <2>4. CASE conn' = [conn EXCEPT ![x].st = "running"]
      <3>1. conn' \in [Sockets -> ConnType]
        BY <1>1, <2>4 DEF ConnType, Held
      <3>2. conn'[x] = [conn[x] EXCEPT !.st = "running"]
        BY <1>1, <2>4
      <3>3. ServerMoves(x)
        BY <1>1, <2>1, <3>2 DEF ServerMoves, ConnType, Held
      <3>4. ASSUME NEW y \in Sockets, y # x PROVE ServerMoves(y)
        BY <1>1, <2>4, <3>4 DEF ServerMoves
      <3>5. QED
        BY <2>1, <3>1, <3>3, <3>4
    <2>5. QED
      BY <1>2, <2>2, <2>3, <2>4 DEF Accept
  <1>3. ASSUME NEW x \in Sockets, GuestMethod(x) PROVE Moved
    <2>1. client' = client /\ conn[x].st = "running" /\ conn[x].method = "guest"
      BY <1>3 DEF GuestMethod
    <2>2. PICK a \in {"ok", "error"} : Respond(x, a)
      BY <1>3 DEF GuestMethod
    <2>3. conn'[x] = [conn[x] EXCEPT !.st = a] => Truth(conn[x].method)'
      BY <1>1, <2>1 DEF Truth, ConnType
    <2>4. QED
      BY <2>1, <2>2, <2>3, RespondMoves DEF Answers
  <1>4. ASSUME NEW x \in Sockets, Wait(x) PROVE Moved
    <2>1. /\ client' = client /\ conn[x].st = "running" /\ conn[x].method = "wait"
          /\ tear = "done" /\ UNCHANGED machineVars
          /\ Respond(x, IF tearErr THEN "error" ELSE "ok")
      BY <1>4 DEF Wait
    <2>2. ~tearErr /\ conn'[x] = [conn[x] EXCEPT !.st = "ok"] => Truth(conn[x].method)'
      BY <1>1, <2>1 DEF Truth, Released, TearInv, ConnType, machineVars
    <2>3. CASE tearErr
      BY <2>1, <2>3, RespondMoves DEF Answers
    <2>4. CASE ~tearErr
      BY <2>1, <2>2, <2>4, RespondMoves DEF Answers
    <2>5. QED
      BY <2>3, <2>4
  <1>5. ASSUME NEW x \in Sockets, Suspend(x) PROVE Moved
    <2>1. client' = client /\ conn[x].st = "running" /\ conn[x].method = "suspend"
      BY <1>5 DEF Suspend
    <2>2. CASE saved' = TRUE /\ Respond(x, "ok")
      <3>1. conn'[x] = [conn[x] EXCEPT !.st = "ok"] => Truth(conn[x].method)'
        BY <1>1, <2>1, <2>2 DEF Truth, ConnType
      <3>2. QED
        BY <2>1, <2>2, <3>1, RespondMoves DEF Answers
    <2>3. CASE Respond(x, "error")
      BY <2>1, <2>3, RespondMoves DEF Answers
    <2>4. QED
      BY <1>5, <2>2, <2>3 DEF Suspend
  <1>6. ASSUME NEW x \in Sockets, PeerGone(x) PROVE Moved
    <2>1. client' = client /\ conn[x].st = "running" /\ Respond(x, "error")
      BY <1>6 DEF PeerGone
    <2>2. QED
      BY <2>1, RespondMoves DEF Answers
  <1>7. ASSUME NEW x \in Sockets, EnterCloser(x) PROVE Moved
    <2>1. /\ client' = client /\ conn[x].st = "running"
          /\ conn[x].method \in {"kill", "shutdown"}
          /\ conn' = [conn EXCEPT ![x].st = "closing"]
      BY <1>7 DEF EnterCloser
    <2>2. conn' \in [Sockets -> ConnType]
      BY <1>1, <2>1 DEF ConnType, Held
    <2>3. conn'[x] = [conn[x] EXCEPT !.st = "closing"]
      BY <1>1, <2>1
    <2>4. ServerMoves(x)
      <3>1. "closing" \in Held \cup Answers /\ "closing" # "ok" /\ conn[x].st # "none"
        BY <2>1 DEF Held
      <3>2. conn[x].open => conn'[x].open /\ conn'[x].method = conn[x].method
        BY <1>1, <2>3 DEF ConnType
      <3>3. conn[x].method \in {"kill", "shutdown"}
        BY <2>1
      <3>4. QED
        BY <2>3, <3>1, <3>2, <3>3, Zenon DEF ServerMoves
    <2>5. ASSUME NEW y \in Sockets, y # x PROVE ServerMoves(y)
      BY <1>1, <2>1, <2>5 DEF ServerMoves
    <2>6. QED
      BY <2>1, <2>2, <2>4, <2>5
  <1>15. ASSUME NEW x \in Sockets, KillFails(x) PROVE Moved
    <2>1. /\ client' = client /\ conn[x].st = "running"
          /\ conn[x].method = "kill"
          /\ conn' = [conn EXCEPT ![x].st = "unkilled"]
      BY <1>15 DEF KillFails
    <2>2. conn' \in [Sockets -> ConnType]
      BY <1>1, <2>1 DEF ConnType, Held
    <2>3. conn'[x] = [conn[x] EXCEPT !.st = "unkilled"]
      BY <1>1, <2>1
    <2>4. ServerMoves(x)
      <3>1. "unkilled" \in Held \cup Answers /\ "unkilled" # "ok" /\ conn[x].st # "none"
        BY <2>1 DEF Held
      <3>2. conn[x].open => conn'[x].open /\ conn'[x].method = conn[x].method
        BY <1>1, <2>3 DEF ConnType
      <3>3. conn[x].method \in {"kill", "shutdown"}
        BY <2>1
      <3>4. QED
        BY <2>3, <3>1, <3>2, <3>3, Zenon DEF ServerMoves
    <2>5. ASSUME NEW y \in Sockets, y # x PROVE ServerMoves(y)
      BY <1>1, <2>1, <2>5 DEF ServerMoves
    <2>6. QED
      BY <2>1, <2>2, <2>4, <2>5
  <1>8. ASSUME NEW x \in Sockets, LeaveCloser(x) PROVE Moved
    <2> DEFINE failed == tearErr \/ conn[x].st = "unkilled"
    <2>1. /\ client' = client /\ conn[x].st \in {"closing", "unkilled"}
          /\ tear = "done" /\ UNCHANGED machineVars
          /\ Respond(x, IF failed THEN "error" ELSE "ok")
      BY <1>8 DEF LeaveCloser, OnceReturns
    <2>2. conn[x].method \in {"kill", "shutdown"}
      BY <2>1 DEF ConnInv
    <2>3. ~failed /\ conn'[x] = [conn[x] EXCEPT !.st = "ok"] => Truth(conn[x].method)'
      BY <1>1, <2>1, <2>2 DEF Truth, Released, TearInv, ConnType, machineVars
    <2> HIDE DEF failed
    <2>4. CASE failed
      BY <2>1, <2>4, RespondMoves DEF Answers
    <2>5. CASE ~failed
      BY <2>1, <2>3, <2>5, RespondMoves DEF Answers
    <2>6. QED
      BY <2>4, <2>5
  <1>9. CASE QEMUExits
    BY <1>1, <1>9 DEF QEMUExits, ServerMoves
  <1>16. CASE QEMUWedges
    BY <1>1, <1>16 DEF QEMUWedges, ServerMoves
  <1>10. CASE OwnerCloses
    BY <1>1, <1>10 DEF OwnerCloses, ServerMoves
  <1>11. CASE CloseControl
    <2>1. client' = client /\ conn' = Dropped({"queued"})
      BY <1>11 DEF CloseControl
    <2>2. QED
      BY <2>1, DroppedMoves
  <1>12. CASE StopProcesses
    BY <1>1, <1>12 DEF StopProcesses, ServerMoves
  <1>13. CASE ProcessExits
    <2>1. client' = client /\ conn' = Dropped({"queued"} \cup Held)
      BY <1>13 DEF ProcessExits
    <2>2. "none" \notin {"queued"} \cup Held
      BY DEF Held
    <2>3. QED
      BY <2>1, <2>2, DroppedMoves
  <1>14. QED
    BY <1>2, <1>3, <1>4, <1>5, <1>6, <1>7, <1>8, <1>9, <1>10, <1>11, <1>12, <1>13,
       <1>15, <1>16 DEF Serve, Teardown

\* What client c may make of the connections: it touches its own, and reads an
\* answer, gives a call up, or opens one for a method that fits.
Within(c, cs) ==
    /\ cs \in [Sockets -> ConnType]
    /\ \A x \in Sockets : x[1] # c => cs[x] = conn[x]
    /\ \A x \in Sockets :
         \/ cs[x] = conn[x]
         \/ cs[x] = NoConn
         \/ cs[x] = [conn[x] EXCEPT !.open = FALSE]
         \/ \E m \in Methods : Opened(cs[x], m) /\ Carries(x[2], m)

LEMMA ConsumeWithin ==
  ASSUME NEW c \in Clients, NEW k \in Kinds, NEW cs, Within(c, cs)
  PROVE  Within(c, Consume(cs, <<c, k>>))
  <1>1. <<c, k>> \in Sockets /\ <<c, k>>[1] = c
    BY Ends
  <1>2. /\ Consume(cs, <<c, k>>) \in [Sockets -> ConnType]
        /\ \A y \in Sockets : y # <<c, k>> => Consume(cs, <<c, k>>)[y] = cs[y]
        /\ Consume(cs, <<c, k>>)[<<c, k>>] = NoConn
    BY <1>1, ConsumeEffect DEF Within
  <1>3. \A y \in Sockets : y[1] # c => y # <<c, k>>
    BY <1>1
  <1>4. QED
    BY <1>1, <1>2, <1>3 DEF Within

LEMMA OpenWithin ==
  ASSUME NEW c \in Clients, NEW k \in Kinds, NEW m \in Methods, Carries(k, m),
         NEW cs, Within(c, cs)
  PROVE  /\ Within(c, Open(cs, <<c, k>>, m))
         /\ Opened(Open(cs, <<c, k>>, m)[<<c, k>>], m)
         /\ \A y \in Sockets : y # <<c, k>> => Open(cs, <<c, k>>, m)[y] = cs[y]
  <1>1. <<c, k>> \in Sockets /\ <<c, k>>[1] = c /\ <<c, k>>[2] = k
    BY Ends
  <1>2. /\ Open(cs, <<c, k>>, m) \in [Sockets -> ConnType]
        /\ \A y \in Sockets : y # <<c, k>> => Open(cs, <<c, k>>, m)[y] = cs[y]
        /\ Opened(Open(cs, <<c, k>>, m)[<<c, k>>], m)
    BY <1>1, OpenEffect DEF Within
  <1>3. \A y \in Sockets : y[1] # c => y # <<c, k>>
    BY <1>1
  <1>4. QED
    BY <1>1, <1>2, <1>3 DEF Within

LEMMA AbandonWithin ==
  ASSUME TypeOK, NEW c \in Clients, NEW xs, \A x \in xs : x[1] = c
  PROVE  Within(c, Abandon(conn, xs))
  <1>1. conn \in [Sockets -> ConnType]
    BY DEF TypeOK
  <1>2. Abandon(conn, xs) \in [Sockets -> ConnType]
    BY <1>1, AbandonEffect
  <1>3. \A x \in Sockets : x \notin xs => Abandon(conn, xs)[x] = conn[x]
    BY <1>1, AbandonEffect
  <1>4. \A x \in Sockets : x \in xs => Abandon(conn, xs)[x] \in {NoConn, [conn[x] EXCEPT !.open = FALSE]}
    BY <1>1, AbandonEffect
  <1>5. \A x \in Sockets : x[1] # c => Abandon(conn, xs)[x] = conn[x]
    BY <1>3
  <1>6. QED
    BY <1>2, <1>3, <1>4, <1>5 DEF Within

LEMMA KillWithin ==
  ASSUME TypeOK, NEW c \in Clients, NEW cl \in ClientType, NEW cs, Within(c, cs),
         CallKill(c, cl, cs)
  PROVE  Within(c, conn')
  <1>1. "kill" \in Kinds /\ "kill" \in Methods /\ Carries("kill", "kill")
    BY DEF Kinds, Methods, Core, Carries
  <1>2. conn' = cs \/ conn' = Open(cs, <<c, "kill">>, "kill")
    BY DEF CallKill
  <1>3. QED
    BY <1>1, <1>2, OpenWithin

-----------------------------------------------------------------------------
(* The clients *)

\* A step of client c: it moves its own connections and record only, and its
\* command and its reports stay as they should be.
ClientEffect(c) ==
    /\ UNCHANGED <<methods, machineVars>>
    /\ Within(c, conn')
    /\ client' \in [Clients -> ClientType]
    /\ \A d \in Clients : d # c => client'[d] = client[d]
    /\ CommandInv(c)' /\ HonestExit(c)' /\ HonestResult(c)'

\* A command that ends in a kill, or in the refusal of one, keeps what its client
\* knows; it has no result yet but perhaps an error.
LEMMA KillCommand ==
  ASSUME TypeOK, ControlInv, NEW c \in Clients, NEW cl \in ClientType, NEW cs, Within(c, cs),
         CallKill(c, cl, cs), UNCHANGED <<methods, machineVars>>,
         cl.cmd \in {"kill", "shutdown"}, cl.result # "nil",
         cl.done = client[c].done, cl.err = client[c].err
  PROVE  ClientEffect(c)
  <1>1. Within(c, conn')
    BY KillWithin
  <1>2. /\ client' \in [Clients -> ClientType]
        /\ \A d \in Clients : d # c => client'[d] = client[d]
        /\ \/ client'[c] = [cl EXCEPT !.pc = "kill"]
           \/ client'[c] = [cl EXCEPT !.pc = "returned", !.result = "err"]
    BY CallKillEffect DEF TypeOK, Within
  <1>3. /\ client'[c].pc \in {"kill", "returned"}
        /\ client'[c].cmd = cl.cmd
        /\ client'[c].result # "nil"
        /\ client'[c].done = client[c].done
        /\ client'[c].err = client[c].err
    BY <1>2 DEF ClientType
  <1>4. CommandInv(c)' /\ HonestResult(c)'
    BY <1>3 DEF CommandInv, HonestResult
  <1>5. HonestExit(c)'
    BY <1>3 DEF ControlInv, ClientInv, HonestExit, Legacy, machineVars
  <1>6. QED
    BY <1>1, <1>2, <1>4, <1>5 DEF ClientEffect

\* A command that returns, with an error or with a result that is true.
LEMMA ReturnCommand ==
  ASSUME TypeOK, ControlInv, NEW c \in Clients, NEW cl \in ClientType, Within(c, conn'),
         NEW r \in {"nil", "err"}, UNCHANGED <<methods, machineVars>>,
         client' = [client EXCEPT ![c] = [cl EXCEPT !.pc = "returned", !.result = r]],
         cl.done = client[c].done, cl.err = client[c].err,
         /\ r = "nil"
         /\ cl.cmd \in {"suspend", "shutdown", "kill"}
         /\ ~Legacy
         /\ ~(cl.cmd = "shutdown" /\ cl.done /\ cl.err = "err")
         => ~qemu /\ (cl.cmd = "suspend" => saved)
  PROVE  ClientEffect(c)
  <1>1. client \in [Clients -> ClientType]
    BY DEF TypeOK
  <1>2. client' \in [Clients -> ClientType]
    BY <1>1 DEF ClientType
  <1>3. /\ client'[c].pc = "returned" /\ client'[c].result = r
        /\ client'[c].cmd = cl.cmd
        /\ client'[c].done = client[c].done
        /\ client'[c].err = client[c].err
    BY <1>1 DEF ClientType
  <1>4. \A d \in Clients : d # c => client'[d] = client[d]
    BY <1>1
  <1>5. CommandInv(c)'
    BY <1>3 DEF CommandInv
  <1>6. HonestResult(c)'
    BY <1>3 DEF HonestResult, Legacy, machineVars
  <1>7. HonestExit(c)'
    BY <1>3 DEF ControlInv, ClientInv, HonestExit, Legacy, machineVars
  <1>8. QED
    BY <1>2, <1>4, <1>5, <1>6, <1>7 DEF ClientEffect

\* The end of a call: what the server answered was true, so what the client makes
\* of it is too.
LEMMA AfterCallEffect ==
  ASSUME TypeOK, ControlInv, NEW c \in Clients, client[c].pc = "call",
         NEW a \in Answers, NEW cs, Within(c, cs), NEW ctx \in BOOLEAN,
         a = "ok" => conn[<<c, "call">>].st = "ok",
         AfterCall(c, a, cs, ctx), UNCHANGED <<methods, machineVars>>
  PROVE  ClientEffect(c)
  <1> DEFINE cl == client[c]
             m == conn[<<c, "call">>].method
  <1>1. cl \in ClientType /\ client \in [Clients -> ClientType]
    BY DEF TypeOK
  <1>2. /\ CommandInv(c) /\ HonestExit(c)
        /\ cl.cmd # "kill"
        /\ cl.cmd = "suspend" => m = "suspend"
        /\ cl.cmd = "shutdown" => m \in {"shutdown", "guest"}
        /\ cl.result # "nil"
    BY DEF ControlInv, ClientInv, CommandInv
  <1>3. a = "ok" => Truth(m)
    BY Ends DEF ControlInv, ConnInv, Kinds
  <1>4. ASSUME NEW r \in {"nil", "err"}, Returns(c, r), conn' = cs,
               r = "nil" => a = "ok" /\ ~Waits(cl.cmd, m)
        PROVE  ClientEffect(c)
    <2>1. client' = [client EXCEPT ![c] = [cl EXCEPT !.pc = "returned", !.result = r]]
      BY <1>1, <1>4 DEF Returns, ClientType
    <2>2. r = "nil" /\ cl.cmd \in {"suspend", "shutdown", "kill"} => ~qemu /\ cl.cmd # "suspend"
      BY <1>2, <1>3, <1>4 DEF Waits, Truth, Released
    <2>3. QED
      BY <1>1, <1>4, <2>1, <2>2, ReturnCommand
  <1>5. CASE a = "ok" /\ Waits(cl.cmd, m)
    <2>1. conn' = cs /\ client' = [client EXCEPT ![c].pc = "wait"]
      BY <1>5 DEF AfterCall
    <2>2. /\ client' \in [Clients -> ClientType]
          /\ client'[c] = [cl EXCEPT !.pc = "wait"]
          /\ \A d \in Clients : d # c => client'[d] = client[d]
      BY <1>1, <2>1 DEF ClientType
    <2>3. /\ client'[c].pc = "wait" /\ client'[c].cmd = cl.cmd
          /\ client'[c].result = cl.result /\ client'[c].done = cl.done /\ client'[c].err = cl.err
      BY <1>1, <2>2 DEF ClientType
    <2>4. cl.cmd = "shutdown" \/ (cl.cmd = "suspend" /\ saved)
      BY <1>2, <1>3, <1>5 DEF Waits, Truth
    <2>5. CommandInv(c)' /\ HonestResult(c)'
      BY <1>2, <2>3, <2>4 DEF CommandInv, HonestResult, machineVars
    <2>6. HonestExit(c)'
      BY <1>2, <2>3 DEF HonestExit, Legacy, machineVars
    <2>7. QED
      BY <2>1, <2>2, <2>5, <2>6 DEF ClientEffect
  <1>6. CASE a = "ok" /\ ~Waits(cl.cmd, m)
    <2>1. conn' = cs /\ Returns(c, "nil")
      BY <1>6 DEF AfterCall
    <2>2. QED
      BY <1>4, <1>6, <2>1
  <1>7. CASE a # "ok" /\ cl.cmd = "shutdown" /\ m = "guest"
    <2>1. CallKill(c, cl, cs)
      BY <1>7 DEF AfterCall
    <2>2. QED
      BY <1>1, <1>2, <1>7, <2>1, KillCommand
  <1>8. CASE a # "ok" /\ cl.cmd = "shutdown" /\ m = "shutdown" /\ ctx
    <2>1. CallKill(c, [cl EXCEPT !.result = "err"], cs)
      BY <1>8 DEF AfterCall
    <2>2. /\ [cl EXCEPT !.result = "err"] \in ClientType
          /\ [cl EXCEPT !.result = "err"].cmd = "shutdown"
          /\ [cl EXCEPT !.result = "err"].result = "err"
          /\ [cl EXCEPT !.result = "err"].done = cl.done
          /\ [cl EXCEPT !.result = "err"].err = cl.err
      BY <1>1, <1>8 DEF ClientType
    <2>3. QED
      BY <2>1, <2>2, KillCommand
  <1>9. CASE /\ a # "ok"
             /\ ~(cl.cmd = "shutdown" /\ m = "guest")
             /\ ~(cl.cmd = "shutdown" /\ m = "shutdown" /\ ctx)
    <2>1. conn' = cs /\ Returns(c, "err")
      BY <1>9 DEF AfterCall
    <2>2. QED
      BY <1>4, <2>1
  <1>10. QED
    BY <1>5, <1>6, <1>7, <1>8, <1>9

\* A client that has no result yet and goes on without a command's call.
LEMMA PlainStep ==
  ASSUME TypeOK, ControlInv, NEW c \in Clients, NEW p \in {"dialing", "ready", "left"},
         client' = [client EXCEPT ![c].pc = p], client[c].pc # "returned", Within(c, conn'),
         UNCHANGED <<methods, machineVars>>
  PROVE  ClientEffect(c)
  <1>1. client \in [Clients -> ClientType] /\ client[c] \in ClientType
    BY DEF TypeOK
  <1>2. /\ client' \in [Clients -> ClientType]
        /\ \A d \in Clients : d # c => client'[d] = client[d]
        /\ client'[c] = [client[c] EXCEPT !.pc = p]
    BY <1>1 DEF ClientType
  <1>3. /\ client'[c].pc = p /\ client'[c].result = client[c].result
        /\ client'[c].done = client[c].done /\ client'[c].err = client[c].err
    BY <1>1, <1>2 DEF ClientType
  <1>4. CommandInv(c) /\ HonestExit(c)
    BY DEF ControlInv, ClientInv
  <1>5. CommandInv(c)' /\ HonestResult(c)'
    BY <1>3, <1>4 DEF CommandInv, HonestResult
  <1>6. HonestExit(c)'
    BY <1>3, <1>4 DEF HonestExit, Legacy, machineVars
  <1>7. QED
    BY <1>2, <1>5, <1>6 DEF ClientEffect

\* A client that waits for the call of its command.
LEMMA CallBegins ==
  ASSUME TypeOK, ControlInv, NEW c \in Clients, NEW cmd \in Commands, NEW m \in Methods,
         client[c].pc \in {"new", "ready"}, UNCHANGED <<methods, machineVars>>,
         client' = [client EXCEPT ![c] = [client[c] EXCEPT !.pc = "call", !.cmd = cmd]],
         conn' = Open(conn, <<c, "call">>, m),
         cmd # "kill", cmd = "suspend" => m = "suspend",
         cmd = "shutdown" => m \in {"shutdown", "guest"}
  PROVE  ClientEffect(c)
  <1>1. client \in [Clients -> ClientType] /\ client[c] \in ClientType /\ Within(c, conn)
    BY DEF TypeOK, Within
  <1>2. "call" \in Kinds /\ Carries("call", m)
    BY DEF Kinds, Carries
  <1>3. Within(c, conn') /\ Opened(conn'[<<c, "call">>], m)
    BY <1>1, <1>2, OpenWithin
  <1>4. /\ client' \in [Clients -> ClientType]
        /\ \A d \in Clients : d # c => client'[d] = client[d]
        /\ client'[c] = [client[c] EXCEPT !.pc = "call", !.cmd = cmd]
    BY <1>1 DEF ClientType
  <1>5. /\ client'[c].pc = "call" /\ client'[c].cmd = cmd
        /\ client'[c].result = client[c].result
        /\ client'[c].done = client[c].done /\ client'[c].err = client[c].err
    BY <1>1, <1>4 DEF ClientType
  <1>6. CommandInv(c) /\ HonestExit(c)
    BY DEF ControlInv, ClientInv
  <1>7. CommandInv(c)' /\ HonestResult(c)'
    BY <1>3, <1>5, <1>6 DEF CommandInv, HonestResult, Opened
  <1>8. HonestExit(c)'
    BY <1>5, <1>6 DEF HonestExit, Legacy, machineVars
  <1>9. QED
    BY <1>3, <1>4, <1>7, <1>8 DEF ClientEffect

\* Every step of a client.
LEMMA ClientStepEffect ==
  ASSUME TypeOK, ControlInv, NEW c \in Clients, ClientStep(c)
  PROVE  ClientEffect(c)
  <1>1. /\ client \in [Clients -> ClientType] /\ client[c] \in ClientType
        /\ conn \in [Sockets -> ConnType] /\ Within(c, conn)
    BY DEF TypeOK, Within
  <1>2. CommandInv(c) /\ HonestExit(c) /\ HonestResult(c)
    BY DEF ControlInv, ClientInv
  <1>3. \A k \in Kinds : <<c, k>> \in Sockets /\ <<c, k>>[2] = k
    BY Ends
  <1>4. CASE Dial(c)
    <2>1. /\ conn' = Open(conn, <<c, "call">>, "methods")
          /\ client' = [client EXCEPT ![c].pc = "dialing"]
          /\ client[c].pc = "new" /\ UNCHANGED <<methods, machineVars>>
      BY <1>4 DEF Dial
    <2>2. "call" \in Kinds /\ "methods" \in Methods /\ Carries("call", "methods")
      BY DEF Kinds, Methods, Core, Carries
    <2>3. Within(c, conn')
      BY <1>1, <2>1, <2>2, OpenWithin
    <2>4. QED
      BY <2>1, <2>3, PlainStep
  <1>5. CASE Dialed(c)
    <2> DEFINE m == IF Legacy THEN "status" ELSE "wait"
    <2>1. client[c].pc = "dialing" /\ UNCHANGED <<methods, machineVars>>
      BY <1>5 DEF Dialed
    <2>2. {"call", "watch"} \subseteq Kinds /\ m \in Methods /\ Carries("watch", m)
      BY DEF Kinds, Methods, Core, Carries
    <2>3. Within(c, Consume(conn, <<c, "call">>))
      BY <1>1, <2>2, ConsumeWithin
    <2>4. CASE /\ conn' = Open(Consume(conn, <<c, "call">>), <<c, "watch">>, m)
               /\ client' = [client EXCEPT ![c].pc = "ready"]
      <3>1. Within(c, conn')
        BY <2>2, <2>3, <2>4, OpenWithin
      <3>2. QED
        BY <2>1, <2>4, <3>1, PlainStep
    <2>5. CASE /\ conn' = Consume(conn, <<c, "call">>)
               /\ client' = [client EXCEPT ![c].pc = "left"]
      BY <2>1, <2>3, <2>5, PlainStep
    <2>6. QED
      BY <1>5, <2>4, <2>5 DEF Dialed
  <1>6. CASE observeExit(c)
    <2> DEFINE x == <<c, "watch">>
               a == conn[x].st
    <2>1. /\ ~client[c].done /\ a \in Answers /\ conn' = Consume(conn, x)
          /\ UNCHANGED <<methods, machineVars>>
      BY <1>6 DEF observeExit
    <2>2. "watch" \in Kinds /\ "call" \in Kinds /\ x # <<c, "call">>
      BY DEF Kinds
    <2>3. Within(c, conn')
      BY <1>1, <2>1, <2>2, ConsumeWithin
    <2>4. conn'[<<c, "call">>] = conn[<<c, "call">>]
      BY <1>1, <1>3, <2>1, <2>2, ConsumeEffect
    <2>5. ~Legacy /\ a = "ok" => Released
      <3>1. a = "ok" => Truth(conn[x].method) /\ Carries("watch", conn[x].method)
        BY <1>3, <2>2 DEF ControlInv, ConnInv
      <3>2. QED
        BY <3>1 DEF Carries, Truth
    <2>6. CASE client' = client
      <3>1. CommandInv(c)'
        BY <1>2, <2>1, <2>4, <2>6 DEF CommandInv, machineVars
      <3>2. HonestExit(c)' /\ HonestResult(c)'
        BY <1>2, <2>1, <2>6 DEF HonestExit, HonestResult, Legacy, machineVars
      <3>3. QED
        BY <1>1, <2>1, <2>3, <2>6, <3>1, <3>2 DEF ClientEffect
    <2>7. ASSUME NEW e \in {"nil", "err"}, finish(c, e),
                 e = "nil" => IF Legacy THEN socket = "removed" ELSE Released
          PROVE  ClientEffect(c)
      <3>1. /\ client' \in [Clients -> ClientType]
            /\ \A d \in Clients : d # c => client'[d] = client[d]
            /\ client'[c] = [client[c] EXCEPT !.done = TRUE, !.err = e]
        BY <1>1, <2>7 DEF finish, ClientType
      <3>2. /\ client'[c].done = TRUE /\ client'[c].err = e
            /\ client'[c].pc = client[c].pc /\ client'[c].cmd = client[c].cmd
            /\ client'[c].result = client[c].result
        BY <1>1, <3>1 DEF ClientType
      <3>3. CommandInv(c)'
        BY <1>2, <2>1, <2>4, <3>2 DEF CommandInv, machineVars
      <3>4. HonestExit(c)'
        BY <2>1, <2>7, <3>2 DEF HonestExit, Released, Legacy, machineVars
      <3>5. HonestResult(c)'
        BY <1>2, <2>1, <3>2 DEF HonestResult, Legacy, machineVars
      <3>6. QED
        BY <2>1, <2>3, <3>1, <3>3, <3>4, <3>5 DEF ClientEffect
    <2>8. CASE ~Legacy
      <3>1. finish(c, ExitError(a))
        BY <1>6, <2>8 DEF observeExit
      <3>2. ExitError(a) \in {"nil", "err"} /\ (ExitError(a) = "nil" => a = "ok")
        BY DEF ExitError, WatchError
      <3>3. QED
        BY <2>5, <2>7, <2>8, <3>1, <3>2
    <2>9. CASE Legacy
      <3>1. CASE a # "ok" /\ socket = "removed"
        <4>1. finish(c, "nil")
          BY <1>6, <2>9, <3>1 DEF observeExit
        <4>2. QED
          BY <2>7, <2>9, <3>1, <4>1
      <3>2. CASE a = "error" /\ socket # "removed"
        <4>1. finish(c, "err")
          BY <1>6, <2>9, <3>2 DEF observeExit
        <4>2. QED
          BY <2>7, <4>1
      <3>3. CASE ~(a # "ok" /\ socket = "removed") /\ ~(a = "error" /\ socket # "removed")
        <4>1. client' = client
          BY <1>6, <2>9, <3>3 DEF observeExit
        <4>2. QED
          BY <2>6, <4>1
      <3>4. QED
        BY <3>1, <3>2, <3>3
    <2>10. QED
      BY <2>8, <2>9
  <1>7. CASE PollAgain(c)
    <2>1. /\ Legacy /\ conn' = Open(conn, <<c, "watch">>, "status")
          /\ UNCHANGED <<methods, client, machineVars>>
      BY <1>7 DEF PollAgain
    <2>2. /\ {"watch", "call"} \subseteq Kinds /\ "status" \in Methods
          /\ Carries("watch", "status") /\ <<c, "watch">> # <<c, "call">>
      BY <2>1 DEF Kinds, Methods, Core, Carries
    <2>3. Within(c, conn') /\ conn'[<<c, "call">>] = conn[<<c, "call">>]
      BY <1>1, <1>3, <2>1, <2>2, OpenWithin
    <2>4. CommandInv(c)'
      BY <1>2, <2>1, <2>3 DEF CommandInv, machineVars
    <2>5. HonestExit(c)' /\ HonestResult(c)'
      BY <1>2, <2>1 DEF HonestExit, HonestResult, Legacy, machineVars
    <2>6. QED
      BY <1>1, <2>1, <2>3, <2>4, <2>5 DEF ClientEffect
  <1>8. ASSUME NEW cmd \in Commands, Invoke(c, cmd) PROVE ClientEffect(c)
    <2> DEFINE cl == [client[c] EXCEPT !.cmd = cmd]
               m == IF cmd = "shutdown" /\ "shutdown" \notin methods THEN "guest" ELSE cmd
    <2>1. client[c].pc = "ready" /\ cmd # "raw" /\ UNCHANGED <<methods, machineVars>>
      BY <1>8 DEF Invoke
    <2>2. /\ cl \in ClientType /\ cl.cmd = cmd /\ cl.done = client[c].done
          /\ cl.err = client[c].err /\ cl.result = client[c].result
      BY <1>1 DEF ClientType
    <2>3. client[c].result # "nil"
      BY <1>2, <2>1 DEF CommandInv
    <2>4. CASE cmd = "shutdown" /\ cl.done
      <3>1. /\ client' = [client EXCEPT ![c] = [cl EXCEPT !.pc = "returned", !.result = "nil"]]
            /\ conn' = conn
        BY <1>8, <2>4 DEF Invoke
      <3>2. ~Legacy /\ ~(cl.done /\ cl.err = "err") => ~qemu
        BY <1>1, <1>2, <2>2, <2>4 DEF HonestExit, ClientType
      <3>3. QED
        BY <1>1, <2>1, <2>2, <2>4, <3>1, <3>2, ReturnCommand
    <2>5. CASE cmd = "kill" \/ (cmd = "shutdown" /\ ~cl.done /\ m \notin methods)
      <3>1. CallKill(c, cl, conn)
        BY <1>8, <2>5 DEF Invoke
      <3>2. QED
        BY <1>1, <2>1, <2>2, <2>3, <2>5, <3>1, KillCommand
    <2>6. CASE cmd \notin {"shutdown", "kill"} /\ m \notin methods
      <3>1. /\ client' = [client EXCEPT ![c] = [cl EXCEPT !.pc = "returned", !.result = "err"]]
            /\ conn' = conn
        BY <1>8, <2>6 DEF Invoke
      <3>2. QED
        BY <1>1, <2>1, <2>2, <3>1, ReturnCommand
    <2>7. CASE /\ ~(cmd = "shutdown" /\ cl.done)
               /\ ~(cmd = "kill" \/ (cmd = "shutdown" /\ ~cl.done /\ m \notin methods))
               /\ ~(cmd \notin {"shutdown", "kill"} /\ m \notin methods)
      <3>1. /\ client' = [client EXCEPT ![c] = [cl EXCEPT !.pc = "call"]]
            /\ conn' = Open(conn, <<c, "call">>, m)
        BY <1>8, <2>7 DEF Invoke
      <3>2. [cl EXCEPT !.pc = "call"] = [client[c] EXCEPT !.pc = "call", !.cmd = cmd]
        BY <1>1 DEF ClientType
      <3>3. m \in Methods
        BY <2>1 DEF Commands, Methods, Core
      <3>4. cmd # "kill" /\ (cmd = "suspend" => m = "suspend")
            /\ (cmd = "shutdown" => m \in {"shutdown", "guest"})
        BY <2>7
      <3>5. QED
        BY <2>1, <3>1, <3>2, <3>3, <3>4, CallBegins
    <2>8. QED
      BY <2>4, <2>5, <2>6, <2>7
  <1>9. CASE CallReturns(c)
    <2>1. /\ client[c].pc = "call" /\ conn[<<c, "call">>].st \in Answers
          /\ UNCHANGED <<methods, machineVars>>
      BY <1>9 DEF CallReturns
    <2>2. PICK d \in BOOLEAN :
            AfterCall(c, conn[<<c, "call">>].st, Consume(conn, <<c, "call">>), d)
      BY <1>9 DEF CallReturns
    <2>3. Within(c, Consume(conn, <<c, "call">>))
      BY <1>1, ConsumeWithin DEF Kinds
    <2>4. QED
      BY <2>1, <2>2, <2>3, AfterCallEffect
  <1>10. CASE CallTimesOut(c)
    <2>1. client[c].pc = "call" /\ UNCHANGED <<methods, machineVars>>
      BY <1>10 DEF CallTimesOut
    <2>2. PICK d \in BOOLEAN :
            AfterCall(c, "error", Abandon(conn, {<<c, "call">>}), d)
      BY <1>10 DEF CallTimesOut
    <2>3. \A x \in {<<c, "call">>} : x[1] = c
      OBVIOUS
    <2>4. Within(c, Abandon(conn, {<<c, "call">>}))
      BY <2>3, AbandonWithin
    <2>5. QED
      BY <2>1, <2>2, <2>4, AfterCallEffect DEF Answers
  <1>11. CASE KillReturns(c)
    <2> DEFINE x == <<c, "kill">>
               r == IF conn[x].st = "ok" /\ client[c].result # "err" THEN "nil" ELSE "err"
    <2>1. /\ client[c].pc = "kill" /\ conn' = Consume(conn, x) /\ Returns(c, r)
          /\ UNCHANGED <<methods, machineVars>>
      BY <1>11 DEF KillReturns
    <2>2. Within(c, conn')
      BY <1>1, <2>1, ConsumeWithin DEF Kinds
    <2>3. client' = [client EXCEPT ![c] = [client[c] EXCEPT !.pc = "returned", !.result = r]]
      BY <1>1, <2>1 DEF Returns, ClientType
    <2>4. client[c].cmd \in {"kill", "shutdown"}
      BY <1>2, <2>1 DEF CommandInv
    <2>5. conn[x].st = "ok" => Released
      <3>1. x \in Sockets /\ x[2] = "kill"
        BY <1>3 DEF Kinds
      <3>2. conn[x].st = "ok" => Truth(conn[x].method) /\ Carries("kill", conn[x].method)
        BY <3>1 DEF ControlInv, ConnInv
      <3>3. QED
        BY <3>2 DEF Truth, Carries
    <2>6. r \in {"nil", "err"} /\ (r = "nil" => ~qemu)
      BY <2>5 DEF Released
    <2>7. QED
      BY <1>1, <2>1, <2>2, <2>3, <2>4, <2>6, ReturnCommand
  <1>12. CASE WaitReturns(c)
    <2>1. client[c].pc = "wait" /\ UNCHANGED <<methods, machineVars>>
      BY <1>12 DEF WaitReturns
    <2>2. client[c].cmd = "shutdown" \/ (client[c].cmd = "suspend" /\ saved)
      BY <1>2, <2>1 DEF CommandInv
    <2>3. ASSUME NEW r \in {"nil", "err"}, Returns(c, r), conn' = conn,
                 r = "nil" => client[c].done /\ client[c].err = "nil"
          PROVE  ClientEffect(c)
      <3>1. client' = [client EXCEPT ![c] = [client[c] EXCEPT !.pc = "returned", !.result = r]]
        BY <1>1, <2>3 DEF Returns, ClientType
      <3>2. r = "nil" /\ ~Legacy => ~qemu /\ (client[c].cmd = "suspend" => saved)
        BY <1>2, <2>2, <2>3 DEF HonestExit
      <3>3. QED
        BY <1>1, <2>1, <2>3, <3>1, <3>2, ReturnCommand
    <2>4. CASE client[c].done /\ client[c].err = "nil" /\ conn' = conn /\ Returns(c, "nil")
      BY <2>3, <2>4
    <2>5. CASE conn' = conn /\ Returns(c, "err")
      BY <2>3, <2>5
    <2>6. CASE /\ client[c].cmd = "shutdown"
               /\ CallKill(c, [client[c] EXCEPT !.result = "err"], conn)
      <3>1. /\ [client[c] EXCEPT !.result = "err"] \in ClientType
            /\ [client[c] EXCEPT !.result = "err"].cmd = "shutdown"
            /\ [client[c] EXCEPT !.result = "err"].result = "err"
            /\ [client[c] EXCEPT !.result = "err"].done = client[c].done
            /\ [client[c] EXCEPT !.result = "err"].err = client[c].err
        BY <1>1, <2>6 DEF ClientType
      <3>2. QED
        BY <1>1, <2>1, <2>6, <3>1, KillCommand
    <2>7. QED
      BY <1>12, <2>4, <2>5, <2>6 DEF WaitReturns
  <1>13. CASE Leave(c)
    <2>1. /\ client' = [client EXCEPT ![c] = [Idle EXCEPT !.pc = "left"]]
          /\ conn' = Abandon(conn, {c} \X Kinds)
          /\ UNCHANGED <<methods, machineVars>>
      BY <1>13 DEF Leave
    <2>2. \A x \in {c} \X Kinds : x[1] = c
      OBVIOUS
    <2>3. Within(c, conn')
      BY <2>1, <2>2, AbandonWithin
    <2>4. /\ client' \in [Clients -> ClientType]
          /\ \A d \in Clients : d # c => client'[d] = client[d]
          /\ client'[c].pc = "left" /\ client'[c].result = "none" /\ client'[c].done = FALSE
      BY <1>1, <2>1 DEF ClientType, Idle
    <2>5. CommandInv(c)' /\ HonestExit(c)' /\ HonestResult(c)'
      BY <2>4 DEF CommandInv, HonestExit, HonestResult
    <2>6. QED
      BY <2>1, <2>3, <2>4, <2>5 DEF ClientEffect
  <1>14. CASE Raw(c)
    <2>1. /\ client[c].pc = "new" /\ UNCHANGED <<methods, machineVars>>
          /\ conn' = Open(conn, <<c, "call">>, "guest")
          /\ client' = [client EXCEPT ![c].pc = "call", ![c].cmd = "raw"]
      BY <1>14 DEF Raw
    <2>2. client' = [client EXCEPT ![c] = [client[c] EXCEPT !.pc = "call", !.cmd = "raw"]]
      BY <1>1, <2>1 DEF ClientType
    <2>3. QED
      BY <2>1, <2>2, CallBegins DEF Commands, Methods
  <1>15. QED
    BY <1>4, <1>5, <1>6, <1>7, <1>8, <1>9, <1>10, <1>11, <1>12, <1>13, <1>14 DEF ClientStep

-----------------------------------------------------------------------------
(* The theorems *)

LEMMA ControlInit == Init => TypeOK /\ ControlInv
  <1> SUFFICES ASSUME Init
               PROVE  TypeOK /\ ControlInv
    OBVIOUS
  <1>1. conn \in [Sockets -> ConnType] /\ \A x \in Sockets : conn[x].st = "none" /\ conn[x].method = "none"
    BY DEF Init, NoConn, ConnType
  <1>2. /\ client \in [Clients -> ClientType]
        /\ \A c \in Clients : client[c].pc = "new" /\ client[c].result = "none" /\ ~client[c].done
    BY DEF Init, Idle, ClientType
  <1>3. TypeOK /\ TearInv
    BY <1>1, <1>2 DEF Init, TypeOK, TearInv
  <1>4. ConnInv
    BY <1>1 DEF ConnInv
  <1>5. ClientInv
    BY <1>2 DEF ClientInv, CommandInv, HonestExit, HonestResult
  <1>6. QED
    BY <1>3, <1>4, <1>5 DEF ControlInv

\* Whatever the server and the machine do, the answers stay true and the clients
\* keep what they rely on.
LEMMA ServerKeeps ==
  ASSUME TypeOK, ControlInv, [Next]_vars, client' = client, conn' \in [Sockets -> ConnType],
         \A x \in Sockets : ServerMoves(x)
  PROVE  (TypeOK /\ ControlInv)'
  <1>1. /\ methods' = methods
        /\ socket' \in {"open", "removed", "stale"}
        /\ tear' \in {"none", "writeback", "processes", "done"}
        /\ {alive, qemu, wedged, saved, tearErr}' \subseteq BOOLEAN
        /\ TearInv'
        /\ Released => Released'
        /\ ~qemu => ~qemu'
        /\ tear = "done" => tear' = "done"
        /\ saved => saved'
        /\ socket = "removed" => socket' = "removed"
    BY MachineStep DEF ControlInv
  <1>2. TypeOK'
    BY <1>1 DEF TypeOK
  <1>3. ASSUME NEW x \in Sockets
        PROVE  /\ conn'[x].st = "none" <=> conn'[x].method = "none"
               /\ conn'[x].st \in {"closing", "unkilled"} => conn'[x].method \in {"kill", "shutdown"}
               /\ conn'[x].st = "ok" => Truth(conn[x].method)'
               /\ conn'[x].st # "none" => Carries(x[2], conn[x].method)'
    <2>1. /\ conn[x].st = "none" <=> conn[x].method = "none"
          /\ conn[x].st \in {"closing", "unkilled"} => conn[x].method \in {"kill", "shutdown"}
          /\ conn[x].st = "ok" => Truth(conn[x].method)
          /\ conn[x].st # "none" => Carries(x[2], conn[x].method)
          /\ conn[x] \in ConnType
      BY DEF ControlInv, ConnInv, TypeOK
    <2>2. CASE conn'[x] = conn[x]
      BY <1>1, <2>1, <2>2 DEF Truth, Carries, Legacy
    <2>3. CASE conn'[x] = NoConn
      BY <2>3 DEF NoConn
    <2>4. ASSUME NEW a \in Held \cup Answers,
                 conn[x].st # "none",
                 conn'[x] = [conn[x] EXCEPT !.st = a],
                 a \in {"closing", "unkilled"} => conn[x].method \in {"kill", "shutdown"},
                 a = "ok" => Truth(conn[x].method)'
          PROVE  /\ conn'[x].st = "none" <=> conn'[x].method = "none"
                 /\ conn'[x].st \in {"closing", "unkilled"} => conn'[x].method \in {"kill", "shutdown"}
                 /\ conn'[x].st = "ok" => Truth(conn[x].method)'
                 /\ conn'[x].st # "none" => Carries(x[2], conn[x].method)'
      <3>1. conn'[x].st = a /\ conn'[x].method = conn[x].method /\ a # "none"
        BY <2>1, <2>4 DEF ConnType, Held, Answers
      <3>2. Carries(x[2], conn[x].method)'
        BY <1>1, <2>1, <2>4, <3>1 DEF Carries, Legacy
      <3>3. QED
        BY <2>1, <2>4, <3>1, <3>2
    <2>5. QED
      BY <2>2, <2>3, <2>4 DEF ServerMoves
  <1>4. ConnInv'
    BY <1>3 DEF ConnInv
  <1>5. ASSUME NEW c \in Clients PROVE (CommandInv(c) /\ HonestExit(c) /\ HonestResult(c))'
    <2>1. CommandInv(c) /\ HonestExit(c) /\ HonestResult(c)
      BY DEF ControlInv, ClientInv
    <2>2. <<c, "call">> \in Sockets
      BY Ends DEF Kinds
    <2>3. conn[<<c, "call">>].open => /\ conn'[<<c, "call">>].open
                                      /\ conn'[<<c, "call">>].method = conn[<<c, "call">>].method
      BY <2>2 DEF ServerMoves
    <2>4. CommandInv(c)'
      BY <1>1, <2>1, <2>3 DEF CommandInv
    <2>5. HonestExit(c)' /\ HonestResult(c)'
      BY <1>1, <2>1 DEF HonestExit, HonestResult, Legacy
    <2>6. QED
      BY <2>4, <2>5
  <1>6. ClientInv'
    BY <1>5 DEF ClientInv
  <1>7. QED
    BY <1>1, <1>2, <1>4, <1>6 DEF ControlInv

\* A step of one client leaves the answers and the other clients as they are.
LEMMA ClientKeeps ==
  ASSUME TypeOK, ControlInv, NEW c \in Clients, ClientEffect(c)
  PROVE  (TypeOK /\ ControlInv)'
  <1>1. /\ UNCHANGED <<methods, machineVars>> /\ Within(c, conn')
        /\ client' \in [Clients -> ClientType]
        /\ \A d \in Clients : d # c => client'[d] = client[d]
        /\ CommandInv(c)' /\ HonestExit(c)' /\ HonestResult(c)'
    BY DEF ClientEffect
  <1>2. /\ UNCHANGED <<methods, socket, alive, qemu, wedged, saved, tear, tearErr>>
        /\ conn' \in [Sockets -> ConnType]
    BY <1>1 DEF Within, machineVars
  <1>3. TypeOK' /\ TearInv'
    BY <1>1, <1>2 DEF TypeOK, ControlInv, TearInv
  <1>4. ASSUME NEW x \in Sockets
        PROVE  /\ conn'[x].st = "none" <=> conn'[x].method = "none"
               /\ conn'[x].st \in {"closing", "unkilled"} => conn'[x].method \in {"kill", "shutdown"}
               /\ conn'[x].st = "ok" => Truth(conn[x].method)'
               /\ conn'[x].st # "none" => Carries(x[2], conn[x].method)'
    <2>1. /\ conn[x].st = "none" <=> conn[x].method = "none"
          /\ conn[x].st \in {"closing", "unkilled"} => conn[x].method \in {"kill", "shutdown"}
          /\ conn[x].st = "ok" => Truth(conn[x].method)
          /\ conn[x].st # "none" => Carries(x[2], conn[x].method)
          /\ conn[x] \in ConnType
      BY DEF ControlInv, ConnInv, TypeOK
    <2>2. CASE conn'[x] = conn[x] \/ conn'[x] = [conn[x] EXCEPT !.open = FALSE]
      <3>1. conn'[x].st = conn[x].st /\ conn'[x].method = conn[x].method
        BY <2>1, <2>2 DEF ConnType
      <3>2. QED
        BY <1>2, <2>1, <3>1 DEF Truth, Released, Carries, Legacy
    <2>3. CASE conn'[x] = NoConn
      BY <2>3 DEF NoConn
    <2>4. ASSUME NEW m \in Methods, Opened(conn'[x], m), Carries(x[2], m)
          PROVE  /\ conn'[x].st = "none" <=> conn'[x].method = "none"
                 /\ conn'[x].st \in {"closing", "unkilled"} => conn'[x].method \in {"kill", "shutdown"}
                 /\ conn'[x].st = "ok" => Truth(conn[x].method)'
                 /\ conn'[x].st # "none" => Carries(x[2], conn[x].method)'
      <3>1. conn'[x].st \in {"queued", "error", "eof"} /\ conn'[x].method = m /\ m # "none"
        BY <2>4 DEF Opened, Methods, Core
      <3>2. Carries(x[2], conn[x].method)'
        BY <1>2, <2>4, <3>1 DEF Carries, Legacy
      <3>3. QED
        BY <3>1, <3>2
    <2>5. QED
      BY <1>1, <2>2, <2>3, <2>4 DEF Within
  <1>5. ConnInv'
    BY <1>4 DEF ConnInv
  <1>6. ASSUME NEW d \in Clients, d # c
        PROVE  (CommandInv(d) /\ HonestExit(d) /\ HonestResult(d))'
    <2>1. CommandInv(d) /\ HonestExit(d) /\ HonestResult(d) /\ client'[d] = client[d]
      BY <1>1, <1>6 DEF ControlInv, ClientInv
    <2>2. <<d, "call">> \in Sockets /\ <<d, "call">>[1] # c
      BY <1>6, Ends DEF Kinds
    <2>3. conn'[<<d, "call">>] = conn[<<d, "call">>]
      BY <1>1, <2>2 DEF Within
    <2>4. CommandInv(d)'
      BY <1>2, <2>1, <2>3 DEF CommandInv
    <2>5. HonestExit(d)' /\ HonestResult(d)'
      BY <1>2, <2>1 DEF HonestExit, HonestResult, Legacy
    <2>6. QED
      BY <2>4, <2>5
  <1>7. ClientInv'
    BY <1>1, <1>6 DEF ClientInv
  <1>8. QED
    BY <1>3, <1>5, <1>7 DEF ControlInv

LEMMA ControlStep == TypeOK /\ ControlInv /\ [Next]_vars => (TypeOK /\ ControlInv)'
  <1> SUFFICES ASSUME TypeOK, ControlInv, [Next]_vars
               PROVE  (TypeOK /\ ControlInv)'
    OBVIOUS
  <1>1. CASE \/ \E x \in Sockets : Serve(x) \/ GuestMethod(x) \/ Suspend(x) \/ KillFails(x)
             \/ QEMUExits \/ QEMUWedges \/ OwnerCloses \/ Teardown \/ ProcessExits
    <2>1. /\ client' = client
          /\ conn' \in [Sockets -> ConnType]
          /\ \A x \in Sockets : ServerMoves(x)
      BY <1>1, ServerStep DEF ControlInv
    <2>2. QED
      BY <2>1, ServerKeeps
  <1>2. ASSUME NEW c \in Clients, ClientStep(c) PROVE (TypeOK /\ ControlInv)'
    BY <1>2, ClientStepEffect, ClientKeeps
  <1>3. CASE UNCHANGED vars
    <2>1. client' = client /\ conn' = conn
      BY <1>3 DEF vars
    <2>2. conn' \in [Sockets -> ConnType] /\ \A x \in Sockets : ServerMoves(x)
      BY <2>1 DEF TypeOK, ServerMoves
    <2>3. QED
      BY <2>1, <2>2, ServerKeeps
  <1>4. QED
    BY <1>1, <1>2, <1>3 DEF Next

\* The control socket keeps its types and the inductive invariant, for any
\* clients, commands and number of handlers.
THEOREM ControlInvariant == Spec => [](TypeOK /\ ControlInv)
  BY ControlInit, ControlStep, PTL DEF Spec

\* A remote machine that reports a clean exit was really released (client.go
\* finish), whatever crash, refusal or late answer the observing call met and
\* however many clients there are.
THEOREM CleanExitsAreReal == Spec => []CleanExitIsReal
  <1>1. ControlInv => CleanExitIsReal
    BY DEF ControlInv, ClientInv, HonestExit, CleanExitIsReal
  <1>2. QED
    BY <1>1, ControlInvariant, PTL

\* After a Shutdown, Kill or suspend that returned without an error QEMU is down,
\* and saved if it was a suspend, but for the two exceptions the property names
\* (client.go Shutdown, main.go runSuspend).
THEOREM SuccessIsTrue == Spec => []SuccessMeansStopped
  <1>1. ControlInv => SuccessMeansStopped
    BY DEF ControlInv, ClientInv, HonestResult, SuccessMeansStopped
  <1>2. QED
    BY <1>1, ControlInvariant, PTL

=============================================================================
