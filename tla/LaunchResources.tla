---------------------------- MODULE LaunchResources ----------------------------
(***************************************************************************)
(* The host resources a launch takes and gives back: the sockets under the *)
(* runtime directory, a volume image, the run processes and QEMU.  Two     *)
(* launches share one state directory and so one launch lock.  Each        *)
(* resolves its manifest before it locks, prepares the runtime state,      *)
(* starts its processes, and ends in the deferred cleanup of a failed      *)
(* startup, in the Cleanup of a closed machine, or in a crash that leaves  *)
(* its processes running.                                                  *)
(*                                                                         *)
(* The path "qmp" stands for the sockets QEMU and the runtime own (QMP,    *)
(* guest agent, SSH readiness, control), "fs" for a virtiofs share's       *)
(* socket.                                                                 *)
(***************************************************************************)
EXTENDS Naturals, Sequences

CONSTANTS
  Launches,    \* processes launching from one state directory
  MaxCrashes   \* bound: launches killed in one behaviour

Outside == "outside"   \* a virtiofsd this program did not start
Paths == {"qmp", "fs"}
Kinds == {"daemon", "extra", "qemu"}
Servers == Launches \cup {Outside}
NoOne == "no one"
PathStates == {"none", "file", "stale"} \cup Servers

ASSUME ResourcesAssumption ==
  /\ Servers \cap {"none", "file", "stale", "unseen", NoOne} = {}
  /\ Outside \notin Launches /\ MaxCrashes \in Nat

VARIABLES
  \* each launch
  pc,          \* where startup, or its cleanup, stands
  managed,     \* the resolved manifest has a run and a cleanup file for fs
  steps,       \* cleanup steps left
  todo,        \* paths left in the current RemoveStaleSockets
  seen,        \* what CheckSocketPath saw at the first of them
  reached,     \* socketCleanupReached
  group,       \* the processes its ProcessSet will stop
  unstopped,   \* processes that outlived their Stop: its error "reported" by the
               \* launch, or "dropped" by startRuns
  \* the host
  configured,  \* the share has a virtiofsd command
  holder,      \* launch that holds the lock
  sock,        \* what is at each path: a launch stands for its own server
  image,       \* the volume: "absent", "raw", "formatted" or "torn"
  proc,        \* processes by launch and kind: "none", "starting", "up"
  share,       \* server each QEMU's share is connected to
  monitor,     \* server each launch's QMP client is connected to
  crashes

launchVars == <<pc, managed, steps, todo, seen, reached, group, unstopped>>
hostVars == <<configured, holder, sock, image, proc, share, monitor, crashes>>
vars == <<launchVars, hostVars>>

PreLock == {"resolve", "lock"}
Startup == {"locked", "prepare", "external", "sweep", "volume", "format",
            "runs", "waitfs", "boot", "waitqmp", "finish"}
Ended == {"returned", "crashed"}
PCs == PreLock \cup Startup \cup Ended \cup {"running", "closing", "failing"}

TypeOK ==
  /\ pc \in [Launches -> PCs]
  /\ managed \in [Launches -> BOOLEAN] /\ reached \in [Launches -> BOOLEAN]
  /\ steps \in [Launches -> Seq({"stop", "unlock", "sweep"})]
  /\ todo \in [Launches -> Seq(Paths)]
  /\ seen \in [Launches -> PathStates \cup {"unseen"}]
  /\ group \in [Launches -> SUBSET Kinds]
  /\ unstopped \in [Launches -> [Kinds -> {"no", "reported", "dropped"}]]
  /\ configured \in BOOLEAN
  /\ holder \in Launches \cup {NoOne}
  /\ sock \in [Paths -> PathStates]
  /\ image \in {"absent", "raw", "formatted", "torn"}
  /\ proc \in [Launches -> [Kinds -> {"none", "starting", "up"}]]
  /\ share \in [Launches -> Servers \cup {NoOne}]
  /\ monitor \in [Launches -> Servers \cup {NoOne}]
  /\ crashes \in 0 .. MaxCrashes

\* What earlier launches and other programs may have left behind.
Init ==
  /\ pc = [l \in Launches |-> "resolve"]
  /\ managed = [l \in Launches |-> FALSE]
  /\ steps = [l \in Launches |-> <<>>]
  /\ todo = [l \in Launches |-> <<>>]
  /\ seen = [l \in Launches |-> "unseen"]
  /\ reached = [l \in Launches |-> FALSE]
  /\ group = [l \in Launches |-> {}]
  /\ unstopped = [l \in Launches |-> [k \in Kinds |-> "no"]]
  /\ configured \in BOOLEAN
  /\ holder = NoOne
  /\ sock \in [Paths -> {"none", "file", "stale", Outside}]
  /\ sock["qmp"] \in {"none", "stale"}
  /\ image \in {"absent", "formatted"}
  /\ proc = [l \in Launches |-> [k \in Kinds |-> "none"]]
  /\ share = [l \in Launches |-> NoOne]
  /\ monitor = [l \in Launches |-> NoOne]
  /\ crashes = 0

Goto(l, p) == pc' = [pc EXCEPT ![l] = p]

(***************************************************************************)
(* RemoveStaleSockets                                                      *)
(***************************************************************************)

RuntimeSocketCleanupFiles(l) == IF managed[l] THEN <<"qmp", "fs">> ELSE <<"qmp">>

\* Fault: a live socket passes for a stale one.
AnySocket(s) == s \in Servers \cup {"stale"}

\* Only a refused connection makes a socket stale.
ErrStaleSocket(s) == s = "stale"

\* Steps left once Head(steps[l]) is done: the last one returns.
NextStep(l) ==
  /\ steps' = [steps EXCEPT ![l] = Tail(@)]
  /\ todo' = [todo EXCEPT ![l] =
       IF Len(steps[l]) > 1 /\ steps[l][2] = "sweep"
       THEN RuntimeSocketCleanupFiles(l) ELSE <<>>]
  /\ Goto(l, IF Len(steps[l]) = 1 THEN "returned" ELSE pc[l])

AtStep(l, step) == steps[l] # <<>> /\ Head(steps[l]) = step

Sweeping(l) == pc[l] = "sweep" \/ AtStep(l, "sweep")

\* Fault: a failed startup lets the next launch in before it has stopped its
\* own processes.
UnlockFirst(l) == <<"unlock", "stop">> \o (IF reached[l] THEN <<"sweep">> ELSE <<>>)

\* The deferred cleanup of a failed startup, in its order: the sockets are
\* swept after the lock is gone.
FailedStartup(l) == <<"stop", "unlock">> \o (IF reached[l] THEN <<"sweep">> ELSE <<>>)

\* Fault: the lock goes first, as in the failed startup.
UnlockThenSweep(l) == <<"stop", "unlock", "sweep">>

\* runtime.Close: the processes, then Cleanup.
RuntimeCleanup(l) == <<"stop", "sweep", "unlock">>

Fail(l) ==
  /\ Goto(l, "failing")
  /\ steps' = [steps EXCEPT ![l] = FailedStartup(l)]
  /\ todo' = [todo EXCEPT ![l] = <<>>]
  /\ seen' = [seen EXCEPT ![l] = "unseen"]

\* Lstat and dial the next path.  Nothing there: go on.  A refused connection:
\* remove it next.  Anything else is an error, as is a failing call.
CheckSocketPath(l) ==
  /\ Sweeping(l) /\ todo[l] # <<>> /\ seen[l] = "unseen"
  /\ LET s == sock[Head(todo[l])] IN
     \/ /\ s = "none"
        /\ todo' = [todo EXCEPT ![l] = Tail(@)]
        /\ UNCHANGED <<pc, steps, seen>>
     \/ /\ ErrStaleSocket(s)
        /\ seen' = [seen EXCEPT ![l] = s]
        /\ UNCHANGED <<pc, steps, todo>>
     \/ /\ pc[l] = "sweep" /\ Fail(l)
     \/ /\ pc[l] # "sweep" /\ NextStep(l) /\ UNCHANGED seen
  /\ UNCHANGED <<managed, reached, group, unstopped, hostVars>>

\* Remove whatever is at the path by now.
RemoveSocket(l) ==
  /\ Sweeping(l) /\ seen[l] # "unseen"
  /\ sock' = [sock EXCEPT ![Head(todo[l])] = "none"]
  /\ todo' = [todo EXCEPT ![l] = Tail(@)]
  /\ seen' = [seen EXCEPT ![l] = "unseen"]
  /\ UNCHANGED <<pc, managed, steps, reached, group, unstopped, configured,
                 holder, image, proc, share, monitor, crashes>>

SweepDone(l) ==
  /\ Sweeping(l) /\ todo[l] = <<>> /\ seen[l] = "unseen"
  /\ \/ pc[l] = "sweep" /\ Goto(l, "volume") /\ UNCHANGED <<steps, todo>>
     \/ pc[l] # "sweep" /\ NextStep(l)
  /\ UNCHANGED <<managed, seen, reached, group, unstopped, hostVars>>

(***************************************************************************)
(* Startup                                                                 *)
(***************************************************************************)

\* The dial connects: staleUnixSocket, negated.
Answers(s) == s \in Servers

\* Before the lock: a virtiofs socket somebody answers on is somebody else's,
\* anything else at the path gets a virtiofsd of ours.
ResolveVirtioFSRuns(l) ==
  /\ pc[l] = "resolve"
  /\ \/ /\ managed' = [managed EXCEPT ![l] = configured /\ ~Answers(sock["fs"])]
        /\ Goto(l, "lock")
     \/ Goto(l, "returned") /\ UNCHANGED managed
  /\ UNCHANGED <<steps, todo, seen, reached, group, unstopped, hostVars>>

\* A busy lock, or a failure right after it was taken, undoes nothing else.
AcquireRuntimeLock(l) ==
  /\ pc[l] = "lock"
  /\ \/ holder = NoOne /\ holder' = l /\ Goto(l, "locked")
     \/ Goto(l, "returned") /\ UNCHANGED holder
  /\ UNCHANGED <<managed, steps, todo, seen, reached, group, unstopped, configured,
                 sock, image, proc, share, monitor, crashes>>

\* The saved CID in its range, or the first one nobody uses; StartupFails when
\* there is none.
AcquireCID(l) ==
  /\ pc[l] = "locked" /\ Goto(l, "prepare")
  /\ UNCHANGED <<managed, steps, todo, seen, reached, group, unstopped, hostVars>>

EnsureDirectories(l) ==
  /\ pc[l] = "prepare" /\ Goto(l, "external")
  /\ UNCHANGED <<managed, steps, todo, seen, reached, group, unstopped, hostVars>>

\* The shares nobody runs a virtiofsd for.
ExternalVirtioFSSocketPaths(l) == IF managed[l] THEN {} ELSE {"fs"}

\* They need a socket, live or not.
CheckExternal(l) ==
  /\ pc[l] = "external"
  /\ \A p \in ExternalVirtioFSSocketPaths(l) : sock[p] \in Servers \cup {"stale"}
  /\ Goto(l, "sweep")
  /\ todo' = [todo EXCEPT ![l] = RuntimeSocketCleanupFiles(l)]
  /\ UNCHANGED <<managed, steps, seen, reached, group, unstopped, hostVars>>

\* An image that exists is used as it is.
StatVolume(l) ==
  /\ pc[l] = "volume" /\ image # "absent"
  /\ Goto(l, "runs")
  /\ reached' = [reached EXCEPT ![l] = TRUE]
  /\ UNCHANGED <<managed, steps, todo, seen, group, unstopped, hostVars>>

CreatePrivateFile(l) ==
  /\ pc[l] = "volume" /\ image = "absent"
  /\ image' = "raw" /\ Goto(l, "format")
  /\ UNCHANGED <<managed, steps, todo, seen, reached, group, unstopped, configured,
                 holder, sock, proc, share, monitor, crashes>>

\* Fault: a half-made image stays.
KeepsImage == "raw"

\* CreateVolumeImage's deferred removal.
RemovesImage == "absent"

FormatVolume(l) ==
  /\ pc[l] = "format"
  /\ \/ /\ image' = "formatted" /\ Goto(l, "runs")
        /\ reached' = [reached EXCEPT ![l] = TRUE]
        /\ UNCHANGED <<steps, todo, seen>>
     \/ image' = RemovesImage /\ Fail(l) /\ UNCHANGED reached
  /\ UNCHANGED <<managed, group, unstopped, configured, holder, sock, proc, share,
                 monitor, crashes>>

Runs(l) == IF managed[l] THEN {"daemon", "extra"} ELSE {"extra"}
Started(l) == {k \in Kinds : proc[l][k] # "none"}

\* The next of the runs starts; a virtiofsd has yet to bind its socket.  They
\* belong to the ProcessSet only once all have started.
StartRun(l) ==
  /\ pc[l] = "runs"
  /\ LET left == Runs(l) \ group[l]
         k == IF "daemon" \in left THEN "daemon" ELSE "extra" IN
     IF left # {}
     THEN /\ proc' = [proc EXCEPT ![l][k] = IF k = "daemon" THEN "starting" ELSE "up"]
          /\ group' = [group EXCEPT ![l] = @ \cup {k}]
          /\ UNCHANGED pc
     ELSE Goto(l, "waitfs") /\ UNCHANGED <<proc, group>>
  /\ UNCHANGED <<managed, steps, todo, seen, reached, unstopped, configured, holder,
                 sock, image, share, monitor, crashes>>

Serves(p) == IF p = "fs" THEN "daemon" ELSE "qemu"

\* What a path holds when the processes ks of l are gone: QEMU removes its
\* sockets when it quits, a killed server leaves them behind.
Vacated(l, ks, left) ==
  [p \in Paths |-> IF sock[p] = l /\ Serves(p) \in ks THEN left ELSE sock[p]]

\* Stop of the processes ks, which ProcessSet models in full: a signal that
\* fails, or a process that does not die of SIGKILL in time, leaves it running,
\* and an error that is reported or dropped.  No group has them any more.
Stop(l, ks, err) ==
  \E alive \in SUBSET {k \in ks : proc[l][k] # "none"} :
    /\ proc' = [proc EXCEPT ![l] =
         [k \in Kinds |-> IF k \in ks \ alive THEN "none" ELSE @[k]]]
    /\ \E left \in {"none", "stale"} : sock' = Vacated(l, ks \ alive, left)
    /\ unstopped' = [unstopped EXCEPT ![l] =
         [k \in Kinds |-> IF k \in alive THEN err ELSE @[k]]]
    /\ group' = [group EXCEPT ![l] = {}]

\* Fault: the runs already started are forgotten.
LeavesRuns(l) == {}

\* startRuns stops what it had started, and ignores what that returns.
StopAllStarted(l) == group[l]

StartRunFails(l) ==
  /\ pc[l] = "runs" /\ Runs(l) # group[l]
  /\ Fail(l) /\ Stop(l, StopAllStarted(l), "dropped")
  /\ UNCHANGED <<managed, reached, configured, holder, image, share, monitor,
                 crashes>>

\* Anything at the path will do.
Exists(p) == sock[p] # "none"

WaitForSockets(l) ==
  /\ pc[l] = "waitfs" /\ Exists("fs")
  /\ Goto(l, "boot")
  /\ UNCHANGED <<managed, steps, todo, seen, reached, group, unstopped, hostVars>>

StartQEMU(l) ==
  /\ pc[l] = "boot"
  /\ proc' = [proc EXCEPT ![l]["qemu"] = "starting"]
  /\ group' = [group EXCEPT ![l] = @ \cup {"qemu"}]
  /\ Goto(l, "waitqmp")
  /\ UNCHANGED <<managed, steps, todo, seen, reached, unstopped, configured, holder,
                 sock, image, share, monitor, crashes>>

WaitForQMP(l) ==
  /\ pc[l] = "waitqmp" /\ sock["qmp"] \in Servers
  /\ monitor' = [monitor EXCEPT ![l] = sock["qmp"]]
  /\ Goto(l, "finish")
  /\ UNCHANGED <<managed, steps, todo, seen, reached, group, unstopped, configured,
                 holder, sock, image, proc, share, crashes>>

\* Restore, control socket and guest files.
FinishStartup(l) ==
  /\ pc[l] = "finish" /\ Goto(l, "running")
  /\ UNCHANGED <<managed, steps, todo, seen, reached, group, unstopped, hostVars>>

\* Every step of startup has a failure of its own: no CID left, a missing
\* external socket, a stat, a start, a watched process that exited, a dial, a
\* cancelled context.
StartupFails(l) ==
  /\ pc[l] \in Startup \ {"sweep", "format", "runs"}
  /\ Fail(l)
  /\ UNCHANGED <<managed, reached, group, unstopped, hostVars>>

(***************************************************************************)
(* Cleanup                                                                 *)
(***************************************************************************)

\* Shutdown, a signal, or QEMU's exit.
CloseRuntime(l) ==
  /\ pc[l] = "running"
  /\ Goto(l, "closing")
  /\ steps' = [steps EXCEPT ![l] = RuntimeCleanup(l)]
  /\ UNCHANGED <<managed, todo, seen, reached, group, unstopped, hostVars>>

\* processes.Close: the steps after it run whatever it returns.
CloseProcesses(l) ==
  /\ AtStep(l, "stop") /\ NextStep(l)
  /\ Stop(l, group[l], "reported")
  /\ UNCHANGED <<managed, seen, reached, configured, holder, image, share,
                 monitor, crashes>>

CleanupRuntimeLock(l) ==
  /\ AtStep(l, "unlock") /\ NextStep(l)
  /\ holder' = NoOne
  /\ UNCHANGED <<managed, seen, reached, group, unstopped, configured, sock, image,
                 proc, share, monitor, crashes>>

(***************************************************************************)
(* The processes and the host                                              *)
(***************************************************************************)

\* virtiofsd binds its socket over whatever is there.
DaemonBinds(l) ==
  /\ proc[l]["daemon"] = "starting"
  /\ proc' = [proc EXCEPT ![l]["daemon"] = "up"]
  /\ sock' = [sock EXCEPT !["fs"] = l]
  /\ UNCHANGED <<launchVars, configured, holder, image, share, monitor, crashes>>

\* QEMU connects its share, which takes a live server, and then listens.
QEMUConnects(l) ==
  /\ proc[l]["qemu"] = "starting" /\ sock["fs"] \in Servers
  /\ share' = [share EXCEPT ![l] = sock["fs"]]
  /\ proc' = [proc EXCEPT ![l]["qemu"] = "up"]
  /\ sock' = [sock EXCEPT !["qmp"] = l]
  /\ UNCHANGED <<launchVars, configured, holder, image, monitor, crashes>>

ProcessExits(l, k) ==
  /\ proc[l][k] # "none"
  /\ proc' = [proc EXCEPT ![l][k] = "none"]
  /\ \E left \in {"none", "stale"} : sock' = Vacated(l, {k}, left)
  /\ UNCHANGED <<launchVars, configured, holder, image, share, monitor, crashes>>

OutsideExits ==
  /\ sock["fs"] = Outside
  /\ \E left \in {"none", "stale"} : sock' = [sock EXCEPT !["fs"] = left]
  /\ UNCHANGED <<launchVars, configured, holder, image, proc, share, monitor, crashes>>

\* The kernel drops the lock; the processes have groups of their own and live on.
Crash(l) ==
  /\ pc[l] \notin Ended /\ crashes < MaxCrashes
  /\ crashes' = crashes + 1
  /\ Goto(l, "crashed")
  /\ steps' = [steps EXCEPT ![l] = <<>>]
  /\ todo' = [todo EXCEPT ![l] = <<>>]
  /\ seen' = [seen EXCEPT ![l] = "unseen"]
  /\ holder' = IF holder = l THEN NoOne ELSE holder
  /\ image' = IF pc[l] = "format" THEN "torn" ELSE image
  /\ UNCHANGED <<managed, reached, group, unstopped, configured, sock, proc,
                 share, monitor>>

Next ==
  \/ \E l \in Launches :
       \/ ResolveVirtioFSRuns(l) \/ AcquireRuntimeLock(l) \/ AcquireCID(l)
       \/ EnsureDirectories(l) \/ CheckExternal(l)
       \/ CheckSocketPath(l) \/ RemoveSocket(l) \/ SweepDone(l)
       \/ StatVolume(l) \/ CreatePrivateFile(l) \/ FormatVolume(l)
       \/ StartRun(l) \/ StartRunFails(l)
       \/ WaitForSockets(l) \/ StartQEMU(l) \/ WaitForQMP(l) \/ FinishStartup(l)
       \/ StartupFails(l)
       \/ CloseRuntime(l) \/ CloseProcesses(l) \/ CleanupRuntimeLock(l)
       \/ DaemonBinds(l) \/ QEMUConnects(l) \/ Crash(l)
       \/ \E k \in Kinds : ProcessExits(l, k)
  \/ OutsideExits

Spec == Init /\ [][Next]_vars

(***************************************************************************)
(* Properties                                                              *)
(***************************************************************************)

\* The servers a launch leaves behind when it crashes or when its Stop fails.
Stray(l, k) == pc[l] = "crashed" \/ unstopped[l][k] # "no"

\* A socket with a live server behind it is never taken for a stale one
\* (RemoveStaleSockets, as TestRemoveStaleSocketsPreservesLiveSocket says).
\* Between its check and its removal a server may still come up: one that an
\* earlier launch left behind, by a crash or by a Stop that failed, or, because a
\* failed startup sweeps after it has released the lock, the next launch's.  No
\* other.
LiveSocketKept ==
  [][\A l \in Launches, p \in Paths :
       (RemoveSocket(l) /\ Head(todo[l]) = p /\ sock[p] \in Servers) =>
          /\ seen[l] = "stale"
          /\ sock[p] \in Launches
          /\ pc[l] = "failing" \/ Stray(sock[p], Serves(p))]_vars

\* However startup fails, and whatever had been started by then (startRuns,
\* the deferred processes.Close), a launch that returns leaves a process running
\* only if that process outlived its own Stop, and then the launch's error says
\* so: except for a run that startRuns could not stop, whose error it drops.
NothingLeftRunning ==
  \A l \in Launches : \A k \in Started(l) :
    pc[l] = "returned" =>
      \/ unstopped[l][k] = "reported"
      \/ unstopped[l][k] = "dropped" /\ k # "qemu"

\* QEMU never gets an image whose formatting another launch, or an earlier
\* failure, left unfinished (CreateVolumeImage under the launch lock): short of
\* a crash in the middle of it, an image that exists is formatted.
VolumeUsable ==
  \A l \in Launches : Started(l) # {} => image \in {"formatted", "torn"}

\* A launch talks to its own QEMU, and its QEMU to the virtiofsd that the
\* launch started for it, although both are found by a path alone that any
\* launch of this state directory uses: the lock outlives the processes in
\* both cleanups.  Only a process that a launch left behind, by a crash or by a
\* Stop that failed, can come between: the launch's cleanup lets go of the lock
\* all the same.
TalksToItsOwn ==
  \A l \in Launches :
    /\ monitor[l] # NoOne /\ pc[l] \notin Ended =>
         monitor[l] = l \/ Stray(monitor[l], "qemu")
    /\ managed[l] /\ proc[l]["qemu"] = "up" /\ ~Stray(l, "qemu") =>
         share[l] = l \/ (share[l] \in Launches /\ Stray(share[l], "daemon"))
=============================================================================
