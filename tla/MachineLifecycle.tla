-------------------------- MODULE MachineLifecycle --------------------------
(***************************************************************************)
(* One launched machine from the moment its control socket listens until   *)
(* its runtime state is released: runtime.Core and its one-shot closer     *)
(* (internal/runtime), the VM handle with its own one-shot close and its   *)
(* reaper (vmm/api.go), the tail of startWithPlan with its failure path    *)
(* (vmm/startup.go), and the suspend coordinator it services.              *)
(*                                                                         *)
(* Several actors close the same machine at once: the reaper, the servicer *)
(* of suspend requests, in-process callers of VM.Shutdown and VM.Kill, and *)
(* the shutdown and kill requests of the control socket.                   *)
(***************************************************************************)
EXTENDS SuspendCoordinator

CONSTANT Callers   \* users of the VM handle or of the control socket

ASSUME CallersAssumption == Callers \cap {"reap", "servicer"} = {}

VARIABLES
  phase,         \* startWithPlan: "queued" (HandleQueuedSuspend), "provision"
                 \* (guest files), "running" (VM handle returned), or the
                 \* deferred cleanup "failing" -> "unlocking" -> "failed"
  rt,            \* runtime state reported by the status RPC
  finished,      \* state.Finish: the wait RPC returns
  rpc,           \* where each suspend RPC is around RequestAndWait
  savedSuspend,  \* MarkSavedSuspend
  ctlOpen,       \* the control listener accepts
  core,          \* what closer.once is doing
  skip,          \* closeActions.SkipWriteBack as each actor read it on entry to
                 \* Core.Shutdown; FALSE outside that call
  wroteBack,     \* the teardown called WriteBack
  vmOnce,        \* what VM.closeOnce is doing
  cl,            \* where each closing actor is
  qemu,          \* "running", "paused" (saved, not resumed), "wedged" (in
                 \* uninterruptible sleep: no signal ends it) or "exited"
  stopErr,       \* a stop or kill of QEMU returned an error
  lockHeld,      \* the launch lock (flock) is held
  vmDone,        \* VM.done is closed
  ctxDone,       \* the context given to Start has ended
  wb             \* the guest files saveAndExit copies back before it saves:
                 \* "due", "stuck" (the agent does not answer) or "none"

lifeVars == <<phase, rt, finished, rpc, savedSuspend, ctlOpen, core,
              skip, wroteBack, vmOnce, cl, qemu, stopErr, lockHeld,
              vmDone, ctxDone, wb>>
vars == <<coordVars, lifeVars>>

Actors == Callers \cup {"reap", "servicer"}

TypeOK ==
  /\ CoordTypeOK
  /\ phase \in {"queued", "provision", "running", "failing", "unlocking",
                "failed"}
  /\ rt \in {"ready", "suspending", "suspended", "stopping", "stopped"}
  /\ rpc \in [Clients -> {"none", "announced", "replied"}]
  /\ core \in {"open", "writeback", "control", "processes", "cleanup",
               "closed"}
  /\ vmOnce \in {"open", "running", "done"}
  /\ cl \in [Actors -> {"none", "saveVM", "killVM", "killRPC", "vm", "vmCore",
                        "core", "run", "vmRun", "returned"}]
  /\ qemu \in {"running", "paused", "wedged", "exited"}
  /\ wb \in {"none", "due", "stuck"}
  /\ skip \in [Actors -> BOOLEAN]
  /\ {finished, savedSuspend, ctlOpen, wroteBack, stopErr, lockHeld, vmDone,
      ctxDone} \subseteq BOOLEAN

Init ==
  /\ CoordInit
  /\ phase = "queued"
  /\ rt = "ready"
  /\ finished = FALSE
  /\ rpc = [c \in Clients |-> "none"]
  /\ savedSuspend = FALSE
  /\ ctlOpen = TRUE
  /\ core = "open"
  /\ skip = [a \in Actors |-> FALSE]
  /\ wroteBack = FALSE
  /\ vmOnce = "open"
  /\ cl = [a \in Actors |-> "none"]
  /\ qemu = "running"
  /\ stopErr = FALSE
  /\ lockHeld = TRUE
  /\ vmDone = FALSE
  /\ ctxDone = FALSE
  /\ wb = "none"

-----------------------------------------------------------------------------
(* Suspend RPCs: queueSuspend around the coordinator. *)

\* The handler announces "suspending" before it queues the request.
SuspendRPC(c) ==
  /\ ctlOpen
  /\ rpc[c] = "none"
  /\ rpc' = [rpc EXCEPT ![c] = "announced"]
  /\ rt' = "suspending"
  /\ UNCHANGED <<coordVars, phase, finished, savedSuspend, ctlOpen, core, skip,
                 wroteBack, vmOnce, cl, qemu, stopErr, lockHeld, vmDone,
                 ctxDone, wb>>

RequestAndWait(c) ==
  /\ rpc[c] = "announced"
  /\ RequesterStep(c)
  /\ UNCHANGED lifeVars

\* queueSuspend returns: only a saved-suspend exit reports "suspended"; any
\* other error leaves the announced state behind.
SuspendReply(c) ==
  /\ rpc[c] = "announced"
  /\ reqPc[c] \in {"answered", "gaveUp"}
  /\ rpc' = [rpc EXCEPT ![c] = "replied"]
  /\ rt' = IF reqPc[c] = "answered" /\ done[c] = "saved" THEN "suspended" ELSE rt
  /\ UNCHANGED <<coordVars, phase, finished, savedSuspend, ctlOpen, core, skip,
                 wroteBack, vmOnce, cl, qemu, stopErr, lockHeld, vmDone,
                 ctxDone, wb>>

-----------------------------------------------------------------------------
(* Startup after the control socket listens. *)

\* HandleQueuedSuspend returned nil; guest files are written next.
StartProvision ==
  /\ phase = "queued"
  /\ NoneQueued
  /\ phase' = "provision"
  /\ UNCHANGED <<rt, finished, rpc, savedSuspend, ctlOpen, core, skip,
                 wroteBack, vmOnce, cl, qemu, stopErr, lockHeld, vmDone,
                 ctxDone, wb>>

\* startWithPlan returns and newVM starts the reaper.
StartRunning ==
  /\ phase = "provision"
  /\ phase' = "running"
  /\ UNCHANGED <<coordVars, rt, finished, rpc, savedSuspend, ctlOpen, core,
                 skip, wroteBack, vmOnce, cl, qemu, stopErr, lockHeld, vmDone,
                 ctxDone, wb>>

\* Writing guest files fails: `return nil, err` clears the named result, so the
\* deferred function takes its started == nil branch.
StartFails ==
  /\ phase = "provision"
  /\ StopServing
  /\ phase' = "failing"
  /\ UNCHANGED <<rt, finished, rpc, savedSuspend, ctlOpen, core, skip,
                 wroteBack, vmOnce, cl, qemu, stopErr, lockHeld, vmDone,
                 ctxDone, wb>>

\* A stop of QEMU by Process.Stop: it exits, or an error is reported while it
\* still runs, as when it outlives the bounded wait after SIGKILL.  An exited
\* process is left alone.
StopQEMU ==
  \/ qemu # "wedged" /\ qemu' = "exited" /\ UNCHANGED stopErr
  \/ qemu # "exited" /\ stopErr' = TRUE /\ UNCHANGED qemu

\* The deferred cleanup stops the processes ...
FailStop ==
  /\ phase = "failing"
  /\ StopQEMU
  /\ phase' = "unlocking"
  /\ UNCHANGED <<coordVars, rt, finished, rpc, savedSuspend, ctlOpen, core,
                 skip, wroteBack, vmOnce, cl, lockHeld, vmDone, ctxDone, wb>>

\* ... then releases the lock, disconnects QMP and removes sockets.  The control
\* listener is not closed and the runtime state is not finished.
FailUnlock ==
  /\ phase = "unlocking"
  /\ lockHeld' = FALSE
  /\ phase' = "failed"
  /\ UNCHANGED <<coordVars, rt, finished, rpc, savedSuspend, ctlOpen, core,
                 skip, wroteBack, vmOnce, cl, qemu, stopErr, vmDone, ctxDone,
                 wb>>

-----------------------------------------------------------------------------
(* Servicing suspend requests. *)

\* A foreground SIGTSTP is serviced by SuspendSession.
ForegroundSuspend ==
  /\ phase = "running"
  /\ RequestLocal
  /\ UNCHANGED lifeVars

\* Receive the queued notification, and release the waiters after the save.
\* Between the two polls, while guest files are written, nobody services.
ServiceRequest ==
  /\ \/ phase \in {"queued", "running"} /\ TakeNotify
     \/ SendNotifyLocal
     \/ \E c \in Clients : Release(c)
  /\ UNCHANGED lifeVars

\* Handle enters saveAndExit, which reads writeBackOnExit: set by a resume and
\* by a provisioned guest with remote control.
HandleBegins ==
  /\ Begin
  /\ wb' \in {"none"} \cup (IF completed THEN {} ELSE {"due"})
  /\ UNCHANGED <<phase, rt, finished, rpc, savedSuspend, ctlOpen, core, skip,
                 wroteBack, vmOnce, cl, qemu, stopErr, lockHeld, vmDone,
                 ctxDone>>

\* saveAndExit copies the guest files back first.  No time bounds that and no
\* process is watched: it waits for an agent that answers or for its context.
CopyBack ==
  /\ wb = "due" /\ qemu = "running"
  /\ wb' = "none"
  /\ UNCHANGED <<coordVars, phase, rt, finished, rpc, savedSuspend, ctlOpen,
                 core, skip, wroteBack, vmOnce, cl, qemu, stopErr, lockHeld,
                 vmDone, ctxDone>>

\* The guest agent falls silent while its files are copied back.
AgentFallsSilent ==
  /\ wb = "due"
  /\ wb' = "stuck"
  /\ UNCHANGED <<coordVars, phase, rt, finished, rpc, savedSuspend, ctlOpen,
                 core, skip, wroteBack, vmOnce, cl, qemu, stopErr, lockHeld,
                 vmDone, ctxDone>>

\* The copy waits for an agent nobody runs any more.
Hung ==
  /\ wb = "stuck" \/ (wb = "due" /\ qemu # "running")
  /\ ~ctxDone

\* saveSuspendStateConnected succeeded: QEMU wrote its state to the end and
\* stays paused.  Only a live QEMU can be saved, and only once.
SaveSucceeds ==
  /\ CompleteOnce("saved")
  /\ wb = "none"
  /\ qemu = "running" \/ completed
  /\ qemu' = IF completed THEN qemu ELSE "paused"
  /\ UNCHANGED <<phase, rt, finished, rpc, savedSuspend, ctlOpen, core, skip,
                 wroteBack, vmOnce, cl, stopErr, lockHeld, vmDone, ctxDone, wb>>


\* The write-back, the migration or the state file failed, or the context ended.
SaveFails ==
  /\ CompleteOnce("failed")
  /\ wb' = "none"
  /\ UNCHANGED <<phase, rt, finished, rpc, savedSuspend, ctlOpen, core, skip,
                 wroteBack, vmOnce, cl, qemu, stopErr, lockHeld, vmDone,
                 ctxDone>>

\* Handle returned during startup: either outcome is an error that fails it.
HandleReturnsInStartup ==
  /\ phase = "queued"
  /\ EndHandle
  /\ srvPc' = "gone"
  /\ phase' = "failing"
  /\ UNCHANGED <<rt, finished, rpc, savedSuspend, ctlOpen, core, skip,
                 wroteBack, vmOnce, cl, qemu, stopErr, lockHeld, vmDone,
                 ctxDone, wb>>

\* Fault: the saved exit does not mark the runtime.
HandleReturnsUnmarked ==
  /\ phase = "running"
  /\ EndHandle
  /\ savedSuspend' = savedSuspend
  /\ cl' = IF srvPc' = "gone" THEN [cl EXCEPT !["servicer"] = "vm"] ELSE cl
  /\ UNCHANGED <<phase, rt, finished, rpc, ctlOpen, core, skip, wroteBack,
                 vmOnce, qemu, stopErr, lockHeld, vmDone, ctxDone, wb>>

\* HandleSuspendRequest returned to the library goroutine or the session: a
\* saved exit marks the runtime and closes the VM, a failure shuts it down or,
\* for a transient SSH failure, goes on serving.
HandleReturns ==
  /\ phase = "running"
  /\ EndHandle
  /\ savedSuspend' = (savedSuspend \/ result = "saved")
  /\ cl' = IF srvPc' = "gone" THEN [cl EXCEPT !["servicer"] = "vm"] ELSE cl
  /\ UNCHANGED <<phase, rt, finished, rpc, ctlOpen, core, skip, wroteBack,
                 vmOnce, qemu, stopErr, lockHeld, vmDone, ctxDone, wb>>

\* The servicer leaves its select: VM.done closed, the context ended, or the
\* foreground process of a session exited, which shuts the machine down.
ServicerLeaves ==
  /\ phase = "running"
  /\ StopServing
  /\ \/ cl' = [cl EXCEPT !["servicer"] = "vm"]
     \/ (vmDone \/ ctxDone) /\ UNCHANGED cl
  /\ UNCHANGED <<phase, rt, finished, rpc, savedSuspend, ctlOpen, core, skip,
                 wroteBack, vmOnce, qemu, stopErr, lockHeld, vmDone, ctxDone,
                 wb>>

-----------------------------------------------------------------------------
(* Closing. *)

\* A caller of VM.Shutdown, VM.Kill or VM.Suspend, or of the shutdown or kill RPC.
Call(a) ==
  /\ cl[a] = "none"
  /\ \E how \in (IF phase = "running" THEN {"vm", "killVM", "saveVM"}
                   ELSE {})
                \cup (IF ctlOpen THEN {"core", "killRPC"} ELSE {}) :
       /\ cl' = [cl EXCEPT ![a] = how]
       /\ skip' = [skip EXCEPT ![a] = how = "core" /\ savedSuspend]
  /\ UNCHANGED <<coordVars, phase, rt, finished, rpc, savedSuspend, ctlOpen,
                 core, wroteBack, vmOnce, qemu, stopErr, lockHeld, vmDone,
                 ctxDone, wb>>

\* VM.Suspend saves without the coordinator.  A saved machine is marked and
\* closed; after a failure it runs on and the caller may try again.
SaveVM(a) ==
  /\ cl[a] = "saveVM"
  /\ \/ /\ qemu = "running"
        /\ qemu' = "paused"
        /\ savedSuspend' = TRUE
        /\ cl' = [cl EXCEPT ![a] = "vm"]
     \/ /\ cl' = [cl EXCEPT ![a] = "none"]
        /\ UNCHANGED <<qemu, savedSuspend>>
  /\ UNCHANGED <<coordVars, phase, rt, finished, rpc, ctlOpen, core, skip,
                 wroteBack, vmOnce, stopErr, lockHeld, vmDone, ctxDone, wb>>

\* KillAndWait waits for the exit, however long that takes, then closes.
KillQEMU(a) ==
  /\ cl[a] \in {"killVM", "killRPC"}
  /\ qemu # "wedged" /\ qemu' = "exited"
  /\ cl' = [cl EXCEPT ![a] = IF @ = "killVM" THEN "vm" ELSE "core"]
  /\ skip' = [skip EXCEPT ![a] = cl[a] = "killRPC" /\ savedSuspend]
  /\ UNCHANGED <<coordVars, phase, rt, finished, rpc, savedSuspend, ctlOpen,
                 core, wroteBack, vmOnce, stopErr, lockHeld, vmDone, ctxDone,
                 wb>>

\* KillAndWait cannot signal QEMU: it reports that and closes.
KillFails(a) ==
  /\ cl[a] \in {"killVM", "killRPC"}
  /\ qemu # "exited"
  /\ stopErr' = TRUE
  /\ cl' = [cl EXCEPT ![a] = IF @ = "killVM" THEN "vm" ELSE "core"]
  /\ skip' = [skip EXCEPT ![a] = cl[a] = "killRPC" /\ savedSuspend]
  /\ UNCHANGED <<coordVars, phase, rt, finished, rpc, savedSuspend, ctlOpen,
                 core, wroteBack, vmOnce, qemu, lockHeld, vmDone, ctxDone, wb>>

\* VM.closeContext: the first caller runs Core.Shutdown inside closeOnce, the
\* others block until it is through.
EnterVMOnce(a) ==
  /\ cl[a] = "vm"
  /\ \/ /\ vmOnce = "open"
        /\ vmOnce' = "running"
        /\ cl' = [cl EXCEPT ![a] = "vmCore"]
        /\ skip' = [skip EXCEPT ![a] = savedSuspend]
     \/ /\ vmOnce = "done"
        /\ cl' = [cl EXCEPT ![a] = "returned"]
        /\ UNCHANGED <<vmOnce, skip>>
  /\ UNCHANGED <<coordVars, phase, rt, finished, rpc, savedSuspend, ctlOpen,
                 core, wroteBack, qemu, stopErr, lockHeld, vmDone, ctxDone, wb>>

\* closer.Close: the first caller sets "stopping" and runs the close actions.
EnterCloser(a) ==
  /\ cl[a] \in {"vmCore", "core"}
  /\ core = "open"
  /\ core' = "writeback"
  /\ rt' = "stopping"
  /\ cl' = [cl EXCEPT ![a] = IF @ = "vmCore" THEN "vmRun" ELSE "run"]
  /\ UNCHANGED <<coordVars, phase, finished, rpc, savedSuspend, ctlOpen, skip,
                 wroteBack, vmOnce, qemu, stopErr, lockHeld, vmDone, ctxDone,
                 wb>>


\* The caller's once.Do returns: after its own run, or after the run of whoever
\* came first.
LeaveCloser(a) ==
  /\ cl[a] \in {"vmCore", "core", "vmRun", "run"}
  /\ core = "closed"
  /\ vmOnce' = IF cl[a] \in {"vmCore", "vmRun"} THEN "done" ELSE vmOnce
  /\ cl' = [cl EXCEPT ![a] = "returned"]
  /\ skip' = [skip EXCEPT ![a] = FALSE]
  /\ UNCHANGED <<coordVars, phase, rt, finished, rpc, savedSuspend, ctlOpen,
                 core, wroteBack, qemu, stopErr, lockHeld, vmDone, ctxDone, wb>>

\* closeActions.Run, in order.  Whether the callback then copies anything depends
\* on writeBackOnExit, set by a restore or once the guest is provisioned.
WriteBack ==
  /\ core = "writeback"
  /\ core' = "control"
  /\ \E a \in Actors : /\ cl[a] \in {"vmRun", "run"}
                       /\ wroteBack' = ~skip[a]
  /\ UNCHANGED <<coordVars, phase, rt, finished, rpc, savedSuspend, ctlOpen,
                 skip, vmOnce, cl, qemu, stopErr, lockHeld, vmDone, ctxDone, wb>>

\* Fault: the processes are not closed.
CloseControlSkips ==
  /\ core = "control"
  /\ core' = "cleanup"
  /\ ctlOpen' = FALSE
  /\ UNCHANGED <<coordVars, phase, rt, finished, rpc, savedSuspend, skip,
                 wroteBack, vmOnce, cl, qemu, stopErr, lockHeld, vmDone,
                 ctxDone, wb>>

CloseControl ==
  /\ core = "control"
  /\ core' = "processes"
  /\ ctlOpen' = FALSE
  /\ UNCHANGED <<coordVars, phase, rt, finished, rpc, savedSuspend, skip,
                 wroteBack, vmOnce, cl, qemu, stopErr, lockHeld, vmDone,
                 ctxDone, wb>>

CloseProcesses ==
  /\ core = "processes"
  /\ core' = "cleanup"
  /\ StopQEMU
  /\ UNCHANGED <<coordVars, phase, rt, finished, rpc, savedSuspend, ctlOpen,
                 skip, wroteBack, vmOnce, cl, lockHeld, vmDone, ctxDone, wb>>

\* QMP disconnects, sockets are removed, the lock is released; then the runtime
\* is stopped and the waiters of the wait RPC are let go.
Cleanup ==
  /\ core = "cleanup"
  /\ core' = "closed"
  /\ lockHeld' = FALSE
  /\ rt' = "stopped"
  /\ finished' = TRUE
  /\ UNCHANGED <<coordVars, phase, rpc, savedSuspend, ctlOpen, skip, wroteBack,
                 vmOnce, cl, qemu, stopErr, vmDone, ctxDone, wb>>

-----------------------------------------------------------------------------
(* The reaper, and the world around the machine. *)

\* Fault: the reaper does not watch the context.
ReapWakesOnExit ==
  /\ phase = "running"
  /\ cl["reap"] = "none"
  /\ qemu = "exited"
  /\ cl' = [cl EXCEPT !["reap"] = "vm"]
  /\ UNCHANGED <<coordVars, phase, rt, finished, rpc, savedSuspend, ctlOpen,
                 core, skip, wroteBack, vmOnce, qemu, stopErr, lockHeld,
                 vmDone, ctxDone, wb>>

\* reap leaves its select and closes the VM.
ReapWakes ==
  /\ phase = "running"
  /\ cl["reap"] = "none"
  /\ qemu = "exited" \/ ctxDone
  /\ cl' = [cl EXCEPT !["reap"] = "vm"]
  /\ UNCHANGED <<coordVars, phase, rt, finished, rpc, savedSuspend, ctlOpen,
                 core, skip, wroteBack, vmOnce, qemu, stopErr, lockHeld,
                 vmDone, ctxDone, wb>>

\* Fault: done is closed without waiting for the close.
ReapDoneEarly ==
  /\ cl["reap"] # "none"
  /\ qemu = "exited"
  /\ ~vmDone
  /\ vmDone' = TRUE
  /\ UNCHANGED <<coordVars, phase, rt, finished, rpc, savedSuspend, ctlOpen,
                 core, skip, wroteBack, vmOnce, cl, qemu, stopErr, lockHeld,
                 ctxDone, wb>>

\* qemu.Wait returned and so did close: VM.done closes.
ReapDone ==
  /\ cl["reap"] = "returned"
  /\ qemu = "exited"
  /\ ~vmDone
  /\ vmDone' = TRUE
  /\ UNCHANGED <<coordVars, phase, rt, finished, rpc, savedSuspend, ctlOpen,
                 core, skip, wroteBack, vmOnce, cl, qemu, stopErr, lockHeld,
                 ctxDone, wb>>

\* QEMU exits on its own.
QEMUExits ==
  /\ qemu # "exited"
  /\ qemu' = "exited"
  /\ UNCHANGED <<coordVars, phase, rt, finished, rpc, savedSuspend, ctlOpen,
                 core, skip, wroteBack, vmOnce, cl, stopErr, lockHeld, vmDone,
                 ctxDone, wb>>

\* QEMU falls into uninterruptible sleep.  It may still exit one day.
QEMUWedges ==
  /\ qemu \in {"running", "paused"}
  /\ qemu' = "wedged"
  /\ UNCHANGED <<coordVars, phase, rt, finished, rpc, savedSuspend, ctlOpen,
                 core, skip, wroteBack, vmOnce, cl, stopErr, lockHeld, vmDone,
                 ctxDone, wb>>

\* The context given to Start ends.  Ending earlier, it fails the startup.
ContextEnds ==
  /\ phase = "running"
  /\ ~ctxDone /\ ~vmDone
  /\ ctxDone' = TRUE
  /\ UNCHANGED <<coordVars, phase, rt, finished, rpc, savedSuspend, ctlOpen,
                 core, skip, wroteBack, vmOnce, cl, qemu, stopErr, lockHeld,
                 vmDone, wb>>

\* Everything the program itself does once it can.  A hung copy may fail, when
\* its connection breaks, but nothing makes it.
ServicerProgress ==
  \/ StartProvision \/ StartRunning \/ StartFails \/ FailStop \/ FailUnlock
  \/ ServiceRequest \/ HandleBegins \/ CopyBack
  \/ SaveSucceeds \/ (~Hung /\ SaveFails)
  \/ HandleReturnsInStartup \/ HandleReturns

ClosingStep(a) ==
  \/ SaveVM(a) \/ KillQEMU(a) \/ EnterVMOnce(a) \/ EnterCloser(a)
  \/ LeaveCloser(a)

CloserProgress == WriteBack \/ CloseControl \/ CloseProcesses \/ Cleanup

Next ==
  \/ \E c \in Clients : SuspendRPC(c) \/ RequestAndWait(c) \/ SuspendReply(c)
  \/ ServicerProgress
  \/ SaveFails
  \/ ForegroundSuspend
  \/ ServicerLeaves
  \/ \E a \in Callers : Call(a)
  \/ \E a \in Actors : ClosingStep(a) \/ KillFails(a)
  \/ CloserProgress
  \/ ReapWakes
  \/ ReapDone
  \/ AgentFallsSilent
  \/ QEMUExits
  \/ QEMUWedges
  \/ ContextEnds

\* A requester once its RPC is announced, except for its peer going away.
RequesterProgress(c) ==
  \/ /\ rpc[c] = "announced"
     /\ \/ RequestCompleted(c) \/ RequestQueued(c) \/ SendNotify(c)
        \/ ReceiveOutcome(c)
     /\ UNCHANGED lifeVars
  \/ SuspendReply(c)

\* Every goroutine that can move does move, and a killed QEMU is reaped unless it
\* is wedged.  New requests, disconnecting peers, signals, exits and the guest's
\* agent are left to the world.
Fairness ==
  /\ \A c \in Clients : WF_vars(RequesterProgress(c))
  /\ WF_vars(ServicerProgress)
  /\ \A a \in Actors : WF_vars(ClosingStep(a))
  /\ WF_vars(CloserProgress)
  /\ WF_vars(ReapWakes)
  /\ WF_vars(ReapDone)

Spec == Init /\ [][Next]_vars /\ Fairness

-----------------------------------------------------------------------------
(* Properties. *)

\* The launch lock, which keeps a second QEMU off the same disk images, is never
\* released while QEMU is alive unless stopping QEMU reported an error.
LockOutlivesQEMU == ~lockHeld => qemu = "exited" \/ stopErr

\* What the machine reports is true: VM.done closes only when QEMU has exited and
\* the whole teardown is through, every Shutdown or Kill, whoever ran the
\* teardown, returns only after it, and the state is "suspended", which late
\* replies write without a lock, only if the save succeeded.
ReportsAreTrue ==
  /\ vmDone => qemu = "exited" /\ core = "closed" /\ ~lockHeld /\ finished
  /\ rt = "suspended" => result = "saved"
  /\ \A a \in Actors : cl[a] = "returned" => core = "closed" /\ finished

\* The teardown a successful suspend runs itself never copies guest files back
\* from the paused guest.
SuspendSkipsWriteBack ==
  cl["servicer"] = "vmRun" /\ result = "saved" => ~wroteBack



\* A running machine whose QEMU exits or whose context ends is released, unless
\* QEMU could not be stopped.
MachineReleased ==
  (phase = "running" /\ (qemu = "exited" \/ ctxDone)) ~> (vmDone \/ stopErr)
=============================================================================
