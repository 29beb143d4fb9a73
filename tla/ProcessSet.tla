------------------------------ MODULE ProcessSet ------------------------------
(***************************************************************************)
(* The processes of one launch and how they are stopped: executor.Process  *)
(* and Group.StopAll (internal/executor), launch.ProcessSet with its       *)
(* background tasks, and the shutdown callback startWithPlan installs on   *)
(* QEMU.  Process i is the i-th one added; QEMU is the last.  Stopping     *)
(* goes through them in reverse order, each by the ladder shutdown ->      *)
(* SIGTERM -> SIGKILL, while a caller of VM.Kill may kill QEMU at the same *)
(* time.  Grace periods are timers that may expire at any moment of a wait.*)
(***************************************************************************)
EXTENDS Naturals

CONSTANT Helpers   \* how many helper processes (virtiofsd, [[run]]) precede QEMU

ASSUME HelpersAssumption == Helpers \in Nat

Procs == 1 .. Helpers + 1
QEMU == Helpers + 1

VARIABLES
  os,        \* each process as the kernel has it
  done,      \* Process.done is closed: the reaping goroutine saw the exit
  wedged,    \* the process is in uninterruptible sleep: SIGKILL may not end it
  immune,    \* signalling the process fails
  remote,    \* Options.HasRemoteControl: the guest can be asked to shut down
  started,   \* how many processes the group holds
  callback,  \* SetShutdown was called on QEMU
  task,      \* the balloon controller task
  ctxDone,   \* the context handed to Close has ended
  rung,      \* the rung of the closing goroutine
  at,        \* the process it is stopping
  shutErr,   \* Stop's shutdownErr for that process
  asked,     \* processes the closing goroutine signalled or asked to shut down
  killed,    \* processes SIGKILL was sent to
  errs,      \* processes whose Stop returned an error
  killer     \* a caller of KillAndWait on QEMU

procVars == <<os, done, wedged, immune, remote, started, callback, task,
              ctxDone, rung, at, shutErr, asked, killed, errs, killer>>

ProcTypeOK ==
  /\ os \in [Procs -> {"unborn", "alive", "dead"}]
  /\ done \in [Procs -> BOOLEAN]
  /\ wedged \subseteq Procs /\ immune \subseteq Procs
  /\ remote \in BOOLEAN /\ callback \in BOOLEAN
  /\ ctxDone \in BOOLEAN /\ shutErr \in BOOLEAN
  /\ started \in 0 .. Helpers + 1
  /\ at \in 0 .. Helpers + 1
  /\ task \in {"none", "running", "cancelled", "ended"}
  /\ rung \in {"open", "tasks", "poll", "guest", "guestWait", "quit",
             "shutdownGrace", "term", "termGrace", "kill", "killGrace",
             "returned"}
  /\ asked \subseteq Procs /\ killed \subseteq Procs /\ errs \subseteq Procs
  /\ killer \in {"none", "waiting", "returned"}

ProcInit ==
  /\ os = [i \in Procs |-> "unborn"]
  /\ done = [i \in Procs |-> FALSE]
  /\ wedged \in SUBSET Procs /\ immune \in SUBSET Procs
  /\ remote \in BOOLEAN
  /\ started = 0
  /\ callback = FALSE
  /\ task = "none"
  /\ ctxDone = FALSE
  /\ rung = "open"
  /\ at = 0
  /\ shutErr = FALSE
  /\ asked = {} /\ killed = {} /\ errs = {}
  /\ killer = "none"

-----------------------------------------------------------------------------
(* Starting, and the processes themselves. *)

\* Runner.Start and Group.Add, for the helpers in order and QEMU last.
StartProcess ==
  /\ rung = "open"
  /\ started < Helpers + 1
  /\ started' = started + 1
  /\ os' = [os EXCEPT ![started'] = "alive"]
  /\ UNCHANGED <<done, wedged, immune, remote, callback, task, ctxDone, rung, at,
                 shutErr, asked, killed, errs, killer>>

\* QMP answers: startWithPlan installs the shutdown callback.
SetShutdown ==
  /\ rung = "open"
  /\ started = QEMU /\ ~callback
  /\ callback' = TRUE
  /\ UNCHANGED <<os, done, wedged, immune, remote, started, task, ctxDone, rung,
                 at, shutErr, asked, killed, errs, killer>>

\* StartTasks, the last thing a successful start does.  A shutdown request served
\* meanwhile may have closed the set already; the launch context ends that task.
StartTasks ==
  /\ callback /\ task = "none"
  /\ task' = "running"
  /\ UNCHANGED <<os, done, wedged, immune, remote, started, callback, ctxDone,
                 rung, at, shutErr, asked, killed, errs, killer>>

\* The task's function returns: on its own, or because it was cancelled.
TaskEnds ==
  /\ task \in {"running", "cancelled"}
  /\ task' = "ended"
  /\ UNCHANGED <<os, done, wedged, immune, remote, started, callback, ctxDone,
                 rung, at, shutErr, asked, killed, errs, killer>>

\* A process exits: on its own, or because of what it was asked or sent.
Exits(i) ==
  /\ os[i] = "alive"
  /\ os' = [os EXCEPT ![i] = "dead"]
  /\ UNCHANGED <<done, wedged, immune, remote, started, callback, task, ctxDone,
                 rung, at, shutErr, asked, killed, errs, killer>>

\* The goroutine of wrap: Wait returned.
Reap(i) ==
  /\ os[i] = "dead" /\ ~done[i]
  /\ done' = [done EXCEPT ![i] = TRUE]
  /\ UNCHANGED <<os, wedged, immune, remote, started, callback, task, ctxDone,
                 rung, at, shutErr, asked, killed, errs, killer>>

ContextEnds ==
  /\ ~ctxDone /\ rung # "returned"
  /\ ctxDone' = TRUE
  /\ UNCHANGED <<os, done, wedged, immune, remote, started, callback, task, rung,
                 at, shutErr, asked, killed, errs, killer>>

-----------------------------------------------------------------------------
(* ProcessSet.Close. *)

\* Close snapshots the group and cancels the task, at any point of the startup or
\* afterwards, ...
Close ==
  /\ rung = "open"
  /\ rung' = "tasks"
  /\ task' = IF task = "running" THEN "cancelled" ELSE task
  /\ UNCHANGED <<os, done, wedged, immune, remote, started, callback, ctxDone,
                 at, shutErr, asked, killed, errs, killer>>

\* ... waits for the task it cancelled, and goes on to StopAll with the last
\* process.
TasksStopped ==
  /\ rung = "tasks"
  /\ task # "cancelled"
  /\ at' = started
  /\ rung' = IF started = 0 THEN "returned" ELSE "poll"
  /\ UNCHANGED <<os, done, wedged, immune, remote, started, callback, task,
                 ctxDone, shutErr, asked, killed, errs, killer>>

\* Stop of process `at` returns, with or without an error; StopAll goes on with
\* the one before it.
StopReturns(failed) ==
  /\ errs' = IF failed THEN errs \cup {at} ELSE errs
  /\ at' = at - 1
  /\ rung' = IF at = 1 THEN "returned" ELSE "poll"
  /\ shutErr' = FALSE

\* Stop: nothing to do for an exited process; the callback only if there is one
\* and the context has not ended.
Poll ==
  /\ rung = "poll"
  /\ \/ done[at] /\ StopReturns(FALSE)
     \/ /\ ~done[at]
        /\ rung' = IF at = QEMU /\ callback /\ ~ctxDone
                 THEN IF remote THEN "guest" ELSE "quit"
                 ELSE "term"
        /\ UNCHANGED <<errs, at, shutErr>>
  /\ UNCHANGED <<os, done, wedged, immune, remote, started, callback, task,
                 ctxDone, asked, killed, killer>>

\* The callback: ask the guest agent to shut down ...
GuestShutdown ==
  /\ rung = "guest"
  /\ \/ asked' = asked \cup {at} /\ rung' = "guestWait"
     \/ asked' = asked /\ rung' = "quit"
  /\ UNCHANGED <<os, done, wedged, immune, remote, started, callback, task,
                 ctxDone, at, shutErr, killed, errs, killer>>

\* ... wait for QEMU to exit, up to the shutdown timeout, ...
GuestShutdownWait ==
  /\ rung = "guestWait"
  /\ rung' \in {"quit"} \cup (IF done[at] THEN {"shutdownGrace"} ELSE {})
  /\ UNCHANGED <<os, done, wedged, immune, remote, started, callback, task,
                 ctxDone, at, shutErr, asked, killed, errs, killer>>

\* ... and quit through QMP, on a fresh connection if the old one is poisoned.
QuitQMP ==
  /\ rung = "quit"
  /\ \/ /\ os[at] = "alive"
        /\ asked' = asked \cup {at} /\ rung' = "shutdownGrace"
        /\ UNCHANGED shutErr
     \/ shutErr' = TRUE /\ rung' = "term" /\ UNCHANGED asked
  /\ UNCHANGED <<os, done, wedged, immune, remote, started, callback, task,
                 ctxDone, at, killed, errs, killer>>

\* Fault: a callback that succeeded counts as an exit.
ShutdownGraceSkipped ==
  /\ rung = "shutdownGrace"
  /\ StopReturns(FALSE)
  /\ UNCHANGED <<os, done, wedged, immune, remote, started, callback, task,
                 ctxDone, asked, killed, killer>>

\* waitGrace after the callback: the exit, or the timer, or the end of ctx.
ShutdownGrace ==
  /\ rung = "shutdownGrace"
  /\ \/ done[at] /\ StopReturns(FALSE)
     \/ rung' = "term" /\ UNCHANGED <<errs, at, shutErr>>
  /\ UNCHANGED <<os, done, wedged, immune, remote, started, callback, task,
                 ctxDone, asked, killed, killer>>

\* SIGTERM, skipped when ctx has ended.  A signal that cannot be sent to a live
\* process ends Stop; to an exited one it is no error.
Terminate ==
  /\ rung = "term"
  /\ \/ ctxDone /\ rung' = "kill" /\ UNCHANGED <<asked, errs, at, shutErr>>
     \/ /\ ~ctxDone
        /\ IF at \in immune /\ os[at] = "alive"
           THEN StopReturns(TRUE) /\ UNCHANGED asked
           ELSE /\ asked' = asked \cup {at} /\ rung' = "termGrace"
                /\ UNCHANGED <<errs, at, shutErr>>
  /\ UNCHANGED <<os, done, wedged, immune, remote, started, callback, task,
                 ctxDone, killed, killer>>

TerminateGrace ==
  /\ rung = "termGrace"
  /\ \/ done[at] /\ StopReturns(shutErr)
     \/ rung' = "kill" /\ UNCHANGED <<errs, at, shutErr>>
  /\ UNCHANGED <<os, done, wedged, immune, remote, started, callback, task,
                 ctxDone, asked, killed, killer>>

\* SIGKILL.
Kill ==
  /\ rung = "kill"
  /\ IF at \in immune /\ os[at] = "alive"
     THEN StopReturns(TRUE) /\ UNCHANGED <<asked, killed>>
     ELSE /\ asked' = asked \cup {at} /\ killed' = killed \cup {at}
          /\ rung' = "killGrace"
          /\ UNCHANGED <<errs, at, shutErr>>
  /\ UNCHANGED <<os, done, wedged, immune, remote, started, callback, task,
                 ctxDone, killer>>

\* Fault: the timer returns shutdownErr alone.
KillGraceSilent ==
  /\ rung = "killGrace"
  /\ \/ done[at] /\ StopReturns(shutErr)
     \/ StopReturns(shutErr)
  /\ UNCHANGED <<os, done, wedged, immune, remote, started, callback, task,
                 ctxDone, asked, killed, killer>>

\* Fault: the wait after the kill has no timer.
KillGraceUnbounded ==
  /\ rung = "killGrace"
  /\ done[at] /\ StopReturns(shutErr)
  /\ UNCHANGED <<os, done, wedged, immune, remote, started, callback, task,
                 ctxDone, asked, killed, killer>>

\* The bounded wait after the kill, which ignores ctx: on the timer the process
\* is given up with an error.
KillGrace ==
  /\ rung = "killGrace"
  /\ \/ done[at] /\ StopReturns(shutErr)
     \/ StopReturns(TRUE)
  /\ UNCHANGED <<os, done, wedged, immune, remote, started, callback, task,
                 ctxDone, asked, killed, killer>>

-----------------------------------------------------------------------------
(* KillAndWait of QEMU, by a caller of VM.Kill or by the kill RPC. *)

KillQEMU ==
  /\ killer = "none"
  /\ started = QEMU
  /\ IF done[QEMU] \/ (QEMU \in immune /\ os[QEMU] = "alive")
     THEN killer' = "returned" /\ UNCHANGED killed
     ELSE killer' = "waiting" /\ killed' = killed \cup {QEMU}
  /\ UNCHANGED <<os, done, wedged, immune, remote, started, callback, task,
                 ctxDone, rung, at, shutErr, asked, errs>>

\* Wait has no timer.
KillReturns ==
  /\ killer = "waiting"
  /\ done[QEMU]
  /\ killer' = "returned"
  /\ UNCHANGED <<os, done, wedged, immune, remote, started, callback, task,
                 ctxDone, rung, at, shutErr, asked, killed, errs>>

CloseStep ==
  \/ TasksStopped \/ Poll \/ GuestShutdown \/ GuestShutdownWait \/ QuitQMP
  \/ ShutdownGrace \/ Terminate \/ TerminateGrace \/ Kill \/ KillGrace

ProcNext ==
  \/ StartProcess \/ SetShutdown \/ StartTasks \/ TaskEnds
  \/ \E i \in Procs : Exits(i) \/ Reap(i)
  \/ ContextEnds
  \/ Close \/ CloseStep
  \/ KillQEMU \/ KillReturns

\* The kernel ends a killed process unless it is wedged.
KilledExits(i) == i \in killed \ wedged /\ Exits(i)

\* Goroutines run, timers expire, a cancelled task returns.  Nothing is assumed
\* of a process that was only asked to go, nor of a wedged one.
ProcFairness ==
  /\ WF_procVars(CloseStep)
  /\ WF_procVars(TaskEnds /\ task = "cancelled")
  /\ WF_procVars(KillReturns)
  /\ \A i \in Procs : WF_procVars(Reap(i)) /\ WF_procVars(KilledExits(i))

ProcSpec == ProcInit /\ [][ProcNext]_procVars /\ ProcFairness

-----------------------------------------------------------------------------
(* Properties. *)

\* Stopping reaches a helper only when every process added after it, QEMU above
\* all, has exited or its Stop has failed: QEMU never loses a virtiofsd that it
\* still uses to an orderly teardown.
ReverseOrder ==
  \A i \in asked : \A j \in Procs :
    i < j /\ j <= started => done[j] \/ j \in errs

\* Close never leaves a process running in silence: its error names the process,
\* which was sent SIGKILL unless it cannot be signalled, even when ctx ended in
\* the middle of the ladder.
SurvivorsReported ==
  rung = "returned" => \A i \in 1 .. started :
    done[i] \/ (i \in errs /\ i \in killed \cup immune)

\* Close returns, although a process may be wedged or deaf and the guest may
\* ignore the request to shut down.
CloseReturns == rung = "tasks" ~> rung = "returned"

=============================================================================
