--------------------------- MODULE ForegroundSession ---------------------------
(***************************************************************************)
(* The CLI's foreground session: session.Run with its four select loops,   *)
(* the SSH retry loop of RunSSHSession, key autoprovisioning, job control  *)
(* and the one-time commit of a resume.  Sessions follow one another over  *)
(* one state directory and one guest; a crash may tear the key files.      *)
(* The machine is what a session sees of it (MachineLifecycle has the      *)
(* rest): QEMU, whether it was torn down, Done and Err.                    *)
(***************************************************************************)
EXTENDS Naturals, Sequences

CONSTANTS
  MaxLines,       \* bound: stderr lines of one SSH attempt
  OutputLimit,    \* lines the retry buffer keeps (retryOutputLimit)
  SignalBuffer    \* capacity of the signals channel

ASSUME SessionAssumption == {MaxLines, OutputLimit, SignalBuffer} \subseteq Nat

Waits == {"waitReady", "waitMachine", "sshWait", "retryWait"}

\* What a session or one of its functions returns.  "exit" is the SSH client's
\* own exit status.
Errors == {"nil", "saved", "cancelled", "exit", "failed"}

VARIABLES
  \* the session
  pc,          \* where Run is
  from,        \* the wait that a suspend interrupted
  err,         \* the error on its way up; Run's result once it returned
  sshMode,     \* opts.SSH
  resumed,     \* the machine was restored
  committed,   \* commitOnce is spent
  handled,     \* outcome of saveAndExit's once, "none" before it
  provisioned,
  \* what it waits for
  ctxDone,     \* SIGINT or SIGTERM
  req,         \* a suspend notification is queued
  sigs,        \* the signals channel
  ssh,         \* the SSH client: "none", "running" or "exited"
  written,     \* stderr lines of this attempt
  captured,    \* the phrases among those that RetryOutput kept
  \* the machine
  qemu,        \* "up" or "gone"
  closed,      \* closeOnce: "open", or what the teardown came to, "clean" or "failed"
  done, mErr,  \* Done is closed; what Err returns then
  \* what outlives a session
  disk,        \* saved state: "none", "old" (restored from) or "new"
  identity,    \* key file: "absent", "torn" or "full"
  pub,         \* its .pub: "absent", "empty", "torn" or "full"
  authorized,  \* what virtle added to the guest's authorized_keys
  \* history
  lost         \* how the exit of a saved machine was lost: "no", "start" or "ssh"

ctl == <<pc, from, err>>
opts == <<sshMode, resumed, committed, handled, provisioned>>
inputs == <<ctxDone, req, sigs>>
client == <<ssh, written, captured>>
machine == <<qemu, closed, done, mErr>>
files == <<disk, identity, pub, authorized>>
vars == <<ctl, opts, inputs, client, machine, files, lost>>

Init ==
  /\ pc = "start" /\ from = "none" /\ err = "nil"
  /\ sshMode = FALSE /\ resumed = FALSE /\ committed = FALSE
  /\ handled = "none" /\ provisioned = FALSE
  /\ ctxDone = FALSE /\ req = FALSE /\ sigs = <<>>
  /\ ssh = "none" /\ written = 0 /\ captured = {}
  /\ qemu = "gone" /\ closed = "clean" /\ done = TRUE /\ mErr = "nil"
  /\ disk = "none" /\ identity = "absent" /\ pub = "absent" /\ authorized = {}
  /\ lost = "no"

At(p) == pc = p
Goto(p, e) == pc' = p /\ err' = e

\* closeActions.Run: every step runs whatever the ones before it returned, so
\* the teardown is over even when QEMU could not be stopped.
TearsDown ==
  \/ closed' = "clean" /\ qemu' = "gone"
  \/ closed' = "failed" /\ qemu' \in {"gone", qemu}

\* closeOnce: whoever comes second gets the same error.
Close == IF closed = "open" THEN TearsDown ELSE UNCHANGED <<qemu, closed>>

\* Fault: any outcome of a suspend is followed by a shutdown.
NeverSavedExit(e) == FALSE

IsSavedSuspendExit(e) == e = "saved"

\* Where an error takes Run from each of its waits: the SSH loop looks at it
\* first, a saved exit is success, anything else shuts the machine down.
Leave(wait, e) ==
  IF wait = "sshWait" THEN Goto("classify", e)
  ELSE IF e = "nil" /\ wait = "waitReady" THEN Goto("foreground", "nil")
  ELSE IF e = "nil" /\ wait = "retryWait" THEN Goto("attempt", "nil")
  ELSE IF IsSavedSuspendExit(e) THEN Goto("returned", "nil")
  ELSE Goto("shutdown", e)

-----------------------------------------------------------------------------
(* Starting *)

\* --resume=auto: the saved state decides.  A fresh machine waits for SSH
\* readiness, a restored one does not.
Start(ssh_) ==
  /\ At("start")
  /\ sshMode' = ssh_
  /\ resumed' = (disk # "none")
  /\ disk' = IF disk = "none" THEN "none" ELSE "old"
  /\ Goto(IF resumed' THEN "foreground" ELSE "waitReady", "nil")
  /\ qemu' = "up" /\ closed' = "open" /\ done' = FALSE
  /\ UNCHANGED <<from, committed, handled, provisioned, inputs, client, mErr,
                 identity, pub, authorized, lost>>

\* What start's deferred cleanup leaves of the machine.
CleansUp ==
  /\ closed' \in {"clean", "failed"}
  /\ qemu' \in IF closed' = "failed" THEN {"up", "gone"} ELSE {"gone"}

\* A start that fails cleans up after itself; so does one that found a suspend
\* queued and could not save.
StartFails ==
  /\ At("start")
  /\ Goto("returned", "failed")
  /\ CleansUp
  /\ UNCHANGED <<from, opts, inputs, client, done, mErr, files, lost>>

\* HandleQueuedSuspend: a suspend that the control socket took before start was
\* over is served by start itself.  The machine is saved, and Run returns the
\* error as it is.
StartSaves ==
  /\ At("start")
  /\ Goto("returned", "saved")
  /\ resumed' = (disk # "none")
  /\ handled' = "saved" /\ disk' = "new" /\ lost' = "start"
  /\ CleansUp
  /\ UNCHANGED <<from, sshMode, committed, provisioned, inputs, client, done, mErr,
                 identity, pub, authorized>>

-----------------------------------------------------------------------------
(* The select loops *)

\* The readiness token arrives, or there is no readiness socket.
Ready ==
  /\ At("waitReady")
  /\ Leave("waitReady", "nil")
  /\ UNCHANGED <<from, opts, inputs, client, machine, files, lost>>

\* Status, dial or token fail, or the readiness deadline passes.
NotReady ==
  /\ At("waitReady")
  /\ Leave("waitReady", "failed")
  /\ UNCHANGED <<from, opts, inputs, client, machine, files, lost>>

RetryTimer ==
  /\ At("retryWait")
  /\ Leave("retryWait", "nil")
  /\ UNCHANGED <<from, opts, inputs, client, machine, files, lost>>

\* process.Done: the client ended by itself, with any status.
SSHDone(e) ==
  /\ At("sshWait") /\ ssh = "exited"
  /\ e \in {"nil", "exit"}
  /\ Goto("classify", e)
  /\ UNCHANGED <<from, opts, inputs, client, machine, files, lost>>

\* m.Done: waitForMachine reports its result, the SSH wait stops the client
\* first, the other two make an error of a clean exit.
MachineDone ==
  /\ pc \in Waits /\ done
  /\ CASE At("waitMachine") -> Goto("returned", mErr)
       [] At("sshWait") -> Goto("stopSSH", mErr)
       [] OTHER -> Leave(pc, IF mErr = "nil" THEN "failed" ELSE mErr)
  /\ from' = "none"
  /\ UNCHANGED <<opts, inputs, client, machine, files, lost>>

\* Fault: a cancelled session returns without a shutdown.
CancelReturns(wait) == Goto("returned", "cancelled")

\* Fault: the wait between two SSH attempts does not look at the context.
CancelNotInRetry(wait) ==
  CASE wait = "retryWait" -> FALSE
    [] wait = "sshWait" -> Goto("stopSSH", "cancelled")
    [] OTHER -> Leave(wait, "cancelled")

\* ctx.Done in each of the loops.
CancelLeaves(wait) ==
  IF wait = "sshWait" THEN Goto("stopSSH", "cancelled") ELSE Leave(wait, "cancelled")

Cancelled(wait) ==
  /\ At(wait) /\ ctxDone
  /\ CancelLeaves(wait)
  /\ from' = "none"
  /\ UNCHANGED <<opts, inputs, client, machine, files, lost>>

\* An SSH client is stopped before the machine is saved.
BeginSuspend ==
  /\ from' = pc
  /\ Goto(IF At("sshWait") THEN "stopSSH" ELSE "saving", "nil")
  /\ UNCHANGED <<opts, ctxDone, client, machine, files, lost>>

BridgeRequest ==
  /\ pc \in Waits /\ req
  /\ req' = FALSE
  /\ BeginSuspend
  /\ UNCHANGED sigs

\* SIGTSTP queues a request too, unless an outcome is already known, and does
\* not take its notification; SIGUSR1 only logs.
Signal ==
  /\ pc \in Waits /\ sigs # <<>>
  /\ sigs' = Tail(sigs)
  /\ IF Head(sigs) = "TSTP"
     THEN BeginSuspend /\ req' = (req \/ handled = "none")
     ELSE UNCHANGED <<ctl, opts, ctxDone, req, client, machine, files, lost>>

\* process.Stop has returned: the client is gone.
StopReturns ==
  /\ At("stopSSH") /\ ssh = "exited"
  /\ Goto(IF from = "sshWait" THEN "saving"
          ELSE IF from = "commit" THEN "shutdown" ELSE "classify", err)
  /\ UNCHANGED <<from, opts, inputs, client, machine, files, lost>>

-----------------------------------------------------------------------------
(* bridge.HandleSuspend and bridge.Suspend: saveAndExit, once per machine *)

Migrate ==
  /\ At("saving") /\ handled = "none" /\ qemu = "up" /\ closed = "open"
  /\ Goto("marking", "nil")
  /\ UNCHANGED <<from, opts, inputs, client, machine, files, lost>>

\* The marker is written whatever became of the context; then the runtime is
\* torn down.  The error of the teardown is joined to the saved exit, which is
\* recognised all the same.
SaveSucceeds ==
  /\ At("marking")
  /\ handled' = "saved"
  /\ disk' = "new"
  /\ Close
  /\ Leave(from, "saved") /\ from' = "none"
  /\ UNCHANGED <<sshMode, resumed, committed, provisioned, inputs, client, done, mErr,
                 identity, pub, authorized, lost>>

\* The readiness deadline, the context, QEMU or the disk end the save.
SaveFails ==
  /\ pc \in {"saving", "marking"} /\ handled = "none"
  /\ handled' = "failed"
  /\ Leave(from, "failed") /\ from' = "none"
  /\ UNCHANGED <<sshMode, resumed, committed, provisioned, inputs, client, machine,
                 files, lost>>

\* The once is spent: the same answer again.
SaveAgain ==
  /\ At("saving") /\ handled # "none"
  /\ Leave(from, handled) /\ from' = "none"
  /\ UNCHANGED <<opts, inputs, client, machine, files, lost>>

-----------------------------------------------------------------------------
(* foreground *)

\* Fault: every commit removes what is on disk.
CommitAlways == resumed

\* CommitResume removes the state this machine was restored from, once.
CommitRemoves == resumed /\ ~committed

Foreground ==
  /\ At("foreground")
  /\ \/ sshMode /\ Goto("attempt", "nil") /\ UNCHANGED <<committed, disk>>
     \/ /\ ~sshMode
        /\ committed' = TRUE
        /\ \/ Goto("waitMachine", "nil") /\ disk' = IF CommitRemoves THEN "none" ELSE disk
           \/ CommitRemoves /\ Goto("shutdown", "failed") /\ UNCHANGED disk
     \/ Goto("shutdown", "failed") /\ UNCHANGED <<committed, disk>>   \* Status or the hint
  /\ UNCHANGED <<from, sshMode, resumed, handled, provisioned, inputs, client, machine,
                 identity, pub, authorized, lost>>

\* Machine.Shutdown outlives the context and runs the teardown once; its
\* failure is joined to the error at hand.
ShutdownAfter ==
  /\ At("shutdown")
  /\ Close
  /\ Goto("returned", IF closed' = "failed" /\ err = "nil" THEN "failed" ELSE err)
  /\ UNCHANGED <<from, opts, inputs, client, done, mErr, files, lost>>

-----------------------------------------------------------------------------
(* RunSSHSession *)

\* The command is rendered and started, with a fresh RetryOutput.
StartSSH ==
  /\ At("attempt")
  /\ \/ Goto("commit", "nil") /\ ssh' = "running" /\ written' = 0 /\ captured' = {}
     \/ Goto("shutdown", "failed") /\ UNCHANGED client
  /\ UNCHANGED <<from, opts, inputs, machine, files, lost>>

\* Established: the resume is committed as soon as the first client runs.
Established ==
  /\ At("commit")
  /\ committed' = TRUE
  /\ \/ Goto("sshWait", "nil") /\ from' = "none"
        /\ disk' = IF CommitRemoves THEN "none" ELSE disk
     \/ CommitRemoves /\ Goto("stopSSH", "failed") /\ from' = "commit" /\ UNCHANGED disk
  /\ UNCHANGED <<sshMode, resumed, handled, provisioned, inputs, client, machine,
                 identity, pub, authorized, lost>>

\* ClassifyFailure over the error's own text (said) and the captured stderr.
ClassifyFailure(said) ==
  IF "auth" \in captured THEN "auth"
  ELSE IF "transient" \in captured \cup said THEN "transient" ELSE "none"

\* The text of a failed save or teardown may name a closed connection; a
\* cancelled context and an exit status do not.
ErrorText(e) == IF e \in {"saved", "failed"} THEN {{}, {"transient"}} ELSE {{}}

\* The loop retries, provisions a key once, or returns.
Classify(said) ==
  LET failure == IF err = "nil" THEN "none" ELSE ClassifyFailure(said) IN
  /\ At("classify")
  /\ said \in ErrorText(err)
  /\ CASE failure = "transient" -> Goto("retryWait", "nil")
       [] failure = "auth" /\ ~provisioned -> Goto("ensureKey", "nil")
       [] IsSavedSuspendExit(err) -> Goto("returned", "nil")
       [] OTHER -> Goto("shutdown", err)
  /\ lost' = IF err = "saved" /\ pc' # "returned" THEN "ssh" ELSE lost
  /\ from' = "none" /\ ssh' = "none" /\ written' = 0 /\ captured' = {}
  /\ UNCHANGED <<opts, inputs, machine, files>>

-----------------------------------------------------------------------------
(* Autoprovisioning *)

\* Fault: any public key file that exists is taken.
AnyPub == pub # "absent"

\* A public key file that is not empty is taken as it is.
UsablePub == pub \in {"torn", "full"}

\* KeyStore.Ensure up to its first write: a missing or empty public key is
\* derived from the identity, which must parse.
EnsureKey ==
  /\ At("ensureKey")
  /\ \/ /\ identity = "absent"
        /\ Goto("newIdentity", "nil") /\ identity' = "torn" /\ UNCHANGED pub
     \/ /\ identity # "absent" /\ UsablePub
        /\ Goto("install", "nil") /\ UNCHANGED <<identity, pub>>
     \/ /\ identity = "full" /\ ~UsablePub
        /\ Goto("newPub", "nil") /\ pub' = "empty" /\ UNCHANGED identity
     \/ /\ identity = "torn" /\ ~UsablePub
        /\ Goto("shutdown", "failed") /\ pub' = "absent" /\ UNCHANGED identity
  /\ UNCHANGED <<from, opts, inputs, client, machine, disk, authorized, lost>>

\* The write may fail half way.
WriteIdentity ==
  /\ At("newIdentity")
  /\ \/ identity' = "full" /\ pub' = "empty" /\ Goto("newPub", "nil")
     \/ Goto("shutdown", "failed") /\ UNCHANGED <<identity, pub>>
  /\ UNCHANGED <<from, opts, inputs, client, machine, disk, authorized, lost>>

WritePublicKey ==
  /\ At("newPub")
  /\ \/ pub' = "full" /\ Goto("install", "nil")
     \/ pub' \in {"empty", "torn"} /\ Goto("shutdown", "failed")
  /\ UNCHANGED <<from, opts, inputs, client, machine, disk, identity, authorized, lost>>

\* installSSHKey returns: one of its commands failed, or all of them succeeded.
Installed(ok) ==
  IF ok THEN Goto("attempt", "nil") /\ provisioned' = TRUE
        ELSE Goto("shutdown", "failed") /\ UNCHANGED provisioned

\* installSSHKey up to the grep of the append script, which runs in the guest.
InstallKey ==
  /\ At("install")
  /\ \/ Installed(FALSE)
     \/ qemu = "up" /\ pub \in authorized /\ Installed(TRUE)
     \/ qemu = "up" /\ pub \notin authorized /\ Goto("append", "nil") /\ UNCHANGED provisioned
  /\ UNCHANGED <<from, sshMode, resumed, committed, handled, inputs, client, machine,
                 files, lost>>

\* The script appends; virtle may give up on it, and the script may get to its
\* end all the same.
AppendKey ==
  /\ At("append")
  /\ \/ /\ qemu = "up" /\ authorized' = authorized \cup {pub}
        /\ \E ok \in BOOLEAN : Installed(ok)
     \/ Installed(FALSE) /\ UNCHANGED authorized
  /\ UNCHANGED <<from, sshMode, resumed, committed, handled, inputs, client, machine,
                 disk, identity, pub, lost>>

-----------------------------------------------------------------------------
(* The outside *)

SSHRuns == pc \in {"commit", "sshWait", "stopSSH"} /\ ssh = "running"

\* RetryOutput.Write: what exceeds the buffer is not kept.
Stderr(phrase) ==
  /\ SSHRuns /\ written < MaxLines
  /\ written' = written + 1
  /\ captured' = IF written < OutputLimit THEN captured \cup ({phrase} \ {"plain"}) ELSE captured
  /\ UNCHANGED <<ctl, opts, inputs, ssh, machine, files, lost>>

SSHExits ==
  /\ SSHRuns
  /\ ssh' = "exited"
  /\ UNCHANGED <<ctl, opts, inputs, written, captured, machine, files, lost>>

Running == pc \notin {"start", "returned"}

Cancel ==
  /\ Running /\ ~ctxDone
  /\ ctxDone' = TRUE
  /\ UNCHANGED <<ctl, opts, req, sigs, client, machine, files, lost>>

\* A control-socket suspend that finds no outcome yet.
SuspendRPC ==
  /\ Running /\ closed = "open" /\ ~req /\ handled = "none"
  /\ req' = TRUE
  /\ UNCHANGED <<ctl, opts, ctxDone, sigs, client, machine, files, lost>>

JobControl(sig) ==
  /\ Running /\ Len(sigs) < SignalBuffer
  /\ sigs' = Append(sigs, sig)
  /\ UNCHANGED <<ctl, opts, ctxDone, req, client, machine, files, lost>>

\* The guest powers off, QEMU dies, or a shutdown RPC ends it.
QEMUExits ==
  /\ qemu = "up"
  /\ qemu' = "gone"
  /\ UNCHANGED <<ctl, opts, inputs, client, closed, done, mErr, files, lost>>

\* VM.reap: the end of the context tears the machine down and stays its cause.
ReapContext ==
  /\ ~done /\ ctxDone /\ mErr = "nil"
  /\ Close
  /\ mErr' = "cancelled"
  /\ UNCHANGED <<ctl, opts, inputs, client, done, files, lost>>

\* VM.reap: QEMU is gone, with any status; what was not torn down is, and Done
\* is closed.
ReapDone ==
  /\ ~done /\ qemu = "gone"
  /\ Close
  /\ done' = TRUE
  /\ mErr' \in IF mErr = "cancelled" THEN {"cancelled"}
               ELSE IF closed' = "failed" THEN {"failed"} ELSE {"nil", "failed"}
  /\ UNCHANGED <<ctl, opts, inputs, client, files, lost>>

Fresh ==
  /\ from' = "none" /\ committed' = FALSE /\ handled' = "none" /\ provisioned' = FALSE
  /\ ctxDone' = FALSE /\ req' = FALSE /\ sigs' = <<>>
  /\ ssh' = "none" /\ written' = 0 /\ captured' = {}
  /\ qemu' = "gone" /\ closed' = "clean" /\ done' = TRUE /\ mErr' = "nil"
  /\ lost' = "no"
  /\ UNCHANGED <<sshMode, resumed, disk, identity, authorized>>

NextSession ==
  /\ At("returned")
  /\ Goto("start", "nil") /\ Fresh /\ UNCHANGED pub

\* virtle dies while it writes the keys or installs them; a write in progress
\* may be torn.  (LaunchStore has the crashes around the saved state.)
Crash ==
  /\ pc \in {"newIdentity", "newPub", "install", "append"}
  /\ Goto("start", "nil") /\ Fresh
  /\ \/ UNCHANGED pub
     \/ At("newPub") /\ pub' = "torn"

Step ==
  \/ \E s \in BOOLEAN : Start(s)
  \/ ShutdownAfter \/ StartFails \/ StartSaves \/ Ready \/ NotReady \/ RetryTimer
  \/ \E e \in Errors : SSHDone(e)
  \/ MachineDone \/ BridgeRequest \/ Signal \/ StopReturns
  \/ \E w \in Waits : Cancelled(w)
  \/ Migrate \/ SaveSucceeds \/ SaveFails \/ SaveAgain
  \/ Foreground \/ StartSSH \/ Established
  \/ \E said \in SUBSET {"transient"} : Classify(said)
  \/ EnsureKey \/ WriteIdentity \/ WritePublicKey \/ InstallKey \/ AppendKey

Next ==
  \/ Step
  \/ \E p \in {"plain", "transient", "auth"} : Stderr(p)
  \/ SSHExits \/ Cancel \/ SuspendRPC \/ QEMUExits
  \/ \E s \in {"TSTP", "USR1"} : JobControl(s)
  \/ ReapContext \/ ReapDone \/ NextSession \/ Crash

\* The session goes on while it can, except that a save begins with a guest
\* write-back that only the context bounds; a client being stopped dies (SIGKILL ends
\* the ladder); a Go select picks among its ready cases at random, so a case
\* that is ready again and again is taken.
Fairness ==
  /\ WF_vars((At("saving") => ctxDone) /\ Step)
  /\ WF_vars(At("stopSSH") /\ SSHExits)
  /\ WF_vars(\E w \in Waits : Cancelled(w))
  /\ SF_vars(Cancelled("retryWait"))

Spec == Init /\ [][Next]_vars /\ Fairness

-----------------------------------------------------------------------------
(* Properties *)

TypeOK ==
  /\ pc \in Waits \cup {"start", "foreground", "attempt", "commit", "stopSSH", "classify",
            "saving", "marking", "ensureKey", "newIdentity", "newPub", "install",
            "append", "shutdown", "returned"}
  /\ from \in Waits \cup {"none", "commit"} /\ err \in Errors
  /\ handled \in {"none", "saved", "failed"}
  /\ captured \subseteq {"transient", "auth"} /\ written \in 0 .. MaxLines
  /\ disk \in {"none", "old", "new"}
  /\ closed \in {"open", "clean", "failed"} /\ qemu \in {"up", "gone"}
  /\ lost \in {"no", "start", "ssh"}

\* ExitCode: the process exit code of Run's result.
ExitCode(e) == CASE e = "nil" -> 0 [] e = "cancelled" -> 130 [] OTHER -> 1

\* A session whose machine was saved ends with exit code 0, whatever else
\* happened meanwhile (a cancellation, QEMU's exit, a failed teardown, more
\* requests or signals).  Two ways to lose a saved exit are left: the suspend that
\* start itself serves, whose error Run does not look at, and the SSH loop, which
\* classifies it by the text around it and retries or provisions against a
\* machine that is gone.
SavedIsReported ==
  At("returned") /\ handled = "saved" => lost # "no" \/ ExitCode(err) = 0

\* The saved state that a session wrote is there until the next one starts,
\* although every later SSH attempt commits the resume again.
NewSaveSurvives == handled = "saved" => disk = "new"

\* Run never returns with QEMU running, except after a teardown (the session's,
\* the save's, start's or the reaper's) that could not stop it; Run's error then
\* says so, unless the machine was saved.
NeverAbandoned ==
  At("returned") /\ qemu = "up" =>
    closed = "failed" /\ (ExitCode(err) # 0 \/ handled = "saved")

\* Whatever crashes and failed writes the key files went through, a session that
\* reports a provisioned key has a whole identity, and the guest has the line of
\* its public key file.  Only a torn line can have been taken for it.
ProvisionedIsAuthorized ==
  provisioned => identity = "full" /\ pub \in {"torn", "full"} /\ pub \in authorized

\* SIGINT or SIGTERM ends the session, also in the middle of SSH retries that
\* keep failing and of a save.
CancelEnds == ctxDone ~> (At("returned") \/ ~ctxDone)

=============================================================================
