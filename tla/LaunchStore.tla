----------------------------- MODULE LaunchStore -----------------------------
(***************************************************************************)
(* The state directory that launches of one VM share, and what they do to  *)
(* it: the suspend marker (<host>.suspend.json), the saved stream          *)
(* (<host>.vmstate), the launch lock and the pid file.  The directory      *)
(* outlives a launch; a launch may be killed between any two steps, and    *)
(* several may be started at once.                                         *)
(*                                                                         *)
(* A launch decides whether to resume from what it reads before it holds   *)
(* the lock, restores or boots, commits the resume by deleting what it     *)
(* restored from, and may save again: through the suspend coordinator, at  *)
(* most once per launch, or through VM.Suspend, whenever the handle's      *)
(* owner calls it.                                                         *)
(***************************************************************************)
EXTENDS Naturals

CONSTANTS
  Launches,    \* virtle processes, or StartVM calls of one embedding process
  MaxSaves     \* bound: PrepareVMStateFile calls in one behaviour

ASSUME LaunchesAssumption == Launches \cap {"free", "none"} = {}
ASSUME MaxSavesAssumption == MaxSaves \in Nat

VARIABLES
  json,       \* suspend.json: what kind of marker, and which save wrote it
  vmst,       \* .vmstate: "none", "partial" or "complete", and which save's
  lock,       \* the launch holding the flock, or "free"
  pidFile,    \* the launch named by the pid file, or "none"
  orphan,     \* a QEMU that listened outlives its launch
  blind,      \* QEMUs whose launch ended before they listened: "silent" ones,
              \* and "listening" ones
  saves,      \* saves begun
  pc,         \* where each launch is
  asked,      \* the resume mode each launch was started with
  mode,       \* the mode handed to ResolveResumeState
  saw,        \* the launch found a saved marker when it was started
  plan,       \* plan.ResumeState: the save to restore, 0 for nil
  qemu,       \* "off", "starting" (run, its sockets not bound yet), "running",
              \* "migrating", or "saved" (postmigrate)
  handle,     \* StartVM returned a VM of this launch
  sv,         \* progress of each launch's two ways to save
  svGen,      \* the save each of them is making
  svFile,     \* the save whose file the migration was opened on
  disturbed   \* a save began over a saved marker, or wrote one without the lock

storeVars == <<json, vmst, lock, pidFile, orphan, blind, saves, pc, asked,
               mode, saw, plan, qemu, handle, sv, svGen, svFile, disturbed>>

Modes == {"auto", "no", "force"}
Savers == {"coordinator", "handle"}
Gens == 0 .. MaxSaves

\* Markers whose status field is SuspendStatusSaved; "foreign" was written under
\* another state version and "noCID" without a usable vsock CID.
StatusSaved == {"saved", "foreign", "noCID"}

NoMarker == [kind |-> "none", gen |-> 0]
NoStream == [kind |-> "none", gen |-> 0]

TypeOK ==
  /\ json \in [kind : StatusSaved \cup {"none", "torn", "unsaved"}, gen : Gens]
  /\ vmst \in [kind : {"none", "partial", "complete"}, gen : Gens]
  /\ lock \in Launches \cup {"free"}
  /\ pidFile \in Launches \cup {"none"}
  /\ orphan \in BOOLEAN /\ disturbed \in BOOLEAN
  /\ blind \subseteq {"silent", "listening"}
  /\ saves \in Gens
  /\ pc \in [Launches -> {"idle", "plan", "lock", "flocked", "cleared", "locked",
                          "prepared", "starting", "restore", "queued",
                          "restored", "committing", "up", "closing",
                          "unlocking"}]
  /\ asked \in [Launches -> Modes] /\ mode \in [Launches -> Modes]
  /\ saw \in [Launches -> BOOLEAN] /\ handle \in [Launches -> BOOLEAN]
  /\ plan \in [Launches -> Gens]
  /\ qemu \in [Launches -> {"off", "starting", "running", "migrating", "saved"}]
  /\ sv \in [Launches -> [Savers -> {"none", "prepared", "opened", "migrated",
                                     "torn", "saved", "failed"}]]
  /\ svGen \in [Launches -> [Savers -> Gens]]
  /\ svFile \in [Launches -> [Savers -> Gens]]

\* The directory of a VM never saved by this version, but perhaps by another.
Init ==
  /\ \E k \in {"none", "unsaved", "foreign", "noCID"} :
       json = [kind |-> k, gen |-> 0]
  /\ vmst = NoStream
  /\ lock = "free"
  /\ pidFile = "none"
  /\ orphan = FALSE
  /\ blind = {}
  /\ saves = 0
  /\ pc = [l \in Launches |-> "idle"]
  /\ asked = [l \in Launches |-> "no"]
  /\ mode = [l \in Launches |-> "no"]
  /\ saw = [l \in Launches |-> FALSE]
  /\ plan = [l \in Launches |-> 0]
  /\ qemu = [l \in Launches |-> "off"]
  /\ handle = [l \in Launches |-> FALSE]
  /\ sv = [l \in Launches |-> [s \in Savers |-> "none"]]
  /\ svGen = [l \in Launches |-> [s \in Savers |-> 0]]
  /\ svFile = [l \in Launches |-> [s \in Savers |-> 0]]
  /\ disturbed = FALSE

-----------------------------------------------------------------------------
(* Deciding whether to resume. *)

SavesOver(l) == \A s \in Savers : sv[l][s] \in {"none", "saved", "failed"}

\* Fault: auto is left to ResolveResumeState.
SessionModeAuto(m) == m

\* HasSavedSuspendState and the choice of session.start: the marker's status
\* alone turns "auto" into a forced resume; a marker that does not decode ends
\* the session.  Backend.Start and Backend.Resume come with "no" and "force".
SessionMode(m) == IF m # "auto" THEN m
                  ELSE IF json.kind \in StatusSaved THEN "force" ELSE "no"

\* A new launch in this slot.
Open(l, m) ==
  /\ pc[l] = "idle" /\ SavesOver(l)
  /\ ~(m = "auto" /\ json.kind = "torn")
  /\ pc' = [pc EXCEPT ![l] = "plan"]
  /\ asked' = [asked EXCEPT ![l] = m]
  /\ mode' = [mode EXCEPT ![l] = SessionMode(m)]
  /\ saw' = [saw EXCEPT ![l] = json.kind \in StatusSaved]
  /\ handle' = [handle EXCEPT ![l] = FALSE]
  /\ plan' = [plan EXCEPT ![l] = 0]
  /\ sv' = [sv EXCEPT ![l] = [s \in Savers |-> "none"]]
  /\ svGen' = [svGen EXCEPT ![l] = [s \in Savers |-> 0]]
  /\ svFile' = [svFile EXCEPT ![l] = [s \in Savers |-> 0]]
  /\ UNCHANGED <<json, vmst, lock, pidFile, orphan, blind, saves, qemu,
                 disturbed>>

\* ResolveResumeState: "fresh", "resume", or an error.
ResolveResumeState(m) ==
  LET unusable == IF m = "auto" THEN "fresh" ELSE "error"
  IN CASE m = "no" -> "fresh"
       [] m # "no" /\ json.kind \in {"none", "unsaved"} -> unusable
       [] m # "no" /\ json.kind \in {"torn", "foreign"} -> "error"
       [] m # "no" /\ json.kind = "noCID" -> unusable
       [] m # "no" /\ json.kind = "saved" ->
            IF vmst.kind = "none" THEN unusable ELSE "resume"

\* planLaunch.
PlanLaunch(l) ==
  /\ pc[l] = "plan"
  /\ LET decision == ResolveResumeState(mode[l])
     IN /\ pc' = [pc EXCEPT ![l] = IF decision = "error" THEN "idle" ELSE "lock"]
        /\ plan' = [plan EXCEPT ![l] = IF decision = "resume" THEN json.gen
                                       ELSE 0]
  /\ UNCHANGED <<json, vmst, lock, pidFile, orphan, blind, saves, asked, mode,
                 saw, qemu, handle, sv, svGen, svFile, disturbed>>

-----------------------------------------------------------------------------
(* Starting. *)

\* Fault: a failed acquisition cleans up the pid file.
FlockCleansUp(l) ==
  /\ pc[l] = "lock"
  /\ IF lock # "free"
     THEN /\ pc' = [pc EXCEPT ![l] = "idle"]
          /\ pidFile' = "none"
          /\ UNCHANGED lock
     ELSE /\ pc' = [pc EXCEPT ![l] = "flocked"]
          /\ lock' = l
          /\ UNCHANGED pidFile
  /\ UNCHANGED <<json, vmst, orphan, blind, saves, asked, mode, saw, plan,
                 qemu, handle, sv, svGen, svFile, disturbed>>

\* AcquireRuntimeLock: a flock that does not wait ...
Flock(l) ==
  /\ pc[l] = "lock"
  /\ IF lock # "free"
     THEN /\ pc' = [pc EXCEPT ![l] = "idle"]
          /\ UNCHANGED lock
     ELSE /\ pc' = [pc EXCEPT ![l] = "flocked"]
          /\ lock' = l
  /\ UNCHANGED <<json, vmst, pidFile, orphan, blind, saves, asked, mode, saw,
                 plan, qemu, handle, sv, svGen, svFile, disturbed>>

\* ... then a fresh boot deletes the marker, whatever it says by now, and a resume
\* needs the stream to be there still ...
ClearMarker(l) ==
  /\ pc[l] = "flocked"
  /\ json' = IF plan[l] = 0 THEN NoMarker ELSE json
  /\ pc' = [pc EXCEPT ![l] = IF plan[l] # 0 /\ vmst.kind = "none"
                             THEN "closing" ELSE "cleared"]
  /\ UNCHANGED <<vmst, lock, pidFile, orphan, blind, saves, asked, mode, saw,
                 plan, qemu, handle, sv, svGen, svFile, disturbed>>

\* ... and the pid file is written; failing that, the lock is given back.
WriteLaunchPID(l) ==
  /\ pc[l] = "cleared"
  /\ \/ pidFile' = l /\ pc' = [pc EXCEPT ![l] = "locked"]
     \/ UNCHANGED pidFile /\ pc' = [pc EXCEPT ![l] = "closing"]
  /\ UNCHANGED <<json, vmst, lock, orphan, blind, saves, asked, mode, saw,
                 plan, qemu, handle, sv, svGen, svFile, disturbed>>

\* Fault: live sockets are not looked for.
PrepareUnchecked(l) ==
  /\ pc[l] = "locked"
  /\ pc' = [pc EXCEPT ![l] = "prepared"]
  /\ UNCHANGED <<json, vmst, lock, pidFile, orphan, blind, saves, asked, mode,
                 saw, plan, qemu, handle, sv, svGen, svFile, disturbed>>

\* prepareRuntimeState: a socket somebody still listens on fails the start, stale
\* ones are removed.
PrepareRuntimeState(l) ==
  /\ pc[l] = "locked"
  /\ pc' = [pc EXCEPT ![l] = IF orphan \/ "listening" \in blind
                             THEN "closing" ELSE "prepared"]
  /\ UNCHANGED <<json, vmst, lock, pidFile, orphan, blind, saves, asked, mode,
                 saw, plan, qemu, handle, sv, svGen, svFile, disturbed>>

\* startQEMU, after the helpers.
StartQEMU(l) ==
  /\ pc[l] = "prepared"
  /\ pc' = [pc EXCEPT ![l] = "starting"]
  /\ qemu' = [qemu EXCEPT ![l] = "starting"]
  /\ UNCHANGED <<json, vmst, lock, pidFile, orphan, blind, saves, asked, mode,
                 saw, plan, handle, sv, svGen, svFile, disturbed>>

\* QEMU binds its sockets and waitForQMP gets the greeting.
QMPReady(l) ==
  /\ pc[l] = "starting"
  /\ pc' = [pc EXCEPT ![l] = "restore"]
  /\ qemu' = [qemu EXCEPT ![l] = "running"]
  /\ UNCHANGED <<json, vmst, lock, pidFile, orphan, blind, saves, asked, mode,
                 saw, plan, handle, sv, svGen, svFile, disturbed>>

\* restoreLaunchRuntime, of a resuming launch: QEMU loads only a complete stream.
\* With any other the start fails, and QEMU is stopped.
Restore(l) ==
  /\ pc[l] = "restore"
  /\ plan[l] = 0 \/ vmst.kind = "complete"
  /\ pc' = [pc EXCEPT ![l] = "queued"]
  /\ UNCHANGED <<json, vmst, lock, pidFile, orphan, blind, saves, asked, mode,
                 saw, plan, qemu, handle, sv, svGen, svFile, disturbed>>

\* HandleQueuedSuspend had nothing to do and startWithPlan returns.  A fresh boot
\* has nothing to commit.
StartReturns(l) ==
  /\ pc[l] = "queued" /\ sv[l]["coordinator"] = "none"
  /\ pc' = [pc EXCEPT ![l] = IF plan[l] = 0 THEN "up" ELSE "restored"]
  /\ handle' = [handle EXCEPT ![l] = plan[l] = 0]
  /\ UNCHANGED <<json, vmst, lock, pidFile, orphan, blind, saves, asked, mode,
                 saw, plan, qemu, sv, svGen, svFile, disturbed>>

\* CommitResume: RemoveRestoredSuspendState deletes the stream, then the marker.
\* It comes before anybody services suspend requests or owns the handle.
CommitStream(l) ==
  /\ pc[l] = "restored"
  /\ vmst' = NoStream
  /\ pc' = [pc EXCEPT ![l] = "committing"]
  /\ UNCHANGED <<json, lock, pidFile, orphan, blind, saves, asked, mode, saw,
                 plan, qemu, handle, sv, svGen, svFile, disturbed>>

CommitMarker(l) ==
  /\ pc[l] = "committing"
  /\ json' = NoMarker
  /\ pc' = [pc EXCEPT ![l] = "up"]
  /\ handle' = [handle EXCEPT ![l] = TRUE]
  /\ UNCHANGED <<vmst, lock, pidFile, orphan, blind, saves, asked, mode, saw,
                 plan, qemu, sv, svGen, svFile, disturbed>>

-----------------------------------------------------------------------------
(* saveSuspendStateConnected. *)

\* When each way to save may be entered.  The coordinator's handler runs once, in
\* HandleQueuedSuspend or wherever the launch is served later; a teardown already
\* under way does not keep it from being entered.  VM.Suspend runs for as long as
\* an embedding program keeps the handle, that of a stopped VM included.
MaySave(l, s) ==
  \/ /\ s = "coordinator"
     /\ sv[l][s] = "none"
     /\ pc[l] = "queued" \/ handle[l]
  \/ /\ s = "handle"
     /\ sv[l][s] \in {"none", "failed"}
     /\ handle[l] /\ asked[l] # "auto"

\* PrepareVMStateFile: whatever stream was there is replaced by an empty file.
PrepareVMStateFile(l, s) ==
  /\ MaySave(l, s)
  /\ saves < MaxSaves
  /\ saves' = saves + 1
  /\ vmst' = [kind |-> "partial", gen |-> saves']
  /\ svGen' = [svGen EXCEPT ![l][s] = saves']
  /\ sv' = [sv EXCEPT ![l][s] = "prepared"]
  /\ disturbed' = (disturbed \/ json.kind = "saved")
  /\ UNCHANGED <<json, lock, pidFile, orphan, blind, pc, asked, mode, saw, plan,
                 qemu, handle, svFile>>

\* SaveToFile gets QEMU to open the file now at the path and to write to it.  A
\* QEMU that is migrating, or has migrated, refuses.  The teardown disconnects QMP
\* before it lets go of the lock.
MigrateToFile(l, s) ==
  /\ sv[l][s] = "prepared"
  /\ qemu[l] = "running" /\ pc[l] # "unlocking"
  /\ qemu' = [qemu EXCEPT ![l] = "migrating"]
  /\ svFile' = [svFile EXCEPT ![l][s] = vmst.gen]
  /\ sv' = [sv EXCEPT ![l][s] = "opened"]
  /\ UNCHANGED <<json, vmst, lock, pidFile, orphan, blind, saves, pc, asked,
                 mode, saw, plan, handle, svGen, disturbed>>

\* WaitForMigration sees "completed".  A file replaced meanwhile stays empty: the
\* stream went to the one that was unlinked.
MigrationCompletes(l, s) ==
  /\ sv[l][s] = "opened"
  /\ qemu[l] = "migrating" /\ pc[l] # "unlocking"
  /\ qemu' = [qemu EXCEPT ![l] = "saved"]
  /\ vmst' = IF vmst.gen = svFile[l][s] /\ vmst.kind = "partial"
             THEN [vmst EXCEPT !.kind = "complete"] ELSE vmst
  /\ sv' = [sv EXCEPT ![l][s] = "migrated"]
  /\ UNCHANGED <<json, lock, pidFile, orphan, blind, saves, pc, asked, mode,
                 saw, plan, handle, svGen, svFile, disturbed>>

\* The status query, the migration or its deadline fails, also because QEMU is
\* gone.  The empty or partial file stays.
SaveFails(l, s) ==
  /\ sv[l][s] \in {"prepared", "opened"}
  /\ qemu' = [qemu EXCEPT ![l] = IF sv[l][s] = "opened" /\ @ = "migrating"
                                 THEN "running" ELSE @]
  /\ sv' = [sv EXCEPT ![l][s] = "failed"]
  /\ UNCHANGED <<json, vmst, lock, pidFile, orphan, blind, saves, pc, asked,
                 mode, saw, plan, handle, svGen, svFile, disturbed>>

\* Fault: the marker is written without waiting for the migration.
TruncateMarkerEarly(l, s) ==
  /\ sv[l][s] \in {"opened", "migrated"}
  /\ json' = [kind |-> "torn", gen |-> 0]
  /\ sv' = [sv EXCEPT ![l][s] = "torn"]
  /\ UNCHANGED <<vmst, lock, pidFile, orphan, blind, saves, pc, asked, mode,
                 saw, plan, qemu, handle, svGen, svFile, disturbed>>

\* WriteSuspendStateData: os.WriteFile truncates ...
TruncateMarker(l, s) ==
  /\ sv[l][s] = "migrated"
  /\ json' = [kind |-> "torn", gen |-> 0]
  /\ sv' = [sv EXCEPT ![l][s] = "torn"]
  /\ UNCHANGED <<vmst, lock, pidFile, orphan, blind, saves, pc, asked, mode,
                 saw, plan, qemu, handle, svGen, svFile, disturbed>>

\* ... and writes.  Nothing here looks at the lock.
WriteMarker(l, s) ==
  /\ sv[l][s] = "torn"
  /\ json' = [kind |-> "saved", gen |-> svGen[l][s]]
  /\ sv' = [sv EXCEPT ![l][s] = "saved"]
  /\ disturbed' = (disturbed \/ lock # l \/ vmst.gen # svGen[l][s])
  /\ UNCHANGED <<vmst, lock, pidFile, orphan, blind, saves, pc, asked, mode,
                 saw, plan, qemu, handle, svGen, svFile>>

-----------------------------------------------------------------------------
(* Ending. *)

\* The teardown begins: a save ended, a caller, a signal, a failed startup, the
\* guest.  QEMU has exited or is stopped, or its stop fails, and the teardown goes
\* on all the same.  A save under way goes on in its own goroutine.
StopQEMU(l) ==
  /\ pc[l] \in {"locked", "prepared", "starting", "restore", "queued",
                "restored", "up"}
  /\ \E q \in {"off", qemu[l]} : qemu' = [qemu EXCEPT ![l] = q]
  /\ pc' = [pc EXCEPT ![l] = "closing"]
  /\ UNCHANGED <<json, vmst, lock, pidFile, orphan, blind, saves, asked, mode,
                 saw, plan, handle, sv, svGen, svFile, disturbed>>

\* RuntimeLock.Cleanup: the pid file first, if it still names this launch ...
RemoveLaunchPID(l) ==
  /\ pc[l] = "closing"
  /\ pidFile' = IF pidFile = l THEN "none" ELSE pidFile
  /\ pc' = [pc EXCEPT ![l] = "unlocking"]
  /\ UNCHANGED <<json, vmst, lock, orphan, blind, saves, asked, mode, saw,
                 plan, qemu, handle, sv, svGen, svFile, disturbed>>

\* Whoever let go of its QEMU while it lives leaves an orphan.
Abandon(l) ==
  /\ orphan' = (orphan \/ qemu[l] \notin {"off", "starting"})
  /\ blind' = IF qemu[l] = "starting" THEN blind \cup {"silent"} ELSE blind
  /\ qemu' = [qemu EXCEPT ![l] = "off"]

\* ... then the lock.
ReleaseLock(l) ==
  /\ pc[l] = "unlocking"
  /\ lock' = "free"
  /\ Abandon(l)
  /\ pc' = [pc EXCEPT ![l] = "idle"]
  /\ UNCHANGED <<json, vmst, pidFile, saves, asked, mode, saw, plan, handle,
                 sv, svGen, svFile, disturbed>>

\* The process is killed.  The kernel drops its lock; its files stay, and so does
\* its QEMU if it had one.
Crash(l) ==
  /\ pc[l] # "idle" \/ ~SavesOver(l)
  /\ lock' = IF lock = l THEN "free" ELSE lock
  /\ Abandon(l)
  /\ pc' = [pc EXCEPT ![l] = "idle"]
  /\ handle' = [handle EXCEPT ![l] = FALSE]
  /\ sv' = [sv EXCEPT ![l] = [s \in Savers |-> "none"]]
  /\ UNCHANGED <<json, vmst, pidFile, saves, asked, mode, saw, plan, svGen,
                 svFile, disturbed>>

OrphanExits ==
  /\ \/ orphan /\ orphan' = FALSE /\ UNCHANGED blind
     \/ \E b \in blind : blind' = blind \ {b} /\ UNCHANGED orphan
  /\ UNCHANGED <<json, vmst, lock, pidFile, saves, pc, asked, mode, saw, plan,
                 qemu, handle, sv, svGen, svFile, disturbed>>

\* A QEMU nobody waits for any more binds its sockets.
OrphanListens ==
  /\ "silent" \in blind
  /\ blind' = (blind \ {"silent"}) \cup {"listening"}
  /\ UNCHANGED <<json, vmst, lock, pidFile, orphan, saves, pc, asked, mode,
                 saw, plan, qemu, handle, sv, svGen, svFile, disturbed>>

LaunchStep(l) ==
  \/ \E m \in Modes : Open(l, m)
  \/ PlanLaunch(l) \/ Flock(l) \/ ClearMarker(l) \/ WriteLaunchPID(l)
  \/ PrepareRuntimeState(l) \/ StartQEMU(l) \/ QMPReady(l) \/ Restore(l)
  \/ StartReturns(l) \/ CommitStream(l) \/ CommitMarker(l)
  \/ StopQEMU(l) \/ RemoveLaunchPID(l) \/ ReleaseLock(l) \/ Crash(l)

SaveStep(l, s) ==
  \/ PrepareVMStateFile(l, s) \/ MigrateToFile(l, s) \/ MigrationCompletes(l, s)
  \/ SaveFails(l, s) \/ TruncateMarker(l, s) \/ WriteMarker(l, s)

Next ==
  \/ \E l \in Launches : LaunchStep(l) \/ \E s \in Savers : SaveStep(l, s)
  \/ OrphanExits
  \/ OrphanListens

Spec == Init /\ [][Next]_storeVars

-----------------------------------------------------------------------------
(* Properties. *)

\* Two QEMUs never run on the same disk images, whichever launches were killed
\* and whichever stops failed: neither those of two launches nor a new one beside
\* an orphan.  The one that can come between is a QEMU whose launch ended after it
\* ran QEMU and before QEMU listened (startup.go): no socket shows it (blind).
OneQEMU ==
  \A l \in Launches : qemu[l] # "off" =>
    /\ lock = l
    /\ ~orphan
    /\ \A k \in Launches \ {l} : qemu[k] = "off"

\* While a launch has a QEMU the pid file names that launch, whatever cleanups of
\* failed or earlier launches run beside it; but for a QEMU that its teardown could
\* not stop and gives up, the lock last (closer.go).
PIDFileNamesOwner ==
  \A l \in Launches : qemu[l] # "off" => pidFile = l \/ pc[l] = "unlocking"

\* A saved marker stands beside an incomplete stream only after a save was begun
\* over an earlier marker, or wrote its marker late.  Every other order of saves,
\* failed saves, stops and crashes keeps marker and stream together.
MarkerImpliesStream == json.kind = "saved" /\ ~disturbed => vmst.kind # "partial"

\* Launch l deletes a marker with status "saved" without resuming from it.
Discards(l) ==
  /\ pc[l] = "flocked" /\ pc'[l] = "cleared"
  /\ json.kind \in StatusSaved /\ json'.kind = "none"

\* A launch in auto mode that found a saved marker, of this version or another,
\* with or without a usable stream, never boots fresh over it.
AutoKeepsWhatItSaw ==
  [][\A l \in Launches : asked[l] = "auto" /\ saw[l] => ~Discards(l)]_storeVars

\* What resume.go says the marker is for: auto mode never abandons a suspended
\* session by booting fresh.
AutoNeverAbandons ==
  [][\A l \in Launches : asked[l] = "auto" => ~Discards(l)]_storeVars

=============================================================================
