-------------------------- MODULE LaunchStoreProofs --------------------------
(***************************************************************************)
(* For any number of launches and saves: at most one QEMU runs on the disk *)
(* images, the pid file names its launch, marker and stream stay together  *)
(* unless a save disturbed them, and a launch in auto mode never boots     *)
(* fresh over a saved state it has seen.                                   *)
(***************************************************************************)
EXTENDS LaunchStore, TLAPS

HasQEMU == {"starting", "restore", "queued", "restored", "committing", "up"}
Ending == {"closing", "unlocking"}
Holding == HasQEMU \cup Ending \cup {"flocked", "cleared", "locked", "prepared"}
PCs == Holding \cup {"idle", "plan", "lock"}

\* The lock is held by the launch that is past AcquireRuntimeLock, and the pid
\* file is its own until its cleanup removes it.
LockHeld ==
  \A l \in Launches :
    /\ pc[l] \in Holding => lock = l
    /\ pc[l] \in HasQEMU \cup {"locked", "prepared"} => pidFile = l
    /\ pc[l] = "closing" /\ qemu[l] # "off" => pidFile = l

\* A QEMU belongs to a launch from StartQEMU until the launch lets go of the lock,
\* and was started after any orphan that listened was gone.
QEMUOwned ==
  \A l \in Launches :
    /\ qemu[l] # "off" => pc[l] \in HasQEMU \cup Ending
    /\ qemu[l] # "off" \/ pc[l] = "prepared" => ~orphan
    /\ pc[l] = "starting" => qemu[l] # "off"

\* Saves are numbered from 1, and a stream that is there has its save's number.
Numbered ==
  /\ vmst.kind = "none" => vmst.gen = 0
  /\ \A l \in Launches : \A s \in Savers :
       /\ svGen[l][s] <= saves
       /\ sv[l][s] \in {"prepared", "opened", "migrated", "torn"} =>
            svGen[l][s] >= 1

\* A save whose file is still the one in place: the migration was opened on that
\* file, and once it has completed so has the stream.
StreamFollowsSave ==
  \A l \in Launches : \A s \in Savers :
    vmst.gen = svGen[l][s] =>
      /\ sv[l][s] = "opened" => svFile[l][s] = svGen[l][s]
      /\ sv[l][s] \in {"migrated", "torn"} => vmst.kind = "complete"

LEMMA StoreTypeInit == Init => TypeOK
  <1> SUFFICES ASSUME Init
               PROVE  TypeOK
    OBVIOUS
  <1> USE MaxSavesAssumption DEF Init, Gens
  <1>1. saw \in [Launches -> BOOLEAN] /\ handle \in [Launches -> BOOLEAN]
    BY Zenon
  <1>2. json \in [kind : StatusSaved \cup {"none", "torn", "unsaved"}, gen : Gens]
    BY DEF StatusSaved
  <1>3. /\ sv \in [Launches -> [Savers -> {"none", "prepared", "opened",
                            "migrated", "torn", "saved", "failed"}]]
        /\ svGen \in [Launches -> [Savers -> Gens]]
        /\ svFile \in [Launches -> [Savers -> Gens]]
    OBVIOUS
  <1>4. vmst \in [kind : {"none", "partial", "complete"}, gen : Gens]
    BY DEF NoStream
  <1>5. /\ asked \in [Launches -> Modes] /\ mode \in [Launches -> Modes]
        /\ plan \in [Launches -> Gens]
        /\ qemu \in [Launches -> {"off", "starting", "running", "migrating", "saved"}]
        /\ pc \in [Launches -> PCs]
    BY DEF Modes, PCs, Holding, HasQEMU, Ending
  <1>6. orphan \in BOOLEAN /\ disturbed \in BOOLEAN
    BY Zenon
  <1>8. saves \in Gens
    OBVIOUS
  <1>7. lock \in Launches \cup {"free"} /\ pidFile \in Launches \cup {"none"}
    OBVIOUS
  <1>9. QED
    BY <1>1, <1>2, <1>3, <1>4, <1>5, <1>6, <1>7, <1>8
       DEF TypeOK, PCs, Holding, HasQEMU, Ending

LEMMA StoreTypeStep == TypeOK /\ [Next]_storeVars => TypeOK'
  <1> SUFFICES ASSUME TypeOK, [Next]_storeVars
               PROVE  TypeOK'
    OBVIOUS
  <1> USE MaxSavesAssumption DEF TypeOK, Gens
  <1>1. ASSUME NEW l \in Launches, NEW m \in Modes, Open(l, m) PROVE TypeOK'
    BY <1>1 DEF Open, SessionMode, Modes
  <1>2. ASSUME NEW l \in Launches, PlanLaunch(l) PROVE TypeOK'
    BY <1>2 DEF PlanLaunch
  <1>3. ASSUME NEW l \in Launches, Flock(l) PROVE TypeOK'
    BY <1>3 DEF Flock
  <1>4. ASSUME NEW l \in Launches, StartQEMU(l) PROVE TypeOK'
    BY <1>4 DEF StartQEMU
  <1>5. ASSUME NEW l \in Launches, Restore(l) PROVE TypeOK'
    BY <1>5 DEF Restore
  <1>6. ASSUME NEW l \in Launches, StartReturns(l) PROVE TypeOK'
    BY <1>6 DEF StartReturns
  <1>7. ASSUME NEW l \in Launches, CommitStream(l) PROVE TypeOK'
    BY <1>7 DEF CommitStream, NoStream
  <1>8. ASSUME NEW l \in Launches, CommitMarker(l) PROVE TypeOK'
    BY <1>8 DEF CommitMarker, NoMarker
  <1>9. ASSUME NEW l \in Launches, StopQEMU(l) PROVE TypeOK'
    <2>1. PICK q \in {"off", qemu[l]} : qemu' = [qemu EXCEPT ![l] = q]
      BY <1>9 DEF StopQEMU
    <2>2. q \in {"off", "starting", "running", "migrating", "saved"}
      BY <2>1
    <2>3. qemu' \in [Launches -> {"off", "starting", "running", "migrating", "saved"}]
      BY <2>1, <2>2
    <2>4. QED
      BY <1>9, <2>3 DEF StopQEMU
  <1>10. ASSUME NEW l \in Launches, RemoveLaunchPID(l) PROVE TypeOK'
    BY <1>10 DEF RemoveLaunchPID
  <1>11. ASSUME NEW l \in Launches, ReleaseLock(l) PROVE TypeOK'
    BY <1>11 DEF ReleaseLock, Abandon
  <1>12. ASSUME NEW l \in Launches, Crash(l) PROVE TypeOK'
    BY <1>12 DEF Crash, Abandon
  <1>13. ASSUME NEW l \in Launches, NEW s \in Savers, PrepareVMStateFile(l, s) PROVE TypeOK'
    BY <1>13 DEF PrepareVMStateFile
  <1>14. ASSUME NEW l \in Launches, NEW s \in Savers, MigrateToFile(l, s) PROVE TypeOK'
    BY <1>14 DEF MigrateToFile
  <1>15. ASSUME NEW l \in Launches, NEW s \in Savers, MigrationCompletes(l, s) PROVE TypeOK'
    BY <1>15 DEF MigrationCompletes
  <1>16. ASSUME NEW l \in Launches, NEW s \in Savers, SaveFails(l, s) PROVE TypeOK'
    BY <1>16 DEF SaveFails
  <1>17. ASSUME NEW l \in Launches, NEW s \in Savers, TruncateMarker(l, s) PROVE TypeOK'
    BY <1>17 DEF TruncateMarker
  <1>18. ASSUME NEW l \in Launches, NEW s \in Savers, WriteMarker(l, s) PROVE TypeOK'
    BY <1>18 DEF WriteMarker, StatusSaved
  <1>19. ASSUME NEW l \in Launches, ClearMarker(l) PROVE TypeOK'
    BY <1>19 DEF ClearMarker, NoMarker
  <1>20. ASSUME NEW l \in Launches, WriteLaunchPID(l) PROVE TypeOK'
    BY <1>20 DEF WriteLaunchPID
  <1>21. ASSUME NEW l \in Launches, PrepareRuntimeState(l) PROVE TypeOK'
    BY <1>21 DEF PrepareRuntimeState
  <1>22. ASSUME NEW l \in Launches, QMPReady(l) PROVE TypeOK'
    BY <1>22 DEF QMPReady
  <1>23. CASE OrphanListens
    BY <1>23 DEF OrphanListens
  <1>24. CASE OrphanExits
    BY <1>24 DEF OrphanExits
  <1>25. CASE UNCHANGED storeVars
    BY <1>25 DEF storeVars
  <1>26. QED
    BY <1>1, <1>2, <1>3, <1>4, <1>5, <1>6, <1>7, <1>8, <1>9, <1>10, <1>11,
       <1>12, <1>13, <1>14, <1>15, <1>16, <1>17, <1>18, <1>19, <1>20, <1>21,
       <1>22, <1>23, <1>24, <1>25
       DEF Next, LaunchStep, SaveStep

LEMMA StoreTypeInvariance == Spec => []TypeOK
  BY StoreTypeInit, StoreTypeStep, PTL DEF Spec

-----------------------------------------------------------------------------
(* Who owns what. *)

\* The inductive invariant, beside the types.
OwnerInv == LockHeld /\ QEMUOwned

LEMMA StoreInitOwner == Init => OwnerInv
  BY DEF Init, OwnerInv, LockHeld, QEMUOwned, PCs, Holding, HasQEMU, Ending

LEMMA StoreStepOwner == TypeOK /\ OwnerInv /\ [Next]_storeVars => OwnerInv'
  <1> SUFFICES ASSUME TypeOK, OwnerInv, [Next]_storeVars
               PROVE  OwnerInv'
    OBVIOUS
  <1> USE LaunchesAssumption DEF OwnerInv, LockHeld, QEMUOwned, PCs, Holding, HasQEMU, Ending
  <1>0. /\ pc \in [Launches -> PCs]
        /\ qemu \in [Launches -> {"off", "starting", "running", "migrating", "saved"}]
        /\ lock \in Launches \cup {"free"}
    BY DEF TypeOK
  <1>1. ASSUME NEW l \in Launches, NEW m \in Modes, Open(l, m) PROVE OwnerInv'
    BY <1>0, <1>1 DEF Open
  <1>2. ASSUME NEW l \in Launches, PlanLaunch(l) PROVE OwnerInv'
    BY <1>0, <1>2 DEF PlanLaunch
  <1>3. ASSUME NEW l \in Launches, Flock(l) PROVE OwnerInv'
    BY <1>0, <1>3 DEF Flock
  <1>4. ASSUME NEW l \in Launches, StartQEMU(l) PROVE OwnerInv'
    BY <1>0, <1>4 DEF StartQEMU
  <1>5. ASSUME NEW l \in Launches, Restore(l) PROVE OwnerInv'
    BY <1>0, <1>5 DEF Restore
  <1>6. ASSUME NEW l \in Launches, StartReturns(l) PROVE OwnerInv'
    BY <1>0, <1>6 DEF StartReturns
  <1>7. ASSUME NEW l \in Launches, CommitStream(l) PROVE OwnerInv'
    BY <1>0, <1>7 DEF CommitStream
  <1>8. ASSUME NEW l \in Launches, CommitMarker(l) PROVE OwnerInv'
    BY <1>0, <1>8 DEF CommitMarker
  <1>9. ASSUME NEW l \in Launches, StopQEMU(l) PROVE OwnerInv'
    BY <1>0, <1>9 DEF StopQEMU
  <1>10. ASSUME NEW l \in Launches, RemoveLaunchPID(l) PROVE OwnerInv'
    BY <1>0, <1>10 DEF RemoveLaunchPID
  <1>11. ASSUME NEW l \in Launches, ReleaseLock(l) PROVE OwnerInv'
    BY <1>0, <1>11 DEF ReleaseLock, Abandon
  <1>12. ASSUME NEW l \in Launches, Crash(l) PROVE OwnerInv'
    BY <1>0, <1>12 DEF Crash, Abandon
  <1>13. ASSUME NEW l \in Launches, NEW s \in Savers, PrepareVMStateFile(l, s)
         PROVE  OwnerInv'
    BY <1>0, <1>13 DEF PrepareVMStateFile
  <1>14. ASSUME NEW l \in Launches, NEW s \in Savers, MigrateToFile(l, s)
         PROVE  OwnerInv'
    BY <1>0, <1>14 DEF MigrateToFile
  <1>15. ASSUME NEW l \in Launches, NEW s \in Savers, MigrationCompletes(l, s)
         PROVE  OwnerInv'
    BY <1>0, <1>15 DEF MigrationCompletes
  <1>16. ASSUME NEW l \in Launches, NEW s \in Savers, SaveFails(l, s)
         PROVE  OwnerInv'
    BY <1>0, <1>16 DEF SaveFails
  <1>17. ASSUME NEW l \in Launches, NEW s \in Savers, TruncateMarker(l, s)
         PROVE  OwnerInv'
    BY <1>0, <1>17 DEF TruncateMarker
  <1>18. ASSUME NEW l \in Launches, NEW s \in Savers, WriteMarker(l, s)
         PROVE  OwnerInv'
    BY <1>0, <1>18 DEF WriteMarker
  <1>19. ASSUME NEW l \in Launches, ClearMarker(l) PROVE OwnerInv'
    BY <1>0, <1>19 DEF ClearMarker, NoMarker
  <1>20. ASSUME NEW l \in Launches, WriteLaunchPID(l) PROVE OwnerInv'
    BY <1>0, <1>20 DEF WriteLaunchPID
  <1>21. ASSUME NEW l \in Launches, PrepareRuntimeState(l) PROVE OwnerInv'
    BY <1>0, <1>21 DEF PrepareRuntimeState
  <1>22. ASSUME NEW l \in Launches, QMPReady(l) PROVE OwnerInv'
    BY <1>0, <1>22 DEF QMPReady
  <1>23. CASE OrphanListens
    BY <1>23 DEF OrphanListens
  <1>24. CASE OrphanExits
    BY <1>24 DEF OrphanExits
  <1>25. CASE UNCHANGED storeVars
    BY <1>25 DEF storeVars
  <1>26. QED
    BY <1>1, <1>2, <1>3, <1>4, <1>5, <1>6, <1>7, <1>8, <1>9, <1>10, <1>11,
       <1>12, <1>13, <1>14, <1>15, <1>16, <1>17, <1>18, <1>19, <1>20, <1>21,
       <1>22, <1>23, <1>24, <1>25
       DEF Next, LaunchStep, SaveStep

LEMMA StoreOwnership == Spec => [](TypeOK /\ OwnerInv)
  BY StoreTypeInvariance, StoreInitOwner, StoreStepOwner, PTL DEF Spec

\* The variables keep their types, for any set of launches.
THEOREM StoreTypeCorrect == Spec => []TypeOK
  BY StoreTypeInvariance

\* The flock and the check for live sockets keep a second QEMU off the disk
\* images, whatever was killed and restarted before and whichever stop failed,
\* but beside a QEMU whose launch ended before it listened.
THEOREM StoreOneQEMU == Spec => []OneQEMU
  <1>1. TypeOK /\ OwnerInv => OneQEMU
    BY DEF OwnerInv, LockHeld, QEMUOwned, Holding, HasQEMU, Ending, OneQEMU
  <1>2. QED
    BY <1>1, StoreOwnership, PTL

\* The pid file names the launch whose QEMU runs, until a teardown that could not
\* stop that QEMU lets go of it.
THEOREM StorePIDFile == Spec => []PIDFileNamesOwner
  <1>1. TypeOK /\ OwnerInv => PIDFileNamesOwner
    BY DEF OwnerInv, LockHeld, QEMUOwned, Holding, HasQEMU, Ending, PIDFileNamesOwner
  <1>2. QED
    BY <1>1, StoreOwnership, PTL

-----------------------------------------------------------------------------
(* What the files say. *)

\* The inductive invariant, beside the types.
FilesInv == Numbered /\ StreamFollowsSave /\ MarkerImpliesStream

LEMMA StoreInitFiles == Init => FilesInv
  BY DEF Init, FilesInv, Numbered, StreamFollowsSave, MarkerImpliesStream,
         NoStream, Savers

LEMMA StoreStepFiles == TypeOK /\ FilesInv /\ [Next]_storeVars => FilesInv'
  <1> SUFFICES ASSUME TypeOK, FilesInv, [Next]_storeVars
               PROVE  FilesInv'
    OBVIOUS
  <1> USE MaxSavesAssumption
      DEF FilesInv, Numbered, StreamFollowsSave, MarkerImpliesStream
  <1>0. /\ json \in [kind : StatusSaved \cup {"none", "torn", "unsaved"}, gen : Nat]
        /\ vmst \in [kind : {"none", "partial", "complete"}, gen : Nat]
        /\ saves \in Nat
        /\ sv \in [Launches -> [Savers -> {"none", "prepared", "opened",
                          "migrated", "torn", "saved", "failed"}]]
        /\ svGen \in [Launches -> [Savers -> Nat]]
        /\ svFile \in [Launches -> [Savers -> Nat]]
    BY DEF TypeOK, Gens
  <1>1. ASSUME NEW l \in Launches, NEW m \in Modes, Open(l, m) PROVE FilesInv'
    BY <1>0, <1>1 DEF Open
  <1>2. ASSUME NEW l \in Launches, PlanLaunch(l) PROVE FilesInv'
    BY <1>0, <1>2 DEF PlanLaunch
  <1>3. ASSUME NEW l \in Launches, Flock(l) PROVE FilesInv'
    BY <1>0, <1>3 DEF Flock
  <1>4. ASSUME NEW l \in Launches, StartQEMU(l) PROVE FilesInv'
    BY <1>0, <1>4 DEF StartQEMU
  <1>5. ASSUME NEW l \in Launches, Restore(l) PROVE FilesInv'
    BY <1>0, <1>5 DEF Restore
  <1>6. ASSUME NEW l \in Launches, StartReturns(l) PROVE FilesInv'
    BY <1>0, <1>6 DEF StartReturns
  <1>7. ASSUME NEW l \in Launches, CommitStream(l) PROVE FilesInv'
    BY <1>0, <1>7 DEF CommitStream, NoStream
  <1>8. ASSUME NEW l \in Launches, CommitMarker(l) PROVE FilesInv'
    BY <1>0, <1>8 DEF CommitMarker, NoMarker
  <1>9. ASSUME NEW l \in Launches, StopQEMU(l) PROVE FilesInv'
    BY <1>0, <1>9 DEF StopQEMU
  <1>10. ASSUME NEW l \in Launches, RemoveLaunchPID(l) PROVE FilesInv'
    BY <1>0, <1>10 DEF RemoveLaunchPID
  <1>11. ASSUME NEW l \in Launches, ReleaseLock(l) PROVE FilesInv'
    BY <1>0, <1>11 DEF ReleaseLock, Abandon
  <1>12. ASSUME NEW l \in Launches, Crash(l) PROVE FilesInv'
    BY <1>0, <1>12 DEF Crash, Abandon
  <1>13. ASSUME NEW l \in Launches, NEW s \in Savers, PrepareVMStateFile(l, s)
         PROVE  FilesInv'
    <2>1. /\ vmst'.kind = "partial" /\ vmst'.gen = saves + 1
          /\ saves' = saves + 1
          /\ json' = json /\ svFile' = svFile
          /\ json.kind = "saved" => disturbed'
      BY <1>13 DEF PrepareVMStateFile
    <2>2. /\ sv'[l][s] = "prepared" /\ svGen'[l][s] = saves + 1
          /\ \A k \in Launches : \A r \in Savers :
               k # l \/ r # s =>
                 sv'[k][r] = sv[k][r] /\ svGen'[k][r] = svGen[k][r]
      BY <1>0, <1>13 DEF PrepareVMStateFile
    <2>3. \A k \in Launches : \A r \in Savers :
            svGen[k][r] \in Nat /\ svGen[k][r] <= saves
      BY <1>0
    <2>4. Numbered'
      <3>1. vmst'.kind # "none"
        BY <2>1
      <3>2. ASSUME NEW k \in Launches, NEW r \in Savers
            PROVE  /\ svGen'[k][r] <= saves'
                   /\ sv'[k][r] \in {"prepared", "opened", "migrated", "torn"} =>
                        svGen'[k][r] >= 1
        <4>1. CASE k = l /\ r = s
          BY <1>0, <2>1, <2>2, <4>1
        <4>2. CASE k # l \/ r # s
          BY <1>0, <2>1, <2>2, <2>3, <4>2
        <4>3. QED
          BY <4>1, <4>2
      <3>3. QED
        BY <3>1, <3>2
    <2>5. StreamFollowsSave'
      <3>1. ASSUME NEW k \in Launches, NEW r \in Savers,
                   vmst'.gen = svGen'[k][r]
            PROVE  sv'[k][r] = "prepared"
        <4>1. svGen'[k][r] = saves + 1 /\ svGen[k][r] # saves + 1
          BY <1>0, <2>1, <2>3, <3>1
        <4>2. QED
          BY <2>2, <4>1
      <3>2. QED
        BY <3>1
    <2>6. QED
      BY <2>1, <2>4, <2>5
  <1>14. ASSUME NEW l \in Launches, NEW s \in Savers, MigrateToFile(l, s)
         PROVE  FilesInv'
    BY <1>0, <1>14 DEF MigrateToFile
  <1>15. ASSUME NEW l \in Launches, NEW s \in Savers, MigrationCompletes(l, s)
         PROVE  FilesInv'
    BY <1>0, <1>15 DEF MigrationCompletes
  <1>16. ASSUME NEW l \in Launches, NEW s \in Savers, SaveFails(l, s)
         PROVE  FilesInv'
    BY <1>0, <1>16 DEF SaveFails
  <1>17. ASSUME NEW l \in Launches, NEW s \in Savers, TruncateMarker(l, s)
         PROVE  FilesInv'
    BY <1>0, <1>17 DEF TruncateMarker
  <1>18. ASSUME NEW l \in Launches, NEW s \in Savers, WriteMarker(l, s)
         PROVE  FilesInv'
    BY <1>0, <1>18 DEF WriteMarker
  <1>19. ASSUME NEW l \in Launches, ClearMarker(l) PROVE FilesInv'
    BY <1>0, <1>19 DEF ClearMarker, NoMarker
  <1>20. ASSUME NEW l \in Launches, WriteLaunchPID(l) PROVE FilesInv'
    BY <1>0, <1>20 DEF WriteLaunchPID
  <1>21. ASSUME NEW l \in Launches, PrepareRuntimeState(l) PROVE FilesInv'
    BY <1>0, <1>21 DEF PrepareRuntimeState
  <1>22. ASSUME NEW l \in Launches, QMPReady(l) PROVE FilesInv'
    BY <1>0, <1>22 DEF QMPReady
  <1>23. CASE OrphanListens
    BY <1>23 DEF OrphanListens
  <1>24. CASE OrphanExits
    BY <1>24 DEF OrphanExits
  <1>25. CASE UNCHANGED storeVars
    BY <1>25 DEF storeVars
  <1>26. QED
    BY <1>1, <1>2, <1>3, <1>4, <1>5, <1>6, <1>7, <1>8, <1>9, <1>10, <1>11,
       <1>12, <1>13, <1>14, <1>15, <1>16, <1>17, <1>18, <1>19, <1>20, <1>21,
       <1>22, <1>23, <1>24, <1>25
       DEF Next, LaunchStep, SaveStep

\* The order of saveSuspendStateConnected, empty file, stream, marker, keeps a
\* marker off an incomplete stream, unless a save was begun over a marker or wrote
\* its own late.
THEOREM StoreMarkerImpliesStream == Spec => []MarkerImpliesStream
  <1>1. FilesInv => MarkerImpliesStream
    BY DEF FilesInv
  <1>2. QED
    BY <1>1, StoreTypeInvariance, StoreInitFiles, StoreStepFiles, PTL DEF Spec

-----------------------------------------------------------------------------
(* What auto mode does to a marker it has seen. *)

\* session.start forces the resume of a marker it finds; a forced resume gets past
\* planLaunch with a save to restore only, and every saved marker names one.
ModeInv ==
  /\ json.kind = "saved" => json.gen # 0
  /\ \A l \in Launches :
       /\ asked[l] = "auto" /\ saw[l] => mode[l] = "force"
       /\ pc[l] \in {"lock", "flocked"} /\ mode[l] = "force" => plan[l] # 0

\* No marker is there that this version saved, and nobody has looked.
LEMMA StoreInitMode == Init => ModeInv
  BY DEF Init, ModeInv

\* The mode is chosen in Open, and the plan in PlanLaunch for that mode.
LEMMA StoreStepMode == TypeOK /\ FilesInv /\ ModeInv /\ [Next]_storeVars => ModeInv'
  <1> SUFFICES ASSUME TypeOK, FilesInv, ModeInv, [Next]_storeVars
               PROVE  ModeInv'
    OBVIOUS
  <1> USE DEF ModeInv
  <1>0. /\ json \in [kind : StatusSaved \cup {"none", "torn", "unsaved"}, gen : Nat]
        /\ pc \in [Launches -> PCs]
        /\ plan \in [Launches -> Nat]
        /\ asked \in [Launches -> Modes] /\ mode \in [Launches -> Modes]
        /\ saw \in [Launches -> BOOLEAN]
        /\ svGen \in [Launches -> [Savers -> Nat]]
    BY MaxSavesAssumption DEF TypeOK, Gens, PCs, Holding, HasQEMU, Ending
  <1>1. ASSUME NEW l \in Launches, NEW m \in Modes, Open(l, m) PROVE ModeInv'
    BY <1>0, <1>1 DEF Open, SessionMode
  <1>2. ASSUME NEW l \in Launches, PlanLaunch(l) PROVE ModeInv'
    <2>0. /\ ResolveResumeState("force") # "fresh"
          /\ ResolveResumeState("force") = "resume" => json.kind = "saved"
      BY <1>0 DEF ResolveResumeState, StatusSaved
    <2>1. mode[l] = "force" => pc'[l] \notin {"lock", "flocked"} \/ (json.kind = "saved" /\ plan'[l] = json.gen)
      <3>1. CASE mode[l] = "force" /\ ResolveResumeState("force") = "resume"
        BY <1>0, <1>2, <2>0, <3>1 DEF PlanLaunch
      <3>2. CASE mode[l] = "force" /\ ResolveResumeState("force") = "error"
        BY <1>0, <1>2, <3>2 DEF PlanLaunch
      <3>3. ResolveResumeState("force") \in {"fresh", "resume", "error"}
        BY <1>0 DEF ResolveResumeState, StatusSaved
      <3>4. QED
        BY <2>0, <3>1, <3>2, <3>3
    <2>2. \A k \in Launches : k # l => pc'[k] = pc[k] /\ plan'[k] = plan[k]
      BY <1>0, <1>2 DEF PlanLaunch
    <2>3. UNCHANGED <<json, asked, saw, mode>>
      BY <1>2 DEF PlanLaunch
    <2>4. QED
      BY <1>0, <2>1, <2>2, <2>3
  <1>3. ASSUME NEW l \in Launches, Flock(l) PROVE ModeInv'
    BY <1>0, <1>3 DEF Flock
  <1>4. ASSUME NEW l \in Launches, StartQEMU(l) PROVE ModeInv'
    BY <1>0, <1>4 DEF StartQEMU
  <1>5. ASSUME NEW l \in Launches, Restore(l) PROVE ModeInv'
    BY <1>0, <1>5 DEF Restore
  <1>6. ASSUME NEW l \in Launches, StartReturns(l) PROVE ModeInv'
    BY <1>0, <1>6 DEF StartReturns
  <1>7. ASSUME NEW l \in Launches, CommitStream(l) PROVE ModeInv'
    BY <1>0, <1>7 DEF CommitStream
  <1>8. ASSUME NEW l \in Launches, CommitMarker(l) PROVE ModeInv'
    BY <1>0, <1>8 DEF CommitMarker, NoMarker
  <1>9. ASSUME NEW l \in Launches, StopQEMU(l) PROVE ModeInv'
    BY <1>0, <1>9 DEF StopQEMU
  <1>10. ASSUME NEW l \in Launches, RemoveLaunchPID(l) PROVE ModeInv'
    BY <1>0, <1>10 DEF RemoveLaunchPID
  <1>11. ASSUME NEW l \in Launches, ReleaseLock(l) PROVE ModeInv'
    BY <1>0, <1>11 DEF ReleaseLock, Abandon
  <1>12. ASSUME NEW l \in Launches, Crash(l) PROVE ModeInv'
    BY <1>0, <1>12 DEF Crash, Abandon
  <1>13. ASSUME NEW l \in Launches, NEW s \in Savers, PrepareVMStateFile(l, s) PROVE ModeInv'
    BY <1>0, <1>13 DEF PrepareVMStateFile
  <1>14. ASSUME NEW l \in Launches, NEW s \in Savers, MigrateToFile(l, s) PROVE ModeInv'
    BY <1>0, <1>14 DEF MigrateToFile
  <1>15. ASSUME NEW l \in Launches, NEW s \in Savers, MigrationCompletes(l, s) PROVE ModeInv'
    BY <1>0, <1>15 DEF MigrationCompletes
  <1>16. ASSUME NEW l \in Launches, NEW s \in Savers, SaveFails(l, s) PROVE ModeInv'
    BY <1>0, <1>16 DEF SaveFails
  <1>17. ASSUME NEW l \in Launches, NEW s \in Savers, TruncateMarker(l, s) PROVE ModeInv'
    BY <1>0, <1>17 DEF TruncateMarker
  <1>18. ASSUME NEW l \in Launches, NEW s \in Savers, WriteMarker(l, s) PROVE ModeInv'
    BY <1>0, <1>18 DEF WriteMarker, FilesInv, Numbered
  <1>19. ASSUME NEW l \in Launches, ClearMarker(l) PROVE ModeInv'
    BY <1>0, <1>19 DEF ClearMarker, NoMarker
  <1>20. ASSUME NEW l \in Launches, WriteLaunchPID(l) PROVE ModeInv'
    BY <1>0, <1>20 DEF WriteLaunchPID
  <1>21. ASSUME NEW l \in Launches, PrepareRuntimeState(l) PROVE ModeInv'
    BY <1>0, <1>21 DEF PrepareRuntimeState
  <1>22. ASSUME NEW l \in Launches, QMPReady(l) PROVE ModeInv'
    BY <1>0, <1>22 DEF QMPReady
  <1>23. CASE OrphanListens
    BY <1>23 DEF OrphanListens
  <1>24. CASE OrphanExits
    BY <1>24 DEF OrphanExits
  <1>25. CASE UNCHANGED storeVars
    BY <1>25 DEF storeVars
  <1>26. QED
    BY <1>1, <1>2, <1>3, <1>4, <1>5, <1>6, <1>7, <1>8, <1>9, <1>10, <1>11,
       <1>12, <1>13, <1>14, <1>15, <1>16, <1>17, <1>18, <1>19, <1>20, <1>21,
       <1>22, <1>23, <1>24, <1>25
       DEF Next, LaunchStep, SaveStep

\* Only ClearMarker takes a launch from the flock on, and it deletes the marker of
\* a launch that has nothing to restore, of no other.
LEMMA StoreKeepsSeen ==
  ASSUME TypeOK, ModeInv, [Next]_storeVars, NEW l \in Launches,
         asked[l] = "auto", saw[l]
  PROVE  ~Discards(l)
  <1> SUFFICES ASSUME pc[l] = "flocked", pc'[l] = "cleared", json.kind \in StatusSaved
               PROVE  json'.kind # "none"
    BY DEF Discards
  <1>1. plan[l] # 0
    BY DEF ModeInv
  <1>2. ClearMarker(l)
    <2>1. ASSUME NEW k \in Launches, LaunchStep(k), k # l
          PROVE  pc'[l] = pc[l]
      BY <2>1 DEF TypeOK, LaunchStep, Open, PlanLaunch, Flock, ClearMarker, WriteLaunchPID,
         PrepareRuntimeState, StartQEMU, QMPReady, Restore, StartReturns, CommitStream,
         CommitMarker, StopQEMU, RemoveLaunchPID, ReleaseLock, Crash
    <2>2. ASSUME NEW k \in Launches, NEW s \in Savers, SaveStep(k, s)
          PROVE  pc' = pc
      BY <2>2 DEF SaveStep, PrepareVMStateFile, MigrateToFile, MigrationCompletes, SaveFails,
         TruncateMarker, WriteMarker
    <2>3. CASE OrphanExits \/ OrphanListens \/ UNCHANGED storeVars
      BY <2>3 DEF OrphanExits, OrphanListens, storeVars
    <2>4. CASE LaunchStep(l)
      BY <2>4 DEF TypeOK, LaunchStep, Open, PlanLaunch, Flock, WriteLaunchPID,
         PrepareRuntimeState, StartQEMU, QMPReady, Restore, StartReturns, CommitStream,
         CommitMarker, StopQEMU, RemoveLaunchPID, ReleaseLock, Crash
    <2>5. QED
      BY <2>1, <2>2, <2>3, <2>4 DEF Next
  <1>3. json' = json
    BY <1>1, <1>2 DEF ClearMarker, TypeOK
  <1>4. QED
    BY <1>3 DEF StatusSaved

\* For any number of launches: one in auto mode that found a saved marker when it
\* was started resumes from it, or fails, and never boots fresh over it.
THEOREM StoreAutoKeepsWhatItSaw == Spec => AutoKeepsWhatItSaw
  <1>1. TypeOK /\ FilesInv /\ ModeInv /\ [Next]_storeVars =>
          [\A l \in Launches : asked[l] = "auto" /\ saw[l] => ~Discards(l)]_storeVars
    BY StoreKeepsSeen
  <1>2. QED
    BY <1>1, StoreTypeInvariance, StoreInitFiles, StoreStepFiles, StoreInitMode, StoreStepMode,
       PTL DEF Spec, AutoKeepsWhatItSaw
=============================================================================
