---------------------------- MODULE LaunchProofs ----------------------------
(***************************************************************************)
(* For any number of launches of one state directory and any number of     *)
(* crashes: who may have processes, whose server is behind a socket, when  *)
(* the volume image may be used, and which sockets a sweep removes.        *)
(* For any number of helper processes of one launch: StopAll reaches a     *)
(* process only when everything added after it is gone or reported, and    *)
(* Close reports whatever it leaves running.                               *)
(***************************************************************************)
EXTENDS LaunchResources, ProcessSet, SequenceTheorems, TLAPS

-----------------------------------------------------------------------------
(* Sockets, volume and connections *)

LateStartup == {"runs", "waitfs", "boot", "waitqmp", "finish", "running"}

\* The cleanup steps a launch can have left, in the order of its cleanup.
FailingSteps == {<<"stop", "unlock">>, <<"stop", "unlock", "sweep">>,
                 <<"unlock">>, <<"unlock", "sweep">>, <<"sweep">>}
ClosingSteps == {<<"stop", "sweep", "unlock">>, <<"sweep", "unlock">>, <<"unlock">>}

StepsFollowPC ==
  \A l \in Launches :
    /\ pc[l] = "failing" => steps[l] \in FailingSteps
    /\ pc[l] = "closing" => steps[l] \in ClosingSteps
    /\ pc[l] \notin {"failing", "closing"} => steps[l] = <<>>

\* A launch owns the state directory from the lock to its "unlock" step.
Owns(l) ==
  \/ pc[l] \in Startup \cup {"running", "closing"}
  \/ pc[l] = "failing" /\ steps[l] # <<"sweep">>

LockHeld == \A l \in Launches : Owns(l) => holder = l

\* Its processes may run between the first of the runs and its "stop" step.
MayRun(l) ==
  \/ pc[l] \in LateStartup
  \/ steps[l] \in {<<"stop", "unlock">>, <<"stop", "unlock", "sweep">>,
                   <<"stop", "sweep", "unlock">>}

\* A launch that has not crashed knows its processes, but for those that
\* outlived their Stop.
Unstopped(l) == {k \in Kinds : unstopped[l][k] # "no"}
ProcessesKnown ==
  \A l \in Launches : pc[l] # "crashed" =>
    /\ Started(l) \subseteq group[l] \cup Unstopped(l)
    /\ group[l] # {} => MayRun(l)

\* startRuns, which drops the errors of its StopAll, has no QEMU to stop.
DropsOnlyRuns ==
  \A l \in Launches :
    /\ unstopped[l]["qemu"] # "dropped"
    /\ pc[l] = "runs" => "qemu" \notin group[l]

\* Behind a socket that answers is the process that bound it; an outside server
\* only ever has a share's path, and never once a launch has decided to run its own.
SocketsOwned ==
  /\ \A p \in Paths : \A l \in Launches : sock[p] = l => Serves(p) \in Started(l)
  /\ sock["qmp"] # Outside
  /\ \A l \in Launches : managed[l] => sock["fs"] # Outside

\* A sweep goes through the launch's own paths; what it is about to remove was
\* stale when it looked.
SweepPaths(l) == {<<>>, <<"qmp">>} \cup
                 (IF managed[l] THEN {<<"qmp", "fs">>, <<"fs">>} ELSE {})
SweepInv ==
  \A l \in Launches :
    /\ todo[l] \in SweepPaths(l)
    /\ pc[l] \in PreLock => todo[l] = <<>>
    /\ seen[l] \in {"unseen", "stale"}
    /\ seen[l] # "unseen" => Sweeping(l) /\ todo[l] # <<>>

\* Only the launch that formats it sees an image that is not whole.
ImageInv ==
  /\ \A l \in Launches : pc[l] = "format" => image = "raw"
  /\ image = "raw" => \E l \in Launches : pc[l] = "format"
  /\ \A l \in Launches :
       pc[l] \in LateStartup \/ Started(l) # {} => image \in {"formatted", "torn"}

\* A connection, once made, leads to the launch's own server or to a stray one.
OwnOrStray(l, s, k) == s = l \/ (s \in Launches /\ Stray(s, k))
Connections ==
  \A l \in Launches :
    /\ monitor[l] # NoOne => OwnOrStray(l, monitor[l], "qemu")
    /\ managed[l] /\ proc[l]["qemu"] = "up" /\ ~Stray(l, "qemu") =>
         OwnOrStray(l, share[l], "daemon")

ResourceInv ==
  /\ StepsFollowPC /\ LockHeld /\ ProcessesKnown /\ DropsOnlyRuns
  /\ SocketsOwned /\ SweepInv /\ ImageInv /\ Connections

(***************************************************************************)
(* The cleanup steps.                                                      *)
(***************************************************************************)

\* The deferred cleanup of a failed startup, spelt out.
LEMMA FailedStartupSteps ==
  ASSUME NEW l
  PROVE  FailedStartup(l) = IF reached[l] THEN <<"stop", "unlock", "sweep">>
                                          ELSE <<"stop", "unlock">>
  <1> DEFINE S == {"stop", "unlock", "sweep"}
             s == <<"stop", "unlock">> \o <<"sweep">>
             t == <<"stop", "unlock", "sweep">>
  <1>1. <<"stop", "unlock">> \in Seq(S) /\ <<"sweep">> \in Seq(S) /\ t \in Seq(S)
    OBVIOUS
  <1>2. s \in Seq(S) /\ Len(s) = 3 /\ s[1] = "stop" /\ s[2] = "unlock" /\ s[3] = "sweep"
    BY <1>1, ConcatProperties
  <1>3. \A i \in 1 .. Len(s) : s[i] = t[i]
    BY <1>2
  <1>4. <<"stop", "unlock">> \o <<>> = <<"stop", "unlock">>
    OBVIOUS
  <1> HIDE DEF s
  <1>5. s = t
    BY <1>1, <1>2, <1>3, SeqEqual
  <1>6. CASE reached[l]
    BY <1>5, <1>6 DEF s, FailedStartup
  <1>7. CASE ~reached[l]
    BY <1>4, <1>7 DEF FailedStartup
  <1>8. QED
    BY <1>6, <1>7

\* What NextStep makes of each sequence of steps: the cleanup goes on in order,
\* starts a sweep with the launch's own paths, and returns after the last step.
LEMMA NextStepOrder ==
  ASSUME NEW l \in Launches, TypeOK, StepsFollowPC, steps[l] # <<>>, NextStep(l)
  PROVE  /\ \/ /\ steps[l] = <<"stop", "unlock">> /\ steps'[l] = <<"unlock">>
               /\ pc[l] = "failing" /\ pc'[l] = "failing" /\ todo'[l] = <<>>
            \/ /\ steps[l] = <<"stop", "unlock", "sweep">>
               /\ steps'[l] = <<"unlock", "sweep">>
               /\ pc[l] = "failing" /\ pc'[l] = "failing" /\ todo'[l] = <<>>
            \/ /\ steps[l] = <<"unlock", "sweep">> /\ steps'[l] = <<"sweep">>
               /\ pc[l] = "failing" /\ pc'[l] = "failing"
               /\ todo'[l] = RuntimeSocketCleanupFiles(l)
            \/ /\ steps[l] = <<"stop", "sweep", "unlock">>
               /\ steps'[l] = <<"sweep", "unlock">>
               /\ pc[l] = "closing" /\ pc'[l] = "closing"
               /\ todo'[l] = RuntimeSocketCleanupFiles(l)
            \/ /\ steps[l] = <<"sweep", "unlock">> /\ steps'[l] = <<"unlock">>
               /\ pc[l] = "closing" /\ pc'[l] = "closing" /\ todo'[l] = <<>>
            \/ /\ steps[l] \in {<<"unlock">>, <<"sweep">>} /\ steps'[l] = <<>>
               /\ pc[l] \in {"failing", "closing"} /\ pc'[l] = "returned"
               /\ todo'[l] = <<>>
         /\ steps' = [steps EXCEPT ![l] = steps'[l]]
         /\ pc' = [pc EXCEPT ![l] = pc'[l]]
         /\ todo' = [todo EXCEPT ![l] = todo'[l]]
         /\ \A m \in Launches : m # l =>
              pc'[m] = pc[m] /\ steps'[m] = steps[m] /\ todo'[m] = todo[m]
  <1>1. pc[l] \in {"failing", "closing"} /\ steps[l] \in FailingSteps \cup ClosingSteps
    BY DEF TypeOK, StepsFollowPC
  <1>2. /\ steps'[l] = Tail(steps[l])
        /\ pc'[l] = IF Len(steps[l]) = 1 THEN "returned" ELSE pc[l]
        /\ todo'[l] = IF Len(steps[l]) > 1 /\ steps[l][2] = "sweep"
                      THEN RuntimeSocketCleanupFiles(l) ELSE <<>>
        /\ steps' = [steps EXCEPT ![l] = steps'[l]]
        /\ pc' = [pc EXCEPT ![l] = pc'[l]]
        /\ todo' = [todo EXCEPT ![l] = todo'[l]]
        /\ \A m \in Launches : m # l =>
             pc'[m] = pc[m] /\ steps'[m] = steps[m] /\ todo'[m] = todo[m]
    BY DEF TypeOK, NextStep, Goto
  <1>3. CASE steps[l] = <<"stop", "unlock">>
    <2>1. pc[l] = "failing"
      BY <1>1, <1>3 DEF StepsFollowPC, ClosingSteps
    <2>2. Tail(steps[l]) = <<"unlock">> /\ Len(steps[l]) = 2 /\ steps[l][2] = "unlock"
      BY <1>3
    <2>3. QED
      BY <1>2, <1>3, <2>1, <2>2
  <1>4. CASE steps[l] = <<"stop", "unlock", "sweep">>
    <2>1. pc[l] = "failing"
      BY <1>1, <1>4 DEF StepsFollowPC, ClosingSteps
    <2>2. /\ Tail(steps[l]) = <<"unlock", "sweep">> /\ Len(steps[l]) = 3
          /\ steps[l][2] = "unlock"
      BY <1>4
    <2>3. QED
      BY <1>2, <1>4, <2>1, <2>2
  <1>5. CASE steps[l] = <<"unlock", "sweep">>
    <2>1. pc[l] = "failing"
      BY <1>1, <1>5 DEF StepsFollowPC, ClosingSteps
    <2>2. Tail(steps[l]) = <<"sweep">> /\ Len(steps[l]) = 2 /\ steps[l][2] = "sweep"
      BY <1>5
    <2>3. QED
      BY <1>2, <1>5, <2>1, <2>2
  <1>6. CASE steps[l] = <<"stop", "sweep", "unlock">>
    <2>1. pc[l] = "closing"
      BY <1>1, <1>6 DEF StepsFollowPC, FailingSteps
    <2>2. /\ Tail(steps[l]) = <<"sweep", "unlock">> /\ Len(steps[l]) = 3
          /\ steps[l][2] = "sweep"
      BY <1>6
    <2>3. QED
      BY <1>2, <1>6, <2>1, <2>2
  <1>7. CASE steps[l] = <<"sweep", "unlock">>
    <2>1. pc[l] = "closing"
      BY <1>1, <1>7 DEF StepsFollowPC, FailingSteps
    <2>2. Tail(steps[l]) = <<"unlock">> /\ Len(steps[l]) = 2 /\ steps[l][2] = "unlock"
      BY <1>7
    <2>3. QED
      BY <1>2, <1>7, <2>1, <2>2
  <1>8. CASE steps[l] \in {<<"unlock">>, <<"sweep">>}
    <2>1. /\ Tail(<<"unlock">>) = <<>> /\ Len(<<"unlock">>) = 1
          /\ Tail(<<"sweep">>) = <<>> /\ Len(<<"sweep">>) = 1
      OBVIOUS
    <2>2. Tail(steps[l]) = <<>> /\ Len(steps[l]) = 1
      BY <1>8, <2>1
    <2>3. QED
      BY <1>1, <1>2, <1>8, <2>2
  <1>9. QED
    BY <1>1, <1>3, <1>4, <1>5, <1>6, <1>7, <1>8 DEF FailingSteps, ClosingSteps

\* What Fail does to the launch.
LEMMA FailStarts ==
  ASSUME NEW l \in Launches, TypeOK, Fail(l)
  PROVE  /\ pc' = [pc EXCEPT ![l] = "failing"] /\ pc'[l] = "failing"
         /\ steps'[l] = IF reached[l] THEN <<"stop", "unlock", "sweep">>
                                      ELSE <<"stop", "unlock">>
         /\ steps' = [steps EXCEPT ![l] = steps'[l]]
         /\ todo' = [todo EXCEPT ![l] = <<>>] /\ todo'[l] = <<>>
         /\ seen' = [seen EXCEPT ![l] = "unseen"] /\ seen'[l] = "unseen"
         /\ \A m \in Launches : m # l =>
              /\ pc'[m] = pc[m] /\ steps'[m] = steps[m]
              /\ todo'[m] = todo[m] /\ seen'[m] = seen[m]
  BY FailedStartupSteps DEF Fail, Goto, TypeOK

\* Which step of the cleanup a sequence begins with.
LEMMA FirstSteps ==
  ASSUME NEW l \in Launches, TypeOK, StepsFollowPC
  PROVE  /\ AtStep(l, "stop") => steps[l] \in {<<"stop", "unlock">>,
              <<"stop", "unlock", "sweep">>, <<"stop", "sweep", "unlock">>}
         /\ AtStep(l, "sweep") => steps[l] \in {<<"sweep">>, <<"sweep", "unlock">>}
         /\ AtStep(l, "unlock") => steps[l] \in {<<"unlock">>, <<"unlock", "sweep">>}
         /\ steps[l] # <<>> => pc[l] \in {"failing", "closing"}
  <1>1. steps[l] \in FailingSteps \cup ClosingSteps \cup {<<>>}
    BY DEF TypeOK, StepsFollowPC
  <1>2. /\ Head(<<"stop", "unlock">>) = "stop" /\ Head(<<"stop", "unlock", "sweep">>) = "stop"
        /\ Head(<<"stop", "sweep", "unlock">>) = "stop"
        /\ Head(<<"sweep">>) = "sweep" /\ Head(<<"sweep", "unlock">>) = "sweep"
        /\ Head(<<"unlock">>) = "unlock" /\ Head(<<"unlock", "sweep">>) = "unlock"
    OBVIOUS
  <1>3. steps[l] # <<>> => pc[l] \in {"failing", "closing"}
    BY DEF StepsFollowPC
  <1>4. QED
    BY <1>1, <1>2, <1>3 DEF AtStep, FailingSteps, ClosingSteps

(***************************************************************************)
(* The invariant.                                                          *)
(***************************************************************************)

\* A launch that cleans up goes through its steps; nobody else has any.
LEMMA StepsFollowPCStep == TypeOK /\ ResourceInv /\ [Next]_vars => StepsFollowPC'
  <1> SUFFICES ASSUME TypeOK, ResourceInv, [Next]_vars
               PROVE  StepsFollowPC'
    OBVIOUS
  <1> USE DEF TypeOK, ResourceInv, StepsFollowPC
  <1>b. ASSUME UNCHANGED <<pc, steps>> PROVE StepsFollowPC'
    BY <1>b
  <1>c. ASSUME NEW l \in Launches, Fail(l) PROVE StepsFollowPC'
    BY <1>c, FailStarts DEF FailingSteps
  <1>d. ASSUME NEW l \in Launches, steps[l] # <<>>, NextStep(l) PROVE StepsFollowPC'
    <2>1. /\ pc'[l] = "failing" => steps'[l] \in FailingSteps
          /\ pc'[l] = "closing" => steps'[l] \in ClosingSteps
          /\ pc'[l] \notin {"failing", "closing"} => steps'[l] = <<>>
      BY <1>d, NextStepOrder DEF FailingSteps, ClosingSteps
    <2>2. \A m \in Launches : m # l => pc'[m] = pc[m] /\ steps'[m] = steps[m]
      BY <1>d, NextStepOrder
    <2>3. QED
      BY <2>1, <2>2
  <1>1. ASSUME NEW l \in Launches, ResolveVirtioFSRuns(l) PROVE StepsFollowPC'
    BY <1>1 DEF ResolveVirtioFSRuns, Goto
  <1>2. ASSUME NEW l \in Launches, AcquireRuntimeLock(l) PROVE StepsFollowPC'
    BY <1>2 DEF AcquireRuntimeLock, Goto
  <1>3. ASSUME NEW l \in Launches, AcquireCID(l) PROVE StepsFollowPC'
    BY <1>3 DEF AcquireCID, Goto
  <1>4. ASSUME NEW l \in Launches, EnsureDirectories(l) PROVE StepsFollowPC'
    BY <1>4 DEF EnsureDirectories, Goto
  <1>5. ASSUME NEW l \in Launches, CheckExternal(l) PROVE StepsFollowPC'
    BY <1>5 DEF CheckExternal, Goto
  <1>6. ASSUME NEW l \in Launches, CheckSocketPath(l) PROVE StepsFollowPC'
    BY <1>6, <1>b, <1>c, <1>d DEF CheckSocketPath, Sweeping, AtStep
  <1>7. ASSUME NEW l \in Launches, RemoveSocket(l) PROVE StepsFollowPC'
    BY <1>7, <1>b DEF RemoveSocket, launchVars
  <1>8. ASSUME NEW l \in Launches, SweepDone(l) PROVE StepsFollowPC'
    BY <1>8, <1>d DEF SweepDone, Sweeping, AtStep, Goto
  <1>9. ASSUME NEW l \in Launches, StatVolume(l) PROVE StepsFollowPC'
    BY <1>9 DEF StatVolume, Goto
  <1>10. ASSUME NEW l \in Launches, CreatePrivateFile(l) PROVE StepsFollowPC'
    BY <1>10 DEF CreatePrivateFile, Goto
  <1>11. ASSUME NEW l \in Launches, FormatVolume(l) PROVE StepsFollowPC'
    BY <1>11, <1>c DEF FormatVolume, Goto
  <1>12. ASSUME NEW l \in Launches, StartRun(l) PROVE StepsFollowPC'
    BY <1>12, <1>b DEF StartRun, Goto
  <1>13. ASSUME NEW l \in Launches, StartRunFails(l) PROVE StepsFollowPC'
    BY <1>13, <1>c DEF StartRunFails
  <1>14. ASSUME NEW l \in Launches, WaitForSockets(l) PROVE StepsFollowPC'
    BY <1>14 DEF WaitForSockets, Goto
  <1>15. ASSUME NEW l \in Launches, StartQEMU(l) PROVE StepsFollowPC'
    BY <1>15 DEF StartQEMU, Goto
  <1>16. ASSUME NEW l \in Launches, WaitForQMP(l) PROVE StepsFollowPC'
    BY <1>16 DEF WaitForQMP, Goto
  <1>17. ASSUME NEW l \in Launches, FinishStartup(l) PROVE StepsFollowPC'
    BY <1>17 DEF FinishStartup, Goto
  <1>18. ASSUME NEW l \in Launches, StartupFails(l) PROVE StepsFollowPC'
    BY <1>18, <1>c DEF StartupFails
  <1>19. ASSUME NEW l \in Launches, CloseRuntime(l) PROVE StepsFollowPC'
    BY <1>19 DEF CloseRuntime, Goto, RuntimeCleanup, ClosingSteps
  <1>20. ASSUME NEW l \in Launches, CloseProcesses(l) PROVE StepsFollowPC'
    BY <1>20, <1>d DEF CloseProcesses, AtStep
  <1>21. ASSUME NEW l \in Launches, CleanupRuntimeLock(l) PROVE StepsFollowPC'
    BY <1>21, <1>d DEF CleanupRuntimeLock, AtStep
  <1>22. ASSUME NEW l \in Launches, DaemonBinds(l) PROVE StepsFollowPC'
    BY <1>22, <1>b DEF DaemonBinds, launchVars
  <1>23. ASSUME NEW l \in Launches, QEMUConnects(l) PROVE StepsFollowPC'
    BY <1>23, <1>b DEF QEMUConnects, launchVars
  <1>24. ASSUME NEW l \in Launches, Crash(l) PROVE StepsFollowPC'
    BY <1>24 DEF Crash, Goto
  <1>25. ASSUME NEW l \in Launches, NEW k \in Kinds, ProcessExits(l, k) PROVE StepsFollowPC'
    BY <1>25, <1>b DEF ProcessExits, launchVars
  <1>26. CASE OutsideExits
    BY <1>26, <1>b DEF OutsideExits, launchVars
  <1>27. CASE UNCHANGED vars
    BY <1>27, <1>b DEF vars, launchVars
  <1>28. QED
    BY <1>1, <1>2, <1>3, <1>4, <1>5, <1>6, <1>7, <1>8, <1>9, <1>10, <1>11,
       <1>12, <1>13, <1>14, <1>15, <1>16, <1>17, <1>18, <1>19, <1>20, <1>21,
       <1>22, <1>23, <1>24, <1>25, <1>26, <1>27
       DEF Next

\* A process that starts is the only difference to those that had started.
LEMMA ProcessStarts ==
  ASSUME TypeOK, NEW l \in Launches, NEW k \in Kinds, NEW v \in {"starting", "up"},
         proc' = [proc EXCEPT ![l][k] = v]
  PROVE  \A m \in Launches :
           Started(m)' = IF m = l THEN Started(m) \cup {k} ELSE Started(m)
  <1>1. \A m \in Launches : \A j \in Kinds :
          proc'[m][j] = IF m = l /\ j = k THEN v ELSE proc[m][j]
    BY DEF TypeOK
  <1>2. QED
    BY <1>1 DEF Started

\* A Stop ends some of the processes and records the others; no other launch
\* notices.
LEMMA StopEffect ==
  ASSUME TypeOK, NEW l \in Launches, NEW ks \in SUBSET Kinds,
         NEW err \in {"reported", "dropped"}, Stop(l, ks, err)
  PROVE  /\ \E gone \in SUBSET Kinds, left \in {"none", "stale"} :
              /\ proc' = [proc EXCEPT ![l] =
                   [k \in Kinds |-> IF k \in gone THEN "none" ELSE @[k]]]
              /\ sock' = Vacated(l, gone, left)
         /\ group' = [group EXCEPT ![l] = {}]
         /\ unstopped' \in [Launches -> [Kinds -> {"no", "reported", "dropped"}]]
         /\ \A m \in Launches : \A k \in Kinds :
              /\ unstopped[m][k] # "no" => unstopped'[m][k] # "no"
              /\ unstopped'[m][k] \in {unstopped[m][k], err}
              /\ k \notin ks => unstopped'[m][k] = unstopped[m][k]
              /\ proc'[m][k] \in {"none", proc[m][k]}
         /\ \A k \in ks : proc'[l][k] # "none" => unstopped'[l][k] # "no"
         /\ \A m \in Launches : Started(m)' \subseteq Started(m)
         /\ \A m \in Launches \ {l} :
              /\ Started(m)' = Started(m) /\ group'[m] = group[m]
              /\ unstopped'[m] = unstopped[m]
  <1>1. PICK alive \in SUBSET {k \in ks : proc[l][k] # "none"} :
          /\ proc' = [proc EXCEPT ![l] =
               [k \in Kinds |-> IF k \in ks \ alive THEN "none" ELSE @[k]]]
          /\ \E left \in {"none", "stale"} : sock' = Vacated(l, ks \ alive, left)
          /\ unstopped' = [unstopped EXCEPT ![l] =
               [k \in Kinds |-> IF k \in alive THEN err ELSE @[k]]]
          /\ group' = [group EXCEPT ![l] = {}]
    BY DEF Stop
  <1>2. \A m \in Launches : \A k \in Kinds :
          /\ proc'[m][k] = IF m = l /\ k \in ks \ alive THEN "none" ELSE proc[m][k]
          /\ unstopped'[m][k] = IF m = l /\ k \in alive THEN err ELSE unstopped[m][k]
    BY <1>1 DEF TypeOK
  <1>3. unstopped' \in [Launches -> [Kinds -> {"no", "reported", "dropped"}]]
    BY <1>1 DEF TypeOK
  <1>4. ks \ alive \in SUBSET Kinds
    OBVIOUS
  <1>5. \A m \in Launches \ {l} : group'[m] = group[m] /\ unstopped'[m] = unstopped[m]
    BY <1>1 DEF TypeOK
  <1>7. \A k \in ks : proc'[l][k] # "none" => unstopped'[l][k] # "no"
    BY <1>2
  <1>8. \A m \in Launches : \A k \in Kinds :
          /\ unstopped[m][k] # "no" => unstopped'[m][k] # "no"
          /\ unstopped'[m][k] \in {unstopped[m][k], err}
          /\ k \notin ks => unstopped'[m][k] = unstopped[m][k]
          /\ proc'[m][k] \in {"none", proc[m][k]}
    BY <1>2
  <1> DEFINE gone == ks \ alive
  <1>10. /\ proc' = [proc EXCEPT ![l] =
               [k \in Kinds |-> IF k \in gone THEN "none" ELSE @[k]]]
         /\ \E left \in {"none", "stale"} : sock' = Vacated(l, gone, left)
         /\ gone \in SUBSET Kinds
    BY <1>1, <1>4
  <1> HIDE DEF gone
  <1>11. \E g \in SUBSET Kinds, left \in {"none", "stale"} :
           /\ proc' = [proc EXCEPT ![l] =
                [k \in Kinds |-> IF k \in g THEN "none" ELSE @[k]]]
           /\ sock' = Vacated(l, g, left)
    BY <1>10
  <1>12. group' = [group EXCEPT ![l] = {}]
    BY <1>1
  <1>13. \A m \in Launches : Started(m)' \subseteq Started(m)
    BY <1>2 DEF Started
  <1>14. \A m \in Launches \ {l} :
           /\ Started(m)' = Started(m) /\ group'[m] = group[m]
           /\ unstopped'[m] = unstopped[m]
    <2>1. \A m \in Launches \ {l} : Started(m)' = Started(m)
      BY <1>2 DEF Started
    <2>2. QED
      BY <1>5, <2>1, Zenon
  <1>15. QED
    BY <1>3, <1>7, <1>8, <1>11, <1>12, <1>13, <1>14, Zenon

\* startRuns starts one more process, or has started them all.
LEMMA StartRunEffect ==
  ASSUME NEW l \in Launches, StartRun(l)
  PROVE  \/ Goto(l, "waitfs") /\ UNCHANGED <<proc, group>>
         \/ \E k \in Kinds \ {"qemu"}, v \in {"starting", "up"} :
              /\ proc' = [proc EXCEPT ![l][k] = v]
              /\ group' = [group EXCEPT ![l] = group[l] \cup {k}]
              /\ UNCHANGED pc
  <1> DEFINE k == IF "daemon" \in Runs(l) \ group[l] THEN "daemon" ELSE "extra"
             v == IF k = "daemon" THEN "starting" ELSE "up"
  <1>1. CASE Runs(l) \ group[l] = {}
    BY <1>1 DEF StartRun
  <1>2. CASE Runs(l) \ group[l] # {}
    <2>1. k \in Kinds \ {"qemu"} /\ v \in {"starting", "up"}
      BY DEF Kinds
    <2>2. /\ proc' = [proc EXCEPT ![l][k] = v] /\ UNCHANGED pc
          /\ group' = [group EXCEPT ![l] = group[l] \cup {k}]
      BY <1>2 DEF StartRun
    <2> HIDE DEF k, v
    <2>3. QED
      BY <2>1, <2>2
  <1>3. QED
    BY <1>1, <1>2

\* Whoever is between the lock and its "unlock" step still holds it.
LEMMA LockHeldStep == TypeOK /\ ResourceInv /\ [Next]_vars => LockHeld'
  <1> SUFFICES ASSUME TypeOK, ResourceInv, [Next]_vars
               PROVE  LockHeld'
    OBVIOUS
  <1> USE ResourcesAssumption DEF ResourceInv, LockHeld, Servers
  <1>b. ASSUME UNCHANGED <<pc, steps, holder>> PROVE LockHeld'
    BY <1>b DEF Owns
  <1>c. ASSUME NEW l \in Launches, Owns(l), Fail(l), UNCHANGED holder PROVE LockHeld'
    BY <1>c, FailStarts DEF Owns
  <1>d. ASSUME NEW l \in Launches, steps[l] # <<>>, NextStep(l)
        PROVE  /\ \A m \in Launches \ {l} : Owns(m)' = Owns(m)
               /\ Owns(l)' => Owns(l) /\ ~AtStep(l, "unlock")
    <2>1. \A m \in Launches \ {l} : pc'[m] = pc[m] /\ steps'[m] = steps[m]
      BY <1>d, NextStepOrder
    <2>2. Owns(l)' => Owns(l)
      BY <1>d, NextStepOrder DEF Owns, Startup
    <2>3. AtStep(l, "unlock") => ~Owns(l)'
      BY <1>d, NextStepOrder, FirstSteps DEF Owns, Startup
    <2>4. QED
      BY <2>1, <2>2, <2>3 DEF Owns
  <1>e. ASSUME NEW l \in Launches, NEW q \in PCs, Owns(l), Goto(l, q),
               UNCHANGED <<steps, holder>>
        PROVE  LockHeld'
    BY <1>e DEF TypeOK, Goto, Owns
  <1>1. ASSUME NEW l \in Launches, ResolveVirtioFSRuns(l) PROVE LockHeld'
    BY <1>1 DEF ResolveVirtioFSRuns, Goto, TypeOK, Owns, Startup, hostVars
  <1>2. ASSUME NEW l \in Launches, AcquireRuntimeLock(l) PROVE LockHeld'
    BY <1>2 DEF AcquireRuntimeLock, Goto, TypeOK, Owns, Startup
  <1>3. ASSUME NEW l \in Launches, AcquireCID(l) PROVE LockHeld'
    BY <1>3, <1>e DEF AcquireCID, Owns, Startup, PCs, hostVars
  <1>4. ASSUME NEW l \in Launches, EnsureDirectories(l) PROVE LockHeld'
    BY <1>4, <1>e DEF EnsureDirectories, Owns, Startup, PCs, hostVars
  <1>5. ASSUME NEW l \in Launches, CheckExternal(l) PROVE LockHeld'
    BY <1>5, <1>e DEF CheckExternal, Owns, Startup, PCs, hostVars
  <1>6. ASSUME NEW l \in Launches, CheckSocketPath(l) PROVE LockHeld'
    <2>1. CASE pc[l] = "sweep" /\ Fail(l)
      BY <1>6, <1>c, <2>1 DEF CheckSocketPath, Owns, Startup, hostVars
    <2>2. CASE steps[l] # <<>> /\ NextStep(l)
      BY <1>6, <1>d, <2>2 DEF CheckSocketPath, hostVars
    <2>3. CASE UNCHANGED <<pc, steps>>
      BY <1>6, <1>b, <2>3 DEF CheckSocketPath, hostVars
    <2>4. QED
      BY <1>6, <2>1, <2>2, <2>3 DEF CheckSocketPath, Sweeping, AtStep
  <1>7. ASSUME NEW l \in Launches, RemoveSocket(l) PROVE LockHeld'
    BY <1>7, <1>b DEF RemoveSocket, launchVars
  <1>8. ASSUME NEW l \in Launches, SweepDone(l) PROVE LockHeld'
    <2>1. CASE pc[l] = "sweep" /\ Goto(l, "volume") /\ UNCHANGED <<steps, todo>>
      BY <1>8, <1>e, <2>1 DEF SweepDone, Owns, Startup, PCs, hostVars
    <2>2. CASE steps[l] # <<>> /\ NextStep(l)
      BY <1>8, <1>d, <2>2 DEF SweepDone, hostVars
    <2>3. QED
      BY <1>8, <2>1, <2>2 DEF SweepDone, Sweeping, AtStep
  <1>9. ASSUME NEW l \in Launches, StatVolume(l) PROVE LockHeld'
    BY <1>9, <1>e DEF StatVolume, Owns, Startup, PCs, hostVars
  <1>10. ASSUME NEW l \in Launches, CreatePrivateFile(l) PROVE LockHeld'
    BY <1>10, <1>e DEF CreatePrivateFile, Owns, Startup, PCs, hostVars
  <1>11. ASSUME NEW l \in Launches, FormatVolume(l) PROVE LockHeld'
    BY <1>11, <1>c, <1>e DEF FormatVolume, Owns, Startup, PCs
  <1>12. ASSUME NEW l \in Launches, StartRun(l) PROVE LockHeld'
    BY <1>12, <1>b, <1>e DEF StartRun, Owns, Startup, PCs
  <1>13. ASSUME NEW l \in Launches, StartRunFails(l) PROVE LockHeld'
    BY <1>13, <1>c DEF StartRunFails, Owns, Startup
  <1>14. ASSUME NEW l \in Launches, WaitForSockets(l) PROVE LockHeld'
    BY <1>14, <1>e DEF WaitForSockets, Owns, Startup, PCs, hostVars
  <1>15. ASSUME NEW l \in Launches, StartQEMU(l) PROVE LockHeld'
    BY <1>15, <1>e DEF StartQEMU, Owns, Startup, PCs, hostVars
  <1>16. ASSUME NEW l \in Launches, WaitForQMP(l) PROVE LockHeld'
    BY <1>16, <1>e DEF WaitForQMP, Owns, Startup, PCs, hostVars
  <1>17. ASSUME NEW l \in Launches, FinishStartup(l) PROVE LockHeld'
    BY <1>17, <1>e DEF FinishStartup, Owns, Startup, PCs, hostVars
  <1>18. ASSUME NEW l \in Launches, StartupFails(l) PROVE LockHeld'
    BY <1>18, <1>c DEF StartupFails, Owns, Startup, hostVars
  <1>19. ASSUME NEW l \in Launches, CloseRuntime(l) PROVE LockHeld'
    BY <1>19 DEF CloseRuntime, Goto, TypeOK, Owns, hostVars
  <1>20. ASSUME NEW l \in Launches, CloseProcesses(l) PROVE LockHeld'
    BY <1>20, <1>d DEF CloseProcesses, AtStep
  <1>21. ASSUME NEW l \in Launches, CleanupRuntimeLock(l) PROVE LockHeld'
    <2>1. Owns(l)
      BY <1>21, FirstSteps DEF CleanupRuntimeLock, AtStep, Owns
    <2>2. QED
      BY <1>21, <1>d, <2>1 DEF CleanupRuntimeLock, AtStep
  <1>22. ASSUME NEW l \in Launches, DaemonBinds(l) PROVE LockHeld'
    BY <1>22, <1>b DEF DaemonBinds, launchVars
  <1>23. ASSUME NEW l \in Launches, QEMUConnects(l) PROVE LockHeld'
    BY <1>23, <1>b DEF QEMUConnects, launchVars
  <1>24. ASSUME NEW l \in Launches, Crash(l) PROVE LockHeld'
    BY <1>24 DEF Crash, Goto, TypeOK, Owns, Startup
  <1>25. ASSUME NEW l \in Launches, NEW k \in Kinds, ProcessExits(l, k) PROVE LockHeld'
    BY <1>25, <1>b DEF ProcessExits, launchVars
  <1>26. CASE OutsideExits
    BY <1>26, <1>b DEF OutsideExits, launchVars
  <1>27. CASE UNCHANGED vars
    BY <1>27, <1>b DEF vars, launchVars, hostVars
  <1>28. QED
    BY <1>1, <1>2, <1>3, <1>4, <1>5, <1>6, <1>7, <1>8, <1>9, <1>10, <1>11,
       <1>12, <1>13, <1>14, <1>15, <1>16, <1>17, <1>18, <1>19, <1>20, <1>21,
       <1>22, <1>23, <1>24, <1>25, <1>26, <1>27
       DEF Next

\* A launch that has not crashed still knows every process it has.
LEMMA ProcessesKnownStep == TypeOK /\ ResourceInv /\ [Next]_vars => ProcessesKnown'
  <1> SUFFICES ASSUME TypeOK, ResourceInv, [Next]_vars
               PROVE  ProcessesKnown'
    OBVIOUS
  <1> USE DEF ResourceInv, ProcessesKnown
  <1>b. ASSUME UNCHANGED <<pc, steps, proc, group, unstopped>> PROVE ProcessesKnown'
    BY <1>b DEF MayRun, Started, Unstopped
  <1>s. ASSUME NEW l \in Launches, pc[l] # "crashed",
               NEW err \in {"reported", "dropped"}, Stop(l, group[l], err),
               \A m \in Launches \ {l} : pc'[m] = pc[m] /\ steps'[m] = steps[m]
        PROVE  ProcessesKnown'
    <2>0. group[l] \in SUBSET Kinds
      BY DEF TypeOK
    <2> DEFINE ks == group[l]
    <2>1. ks \in SUBSET Kinds /\ Stop(l, ks, err)
      BY <1>s, <2>0
    <2> HIDE DEF ks
    <2>2. /\ group' = [group EXCEPT ![l] = {}] /\ Started(l)' \subseteq Started(l)
          /\ \A k \in Kinds : unstopped[l][k] # "no" => unstopped'[l][k] # "no"
          /\ \A k \in ks : proc'[l][k] # "none" => unstopped'[l][k] # "no"
          /\ \A m \in Launches \ {l} :
               /\ Started(m)' = Started(m) /\ group'[m] = group[m]
               /\ unstopped'[m] = unstopped[m]
      BY <2>1, StopEffect
    <2>3. Started(l)' \subseteq Unstopped(l)'
      <3>1. Started(l) \subseteq ks \cup Unstopped(l)
        BY <1>s DEF ks
      <3>2. ASSUME NEW k \in Started(l)' PROVE k \in Unstopped(l)'
        BY <2>2, <3>1 DEF Started, Unstopped
      <3>3. QED
        BY <3>2
    <2>4. group'[l] = {}
      BY <2>2 DEF TypeOK
    <2>5. QED
      BY <1>s, <2>2, <2>3, <2>4 DEF MayRun, Unstopped
  <1>c. ASSUME NEW l \in Launches, pc[l] # "crashed", Fail(l),
               UNCHANGED <<proc, group, unstopped>>
        PROVE  ProcessesKnown'
    <2>1. MayRun(l)'
      BY <1>c, FailStarts DEF MayRun
    <2>2. \A m \in Launches : m # l => pc'[m] = pc[m] /\ steps'[m] = steps[m]
      BY <1>c, FailStarts
    <2>3. QED
      BY <1>c, <2>1, <2>2 DEF MayRun, Started, Unstopped
  <1>d. ASSUME NEW l \in Launches, steps[l] # <<>>, NextStep(l), ~AtStep(l, "stop"),
               UNCHANGED <<proc, group, unstopped>>
        PROVE  ProcessesKnown'
    <2>1. ~MayRun(l) /\ pc[l] # "crashed"
      <3>1. /\ Head(<<"stop", "unlock">>) = "stop" /\ Head(<<"stop", "unlock", "sweep">>) = "stop"
            /\ Head(<<"stop", "sweep", "unlock">>) = "stop"
        OBVIOUS
      <3>2. QED
        BY <1>d, <3>1, FirstSteps DEF MayRun, AtStep, LateStartup
    <2>2. ASSUME NEW m \in Launches, m # l
          PROVE  pc'[m] = pc[m] /\ steps'[m] = steps[m]
      BY <1>d, <2>2, NextStepOrder
    <2>3. QED
      BY <1>d, <2>1, <2>2 DEF Started, MayRun, Unstopped
  <1>e. ASSUME NEW l \in Launches, NEW q \in PCs, Goto(l, q), pc[l] # "crashed",
               pc[l] \in LateStartup => q \in LateStartup,
               steps[l] = <<>>, UNCHANGED <<steps, proc, group, unstopped>>
        PROVE  ProcessesKnown'
    BY <1>e DEF TypeOK, Goto, Started, MayRun, Unstopped
  <1>1. ASSUME NEW l \in Launches, ResolveVirtioFSRuns(l) PROVE ProcessesKnown'
    BY <1>1, <1>e DEF ResolveVirtioFSRuns, StepsFollowPC, LateStartup, Startup, PreLock, Ended, PCs, hostVars
  <1>2. ASSUME NEW l \in Launches, AcquireRuntimeLock(l) PROVE ProcessesKnown'
    BY <1>2, <1>e DEF AcquireRuntimeLock, StepsFollowPC, LateStartup, Startup, PreLock, Ended, PCs, hostVars
  <1>3. ASSUME NEW l \in Launches, AcquireCID(l) PROVE ProcessesKnown'
    BY <1>3, <1>e DEF AcquireCID, StepsFollowPC, LateStartup, Startup, PreLock, Ended, PCs, hostVars
  <1>4. ASSUME NEW l \in Launches, EnsureDirectories(l) PROVE ProcessesKnown'
    BY <1>4, <1>e DEF EnsureDirectories, StepsFollowPC, LateStartup, Startup, PreLock, Ended, PCs, hostVars
  <1>5. ASSUME NEW l \in Launches, CheckExternal(l) PROVE ProcessesKnown'
    BY <1>5, <1>e DEF CheckExternal, StepsFollowPC, LateStartup, Startup, PreLock, Ended, PCs, hostVars
  <1>6. ASSUME NEW l \in Launches, CheckSocketPath(l) PROVE ProcessesKnown'
    <2>1. CASE pc[l] = "sweep" /\ Fail(l)
      BY <1>6, <1>c, <2>1 DEF CheckSocketPath, hostVars
    <2>2. CASE AtStep(l, "sweep") /\ NextStep(l)
      BY <1>6, <1>d, <2>2 DEF CheckSocketPath, hostVars, AtStep
    <2>3. CASE UNCHANGED <<pc, steps>>
      BY <1>6, <1>b, <2>3 DEF CheckSocketPath, hostVars
    <2>4. QED
      BY <1>6, <2>1, <2>2, <2>3 DEF CheckSocketPath, Sweeping
  <1>7. ASSUME NEW l \in Launches, RemoveSocket(l) PROVE ProcessesKnown'
    BY <1>7, <1>b DEF RemoveSocket, launchVars
  <1>8. ASSUME NEW l \in Launches, SweepDone(l) PROVE ProcessesKnown'
    <2>1. CASE pc[l] = "sweep" /\ Goto(l, "volume") /\ UNCHANGED <<steps, todo>>
      BY <1>8, <1>e, <2>1 DEF SweepDone, StepsFollowPC, LateStartup, PCs, Startup, hostVars
    <2>2. CASE AtStep(l, "sweep") /\ NextStep(l)
      BY <1>8, <1>d, <2>2 DEF SweepDone, hostVars, AtStep
    <2>3. QED
      BY <1>8, <2>1, <2>2 DEF SweepDone, Sweeping
  <1>9. ASSUME NEW l \in Launches, StatVolume(l) PROVE ProcessesKnown'
    BY <1>9, <1>e DEF StatVolume, StepsFollowPC, LateStartup, Startup, PreLock, Ended, PCs, hostVars
  <1>10. ASSUME NEW l \in Launches, CreatePrivateFile(l) PROVE ProcessesKnown'
    BY <1>10, <1>e DEF CreatePrivateFile, StepsFollowPC, LateStartup, Startup, PreLock, Ended, PCs, hostVars
  <1>11. ASSUME NEW l \in Launches, FormatVolume(l) PROVE ProcessesKnown'
    BY <1>11, <1>c, <1>e DEF FormatVolume, StepsFollowPC, LateStartup, Startup, PCs
  <1>12. ASSUME NEW l \in Launches, StartRun(l) PROVE ProcessesKnown'
    <2>1. CASE Goto(l, "waitfs") /\ UNCHANGED <<proc, group>>
      BY <1>12, <1>e, <2>1 DEF StartRun, StepsFollowPC, LateStartup, Startup, PCs
    <2>2. ASSUME NEW k \in Kinds, NEW v \in {"starting", "up"}, UNCHANGED pc,
                 group' = [group EXCEPT ![l] = group[l] \cup {k}],
                 proc' = [proc EXCEPT ![l][k] = v]
          PROVE  ProcessesKnown'
      <3>1. MayRun(l)' /\ Started(l) \subseteq group[l] \cup Unstopped(l)
        BY <1>12, <2>2 DEF StartRun, MayRun, LateStartup
      <3>2. \A m \in Launches : group'[m] = IF m = l THEN group[m] \cup {k} ELSE group[m]
        BY <2>2 DEF TypeOK
      <3>3. \A m \in Launches : Started(m)' = IF m = l THEN Started(m) \cup {k} ELSE Started(m)
        BY <2>2, ProcessStarts
      <3>4. UNCHANGED <<pc, steps, unstopped>>
        BY <1>12, <2>2 DEF StartRun
      <3>5. QED
        BY <3>1, <3>2, <3>3, <3>4 DEF MayRun, Unstopped
    <2>3. QED
      BY <1>12, <2>1, <2>2, StartRunEffect
  <1>13. ASSUME NEW l \in Launches, StartRunFails(l) PROVE ProcessesKnown'
    <2>1. \A m \in Launches \ {l} : pc'[m] = pc[m] /\ steps'[m] = steps[m]
      BY <1>13, FailStarts DEF StartRunFails
    <2>2. QED
      BY <1>13, <1>s, <2>1 DEF StartRunFails, StopAllStarted
  <1>14. ASSUME NEW l \in Launches, WaitForSockets(l) PROVE ProcessesKnown'
    BY <1>14, <1>e DEF WaitForSockets, StepsFollowPC, LateStartup, Startup, PreLock, Ended, PCs, hostVars
  <1>15. ASSUME NEW l \in Launches, StartQEMU(l) PROVE ProcessesKnown'
    <2>1. MayRun(l)'
      BY <1>15 DEF StartQEMU, Goto, TypeOK, MayRun, LateStartup
    <2>2. QED
      BY <1>15, <2>1 DEF StartQEMU, Goto, TypeOK, Started, MayRun, Unstopped, Kinds
  <1>16. ASSUME NEW l \in Launches, WaitForQMP(l) PROVE ProcessesKnown'
    BY <1>16, <1>e DEF WaitForQMP, StepsFollowPC, LateStartup, Startup, PreLock, Ended, PCs, hostVars
  <1>17. ASSUME NEW l \in Launches, FinishStartup(l) PROVE ProcessesKnown'
    BY <1>17, <1>e DEF FinishStartup, StepsFollowPC, LateStartup, Startup, PreLock, Ended, PCs, hostVars
  <1>18. ASSUME NEW l \in Launches, StartupFails(l) PROVE ProcessesKnown'
    BY <1>18, <1>c DEF StartupFails, Startup, hostVars
  <1>19. ASSUME NEW l \in Launches, CloseRuntime(l) PROVE ProcessesKnown'
    <2>1. MayRun(l)'
      BY <1>19 DEF CloseRuntime, RuntimeCleanup, TypeOK, MayRun
    <2>2. QED
      BY <1>19, <2>1 DEF CloseRuntime, Goto, TypeOK, Started, MayRun, Unstopped, hostVars
  <1>20. ASSUME NEW l \in Launches, CloseProcesses(l) PROVE ProcessesKnown'
    <2>1. pc[l] # "crashed"
      BY <1>20, FirstSteps DEF CloseProcesses, AtStep
    <2>2. \A m \in Launches \ {l} : pc'[m] = pc[m] /\ steps'[m] = steps[m]
      BY <1>20, NextStepOrder DEF CloseProcesses, AtStep
    <2>3. QED
      BY <1>20, <1>s, <2>1, <2>2 DEF CloseProcesses
  <1>21. ASSUME NEW l \in Launches, CleanupRuntimeLock(l) PROVE ProcessesKnown'
    BY <1>21, <1>d DEF CleanupRuntimeLock, AtStep
  <1>22. ASSUME NEW l \in Launches, DaemonBinds(l) PROVE ProcessesKnown'
    BY <1>22 DEF DaemonBinds, launchVars, TypeOK, Started, MayRun, Unstopped, Kinds
  <1>23. ASSUME NEW l \in Launches, QEMUConnects(l) PROVE ProcessesKnown'
    BY <1>23 DEF QEMUConnects, launchVars, TypeOK, Started, MayRun, Unstopped, Kinds
  <1>24. ASSUME NEW l \in Launches, Crash(l) PROVE ProcessesKnown'
    BY <1>24 DEF Crash, Goto, TypeOK, Started, MayRun, Unstopped
  <1>25. ASSUME NEW l \in Launches, NEW k \in Kinds, ProcessExits(l, k) PROVE ProcessesKnown'
    BY <1>25 DEF ProcessExits, launchVars, TypeOK, Started, MayRun, Unstopped
  <1>26. CASE OutsideExits
    BY <1>26, <1>b DEF OutsideExits, launchVars
  <1>27. CASE UNCHANGED vars
    BY <1>27, <1>b DEF vars, launchVars, hostVars
  <1>28. QED
    BY <1>1, <1>2, <1>3, <1>4, <1>5, <1>6, <1>7, <1>8, <1>9, <1>10, <1>11,
       <1>12, <1>13, <1>14, <1>15, <1>16, <1>17, <1>18, <1>19, <1>20, <1>21,
       <1>22, <1>23, <1>24, <1>25, <1>26, <1>27
       DEF Next

\* Only a failed start of the runs drops the error of a Stop, and QEMU is not among
\* them yet.
LEMMA DropsOnlyRunsStep == TypeOK /\ ResourceInv /\ [Next]_vars => DropsOnlyRuns'
  <1> SUFFICES ASSUME TypeOK, ResourceInv, [Next]_vars
               PROVE  DropsOnlyRuns'
    OBVIOUS
  <1> USE DEF ResourceInv, DropsOnlyRuns
  <1>b. ASSUME UNCHANGED <<group, unstopped>>,
               \A m \in Launches : pc'[m] = "runs" => pc[m] = "runs"
        PROVE  DropsOnlyRuns'
    BY <1>b
  <1>c. ASSUME NEW l \in Launches, Fail(l)
        PROVE  \A m \in Launches : pc'[m] = "runs" => pc[m] = "runs"
    BY <1>c, FailStarts
  <1>d. ASSUME NEW l \in Launches, steps[l] # <<>>, NextStep(l)
        PROVE  \A m \in Launches : pc'[m] = "runs" => pc[m] = "runs"
    BY <1>d, NextStepOrder
  <1>e. ASSUME NEW l \in Launches, NEW q \in PCs \ {"runs"}, Goto(l, q)
        PROVE  \A m \in Launches : pc'[m] = "runs" => pc[m] = "runs"
    BY <1>e DEF Goto, TypeOK
  <1>f. ASSUME NEW l \in Launches, pc[l] \in {"volume", "format"}, Goto(l, "runs"),
               UNCHANGED <<group, unstopped>>
        PROVE  DropsOnlyRuns'
    <2>1. group[l] = {}
      BY <1>f DEF ProcessesKnown, MayRun, LateStartup, StepsFollowPC
    <2>2. QED
      BY <1>f, <2>1 DEF Goto, TypeOK
  <1>s. ASSUME NEW l \in Launches, NEW err \in {"reported", "dropped"},
               Stop(l, group[l], err), err = "dropped" => pc[l] = "runs",
               \A m \in Launches : pc'[m] = "runs" => pc[m] = "runs"
        PROVE  DropsOnlyRuns'
    <2> DEFINE ks == group[l]
    <2>1. ks \in SUBSET Kinds /\ Stop(l, ks, err)
      BY <1>s DEF TypeOK
    <2> HIDE DEF ks
    <2>2. /\ group' = [group EXCEPT ![l] = {}]
          /\ \A m \in Launches : \A k \in Kinds :
               /\ unstopped'[m][k] \in {unstopped[m][k], err}
               /\ k \notin ks => unstopped'[m][k] = unstopped[m][k]
      BY <2>1, StopEffect
    <2>3. err = "dropped" => "qemu" \notin ks
      BY <1>s DEF ks
    <2>4. QED
      BY <1>s, <2>2, <2>3 DEF Kinds, TypeOK
  <1>1. ASSUME NEW l \in Launches, ResolveVirtioFSRuns(l) PROVE DropsOnlyRuns'
    BY <1>1, <1>b, <1>e DEF ResolveVirtioFSRuns, PCs, PreLock, Startup, Ended, hostVars
  <1>2. ASSUME NEW l \in Launches, AcquireRuntimeLock(l) PROVE DropsOnlyRuns'
    BY <1>2, <1>b, <1>e DEF AcquireRuntimeLock, PCs, PreLock, Startup, Ended, hostVars
  <1>3. ASSUME NEW l \in Launches, AcquireCID(l) PROVE DropsOnlyRuns'
    BY <1>3, <1>b, <1>e DEF AcquireCID, PCs, PreLock, Startup, Ended, hostVars
  <1>4. ASSUME NEW l \in Launches, EnsureDirectories(l) PROVE DropsOnlyRuns'
    BY <1>4, <1>b, <1>e DEF EnsureDirectories, PCs, PreLock, Startup, Ended, hostVars
  <1>5. ASSUME NEW l \in Launches, CheckExternal(l) PROVE DropsOnlyRuns'
    BY <1>5, <1>b, <1>e DEF CheckExternal, PCs, PreLock, Startup, Ended, hostVars
  <1>6. ASSUME NEW l \in Launches, CheckSocketPath(l) PROVE DropsOnlyRuns'
    <2>1. \A m \in Launches : pc'[m] = "runs" => pc[m] = "runs"
      BY <1>6, <1>c, <1>d DEF CheckSocketPath, Sweeping, AtStep
    <2>2. QED
      BY <1>6, <1>b, <2>1 DEF CheckSocketPath
  <1>7. ASSUME NEW l \in Launches, RemoveSocket(l) PROVE DropsOnlyRuns'
    BY <1>7, <1>b DEF RemoveSocket, launchVars
  <1>8. ASSUME NEW l \in Launches, SweepDone(l) PROVE DropsOnlyRuns'
    <2>1. \A m \in Launches : pc'[m] = "runs" => pc[m] = "runs"
      BY <1>8, <1>d, <1>e DEF SweepDone, Sweeping, AtStep, PCs, Startup
    <2>2. QED
      BY <1>8, <1>b, <2>1 DEF SweepDone
  <1>9. ASSUME NEW l \in Launches, StatVolume(l) PROVE DropsOnlyRuns'
    BY <1>9, <1>f DEF StatVolume
  <1>10. ASSUME NEW l \in Launches, CreatePrivateFile(l) PROVE DropsOnlyRuns'
    BY <1>10, <1>b, <1>e DEF CreatePrivateFile, PCs, PreLock, Startup, Ended, hostVars
  <1>11. ASSUME NEW l \in Launches, FormatVolume(l) PROVE DropsOnlyRuns'
    BY <1>11, <1>b, <1>c, <1>f DEF FormatVolume
  <1>12. ASSUME NEW l \in Launches, StartRun(l) PROVE DropsOnlyRuns'
    <2>1. CASE Goto(l, "waitfs") /\ UNCHANGED <<proc, group>>
      BY <1>12, <1>b, <1>e, <2>1 DEF StartRun, PCs, Startup
    <2>2. ASSUME NEW k \in Kinds \ {"qemu"}, UNCHANGED pc,
                 group' = [group EXCEPT ![l] = group[l] \cup {k}]
          PROVE  DropsOnlyRuns'
      BY <1>12, <2>2 DEF StartRun, TypeOK
    <2>3. QED
      BY <1>12, <2>1, <2>2, StartRunEffect
  <1>13. ASSUME NEW l \in Launches, StartRunFails(l) PROVE DropsOnlyRuns'
    BY <1>13, <1>c, <1>s DEF StartRunFails, StopAllStarted
  <1>14. ASSUME NEW l \in Launches, WaitForSockets(l) PROVE DropsOnlyRuns'
    BY <1>14, <1>b, <1>e DEF WaitForSockets, PCs, PreLock, Startup, Ended, hostVars
  <1>15. ASSUME NEW l \in Launches, StartQEMU(l) PROVE DropsOnlyRuns'
    BY <1>15 DEF StartQEMU, Goto, TypeOK
  <1>16. ASSUME NEW l \in Launches, WaitForQMP(l) PROVE DropsOnlyRuns'
    BY <1>16, <1>b, <1>e DEF WaitForQMP, PCs, PreLock, Startup, Ended, hostVars
  <1>17. ASSUME NEW l \in Launches, FinishStartup(l) PROVE DropsOnlyRuns'
    BY <1>17, <1>b, <1>e DEF FinishStartup, PCs, PreLock, Startup, Ended, hostVars
  <1>18. ASSUME NEW l \in Launches, StartupFails(l) PROVE DropsOnlyRuns'
    BY <1>18, <1>b, <1>c DEF StartupFails, hostVars
  <1>19. ASSUME NEW l \in Launches, CloseRuntime(l) PROVE DropsOnlyRuns'
    BY <1>19, <1>b, <1>e DEF CloseRuntime, PCs, PreLock, Startup, Ended, hostVars
  <1>20. ASSUME NEW l \in Launches, CloseProcesses(l) PROVE DropsOnlyRuns'
    BY <1>20, <1>d, <1>s DEF CloseProcesses, AtStep
  <1>21. ASSUME NEW l \in Launches, CleanupRuntimeLock(l) PROVE DropsOnlyRuns'
    BY <1>21, <1>b, <1>d DEF CleanupRuntimeLock, AtStep
  <1>22. ASSUME NEW l \in Launches, DaemonBinds(l) PROVE DropsOnlyRuns'
    BY <1>22, <1>b DEF DaemonBinds, launchVars
  <1>23. ASSUME NEW l \in Launches, QEMUConnects(l) PROVE DropsOnlyRuns'
    BY <1>23, <1>b DEF QEMUConnects, launchVars
  <1>24. ASSUME NEW l \in Launches, Crash(l) PROVE DropsOnlyRuns'
    BY <1>24, <1>b, <1>e DEF Crash, PCs, PreLock, Startup, Ended, hostVars
  <1>25. ASSUME NEW l \in Launches, NEW k \in Kinds, ProcessExits(l, k) PROVE DropsOnlyRuns'
    BY <1>25, <1>b DEF ProcessExits, launchVars
  <1>26. CASE OutsideExits
    BY <1>26, <1>b DEF OutsideExits, launchVars
  <1>27. CASE UNCHANGED vars
    BY <1>27, <1>b DEF vars, launchVars, hostVars
  <1>28. QED
    BY <1>1, <1>2, <1>3, <1>4, <1>5, <1>6, <1>7, <1>8, <1>9, <1>10, <1>11,
       <1>12, <1>13, <1>14, <1>15, <1>16, <1>17, <1>18, <1>19, <1>20, <1>21,
       <1>22, <1>23, <1>24, <1>25, <1>26, <1>27
       DEF Next

\* A process that is not a stray belongs to the lock's holder.
LEMMA OnlyHolderRuns ==
  ASSUME TypeOK, ResourceInv, NEW l \in Launches, NEW k \in Started(l), ~Stray(l, k)
  PROVE  MayRun(l) /\ holder = l
  <1>1. MayRun(l)
    BY DEF ResourceInv, ProcessesKnown, Stray, Unstopped
  <1>2. CASE pc[l] \in LateStartup
    BY <1>1, <1>2 DEF LateStartup, Startup, Owns, ResourceInv, LockHeld
  <1>3. CASE pc[l] \notin LateStartup
    <2>1. steps[l] # <<>> /\ steps[l] # <<"sweep">>
      BY <1>1, <1>3 DEF MayRun
    <2>2. pc[l] \in {"failing", "closing"}
      BY <2>1, FirstSteps DEF ResourceInv
    <2>3. QED
      BY <1>1, <2>1, <2>2 DEF Owns, ResourceInv, LockHeld
  <1>4. QED
    BY <1>2, <1>3

\* A server that goes takes its socket with it or leaves a stale one.
LEMMA SocketsOwnedStep == TypeOK /\ ResourceInv /\ [Next]_vars => SocketsOwned'
  <1> SUFFICES ASSUME TypeOK, ResourceInv, [Next]_vars
               PROVE  SocketsOwned'
    OBVIOUS
  <1> USE ResourcesAssumption DEF ResourceInv, SocketsOwned, Servers
  <1>b. ASSUME UNCHANGED <<sock, proc, managed>> PROVE SocketsOwned'
    BY <1>b DEF Started
  <1>c. ASSUME UNCHANGED <<sock, managed>>,
               \A l \in Launches : Started(l) \subseteq Started(l)'
        PROVE  SocketsOwned'
    BY <1>c
  <1>v. ASSUME NEW l \in Launches, NEW ks \in SUBSET Kinds, NEW left \in {"none", "stale"},
               proc' = [proc EXCEPT ![l] = [k \in Kinds |-> IF k \in ks THEN "none" ELSE @[k]]],
               sock' = Vacated(l, ks, left), UNCHANGED managed
        PROVE  SocketsOwned'
    <2>1. \A p \in Paths : sock'[p] \in {sock[p], left}
      BY <1>v DEF Vacated
    <2>2. sock'["qmp"] # Outside /\ \A m \in Launches : managed'[m] => sock'["fs"] # Outside
      BY <1>v, <2>1 DEF Paths, Outside
    <2>3. ASSUME NEW p \in Paths, NEW m \in Launches, sock'[p] = m
          PROVE  Serves(p) \in Started(m)'
      <3>1. sock[p] = m /\ Serves(p) \in Started(m)
        BY <2>1, <2>3
      <3>2. m = l => Serves(p) \notin ks
        BY <1>v, <2>3, <3>1 DEF Vacated, Serves
      <3>3. proc'[m][Serves(p)] = proc[m][Serves(p)]
        BY <1>v, <3>1, <3>2 DEF TypeOK, Started
      <3>4. QED
        BY <3>1, <3>3 DEF Started
    <2>4. QED
      BY <2>2, <2>3
  <1>1. ASSUME NEW l \in Launches, ResolveVirtioFSRuns(l) PROVE SocketsOwned'
    BY <1>1 DEF ResolveVirtioFSRuns, Answers, TypeOK, Started, hostVars
  <1>2. ASSUME NEW l \in Launches, AcquireRuntimeLock(l) PROVE SocketsOwned'
    BY <1>2, <1>b DEF AcquireRuntimeLock, hostVars
  <1>3. ASSUME NEW l \in Launches, AcquireCID(l) PROVE SocketsOwned'
    BY <1>3, <1>b DEF AcquireCID, hostVars
  <1>4. ASSUME NEW l \in Launches, EnsureDirectories(l) PROVE SocketsOwned'
    BY <1>4, <1>b DEF EnsureDirectories, hostVars
  <1>5. ASSUME NEW l \in Launches, CheckExternal(l) PROVE SocketsOwned'
    BY <1>5, <1>b DEF CheckExternal, hostVars
  <1>6. ASSUME NEW l \in Launches, CheckSocketPath(l) PROVE SocketsOwned'
    BY <1>6, <1>b DEF CheckSocketPath, hostVars
  <1>7. ASSUME NEW l \in Launches, RemoveSocket(l) PROVE SocketsOwned'
    BY <1>7 DEF RemoveSocket, TypeOK, Started, Paths, Outside
  <1>8. ASSUME NEW l \in Launches, SweepDone(l) PROVE SocketsOwned'
    BY <1>8, <1>b DEF SweepDone, hostVars
  <1>9. ASSUME NEW l \in Launches, StatVolume(l) PROVE SocketsOwned'
    BY <1>9, <1>b DEF StatVolume, hostVars
  <1>10. ASSUME NEW l \in Launches, CreatePrivateFile(l) PROVE SocketsOwned'
    BY <1>10, <1>b DEF CreatePrivateFile, hostVars
  <1>11. ASSUME NEW l \in Launches, FormatVolume(l) PROVE SocketsOwned'
    BY <1>11, <1>b DEF FormatVolume, hostVars
  <1>12. ASSUME NEW l \in Launches, StartRun(l) PROVE SocketsOwned'
    <2>1. \A m \in Launches : Started(m) \subseteq Started(m)'
      BY <1>12, StartRunEffect, ProcessStarts DEF Started
    <2>2. QED
      BY <1>12, <1>c, <2>1 DEF StartRun
  <1>13. ASSUME NEW l \in Launches, StartRunFails(l) PROVE SocketsOwned'
    <2>1. group[l] \in SUBSET Kinds /\ Stop(l, group[l], "dropped") /\ UNCHANGED managed
      BY <1>13 DEF StartRunFails, StopAllStarted, TypeOK
    <2>2. QED
      BY <1>v, <2>1, StopEffect
  <1>14. ASSUME NEW l \in Launches, WaitForSockets(l) PROVE SocketsOwned'
    BY <1>14, <1>b DEF WaitForSockets, hostVars
  <1>15. ASSUME NEW l \in Launches, StartQEMU(l) PROVE SocketsOwned'
    <2>1. \A m \in Launches : Started(m) \subseteq Started(m)'
      BY <1>15 DEF StartQEMU, TypeOK, Started
    <2>2. QED
      BY <1>15, <1>c, <2>1 DEF StartQEMU
  <1>16. ASSUME NEW l \in Launches, WaitForQMP(l) PROVE SocketsOwned'
    BY <1>16, <1>b DEF WaitForQMP, hostVars
  <1>17. ASSUME NEW l \in Launches, FinishStartup(l) PROVE SocketsOwned'
    BY <1>17, <1>b DEF FinishStartup, hostVars
  <1>18. ASSUME NEW l \in Launches, StartupFails(l) PROVE SocketsOwned'
    BY <1>18, <1>b DEF StartupFails, hostVars
  <1>19. ASSUME NEW l \in Launches, CloseRuntime(l) PROVE SocketsOwned'
    BY <1>19, <1>b DEF CloseRuntime, hostVars
  <1>20. ASSUME NEW l \in Launches, CloseProcesses(l) PROVE SocketsOwned'
    <2>1. group[l] \in SUBSET Kinds /\ Stop(l, group[l], "reported") /\ UNCHANGED managed
      BY <1>20 DEF CloseProcesses, TypeOK
    <2>2. QED
      BY <1>v, <2>1, StopEffect
  <1>21. ASSUME NEW l \in Launches, CleanupRuntimeLock(l) PROVE SocketsOwned'
    BY <1>21, <1>b DEF CleanupRuntimeLock, hostVars
  <1>22. ASSUME NEW l \in Launches, DaemonBinds(l) PROVE SocketsOwned'
    <2>1. /\ \A m \in Launches : Started(m) \subseteq Started(m)'
          /\ Serves("fs") \in Started(l)'
      BY <1>22 DEF DaemonBinds, TypeOK, Started, Kinds, Serves
    <2>2. QED
      BY <1>22, <2>1 DEF DaemonBinds, TypeOK, Paths, launchVars
  <1>23. ASSUME NEW l \in Launches, QEMUConnects(l) PROVE SocketsOwned'
    <2>1. /\ \A m \in Launches : Started(m) \subseteq Started(m)'
          /\ Serves("qmp") \in Started(l)'
      BY <1>23 DEF QEMUConnects, TypeOK, Started, Kinds, Serves
    <2>2. QED
      BY <1>23, <2>1 DEF QEMUConnects, TypeOK, Paths, launchVars
  <1>24. ASSUME NEW l \in Launches, Crash(l) PROVE SocketsOwned'
    BY <1>24, <1>b DEF Crash, hostVars
  <1>25. ASSUME NEW l \in Launches, NEW k \in Kinds, ProcessExits(l, k) PROVE SocketsOwned'
    <2>1. proc' = [proc EXCEPT ![l] = [j \in Kinds |-> IF j \in {k} THEN "none" ELSE proc[l][j]]]
      BY <1>25 DEF ProcessExits, TypeOK
    <2>2. QED
      BY <1>25, <1>v, <2>1 DEF ProcessExits, launchVars
  <1>26. CASE OutsideExits
    BY <1>26 DEF OutsideExits, TypeOK, Started, Paths, Outside, launchVars
  <1>27. CASE UNCHANGED vars
    BY <1>27, <1>b DEF vars, launchVars, hostVars
  <1>28. QED
    BY <1>1, <1>2, <1>3, <1>4, <1>5, <1>6, <1>7, <1>8, <1>9, <1>10, <1>11,
       <1>12, <1>13, <1>14, <1>15, <1>16, <1>17, <1>18, <1>19, <1>20, <1>21,
       <1>22, <1>23, <1>24, <1>25, <1>26, <1>27
       DEF Next

\* A sweep stays within the paths of its launch, and removes only what it has seen refuse a connection.
LEMMA SweepInvStep == TypeOK /\ ResourceInv /\ [Next]_vars => SweepInv'
  <1> SUFFICES ASSUME TypeOK, ResourceInv, [Next]_vars
               PROVE  SweepInv'
    OBVIOUS
  <1> USE DEF ResourceInv, SweepInv
  <1>b. ASSUME UNCHANGED <<pc, steps, todo, seen, managed>> PROVE SweepInv'
    BY <1>b DEF SweepPaths, Sweeping, AtStep
  <1>o. ASSUME NEW l \in Launches,
               \A m \in Launches : m # l =>
                 /\ pc'[m] = pc[m] /\ steps'[m] = steps[m] /\ managed'[m] = managed[m]
                 /\ todo'[m] = todo[m] /\ seen'[m] = seen[m],
               todo'[l] \in SweepPaths(l)', pc'[l] \in PreLock => todo'[l] = <<>>,
               seen'[l] \in {"unseen", "stale"},
               seen'[l] # "unseen" => Sweeping(l)' /\ todo'[l] # <<>>
        PROVE  SweepInv'
    BY <1>o DEF SweepPaths, Sweeping, AtStep
  <1>c. ASSUME NEW l \in Launches, Fail(l), UNCHANGED managed PROVE SweepInv'
    BY <1>c, <1>o, FailStarts DEF SweepPaths
  <1>d. ASSUME NEW l \in Launches, steps[l] # <<>>, NextStep(l), seen[l] = "unseen",
               UNCHANGED <<seen, managed>>
        PROVE  SweepInv'
    <2>1. todo'[l] \in SweepPaths(l)' /\ pc'[l] \notin PreLock
      BY <1>d, NextStepOrder DEF SweepPaths, RuntimeSocketCleanupFiles, PreLock
    <2>2. QED
      BY <1>d, <1>o, <2>1, NextStepOrder
  <1>e. ASSUME NEW l \in Launches, NEW q \in PCs, Goto(l, q), seen[l] = "unseen",
               q \in PreLock => todo[l] = <<>>, UNCHANGED <<steps, todo, seen, managed>>
        PROVE  SweepInv'
    BY <1>e, <1>o DEF Goto, TypeOK, SweepPaths
  <1>f. ASSUME NEW l \in Launches, pc[l] \in PCs \ {"sweep", "failing", "closing"}
        PROVE  seen[l] = "unseen"
    BY <1>f DEF StepsFollowPC, Sweeping, AtStep
  <1>g. ASSUME NEW l \in Launches, todo[l] # <<>>
        PROVE  Tail(todo[l]) \in SweepPaths(l)
    <2>1. /\ Tail(<<"qmp", "fs">>) = <<"fs">>
          /\ Tail(<<"qmp">>) = <<>> /\ Tail(<<"fs">>) = <<>>
      OBVIOUS
    <2>2. QED
      BY <1>g, <2>1 DEF SweepPaths
  <1>h. ASSUME NEW l \in Launches, Sweeping(l) PROVE pc[l] \notin PreLock
    BY <1>h, FirstSteps DEF Sweeping, AtStep, PreLock
  <1>1. ASSUME NEW l \in Launches, ResolveVirtioFSRuns(l) PROVE SweepInv'
    <2>1. todo[l] = <<>> /\ seen[l] = "unseen"
      BY <1>1, <1>f DEF ResolveVirtioFSRuns, PreLock, PCs
    <2>2. /\ \A m \in Launches : m # l => pc'[m] = pc[m] /\ managed'[m] = managed[m]
          /\ UNCHANGED <<steps, todo, seen>>
      BY <1>1 DEF ResolveVirtioFSRuns, Goto, TypeOK
    <2>3. QED
      BY <1>o, <2>1, <2>2 DEF SweepPaths
  <1>2. ASSUME NEW l \in Launches, AcquireRuntimeLock(l) PROVE SweepInv'
    BY <1>2, <1>e, <1>f DEF AcquireRuntimeLock, PreLock, Startup, Ended, PCs
  <1>3. ASSUME NEW l \in Launches, AcquireCID(l) PROVE SweepInv'
    BY <1>3, <1>e, <1>f DEF AcquireCID, PreLock, Startup, Ended, PCs
  <1>4. ASSUME NEW l \in Launches, EnsureDirectories(l) PROVE SweepInv'
    BY <1>4, <1>e, <1>f DEF EnsureDirectories, PreLock, Startup, Ended, PCs
  <1>5. ASSUME NEW l \in Launches, CheckExternal(l) PROVE SweepInv'
    <2>1. pc'[l] = "sweep" /\ seen[l] = "unseen" /\ todo'[l] = RuntimeSocketCleanupFiles(l)
      BY <1>5, <1>f DEF CheckExternal, Goto, TypeOK, PCs, Startup
    <2>2. /\ \A m \in Launches : m # l => pc'[m] = pc[m] /\ todo'[m] = todo[m]
          /\ UNCHANGED <<steps, seen, managed>>
      BY <1>5 DEF CheckExternal, Goto, TypeOK
    <2>3. QED
      BY <1>o, <2>1, <2>2 DEF SweepPaths, RuntimeSocketCleanupFiles, PreLock
  <1>6. ASSUME NEW l \in Launches, CheckSocketPath(l) PROVE SweepInv'
    <2>1. CASE pc[l] = "sweep" /\ Fail(l)
      BY <1>6, <1>c, <2>1 DEF CheckSocketPath
    <2>2. CASE pc[l] # "sweep" /\ NextStep(l) /\ UNCHANGED seen
      BY <1>6, <1>d, <2>2 DEF CheckSocketPath, Sweeping, AtStep
    <2>3. CASE todo' = [todo EXCEPT ![l] = Tail(todo[l])] /\ UNCHANGED <<pc, steps, seen>>
      BY <1>6, <1>g, <1>h, <1>o, <2>3 DEF CheckSocketPath, TypeOK, SweepPaths
    <2>4. CASE seen' = [seen EXCEPT ![l] = "stale"] /\ UNCHANGED <<pc, steps, todo>>
      BY <1>6, <1>o, <2>4 DEF CheckSocketPath, TypeOK, SweepPaths, Sweeping, AtStep
    <2>5. QED
      BY <1>6, <2>1, <2>2, <2>3, <2>4 DEF CheckSocketPath, ErrStaleSocket
  <1>7. ASSUME NEW l \in Launches, RemoveSocket(l) PROVE SweepInv'
    BY <1>7, <1>g, <1>h, <1>o DEF RemoveSocket, TypeOK, SweepPaths
  <1>8. ASSUME NEW l \in Launches, SweepDone(l) PROVE SweepInv'
    <2>1. CASE pc[l] = "sweep" /\ Goto(l, "volume") /\ UNCHANGED <<steps, todo>>
      BY <1>8, <1>e, <2>1 DEF SweepDone, PreLock, PCs, Startup
    <2>2. CASE pc[l] # "sweep" /\ NextStep(l)
      BY <1>8, <1>d, <2>2 DEF SweepDone, Sweeping, AtStep
    <2>3. QED
      BY <1>8, <2>1, <2>2 DEF SweepDone
  <1>9. ASSUME NEW l \in Launches, StatVolume(l) PROVE SweepInv'
    BY <1>9, <1>e, <1>f DEF StatVolume, PreLock, Startup, Ended, PCs
  <1>10. ASSUME NEW l \in Launches, CreatePrivateFile(l) PROVE SweepInv'
    BY <1>10, <1>e, <1>f DEF CreatePrivateFile, PreLock, Startup, Ended, PCs
  <1>11. ASSUME NEW l \in Launches, FormatVolume(l) PROVE SweepInv'
    BY <1>11, <1>c, <1>e, <1>f DEF FormatVolume, PreLock, Startup, PCs
  <1>12. ASSUME NEW l \in Launches, StartRun(l) PROVE SweepInv'
    BY <1>12, <1>b, <1>e, <1>f DEF StartRun, PreLock, Startup, PCs
  <1>13. ASSUME NEW l \in Launches, StartRunFails(l) PROVE SweepInv'
    BY <1>13, <1>c DEF StartRunFails
  <1>14. ASSUME NEW l \in Launches, WaitForSockets(l) PROVE SweepInv'
    BY <1>14, <1>e, <1>f DEF WaitForSockets, PreLock, Startup, Ended, PCs
  <1>15. ASSUME NEW l \in Launches, StartQEMU(l) PROVE SweepInv'
    BY <1>15, <1>e, <1>f DEF StartQEMU, PreLock, Startup, Ended, PCs
  <1>16. ASSUME NEW l \in Launches, WaitForQMP(l) PROVE SweepInv'
    BY <1>16, <1>e, <1>f DEF WaitForQMP, PreLock, Startup, Ended, PCs
  <1>17. ASSUME NEW l \in Launches, FinishStartup(l) PROVE SweepInv'
    BY <1>17, <1>e, <1>f DEF FinishStartup, PreLock, Startup, Ended, PCs
  <1>18. ASSUME NEW l \in Launches, StartupFails(l) PROVE SweepInv'
    BY <1>18, <1>c DEF StartupFails
  <1>19. ASSUME NEW l \in Launches, CloseRuntime(l) PROVE SweepInv'
    <2>1. seen[l] = "unseen" /\ pc'[l] = "closing"
      BY <1>19, <1>f DEF CloseRuntime, Goto, TypeOK, PCs
    <2>2. /\ \A m \in Launches : m # l => pc'[m] = pc[m] /\ steps'[m] = steps[m]
          /\ UNCHANGED <<todo, seen, managed>>
      BY <1>19 DEF CloseRuntime, Goto, TypeOK
    <2>3. QED
      BY <1>o, <2>1, <2>2 DEF SweepPaths, PreLock
  <1>20. ASSUME NEW l \in Launches, CloseProcesses(l) PROVE SweepInv'
    <2>1. steps[l] # <<>> /\ ~Sweeping(l)
      BY <1>20, FirstSteps DEF CloseProcesses, Sweeping, AtStep
    <2>2. QED
      BY <1>20, <1>d, <2>1 DEF CloseProcesses
  <1>21. ASSUME NEW l \in Launches, CleanupRuntimeLock(l) PROVE SweepInv'
    <2>1. steps[l] # <<>> /\ ~Sweeping(l)
      BY <1>21, FirstSteps DEF CleanupRuntimeLock, Sweeping, AtStep
    <2>2. QED
      BY <1>21, <1>d, <2>1 DEF CleanupRuntimeLock
  <1>22. ASSUME NEW l \in Launches, DaemonBinds(l) PROVE SweepInv'
    BY <1>22, <1>b DEF DaemonBinds, launchVars
  <1>23. ASSUME NEW l \in Launches, QEMUConnects(l) PROVE SweepInv'
    BY <1>23, <1>b DEF QEMUConnects, launchVars
  <1>24. ASSUME NEW l \in Launches, Crash(l) PROVE SweepInv'
    <2>1. pc'[l] = "crashed" /\ todo'[l] = <<>> /\ seen'[l] = "unseen"
      BY <1>24 DEF Crash, Goto, TypeOK
    <2>2. /\ \A m \in Launches : m # l =>
               /\ pc'[m] = pc[m] /\ steps'[m] = steps[m]
               /\ todo'[m] = todo[m] /\ seen'[m] = seen[m]
          /\ UNCHANGED managed
      BY <1>24 DEF Crash, Goto, TypeOK
    <2>3. QED
      BY <1>o, <2>1, <2>2 DEF SweepPaths
  <1>25. ASSUME NEW l \in Launches, NEW k \in Kinds, ProcessExits(l, k) PROVE SweepInv'
    BY <1>25, <1>b DEF ProcessExits, launchVars
  <1>26. CASE OutsideExits
    BY <1>26, <1>b DEF OutsideExits, launchVars
  <1>27. CASE UNCHANGED vars
    BY <1>27, <1>b DEF vars, launchVars, hostVars
  <1>28. QED
    BY <1>1, <1>2, <1>3, <1>4, <1>5, <1>6, <1>7, <1>8, <1>9, <1>10, <1>11,
       <1>12, <1>13, <1>14, <1>15, <1>16, <1>17, <1>18, <1>19, <1>20, <1>21,
       <1>22, <1>23, <1>24, <1>25, <1>26, <1>27
       DEF Next

\* An unfinished image is seen only by the launch that formats it.
LEMMA ImageInvStep == TypeOK /\ ResourceInv /\ [Next]_vars => ImageInv'
  <1> SUFFICES ASSUME TypeOK, ResourceInv, [Next]_vars
               PROVE  ImageInv'
    OBVIOUS
  <1> USE DEF ResourceInv, ImageInv
  <1>b. ASSUME UNCHANGED <<pc, image, proc>> PROVE ImageInv'
    BY <1>b DEF Started
  <1>e. ASSUME NEW l \in Launches, NEW q \in PCs \ {"format"}, pc[l] # "format",
               pc' = [pc EXCEPT ![l] = q], UNCHANGED image,
               q \in LateStartup => image \in {"formatted", "torn"},
               \A m \in Launches :
                 Started(m)' # {} => Started(m) # {} \/ image \in {"formatted", "torn"}
        PROVE  ImageInv'
    BY <1>e DEF TypeOK
  <1>c. ASSUME NEW l \in Launches, Fail(l), pc[l] # "format", UNCHANGED image,
               \A m \in Launches : Started(m)' \subseteq Started(m)
        PROVE  ImageInv'
    BY <1>c, <1>e, FailStarts DEF PCs, LateStartup
  <1>d. ASSUME NEW l \in Launches, steps[l] # <<>>, NextStep(l), UNCHANGED image,
               \A m \in Launches : Started(m)' \subseteq Started(m)
        PROVE  ImageInv'
    <2>1. /\ pc[l] # "format" /\ pc' = [pc EXCEPT ![l] = pc'[l]]
          /\ pc'[l] \in {"failing", "closing", "returned"}
      BY <1>d, NextStepOrder
    <2>2. pc'[l] \in PCs \ {"format"} /\ pc'[l] \notin LateStartup
      BY <2>1 DEF PCs, Ended, LateStartup
    <2> DEFINE q == pc'[l]
    <2>3. pc' = [pc EXCEPT ![l] = q] /\ q \in PCs \ {"format"} /\ q \notin LateStartup
      BY <2>1, <2>2
    <2> HIDE DEF q
    <2>4. QED
      BY <1>d, <1>e, <2>1, <2>3
  <1>g. ASSUME NEW l \in Launches, NEW m \in Launches, pc[l] \in Startup, pc[m] \in Startup
        PROVE  l = m
    BY <1>g DEF LockHeld, Owns
  <1>h. ASSUME UNCHANGED proc PROVE \A m \in Launches : Started(m)' = Started(m)
    BY <1>h DEF Started
  <1>1. ASSUME NEW l \in Launches, ResolveVirtioFSRuns(l) PROVE ImageInv'
    BY <1>1, <1>e, <1>h DEF ResolveVirtioFSRuns, Goto, TypeOK, LateStartup, PreLock, Startup, Ended, PCs, hostVars
  <1>2. ASSUME NEW l \in Launches, AcquireRuntimeLock(l) PROVE ImageInv'
    BY <1>2, <1>e, <1>h DEF AcquireRuntimeLock, Goto, TypeOK, LateStartup, PreLock, Startup, Ended, PCs, hostVars
  <1>3. ASSUME NEW l \in Launches, AcquireCID(l) PROVE ImageInv'
    BY <1>3, <1>e, <1>h DEF AcquireCID, Goto, TypeOK, LateStartup, PreLock, Startup, Ended, PCs, hostVars
  <1>4. ASSUME NEW l \in Launches, EnsureDirectories(l) PROVE ImageInv'
    BY <1>4, <1>e, <1>h DEF EnsureDirectories, Goto, TypeOK, LateStartup, PreLock, Startup, Ended, PCs, hostVars
  <1>5. ASSUME NEW l \in Launches, CheckExternal(l) PROVE ImageInv'
    BY <1>5, <1>e, <1>h DEF CheckExternal, Goto, TypeOK, LateStartup, PreLock, Startup, Ended, PCs, hostVars
  <1>6. ASSUME NEW l \in Launches, CheckSocketPath(l) PROVE ImageInv'
    <2>1. CASE pc[l] = "sweep" /\ Fail(l)
      BY <1>6, <1>c, <1>h, <2>1 DEF CheckSocketPath, hostVars
    <2>2. CASE steps[l] # <<>> /\ NextStep(l)
      BY <1>6, <1>d, <1>h, <2>2 DEF CheckSocketPath, hostVars
    <2>3. CASE UNCHANGED <<pc, steps>>
      BY <1>6, <1>b, <2>3 DEF CheckSocketPath, hostVars
    <2>4. QED
      BY <1>6, <2>1, <2>2, <2>3 DEF CheckSocketPath, Sweeping, AtStep
  <1>7. ASSUME NEW l \in Launches, RemoveSocket(l) PROVE ImageInv'
    BY <1>7, <1>b DEF RemoveSocket
  <1>8. ASSUME NEW l \in Launches, SweepDone(l) PROVE ImageInv'
    <2>1. CASE pc[l] = "sweep" /\ Goto(l, "volume")
      BY <1>8, <1>e, <1>h, <2>1 DEF SweepDone, Goto, LateStartup, Startup, PCs, hostVars
    <2>2. CASE steps[l] # <<>> /\ NextStep(l)
      BY <1>8, <1>d, <1>h, <2>2 DEF SweepDone, hostVars
    <2>3. QED
      BY <1>8, <2>1, <2>2 DEF SweepDone, Sweeping, AtStep
  <1>9. ASSUME NEW l \in Launches, StatVolume(l) PROVE ImageInv'
    <2>1. image # "raw"
      BY <1>9, <1>g DEF StatVolume, Startup
    <2>2. QED
      BY <1>9, <1>e, <1>h, <2>1 DEF StatVolume, Goto, TypeOK, Startup, PCs, hostVars
  <1>10. ASSUME NEW l \in Launches, CreatePrivateFile(l) PROVE ImageInv'
    <2>1. pc'[l] = "format" /\ \A m \in Launches : m # l => pc'[m] = pc[m]
      BY <1>10 DEF CreatePrivateFile, Goto, TypeOK
    <2>2. \A m \in Launches : pc[m] \notin LateStartup /\ Started(m)' = {}
      BY <1>10, <1>h DEF CreatePrivateFile
    <2>3. QED
      BY <1>10, <2>1, <2>2 DEF CreatePrivateFile, LateStartup
  <1>11. ASSUME NEW l \in Launches, FormatVolume(l) PROVE ImageInv'
    <2>1. \A m \in Launches : /\ pc[m] = "format" => m = l
                              /\ pc[m] \notin LateStartup /\ Started(m)' = {}
      BY <1>11, <1>g, <1>h DEF FormatVolume, Startup
    <2>2. CASE image' = "formatted" /\ Goto(l, "runs")
      BY <2>1, <2>2 DEF Goto, TypeOK
    <2>3. CASE image' = RemovesImage /\ Fail(l)
      <3>1. pc'[l] = "failing" /\ \A m \in Launches : m # l => pc'[m] = pc[m]
        BY <2>3, FailStarts
      <3>2. QED
        BY <2>1, <2>3, <3>1 DEF RemovesImage, LateStartup
    <2>4. QED
      BY <1>11, <2>2, <2>3 DEF FormatVolume
  <1>12. ASSUME NEW l \in Launches, StartRun(l) PROVE ImageInv'
    <2>1. image \in {"formatted", "torn"} /\ pc[l] = "runs" /\ UNCHANGED image
      BY <1>12 DEF StartRun, LateStartup
    <2>2. CASE Goto(l, "waitfs")
      BY <1>e, <2>1, <2>2 DEF Goto, Startup, PCs
    <2>3. CASE UNCHANGED pc
      BY <2>1, <2>3
    <2>4. QED
      BY <1>12, <2>2, <2>3, StartRunEffect
  <1>13. ASSUME NEW l \in Launches, StartRunFails(l) PROVE ImageInv'
    <2>1. \A m \in Launches : Started(m)' \subseteq Started(m)
      BY <1>13, StopEffect DEF StartRunFails, StopAllStarted, TypeOK
    <2>2. QED
      BY <1>13, <1>c, <2>1 DEF StartRunFails
  <1>14. ASSUME NEW l \in Launches, WaitForSockets(l) PROVE ImageInv'
    BY <1>14, <1>e, <1>h DEF WaitForSockets, Goto, TypeOK, LateStartup, PreLock, Startup, Ended, PCs, hostVars
  <1>15. ASSUME NEW l \in Launches, StartQEMU(l) PROVE ImageInv'
    <2>1. image \in {"formatted", "torn"} /\ pc[l] = "boot" /\ UNCHANGED image
      BY <1>15 DEF StartQEMU, LateStartup
    <2>2. QED
      BY <1>15, <1>e, <2>1 DEF StartQEMU, Goto, Startup, PCs
  <1>16. ASSUME NEW l \in Launches, WaitForQMP(l) PROVE ImageInv'
    BY <1>16, <1>e, <1>h DEF WaitForQMP, Goto, TypeOK, LateStartup, PreLock, Startup, Ended, PCs, hostVars
  <1>17. ASSUME NEW l \in Launches, FinishStartup(l) PROVE ImageInv'
    BY <1>17, <1>e, <1>h DEF FinishStartup, Goto, TypeOK, LateStartup, PreLock, Startup, Ended, PCs, hostVars
  <1>18. ASSUME NEW l \in Launches, StartupFails(l) PROVE ImageInv'
    BY <1>18, <1>c, <1>h DEF StartupFails, hostVars
  <1>19. ASSUME NEW l \in Launches, CloseRuntime(l) PROVE ImageInv'
    BY <1>19, <1>e, <1>h DEF CloseRuntime, Goto, LateStartup, PCs, hostVars
  <1>20. ASSUME NEW l \in Launches, CloseProcesses(l) PROVE ImageInv'
    <2>1. \A m \in Launches : Started(m)' \subseteq Started(m)
      BY <1>20, StopEffect DEF CloseProcesses, TypeOK
    <2>2. QED
      BY <1>20, <1>d, <2>1 DEF CloseProcesses, AtStep
  <1>21. ASSUME NEW l \in Launches, CleanupRuntimeLock(l) PROVE ImageInv'
    BY <1>21, <1>d, <1>h DEF CleanupRuntimeLock, AtStep
  <1>22. ASSUME NEW l \in Launches, DaemonBinds(l) PROVE ImageInv'
    <2>1. \A m \in Launches : Started(m)' = Started(m)
      BY <1>22 DEF DaemonBinds, TypeOK, Started, Kinds
    <2>2. QED
      BY <1>22, <2>1 DEF DaemonBinds, launchVars
  <1>23. ASSUME NEW l \in Launches, QEMUConnects(l) PROVE ImageInv'
    <2>1. \A m \in Launches : Started(m)' = Started(m)
      BY <1>23 DEF QEMUConnects, TypeOK, Started, Kinds
    <2>2. QED
      BY <1>23, <2>1 DEF QEMUConnects, launchVars
  <1>24. ASSUME NEW l \in Launches, Crash(l) PROVE ImageInv'
    <2>1. pc'[l] = "crashed" /\ \A m \in Launches : m # l => pc'[m] = pc[m]
      BY <1>24 DEF Crash, Goto, TypeOK
    <2>2. \A m \in Launches : Started(m)' = Started(m)
      BY <1>24, <1>h DEF Crash
    <2>3. CASE pc[l] = "format"
      BY <1>24, <1>g, <2>1, <2>2, <2>3 DEF Crash, Startup
    <2>4. CASE pc[l] # "format"
      BY <1>24, <2>1, <2>2, <2>4 DEF Crash, LateStartup
    <2>5. QED
      BY <2>3, <2>4
  <1>25. ASSUME NEW l \in Launches, NEW k \in Kinds, ProcessExits(l, k) PROVE ImageInv'
    <2>1. \A m \in Launches : Started(m)' \subseteq Started(m)
      BY <1>25 DEF ProcessExits, TypeOK, Started
    <2>2. QED
      BY <1>25, <2>1 DEF ProcessExits, launchVars
  <1>26. CASE OutsideExits
    BY <1>26, <1>b DEF OutsideExits, launchVars
  <1>27. CASE UNCHANGED vars
    BY <1>27, <1>b DEF vars, launchVars, hostVars
  <1>28. QED
    BY <1>1, <1>2, <1>3, <1>4, <1>5, <1>6, <1>7, <1>8, <1>9, <1>10, <1>11,
       <1>12, <1>13, <1>14, <1>15, <1>16, <1>17, <1>18, <1>19, <1>20, <1>21,
       <1>22, <1>23, <1>24, <1>25, <1>26, <1>27
       DEF Next

\* Whatever a launch connects to while it has the lock is its own, or a stray's.
LEMMA ConnectionsStep == TypeOK /\ ResourceInv /\ [Next]_vars => Connections'
  <1> SUFFICES ASSUME TypeOK, ResourceInv, [Next]_vars
               PROVE  Connections'
    OBVIOUS
  <1> USE ResourcesAssumption DEF ResourceInv, Connections, Servers
  <1>b. ASSUME UNCHANGED <<managed, share, monitor>>,
               \A m \in Launches : \A k \in Kinds :
                 unstopped[m][k] # "no" => unstopped'[m][k] # "no",
               \A m \in Launches : pc'[m] = "crashed" <=> pc[m] = "crashed",
               \A m \in Launches : proc'[m]["qemu"] = "up" => proc[m]["qemu"] = "up"
        PROVE  Connections'
    BY <1>b DEF OwnOrStray, Stray, Kinds
  <1>c. ASSUME NEW l \in Launches, Fail(l), pc[l] # "crashed"
        PROVE  \A m \in Launches : pc'[m] = "crashed" <=> pc[m] = "crashed"
    BY <1>c, FailStarts
  <1>d. ASSUME NEW l \in Launches, steps[l] # <<>>, NextStep(l)
        PROVE  \A m \in Launches : pc'[m] = "crashed" <=> pc[m] = "crashed"
    BY <1>d, NextStepOrder
  <1>e. ASSUME NEW l \in Launches, NEW q \in PCs \ {"crashed"}, pc[l] # "crashed", Goto(l, q)
        PROVE  \A m \in Launches : pc'[m] = "crashed" <=> pc[m] = "crashed"
    BY <1>e DEF Goto, TypeOK
  <1>1. ASSUME NEW l \in Launches, ResolveVirtioFSRuns(l) PROVE Connections'
    <2>1. ~MayRun(l) /\ pc[l] # "crashed"
      BY <1>1 DEF ResolveVirtioFSRuns, MayRun, LateStartup, StepsFollowPC
    <2>2. proc[l]["qemu"] = "up" => unstopped[l]["qemu"] # "no"
      BY <2>1 DEF ProcessesKnown, Started, Unstopped, Kinds
    <2>3. \A m \in Launches : pc'[m] = "crashed" <=> pc[m] = "crashed"
      BY <1>1, <1>e DEF ResolveVirtioFSRuns, PCs, PreLock, Ended
    <2>4. \A m \in Launches : m # l => managed'[m] = managed[m]
      BY <1>1 DEF ResolveVirtioFSRuns, TypeOK
    <2>5. QED
      BY <1>1, <2>2, <2>3, <2>4 DEF ResolveVirtioFSRuns, OwnOrStray, Stray, hostVars
  <1>2. ASSUME NEW l \in Launches, AcquireRuntimeLock(l) PROVE Connections'
    BY <1>2, <1>b, <1>e DEF AcquireRuntimeLock, PreLock, Startup, Ended, PCs, hostVars
  <1>3. ASSUME NEW l \in Launches, AcquireCID(l) PROVE Connections'
    BY <1>3, <1>b, <1>e DEF AcquireCID, PreLock, Startup, Ended, PCs, hostVars
  <1>4. ASSUME NEW l \in Launches, EnsureDirectories(l) PROVE Connections'
    BY <1>4, <1>b, <1>e DEF EnsureDirectories, PreLock, Startup, Ended, PCs, hostVars
  <1>5. ASSUME NEW l \in Launches, CheckExternal(l) PROVE Connections'
    BY <1>5, <1>b, <1>e DEF CheckExternal, PreLock, Startup, Ended, PCs, hostVars
  <1>6. ASSUME NEW l \in Launches, CheckSocketPath(l) PROVE Connections'
    <2>1. CASE pc[l] = "sweep" /\ Fail(l)
      BY <1>6, <1>b, <1>c, <2>1 DEF CheckSocketPath, hostVars
    <2>2. CASE steps[l] # <<>> /\ NextStep(l)
      BY <1>6, <1>b, <1>d, <2>2 DEF CheckSocketPath, hostVars
    <2>3. CASE UNCHANGED <<pc, steps>>
      BY <1>6, <1>b, <2>3 DEF CheckSocketPath, hostVars
    <2>4. QED
      BY <1>6, <2>1, <2>2, <2>3 DEF CheckSocketPath, Sweeping, AtStep
  <1>7. ASSUME NEW l \in Launches, RemoveSocket(l) PROVE Connections'
    BY <1>7, <1>b DEF RemoveSocket
  <1>8. ASSUME NEW l \in Launches, SweepDone(l) PROVE Connections'
    <2>1. CASE pc[l] = "sweep" /\ Goto(l, "volume")
      BY <1>8, <1>b, <1>e, <2>1 DEF SweepDone, Startup, PCs, hostVars
    <2>2. CASE steps[l] # <<>> /\ NextStep(l)
      BY <1>8, <1>b, <1>d, <2>2 DEF SweepDone, hostVars
    <2>3. QED
      BY <1>8, <2>1, <2>2 DEF SweepDone, Sweeping, AtStep
  <1>9. ASSUME NEW l \in Launches, StatVolume(l) PROVE Connections'
    BY <1>9, <1>b, <1>e DEF StatVolume, PreLock, Startup, Ended, PCs, hostVars
  <1>10. ASSUME NEW l \in Launches, CreatePrivateFile(l) PROVE Connections'
    BY <1>10, <1>b, <1>e DEF CreatePrivateFile, PreLock, Startup, Ended, PCs, hostVars
  <1>11. ASSUME NEW l \in Launches, FormatVolume(l) PROVE Connections'
    BY <1>11, <1>b, <1>c, <1>e DEF FormatVolume, Startup, PCs
  <1>12. ASSUME NEW l \in Launches, StartRun(l) PROVE Connections'
    <2>1. \A m \in Launches : proc'[m]["qemu"] = "up" => proc[m]["qemu"] = "up"
      <3>1. CASE UNCHANGED proc
        BY <3>1
      <3>2. ASSUME NEW k \in Kinds \ {"qemu"}, NEW v \in {"starting", "up"},
                   proc' = [proc EXCEPT ![l][k] = v]
            PROVE  \A m \in Launches : proc'[m]["qemu"] = "up" => proc[m]["qemu"] = "up"
        BY <3>2 DEF TypeOK, Kinds
      <3>3. UNCHANGED proc \/ \E k \in Kinds \ {"qemu"}, v \in {"starting", "up"} :
                                proc' = [proc EXCEPT ![l][k] = v]
        BY <1>12, StartRunEffect
      <3>4. QED
        BY <3>1, <3>2, <3>3
    <2>2. \A m \in Launches : pc'[m] = "crashed" <=> pc[m] = "crashed"
      BY <1>12, <1>e DEF StartRun, Startup, PCs
    <2>3. QED
      BY <1>12, <1>b, <2>1, <2>2 DEF StartRun
  <1>13. ASSUME NEW l \in Launches, StartRunFails(l) PROVE Connections'
    <2>1. \A m \in Launches : proc'[m]["qemu"] = "up" => proc[m]["qemu"] = "up"
      BY <1>13, StopEffect DEF StartRunFails, StopAllStarted, TypeOK, Kinds
    <2>2. \A m \in Launches : \A k \in Kinds :
            unstopped[m][k] # "no" => unstopped'[m][k] # "no"
      BY <1>13, StopEffect DEF StartRunFails, StopAllStarted, TypeOK
    <2>3. QED
      BY <1>13, <1>b, <1>c, <2>1, <2>2 DEF StartRunFails
  <1>14. ASSUME NEW l \in Launches, WaitForSockets(l) PROVE Connections'
    BY <1>14, <1>b, <1>e DEF WaitForSockets, PreLock, Startup, Ended, PCs, hostVars
  <1>15. ASSUME NEW l \in Launches, StartQEMU(l) PROVE Connections'
    <2>1. \A m \in Launches : proc'[m]["qemu"] = "up" => proc[m]["qemu"] = "up"
      BY <1>15 DEF StartQEMU, TypeOK, Kinds
    <2>2. QED
      BY <1>15, <1>b, <1>e, <2>1 DEF StartQEMU, Startup, PCs
  <1>16. ASSUME NEW l \in Launches, WaitForQMP(l) PROVE Connections'
    <2>1. sock["qmp"] \in Launches /\ "qemu" \in Started(sock["qmp"])
      BY <1>16 DEF WaitForQMP, SocketsOwned, Paths, Serves
    <2>2. ~Stray(sock["qmp"], "qemu") => holder = sock["qmp"]
      BY <2>1, OnlyHolderRuns
    <2>3. holder = l /\ pc[l] # "crashed"
      BY <1>16 DEF WaitForQMP, LockHeld, Owns, Startup
    <2>4. OwnOrStray(l, sock["qmp"], "qemu")
      BY <2>1, <2>2, <2>3 DEF OwnOrStray
    <2>5. \A m \in Launches : pc'[m] = "crashed" <=> pc[m] = "crashed"
      BY <1>16, <1>e DEF WaitForQMP, Startup, PCs
    <2>6. \A m \in Launches : monitor'[m] = IF m = l THEN sock["qmp"] ELSE monitor[m]
      BY <1>16 DEF WaitForQMP, TypeOK
    <2>7. QED
      BY <1>16, <2>4, <2>5, <2>6 DEF WaitForQMP, OwnOrStray, Stray
  <1>17. ASSUME NEW l \in Launches, FinishStartup(l) PROVE Connections'
    BY <1>17, <1>b, <1>e DEF FinishStartup, PreLock, Startup, Ended, PCs, hostVars
  <1>18. ASSUME NEW l \in Launches, StartupFails(l) PROVE Connections'
    BY <1>18, <1>b, <1>c DEF StartupFails, Startup, hostVars
  <1>19. ASSUME NEW l \in Launches, CloseRuntime(l) PROVE Connections'
    BY <1>19, <1>b, <1>e DEF CloseRuntime, PreLock, Startup, Ended, PCs, hostVars
  <1>20. ASSUME NEW l \in Launches, CloseProcesses(l) PROVE Connections'
    <2>1. \A m \in Launches : proc'[m]["qemu"] = "up" => proc[m]["qemu"] = "up"
      BY <1>20, StopEffect DEF CloseProcesses, TypeOK, Kinds
    <2>2. \A m \in Launches : \A k \in Kinds :
            unstopped[m][k] # "no" => unstopped'[m][k] # "no"
      BY <1>20, StopEffect DEF CloseProcesses, TypeOK
    <2>3. QED
      BY <1>20, <1>b, <1>d, <2>1, <2>2 DEF CloseProcesses, AtStep
  <1>21. ASSUME NEW l \in Launches, CleanupRuntimeLock(l) PROVE Connections'
    BY <1>21, <1>b, <1>d DEF CleanupRuntimeLock, AtStep
  <1>22. ASSUME NEW l \in Launches, DaemonBinds(l) PROVE Connections'
    <2>1. \A m \in Launches : proc'[m]["qemu"] = "up" => proc[m]["qemu"] = "up"
      BY <1>22 DEF DaemonBinds, TypeOK, Kinds
    <2>2. QED
      BY <1>22, <1>b, <2>1 DEF DaemonBinds, launchVars
  <1>23. ASSUME NEW l \in Launches, QEMUConnects(l) PROVE Connections'
    <2>1. ASSUME managed[l], ~Stray(l, "qemu")
          PROVE  OwnOrStray(l, sock["fs"], "daemon")
      <3>1. sock["fs"] \in Launches /\ "daemon" \in Started(sock["fs"])
        BY <1>23, <2>1 DEF QEMUConnects, SocketsOwned, Paths, Serves
      <3>2. ~Stray(sock["fs"], "daemon") => holder = sock["fs"]
        BY <3>1, OnlyHolderRuns
      <3>3. "qemu" \in Started(l)
        BY <1>23 DEF QEMUConnects, Started, Kinds
      <3>4. holder = l
        BY <2>1, <3>3, OnlyHolderRuns
      <3>5. QED
        BY <3>1, <3>2, <3>4 DEF OwnOrStray
    <2>2. \A m \in Launches : m # l => /\ share'[m] = share[m]
                                       /\ proc'[m]["qemu"] = proc[m]["qemu"]
      BY <1>23 DEF QEMUConnects, TypeOK, Kinds
    <2>3. share'[l] = sock["fs"]
      BY <1>23 DEF QEMUConnects, TypeOK
    <2>4. QED
      BY <1>23, <2>1, <2>2, <2>3 DEF QEMUConnects, OwnOrStray, Stray, launchVars
  <1>24. ASSUME NEW l \in Launches, Crash(l) PROVE Connections'
    BY <1>24 DEF Crash, Goto, TypeOK, OwnOrStray, Stray
  <1>25. ASSUME NEW l \in Launches, NEW k \in Kinds, ProcessExits(l, k) PROVE Connections'
    <2>1. \A m \in Launches : proc'[m]["qemu"] = "up" => proc[m]["qemu"] = "up"
      BY <1>25 DEF ProcessExits, TypeOK, Kinds
    <2>2. QED
      BY <1>25, <1>b, <2>1 DEF ProcessExits, launchVars
  <1>26. CASE OutsideExits
    BY <1>26, <1>b DEF OutsideExits, launchVars
  <1>27. CASE UNCHANGED vars
    BY <1>27, <1>b DEF vars, launchVars, hostVars
  <1>28. QED
    BY <1>1, <1>2, <1>3, <1>4, <1>5, <1>6, <1>7, <1>8, <1>9, <1>10, <1>11,
       <1>12, <1>13, <1>14, <1>15, <1>16, <1>17, <1>18, <1>19, <1>20, <1>21,
       <1>22, <1>23, <1>24, <1>25, <1>26, <1>27
       DEF Next

\* Every step keeps the types.
LEMMA ResourcesTypeStep == TypeOK /\ ResourceInv /\ [Next]_vars => TypeOK'
  <1> SUFFICES ASSUME TypeOK, ResourceInv, [Next]_vars
               PROVE  TypeOK'
    OBVIOUS
  <1> USE ResourcesAssumption DEF ResourceInv
  <1>b. ASSUME UNCHANGED vars PROVE TypeOK'
    BY <1>b DEF TypeOK, vars, launchVars, hostVars
  <1>c. ASSUME NEW l \in Launches, Fail(l)
        PROVE  /\ pc' \in [Launches -> PCs]
               /\ steps' \in [Launches -> Seq({"stop", "unlock", "sweep"})]
               /\ todo' \in [Launches -> Seq(Paths)]
               /\ seen' \in [Launches -> PathStates \cup {"unseen"}]
    <2>1. FailedStartup(l) \in Seq({"stop", "unlock", "sweep"})
      <3>1. /\ <<"stop", "unlock">> \in Seq({"stop", "unlock", "sweep"})
            /\ <<"stop", "unlock", "sweep">> \in Seq({"stop", "unlock", "sweep"})
        OBVIOUS
      <3>2. QED
        BY <3>1, FailedStartupSteps
    <2>2. QED
      BY <1>c, <2>1 DEF TypeOK, Fail, Goto, PCs
  <1>p. \A l \in Launches : RuntimeSocketCleanupFiles(l) \in Seq(Paths)
    <2>1. <<"qmp">> \in Seq(Paths) /\ <<"qmp", "fs">> \in Seq(Paths)
      BY DEF Paths
    <2>2. QED
      BY <2>1 DEF RuntimeSocketCleanupFiles
  <1>d. ASSUME NEW l \in Launches, steps[l] # <<>>, NextStep(l)
        PROVE  /\ pc' \in [Launches -> PCs]
               /\ steps' \in [Launches -> Seq({"stop", "unlock", "sweep"})]
               /\ todo' \in [Launches -> Seq(Paths)]
    <2>1. Tail(steps[l]) \in Seq({"stop", "unlock", "sweep"})
      BY <1>d DEF TypeOK
    <2>2. RuntimeSocketCleanupFiles(l) \in Seq(Paths) /\ <<>> \in Seq(Paths)
      BY <1>p
    <2>3. QED
      BY <1>d, <2>1, <2>2 DEF TypeOK, NextStep, Goto, PCs, Ended
  <1>e. ASSUME NEW l \in Launches, NEW q \in PCs, Goto(l, q)
        PROVE  pc' \in [Launches -> PCs]
    BY <1>e DEF TypeOK, Goto
  <1>v. ASSUME NEW l \in Launches, NEW ks, NEW left \in {"none", "stale"},
               sock' = Vacated(l, ks, left)
        PROVE  sock' \in [Paths -> PathStates]
    BY <1>v DEF TypeOK, Vacated, PathStates
  <1>t. ASSUME NEW l \in Launches, todo[l] # <<>>, todo' = [todo EXCEPT ![l] = Tail(todo[l])]
        PROVE  todo' \in [Launches -> Seq(Paths)]
    BY <1>t DEF TypeOK
  <1>s. ASSUME NEW l \in Launches, NEW err \in {"reported", "dropped"},
               Stop(l, group[l], err)
        PROVE  /\ group' \in [Launches -> SUBSET Kinds]
               /\ proc' \in [Launches -> [Kinds -> {"none", "starting", "up"}]]
               /\ unstopped' \in [Launches -> [Kinds -> {"no", "reported", "dropped"}]]
               /\ sock' \in [Paths -> PathStates]
    <2>1. group[l] \in SUBSET Kinds
      BY DEF TypeOK
    <2>2. PICK gone \in SUBSET Kinds, left \in {"none", "stale"} :
            /\ proc' = [proc EXCEPT ![l] =
                 [k \in Kinds |-> IF k \in gone THEN "none" ELSE @[k]]]
            /\ sock' = Vacated(l, gone, left)
      BY <1>s, <2>1, StopEffect
    <2>3. /\ group' = [group EXCEPT ![l] = {}]
          /\ unstopped' \in [Launches -> [Kinds -> {"no", "reported", "dropped"}]]
      BY <1>s, <2>1, StopEffect
    <2>4. sock' \in [Paths -> PathStates]
      BY <1>v, <2>2
    <2>5. proc' \in [Launches -> [Kinds -> {"none", "starting", "up"}]]
      BY <2>2 DEF TypeOK
    <2>6. QED
      BY <2>3, <2>4, <2>5 DEF TypeOK
  <1>1. ASSUME NEW l \in Launches, ResolveVirtioFSRuns(l) PROVE TypeOK'
    <2>1. managed' \in [Launches -> BOOLEAN]
      BY <1>1, Zenon DEF ResolveVirtioFSRuns, TypeOK
    <2>2. pc' \in [Launches -> PCs]
      BY <1>1, <1>e DEF ResolveVirtioFSRuns, PCs, PreLock, Ended
    <2>3. QED
      BY <1>1, <2>1, <2>2 DEF ResolveVirtioFSRuns, TypeOK, hostVars
  <1>2. ASSUME NEW l \in Launches, AcquireRuntimeLock(l) PROVE TypeOK'
    BY <1>2, <1>e DEF AcquireRuntimeLock, TypeOK, PCs, PreLock, Startup, Ended
  <1>3. ASSUME NEW l \in Launches, AcquireCID(l) PROVE TypeOK'
    BY <1>3, <1>e DEF AcquireCID, TypeOK, PreLock, Startup, Ended, PCs, hostVars
  <1>4. ASSUME NEW l \in Launches, EnsureDirectories(l) PROVE TypeOK'
    BY <1>4, <1>e DEF EnsureDirectories, TypeOK, PreLock, Startup, Ended, PCs, hostVars
  <1>5. ASSUME NEW l \in Launches, CheckExternal(l) PROVE TypeOK'
    <2>1. todo' \in [Launches -> Seq(Paths)]
      BY <1>5, <1>p DEF CheckExternal, TypeOK
    <2>2. QED
      BY <1>5, <1>e, <2>1 DEF CheckExternal, TypeOK, PCs, Startup, hostVars
  <1>6. ASSUME NEW l \in Launches, CheckSocketPath(l) PROVE TypeOK'
    <2>1. CASE pc[l] = "sweep" /\ Fail(l)
      BY <1>6, <1>c, <2>1 DEF CheckSocketPath, TypeOK, hostVars
    <2>2. CASE steps[l] # <<>> /\ NextStep(l) /\ UNCHANGED seen
      BY <1>6, <1>d, <2>2 DEF CheckSocketPath, TypeOK, hostVars
    <2>3. CASE todo' = [todo EXCEPT ![l] = Tail(todo[l])] /\ UNCHANGED <<pc, steps, seen>>
      BY <1>6, <1>t, <2>3 DEF CheckSocketPath, TypeOK, hostVars
    <2>4. CASE seen' = [seen EXCEPT ![l] = "stale"] /\ UNCHANGED <<pc, steps, todo>>
      BY <1>6, <2>4 DEF CheckSocketPath, TypeOK, PathStates, hostVars
    <2>5. QED
      BY <1>6, <2>1, <2>2, <2>3, <2>4 DEF CheckSocketPath, ErrStaleSocket, Sweeping, AtStep
  <1>7. ASSUME NEW l \in Launches, RemoveSocket(l) PROVE TypeOK'
    <2>1. todo[l] # <<>>
      BY <1>7 DEF RemoveSocket, SweepInv
    <2>2. QED
      BY <1>7, <1>t, <2>1 DEF RemoveSocket, TypeOK, PathStates
  <1>8. ASSUME NEW l \in Launches, SweepDone(l) PROVE TypeOK'
    <2>1. CASE pc[l] = "sweep" /\ Goto(l, "volume") /\ UNCHANGED <<steps, todo>>
      BY <1>8, <1>e, <2>1 DEF SweepDone, TypeOK, PCs, Startup, hostVars
    <2>2. CASE steps[l] # <<>> /\ NextStep(l)
      BY <1>8, <1>d, <2>2 DEF SweepDone, TypeOK, hostVars
    <2>3. QED
      BY <1>8, <2>1, <2>2 DEF SweepDone, Sweeping, AtStep
  <1>9. ASSUME NEW l \in Launches, StatVolume(l) PROVE TypeOK'
    BY <1>9, <1>e DEF StatVolume, TypeOK, PreLock, Startup, Ended, PCs, hostVars
  <1>10. ASSUME NEW l \in Launches, CreatePrivateFile(l) PROVE TypeOK'
    BY <1>10, <1>e DEF CreatePrivateFile, TypeOK, PreLock, Startup, Ended, PCs, hostVars
  <1>11. ASSUME NEW l \in Launches, FormatVolume(l) PROVE TypeOK'
    <2>1. CASE image' = RemovesImage /\ Fail(l) /\ UNCHANGED reached
      BY <1>11, <1>c, <2>1 DEF FormatVolume, RemovesImage, TypeOK
    <2>2. CASE image' = "formatted" /\ Goto(l, "runs") /\ UNCHANGED <<steps, todo, seen>>
               /\ reached' = [reached EXCEPT ![l] = TRUE]
      BY <1>11, <1>e, <2>2 DEF FormatVolume, TypeOK, PCs, Startup
    <2>3. QED
      BY <1>11, <2>1, <2>2 DEF FormatVolume
  <1>12. ASSUME NEW l \in Launches, StartRun(l) PROVE TypeOK'
    <2>1. CASE Goto(l, "waitfs") /\ UNCHANGED <<proc, group>>
      BY <1>12, <1>e, <2>1 DEF StartRun, TypeOK, PCs, Startup
    <2>2. ASSUME NEW k \in Kinds, NEW v \in {"starting", "up"}, UNCHANGED pc,
                 group' = [group EXCEPT ![l] = group[l] \cup {k}],
                 proc' = [proc EXCEPT ![l][k] = v]
          PROVE  TypeOK'
      <3>1. group' \in [Launches -> SUBSET Kinds]
        BY <2>2 DEF TypeOK
      <3>2. proc' \in [Launches -> [Kinds -> {"none", "starting", "up"}]]
        BY <2>2 DEF TypeOK
      <3>3. QED
        BY <1>12, <2>2, <3>1, <3>2 DEF StartRun, TypeOK
    <2>3. QED
      BY <1>12, <2>1, <2>2, StartRunEffect
  <1>13. ASSUME NEW l \in Launches, StartRunFails(l) PROVE TypeOK'
    <2>1. group' \in [Launches -> SUBSET Kinds]
      BY <1>13, <1>s DEF StartRunFails, StopAllStarted
    <2>2. /\ proc' \in [Launches -> [Kinds -> {"none", "starting", "up"}]]
          /\ unstopped' \in [Launches -> [Kinds -> {"no", "reported", "dropped"}]]
      BY <1>13, <1>s DEF StartRunFails, StopAllStarted
    <2>3. sock' \in [Paths -> PathStates]
      BY <1>13, <1>s DEF StartRunFails, StopAllStarted
    <2>4. QED
      BY <1>13, <1>c, <2>1, <2>2, <2>3 DEF StartRunFails, TypeOK
  <1>14. ASSUME NEW l \in Launches, WaitForSockets(l) PROVE TypeOK'
    BY <1>14, <1>e DEF WaitForSockets, TypeOK, PreLock, Startup, Ended, PCs, hostVars
  <1>15. ASSUME NEW l \in Launches, StartQEMU(l) PROVE TypeOK'
    <2>1. group' \in [Launches -> SUBSET Kinds]
      BY <1>15 DEF StartQEMU, TypeOK, Kinds
    <2>2. proc' \in [Launches -> [Kinds -> {"none", "starting", "up"}]]
      BY <1>15 DEF StartQEMU, TypeOK
    <2>3. QED
      BY <1>15, <1>e, <2>1, <2>2 DEF StartQEMU, TypeOK, PCs, Startup
  <1>16. ASSUME NEW l \in Launches, WaitForQMP(l) PROVE TypeOK'
    BY <1>16, <1>e DEF WaitForQMP, TypeOK, PCs, Startup
  <1>17. ASSUME NEW l \in Launches, FinishStartup(l) PROVE TypeOK'
    BY <1>17, <1>e DEF FinishStartup, TypeOK, PreLock, Startup, Ended, PCs, hostVars
  <1>18. ASSUME NEW l \in Launches, StartupFails(l) PROVE TypeOK'
    BY <1>18, <1>c DEF StartupFails, TypeOK, hostVars
  <1>19. ASSUME NEW l \in Launches, CloseRuntime(l) PROVE TypeOK'
    <2>1. <<"stop", "sweep", "unlock">> \in Seq({"stop", "unlock", "sweep"})
      OBVIOUS
    <2>2. QED
      BY <1>19, <1>e, <2>1 DEF CloseRuntime, RuntimeCleanup, TypeOK, PCs, hostVars
  <1>20. ASSUME NEW l \in Launches, CloseProcesses(l) PROVE TypeOK'
    <2>1. group' \in [Launches -> SUBSET Kinds]
      BY <1>20, <1>s DEF CloseProcesses
    <2>2. /\ proc' \in [Launches -> [Kinds -> {"none", "starting", "up"}]]
          /\ unstopped' \in [Launches -> [Kinds -> {"no", "reported", "dropped"}]]
      BY <1>20, <1>s DEF CloseProcesses
    <2>3. sock' \in [Paths -> PathStates]
      BY <1>20, <1>s DEF CloseProcesses
    <2>4. QED
      BY <1>20, <1>d, <2>1, <2>2, <2>3 DEF CloseProcesses, AtStep, TypeOK
  <1>21. ASSUME NEW l \in Launches, CleanupRuntimeLock(l) PROVE TypeOK'
    BY <1>21, <1>d DEF CleanupRuntimeLock, AtStep, TypeOK
  <1>22. ASSUME NEW l \in Launches, DaemonBinds(l) PROVE TypeOK'
    BY <1>22 DEF DaemonBinds, TypeOK, PathStates, Servers, launchVars
  <1>23. ASSUME NEW l \in Launches, QEMUConnects(l) PROVE TypeOK'
    BY <1>23 DEF QEMUConnects, TypeOK, PathStates, Servers, launchVars
  <1>24. ASSUME NEW l \in Launches, Crash(l) PROVE TypeOK'
    <2>1. pc' \in [Launches -> PCs]
      BY <1>24, <1>e DEF Crash, PCs, Ended
    <2>2. crashes' \in 0 .. MaxCrashes
      BY <1>24 DEF Crash, TypeOK
    <2>3. image' \in {"absent", "raw", "formatted", "torn"} /\ holder' \in Launches \cup {NoOne}
      BY <1>24 DEF Crash, TypeOK
    <2>4. /\ steps' \in [Launches -> Seq({"stop", "unlock", "sweep"})]
          /\ todo' \in [Launches -> Seq(Paths)]
          /\ seen' \in [Launches -> PathStates \cup {"unseen"}]
      BY <1>24 DEF Crash, TypeOK
    <2>5. QED
      BY <1>24, <2>1, <2>2, <2>3, <2>4 DEF Crash, TypeOK
  <1>25. ASSUME NEW l \in Launches, NEW k \in Kinds, ProcessExits(l, k) PROVE TypeOK'
    BY <1>25, <1>v DEF ProcessExits, TypeOK, launchVars
  <1>26. CASE OutsideExits
    BY <1>26 DEF OutsideExits, TypeOK, PathStates, launchVars
  <1>27. CASE UNCHANGED vars
    BY <1>27, <1>b
  <1>28. QED
    BY <1>1, <1>2, <1>3, <1>4, <1>5, <1>6, <1>7, <1>8, <1>9, <1>10, <1>11,
       <1>12, <1>13, <1>14, <1>15, <1>16, <1>17, <1>18, <1>19, <1>20, <1>21,
       <1>22, <1>23, <1>24, <1>25, <1>26, <1>27
       DEF Next

\* A launch that has not begun has nothing.
LEMMA ResourcesInit == Init => TypeOK /\ ResourceInv
  <1> SUFFICES ASSUME Init
               PROVE  TypeOK /\ ResourceInv
    OBVIOUS
  <1> USE ResourcesAssumption DEF Init
  <1>1. TypeOK
    <2>1. managed \in [Launches -> BOOLEAN] /\ reached \in [Launches -> BOOLEAN]
      BY Zenon
    <2>2. /\ steps \in [Launches -> Seq({"stop", "unlock", "sweep"})]
          /\ todo \in [Launches -> Seq(Paths)]
      OBVIOUS
    <2>3. /\ pc \in [Launches -> PCs] /\ group \in [Launches -> SUBSET Kinds]
          /\ seen \in [Launches -> PathStates \cup {"unseen"}]
      BY DEF PCs, PreLock
    <2>4. /\ sock \in [Paths -> PathStates] /\ crashes \in 0 .. MaxCrashes
          /\ configured \in BOOLEAN /\ holder \in Launches \cup {NoOne}
          /\ image \in {"absent", "raw", "formatted", "torn"}
      BY DEF PathStates, Servers
    <2>5. /\ proc \in [Launches -> [Kinds -> {"none", "starting", "up"}]]
          /\ share \in [Launches -> Servers \cup {NoOne}]
          /\ monitor \in [Launches -> Servers \cup {NoOne}]
          /\ unstopped \in [Launches -> [Kinds -> {"no", "reported", "dropped"}]]
      OBVIOUS
    <2>6. QED
      BY <2>1, <2>2, <2>3, <2>4, <2>5 DEF TypeOK
  <1>2. \A l \in Launches : Started(l) = {}
    BY DEF Started
  <1>3. StepsFollowPC /\ LockHeld /\ ProcessesKnown /\ DropsOnlyRuns
    BY <1>2 DEF StepsFollowPC, LockHeld, Owns, Startup, ProcessesKnown,
                DropsOnlyRuns, Kinds
  <1>4. SocketsOwned
    BY DEF SocketsOwned, Servers, Paths, Outside
  <1>5. SweepInv /\ ImageInv
    BY <1>2 DEF SweepInv, SweepPaths, ImageInv, LateStartup
  <1>6. Connections
    BY DEF Connections
  <1>7. QED
    BY <1>1, <1>3, <1>4, <1>5, <1>6 DEF ResourceInv

(***************************************************************************)
(* The theorems.                                                           *)
(***************************************************************************)

\* The types hold, and with them who has the lock, the processes, the sockets and
\* the image.
THEOREM ResourcesInvariant == Spec => [](TypeOK /\ ResourceInv)
  <1>1. Init => TypeOK /\ ResourceInv
    BY ResourcesInit
  <1>2. TypeOK /\ ResourceInv /\ [Next]_vars => (TypeOK /\ ResourceInv)'
    BY ResourcesTypeStep, StepsFollowPCStep, LockHeldStep, ProcessesKnownStep,
       DropsOnlyRunsStep, SocketsOwnedStep, SweepInvStep, ImageInvStep, ConnectionsStep DEF ResourceInv
  <1>3. QED
    BY <1>1, <1>2, PTL DEF Spec

\* However startup fails (startRuns, the deferred processes.Close), a launch that
\* returns leaves running only what outlived its own Stop, and its error says so
\* unless startRuns dropped it, which never concerns QEMU.
THEOREM ReturnsWithNothingRunning == Spec => []NothingLeftRunning
  <1>1. TypeOK /\ ResourceInv => NothingLeftRunning
    <2> SUFFICES ASSUME TypeOK, ResourceInv, NEW l \in Launches, NEW k \in Started(l),
                        pc[l] = "returned"
                 PROVE  \/ unstopped[l][k] = "reported"
                        \/ unstopped[l][k] = "dropped" /\ k # "qemu"
      BY DEF NothingLeftRunning
    <2>0. steps[l] = <<>>
      BY DEF ResourceInv, StepsFollowPC
    <2>1. ~MayRun(l)
      BY <2>0 DEF MayRun, LateStartup
    <2>2. unstopped[l][k] # "no" /\ k \in Kinds
      BY <2>1, OnlyHolderRuns DEF Stray, Started
    <2>3. unstopped[l][k] \in {"no", "reported", "dropped"}
      BY <2>2 DEF TypeOK
    <2>4. QED
      BY <2>2, <2>3 DEF ResourceInv, DropsOnlyRuns
  <1>2. QED
    BY ResourcesInvariant, <1>1, PTL

\* CreateVolumeImage under the launch lock: whoever has a process has a formatted
\* image, unless a crash tore it.
THEOREM VolumeIsUsable == Spec => []VolumeUsable
  <1>1. TypeOK /\ ResourceInv => VolumeUsable
    BY DEF ResourceInv, ImageInv, VolumeUsable
  <1>2. QED
    BY ResourcesInvariant, <1>1, PTL

\* A launch talks to its own QEMU and its QEMU to the launch's own virtiofsd,
\* short of what a launch left running, by a crash or by a Stop that failed: the
\* lock outlives the processes.
THEOREM ConnectionsAreOwn == Spec => []TalksToItsOwn
  <1>1. TypeOK /\ ResourceInv => TalksToItsOwn
    BY DEF ResourceInv, Connections, OwnOrStray, TalksToItsOwn
  <1>2. QED
    BY ResourcesInvariant, <1>1, PTL

\* RemoveStaleSockets takes no live socket for a stale one, and removes one that
\* came alive after the check only from a stray server or, when a failed
\* startup sweeps without the lock, from the next launch's.
THEOREM LiveSocketIsKept == Spec => LiveSocketKept
  <1> DEFINE Kept == \A l \in Launches, p \in Paths :
        (RemoveSocket(l) /\ Head(todo[l]) = p /\ sock[p] \in Servers) =>
           /\ seen[l] = "stale"
           /\ sock[p] \in Launches
           /\ pc[l] = "failing" \/ Stray(sock[p], Serves(p))
  <1>1. TypeOK /\ ResourceInv /\ [Next]_vars => Kept
    <2> SUFFICES ASSUME TypeOK, ResourceInv, NEW l \in Launches, NEW p \in Paths,
                        RemoveSocket(l), Head(todo[l]) = p, sock[p] \in Servers
                 PROVE  /\ seen[l] = "stale"
                        /\ sock[p] \in Launches
                        /\ pc[l] = "failing" \/ Stray(sock[p], Serves(p))
      OBVIOUS
    <2>1. seen[l] = "stale" /\ Sweeping(l) /\ todo[l] # <<>>
      BY DEF RemoveSocket, ResourceInv, SweepInv
    <2>2. p = "fs" => managed[l]
      <3>1. Head(<<"qmp">>) = "qmp"
        OBVIOUS
      <3>2. QED
        BY <2>1, <3>1 DEF ResourceInv, SweepInv, SweepPaths
    <2>3. sock[p] \in Launches /\ Serves(p) \in Started(sock[p])
      BY <2>2 DEF ResourceInv, SocketsOwned, Servers, Paths
    <2>4. ASSUME pc[l] # "failing", ~Stray(sock[p], Serves(p))
          PROVE  FALSE
      <3>1. MayRun(sock[p]) /\ holder = sock[p]
        BY <2>3, <2>4, OnlyHolderRuns
      <3>2. \/ pc[l] = "sweep"
            \/ pc[l] = "closing" /\ steps[l] = <<"sweep", "unlock">>
        BY <2>1, <2>4, FirstSteps DEF Sweeping, AtStep, ResourceInv, StepsFollowPC,
                                      ClosingSteps
      <3>3. holder = l
        BY <3>2 DEF Owns, Startup, ResourceInv, LockHeld
      <3>6. steps[l] \in {<<>>, <<"sweep", "unlock">>}
        BY <3>2 DEF ResourceInv, StepsFollowPC
      <3>4. ~MayRun(l)
        BY <3>2, <3>6 DEF MayRun, LateStartup
      <3>5. QED
        BY <3>1, <3>3, <3>4
    <2>5. QED
      BY <2>1, <2>3, <2>4
  <1>2. QED
    BY ResourcesInvariant, <1>1, PTL DEF Spec, LiveSocketKept

-----------------------------------------------------------------------------
(* The processes of one launch *)

Ladder == {"poll", "guest", "guestWait", "quit", "shutdownGrace", "term",
           "termGrace", "kill", "killGrace"}

\* Stop has returned for process j, and said so if the process may still run.
Settled(j) == done[j] \/ (j \in errs /\ j \in killed \cup immune)

\* Nobody is asked to go before Close has joined the tasks.
NobodyAskedYet == rung \in {"open", "tasks"} => asked = {}

\* The goroutine works its way down: what lies above `at` is settled, what lies
\* below it has not been touched.
WorksDown ==
  rung \in Ladder \cup {"returned"} =>
    /\ rung \in Ladder => at \in 1 .. started
    /\ rung = "returned" => at = 0
    /\ \A j \in 1 .. started : at < j => Settled(j)
    /\ \A i \in asked : at <= i

\* The last rung waits for a process that was sent SIGKILL.
KilledFirst == rung = "killGrace" => at \in killed

StopInv == NobodyAskedYet /\ WorksDown /\ KilledFirst

\* The state of Close, of the processes and of the killer stays in its types.
LEMMA ProcTypeInit == ProcInit => ProcTypeOK
  <1> SUFFICES ASSUME ProcInit
               PROVE  ProcTypeOK
    OBVIOUS
  <1> USE HelpersAssumption DEF ProcInit, Procs
  <1>1. done \in [Procs -> BOOLEAN]
    BY Zenon
  <1>2. /\ remote \in BOOLEAN /\ callback \in BOOLEAN
        /\ ctxDone \in BOOLEAN /\ shutErr \in BOOLEAN
    BY Zenon
  <1>3. QED
    BY <1>1, <1>2 DEF ProcTypeOK

\* Every step of Close, of the processes and of the killer keeps the types.
LEMMA ProcTypeStep == ProcTypeOK /\ StopInv /\ [ProcNext]_procVars => ProcTypeOK'
  <1> SUFFICES ASSUME ProcTypeOK, StopInv, [ProcNext]_procVars
               PROVE  ProcTypeOK'
    OBVIOUS
  <1> USE HelpersAssumption DEF ProcTypeOK, Procs, QEMU
  <1>1. CASE StartProcess
    BY <1>1 DEF StartProcess
  <1>2. CASE SetShutdown
    BY <1>2 DEF SetShutdown
  <1>3. CASE StartTasks
    BY <1>3 DEF StartTasks
  <1>4. CASE TaskEnds
    BY <1>4 DEF TaskEnds
  <1>5. ASSUME NEW i \in Procs, Exits(i) PROVE ProcTypeOK'
    BY <1>5 DEF Exits
  <1>6. ASSUME NEW i \in Procs, Reap(i) PROVE ProcTypeOK'
    BY <1>6 DEF Reap
  <1>7. CASE ContextEnds
    BY <1>7 DEF ContextEnds
  <1>8. CASE Close
    BY <1>8 DEF Close
  <1>9. CASE TasksStopped
    BY <1>9 DEF TasksStopped
  <1>0. rung \in Ladder => at - 1 \in 0 .. Helpers + 1 /\ at \in Procs
    BY DEF StopInv, WorksDown
  <1> USE DEF Ladder
  <1>10. CASE Poll
    BY <1>0, <1>10 DEF Poll, StopReturns
  <1>11. CASE GuestShutdown
    BY <1>0, <1>11 DEF GuestShutdown
  <1>12. CASE GuestShutdownWait
    BY <1>0, <1>12 DEF GuestShutdownWait
  <1>13. CASE QuitQMP
    BY <1>0, <1>13 DEF QuitQMP
  <1>14. CASE ShutdownGrace
    BY <1>0, <1>14 DEF ShutdownGrace, StopReturns
  <1>15. CASE Terminate
    BY <1>0, <1>15 DEF Terminate, StopReturns
  <1>16. CASE TerminateGrace
    BY <1>0, <1>16 DEF TerminateGrace, StopReturns
  <1>17. CASE Kill
    BY <1>0, <1>17 DEF Kill, StopReturns
  <1>18. CASE KillGrace
    BY <1>0, <1>18 DEF KillGrace, StopReturns
  <1>19. CASE KillQEMU
    <2>1. killed' \in {killed, killed \cup {QEMU}} /\ QEMU \in Procs
      BY <1>19 DEF KillQEMU
    <2>2. killed' \subseteq Procs
      BY <2>1
    <2>3. QED
      BY <1>19, <2>2 DEF KillQEMU
  <1>20. CASE KillReturns
    BY <1>20 DEF KillReturns
  <1>21. CASE UNCHANGED procVars
    BY <1>21 DEF procVars
  <1>22. QED
    BY <1>1, <1>2, <1>3, <1>4, <1>5, <1>6, <1>7, <1>8, <1>9, <1>10, <1>11,
       <1>12, <1>13, <1>14, <1>15, <1>16, <1>17, <1>18, <1>19, <1>20, <1>21
       DEF ProcNext, CloseStep

\* StopReturns keeps the order: called for a settled process, it leaves the rest
\* of the group to the next rung.
LEMMA StopReturnsSettles ==
  ASSUME ProcTypeOK, StopInv, rung \in Ladder, NEW failed \in BOOLEAN,
         StopReturns(failed), asked' = asked, killed' = killed,
         done' = done, immune' = immune, started' = started,
         done[at] \/ (failed /\ at \in killed \cup immune)
  PROVE  StopInv'
  <1> USE HelpersAssumption DEF ProcTypeOK, Procs, StopInv, WorksDown, Ladder,
          StopReturns
  <1>1. NobodyAskedYet' /\ KilledFirst'
    BY DEF NobodyAskedYet, KilledFirst
  <1>2. at \in 1 .. started /\ at' = at - 1 /\ errs \subseteq errs'
    OBVIOUS
  <1>3. /\ rung' \in Ladder => at' \in 1 .. started'
        /\ rung' = "returned" => at' = 0
    BY <1>2
  <1>4. ASSUME NEW j \in 1 .. started, at' < j
        PROVE  Settled(j)'
    <2>1. CASE at < j
      BY <1>2, <2>1 DEF Settled
    <2>2. CASE at = j
      BY <2>2 DEF Settled
    <2>3. QED
      BY <1>2, <1>4, <2>1, <2>2
  <1>5. \A i \in asked' : at' <= i
    BY <1>2
  <1>6. QED
    BY <1>1, <1>3, <1>4, <1>5

\* What Close has not yet come to may still start, end or be killed: none of
\* that unsettles a process or moves the goroutine.
LEMMA OthersKeepOrder ==
  ASSUME ProcTypeOK, StopInv, UNCHANGED <<rung, at, started, asked, errs, immune>>,
         killed \subseteq killed', \A j \in Procs : done[j] => done'[j]
  PROVE  StopInv'
  <1> USE HelpersAssumption DEF ProcTypeOK, Procs, StopInv, Ladder
  <1>1. NobodyAskedYet' /\ KilledFirst'
    BY DEF NobodyAskedYet, KilledFirst
  <1>2. \A j \in 1 .. started : Settled(j) => Settled(j)'
    BY DEF Settled
  <1>3. WorksDown'
    BY <1>2 DEF WorksDown
  <1>4. QED
    BY <1>1, <1>3

\* A step of the goroutine from one rung to the next for the same process.
LEMMA RungKeepsOrder ==
  ASSUME ProcTypeOK, StopInv, rung \in Ladder, rung' \in Ladder,
         UNCHANGED <<at, started, errs, immune, done>>,
         asked' \in {asked, asked \cup {at}}, killed \subseteq killed',
         rung' = "killGrace" => at \in killed'
  PROVE  StopInv'
  <1> USE HelpersAssumption DEF ProcTypeOK, Procs, StopInv, Ladder
  <1>1. NobodyAskedYet' /\ KilledFirst'
    BY DEF NobodyAskedYet, KilledFirst
  <1>2. \A j \in 1 .. started : Settled(j) => Settled(j)'
    BY DEF Settled
  <1>3. \A i \in asked' : at <= i
    BY DEF WorksDown
  <1>4. WorksDown'
    BY <1>2, <1>3 DEF WorksDown
  <1>5. QED
    BY <1>1, <1>4

\* Close has neither asked nor stopped anybody when it starts.
LEMMA StopInvInit == ProcInit => StopInv
  BY DEF ProcInit, StopInv, NobodyAskedYet, WorksDown, KilledFirst, Ladder

\* Every step keeps the order of the teardown.
LEMMA StopInvStep == ProcTypeOK /\ StopInv /\ [ProcNext]_procVars => StopInv'
  <1> SUFFICES ASSUME ProcTypeOK, StopInv, [ProcNext]_procVars
               PROVE  StopInv'
    OBVIOUS
  <1> USE HelpersAssumption DEF ProcTypeOK
  <1>1. CASE StartProcess
    BY <1>1 DEF StartProcess, StopInv, NobodyAskedYet, WorksDown, KilledFirst,
                Ladder
  <1>2. CASE SetShutdown
    BY <1>2, OthersKeepOrder DEF SetShutdown
  <1>3. CASE StartTasks
    BY <1>3, OthersKeepOrder DEF StartTasks
  <1>4. CASE TaskEnds
    BY <1>4, OthersKeepOrder DEF TaskEnds
  <1>5. ASSUME NEW i \in Procs, Exits(i) PROVE StopInv'
    BY <1>5, OthersKeepOrder DEF Exits
  <1>6. ASSUME NEW i \in Procs, Reap(i) PROVE StopInv'
    BY <1>6, OthersKeepOrder DEF Reap
  <1>7. CASE ContextEnds
    BY <1>7, OthersKeepOrder DEF ContextEnds
  <1>8. CASE Close
    BY <1>8 DEF Close, StopInv, NobodyAskedYet, WorksDown, KilledFirst, Ladder
  <1>9. CASE TasksStopped
    BY <1>9 DEF TasksStopped, StopInv, NobodyAskedYet, WorksDown, KilledFirst,
                Ladder
  <1>10. CASE Poll
    <2>1. CASE done[at] /\ StopReturns(FALSE)
      BY <1>10, <2>1, StopReturnsSettles DEF Poll, Ladder
    <2>2. CASE ~(done[at] /\ StopReturns(FALSE))
      BY <1>10, <2>2, RungKeepsOrder DEF Poll, Ladder
    <2>3. QED
      BY <2>1, <2>2
  <1>11. CASE GuestShutdown
    BY <1>11, RungKeepsOrder DEF GuestShutdown, Ladder
  <1>12. CASE GuestShutdownWait
    BY <1>12, RungKeepsOrder DEF GuestShutdownWait, Ladder
  <1>13. CASE QuitQMP
    BY <1>13, RungKeepsOrder DEF QuitQMP, Ladder
  <1>14. CASE ShutdownGrace
    <2>1. CASE done[at] /\ StopReturns(FALSE)
      BY <1>14, <2>1, StopReturnsSettles DEF ShutdownGrace, Ladder
    <2>2. CASE rung' = "term" /\ UNCHANGED <<errs, at, shutErr>>
      BY <1>14, <2>2, RungKeepsOrder DEF ShutdownGrace, Ladder
    <2>3. QED
      BY <1>14, <2>1, <2>2 DEF ShutdownGrace
  <1>15. CASE Terminate
    <2>1. CASE ~ctxDone /\ at \in immune /\ StopReturns(TRUE) /\ UNCHANGED asked
      BY <1>15, <2>1, StopReturnsSettles DEF Terminate, Ladder
    <2>2. CASE UNCHANGED <<errs, at, shutErr>>
      BY <1>15, <2>2, RungKeepsOrder DEF Terminate, Ladder, StopReturns
    <2>3. QED
      BY <1>15, <2>1, <2>2 DEF Terminate
  <1>16. CASE TerminateGrace
    <2>1. CASE done[at] /\ StopReturns(shutErr)
      BY <1>16, <2>1, StopReturnsSettles DEF TerminateGrace, Ladder
    <2>2. CASE rung' = "kill" /\ UNCHANGED <<errs, at, shutErr>>
      BY <1>16, <2>2, RungKeepsOrder DEF TerminateGrace, Ladder
    <2>3. QED
      BY <1>16, <2>1, <2>2 DEF TerminateGrace
  <1>17. CASE Kill
    <2>1. CASE at \in immune /\ StopReturns(TRUE) /\ UNCHANGED <<asked, killed>>
      BY <1>17, <2>1, StopReturnsSettles DEF Kill, Ladder
    <2>2. CASE /\ asked' = asked \cup {at} /\ killed' = killed \cup {at}
               /\ rung' = "killGrace" /\ UNCHANGED <<errs, at, shutErr>>
      BY <1>17, <2>2, RungKeepsOrder DEF Kill, Ladder
    <2>3. QED
      BY <1>17, <2>1, <2>2 DEF Kill
  <1>18. CASE KillGrace
    <2>1. CASE done[at] /\ StopReturns(shutErr)
      BY <1>18, <2>1, StopReturnsSettles DEF KillGrace, Ladder
    <2>2. CASE StopReturns(TRUE)
      BY <1>18, <2>2, StopReturnsSettles DEF KillGrace, Ladder, StopInv, KilledFirst
    <2>3. QED
      BY <1>18, <2>1, <2>2 DEF KillGrace
  <1>19. CASE KillQEMU
    BY <1>19, OthersKeepOrder DEF KillQEMU
  <1>20. CASE KillReturns
    BY <1>20, OthersKeepOrder DEF KillReturns
  <1>21. CASE UNCHANGED procVars
    BY <1>21, OthersKeepOrder DEF procVars
  <1>22. QED
    BY <1>1, <1>2, <1>3, <1>4, <1>5, <1>6, <1>7, <1>8, <1>9, <1>10, <1>11,
       <1>12, <1>13, <1>14, <1>15, <1>16, <1>17, <1>18, <1>19, <1>20, <1>21
       DEF ProcNext, CloseStep

\* ProcessSet and its group stay well typed, and the teardown in its order.
THEOREM ProcTypeCorrect == ProcSpec => [](ProcTypeOK /\ StopInv)
  <1>1. ProcInit => ProcTypeOK /\ StopInv
    BY ProcTypeInit, StopInvInit
  <1>2. ProcTypeOK /\ StopInv /\ [ProcNext]_procVars => (ProcTypeOK /\ StopInv)'
    BY ProcTypeStep, StopInvStep
  <1>3. QED
    BY <1>1, <1>2, PTL DEF ProcSpec

\* Group.StopAll stops in reverse: whoever is asked to go, by the callback or by
\* a signal, everything added after it has exited or its Stop has failed.
THEOREM StopsInReverse == ProcSpec => []ReverseOrder
  <1>1. ProcTypeOK /\ StopInv => ReverseOrder
    BY HelpersAssumption DEF ProcTypeOK, StopInv, NobodyAskedYet, WorksDown, Ladder,
       Settled, ReverseOrder, Procs
  <1>2. QED
    BY ProcTypeCorrect, <1>1, PTL

\* ProcessSet.Close names in its error every process it leaves running, and only
\* after SIGKILL, or because it cannot be signalled.
THEOREM CloseReports == ProcSpec => []SurvivorsReported
  <1>1. ProcTypeOK /\ StopInv => SurvivorsReported
    BY HelpersAssumption DEF ProcTypeOK, StopInv, WorksDown, Settled,
       SurvivorsReported
  <1>2. QED
    BY ProcTypeCorrect, <1>1, PTL
=============================================================================
