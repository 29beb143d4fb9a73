------------------------- MODULE ForegroundSessionProofs -------------------------
(***************************************************************************)
(* ForegroundSession, proved for any number of sessions over one state     *)
(* directory and one guest, any amount of SSH output and any buffer sizes: *)
(* what a session reports of a save, what becomes of the saved state, that *)
(* no machine is left running, and what provisioning does to the guest.    *)
(***************************************************************************)
EXTENDS ForegroundSession, TLAPS

-----------------------------------------------------------------------------
(* The inductive invariant *)

Pubs == {"absent", "empty", "torn", "full"}

\* The types that the proof needs beyond TypeOK.
MoreTypes ==
  /\ mErr \in {"nil", "failed", "cancelled"}
  /\ pub \in Pubs /\ identity \in {"absent", "torn", "full"}

\* Done is closed when QEMU is gone and the machine torn down, a saved machine
\* was torn down, a teardown without an error stopped QEMU, and a session begins
\* and ends without a machine, or reports the one that could not be stopped.
ClosedInv ==
  /\ done => closed # "open"
  /\ done /\ pc # "returned" => qemu = "gone"
  /\ handled = "saved" => closed # "open"
  /\ pc \in {"start", "returned"} => closed # "open"
  /\ closed = "clean" => qemu = "gone"
  /\ pc = "returned" /\ qemu = "up" => err # "nil" \/ handled = "saved"

\* The resume is committed, or there is nothing to commit.
Settled == committed \/ ~resumed

\* Every wait in which a suspend is taken comes after the commit, so whoever
\* commits again after a save has nothing left to remove.
CommitInv ==
  /\ pc = "start" => handled = "none"
  /\ pc \notin {"start", "foreground", "attempt", "commit", "shutdown", "returned"} => Settled
  /\ handled = "saved" => disk = "new" /\ (Settled \/ pc = "returned")

\* A saved exit is on its way up as such until Run returns nil, or the SSH loop
\* has lost it.
ReportInv ==
  /\ err = "saved" => handled = "saved"
  /\ handled = "saved" /\ lost = "no" =>
       \/ pc = "returned" /\ err = "nil"
       \/ pc = "classify" /\ err = "saved"

\* The public key that goes to the guest is not empty and has a whole identity
\* beside it: an identity is torn only until its public key is begun.
KeyInv ==
  /\ identity # "full" => pub = "absent"
  /\ pc = "newIdentity" => identity = "torn"
  /\ pc = "newPub" => identity = "full"
  /\ pc \in {"ensureKey", "newIdentity", "newPub", "install", "append"} => ~provisioned
  /\ pc \in {"install", "append"} => pub \in {"torn", "full"}
  /\ ProvisionedIsAuthorized

SessionInv == MoreTypes /\ ClosedInv /\ CommitInv /\ ReportInv /\ KeyInv

-----------------------------------------------------------------------------
(* The operators *)

\* Where an error takes Run: a return is a saved exit and reports nil, and only
\* the SSH loop gets to see the error of a save.
LEMMA LeaveTargets ==
  ASSUME NEW w, NEW e, Leave(w, e)
  PROVE  /\ pc' \in {"classify", "foreground", "attempt", "returned", "shutdown"}
         /\ err' \in {e, "nil"}
         /\ pc' = "classify" => w = "sshWait" /\ err' = e
         /\ pc' = "foreground" => w = "waitReady" /\ e = "nil"
         /\ pc' = "attempt" => w = "retryWait" /\ e = "nil"
         /\ pc' = "returned" => e = "saved" /\ err' = "nil"
         /\ pc' = "shutdown" => e # "saved"
         /\ e = "saved" => pc' = IF w = "sshWait" THEN "classify" ELSE "returned"
  BY DEF Leave, Goto, IsSavedSuspendExit

\* Close leaves a machine that is torn down, and a clean teardown no QEMU.
LEMMA CloseEffect ==
  ASSUME TypeOK, Close
  PROVE  /\ closed' \in {"clean", "failed"} /\ qemu' \in {"up", "gone"}
         /\ qemu = "gone" => qemu' = "gone"
         /\ (closed = "clean" => qemu = "gone") => (closed' = "clean" => qemu' = "gone")
         /\ closed # "open" => closed' = closed /\ qemu' = qemu
  BY DEF Close, TearsDown, TypeOK

-----------------------------------------------------------------------------
(* The steps *)

\* A session begins with what an earlier one left on disk and nothing else.
LEMMA SessionInit == Init => TypeOK /\ SessionInv
  BY SessionAssumption DEF Init, TypeOK, SessionInv, MoreTypes, ClosedInv, CommitInv, ReportInv,
     KeyInv, ProvisionedIsAuthorized, Waits, Errors, Pubs

\* Every action keeps the types.
LEMMA SessionTypeStep ==
  ASSUME TypeOK, MoreTypes, [Next]_vars
  PROVE  (TypeOK /\ MoreTypes)'
  <1>1. ASSUME NEW s \in BOOLEAN, Start(s)
        PROVE  (TypeOK /\ MoreTypes)'
    BY <1>1 DEF Start, At, Goto, inputs, client, TypeOK, MoreTypes, Waits, Errors,
        Pubs
  <1>2. CASE ShutdownAfter
    BY <1>2, CloseEffect DEF ShutdownAfter, At, Goto, opts, inputs, client, files, TypeOK,
        MoreTypes, Waits, Errors, Pubs
  <1>3. CASE StartFails
    BY <1>3 DEF StartFails, CleansUp, At, Goto, opts, inputs, client, machine, files, TypeOK,
        MoreTypes, Waits, Errors, Pubs
  <1>4. CASE Ready
    BY <1>4, LeaveTargets DEF Ready, At, Goto, opts, inputs, client, machine, files,
        TypeOK, MoreTypes, Waits, Errors, Pubs
  <1>5. CASE NotReady
    BY <1>5, LeaveTargets DEF NotReady, At, Goto, opts, inputs, client, machine,
        files, TypeOK, MoreTypes, Waits, Errors, Pubs
  <1>6. CASE RetryTimer
    BY <1>6, LeaveTargets DEF RetryTimer, At, Goto, opts, inputs, client, machine,
        files, TypeOK, MoreTypes, Waits, Errors, Pubs
  <1>7. ASSUME NEW e \in Errors, SSHDone(e)
        PROVE  (TypeOK /\ MoreTypes)'
    BY <1>7 DEF SSHDone, At, Goto, opts, inputs, client, machine, files, TypeOK,
        MoreTypes, Waits, Errors, Pubs
  <1>8. CASE MachineDone
    BY <1>8, LeaveTargets DEF MachineDone, At, Goto, opts, inputs, client, machine,
        files, TypeOK, MoreTypes, Waits, Errors, Pubs
  <1>9. CASE BridgeRequest
    BY <1>9 DEF BridgeRequest, At, Goto, BeginSuspend, opts, client, machine, files,
        TypeOK, MoreTypes, Waits, Errors, Pubs
  <1>10. CASE Signal
    <2>1. CASE BeginSuspend
      BY <1>10, <2>1 DEF Signal, BeginSuspend, At, Goto, TypeOK, MoreTypes, Waits, Errors, Pubs, opts, client, machine, files
    <2>2. CASE UNCHANGED <<ctl, opts, ctxDone, req, client, machine, files, lost>>
      BY <1>10, <2>2 DEF TypeOK, MoreTypes, Waits, Errors, Pubs, ctl, opts, client, machine, files
    <2>3. QED
      BY <1>10, <2>1, <2>2 DEF Signal
  <1>11. CASE StopReturns
    BY <1>11 DEF StopReturns, At, Goto, opts, inputs, client, machine, files,
        TypeOK, MoreTypes, Waits, Errors, Pubs
  <1>12. ASSUME NEW w \in Waits, Cancelled(w)
        PROVE  (TypeOK /\ MoreTypes)'
    BY <1>12, LeaveTargets DEF Cancelled, At, Goto, CancelLeaves, opts, inputs,
        client, machine, files, TypeOK, MoreTypes, Waits, Errors, Pubs
  <1>13. CASE Migrate
    BY <1>13 DEF Migrate, At, Goto, opts, inputs, client, machine, files, TypeOK,
        MoreTypes, Waits, Errors, Pubs
  <1>14. CASE SaveSucceeds
    BY <1>14, CloseEffect, LeaveTargets DEF SaveSucceeds, At, Goto, inputs, client, TypeOK,
        MoreTypes, Waits, Errors, Pubs
  <1>15. CASE SaveFails
    BY <1>15, LeaveTargets DEF SaveFails, inputs, client, machine, files, TypeOK,
        MoreTypes, Waits, Errors, Pubs
  <1>16. CASE SaveAgain
    BY <1>16, LeaveTargets DEF SaveAgain, At, Goto, opts, inputs, client, machine,
        files, TypeOK, MoreTypes, Waits, Errors, Pubs
  <1>17. CASE Foreground
    BY <1>17 DEF Foreground, At, Goto, CommitRemoves, inputs, client, machine,
        TypeOK, MoreTypes, Waits, Errors, Pubs
  <1>18. CASE StartSSH
    <2>1. written' \in 0 .. MaxLines /\ captured' \subseteq {"transient", "auth"}
      <3>1. 0 \in 0 .. MaxLines
        BY SessionAssumption
      <3>2. CASE written' = 0 /\ captured' = {}
        BY <3>1, <3>2
      <3>3. CASE UNCHANGED client
        BY <3>3 DEF TypeOK, client
      <3>4. QED
        BY <1>18, <3>2, <3>3 DEF StartSSH
    <2>2. pc' \in {"commit", "shutdown"} /\ err' \in Errors
      BY <1>18 DEF StartSSH, Goto, Errors
    <2>3. QED
      BY <1>18, <2>1, <2>2 DEF StartSSH, TypeOK, MoreTypes, opts, machine, files
  <1>19. CASE Established
    BY <1>19 DEF Established, At, Goto, CommitRemoves, inputs, client, machine,
        TypeOK, MoreTypes, Waits, Errors, Pubs
  <1>20. ASSUME NEW said \in SUBSET {"transient"}, Classify(said)
        PROVE  (TypeOK /\ MoreTypes)'
    BY <1>20, SessionAssumption DEF Classify, At, Goto, opts, inputs, machine,
        files, TypeOK, MoreTypes, Waits, Errors, Pubs
  <1>21. CASE EnsureKey
    BY <1>21 DEF EnsureKey, At, Goto, opts, inputs, client, machine, TypeOK,
        MoreTypes, Waits, Errors, Pubs
  <1>22. CASE WriteIdentity
    BY <1>22 DEF WriteIdentity, At, Goto, opts, inputs, client, machine, TypeOK,
        MoreTypes, Waits, Errors, Pubs
  <1>23. CASE WritePublicKey
    BY <1>23 DEF WritePublicKey, At, Goto, opts, inputs, client, machine, TypeOK,
        MoreTypes, Waits, Errors, Pubs
  <1>24. CASE InstallKey
    BY <1>24 DEF InstallKey, Installed, At, Goto, inputs, client, machine, files, TypeOK, MoreTypes, Waits, Errors, Pubs
  <1>25. ASSUME NEW p \in {"plain", "transient", "auth"}, Stderr(p)
        PROVE  (TypeOK /\ MoreTypes)'
    BY <1>25, SessionAssumption DEF Stderr, SSHRuns, ctl, opts, inputs, machine,
        files, TypeOK, MoreTypes, Waits, Errors, Pubs
  <1>26. CASE SSHExits
    BY <1>26 DEF SSHExits, SSHRuns, ctl, opts, inputs, machine, files, TypeOK,
        MoreTypes, Waits, Errors, Pubs
  <1>27. CASE Cancel
    BY <1>27 DEF Cancel, Running, ctl, opts, client, machine, files, TypeOK,
        MoreTypes, Waits, Errors, Pubs
  <1>28. CASE SuspendRPC
    BY <1>28 DEF SuspendRPC, Running, ctl, opts, client, machine, files, TypeOK,
        MoreTypes, Waits, Errors, Pubs
  <1>29. CASE QEMUExits
    BY <1>29 DEF QEMUExits, ctl, opts, inputs, client, files, TypeOK, MoreTypes,
        Waits, Errors, Pubs
  <1>30. ASSUME NEW s \in {"TSTP", "USR1"}, JobControl(s)
        PROVE  (TypeOK /\ MoreTypes)'
    BY <1>30 DEF JobControl, Running, ctl, opts, client, machine, files, TypeOK,
        MoreTypes, Waits, Errors, Pubs
  <1>31. CASE ReapDone
    BY <1>31, CloseEffect DEF ReapDone, ctl, opts, inputs, client, files, TypeOK, MoreTypes, Waits,
        Errors, Pubs
  <1>32. CASE NextSession
    BY <1>32, SessionAssumption DEF NextSession, At, Goto, Fresh, TypeOK, MoreTypes,
        Waits, Errors, Pubs
  <1>33. CASE Crash
    BY <1>33, SessionAssumption DEF Crash, At, Goto, Fresh, TypeOK, MoreTypes,
        Waits, Errors, Pubs
  <1>34. CASE UNCHANGED vars
    BY <1>34 DEF vars, TypeOK, MoreTypes, Waits, Errors, Pubs, ctl, opts, inputs,
        client, machine, files
  <1>35. CASE StartSaves
    BY <1>35 DEF StartSaves, At, Goto, CleansUp, inputs, client, TypeOK, MoreTypes, Waits, Errors, Pubs
  <1>36. CASE AppendKey
    BY <1>36 DEF AppendKey, Installed, At, Goto, inputs, client, machine, TypeOK, MoreTypes, Waits, Errors, Pubs
  <1>37. CASE ReapContext
    BY <1>37, CloseEffect DEF ReapContext, ctl, opts, inputs, client, files, TypeOK, MoreTypes, Waits, Errors, Pubs
  <1>38. QED
    BY <1>1, <1>2, <1>3, <1>4, <1>5, <1>6, <1>7, <1>8, <1>9, <1>10, <1>11,
        <1>12, <1>13, <1>14, <1>15, <1>16, <1>17, <1>18, <1>19, <1>20, <1>21,
        <1>22, <1>23, <1>24, <1>25, <1>26, <1>27, <1>28, <1>29, <1>30, <1>31,
        <1>32, <1>33, <1>34, <1>35, <1>36, <1>37
        DEF Next, Step

\* Run gets to "returned" through a teardown, or because it sees one.
LEMMA ClosedStep ==
  ASSUME TypeOK, MoreTypes, ClosedInv, CommitInv, ReportInv, [Next]_vars
  PROVE  ClosedInv'
  <1>1. ASSUME NEW s \in BOOLEAN, Start(s)
        PROVE  ClosedInv'
    BY <1>1 DEF Start, At, Goto, inputs, client, ClosedInv, CommitInv
  <1>2. CASE ShutdownAfter
    BY <1>2, CloseEffect DEF ShutdownAfter, At, Goto, opts, inputs, client, files, ClosedInv
  <1>3. CASE StartFails
    BY <1>3 DEF StartFails, CleansUp, At, Goto, opts, inputs, client, machine, files,
        ClosedInv
  <1>4. CASE Ready
    BY <1>4, LeaveTargets DEF Ready, At, Goto, opts, inputs, client, machine, files,
        ClosedInv
  <1>5. CASE NotReady
    BY <1>5, LeaveTargets DEF NotReady, At, Goto, opts, inputs, client, machine,
        files, ClosedInv
  <1>6. CASE RetryTimer
    BY <1>6, LeaveTargets DEF RetryTimer, At, Goto, opts, inputs, client, machine,
        files, ClosedInv
  <1>7. ASSUME NEW e \in Errors, SSHDone(e)
        PROVE  ClosedInv'
    BY <1>7 DEF SSHDone, At, Goto, opts, inputs, client, machine, files, ClosedInv
  <1>8. CASE MachineDone
    BY <1>8, LeaveTargets DEF MachineDone, At, Goto, opts, inputs, client, machine,
        files, ClosedInv, Waits, MoreTypes
  <1>9. CASE BridgeRequest
    BY <1>9 DEF BridgeRequest, At, Goto, BeginSuspend, opts, client, machine, files,
        ClosedInv, Waits
  <1>10. CASE Signal
    <2>1. CASE BeginSuspend
      BY <1>10, <2>1 DEF Signal, BeginSuspend, At, Goto, ClosedInv, Waits, opts, client, machine, files
    <2>2. CASE UNCHANGED <<ctl, opts, ctxDone, req, client, machine, files, lost>>
      BY <1>10, <2>2 DEF ClosedInv, Waits, ctl, opts, client, machine, files
    <2>3. QED
      BY <1>10, <2>1, <2>2 DEF Signal
  <1>11. CASE StopReturns
    BY <1>11 DEF StopReturns, At, Goto, opts, inputs, client, machine, files,
        ClosedInv
  <1>12. ASSUME NEW w \in Waits, Cancelled(w)
        PROVE  ClosedInv'
    BY <1>12, LeaveTargets DEF Cancelled, At, Goto, CancelLeaves, opts, inputs,
        client, machine, files, ClosedInv, Waits
  <1>13. CASE Migrate
    BY <1>13 DEF Migrate, At, Goto, opts, inputs, client, machine, files, ClosedInv
  <1>14. CASE SaveSucceeds
    BY <1>14, CloseEffect, LeaveTargets DEF SaveSucceeds, At, Goto, inputs, client, ClosedInv
  <1>15. CASE SaveFails
    BY <1>15, LeaveTargets DEF SaveFails, inputs, client, machine, files, ClosedInv
  <1>16. CASE SaveAgain
    BY <1>16, LeaveTargets DEF SaveAgain, At, Goto, opts, inputs, client, machine,
        files, ClosedInv
  <1>17. CASE Foreground
    BY <1>17 DEF Foreground, At, Goto, CommitRemoves, inputs, client, machine,
        ClosedInv
  <1>18. CASE StartSSH
    BY <1>18 DEF StartSSH, At, Goto, opts, inputs, client, machine, files, ClosedInv
  <1>19. CASE Established
    BY <1>19 DEF Established, At, Goto, CommitRemoves, inputs, client, machine,
        ClosedInv
  <1>20. ASSUME NEW said \in SUBSET {"transient"}, Classify(said)
        PROVE  ClosedInv'
    BY <1>20 DEF Classify, At, Goto, opts, inputs, machine, files, ClosedInv,
        ReportInv, IsSavedSuspendExit
  <1>21. CASE EnsureKey
    BY <1>21 DEF EnsureKey, At, Goto, opts, inputs, client, machine, ClosedInv
  <1>22. CASE WriteIdentity
    BY <1>22 DEF WriteIdentity, At, Goto, opts, inputs, client, machine, ClosedInv
  <1>23. CASE WritePublicKey
    BY <1>23 DEF WritePublicKey, At, Goto, opts, inputs, client, machine, ClosedInv
  <1>24. CASE InstallKey
    BY <1>24 DEF InstallKey, Installed, At, Goto, inputs, client, machine, files, ClosedInv, ReportInv, TypeOK
  <1>25. ASSUME NEW p \in {"plain", "transient", "auth"}, Stderr(p)
        PROVE  ClosedInv'
    BY <1>25 DEF Stderr, SSHRuns, ctl, opts, inputs, machine, files, ClosedInv
  <1>26. CASE SSHExits
    BY <1>26 DEF SSHExits, SSHRuns, ctl, opts, inputs, machine, files, ClosedInv
  <1>27. CASE Cancel
    BY <1>27 DEF Cancel, Running, ctl, opts, client, machine, files, ClosedInv
  <1>28. CASE SuspendRPC
    BY <1>28 DEF SuspendRPC, Running, ctl, opts, client, machine, files, ClosedInv
  <1>29. CASE QEMUExits
    BY <1>29 DEF QEMUExits, ctl, opts, inputs, client, files, ClosedInv
  <1>30. ASSUME NEW s \in {"TSTP", "USR1"}, JobControl(s)
        PROVE  ClosedInv'
    BY <1>30 DEF JobControl, Running, ctl, opts, client, machine, files, ClosedInv
  <1>31. CASE ReapDone
    BY <1>31, CloseEffect DEF ReapDone, ctl, opts, inputs, client, files, ClosedInv
  <1>32. CASE NextSession
    BY <1>32 DEF NextSession, At, Goto, Fresh, ClosedInv
  <1>33. CASE Crash
    BY <1>33 DEF Crash, At, Goto, Fresh, ClosedInv
  <1>34. CASE UNCHANGED vars
    BY <1>34 DEF vars, ClosedInv, ctl, opts, inputs, client, machine, files
  <1>35. CASE StartSaves
    BY <1>35 DEF StartSaves, At, Goto, CleansUp, inputs, client, ClosedInv, ReportInv, TypeOK
  <1>36. CASE AppendKey
    BY <1>36 DEF AppendKey, Installed, At, Goto, inputs, client, machine, ClosedInv, ReportInv, TypeOK
  <1>37. CASE ReapContext
    BY <1>37, CloseEffect DEF ReapContext, ctl, opts, inputs, client, files, ClosedInv, ReportInv, TypeOK
  <1>38. QED
    BY <1>1, <1>2, <1>3, <1>4, <1>5, <1>6, <1>7, <1>8, <1>9, <1>10, <1>11,
        <1>12, <1>13, <1>14, <1>15, <1>16, <1>17, <1>18, <1>19, <1>20, <1>21,
        <1>22, <1>23, <1>24, <1>25, <1>26, <1>27, <1>28, <1>29, <1>30, <1>31,
        <1>32, <1>33, <1>34, <1>35, <1>36, <1>37
        DEF Next, Step

\* A suspend is taken where Settled holds, and a commit that finds it changes
\* nothing on disk.
LEMMA CommitStep ==
  ASSUME CommitInv, [Next]_vars
  PROVE  CommitInv'
  <1>1. ASSUME NEW s \in BOOLEAN, Start(s)
        PROVE  CommitInv'
    BY <1>1 DEF Start, At, Goto, inputs, client, CommitInv, Settled
  <1>2. CASE ShutdownAfter
    BY <1>2, CloseEffect DEF ShutdownAfter, At, Goto, opts, inputs, client, files, CommitInv,
        Settled
  <1>3. CASE StartFails
    BY <1>3 DEF StartFails, CleansUp, At, Goto, opts, inputs, client, machine, files,
        CommitInv, Settled
  <1>4. CASE Ready
    BY <1>4, LeaveTargets DEF Ready, At, Goto, opts, inputs, client, machine, files,
        CommitInv, Settled
  <1>5. CASE NotReady
    BY <1>5, LeaveTargets DEF NotReady, At, Goto, opts, inputs, client, machine,
        files, CommitInv, Settled
  <1>6. CASE RetryTimer
    BY <1>6, LeaveTargets DEF RetryTimer, At, Goto, opts, inputs, client, machine,
        files, CommitInv, Settled
  <1>7. ASSUME NEW e \in Errors, SSHDone(e)
        PROVE  CommitInv'
    BY <1>7 DEF SSHDone, At, Goto, opts, inputs, client, machine, files, CommitInv,
        Settled
  <1>8. CASE MachineDone
    BY <1>8, LeaveTargets DEF MachineDone, At, Goto, opts, inputs, client, machine,
        files, CommitInv, Waits, Settled
  <1>9. CASE BridgeRequest
    BY <1>9 DEF BridgeRequest, At, Goto, BeginSuspend, opts, client, machine, files,
        CommitInv, Waits, Settled
  <1>10. CASE Signal
    <2>1. CASE BeginSuspend
      BY <1>10, <2>1 DEF Signal, BeginSuspend, At, Goto, CommitInv, Waits, Settled, opts, client, machine, files
    <2>2. CASE UNCHANGED <<ctl, opts, ctxDone, req, client, machine, files, lost>>
      BY <1>10, <2>2 DEF CommitInv, Waits, Settled, ctl, opts, client, machine, files
    <2>3. QED
      BY <1>10, <2>1, <2>2 DEF Signal
  <1>11. CASE StopReturns
    BY <1>11 DEF StopReturns, At, Goto, opts, inputs, client, machine, files,
        CommitInv, Settled
  <1>12. ASSUME NEW w \in Waits, Cancelled(w)
        PROVE  CommitInv'
    BY <1>12, LeaveTargets DEF Cancelled, At, Goto, CancelLeaves, opts, inputs,
        client, machine, files, CommitInv, Waits, Settled
  <1>13. CASE Migrate
    BY <1>13 DEF Migrate, At, Goto, opts, inputs, client, machine, files, CommitInv,
        Settled
  <1>14. CASE SaveSucceeds
    BY <1>14, CloseEffect, LeaveTargets DEF SaveSucceeds, At, Goto, inputs, client, CommitInv,
        Settled
  <1>15. CASE SaveFails
    BY <1>15, LeaveTargets DEF SaveFails, inputs, client, machine, files, CommitInv,
        Settled
  <1>16. CASE SaveAgain
    BY <1>16, LeaveTargets DEF SaveAgain, At, Goto, opts, inputs, client, machine,
        files, CommitInv, Settled
  <1>17. CASE Foreground
    BY <1>17 DEF Foreground, At, Goto, CommitRemoves, inputs, client, machine,
        CommitInv, Settled
  <1>18. CASE StartSSH
    BY <1>18 DEF StartSSH, At, Goto, opts, inputs, client, machine, files,
        CommitInv, Settled
  <1>19. CASE Established
    BY <1>19 DEF Established, At, Goto, CommitRemoves, inputs, client, machine,
        CommitInv, Settled
  <1>20. ASSUME NEW said \in SUBSET {"transient"}, Classify(said)
        PROVE  CommitInv'
    BY <1>20 DEF Classify, At, Goto, opts, inputs, machine, files, CommitInv,
        Settled
  <1>21. CASE EnsureKey
    BY <1>21 DEF EnsureKey, At, Goto, opts, inputs, client, machine, CommitInv,
        Settled
  <1>22. CASE WriteIdentity
    BY <1>22 DEF WriteIdentity, At, Goto, opts, inputs, client, machine, CommitInv,
        Settled
  <1>23. CASE WritePublicKey
    BY <1>23 DEF WritePublicKey, At, Goto, opts, inputs, client, machine, CommitInv,
        Settled
  <1>24. CASE InstallKey
    BY <1>24 DEF InstallKey, Installed, At, Goto, inputs, client, machine, files, CommitInv, Settled
  <1>25. ASSUME NEW p \in {"plain", "transient", "auth"}, Stderr(p)
        PROVE  CommitInv'
    BY <1>25 DEF Stderr, SSHRuns, ctl, opts, inputs, machine, files, CommitInv,
        Settled
  <1>26. CASE SSHExits
    BY <1>26 DEF SSHExits, SSHRuns, ctl, opts, inputs, machine, files, CommitInv,
        Settled
  <1>27. CASE Cancel
    BY <1>27 DEF Cancel, Running, ctl, opts, client, machine, files, CommitInv,
        Settled
  <1>28. CASE SuspendRPC
    BY <1>28 DEF SuspendRPC, Running, ctl, opts, client, machine, files, CommitInv,
        Settled
  <1>29. CASE QEMUExits
    BY <1>29 DEF QEMUExits, ctl, opts, inputs, client, files, CommitInv, Settled
  <1>30. ASSUME NEW s \in {"TSTP", "USR1"}, JobControl(s)
        PROVE  CommitInv'
    BY <1>30 DEF JobControl, Running, ctl, opts, client, machine, files, CommitInv,
        Settled
  <1>31. CASE ReapDone
    BY <1>31, CloseEffect DEF ReapDone, ctl, opts, inputs, client, files, CommitInv, Settled
  <1>32. CASE NextSession
    BY <1>32 DEF NextSession, At, Goto, Fresh, CommitInv, Settled
  <1>33. CASE Crash
    BY <1>33 DEF Crash, At, Goto, Fresh, CommitInv, Settled
  <1>34. CASE UNCHANGED vars
    BY <1>34 DEF vars, CommitInv, Settled, ctl, opts, inputs, client, machine, files
  <1>35. CASE StartSaves
    BY <1>35 DEF StartSaves, At, Goto, CleansUp, inputs, client, CommitInv, Settled
  <1>36. CASE AppendKey
    BY <1>36 DEF AppendKey, Installed, At, Goto, inputs, client, machine, CommitInv, Settled
  <1>37. CASE ReapContext
    BY <1>37, CloseEffect DEF ReapContext, ctl, opts, inputs, client, files, CommitInv, Settled
  <1>38. QED
    BY <1>1, <1>2, <1>3, <1>4, <1>5, <1>6, <1>7, <1>8, <1>9, <1>10, <1>11,
        <1>12, <1>13, <1>14, <1>15, <1>16, <1>17, <1>18, <1>19, <1>20, <1>21,
        <1>22, <1>23, <1>24, <1>25, <1>26, <1>27, <1>28, <1>29, <1>30, <1>31,
        <1>32, <1>33, <1>34, <1>35, <1>36, <1>37
        DEF Next, Step

\* After the save only the return or the SSH loop is left to reach.
LEMMA ReportStep ==
  ASSUME MoreTypes, ReportInv, [Next]_vars
  PROVE  ReportInv'
  <1>1. ASSUME NEW s \in BOOLEAN, Start(s)
        PROVE  ReportInv'
    BY <1>1 DEF Start, At, Goto, inputs, client, ReportInv
  <1>2. CASE ShutdownAfter
    BY <1>2, CloseEffect DEF ShutdownAfter, At, Goto, opts, inputs, client, files, ReportInv
  <1>3. CASE StartFails
    BY <1>3 DEF StartFails, CleansUp, At, Goto, opts, inputs, client, machine, files,
        ReportInv
  <1>4. CASE Ready
    BY <1>4, LeaveTargets DEF Ready, At, Goto, opts, inputs, client, machine, files,
        ReportInv
  <1>5. CASE NotReady
    BY <1>5, LeaveTargets DEF NotReady, At, Goto, opts, inputs, client, machine,
        files, ReportInv
  <1>6. CASE RetryTimer
    BY <1>6, LeaveTargets DEF RetryTimer, At, Goto, opts, inputs, client, machine,
        files, ReportInv
  <1>7. ASSUME NEW e \in Errors, SSHDone(e)
        PROVE  ReportInv'
    BY <1>7 DEF SSHDone, At, Goto, opts, inputs, client, machine, files, ReportInv
  <1>8. CASE MachineDone
    BY <1>8, LeaveTargets DEF MachineDone, At, Goto, opts, inputs, client, machine,
        files, ReportInv, MoreTypes, Waits
  <1>9. CASE BridgeRequest
    BY <1>9 DEF BridgeRequest, At, Goto, BeginSuspend, opts, client, machine, files,
        ReportInv, Waits
  <1>10. CASE Signal
    <2>1. CASE BeginSuspend
      BY <1>10, <2>1 DEF Signal, BeginSuspend, At, Goto, ReportInv, Waits, opts, client, machine, files
    <2>2. CASE UNCHANGED <<ctl, opts, ctxDone, req, client, machine, files, lost>>
      BY <1>10, <2>2 DEF ReportInv, Waits, ctl, opts, client, machine, files
    <2>3. QED
      BY <1>10, <2>1, <2>2 DEF Signal
  <1>11. CASE StopReturns
    BY <1>11 DEF StopReturns, At, Goto, opts, inputs, client, machine, files,
        ReportInv
  <1>12. ASSUME NEW w \in Waits, Cancelled(w)
        PROVE  ReportInv'
    BY <1>12, LeaveTargets DEF Cancelled, At, Goto, CancelLeaves, opts, inputs,
        client, machine, files, ReportInv, Waits
  <1>13. CASE Migrate
    BY <1>13 DEF Migrate, At, Goto, opts, inputs, client, machine, files, ReportInv
  <1>14. CASE SaveSucceeds
    BY <1>14, CloseEffect, LeaveTargets DEF SaveSucceeds, At, Goto, inputs, client, ReportInv
  <1>15. CASE SaveFails
    BY <1>15, LeaveTargets DEF SaveFails, inputs, client, machine, files, ReportInv
  <1>16. CASE SaveAgain
    BY <1>16, LeaveTargets DEF SaveAgain, At, Goto, opts, inputs, client, machine,
        files, ReportInv
  <1>17. CASE Foreground
    BY <1>17 DEF Foreground, At, Goto, CommitRemoves, inputs, client, machine,
        ReportInv
  <1>18. CASE StartSSH
    BY <1>18 DEF StartSSH, At, Goto, opts, inputs, client, machine, files, ReportInv
  <1>19. CASE Established
    BY <1>19 DEF Established, At, Goto, CommitRemoves, inputs, client, machine,
        ReportInv
  <1>20. ASSUME NEW said \in SUBSET {"transient"}, Classify(said)
        PROVE  ReportInv'
    BY <1>20 DEF Classify, At, Goto, opts, inputs, machine, files, ReportInv,
        IsSavedSuspendExit
  <1>21. CASE EnsureKey
    BY <1>21 DEF EnsureKey, At, Goto, opts, inputs, client, machine, ReportInv
  <1>22. CASE WriteIdentity
    BY <1>22 DEF WriteIdentity, At, Goto, opts, inputs, client, machine, ReportInv
  <1>23. CASE WritePublicKey
    BY <1>23 DEF WritePublicKey, At, Goto, opts, inputs, client, machine, ReportInv
  <1>24. CASE InstallKey
    BY <1>24 DEF InstallKey, Installed, At, Goto, inputs, client, machine, files, ReportInv
  <1>25. ASSUME NEW p \in {"plain", "transient", "auth"}, Stderr(p)
        PROVE  ReportInv'
    BY <1>25 DEF Stderr, SSHRuns, ctl, opts, inputs, machine, files, ReportInv
  <1>26. CASE SSHExits
    BY <1>26 DEF SSHExits, SSHRuns, ctl, opts, inputs, machine, files, ReportInv
  <1>27. CASE Cancel
    BY <1>27 DEF Cancel, Running, ctl, opts, client, machine, files, ReportInv
  <1>28. CASE SuspendRPC
    BY <1>28 DEF SuspendRPC, Running, ctl, opts, client, machine, files, ReportInv
  <1>29. CASE QEMUExits
    BY <1>29 DEF QEMUExits, ctl, opts, inputs, client, files, ReportInv
  <1>30. ASSUME NEW s \in {"TSTP", "USR1"}, JobControl(s)
        PROVE  ReportInv'
    BY <1>30 DEF JobControl, Running, ctl, opts, client, machine, files, ReportInv
  <1>31. CASE ReapDone
    BY <1>31, CloseEffect DEF ReapDone, ctl, opts, inputs, client, files, ReportInv
  <1>32. CASE NextSession
    BY <1>32 DEF NextSession, At, Goto, Fresh, ReportInv
  <1>33. CASE Crash
    BY <1>33 DEF Crash, At, Goto, Fresh, ReportInv
  <1>34. CASE UNCHANGED vars
    BY <1>34 DEF vars, ReportInv, ctl, opts, inputs, client, machine, files
  <1>35. CASE StartSaves
    BY <1>35 DEF StartSaves, At, Goto, CleansUp, inputs, client, ReportInv
  <1>36. CASE AppendKey
    BY <1>36 DEF AppendKey, Installed, At, Goto, inputs, client, machine, ReportInv
  <1>37. CASE ReapContext
    BY <1>37, CloseEffect DEF ReapContext, ctl, opts, inputs, client, files, ReportInv
  <1>38. QED
    BY <1>1, <1>2, <1>3, <1>4, <1>5, <1>6, <1>7, <1>8, <1>9, <1>10, <1>11,
        <1>12, <1>13, <1>14, <1>15, <1>16, <1>17, <1>18, <1>19, <1>20, <1>21,
        <1>22, <1>23, <1>24, <1>25, <1>26, <1>27, <1>28, <1>29, <1>30, <1>31,
        <1>32, <1>33, <1>34, <1>35, <1>36, <1>37
        DEF Next, Step

\* Only Ensure and its writes touch the key files, and only a session that holds
\* a usable public key gets to the guest.
LEMMA KeyStep ==
  ASSUME TypeOK, MoreTypes, KeyInv, [Next]_vars
  PROVE  KeyInv'
  <1> DEFINE keyVars == <<identity, pub, authorized, provisioned>>
             Keys == {"ensureKey", "newIdentity", "newPub", "install", "append"}
  <1>1. CASE EnsureKey
    BY <1>1 DEF EnsureKey, UsablePub, At, Goto, opts, KeyInv, ProvisionedIsAuthorized, MoreTypes,
       Pubs
  <1>2. CASE WriteIdentity
    BY <1>2 DEF WriteIdentity, At, Goto, opts, KeyInv, ProvisionedIsAuthorized
  <1>3. CASE WritePublicKey
    BY <1>3 DEF WritePublicKey, At, Goto, opts, KeyInv, ProvisionedIsAuthorized
  <1>4. CASE InstallKey
    BY <1>4 DEF InstallKey, Installed, At, Goto, files, KeyInv, ProvisionedIsAuthorized
  <1>5. CASE AppendKey
    BY <1>5 DEF AppendKey, Installed, At, Goto, KeyInv, ProvisionedIsAuthorized
  <1>6. CASE NextSession
    BY <1>6 DEF NextSession, Fresh, Goto, KeyInv, ProvisionedIsAuthorized
  <1>7. CASE Crash
    BY <1>7 DEF Crash, Fresh, At, Goto, KeyInv, ProvisionedIsAuthorized
  <1>8. CASE UNCHANGED keyVars /\ pc' \notin Keys
    BY <1>8 DEF KeyInv, ProvisionedIsAuthorized
  <1>9. CASE UNCHANGED keyVars /\ pc' = pc
    BY <1>9 DEF KeyInv, ProvisionedIsAuthorized
  <1>10. CASE UNCHANGED keyVars /\ pc' = "ensureKey" /\ ~provisioned
    BY <1>10 DEF KeyInv, ProvisionedIsAuthorized
  <1>11. CASE \E s \in BOOLEAN : Start(s)
    BY <1>11, <1>8 DEF Start, At, Goto
  <1>12. CASE ShutdownAfter
    BY <1>12, <1>8 DEF ShutdownAfter, At, Goto, opts, files
  <1>13. CASE StartFails
    BY <1>13, <1>8 DEF StartFails, At, Goto, opts, files
  <1>14. CASE StartSaves
    BY <1>14, <1>8 DEF StartSaves, At, Goto
  <1>15. CASE Ready
    BY <1>15, <1>8, LeaveTargets DEF Ready, Goto, opts, files
  <1>16. CASE NotReady
    BY <1>16, <1>8, LeaveTargets DEF NotReady, Goto, opts, files
  <1>17. CASE RetryTimer
    BY <1>17, <1>8, LeaveTargets DEF RetryTimer, Goto, opts, files
  <1>18. CASE \E e \in Errors : SSHDone(e)
    BY <1>18, <1>8 DEF SSHDone, Goto, opts, files
  <1>19. CASE MachineDone
    BY <1>19, <1>8, LeaveTargets DEF MachineDone, Goto, opts, files
  <1>20. CASE BridgeRequest
    BY <1>20, <1>8 DEF BridgeRequest, BeginSuspend, Goto, opts, files
  <1>21. CASE Signal
    BY <1>21, <1>8, <1>9 DEF Signal, BeginSuspend, Goto, ctl, opts, files
  <1>22. CASE StopReturns
    BY <1>22, <1>8 DEF StopReturns, Goto, opts, files
  <1>23. CASE \E w \in Waits : Cancelled(w)
    BY <1>23, <1>8, LeaveTargets DEF Cancelled, CancelLeaves, Goto, opts, files
  <1>24. CASE Migrate
    BY <1>24, <1>8 DEF Migrate, Goto, opts, files
  <1>25. CASE SaveSucceeds
    BY <1>25, <1>8, LeaveTargets DEF SaveSucceeds
  <1>26. CASE SaveFails
    BY <1>26, <1>8, LeaveTargets DEF SaveFails, files
  <1>27. CASE SaveAgain
    BY <1>27, <1>8, LeaveTargets DEF SaveAgain, opts, files
  <1>28. CASE Foreground
    BY <1>28, <1>8 DEF Foreground, Goto
  <1>29. CASE StartSSH
    BY <1>29, <1>8 DEF StartSSH, Goto, opts, files
  <1>30. CASE Established
    BY <1>30, <1>8 DEF Established, Goto
  <1>31. CASE \E said \in SUBSET {"transient"} : Classify(said)
    BY <1>31, <1>8, <1>10 DEF Classify, Goto, opts, files
  <1>32. CASE \E p \in {"plain", "transient", "auth"} : Stderr(p)
    BY <1>32, <1>9 DEF Stderr, ctl, opts, files
  <1>33. CASE SSHExits
    BY <1>33, <1>9 DEF SSHExits, ctl, opts, files
  <1>34. CASE Cancel
    BY <1>34, <1>9 DEF Cancel, ctl, opts, files
  <1>35. CASE SuspendRPC
    BY <1>35, <1>9 DEF SuspendRPC, ctl, opts, files
  <1>36. CASE QEMUExits
    BY <1>36, <1>9 DEF QEMUExits, ctl, opts, files
  <1>37. CASE \E s \in {"TSTP", "USR1"} : JobControl(s)
    BY <1>37, <1>9 DEF JobControl, ctl, opts, files
  <1>38. CASE ReapContext
    BY <1>38, <1>9 DEF ReapContext, ctl, opts, files
  <1>39. CASE ReapDone
    BY <1>39, <1>9 DEF ReapDone, ctl, opts, files
  <1>40. CASE UNCHANGED vars
    BY <1>40, <1>9 DEF vars, ctl, opts, files
  <1>41. QED
    BY <1>1, <1>2, <1>3, <1>4, <1>5, <1>6, <1>7, <1>11, <1>12, <1>13, <1>14, <1>15, <1>16,
       <1>17, <1>18, <1>19, <1>20, <1>21, <1>22, <1>23, <1>24, <1>25, <1>26, <1>27, <1>28,
       <1>29, <1>30, <1>31, <1>32, <1>33, <1>34, <1>35, <1>36, <1>37, <1>38, <1>39, <1>40
       DEF Next, Step

-----------------------------------------------------------------------------
(* The theorems *)

\* The invariant of all sessions that follow one another.
THEOREM SessionInvariant == Spec => [](TypeOK /\ SessionInv)
  <1>1. TypeOK /\ SessionInv /\ [Next]_vars => (TypeOK /\ SessionInv)'
    BY SessionTypeStep, ClosedStep, CommitStep, ReportStep, KeyStep DEF SessionInv
  <1>2. QED
    BY SessionInit, <1>1, PTL DEF Spec

\* Whatever interrupts or follows a save, Run returns nil for a machine that was
\* saved, unless start served the suspend or RunSSHSession took the saved exit for
\* an SSH failure.
THEOREM SavedExitIsReported == Spec => []SavedIsReported
  <1>1. TypeOK /\ SessionInv => SavedIsReported
    BY DEF SessionInv, ReportInv, SavedIsReported, ExitCode, At
  <1>2. QED
    BY <1>1, SessionInvariant, PTL

\* However often the SSH loop runs CommitResume after a save, the state that was
\* saved is still there when the session ends.
THEOREM SessionKeepsNewSave == Spec => []NewSaveSurvives
  <1>1. TypeOK /\ SessionInv => NewSaveSurvives
    BY DEF SessionInv, CommitInv, NewSaveSurvives
  <1>2. QED
    BY <1>1, SessionInvariant, PTL

\* Run returns only after the machine was torn down: by Shutdown, by the save, by
\* start's cleanup or by the reaper whose Done it saw; a QEMU that the teardown
\* could not stop is reported, unless the machine was saved.
THEOREM MachineNeverAbandoned == Spec => []NeverAbandoned
  <1>1. TypeOK /\ SessionInv => NeverAbandoned
    BY DEF SessionInv, ClosedInv, NeverAbandoned, At, ExitCode, TypeOK
  <1>2. QED
    BY <1>1, SessionInvariant, PTL

\* Through any sequence of crashes, failed writes and lost answers, a session that
\* counts a key as provisioned has a whole identity and has put the line of its
\* public key file into the guest's authorized_keys.
THEOREM ProvisionedKeyIsAuthorized == Spec => []ProvisionedIsAuthorized
  <1>1. TypeOK /\ SessionInv => ProvisionedIsAuthorized
    BY DEF SessionInv, KeyInv
  <1>2. QED
    BY <1>1, SessionInvariant, PTL

=============================================================================
