------------------------ MODULE MachineLifecycleProofs ------------------------
(***************************************************************************)
(* The suspend coordinator, for any set of requesters: it loses no waiter  *)
(* and no wakeup, and implements SuspendOutcome.                           *)
(*                                                                         *)
(* The machine around it, for any number of suspend requests and of        *)
(* callers that close it: the launch lock outlives QEMU, what the machine  *)
(* reports is true, and the teardown of a saved machine copies nothing     *)
(* from the paused guest.  The machine uses the coordinator as it is       *)
(* specified, so what is proved of the coordinator holds inside it.        *)
(***************************************************************************)
EXTENDS MachineLifecycle, TLAPS

(***************************************************************************)
(* The coordinator by itself.                                              *)
(***************************************************************************)

\* A queued request is visible to the servicer: its notification is in the
\* channel, about to be sent by whoever turned `requested` on, or received.
RequestVisible ==
  requested => \/ token
               \/ \E c \in Clients : reqPc[c] = "notify"
               \/ srvPc \in {"localNotify", "taken"}

\* The waiter list is non-empty only before the outcome is recorded, and then
\* a request is queued or in flight.
WaitersPending == waiters # {} => ~completed /\ (requested \/ inFlight)

\* The flags follow the servicer.
ServicerFlags ==
  /\ inFlight <=> srvPc = "saving"
  /\ completed <=> result # "none"
  /\ srvPc = "releasing" => completed
  /\ releasing # {} => srvPc = "releasing"

\* A requester's channel is filled once, with the recorded outcome, and is then
\* no longer in the coordinator's hands.
ChannelOnce ==
  \A c \in Clients :
    /\ done[c] # "none" => completed /\ done[c] = result
    /\ done[c] # "none" => c \notin waiters \cup releasing
    /\ reqPc[c] = "answered" => done[c] # "none"
    /\ reqPc[c] = "idle" => done[c] = "none" /\ c \notin waiters \cup releasing

\* The inductive invariant: the two safety properties and what they rest on.
CoordInv ==
  /\ CoordTypeOK
  /\ NoLostWaiter
  /\ RequestVisible
  /\ WaitersPending
  /\ ServicerFlags
  /\ ChannelOnce

LEMMA CoordInitInv == CoordInit => CoordInv
  BY DEF CoordInit, CoordInv, CoordTypeOK, NoLostWaiter, RequestVisible,
         WaitersPending, ServicerFlags, ChannelOnce, Outcome

LEMMA CoordStepInv == CoordInv /\ [CoordNext]_coordVars => CoordInv'
  <1> SUFFICES ASSUME CoordInv, [CoordNext]_coordVars
               PROVE  CoordInv'
    OBVIOUS
  <1> USE DEF CoordInv, CoordTypeOK, NoLostWaiter, RequestVisible,
              WaitersPending, ServicerFlags, ChannelOnce, Outcome
  <1>1. ASSUME NEW c \in Clients, RequestCompleted(c) PROVE CoordInv'
    BY <1>1 DEF RequestCompleted
  <1>2. ASSUME NEW c \in Clients, RequestQueued(c) PROVE CoordInv'
    BY <1>2 DEF RequestQueued
  <1>3. ASSUME NEW c \in Clients, SendNotify(c) PROVE CoordInv'
    BY <1>3 DEF SendNotify
  <1>4. ASSUME NEW c \in Clients, ReceiveOutcome(c) PROVE CoordInv'
    BY <1>4 DEF ReceiveOutcome
  <1>5. ASSUME NEW c \in Clients, GiveUp(c) PROVE CoordInv'
    BY <1>5 DEF GiveUp
  <1>6. CASE NoneQueued
    BY <1>6 DEF NoneQueued
  <1>7. CASE TakeNotify
    BY <1>7 DEF TakeNotify
  <1>8. CASE RequestLocal
    BY <1>8 DEF RequestLocal
  <1>9. CASE SendNotifyLocal
    BY <1>9 DEF SendNotifyLocal
  <1>10. CASE Begin
    BY <1>10 DEF Begin
  <1>11. ASSUME NEW outcome \in Outcome, CompleteOnce(outcome) PROVE CoordInv'
    BY <1>11 DEF CompleteOnce, Complete
  <1>12. ASSUME NEW c \in Clients, Release(c) PROVE CoordInv'
    BY <1>12 DEF Release
  <1>13. CASE EndHandle
    BY <1>13 DEF EndHandle
  <1>14. CASE StopServing
    BY <1>14 DEF StopServing
  <1>15. CASE UNCHANGED coordVars
    BY <1>15 DEF coordVars
  <1>16. QED
    BY <1>1, <1>2, <1>3, <1>4, <1>5, <1>6, <1>7, <1>8, <1>9, <1>10, <1>11,
       <1>12, <1>13, <1>14, <1>15 DEF CoordNext, RequesterStep, ServicerStep

LEMMA CoordInvariance == CoordSpec => []CoordInv
  BY CoordInitInv, CoordStepInv, PTL DEF CoordSpec

\* The coordinator's variables keep their types, for any number of requesters.
THEOREM CoordTypeCorrect == CoordSpec => []CoordTypeOK
  <1>1. CoordInv => CoordTypeOK
    BY DEF CoordInv
  <1>2. QED
    BY <1>1, CoordInvariance, PTL

\* request, Begin and Complete never lose a requester that waits.
THEOREM CoordKeepsWaiters == CoordSpec => []NoLostWaiter
  <1>1. CoordInv => NoLostWaiter
    BY DEF CoordInv
  <1>2. QED
    BY <1>1, CoordInvariance, PTL

\* The capacity-one notify channel never loses the wakeup a waiter depends on.
THEOREM CoordKeepsWakeup == CoordSpec => []NoLostWakeup
  <1>1. CoordInv => NoLostWakeup
    BY DEF CoordInv, NoLostWakeup, WaitersPending, RequestVisible
  <1>2. QED
    BY <1>1, CoordInvariance, PTL

\* The coordinator refines SuspendOutcome: one outcome, given to everybody.
THEOREM CoordImplementsOutcome == CoordSpec => ImplementsOutcome
  <1>1. CoordInit => Outcomes!Init
    BY DEF CoordInit, Outcomes!Init
  <1>2. CoordInv /\ [CoordNext]_coordVars
        => [Outcomes!Next]_<<result,
             [c \in Clients |-> IF reqPc[c] = "answered" THEN done[c] ELSE "none"]>>
    <2> SUFFICES ASSUME CoordInv, [CoordNext]_coordVars
                 PROVE  [Outcomes!Next]_<<result,
             [c \in Clients |-> IF reqPc[c] = "answered" THEN done[c] ELSE "none"]>>
      OBVIOUS
    <2> DEFINE ans == [c \in Clients |->
                         IF reqPc[c] = "answered" THEN done[c] ELSE "none"]
    <2> USE DEF CoordInv, CoordTypeOK, ServicerFlags, ChannelOnce, Outcome
    <2>1. ASSUME NEW c \in Clients, ReceiveOutcome(c) PROVE Outcomes!Answer(c)
      <3>1. /\ result # "none"
            /\ result' = result
            /\ ans[c] = "none"
        BY <2>1 DEF ReceiveOutcome
      <3>2. ans' = [ans EXCEPT ![c] = result]
        BY <2>1 DEF ReceiveOutcome
      <3>3. QED
        BY <3>1, <3>2 DEF Outcomes!Answer
    <2>2. ASSUME NEW outcome \in Outcome, CompleteOnce(outcome)
          PROVE Outcomes!Decide \/ UNCHANGED <<result, ans>>
      <3>1. ans' = ans /\ result' = outcome /\ (completed => result' = result)
        BY <2>2 DEF CompleteOnce, Complete
      <3>2. CASE completed
        BY <3>1, <3>2
      <3>3. CASE ~completed
        <4>1. result = "none"
          BY <3>3
        <4>2. QED
          BY <3>1, <4>1 DEF Outcomes!Decide
      <3>4. QED
        BY <3>2, <3>3
    <2>3. ASSUME NEW c \in Clients,
                 RequestCompleted(c) \/ RequestQueued(c) \/ SendNotify(c)
                 \/ GiveUp(c) \/ Release(c)
          PROVE UNCHANGED <<result, ans>>
      BY <2>3 DEF RequestCompleted, RequestQueued, SendNotify, GiveUp, Release
    <2>4. ASSUME NoneQueued \/ TakeNotify \/ RequestLocal \/ SendNotifyLocal
                 \/ Begin \/ EndHandle \/ StopServing \/ UNCHANGED coordVars
          PROVE UNCHANGED <<result, ans>>
      BY <2>4 DEF NoneQueued, TakeNotify, RequestLocal, SendNotifyLocal, Begin,
                  EndHandle, StopServing, coordVars
    <2>5. QED
      BY <2>1, <2>2, <2>3, <2>4
         DEF CoordNext, RequesterStep, ServicerStep, Outcomes!Next
  <1>3. QED
    BY <1>1, <1>2, CoordInvariance, PTL
       DEF CoordSpec, ImplementsOutcome, Outcomes!Spec

(***************************************************************************)
(* The machine's inductive invariant.                                      *)
(***************************************************************************)

\* QEMU was stopped, or the stop failed, before anything releases the lock; the
\* lock goes with the last step of either teardown, and VM.closeOnce is through
\* only when the closer is.
TeardownOrder ==
  /\ phase \in {"unlocking", "failed"} \/ core \in {"cleanup", "closed"} =>
       qemu = "exited" \/ stopErr
  /\ ~lockHeld => phase = "failed" \/ core = "closed"
  /\ core = "closed" => finished /\ ~lockHeld
  /\ vmOnce = "done" => core = "closed"

\* One actor runs the close actions, and none before the closer is entered.
Running(a) == cl[a] \in {"vmRun", "run"}
OneRunner ==
  /\ \A a, b \in Actors : Running(a) /\ Running(b) => a = b
  /\ \A a \in Actors : Running(a) => core # "open"
  /\ core \in {"open", "writeback"} => ~wroteBack

\* A save ends the servicing, and the servicer closes the machine only when it
\* services no more: the outcome it leaves with is final.
SavedEndsServing ==
  /\ result = "saved" => srvPc \in {"releasing", "gone"}
  /\ cl["servicer"] \in {"none", "vm", "vmCore", "vmRun", "returned"}
  /\ cl["servicer"] # "none" => srvPc = "gone"

\* By then a saved suspend is marked, and its close has read the mark.
SavedIsMarked ==
  result = "saved" =>
    /\ cl["servicer"] # "none" => savedSuspend
    /\ cl["servicer"] \in {"vmCore", "vmRun"} => skip["servicer"]

LifeInv ==
  /\ TeardownOrder /\ OneRunner /\ SavedEndsServing /\ SavedIsMarked
  /\ ReportsAreTrue /\ SuspendSkipsWriteBack

(***************************************************************************)
(* The coordinator inside the machine.                                     *)
(***************************************************************************)

\* Every step of the machine is a step of the coordinator, or leaves it alone.
LEMMA LifeCoordStep == [Next]_vars => [CoordNext]_coordVars
  <1> SUFFICES ASSUME [Next]_vars
               PROVE  [CoordNext]_coordVars
    OBVIOUS
  <1>1. ASSUME NEW c \in Clients, SuspendRPC(c) PROVE [CoordNext]_coordVars
    BY <1>1 DEF SuspendRPC
  <1>2. ASSUME NEW c \in Clients, RequestAndWait(c) PROVE [CoordNext]_coordVars
    BY <1>2 DEF RequestAndWait, CoordNext
  <1>3. ASSUME NEW c \in Clients, SuspendReply(c) PROVE [CoordNext]_coordVars
    BY <1>3 DEF SuspendReply
  <1>4. CASE StartProvision
    BY <1>4 DEF StartProvision, CoordNext, ServicerStep
  <1>5. CASE StartRunning
    BY <1>5 DEF StartRunning
  <1>6. CASE StartFails
    BY <1>6 DEF StartFails, CoordNext, ServicerStep
  <1>7. CASE FailStop
    BY <1>7 DEF FailStop
  <1>8. CASE FailUnlock
    BY <1>8 DEF FailUnlock
  <1>9. CASE ServiceRequest
    BY <1>9 DEF ServiceRequest, CoordNext, ServicerStep
  <1>10. CASE SaveSucceeds
    BY <1>10 DEF SaveSucceeds, CoordNext, ServicerStep, Outcome
  <1>11. CASE SaveFails
    BY <1>11 DEF SaveFails, CoordNext, ServicerStep, Outcome
  <1>12. CASE HandleReturnsInStartup
    BY <1>12 DEF HandleReturnsInStartup, CoordNext, ServicerStep
  <1>13. CASE HandleReturns
    BY <1>13 DEF HandleReturns, CoordNext, ServicerStep
  <1>14. CASE ForegroundSuspend
    BY <1>14 DEF ForegroundSuspend, CoordNext, ServicerStep
  <1>15. CASE ServicerLeaves
    BY <1>15 DEF ServicerLeaves, CoordNext, ServicerStep
  <1>16. ASSUME NEW a \in Callers, Call(a) PROVE [CoordNext]_coordVars
    BY <1>16 DEF Call
  <1>17. ASSUME NEW a \in Actors, SaveVM(a) PROVE [CoordNext]_coordVars
    BY <1>17 DEF SaveVM
  <1>18. ASSUME NEW a \in Actors, KillQEMU(a) PROVE [CoordNext]_coordVars
    BY <1>18 DEF KillQEMU
  <1>19. ASSUME NEW a \in Actors, EnterVMOnce(a) PROVE [CoordNext]_coordVars
    BY <1>19 DEF EnterVMOnce
  <1>20. ASSUME NEW a \in Actors, EnterCloser(a) PROVE [CoordNext]_coordVars
    BY <1>20 DEF EnterCloser
  <1>21. ASSUME NEW a \in Actors, LeaveCloser(a) PROVE [CoordNext]_coordVars
    BY <1>21 DEF LeaveCloser
  <1>22. CASE WriteBack
    BY <1>22 DEF WriteBack
  <1>23. CASE CloseControl
    BY <1>23 DEF CloseControl
  <1>24. CASE CloseProcesses
    BY <1>24 DEF CloseProcesses
  <1>25. CASE Cleanup
    BY <1>25 DEF Cleanup
  <1>26. CASE ReapWakes
    BY <1>26 DEF ReapWakes
  <1>27. CASE ReapDone
    BY <1>27 DEF ReapDone
  <1>28. CASE QEMUExits
    BY <1>28 DEF QEMUExits
  <1>29. CASE ContextEnds
    BY <1>29 DEF ContextEnds
  <1>30. CASE HandleBegins
    BY <1>30 DEF HandleBegins, CoordNext, ServicerStep
  <1>31. CASE CopyBack
    BY <1>31 DEF CopyBack
  <1>32. CASE AgentFallsSilent
    BY <1>32 DEF AgentFallsSilent
  <1>33. CASE QEMUWedges
    BY <1>33 DEF QEMUWedges
  <1>34. ASSUME NEW a \in Actors, KillFails(a) PROVE [CoordNext]_coordVars
    BY <1>34 DEF KillFails
  <1>35. CASE UNCHANGED vars
    BY <1>35 DEF vars
  <1>36. QED
    BY <1>1, <1>2, <1>3, <1>4, <1>5, <1>6, <1>7, <1>8, <1>9, <1>10, <1>11,
       <1>12, <1>13, <1>14, <1>15, <1>16, <1>17, <1>18, <1>19, <1>20, <1>21,
       <1>22, <1>23, <1>24, <1>25, <1>26, <1>27, <1>28, <1>29, <1>30,
       <1>31, <1>32, <1>33, <1>34, <1>35
       DEF Next, ServicerProgress, ClosingStep, CloserProgress

\* The machine uses the coordinator as it is specified.
THEOREM MachineUsesCoordinator == Spec => CoordSpec
  <1>1. Init => CoordInit
    BY DEF Init
  <1>2. QED
    BY <1>1, LifeCoordStep, PTL DEF Spec, CoordSpec

\* Inside a machine, whatever closes it, the coordinator loses no waiter and no
\* wakeup, and gives everybody the one outcome.
THEOREM MachineKeepsWaiters == Spec => [](NoLostWaiter /\ NoLostWakeup)
  BY MachineUsesCoordinator, CoordKeepsWaiters, CoordKeepsWakeup, PTL

\* Every suspend RPC of the machine that is answered is told the one outcome the
\* launch recorded.
THEOREM MachineImplementsOutcome == Spec => ImplementsOutcome
  BY MachineUsesCoordinator, CoordImplementsOutcome, PTL

(***************************************************************************)
(* Closing the machine.                                                    *)
(***************************************************************************)

\* A servicer that is gone stays away, and a save it has recorded ends its serving:
\* from then on the outcome is final.
LEMMA SavedIsFinal ==
  ASSUME CoordInv, [CoordNext]_coordVars, result = "saved" => srvPc \in {"releasing", "gone"}
  PROVE  /\ result' = "saved" => srvPc' \in {"releasing", "gone"}
         /\ srvPc = "gone" => srvPc' = "gone" /\ result' = result
         /\ result = "saved" => result' = "saved"
  <1> USE DEF CoordInv, CoordTypeOK
  <1>1. ASSUME NEW c \in Clients, RequesterStep(c) PROVE UNCHANGED <<result, srvPc>>
    BY <1>1 DEF RequesterStep, RequestCompleted, RequestQueued, SendNotify, ReceiveOutcome,
                GiveUp
  <1>2. CASE NoneQueued \/ TakeNotify \/ RequestLocal \/ SendNotifyLocal \/ Begin
    BY <1>2 DEF NoneQueued, TakeNotify, RequestLocal, SendNotifyLocal, Begin
  <1>3. ASSUME NEW outcome \in Outcome, CompleteOnce(outcome)
        PROVE  /\ srvPc = "saving" /\ srvPc' = "releasing"
               /\ result = "saved" => result' = "saved"
    BY <1>3 DEF CompleteOnce, Complete, ServicerFlags
  <1>4. ASSUME NEW c \in Clients, Release(c) PROVE UNCHANGED <<result, srvPc>>
    BY <1>4 DEF Release
  <1>5. CASE EndHandle \/ StopServing
    BY <1>5 DEF EndHandle, StopServing
  <1>6. CASE UNCHANGED coordVars
    BY <1>6 DEF coordVars
  <1>7. QED
    BY <1>1, <1>2, <1>3, <1>4, <1>5, <1>6 DEF CoordNext, ServicerStep

\* Every step keeps the types.
LEMMA LifeTypeStep == TypeOK /\ CoordTypeOK' /\ [Next]_vars => TypeOK'
  <1> SUFFICES ASSUME TypeOK, CoordTypeOK', [Next]_vars
               PROVE  TypeOK'
    OBVIOUS
  <1> USE DEF TypeOK, Actors, StopQEMU, lifeVars
  <1>1. ASSUME NEW c \in Clients, SuspendRPC(c) PROVE TypeOK'
    BY <1>1 DEF SuspendRPC
  <1>2. ASSUME NEW c \in Clients, RequestAndWait(c) PROVE TypeOK'
    BY <1>2 DEF RequestAndWait
  <1>3. ASSUME NEW c \in Clients, SuspendReply(c) PROVE TypeOK'
    BY <1>3 DEF SuspendReply
  <1>4. CASE StartProvision
    BY <1>4 DEF StartProvision
  <1>5. CASE StartRunning
    BY <1>5 DEF StartRunning
  <1>6. CASE StartFails
    BY <1>6 DEF StartFails
  <1>7. CASE FailStop
    BY <1>7 DEF FailStop
  <1>8. CASE FailUnlock
    BY <1>8 DEF FailUnlock
  <1>9. CASE ServiceRequest
    BY <1>9 DEF ServiceRequest
  <1>10. CASE SaveSucceeds
    BY <1>10 DEF SaveSucceeds
  <1>11. CASE SaveFails
    BY <1>11 DEF SaveFails
  <1>12. CASE HandleReturnsInStartup
    BY <1>12 DEF HandleReturnsInStartup
  <1>13. CASE HandleReturns
    BY <1>13 DEF HandleReturns
  <1>14. CASE ForegroundSuspend
    BY <1>14 DEF ForegroundSuspend
  <1>15. CASE ServicerLeaves
    BY <1>15 DEF ServicerLeaves
  <1>16. ASSUME NEW a \in Callers, Call(a) PROVE TypeOK'
    BY <1>16 DEF Call
  <1>17. ASSUME NEW a \in Actors, SaveVM(a) PROVE TypeOK'
    <2>1. {finished', savedSuspend', ctlOpen', wroteBack', stopErr', lockHeld', vmDone',
           ctxDone'} \subseteq BOOLEAN
      BY <1>17, Zenon DEF SaveVM
    <2>2. cl' \in [Actors -> {"none", "saveVM", "killVM", "killRPC", "vm", "vmCore",
                              "core", "run", "vmRun", "returned"}]
      BY <1>17 DEF SaveVM
    <2>3. QED
      BY <1>17, <2>1, <2>2 DEF SaveVM
  <1>18. ASSUME NEW a \in Actors, KillQEMU(a) PROVE TypeOK'
    BY <1>18 DEF KillQEMU
  <1>19. ASSUME NEW a \in Actors, EnterVMOnce(a) PROVE TypeOK'
    BY <1>19 DEF EnterVMOnce
  <1>20. ASSUME NEW a \in Actors, EnterCloser(a) PROVE TypeOK'
    BY <1>20 DEF EnterCloser
  <1>21. ASSUME NEW a \in Actors, LeaveCloser(a) PROVE TypeOK'
    BY <1>21 DEF LeaveCloser
  <1>22. CASE WriteBack
    BY <1>22 DEF WriteBack
  <1>23. CASE CloseControl
    BY <1>23 DEF CloseControl
  <1>24. CASE CloseProcesses
    BY <1>24 DEF CloseProcesses
  <1>25. CASE Cleanup
    BY <1>25 DEF Cleanup
  <1>26. CASE ReapWakes
    BY <1>26 DEF ReapWakes
  <1>27. CASE ReapDone
    BY <1>27 DEF ReapDone
  <1>28. CASE QEMUExits
    BY <1>28 DEF QEMUExits
  <1>29. CASE ContextEnds
    BY <1>29 DEF ContextEnds
  <1>30. CASE HandleBegins
    BY <1>30 DEF HandleBegins
  <1>31. CASE CopyBack
    BY <1>31 DEF CopyBack
  <1>32. CASE AgentFallsSilent
    BY <1>32 DEF AgentFallsSilent
  <1>33. CASE QEMUWedges
    BY <1>33 DEF QEMUWedges
  <1>34. ASSUME NEW a \in Actors, KillFails(a) PROVE TypeOK'
    BY <1>34 DEF KillFails
  <1>35. CASE UNCHANGED vars
    BY <1>35 DEF vars, lifeVars
  <1>36. QED
    BY <1>1, <1>2, <1>3, <1>4, <1>5, <1>6, <1>7, <1>8, <1>9, <1>10, <1>11,
       <1>12, <1>13, <1>14, <1>15, <1>16, <1>17, <1>18, <1>19, <1>20, <1>21,
       <1>22, <1>23, <1>24, <1>25, <1>26, <1>27, <1>28, <1>29, <1>30,
       <1>31, <1>32, <1>33, <1>34, <1>35
       DEF Next, ServicerProgress, ClosingStep, CloserProgress

\* Both teardowns release the lock after QEMU.
LEMMA TeardownOrderStep == TypeOK /\ LifeInv /\ [Next]_vars => TeardownOrder'
  <1> SUFFICES ASSUME TypeOK, LifeInv, [Next]_vars
               PROVE  TeardownOrder'
    OBVIOUS
  <1> USE DEF TypeOK, LifeInv, TeardownOrder, StopQEMU, lifeVars
  <1>1. ASSUME NEW c \in Clients, SuspendRPC(c) PROVE TeardownOrder'
    BY <1>1 DEF SuspendRPC
  <1>2. ASSUME NEW c \in Clients, RequestAndWait(c) PROVE TeardownOrder'
    BY <1>2 DEF RequestAndWait
  <1>3. ASSUME NEW c \in Clients, SuspendReply(c) PROVE TeardownOrder'
    BY <1>3 DEF SuspendReply
  <1>4. CASE StartProvision
    BY <1>4 DEF StartProvision
  <1>5. CASE StartRunning
    BY <1>5 DEF StartRunning
  <1>6. CASE StartFails
    BY <1>6 DEF StartFails
  <1>7. CASE FailStop
    BY <1>7 DEF FailStop
  <1>8. CASE FailUnlock
    BY <1>8 DEF FailUnlock
  <1>9. CASE ServiceRequest
    BY <1>9 DEF ServiceRequest
  <1>10. CASE SaveSucceeds
    BY <1>10 DEF SaveSucceeds
  <1>11. CASE SaveFails
    BY <1>11 DEF SaveFails
  <1>12. CASE HandleReturnsInStartup
    BY <1>12 DEF HandleReturnsInStartup
  <1>13. CASE HandleReturns
    BY <1>13 DEF HandleReturns
  <1>14. CASE ForegroundSuspend
    BY <1>14 DEF ForegroundSuspend
  <1>15. CASE ServicerLeaves
    BY <1>15 DEF ServicerLeaves
  <1>16. ASSUME NEW a \in Callers, Call(a) PROVE TeardownOrder'
    BY <1>16 DEF Call
  <1>17. ASSUME NEW a \in Actors, SaveVM(a) PROVE TeardownOrder'
    BY <1>17 DEF SaveVM
  <1>18. ASSUME NEW a \in Actors, KillQEMU(a) PROVE TeardownOrder'
    BY <1>18 DEF KillQEMU
  <1>19. ASSUME NEW a \in Actors, EnterVMOnce(a) PROVE TeardownOrder'
    BY <1>19 DEF EnterVMOnce
  <1>20. ASSUME NEW a \in Actors, EnterCloser(a) PROVE TeardownOrder'
    BY <1>20 DEF EnterCloser
  <1>21. ASSUME NEW a \in Actors, LeaveCloser(a) PROVE TeardownOrder'
    BY <1>21 DEF LeaveCloser
  <1>22. CASE WriteBack
    BY <1>22 DEF WriteBack
  <1>23. CASE CloseControl
    BY <1>23 DEF CloseControl
  <1>24. CASE CloseProcesses
    BY <1>24 DEF CloseProcesses
  <1>25. CASE Cleanup
    BY <1>25 DEF Cleanup
  <1>26. CASE ReapWakes
    BY <1>26 DEF ReapWakes
  <1>27. CASE ReapDone
    BY <1>27 DEF ReapDone
  <1>28. CASE QEMUExits
    BY <1>28 DEF QEMUExits
  <1>29. CASE ContextEnds
    BY <1>29 DEF ContextEnds
  <1>30. CASE HandleBegins
    BY <1>30 DEF HandleBegins
  <1>31. CASE CopyBack
    BY <1>31 DEF CopyBack
  <1>32. CASE AgentFallsSilent
    BY <1>32 DEF AgentFallsSilent
  <1>33. CASE QEMUWedges
    BY <1>33 DEF QEMUWedges
  <1>34. ASSUME NEW a \in Actors, KillFails(a) PROVE TeardownOrder'
    BY <1>34 DEF KillFails
  <1>35. CASE UNCHANGED vars
    BY <1>35 DEF vars, lifeVars
  <1>36. QED
    BY <1>1, <1>2, <1>3, <1>4, <1>5, <1>6, <1>7, <1>8, <1>9, <1>10, <1>11,
       <1>12, <1>13, <1>14, <1>15, <1>16, <1>17, <1>18, <1>19, <1>20, <1>21,
       <1>22, <1>23, <1>24, <1>25, <1>26, <1>27, <1>28, <1>29, <1>30,
       <1>31, <1>32, <1>33, <1>34, <1>35
       DEF Next, ServicerProgress, ClosingStep, CloserProgress

\* The close actions have one runner.
LEMMA OneRunnerStep == TypeOK /\ LifeInv /\ [Next]_vars => OneRunner'
  <1> SUFFICES ASSUME TypeOK, LifeInv, [Next]_vars
               PROVE  OneRunner'
    OBVIOUS
  <1> USE DEF TypeOK, LifeInv, OneRunner, Running, lifeVars
  <1>1. ASSUME NEW c \in Clients, SuspendRPC(c) PROVE OneRunner'
    BY <1>1 DEF SuspendRPC
  <1>2. ASSUME NEW c \in Clients, RequestAndWait(c) PROVE OneRunner'
    BY <1>2 DEF RequestAndWait
  <1>3. ASSUME NEW c \in Clients, SuspendReply(c) PROVE OneRunner'
    BY <1>3 DEF SuspendReply
  <1>4. CASE StartProvision
    BY <1>4 DEF StartProvision
  <1>5. CASE StartRunning
    BY <1>5 DEF StartRunning
  <1>6. CASE StartFails
    BY <1>6 DEF StartFails
  <1>7. CASE FailStop
    BY <1>7 DEF FailStop
  <1>8. CASE FailUnlock
    BY <1>8 DEF FailUnlock
  <1>9. CASE ServiceRequest
    BY <1>9 DEF ServiceRequest
  <1>10. CASE SaveSucceeds
    BY <1>10 DEF SaveSucceeds
  <1>11. CASE SaveFails
    BY <1>11 DEF SaveFails
  <1>12. CASE HandleReturnsInStartup
    BY <1>12 DEF HandleReturnsInStartup
  <1>13. CASE HandleReturns
    BY <1>13 DEF HandleReturns
  <1>14. CASE ForegroundSuspend
    BY <1>14 DEF ForegroundSuspend
  <1>15. CASE ServicerLeaves
    BY <1>15 DEF ServicerLeaves
  <1>16. ASSUME NEW a \in Callers, Call(a) PROVE OneRunner'
    BY <1>16 DEF Call
  <1>17. ASSUME NEW a \in Actors, SaveVM(a) PROVE OneRunner'
    BY <1>17 DEF SaveVM
  <1>18. ASSUME NEW a \in Actors, KillQEMU(a) PROVE OneRunner'
    BY <1>18 DEF KillQEMU
  <1>19. ASSUME NEW a \in Actors, EnterVMOnce(a) PROVE OneRunner'
    BY <1>19 DEF EnterVMOnce
  <1>20. ASSUME NEW a \in Actors, EnterCloser(a) PROVE OneRunner'
    BY <1>20 DEF EnterCloser
  <1>21. ASSUME NEW a \in Actors, LeaveCloser(a) PROVE OneRunner'
    BY <1>21 DEF LeaveCloser
  <1>22. CASE WriteBack
    BY <1>22 DEF WriteBack
  <1>23. CASE CloseControl
    BY <1>23 DEF CloseControl
  <1>24. CASE CloseProcesses
    BY <1>24 DEF CloseProcesses
  <1>25. CASE Cleanup
    BY <1>25 DEF Cleanup
  <1>26. CASE ReapWakes
    BY <1>26 DEF ReapWakes
  <1>27. CASE ReapDone
    BY <1>27 DEF ReapDone
  <1>28. CASE QEMUExits
    BY <1>28 DEF QEMUExits
  <1>29. CASE ContextEnds
    BY <1>29 DEF ContextEnds
  <1>30. CASE HandleBegins
    BY <1>30 DEF HandleBegins
  <1>31. CASE CopyBack
    BY <1>31 DEF CopyBack
  <1>32. CASE AgentFallsSilent
    BY <1>32 DEF AgentFallsSilent
  <1>33. CASE QEMUWedges
    BY <1>33 DEF QEMUWedges
  <1>34. ASSUME NEW a \in Actors, KillFails(a) PROVE OneRunner'
    BY <1>34 DEF KillFails
  <1>35. CASE UNCHANGED vars
    BY <1>35 DEF vars, lifeVars
  <1>36. QED
    BY <1>1, <1>2, <1>3, <1>4, <1>5, <1>6, <1>7, <1>8, <1>9, <1>10, <1>11,
       <1>12, <1>13, <1>14, <1>15, <1>16, <1>17, <1>18, <1>19, <1>20, <1>21,
       <1>22, <1>23, <1>24, <1>25, <1>26, <1>27, <1>28, <1>29, <1>30,
       <1>31, <1>32, <1>33, <1>34, <1>35
       DEF Next, ServicerProgress, ClosingStep, CloserProgress

\* The servicer leaves with an outcome that no longer changes.
LEMMA SavedEndsServingStep == TypeOK /\ CoordInv /\ LifeInv /\ [Next]_vars => SavedEndsServing'
  <1> SUFFICES ASSUME TypeOK, CoordInv, LifeInv, [Next]_vars
               PROVE  SavedEndsServing'
    OBVIOUS
  <1>a. /\ result' = "saved" => srvPc' \in {"releasing", "gone"}
        /\ srvPc = "gone" => srvPc' = "gone" /\ result' = result
        /\ result = "saved" => result' = "saved"
    BY LifeCoordStep, SavedIsFinal DEF LifeInv, SavedEndsServing
  <1> USE CallersAssumption DEF TypeOK, LifeInv, SavedEndsServing, Actors, lifeVars
  <1>1. ASSUME NEW c \in Clients, SuspendRPC(c) PROVE SavedEndsServing'
    BY <1>1, <1>a DEF SuspendRPC
  <1>2. ASSUME NEW c \in Clients, RequestAndWait(c) PROVE SavedEndsServing'
    BY <1>2, <1>a DEF RequestAndWait
  <1>3. ASSUME NEW c \in Clients, SuspendReply(c) PROVE SavedEndsServing'
    BY <1>3, <1>a DEF SuspendReply
  <1>4. CASE StartProvision
    BY <1>4, <1>a DEF StartProvision
  <1>5. CASE StartRunning
    BY <1>5, <1>a DEF StartRunning
  <1>6. CASE StartFails
    BY <1>6, <1>a DEF StartFails
  <1>7. CASE FailStop
    BY <1>7, <1>a DEF FailStop
  <1>8. CASE FailUnlock
    BY <1>8, <1>a DEF FailUnlock
  <1>9. CASE ServiceRequest
    BY <1>9, <1>a DEF ServiceRequest
  <1>10. CASE SaveSucceeds
    BY <1>10, <1>a DEF SaveSucceeds
  <1>11. CASE SaveFails
    BY <1>11, <1>a DEF SaveFails
  <1>12. CASE HandleReturnsInStartup
    BY <1>12, <1>a DEF HandleReturnsInStartup
  <1>13. CASE HandleReturns
    BY <1>13, <1>a DEF HandleReturns, EndHandle
  <1>14. CASE ForegroundSuspend
    BY <1>14, <1>a DEF ForegroundSuspend
  <1>15. CASE ServicerLeaves
    BY <1>15, <1>a DEF ServicerLeaves, StopServing
  <1>16. ASSUME NEW a \in Callers, Call(a) PROVE SavedEndsServing'
    BY <1>16, <1>a DEF Call
  <1>17. ASSUME NEW a \in Actors, SaveVM(a) PROVE SavedEndsServing'
    BY <1>17, <1>a DEF SaveVM
  <1>18. ASSUME NEW a \in Actors, KillQEMU(a) PROVE SavedEndsServing'
    BY <1>18, <1>a DEF KillQEMU
  <1>19. ASSUME NEW a \in Actors, EnterVMOnce(a) PROVE SavedEndsServing'
    BY <1>19, <1>a DEF EnterVMOnce
  <1>20. ASSUME NEW a \in Actors, EnterCloser(a) PROVE SavedEndsServing'
    BY <1>20, <1>a DEF EnterCloser
  <1>21. ASSUME NEW a \in Actors, LeaveCloser(a) PROVE SavedEndsServing'
    BY <1>21, <1>a DEF LeaveCloser
  <1>22. CASE WriteBack
    BY <1>22, <1>a DEF WriteBack
  <1>23. CASE CloseControl
    BY <1>23, <1>a DEF CloseControl
  <1>24. CASE CloseProcesses
    BY <1>24, <1>a DEF CloseProcesses
  <1>25. CASE Cleanup
    BY <1>25, <1>a DEF Cleanup
  <1>26. CASE ReapWakes
    BY <1>26, <1>a DEF ReapWakes
  <1>27. CASE ReapDone
    BY <1>27, <1>a DEF ReapDone
  <1>28. CASE QEMUExits
    BY <1>28, <1>a DEF QEMUExits
  <1>29. CASE ContextEnds
    BY <1>29, <1>a DEF ContextEnds
  <1>30. CASE HandleBegins
    BY <1>30, <1>a DEF HandleBegins
  <1>31. CASE CopyBack
    BY <1>31, <1>a DEF CopyBack
  <1>32. CASE AgentFallsSilent
    BY <1>32, <1>a DEF AgentFallsSilent
  <1>33. CASE QEMUWedges
    BY <1>33, <1>a DEF QEMUWedges
  <1>34. ASSUME NEW a \in Actors, KillFails(a) PROVE SavedEndsServing'
    BY <1>34, <1>a DEF KillFails
  <1>35. CASE UNCHANGED vars
    BY <1>35, <1>a DEF vars
  <1>36. QED
    BY <1>1, <1>2, <1>3, <1>4, <1>5, <1>6, <1>7, <1>8, <1>9, <1>10, <1>11,
       <1>12, <1>13, <1>14, <1>15, <1>16, <1>17, <1>18, <1>19, <1>20, <1>21,
       <1>22, <1>23, <1>24, <1>25, <1>26, <1>27, <1>28, <1>29, <1>30,
       <1>31, <1>32, <1>33, <1>34, <1>35
       DEF Next, ServicerProgress, ClosingStep, CloserProgress

\* A saved suspend is marked before its close reads the mark.
LEMMA SavedIsMarkedStep == TypeOK /\ CoordInv /\ LifeInv /\ [Next]_vars => SavedIsMarked'
  <1> SUFFICES ASSUME TypeOK, CoordInv, LifeInv, [Next]_vars
               PROVE  SavedIsMarked'
    OBVIOUS
  <1>a. /\ result' = "saved" => srvPc' \in {"releasing", "gone"}
        /\ srvPc = "gone" => srvPc' = "gone" /\ result' = result
        /\ result = "saved" => result' = "saved"
    BY LifeCoordStep, SavedIsFinal DEF LifeInv, SavedEndsServing
  <1> USE CallersAssumption DEF TypeOK, LifeInv, SavedEndsServing, SavedIsMarked, Actors, lifeVars
  <1>1. ASSUME NEW c \in Clients, SuspendRPC(c) PROVE SavedIsMarked'
    BY <1>1, <1>a DEF SuspendRPC
  <1>2. ASSUME NEW c \in Clients, RequestAndWait(c) PROVE SavedIsMarked'
    BY <1>2, <1>a DEF RequestAndWait
  <1>3. ASSUME NEW c \in Clients, SuspendReply(c) PROVE SavedIsMarked'
    BY <1>3, <1>a DEF SuspendReply
  <1>4. CASE StartProvision
    BY <1>4, <1>a DEF StartProvision
  <1>5. CASE StartRunning
    BY <1>5, <1>a DEF StartRunning
  <1>6. CASE StartFails
    BY <1>6, <1>a DEF StartFails
  <1>7. CASE FailStop
    BY <1>7, <1>a DEF FailStop
  <1>8. CASE FailUnlock
    BY <1>8, <1>a DEF FailUnlock
  <1>9. CASE ServiceRequest
    BY <1>9, <1>a DEF ServiceRequest
  <1>10. CASE SaveSucceeds
    BY <1>10, <1>a DEF SaveSucceeds
  <1>11. CASE SaveFails
    BY <1>11, <1>a DEF SaveFails
  <1>12. CASE HandleReturnsInStartup
    BY <1>12, <1>a DEF HandleReturnsInStartup
  <1>13. CASE HandleReturns
    BY <1>13, <1>a DEF HandleReturns, EndHandle
  <1>14. CASE ForegroundSuspend
    BY <1>14, <1>a DEF ForegroundSuspend
  <1>15. CASE ServicerLeaves
    BY <1>15, <1>a DEF ServicerLeaves, StopServing
  <1>16. ASSUME NEW a \in Callers, Call(a) PROVE SavedIsMarked'
    BY <1>16, <1>a DEF Call
  <1>17. ASSUME NEW a \in Actors, SaveVM(a) PROVE SavedIsMarked'
    BY <1>17, <1>a DEF SaveVM
  <1>18. ASSUME NEW a \in Actors, KillQEMU(a) PROVE SavedIsMarked'
    BY <1>18, <1>a DEF KillQEMU
  <1>19. ASSUME NEW a \in Actors, EnterVMOnce(a) PROVE SavedIsMarked'
    BY <1>19, <1>a DEF EnterVMOnce
  <1>20. ASSUME NEW a \in Actors, EnterCloser(a) PROVE SavedIsMarked'
    BY <1>20, <1>a DEF EnterCloser
  <1>21. ASSUME NEW a \in Actors, LeaveCloser(a) PROVE SavedIsMarked'
    BY <1>21, <1>a DEF LeaveCloser
  <1>22. CASE WriteBack
    BY <1>22, <1>a DEF WriteBack
  <1>23. CASE CloseControl
    BY <1>23, <1>a DEF CloseControl
  <1>24. CASE CloseProcesses
    BY <1>24, <1>a DEF CloseProcesses
  <1>25. CASE Cleanup
    BY <1>25, <1>a DEF Cleanup
  <1>26. CASE ReapWakes
    BY <1>26, <1>a DEF ReapWakes
  <1>27. CASE ReapDone
    BY <1>27, <1>a DEF ReapDone
  <1>28. CASE QEMUExits
    BY <1>28, <1>a DEF QEMUExits
  <1>29. CASE ContextEnds
    BY <1>29, <1>a DEF ContextEnds
  <1>30. CASE HandleBegins
    BY <1>30, <1>a DEF HandleBegins
  <1>31. CASE CopyBack
    BY <1>31, <1>a DEF CopyBack
  <1>32. CASE AgentFallsSilent
    BY <1>32, <1>a DEF AgentFallsSilent
  <1>33. CASE QEMUWedges
    BY <1>33, <1>a DEF QEMUWedges
  <1>34. ASSUME NEW a \in Actors, KillFails(a) PROVE SavedIsMarked'
    BY <1>34, <1>a DEF KillFails
  <1>35. CASE UNCHANGED vars
    BY <1>35, <1>a DEF vars
  <1>36. QED
    BY <1>1, <1>2, <1>3, <1>4, <1>5, <1>6, <1>7, <1>8, <1>9, <1>10, <1>11,
       <1>12, <1>13, <1>14, <1>15, <1>16, <1>17, <1>18, <1>19, <1>20, <1>21,
       <1>22, <1>23, <1>24, <1>25, <1>26, <1>27, <1>28, <1>29, <1>30,
       <1>31, <1>32, <1>33, <1>34, <1>35
       DEF Next, ServicerProgress, ClosingStep, CloserProgress

\* What was reported stays true.
LEMMA ReportsAreTrueStep == TypeOK /\ CoordInv /\ LifeInv /\ [Next]_vars => ReportsAreTrue'
  <1> SUFFICES ASSUME TypeOK, CoordInv, LifeInv, [Next]_vars
               PROVE  ReportsAreTrue'
    OBVIOUS
  <1>a. result = "saved" => result' = "saved"
    BY LifeCoordStep, SavedIsFinal DEF LifeInv, SavedEndsServing
  <1> USE DEF TypeOK, LifeInv, TeardownOrder, ReportsAreTrue, lifeVars
  <1>1. ASSUME NEW c \in Clients, SuspendRPC(c) PROVE ReportsAreTrue'
    BY <1>1, <1>a DEF SuspendRPC, StopQEMU
  <1>2. ASSUME NEW c \in Clients, RequestAndWait(c) PROVE ReportsAreTrue'
    BY <1>2, <1>a DEF RequestAndWait, StopQEMU
  <1>3. ASSUME NEW c \in Clients, SuspendReply(c) PROVE ReportsAreTrue'
    BY <1>3, <1>a DEF SuspendReply, CoordInv, ChannelOnce, coordVars
  <1>4. CASE StartProvision
    BY <1>4, <1>a DEF StartProvision, StopQEMU
  <1>5. CASE StartRunning
    BY <1>5, <1>a DEF StartRunning, StopQEMU
  <1>6. CASE StartFails
    BY <1>6, <1>a DEF StartFails, StopQEMU
  <1>7. CASE FailStop
    BY <1>7, <1>a DEF FailStop, StopQEMU
  <1>8. CASE FailUnlock
    BY <1>8, <1>a DEF FailUnlock, StopQEMU
  <1>9. CASE ServiceRequest
    BY <1>9, <1>a DEF ServiceRequest, StopQEMU
  <1>10. CASE SaveSucceeds
    BY <1>10, <1>a DEF SaveSucceeds, StopQEMU
  <1>11. CASE SaveFails
    BY <1>11, <1>a DEF SaveFails, StopQEMU
  <1>12. CASE HandleReturnsInStartup
    BY <1>12, <1>a DEF HandleReturnsInStartup, StopQEMU
  <1>13. CASE HandleReturns
    BY <1>13, <1>a DEF HandleReturns, StopQEMU
  <1>14. CASE ForegroundSuspend
    BY <1>14, <1>a DEF ForegroundSuspend, StopQEMU
  <1>15. CASE ServicerLeaves
    BY <1>15, <1>a DEF ServicerLeaves, StopQEMU
  <1>16. ASSUME NEW a \in Callers, Call(a) PROVE ReportsAreTrue'
    BY <1>16, <1>a DEF Call, StopQEMU
  <1>17. ASSUME NEW a \in Actors, SaveVM(a) PROVE ReportsAreTrue'
    BY <1>17, <1>a DEF SaveVM, StopQEMU
  <1>18. ASSUME NEW a \in Actors, KillQEMU(a) PROVE ReportsAreTrue'
    BY <1>18, <1>a DEF KillQEMU, StopQEMU
  <1>19. ASSUME NEW a \in Actors, EnterVMOnce(a) PROVE ReportsAreTrue'
    BY <1>19, <1>a DEF EnterVMOnce, StopQEMU
  <1>20. ASSUME NEW a \in Actors, EnterCloser(a) PROVE ReportsAreTrue'
    BY <1>20, <1>a DEF EnterCloser, StopQEMU
  <1>21. ASSUME NEW a \in Actors, LeaveCloser(a) PROVE ReportsAreTrue'
    BY <1>21, <1>a DEF LeaveCloser, StopQEMU
  <1>22. CASE WriteBack
    BY <1>22, <1>a DEF WriteBack, StopQEMU
  <1>23. CASE CloseControl
    BY <1>23, <1>a DEF CloseControl, StopQEMU
  <1>24. CASE CloseProcesses
    BY <1>24, <1>a DEF CloseProcesses, StopQEMU
  <1>25. CASE Cleanup
    BY <1>25, <1>a DEF Cleanup, StopQEMU
  <1>26. CASE ReapWakes
    BY <1>26, <1>a DEF ReapWakes, StopQEMU
  <1>27. CASE ReapDone
    BY <1>27, <1>a DEF ReapDone, Actors
  <1>28. CASE QEMUExits
    BY <1>28, <1>a DEF QEMUExits, StopQEMU
  <1>29. CASE ContextEnds
    BY <1>29, <1>a DEF ContextEnds, StopQEMU
  <1>30. CASE HandleBegins
    BY <1>30, <1>a DEF HandleBegins, StopQEMU
  <1>31. CASE CopyBack
    BY <1>31, <1>a DEF CopyBack, StopQEMU
  <1>32. CASE AgentFallsSilent
    BY <1>32, <1>a DEF AgentFallsSilent, StopQEMU
  <1>33. CASE QEMUWedges
    BY <1>33, <1>a DEF QEMUWedges, StopQEMU
  <1>34. ASSUME NEW a \in Actors, KillFails(a) PROVE ReportsAreTrue'
    BY <1>34, <1>a DEF KillFails, StopQEMU
  <1>35. CASE UNCHANGED vars
    BY <1>35, <1>a DEF vars
  <1>36. QED
    BY <1>1, <1>2, <1>3, <1>4, <1>5, <1>6, <1>7, <1>8, <1>9, <1>10, <1>11,
       <1>12, <1>13, <1>14, <1>15, <1>16, <1>17, <1>18, <1>19, <1>20, <1>21,
       <1>22, <1>23, <1>24, <1>25, <1>26, <1>27, <1>28, <1>29, <1>30,
       <1>31, <1>32, <1>33, <1>34, <1>35
       DEF Next, ServicerProgress, ClosingStep, CloserProgress

\* The servicer's own teardown of a saved machine never writes back.
LEMMA SuspendSkipsStep == TypeOK /\ CoordInv /\ LifeInv /\ [Next]_vars => SuspendSkipsWriteBack'
  <1> SUFFICES ASSUME TypeOK, CoordInv, LifeInv, [Next]_vars
               PROVE  SuspendSkipsWriteBack'
    OBVIOUS
  <1>a. /\ result' = "saved" => srvPc' \in {"releasing", "gone"}
        /\ srvPc = "gone" => srvPc' = "gone" /\ result' = result
        /\ result = "saved" => result' = "saved"
    BY LifeCoordStep, SavedIsFinal DEF LifeInv, SavedEndsServing
  <1> USE CallersAssumption DEF TypeOK, LifeInv, SavedEndsServing, SavedIsMarked, OneRunner, Running, SuspendSkipsWriteBack, Actors, lifeVars
  <1>1. ASSUME NEW c \in Clients, SuspendRPC(c) PROVE SuspendSkipsWriteBack'
    BY <1>1, <1>a DEF SuspendRPC
  <1>2. ASSUME NEW c \in Clients, RequestAndWait(c) PROVE SuspendSkipsWriteBack'
    BY <1>2, <1>a DEF RequestAndWait
  <1>3. ASSUME NEW c \in Clients, SuspendReply(c) PROVE SuspendSkipsWriteBack'
    BY <1>3, <1>a DEF SuspendReply
  <1>4. CASE StartProvision
    BY <1>4, <1>a DEF StartProvision
  <1>5. CASE StartRunning
    BY <1>5, <1>a DEF StartRunning
  <1>6. CASE StartFails
    BY <1>6, <1>a DEF StartFails
  <1>7. CASE FailStop
    BY <1>7, <1>a DEF FailStop
  <1>8. CASE FailUnlock
    BY <1>8, <1>a DEF FailUnlock
  <1>9. CASE ServiceRequest
    BY <1>9, <1>a DEF ServiceRequest
  <1>10. CASE SaveSucceeds
    BY <1>10, <1>a DEF SaveSucceeds
  <1>11. CASE SaveFails
    BY <1>11, <1>a DEF SaveFails
  <1>12. CASE HandleReturnsInStartup
    BY <1>12, <1>a DEF HandleReturnsInStartup
  <1>13. CASE HandleReturns
    BY <1>13, <1>a DEF HandleReturns, EndHandle
  <1>14. CASE ForegroundSuspend
    BY <1>14, <1>a DEF ForegroundSuspend
  <1>15. CASE ServicerLeaves
    BY <1>15, <1>a DEF ServicerLeaves, StopServing
  <1>16. ASSUME NEW a \in Callers, Call(a) PROVE SuspendSkipsWriteBack'
    BY <1>16, <1>a DEF Call
  <1>17. ASSUME NEW a \in Actors, SaveVM(a) PROVE SuspendSkipsWriteBack'
    BY <1>17, <1>a DEF SaveVM
  <1>18. ASSUME NEW a \in Actors, KillQEMU(a) PROVE SuspendSkipsWriteBack'
    BY <1>18, <1>a DEF KillQEMU
  <1>19. ASSUME NEW a \in Actors, EnterVMOnce(a) PROVE SuspendSkipsWriteBack'
    BY <1>19, <1>a DEF EnterVMOnce
  <1>20. ASSUME NEW a \in Actors, EnterCloser(a) PROVE SuspendSkipsWriteBack'
    BY <1>20, <1>a DEF EnterCloser
  <1>21. ASSUME NEW a \in Actors, LeaveCloser(a) PROVE SuspendSkipsWriteBack'
    BY <1>21, <1>a DEF LeaveCloser
  <1>22. CASE WriteBack
    BY <1>22, <1>a DEF WriteBack
  <1>23. CASE CloseControl
    BY <1>23, <1>a DEF CloseControl
  <1>24. CASE CloseProcesses
    BY <1>24, <1>a DEF CloseProcesses
  <1>25. CASE Cleanup
    BY <1>25, <1>a DEF Cleanup
  <1>26. CASE ReapWakes
    BY <1>26, <1>a DEF ReapWakes
  <1>27. CASE ReapDone
    BY <1>27, <1>a DEF ReapDone
  <1>28. CASE QEMUExits
    BY <1>28, <1>a DEF QEMUExits
  <1>29. CASE ContextEnds
    BY <1>29, <1>a DEF ContextEnds
  <1>30. CASE HandleBegins
    BY <1>30, <1>a DEF HandleBegins
  <1>31. CASE CopyBack
    BY <1>31, <1>a DEF CopyBack
  <1>32. CASE AgentFallsSilent
    BY <1>32, <1>a DEF AgentFallsSilent
  <1>33. CASE QEMUWedges
    BY <1>33, <1>a DEF QEMUWedges
  <1>34. ASSUME NEW a \in Actors, KillFails(a) PROVE SuspendSkipsWriteBack'
    BY <1>34, <1>a DEF KillFails
  <1>35. CASE UNCHANGED vars
    BY <1>35, <1>a DEF vars
  <1>36. QED
    BY <1>1, <1>2, <1>3, <1>4, <1>5, <1>6, <1>7, <1>8, <1>9, <1>10, <1>11,
       <1>12, <1>13, <1>14, <1>15, <1>16, <1>17, <1>18, <1>19, <1>20, <1>21,
       <1>22, <1>23, <1>24, <1>25, <1>26, <1>27, <1>28, <1>29, <1>30,
       <1>31, <1>32, <1>33, <1>34, <1>35
       DEF Next, ServicerProgress, ClosingStep, CloserProgress

\* A machine whose control socket has just begun to listen.
LEMMA LifeInit == Init => TypeOK /\ LifeInv
  <1> SUFFICES ASSUME Init
               PROVE  TypeOK /\ LifeInv
    OBVIOUS
  <1> USE CallersAssumption DEF Init, Actors
  <1>1. CoordTypeOK
    BY CoordInitInv DEF CoordInv
  <1>2. skip \in [Actors -> BOOLEAN]
    BY Zenon
  <1>3. {finished, savedSuspend, ctlOpen, wroteBack, stopErr, lockHeld, vmDone, ctxDone}
          \subseteq BOOLEAN
    BY Zenon
  <1>4. TypeOK
    BY <1>1, <1>2, <1>3 DEF TypeOK
  <1>5. result = "none" /\ srvPc = "startup"
    BY DEF CoordInit
  <1>6. QED
    BY <1>4, <1>5 DEF LifeInv, TeardownOrder, OneRunner, Running, SavedEndsServing,
       SavedIsMarked, ReportsAreTrue, SuspendSkipsWriteBack

(***************************************************************************)
(* The theorems.                                                           *)
(***************************************************************************)

\* The machine's state keeps its types, and the teardown its order.
THEOREM MachineInvariant == Spec => [](TypeOK /\ CoordInv /\ LifeInv)
  <1>1. Init => TypeOK /\ CoordInv /\ LifeInv
    BY LifeInit, CoordInitInv DEF Init
  <1>2. TypeOK /\ CoordInv /\ LifeInv /\ [Next]_vars => (TypeOK /\ CoordInv /\ LifeInv)'
    <2> SUFFICES ASSUME TypeOK, CoordInv, LifeInv, [Next]_vars
                 PROVE  (TypeOK /\ CoordInv /\ LifeInv)'
      OBVIOUS
    <2>1. CoordInv'
      BY LifeCoordStep, CoordStepInv
    <2>2. TypeOK'
      BY <2>1, LifeTypeStep DEF CoordInv
    <2>3. LifeInv'
      BY TeardownOrderStep, OneRunnerStep, SavedEndsServingStep, SavedIsMarkedStep,
         ReportsAreTrueStep, SuspendSkipsStep DEF LifeInv
    <2>4. QED
      BY <2>1, <2>2, <2>3
  <1>3. QED
    BY <1>1, <1>2, PTL DEF Spec

\* Neither Cleanup nor the failed startup releases the launch lock before QEMU has
\* exited or its stop has reported an error.
THEOREM MachineLockOutlivesQEMU == Spec => []LockOutlivesQEMU
  <1>1. LifeInv => LockOutlivesQEMU
    BY DEF LifeInv, TeardownOrder, LockOutlivesQEMU
  <1>2. QED
    BY MachineInvariant, <1>1, PTL

\* VM.done, the return of every Shutdown and Kill, and the "suspended" state are
\* true when they are reported, whoever ran the teardown.
THEOREM MachineReportsAreTrue == Spec => []ReportsAreTrue
  <1>1. LifeInv => ReportsAreTrue
    BY DEF LifeInv
  <1>2. QED
    BY MachineInvariant, <1>1, PTL

\* The close that a successful suspend runs itself skips WriteBack: MarkSavedSuspend
\* comes before it, and no other actor can run the actions in its place.
THEOREM MachineSkipsWriteBack == Spec => []SuspendSkipsWriteBack
  <1>1. LifeInv => SuspendSkipsWriteBack
    BY DEF LifeInv
  <1>2. QED
    BY MachineInvariant, <1>1, PTL

=============================================================================
