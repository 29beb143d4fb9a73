----------------------------- MODULE HotplugProofs -----------------------------
(***************************************************************************)
(* Hotplug, proved for every set of devices and every number of ports and  *)
(* helpers: one inductive invariant carries the four safety properties of  *)
(* the module through every interleaving of an operation with the end of   *)
(* its context, of a helper, of the QMP session and of the machine.        *)
(***************************************************************************)
EXTENDS Hotplug, WellFoundedInduction, TLAPS

-----------------------------------------------------------------------------
(* The inductive invariant *)

AttachPCs == {"spawn", "socket", "port", "backend", "device", "mount", "register",
              "release", "rollbackQMP", "rollbackHost"}
DetachPCs == {"umount", "detach", "unback", "remove"}
PCs == {"idle"} \cup AttachPCs \cup DetachPCs

\* The type invariant: helpers are numbered in the order they start, so the
\* next one is unknown to every part of the state.
TypeOK ==
  /\ attached \in SUBSET Devices
  /\ port \in [Devices -> Nat]
  /\ helper \in [Devices -> 0 .. started]
  /\ op \in [pc : PCs, dev : Devices \cup {"none"}, port : Nat, helper : 0 .. started]
  /\ op.pc # "idle" => op.dev \in Devices
  /\ ended \in BOOLEAN
  /\ group \in SUBSET (1 .. started)
  /\ teardown \in {"no", "stopping", "closed"}
  /\ snapshot \in SUBSET (1 .. started)
  /\ backends \in SUBSET Devices
  /\ frontends \in [Devices -> Nat]
  /\ mounted \in SUBSET Devices
  /\ alive \in SUBSET (1 .. started)
  /\ started \in Nat
  /\ broken \in BOOLEAN
  /\ unstoppable \in SUBSET (1 .. started)
  /\ late \in SUBSET (1 .. started)
  /\ lostUnmount \in SUBSET Devices
  /\ cutShort \in SUBSET Devices
  /\ kept \in SUBSET Devices

\* What an operation knows while it holds Runtime.mu: an attach works on a
\* device that is not registered, a detach on one that is and with the helper
\* the registry has, and a port is in hand from its reservation on.
OpInv ==
  /\ op.pc \in AttachPCs => op.dev \notin attached
  /\ op.pc = "spawn" => op.helper = NoHelper
  /\ op.pc \in {"backend", "device", "mount", "register", "rollbackQMP"} => op.port # NoPort
  /\ op.pc \in DetachPCs => op.dev \in attached /\ op.helper = helper[op.dev]
  /\ \A d \in Devices : d \in attached <=> port[d] # NoPort

\* Every helper that runs and can be stopped belongs to a registered device
\* or to the attach under way.
OwnedInv ==
  \A h \in alive \ unstoppable :
    \/ \E d \in attached : helper[d] = h
    \/ op.pc \in AttachPCs /\ op.helper = h

\* The process set knows the helper of every registered device that runs; after
\* Close took its members it gains none but late ones, and once Close is done
\* its members are gone or unstoppable.
SetInv ==
  /\ \A d \in attached : helper[d] \in alive \ unstoppable => helper[d] \in group
  /\ teardown # "no" => group \subseteq snapshot \cup late
  /\ teardown = "closed" => snapshot \cap alive \subseteq unstoppable

\* QEMU has of d what the registry says, or what it refused to remove.
Matches(d) ==
  /\ d \notin kept => (d \in backends <=> d \in attached)
  /\ d \in kept => /\ d \in backends
                   /\ d \in attached => frontends[d] \in {NoPort, port[d]}
  /\ d \in cutShort => d \in attached /\ frontends[d] = NoPort
  /\ d \notin cutShort \cup kept => frontends[d] = port[d]

\* QEMU has this much of the device of the operation under way: an attach gets
\* past its first command only with a device that QEMU has not kept.
Stage ==
  /\ op.pc \in {"device", "mount", "register", "release", "rollbackQMP"}
       => op.dev \in backends /\ op.dev \notin kept
  /\ op.pc = "unback" => op.dev \in backends
  /\ op.pc = "remove" => op.dev \notin backends
  /\ op.pc \in {"spawn", "socket", "port", "backend", "rollbackHost"}
       => \/ op.dev \in backends /\ op.dev \in kept
          \/ op.dev \notin backends /\ op.dev \notin kept /\ frontends[op.dev] = NoPort
  /\ op.pc \in {"mount", "register", "rollbackQMP"} => frontends[op.dev] = op.port
  /\ op.pc \in {"device", "release", "unback", "remove"} => frontends[op.dev] = NoPort
  /\ op.pc \in AttachPCs \cup {"unback", "remove"} => op.dev \notin cutShort

\* While the session is sound, QEMU and the registry differ at most in the
\* device of the operation under way, and in that by what it has done so far.
QemuInv ==
  ~broken =>
    /\ \A d \in Devices :
         d # op.dev \/ op.pc \in {"idle", "umount", "detach"} => Matches(d)
    /\ Stage

\* A registered share is mounted, was unmounted by a command whose answer was
\* lost, is kept by QEMU, or is being detached.
MountInv ==
  /\ \A d \in cutShort : d \notin Targeted
  /\ op.pc = "register" /\ op.dev \in Targeted => op.dev \in mounted
  /\ ~broken => \A d \in attached \cap Targeted :
       \/ d \in mounted \cup lostUnmount \cup kept
       \/ op.dev = d /\ op.pc \in {"detach", "unback", "remove"}

HotplugInv == OpInv /\ OwnedInv /\ SetInv /\ QemuInv /\ MountInv

-----------------------------------------------------------------------------
(* The operators *)

\* A nonempty set of port numbers has a least element, so the CHOOSE of
\* AllocatePort picks one of it.
LEMMA LeastPort ==
  ASSUME NEW T \in SUBSET Nat, T # {}
  PROVE  (CHOOSE p \in T : \A q \in T : p <= q) \in T
  <1> DEFINE Below == {ss \in Nat \X Nat : ss[1] < ss[2]}
  <1>1. IsWellFoundedOn(Below, Nat)
    BY NatLessThanWellFounded, Zenon DEF OpToRel
  <1>2. \E x \in T : \A y \in T : ~ (<<y, x>> \in Below)
    <2> HIDE DEF Below
    <2> QED BY <1>1, WFMin
  <1>3. PICK x \in T : \A y \in T : ~ (<<y, x>> \in Below)
    BY <1>2
  <1>4. ASSUME NEW y \in T PROVE x <= y
    <2>1. <<y, x>> \notin Below
      BY <1>3
    <2>2. ~ (y < x)
      BY <2>1
    <2>3. QED BY <2>2
  <1>5. QED BY <1>4

\* AllocatePort returns NoPort or one of the ports that no device occupies.
LEMMA AllocatesPort ==
  ASSUME NEW preferred \in Nat
  PROVE  /\ AllocatePort(preferred) \in Nat
         /\ \/ AllocatePort(preferred) = NoPort
            \/ /\ AllocatePort(preferred) \in 0 .. Ports - 1
               /\ \A d \in attached : port[d] # AllocatePort(preferred)
  <1> DEFINE occupied == {port[d] : d \in attached}
             free == (0 .. Ports - 1) \ occupied
             least == CHOOSE p \in free : \A q \in free : p <= q
  <1>1. AllocatePort(preferred) =
          IF preferred \in free THEN preferred ELSE IF free = {} THEN NoPort ELSE least
    BY DEF AllocatePort
  <1>2. free \in SUBSET Nat
    BY HotplugAssumption
  <1>3. free # {} => least \in free
    <2> HIDE DEF free
    <2> QED BY <1>2, LeastPort
  <1>4. AllocatePort(preferred) \in free \cup {NoPort}
    <2> HIDE DEF free, least
    <2> QED BY <1>1, <1>3
  <1>5. NoPort \in Nat
    BY HotplugAssumption DEF NoPort
  <1>6. QED BY <1>2, <1>4, <1>5

\* A rollback after the first command has nothing to release in QEMU, one
\* after the second has the backend.
LEMMA RollbackTargets ==
  RollbackFrom(0) = "rollbackHost" /\ RollbackFrom(1) = "release"
  <1>1. SubSeq(<<op.dev>>, 1, 0) = <<>> /\ SubSeq(<<op.dev>>, 1, 1) # <<>>
    OBVIOUS
  <1>2. QED BY <1>1 DEF RollbackFrom, Plan

\* The one backend and the one release command of a plan are the device's own.
LEMMA PlanIsItself ==
  \A d : Head(Plan(d).backend) = d /\ Head(Plan(d).release) = d
  BY DEF Plan

\* Stop changes what is known of one helper only, which is gone afterwards or
\* has become unstoppable.
LEMMA StopEffect ==
  ASSUME NEW h, Stop(h)
  PROVE  /\ alive' \subseteq alive
         /\ unstoppable \subseteq unstoppable' /\ unstoppable' \subseteq unstoppable \cup alive
         /\ h \in alive' => h \in unstoppable'
         /\ \A g : g # h => (g \in alive' <=> g \in alive)
  BY DEF Stop

\* The same of the helper of a device, if it has one.
LEMMA StopsHelperEffect ==
  ASSUME NEW h, StopsHelper(h), NoHelper \notin alive
  PROVE  /\ alive' \subseteq alive
         /\ unstoppable \subseteq unstoppable' /\ unstoppable' \subseteq unstoppable \cup alive
         /\ h \in alive' => h \in unstoppable'
         /\ \A g : g # h => (g \in alive' <=> g \in alive)
  <1>1. CASE h = NoHelper
    BY <1>1 DEF StopsHelper
  <1>2. CASE h # NoHelper
    BY <1>2, StopEffect DEF StopsHelper
  <1>3. QED BY <1>1, <1>2

-----------------------------------------------------------------------------
(* Types *)

\* The record of an idle runtime has the type of an operation.
LEMMA IdleType ==
  /\ Idle.pc = "idle"
  /\ \A n \in Nat :
       Idle \in [pc : PCs, dev : Devices \cup {"none"}, port : Nat, helper : 0 .. n]
  BY HotplugAssumption DEF Idle, PCs, NoPort, NoHelper

\* An operation that returns, or goes on with another step, keeps its type.
LEMMA OpTypeKept ==
  ASSUME TypeOK, op.pc # "idle", started' = started,
         op' = Idle \/ \E pc \in PCs : op' = [op EXCEPT !.pc = pc]
  PROVE  /\ op' \in [pc : PCs, dev : Devices \cup {"none"}, port : Nat, helper : 0 .. started']
         /\ op'.pc # "idle" => op'.dev \in Devices
  BY IdleType DEF TypeOK

\* The machine starts with nothing attached and no operation under way.
LEMMA HotplugTypeInit == Init => TypeOK
  <1> SUFFICES ASSUME Init PROVE TypeOK
    OBVIOUS
  <1>1. NoPort \in Nat /\ NoHelper \in 0 .. 0 /\ 0 \in Nat
    BY HotplugAssumption DEF NoPort, NoHelper
  <1>2. /\ op \in [pc : PCs, dev : Devices \cup {"none"}, port : Nat, helper : 0 .. started]
        /\ op.pc = "idle"
    BY IdleType, <1>1 DEF Init
  <1>3. QED BY <1>1, <1>2 DEF Init, TypeOK

\* Every action keeps the types; only a start of virtiofsd numbers a new helper.
LEMMA HotplugTypeStep ==
  ASSUME TypeOK, [Next]_vars
  PROVE  TypeOK'
  <1> USE HotplugAssumption
  <1>1. ASSUME NEW d \in Devices, NEW p \in 0 .. Len(Declared), Attach(d, p)
        PROVE  TypeOK'
    <2>1. p \in Nat /\ NoHelper \in 0 .. started
      BY DEF TypeOK, NoHelper
    <2>2. op' \in [pc : PCs, dev : Devices \cup {"none"}, port : Nat, helper : 0 .. started]
      BY <1>1, <2>1 DEF Attach, PCs, AttachPCs
    <2>3. op'.dev \in Devices
      BY <1>1 DEF Attach
    <2>4. QED
      BY <1>1, <2>2, <2>3 DEF Attach, TypeOK, regVars, setVars, qemuVars, hostVars, histVars
  <1>2. CASE AttachVirtioFSHost
    <2>1. CASE Return /\ UNCHANGED hostVars
      BY <1>2, <2>1, IdleType DEF AttachVirtioFSHost, Return, TypeOK, regVars, setVars,
         qemuVars, hostVars, histVars
    <2>2. CASE /\ started' = started + 1
               /\ alive' = alive \cup {started'}
               /\ op' = [op EXCEPT !.pc = "socket", !.helper = started']
      <3>1. started \in Nat /\ started' \in Nat /\ started' \in (1 .. started') \cap (0 .. started')
        BY <2>2 DEF TypeOK
      <3>2. 1 .. started \subseteq 1 .. started' /\ 0 .. started \subseteq 0 .. started'
        BY <2>2, <3>1
      <3>3. op' \in [pc : PCs, dev : Devices \cup {"none"}, port : Nat, helper : 0 .. started']
        BY <2>2, <3>1 DEF TypeOK, PCs, AttachPCs
      <3>4. op'.dev \in Devices
        BY <1>2, <2>2 DEF AttachVirtioFSHost, At, TypeOK
      <3>5. helper \in [Devices -> 0 .. started']
        BY <3>2 DEF TypeOK
      <3>6. QED
        BY <1>2, <2>2, <3>1, <3>2, <3>3, <3>4, <3>5 DEF AttachVirtioFSHost, TypeOK, regVars,
           setVars, qemuVars, hostVars, histVars
    <2>3. QED
      BY <1>2, <2>1, <2>2 DEF AttachVirtioFSHost
  <1>3. CASE WaitSocket
    BY <1>3, IdleType DEF WaitSocket, At, Goto, Return, Stop, TypeOK, PCs,
        AttachPCs, DetachPCs, NoHelper, NoPort, regVars, setVars, qemuVars
  <1>4. CASE ReservePort
    BY <1>4, AllocatesPort DEF ReservePort, At, TypeOK, PCs, AttachPCs,
        DetachPCs, NoHelper, NoPort, regVars, setVars, qemuVars, hostVars, histVars
  <1>5. ASSUME NEW o \in Outcomes, AddBackend(o)
        PROVE  TypeOK'
    <2>1. op.pc # "idle" /\ started' = started
      BY <1>5 DEF AddBackend, At, hostVars
    <2>2. \E pc \in PCs : op' = [op EXCEPT !.pc = pc]
      BY <1>5, RollbackTargets DEF AddBackend, Goto, PCs, AttachPCs, DetachPCs
    <2>3. /\ op' \in [pc : PCs, dev : Devices \cup {"none"}, port : Nat, helper : 0 .. started']
          /\ op'.pc # "idle" => op'.dev \in Devices
      BY <2>1, <2>2, OpTypeKept
    <2>4. op.dev \in Devices
      BY <2>1 DEF TypeOK
    <2>5. backends' \in SUBSET Devices
      <3>1. backends' = backends \cup {op.dev} \/ backends' = backends
        <4>1. Head(Plan(op.dev).backend) = op.dev
          BY PlanIsItself
        <4>2. QED BY <1>5, <4>1 DEF AddBackend
      <3>2. QED BY <2>4, <3>1, Zenon DEF TypeOK
    <2>6. broken' \in BOOLEAN
      <3>1. \/ UNCHANGED broken
            \/ broken' = (broken \/ o = "lost")
        BY <1>5 DEF AddBackend, RunRaw
      <3>2. QED BY <3>1 DEF TypeOK
    <2>7. QED
      BY <1>5, <2>3, <2>5, <2>6 DEF AddBackend, TypeOK, regVars, setVars, hostVars, histVars
  <1>6. ASSUME NEW o \in Outcomes, AddDevice(o)
        PROVE  TypeOK'
    BY <1>6, RollbackTargets DEF AddDevice, At, Goto, RunRaw, TypeOK, PCs,
        AttachPCs, DetachPCs, NoHelper, NoPort, regVars, setVars, hostVars, histVars
  <1>7. ASSUME NEW o \in Outcomes, DeleteDevice(o)
        PROVE  TypeOK'
    <2>1. /\ op.pc # "idle" /\ started' = started
          /\ op' = Idle \/ \E pc \in PCs : op' = [op EXCEPT !.pc = pc]
      BY <1>7 DEF DeleteDevice, At, Goto, Return, PCs, AttachPCs, DetachPCs, hostVars
    <2>2. /\ op' \in [pc : PCs, dev : Devices \cup {"none"}, port : Nat, helper : 0 .. started']
          /\ op'.pc # "idle" => op'.dev \in Devices
      BY <2>1, OpTypeKept
    <2>3. frontends' \in [Devices -> Nat] /\ broken' \in BOOLEAN
      BY <1>7, <2>1 DEF DeleteDevice, RunRaw, TypeOK, NoPort
    <2>4. kept' \in SUBSET Devices
      BY <1>7, <2>1 DEF DeleteDevice, TypeOK
    <2>5. UNCHANGED <<attached, port, helper, ended, group, teardown, snapshot, backends,
                      mounted, alive, started, unstoppable, late, lostUnmount, cutShort>>
      BY <1>7 DEF DeleteDevice, regVars, setVars, hostVars
    <2>6. QED
      BY <2>2, <2>3, <2>4, <2>5 DEF TypeOK
  <1>8. ASSUME NEW o \in Outcomes, ReleaseBackend(o)
        PROVE  TypeOK'
    <2>1. /\ op.pc # "idle" /\ started' = started
          /\ op' = Idle \/ \E pc \in PCs : op' = [op EXCEPT !.pc = pc]
      BY <1>8 DEF ReleaseBackend, At, Goto, Return, PCs, AttachPCs, DetachPCs, hostVars
    <2>2. /\ op' \in [pc : PCs, dev : Devices \cup {"none"}, port : Nat, helper : 0 .. started']
          /\ op'.pc # "idle" => op'.dev \in Devices
      BY <2>1, OpTypeKept
    <2>3. /\ backends' \in SUBSET Devices /\ broken' \in BOOLEAN
          /\ cutShort' \in SUBSET Devices
      BY <1>8, <2>1, PlanIsItself DEF ReleaseBackend, RunRaw, TypeOK
    <2>4. kept' \in SUBSET Devices
      BY <1>8, <2>1 DEF ReleaseBackend, TypeOK
    <2>5. UNCHANGED <<attached, port, helper, ended, group, teardown, snapshot, frontends,
                      mounted, alive, started, unstoppable, late, lostUnmount>>
      BY <1>8 DEF ReleaseBackend, regVars, setVars, hostVars
    <2>6. QED
      BY <2>2, <2>3, <2>4, <2>5 DEF TypeOK
  <1>9. CASE AttachGuest
    BY <1>9 DEF AttachGuest, At, Goto, TypeOK, PCs, AttachPCs, DetachPCs,
        NoHelper, NoPort, regVars, setVars, qemuVars, hostVars, histVars
  <1>10. CASE Register
    <2>1. /\ op.pc # "idle" /\ started' = started
          /\ op' = Idle \/ \E pc \in PCs : op' = [op EXCEPT !.pc = pc]
      BY <1>10 DEF Register, At, Return, PCs, AttachPCs, DetachPCs, hostVars
    <2>2. /\ op' \in [pc : PCs, dev : Devices \cup {"none"}, port : Nat, helper : 0 .. started']
          /\ op'.pc # "idle" => op'.dev \in Devices
      BY <2>1, OpTypeKept
    <2>3. /\ attached' \in SUBSET Devices
          /\ port' \in [Devices -> Nat] /\ helper' \in [Devices -> 0 .. started]
      BY <1>10, <2>1 DEF Register, TypeOK
    <2>4. {op.helper} \ {NoHelper} \in SUBSET (1 .. started)
      BY DEF TypeOK, NoHelper
    <2>5. group' \in SUBSET (1 .. started) /\ late' \in SUBSET (1 .. started)
      BY <1>10, <2>4 DEF Register, HandsOver, TypeOK
    <2>6. QED
      BY <1>10, <2>1, <2>2, <2>3, <2>5 DEF Register, TypeOK, qemuVars, hostVars
  <1>11. CASE RollbackHost
    <2>1. /\ op.pc # "idle" /\ started' = started
          /\ op' = Idle \/ \E pc \in PCs : op' = [op EXCEPT !.pc = pc]
      BY <1>11 DEF RollbackHost, At, Return, PCs, AttachPCs, DetachPCs, hostVars
    <2>2. /\ op' \in [pc : PCs, dev : Devices \cup {"none"}, port : Nat, helper : 0 .. started']
          /\ op'.pc # "idle" => op'.dev \in Devices
      BY <2>1, OpTypeKept
    <2>3. alive' \in SUBSET (1 .. started) /\ unstoppable' \in SUBSET (1 .. started)
      <3>1. NoHelper \notin alive /\ StopsHelper(op.helper)
        BY <1>11 DEF RollbackHost, TypeOK, NoHelper
      <3>2. QED BY <3>1, StopsHelperEffect DEF TypeOK
    <2>4. QED
      BY <1>11, <2>1, <2>2, <2>3 DEF RollbackHost, TypeOK, regVars, setVars, qemuVars
  <1>12. ASSUME NEW d \in Devices, Detach(d)
        PROVE  TypeOK'
    BY <1>12 DEF Detach, At, TypeOK, PCs, AttachPCs, DetachPCs, NoHelper,
        NoPort, regVars, setVars, qemuVars, hostVars, histVars
  <1>13. CASE DetachGuest
    BY <1>13, IdleType DEF DetachGuest, At, Goto, Return, TypeOK, PCs,
        AttachPCs, DetachPCs, NoHelper, NoPort, regVars, setVars, qemuVars, hostVars
  <1>14. CASE Remove
    <2>1. /\ op.pc # "idle" /\ started' = started
          /\ op' = Idle \/ \E pc \in PCs : op' = [op EXCEPT !.pc = pc]
      BY <1>14 DEF Remove, At, Return, PCs, AttachPCs, DetachPCs, hostVars
    <2>2. /\ op' \in [pc : PCs, dev : Devices \cup {"none"}, port : Nat, helper : 0 .. started']
          /\ op'.pc # "idle" => op'.dev \in Devices
      BY <2>1, OpTypeKept
    <2>3. alive' \in SUBSET (1 .. started) /\ unstoppable' \in SUBSET (1 .. started)
      <3>1. NoHelper \notin alive /\ StopsHelper(op.helper)
        BY <1>14 DEF Remove, TypeOK, NoHelper
      <3>2. QED BY <3>1, StopsHelperEffect DEF TypeOK
    <2>4. NoPort \in Nat /\ NoHelper \in 0 .. started
      BY DEF NoPort, NoHelper, TypeOK
    <2>5. QED
      BY <1>14, <2>1, <2>2, <2>3, <2>4 DEF Remove, TypeOK, qemuVars
  <1>15. ASSUME NEW h \in Helpers, ForgetHelper(h)
        PROVE  TypeOK'
    <2>1. NoHelper \in 0 .. started
      BY DEF NoHelper, TypeOK
    <2>2. helper' \in [Devices -> 0 .. started] /\ group' \in SUBSET (1 .. started)
      BY <1>15, <2>1 DEF ForgetHelper, TypeOK
    <2>3. UNCHANGED <<attached, port, op, ended, teardown, snapshot, backends, frontends,
                      mounted, alive, started, broken, unstoppable, late, lostUnmount,
                      cutShort, kept>>
      BY <1>15 DEF ForgetHelper, qemuVars, hostVars, histVars
    <2>4. QED BY <2>2, <2>3 DEF TypeOK
  <1>16. ASSUME NEW h \in Helpers, HelperExits(h)
        PROVE  TypeOK'
    BY <1>16 DEF HelperExits, TypeOK, PCs, AttachPCs, DetachPCs, NoHelper,
        NoPort, regVars, setVars, qemuVars, histVars
  <1>17. CASE ContextEnds
    BY <1>17 DEF ContextEnds, TypeOK, PCs, AttachPCs, DetachPCs, NoHelper,
        NoPort, regVars, setVars, qemuVars, hostVars, histVars
  <1>18. CASE SessionBreaks
    BY <1>18 DEF SessionBreaks, TypeOK, PCs, AttachPCs, DetachPCs, NoHelper,
        NoPort, regVars, setVars, qemuVars, hostVars, histVars
  <1>19. CASE TakeSnapshot
    BY <1>19 DEF TakeSnapshot, TypeOK, PCs, AttachPCs, DetachPCs, NoHelper,
        NoPort, regVars, qemuVars, hostVars, histVars
  <1>20. CASE StopProcesses
    BY <1>20 DEF StopProcesses, TypeOK, PCs, AttachPCs, DetachPCs, NoHelper,
        NoPort, regVars, qemuVars
  <1>21. CASE UNCHANGED vars
    BY <1>21 DEF vars, TypeOK, PCs, AttachPCs, DetachPCs, NoHelper, NoPort,
        regVars, setVars, qemuVars, hostVars, histVars
  <1>22. QED
    BY <1>1, <1>2, <1>3, <1>4, <1>5, <1>6, <1>7, <1>8, <1>9, <1>10, <1>11,
        <1>12, <1>13, <1>14, <1>15, <1>16, <1>17, <1>18, <1>19, <1>20, <1>21
        DEF Next

-----------------------------------------------------------------------------
(* The operation under way *)

\* Goto changes the step alone.
LEMMA GotoEffect ==
  ASSUME TypeOK, NEW pc, Goto(pc)
  PROVE  op'.pc = pc /\ op'.dev = op.dev /\ op'.port = op.port /\ op'.helper = op.helper
  BY DEF TypeOK, Goto

\* An operation that returns leaves the runtime idle.
LEMMA ReturnEffect ==
  ASSUME Return
  PROVE  op'.pc = "idle"
  BY IdleType DEF Return

\* The operation that holds Runtime.mu is the only one that changes the registry,
\* so what it read when it began stays true until it returns.
LEMMA OpStep ==
  ASSUME TypeOK, OpInv, [Next]_vars
  PROVE  OpInv'
  <1>1. ASSUME NEW d \in Devices, NEW p \in 0 .. Len(Declared), Attach(d, p)
        PROVE  OpInv'
    BY <1>1 DEF Attach, At, NoHelper, OpInv, AttachPCs, DetachPCs, regVars,
        setVars, qemuVars, hostVars, histVars
  <1>2. CASE AttachVirtioFSHost
    <2>1. CASE Return
      BY <1>2, <2>1, ReturnEffect DEF AttachVirtioFSHost, OpInv, AttachPCs, DetachPCs, regVars
    <2>2. CASE /\ started' = started + 1
               /\ op' = [op EXCEPT !.pc = "socket", !.helper = started']
      <3>1. op'.pc = "socket" /\ op'.dev = op.dev
        BY <2>2 DEF TypeOK
      <3>2. QED
        BY <1>2, <3>1 DEF AttachVirtioFSHost, At, OpInv, AttachPCs, DetachPCs, regVars
    <2>3. QED BY <1>2, <2>1, <2>2 DEF AttachVirtioFSHost
  <1>3. CASE WaitSocket
    BY <1>3, GotoEffect, ReturnEffect DEF WaitSocket, At, OpInv, AttachPCs,
        DetachPCs, regVars, setVars, qemuVars
  <1>4. CASE ReservePort
    <2>1. /\ op'.pc \in {"backend", "rollbackHost"} /\ op'.dev = op.dev
          /\ op'.pc = "backend" => op'.port # NoPort
      BY <1>4 DEF ReservePort, TypeOK
    <2>2. QED
      BY <1>4, <2>1 DEF ReservePort, At, OpInv, AttachPCs, DetachPCs, regVars
  <1>5. ASSUME NEW o \in Outcomes, AddBackend(o)
        PROVE  OpInv'
    BY <1>5, RollbackTargets, PlanIsItself, GotoEffect DEF AddBackend, At,
        RunRaw, OpInv, AttachPCs, DetachPCs, regVars, setVars, hostVars, histVars
  <1>6. ASSUME NEW o \in Outcomes, AddDevice(o)
        PROVE  OpInv'
    BY <1>6, RollbackTargets, GotoEffect DEF AddDevice, At, RunRaw, OpInv,
        AttachPCs, DetachPCs, regVars, setVars, hostVars, histVars
  <1>7. ASSUME NEW o \in Outcomes, DeleteDevice(o)
        PROVE  OpInv'
    BY <1>7, GotoEffect, ReturnEffect DEF DeleteDevice, At, RunRaw,
        CleanupContextEnds, OpInv, AttachPCs, DetachPCs, regVars, setVars, hostVars,
        histVars
  <1>8. ASSUME NEW o \in Outcomes, ReleaseBackend(o)
        PROVE  OpInv'
    BY <1>8, PlanIsItself, GotoEffect, ReturnEffect DEF ReleaseBackend, At,
        RunRaw, CleanupContextEnds, OpInv, AttachPCs, DetachPCs, regVars, setVars,
        hostVars
  <1>9. CASE AttachGuest
    BY <1>9, GotoEffect DEF AttachGuest, At, OpInv, AttachPCs, DetachPCs,
        regVars, setVars, qemuVars, hostVars, histVars
  <1>10. CASE Register
    <2>1. op.dev \in Devices /\ op.port # NoPort /\ op'.pc = "idle"
      BY <1>10, ReturnEffect DEF Register, At, TypeOK, OpInv
    <2>2. \A d \in Devices : d \in attached' <=> port'[d] # NoPort
      BY <1>10, <2>1 DEF Register, OpInv, TypeOK
    <2>3. QED
      BY <2>1, <2>2 DEF OpInv, AttachPCs, DetachPCs
  <1>11. CASE RollbackHost
    BY <1>11, ReturnEffect DEF RollbackHost, At, OpInv, AttachPCs, DetachPCs,
        regVars, setVars, qemuVars
  <1>12. ASSUME NEW d \in Devices, Detach(d)
        PROVE  OpInv'
    BY <1>12 DEF Detach, At, OpInv, AttachPCs, DetachPCs, regVars, setVars,
        qemuVars, hostVars, histVars
  <1>13. CASE DetachGuest
    BY <1>13, GotoEffect, ReturnEffect DEF DetachGuest, At, OpInv, AttachPCs,
        DetachPCs, regVars, setVars, qemuVars, hostVars
  <1>14. CASE Remove
    <2>1. op.dev \in Devices /\ op'.pc = "idle"
      BY <1>14, ReturnEffect DEF Remove, At, TypeOK
    <2>2. \A d \in Devices : d \in attached' <=> port'[d] # NoPort
      BY <1>14, <2>1 DEF Remove, OpInv, TypeOK
    <2>3. QED
      BY <2>1, <2>2 DEF OpInv, AttachPCs, DetachPCs
  <1>15. ASSUME NEW h \in Helpers, ForgetHelper(h)
        PROVE  OpInv'
    BY <1>15 DEF ForgetHelper, At, OpInv, AttachPCs, DetachPCs, qemuVars,
        hostVars, histVars
  <1>16. ASSUME NEW h \in Helpers, HelperExits(h)
        PROVE  OpInv'
    BY <1>16 DEF HelperExits, OpInv, AttachPCs, DetachPCs, regVars, setVars,
        qemuVars, histVars
  <1>17. CASE ContextEnds
    BY <1>17 DEF ContextEnds, OpInv, AttachPCs, DetachPCs, regVars, setVars,
        qemuVars, hostVars, histVars
  <1>18. CASE SessionBreaks
    BY <1>18 DEF SessionBreaks, OpInv, AttachPCs, DetachPCs, regVars, setVars,
        qemuVars, hostVars, histVars
  <1>19. CASE TakeSnapshot
    BY <1>19 DEF TakeSnapshot, OpInv, AttachPCs, DetachPCs, regVars, qemuVars,
        hostVars, histVars
  <1>20. CASE StopProcesses
    BY <1>20 DEF StopProcesses, OpInv, AttachPCs, DetachPCs, regVars, qemuVars
  <1>21. CASE UNCHANGED vars
    BY <1>21 DEF vars, OpInv, AttachPCs, DetachPCs, regVars, setVars, qemuVars,
        hostVars, histVars
  <1>22. QED
    BY <1>1, <1>2, <1>3, <1>4, <1>5, <1>6, <1>7, <1>8, <1>9, <1>10, <1>11,
        <1>12, <1>13, <1>14, <1>15, <1>16, <1>17, <1>18, <1>19, <1>20, <1>21
        DEF Next

\* Numbers of helpers are positive, and the next one is not in use.
LEMMA HelperNumbers ==
  ASSUME TypeOK
  PROVE  /\ NoHelper \notin alive /\ NoHelper \notin group
         /\ started + 1 \notin alive \cup group \cup snapshot
         /\ \A d \in Devices : helper[d] # started + 1
  <1>1. \A n \in 0 .. started : n # started + 1
    BY DEF TypeOK
  <1>2. \A n \in 1 .. started : n # started + 1 /\ n # NoHelper
    BY DEF TypeOK, NoHelper
  <1>3. QED BY <1>1, <1>2 DEF TypeOK

\* A helper changes hands, from the attach to the registry, in Register, and an
\* operation that drops its helper has stopped it or tried to.
LEMMA OwnedStep ==
  ASSUME TypeOK, OpInv, OwnedInv, [Next]_vars
  PROVE  OwnedInv'
  <1>1. ASSUME NEW d \in Devices, NEW p \in 0 .. Len(Declared), Attach(d, p)
        PROVE  OwnedInv'
    BY <1>1 DEF Attach, At, NoHelper, OwnedInv, AttachPCs, regVars, setVars,
        qemuVars, hostVars, histVars, OpInv
  <1>2. CASE AttachVirtioFSHost
    <2>1. CASE Return /\ UNCHANGED hostVars
      BY <1>2, <2>1, HelperNumbers DEF AttachVirtioFSHost, At, OpInv, OwnedInv, regVars,
         hostVars, histVars
    <2>2. CASE /\ alive' = alive \cup {started'}
               /\ op' = [op EXCEPT !.pc = "socket", !.helper = started']
      <3>1. op'.pc = "socket" /\ op'.helper = started'
        BY <2>2 DEF TypeOK
      <3>2. \A h \in alive : h # op.helper
        BY <1>2, HelperNumbers DEF AttachVirtioFSHost, At, OpInv
      <3>3. QED
        BY <1>2, <2>2, <3>1, <3>2 DEF AttachVirtioFSHost, OwnedInv, AttachPCs, regVars, histVars
    <2>3. QED BY <1>2, <2>1, <2>2 DEF AttachVirtioFSHost
  <1>3. CASE WaitSocket
    <2>1. CASE Goto("port") /\ UNCHANGED <<alive, unstoppable>>
      BY <1>3, <2>1, GotoEffect DEF WaitSocket, OwnedInv, AttachPCs, regVars
    <2>2. CASE Stop(op.helper)
      BY <1>3, <2>2, StopEffect DEF WaitSocket, OwnedInv, regVars
    <2>3. QED BY <1>3, <2>1, <2>2 DEF WaitSocket
  <1>4. CASE ReservePort
    BY <1>4, AllocatesPort DEF ReservePort, At, OwnedInv, AttachPCs, regVars,
        setVars, qemuVars, hostVars, histVars
  <1>5. ASSUME NEW o \in Outcomes, AddBackend(o)
        PROVE  OwnedInv'
    BY <1>5, RollbackTargets, PlanIsItself, GotoEffect DEF AddBackend, At,
        RunRaw, OwnedInv, AttachPCs, regVars, setVars, hostVars, histVars
  <1>6. ASSUME NEW o \in Outcomes, AddDevice(o)
        PROVE  OwnedInv'
    BY <1>6, RollbackTargets, GotoEffect DEF AddDevice, At, RunRaw, OwnedInv,
        AttachPCs, regVars, setVars, hostVars, histVars
  <1>7. ASSUME NEW o \in Outcomes, DeleteDevice(o)
        PROVE  OwnedInv'
    BY <1>7, GotoEffect, ReturnEffect DEF DeleteDevice, At, RunRaw,
        CleanupContextEnds, OwnedInv, AttachPCs, regVars, setVars, hostVars,
        histVars
  <1>8. ASSUME NEW o \in Outcomes, ReleaseBackend(o)
        PROVE  OwnedInv'
    BY <1>8, PlanIsItself, GotoEffect, ReturnEffect DEF ReleaseBackend, At,
        RunRaw, CleanupContextEnds, OwnedInv, AttachPCs, regVars, setVars, hostVars
  <1>9. CASE AttachGuest
    BY <1>9, GotoEffect DEF AttachGuest, At, OwnedInv, AttachPCs, regVars,
        setVars, qemuVars, hostVars, histVars
  <1>10. CASE Register
    <2>1. op.dev \in Devices /\ op.dev \notin attached
      BY <1>10 DEF Register, At, TypeOK, OpInv, AttachPCs
    <2>2. helper'[op.dev] = op.helper /\ \A d \in attached : helper'[d] = helper[d]
      BY <1>10, <2>1 DEF Register, TypeOK
    <2>3. op.dev \in attached' /\ attached \subseteq attached'
      BY <1>10 DEF Register
    <2>4. QED
      BY <1>10, <2>2, <2>3 DEF Register, OwnedInv, hostVars
  <1>11. CASE RollbackHost
    <2>1. StopsHelper(op.helper) /\ NoHelper \notin alive
      BY <1>11, HelperNumbers DEF RollbackHost
    <2>2. QED
      BY <1>11, <2>1, StopsHelperEffect DEF RollbackHost, OwnedInv, regVars
  <1>12. ASSUME NEW d \in Devices, Detach(d)
        PROVE  OwnedInv'
    BY <1>12 DEF Detach, At, OwnedInv, AttachPCs, regVars, setVars, qemuVars,
        hostVars, histVars
  <1>13. CASE DetachGuest
    BY <1>13, GotoEffect, ReturnEffect DEF DetachGuest, At, OwnedInv, AttachPCs,
        regVars, setVars, qemuVars, hostVars
  <1>14. CASE Remove
    <2>1. StopsHelper(op.helper) /\ NoHelper \notin alive
      BY <1>14, HelperNumbers DEF Remove
    <2>2. op.helper = helper[op.dev] /\ op.pc \notin AttachPCs
      BY <1>14 DEF Remove, At, OpInv, DetachPCs, AttachPCs
    <2>3. \A d \in attached \ {op.dev} : d \in attached' /\ helper'[d] = helper[d]
      BY <1>14 DEF Remove, TypeOK
    <2>4. QED
      BY <2>1, <2>2, <2>3, StopsHelperEffect DEF OwnedInv
  <1>15. ASSUME NEW h \in Helpers, ForgetHelper(h)
        PROVE  OwnedInv'
    <2>1. \A d \in attached : helper[d] \in alive => helper'[d] = helper[d]
      BY <1>15 DEF ForgetHelper, TypeOK
    <2>2. QED
      BY <1>15, <2>1 DEF ForgetHelper, OwnedInv, hostVars, histVars
  <1>16. ASSUME NEW h \in Helpers, HelperExits(h)
        PROVE  OwnedInv'
    BY <1>16 DEF HelperExits, OwnedInv, AttachPCs, regVars, setVars, qemuVars,
        histVars
  <1>17. CASE ContextEnds
    BY <1>17 DEF ContextEnds, OwnedInv, AttachPCs, regVars, setVars, qemuVars,
        hostVars, histVars
  <1>18. CASE SessionBreaks
    BY <1>18 DEF SessionBreaks, OwnedInv, AttachPCs, regVars, setVars, qemuVars,
        hostVars, histVars
  <1>19. CASE TakeSnapshot
    BY <1>19 DEF TakeSnapshot, OwnedInv, AttachPCs, regVars, qemuVars, hostVars,
        histVars
  <1>20. CASE StopProcesses
    BY <1>20 DEF StopProcesses, OwnedInv, AttachPCs, regVars, qemuVars
  <1>21. CASE UNCHANGED vars
    BY <1>21 DEF vars, OwnedInv, AttachPCs, regVars, setVars, qemuVars,
        hostVars, histVars
  <1>22. QED
    BY <1>1, <1>2, <1>3, <1>4, <1>5, <1>6, <1>7, <1>8, <1>9, <1>10, <1>11,
        <1>12, <1>13, <1>14, <1>15, <1>16, <1>17, <1>18, <1>19, <1>20, <1>21
        DEF Next

\* A helper enters the process set together with its device, and leaves it
\* with the device or after its own end.
LEMMA SetStep ==
  ASSUME TypeOK, OpInv, SetInv, [Next]_vars
  PROVE  SetInv'
  <1>1. ASSUME NEW d \in Devices, NEW p \in 0 .. Len(Declared), Attach(d, p)
        PROVE  SetInv'
    BY <1>1 DEF Attach, At, NoHelper, SetInv, regVars, setVars, qemuVars,
        hostVars, histVars
  <1>2. CASE AttachVirtioFSHost
    <2>1. CASE UNCHANGED hostVars
      BY <1>2, <2>1 DEF AttachVirtioFSHost, SetInv, regVars, setVars, hostVars, histVars
    <2>2. CASE started' = started + 1 /\ alive' = alive \cup {started'}
      <3>1. \A d \in attached : helper[d] # started'
        BY <2>2, HelperNumbers DEF TypeOK
      <3>2. started' \notin snapshot
        BY <2>2, HelperNumbers
      <3>3. QED
        BY <1>2, <2>2, <3>1, <3>2 DEF AttachVirtioFSHost, SetInv, regVars, setVars, histVars
    <2>3. QED BY <1>2, <2>1, <2>2 DEF AttachVirtioFSHost
  <1>3. CASE WaitSocket
    <2>1. CASE UNCHANGED <<alive, unstoppable>>
      BY <1>3, <2>1 DEF WaitSocket, SetInv, regVars, setVars
    <2>2. CASE Stop(op.helper)
      BY <1>3, <2>2, StopEffect DEF WaitSocket, SetInv, regVars, setVars
    <2>3. QED BY <1>3, <2>1, <2>2 DEF WaitSocket
  <1>4. CASE ReservePort
    BY <1>4, AllocatesPort DEF ReservePort, At, SetInv, regVars, setVars,
        qemuVars, hostVars, histVars
  <1>5. ASSUME NEW o \in Outcomes, AddBackend(o)
        PROVE  SetInv'
    BY <1>5, RollbackTargets, PlanIsItself, GotoEffect DEF AddBackend, At,
        RunRaw, SetInv, regVars, setVars, hostVars, histVars
  <1>6. ASSUME NEW o \in Outcomes, AddDevice(o)
        PROVE  SetInv'
    BY <1>6, RollbackTargets, GotoEffect DEF AddDevice, At, RunRaw, SetInv,
        regVars, setVars, hostVars, histVars
  <1>7. ASSUME NEW o \in Outcomes, DeleteDevice(o)
        PROVE  SetInv'
    BY <1>7, GotoEffect, ReturnEffect DEF DeleteDevice, At, RunRaw,
        CleanupContextEnds, SetInv, regVars, setVars, hostVars, histVars
  <1>8. ASSUME NEW o \in Outcomes, ReleaseBackend(o)
        PROVE  SetInv'
    BY <1>8, PlanIsItself, GotoEffect, ReturnEffect DEF ReleaseBackend, At,
        RunRaw, CleanupContextEnds, SetInv, regVars, setVars, hostVars
  <1>9. CASE AttachGuest
    BY <1>9, GotoEffect DEF AttachGuest, At, SetInv, regVars, setVars, qemuVars,
        hostVars, histVars
  <1>10. CASE Register
    <2>1. op.dev \in Devices /\ op.dev \notin attached
      BY <1>10 DEF Register, At, TypeOK, OpInv, AttachPCs
    <2>2. helper'[op.dev] = op.helper /\ \A d \in attached : helper'[d] = helper[d]
      BY <1>10, <2>1 DEF Register, TypeOK
    <2>3. \A d \in attached' : helper'[d] \in alive' \ unstoppable' => helper'[d] \in group'
      BY <1>10, <2>2, HelperNumbers DEF Register, HandsOver, SetInv, hostVars
    <2>4. QED
      BY <1>10, <2>3 DEF Register, HandsOver, SetInv, hostVars
  <1>11. CASE RollbackHost
    <2>1. StopsHelper(op.helper) /\ NoHelper \notin alive
      BY <1>11, HelperNumbers DEF RollbackHost
    <2>2. QED
      BY <1>11, <2>1, StopsHelperEffect DEF RollbackHost, SetInv, regVars, setVars
  <1>12. ASSUME NEW d \in Devices, Detach(d)
        PROVE  SetInv'
    BY <1>12 DEF Detach, At, SetInv, regVars, setVars, qemuVars, hostVars,
        histVars
  <1>13. CASE DetachGuest
    BY <1>13, GotoEffect, ReturnEffect DEF DetachGuest, At, SetInv, regVars,
        setVars, qemuVars, hostVars
  <1>14. CASE Remove
    <2>1. StopsHelper(op.helper) /\ NoHelper \notin alive
      BY <1>14, HelperNumbers DEF Remove
    <2>2. \A d \in attached' : d \in attached /\ helper'[d] = helper[d]
      BY <1>14 DEF Remove, TypeOK
    <2>3. \A d \in attached' : helper'[d] \in alive' \ unstoppable' => helper'[d] \in group'
      BY <1>14, <2>1, <2>2, StopsHelperEffect DEF Remove, SetInv
    <2>4. QED
      BY <1>14, <2>1, <2>3, StopsHelperEffect DEF Remove, SetInv
  <1>15. ASSUME NEW h \in Helpers, ForgetHelper(h)
        PROVE  SetInv'
    <2>1. NoHelper \notin alive
      BY HelperNumbers
    <2>2. \A d \in attached : helper'[d] \in alive => helper'[d] = helper[d] /\ helper[d] # h
      BY <1>15, <2>1 DEF ForgetHelper, TypeOK
    <2>3. QED
      BY <1>15, <2>2 DEF ForgetHelper, SetInv, hostVars, histVars
  <1>16. ASSUME NEW h \in Helpers, HelperExits(h)
        PROVE  SetInv'
    BY <1>16 DEF HelperExits, SetInv, regVars, setVars, qemuVars, histVars
  <1>17. CASE ContextEnds
    BY <1>17 DEF ContextEnds, SetInv, regVars, setVars, qemuVars, hostVars,
        histVars
  <1>18. CASE SessionBreaks
    BY <1>18 DEF SessionBreaks, SetInv, regVars, setVars, qemuVars, hostVars,
        histVars
  <1>19. CASE TakeSnapshot
    BY <1>19 DEF TakeSnapshot, SetInv, regVars, qemuVars, hostVars, histVars
  <1>20. CASE StopProcesses
    BY <1>20 DEF StopProcesses, SetInv, regVars, qemuVars
  <1>21. CASE UNCHANGED vars
    BY <1>21 DEF vars, SetInv, regVars, setVars, qemuVars, hostVars, histVars
  <1>22. QED
    BY <1>1, <1>2, <1>3, <1>4, <1>5, <1>6, <1>7, <1>8, <1>9, <1>10, <1>11,
        <1>12, <1>13, <1>14, <1>15, <1>16, <1>17, <1>18, <1>19, <1>20, <1>21
        DEF Next

-----------------------------------------------------------------------------
(* QEMU and the registry *)

\* A command that leaves the session sound was answered: it was executed, or
\* refused.
LEMMA RunRawAnswers ==
  ASSUME NEW possible \in BOOLEAN, NEW o, RunRaw(possible, o), ~broken'
  PROVE  /\ ~broken
         /\ o \in {"ok", "refused"}
         /\ o = "ok" => possible
  BY DEF RunRaw

\* Each QMP command moves QEMU from one stage of the operation to the next, or
\* leaves it where the rollback takes over; a lost answer ends the comparison.
LEMMA QemuStep ==
  ASSUME TypeOK, OpInv, QemuInv, [Next]_vars
  PROVE  QemuInv'
  <1>1. ASSUME NEW d \in Devices, NEW p \in 0 .. Len(Declared), Attach(d, p)
        PROVE  QemuInv'
    BY <1>1 DEF Attach, At, NoHelper, QemuInv, Stage, Matches, AttachPCs,
        regVars, setVars, qemuVars, hostVars, histVars, OpInv
  <1>2. CASE AttachVirtioFSHost
    <2>1. \/ op'.pc = "idle"
          \/ op'.pc = "socket" /\ op'.dev = op.dev
      BY <1>2, ReturnEffect DEF AttachVirtioFSHost, TypeOK
    <2>2. QED
      BY <1>2, <2>1 DEF AttachVirtioFSHost, At, QemuInv, Stage, Matches, AttachPCs, OpInv,
         regVars, qemuVars, histVars
  <1>3. CASE WaitSocket
    BY <1>3, GotoEffect, ReturnEffect DEF WaitSocket, At, QemuInv, Stage,
        Matches, AttachPCs, regVars, setVars, qemuVars, OpInv
  <1>4. CASE ReservePort
    <2>1. op'.pc \in {"backend", "rollbackHost"} /\ op'.dev = op.dev
      BY <1>4 DEF ReservePort, TypeOK
    <2>2. QED
      BY <1>4, <2>1 DEF ReservePort, At, QemuInv, Stage, Matches, AttachPCs, regVars, qemuVars,
         histVars
  <1>5. ASSUME NEW o \in Outcomes, AddBackend(o)
        PROVE  QemuInv'
    <2> SUFFICES ASSUME ~broken' PROVE QemuInv'
      BY DEF QemuInv
    <2> DEFINE d == op.dev
    <2>1. d \in Devices /\ ~broken
      BY <1>5 DEF AddBackend, At, TypeOK, RunRaw
    <2>2. /\ o \in {"ok", "refused", "ended"}
          /\ o = "ok" => d \notin backends
          /\ backends' = IF o = "ok" THEN backends \cup {d} ELSE backends
      BY <1>5, PlanIsItself, RunRawAnswers DEF AddBackend
    <2>3. op'.dev = d /\ op'.pc = IF o = "ok" THEN "device" ELSE "rollbackHost"
      BY <1>5, GotoEffect, RollbackTargets DEF AddBackend
    <2>4. \A e \in Devices : e # d => Matches(e)
      BY <1>5, <2>1 DEF QemuInv
    <2>5. /\ \/ d \in backends /\ d \in kept
             \/ d \notin backends /\ d \notin kept /\ frontends[d] = NoPort
          /\ d \notin cutShort
      BY <1>5, <2>1 DEF AddBackend, At, QemuInv, Stage, AttachPCs
    <2>6. \A e \in Devices : e # d => Matches(e)'
      BY <1>5, <2>2, <2>4 DEF AddBackend, Matches, regVars, histVars
    <2>7. Stage' /\ op'.dev = d /\ op'.pc \notin {"idle", "umount", "detach"}
      BY <1>5, <2>2, <2>3, <2>5 DEF AddBackend, Stage, AttachPCs, histVars
    <2>8. QED
      BY <2>6, <2>7 DEF QemuInv
  <1>6. ASSUME NEW o \in Outcomes, AddDevice(o)
        PROVE  QemuInv'
    <2> SUFFICES ASSUME ~broken' PROVE QemuInv'
      BY DEF QemuInv
    <2> DEFINE d == op.dev
    <2>1. d \in Devices /\ ~broken
      BY <1>6 DEF AddDevice, At, TypeOK, RunRaw
    <2>2. /\ o \in {"ok", "refused", "ended"}
          /\ frontends' = IF o = "ok" THEN [frontends EXCEPT ![d] = op.port] ELSE frontends
      BY <1>6, RunRawAnswers DEF AddDevice
    <2>3. /\ op'.dev = d /\ op'.port = op.port
          /\ o = "ok" => op'.pc \in {"mount", "register"}
          /\ o # "ok" => op'.pc = "release"
      BY <1>6, GotoEffect, RollbackTargets DEF AddDevice
    <2>4. \A e \in Devices : e # d => Matches(e)
      BY <1>6, <2>1 DEF QemuInv
    <2>5. d \in backends /\ frontends[d] = NoPort /\ d \notin cutShort \cup kept
      BY <1>6, <2>1 DEF AddDevice, At, QemuInv, Stage, AttachPCs
    <2>9. /\ \A e \in Devices : e # d => frontends'[e] = frontends[e]
          /\ frontends'[d] = IF o = "ok" THEN op.port ELSE NoPort
      BY <2>1, <2>2, <2>5 DEF TypeOK
    <2>6. \A e \in Devices : e # d => Matches(e)'
      BY <1>6, <2>9, <2>4 DEF AddDevice, Matches, regVars, histVars
    <2>7. Stage' /\ op'.dev = d /\ op'.pc \notin {"idle", "umount", "detach"}
      BY <1>6, <2>9, <2>2, <2>3, <2>5 DEF AddDevice, Stage, AttachPCs, histVars
    <2>8. QED
      BY <2>6, <2>7 DEF QemuInv
  <1>7. ASSUME NEW o \in Outcomes, DeleteDevice(o)
        PROVE  QemuInv'
    <2> SUFFICES ASSUME ~broken' PROVE QemuInv'
      BY DEF QemuInv
    <2> DEFINE d == op.dev
    <2>1. d \in Devices /\ ~broken
      BY <1>7 DEF DeleteDevice, At, TypeOK, RunRaw
    <2>2. /\ o \in {"ok", "refused", "ended"}
          /\ o = "ok" => frontends[d] # NoPort
          /\ o = "ended" => op.pc = "detach"
          /\ frontends' = IF o = "ok" THEN [frontends EXCEPT ![d] = NoPort] ELSE frontends
          /\ kept' = IF o = "refused" /\ frontends[d] # NoPort THEN kept \cup {d} ELSE kept
      BY <1>7, RunRawAnswers DEF DeleteDevice, At
    <2>3. \A e \in Devices : e # d => Matches(e)
      BY <2>1 DEF QemuInv
    <2>4. /\ \A e \in Devices : e # d => frontends'[e] = frontends[e]
          /\ o = "ok" => frontends'[d] = NoPort
      BY <2>1, <2>2 DEF TypeOK
    <2>5. \A e \in Devices : e # d => Matches(e)'
      BY <1>7, <2>2, <2>3, <2>4 DEF DeleteDevice, Matches, regVars
    <2>6. CASE op.pc = "rollbackQMP"
      <3>1. d \in backends /\ frontends[d] # NoPort /\ d \notin cutShort \cup kept
        BY <2>1, <2>6 DEF QemuInv, Stage, AttachPCs, OpInv
      <3>2. /\ op'.pc = IF o = "ok" THEN "release" ELSE "rollbackHost"
            /\ op'.dev = d /\ o \in {"ok", "refused"}
        BY <1>7, <2>2, <2>6, <3>1, GotoEffect DEF DeleteDevice, At
      <3>3. Stage'
        BY <1>7, <2>2, <2>4, <3>1, <3>2 DEF DeleteDevice, Stage, AttachPCs
      <3>4. QED
        BY <2>5, <3>2, <3>3 DEF QemuInv
    <2>7. CASE op.pc = "detach"
      <3>1. Matches(d) /\ d \in attached
        BY <2>1, <2>7 DEF QemuInv, OpInv, DetachPCs
      <3>2. CASE o = "ok"
        <4>1. op'.pc = "unback" /\ op'.dev = d
          BY <1>7, <2>7, <3>2, GotoEffect DEF DeleteDevice, At
        <4>2. Stage'
          BY <1>7, <2>2, <2>4, <3>1, <3>2, <4>1 DEF DeleteDevice, Matches, Stage, AttachPCs
        <4>3. QED
          BY <2>5, <4>1, <4>2 DEF QemuInv
      <3>3. CASE o # "ok"
        <4>1. op'.pc = "idle"
          BY <1>7, <2>7, <3>3, ReturnEffect DEF DeleteDevice, At
        <4>2. \A e \in Devices : e = d => Matches(e)'
          BY <1>7, <2>2, <3>1, <3>3 DEF DeleteDevice, Matches, regVars
        <4>3. QED
          BY <2>5, <4>1, <4>2 DEF QemuInv, Stage, AttachPCs
      <3>4. QED BY <3>2, <3>3
    <2>8. QED
      BY <1>7, <2>6, <2>7 DEF DeleteDevice
  <1>8. ASSUME NEW o \in Outcomes, ReleaseBackend(o)
        PROVE  QemuInv'
    <2> SUFFICES ASSUME ~broken' PROVE QemuInv'
      BY DEF QemuInv
    <2> DEFINE d == op.dev
    <2>1. d \in Devices /\ ~broken
      BY <1>8 DEF ReleaseBackend, At, TypeOK, RunRaw
    <2>2. d \in backends /\ frontends[d] = NoPort /\ d \notin cutShort
      BY <1>8, <2>1 DEF ReleaseBackend, QemuInv, Stage, AttachPCs
    <2>3. /\ o \in {"ok", "refused", "ended"}
          /\ o = "ended" => op.pc = "unback"
          /\ backends' = IF o = "ok" THEN backends \ {d} ELSE backends
          /\ cutShort' = IF o = "ended" THEN cutShort \cup {d} ELSE cutShort
          /\ kept' = IF o = "refused" THEN kept \cup {d} ELSE kept
      BY <1>8, <2>2, PlanIsItself, RunRawAnswers DEF ReleaseBackend, At
    <2>4. \A e \in Devices : e # d => Matches(e)
      BY <1>8, <2>1 DEF ReleaseBackend, QemuInv
    <2>5. \A e \in Devices : e # d => Matches(e)'
      BY <1>8, <2>3, <2>4 DEF ReleaseBackend, Matches, regVars
    <2>6. CASE o = "ok"
      <3>1. op'.pc \in {"rollbackHost", "remove"} /\ op'.dev = d
        BY <1>8, <2>6, GotoEffect DEF ReleaseBackend, At
      <3>4. op.pc = "release" => d \notin kept
        BY <2>1 DEF QemuInv, Stage
      <3>5. op'.pc = "rollbackHost" => op.pc = "release"
        BY <1>8, <2>6, GotoEffect DEF ReleaseBackend, At
      <3>2. Stage'
        BY <1>8, <2>2, <2>3, <2>6, <3>1, <3>4, <3>5 DEF ReleaseBackend, Stage, AttachPCs
      <3>3. QED
        BY <2>5, <3>1, <3>2 DEF QemuInv
    <2>7. CASE o = "ended"
      <3>1. op.pc = "unback" /\ op'.pc = "idle" /\ d \in attached
        BY <1>8, <2>3, <2>7, ReturnEffect DEF ReleaseBackend, At, OpInv, DetachPCs
      <3>2. \A e \in Devices : e = d => Matches(e)'
        BY <1>8, <2>2, <2>3, <2>7, <3>1 DEF ReleaseBackend, Matches, regVars
      <3>3. QED
        BY <2>5, <3>1, <3>2 DEF QemuInv, Stage, AttachPCs
    <2>9. CASE o = "refused"
      <3>1. CASE op.pc = "release"
        <4>1. op'.pc = "rollbackHost" /\ op'.dev = d
          BY <1>8, <3>1, GotoEffect DEF ReleaseBackend, At
        <4>2. Stage'
          BY <1>8, <2>2, <2>3, <2>9, <4>1 DEF ReleaseBackend, Stage, AttachPCs
        <4>3. QED
          BY <2>5, <4>1, <4>2 DEF QemuInv
      <3>2. CASE op.pc = "unback"
        <4>1. op'.pc = "idle" /\ d \in attached
          BY <1>8, <2>9, <3>2, ReturnEffect DEF ReleaseBackend, At, OpInv, DetachPCs
        <4>2. \A e \in Devices : e = d => Matches(e)'
          BY <1>8, <2>2, <2>3, <2>9, <4>1 DEF ReleaseBackend, Matches, regVars
        <4>3. QED
          BY <2>5, <4>1, <4>2 DEF QemuInv, Stage, AttachPCs
      <3>3. QED
        BY <1>8, <3>1, <3>2 DEF ReleaseBackend
    <2>8. QED
      BY <2>3, <2>6, <2>7, <2>9
  <1>9. CASE AttachGuest
    BY <1>9, GotoEffect DEF AttachGuest, At, QemuInv, Stage, Matches, AttachPCs,
        regVars, setVars, qemuVars, hostVars, histVars
  <1>10. CASE Register
    <2> SUFFICES ASSUME ~broken' PROVE QemuInv'
      BY DEF QemuInv
    <2> DEFINE d == op.dev
    <2>1. d \in Devices /\ ~broken /\ op'.pc = "idle"
      BY <1>10, ReturnEffect DEF Register, At, TypeOK
    <2>2. d \in backends /\ frontends[d] = op.port /\ d \notin cutShort \cup kept
      BY <1>10, <2>1 DEF Register, At, QemuInv, Stage, AttachPCs
    <2>3. \A e \in Devices : e # d => Matches(e)
      BY <2>1 DEF QemuInv
    <2>4. port'[d] = op.port /\ \A e \in Devices : e # d => port'[e] = port[e]
      BY <1>10, <2>1 DEF Register, TypeOK
    <2>5. \A e \in Devices : Matches(e)'
      BY <1>10, <2>2, <2>3, <2>4 DEF Register, Matches, qemuVars
    <2>6. QED
      BY <2>1, <2>5 DEF QemuInv, Stage, AttachPCs
  <1>11. CASE RollbackHost
    BY <1>11, ReturnEffect DEF RollbackHost, At, QemuInv, Stage, Matches,
        AttachPCs, regVars, setVars, qemuVars, OpInv
  <1>12. ASSUME NEW d \in Devices, Detach(d)
        PROVE  QemuInv'
    BY <1>12 DEF Detach, At, QemuInv, Stage, Matches, AttachPCs, regVars,
        setVars, qemuVars, hostVars, histVars, OpInv
  <1>13. CASE DetachGuest
    BY <1>13, GotoEffect, ReturnEffect DEF DetachGuest, At, QemuInv, Stage,
        Matches, AttachPCs, regVars, setVars, qemuVars, hostVars
  <1>14. CASE Remove
    <2> SUFFICES ASSUME ~broken' PROVE QemuInv'
      BY DEF QemuInv
    <2> DEFINE d == op.dev
    <2>1. d \in Devices /\ ~broken /\ op'.pc = "idle"
      BY <1>14, ReturnEffect DEF Remove, At, TypeOK
    <2>2. d \notin backends /\ frontends[d] = NoPort /\ d \notin cutShort
      BY <1>14, <2>1 DEF Remove, At, QemuInv, Stage
    <2>3. \A e \in Devices : e # d => Matches(e)
      BY <1>14, <2>1 DEF Remove, QemuInv
    <2>4. port'[d] = NoPort /\ \A e \in Devices : e # d => port'[e] = port[e]
      BY <1>14, <2>1 DEF Remove, TypeOK
    <2>5. \A e \in Devices : Matches(e)'
      BY <1>14, <2>2, <2>3, <2>4 DEF Remove, Matches, qemuVars
    <2>6. QED
      BY <2>1, <2>5 DEF QemuInv, Stage, AttachPCs
  <1>15. ASSUME NEW h \in Helpers, ForgetHelper(h)
        PROVE  QemuInv'
    BY <1>15 DEF ForgetHelper, At, QemuInv, Stage, Matches, AttachPCs, qemuVars,
        hostVars, histVars
  <1>16. ASSUME NEW h \in Helpers, HelperExits(h)
        PROVE  QemuInv'
    BY <1>16 DEF HelperExits, QemuInv, Stage, Matches, AttachPCs, regVars,
        setVars, qemuVars, histVars
  <1>17. CASE ContextEnds
    BY <1>17 DEF ContextEnds, QemuInv, Stage, Matches, AttachPCs, regVars,
        setVars, qemuVars, hostVars, histVars
  <1>18. CASE SessionBreaks
    BY <1>18 DEF SessionBreaks, QemuInv, Stage, Matches, AttachPCs, regVars,
        setVars, qemuVars, hostVars, histVars
  <1>19. CASE TakeSnapshot
    BY <1>19 DEF TakeSnapshot, QemuInv, Stage, Matches, AttachPCs, regVars,
        qemuVars, hostVars, histVars
  <1>20. CASE StopProcesses
    BY <1>20 DEF StopProcesses, QemuInv, Stage, Matches, AttachPCs, regVars,
        qemuVars
  <1>21. CASE UNCHANGED vars
    BY <1>21 DEF vars, QemuInv, Stage, Matches, AttachPCs, regVars, setVars,
        qemuVars, hostVars, histVars
  <1>22. QED
    BY <1>1, <1>2, <1>3, <1>4, <1>5, <1>6, <1>7, <1>8, <1>9, <1>10, <1>11,
        <1>12, <1>13, <1>14, <1>15, <1>16, <1>17, <1>18, <1>19, <1>20, <1>21
        DEF Next

\* After the umount of a share nothing but a broken session or QEMU's refusal
\* keeps the detach from the end: the context cannot end.
LEMMA MountStep ==
  ASSUME TypeOK, OpInv, QemuInv, MountInv, [Next]_vars
  PROVE  MountInv'
  <1>1. ASSUME NEW d \in Devices, NEW p \in 0 .. Len(Declared), Attach(d, p)
        PROVE  MountInv'
    BY <1>1 DEF Attach, At, NoHelper, MountInv, regVars, setVars, qemuVars,
        hostVars, histVars, OpInv
  <1>2. CASE AttachVirtioFSHost
    <2>1. op'.pc \in {"idle", "socket"}
      BY <1>2, ReturnEffect DEF AttachVirtioFSHost, TypeOK
    <2>2. QED
      BY <1>2, <2>1 DEF AttachVirtioFSHost, At, MountInv, regVars, histVars
  <1>3. CASE WaitSocket
    BY <1>3, GotoEffect, ReturnEffect DEF WaitSocket, At, MountInv, regVars,
        setVars, qemuVars
  <1>4. CASE ReservePort
    BY <1>4, AllocatesPort DEF ReservePort, At, MountInv, regVars, setVars,
        qemuVars, hostVars, histVars
  <1>5. ASSUME NEW o \in Outcomes, AddBackend(o)
        PROVE  MountInv'
    <2>1. op'.pc \in {"device", "rollbackHost"}
      BY <1>5, GotoEffect, RollbackTargets DEF AddBackend
    <2>2. ~broken' => ~broken
      BY <1>5 DEF AddBackend, RunRaw
    <2>3. QED
      BY <1>5, <2>1, <2>2 DEF AddBackend, At, MountInv, regVars, histVars
  <1>6. ASSUME NEW o \in Outcomes, AddDevice(o)
        PROVE  MountInv'
    <2>1. ~broken' => ~broken
      BY <1>6 DEF AddDevice, RunRaw
    <2>2. /\ op'.pc \in {"mount", "register", "release"} /\ op'.dev = op.dev
          /\ op'.pc = "register" => op.dev \notin Targeted
      BY <1>6, GotoEffect, RollbackTargets DEF AddDevice
    <2>3. QED
      BY <1>6, <2>1, <2>2 DEF AddDevice, At, MountInv, regVars, histVars
  <1>7. ASSUME NEW o \in Outcomes, DeleteDevice(o)
        PROVE  MountInv'
    <2>1. op'.pc # "register"
      BY <1>7, GotoEffect, ReturnEffect DEF DeleteDevice
    <2>2. CASE broken'
      BY <1>7, <2>1, <2>2 DEF DeleteDevice, MountInv
    <2>3. CASE ~broken' /\ op.pc = "rollbackQMP"
      <3>1. ~broken /\ op.dev \notin attached
        BY <1>7, <2>3 DEF DeleteDevice, At, RunRaw, OpInv, AttachPCs
      <3>2. QED
        BY <1>7, <2>1, <2>3, <3>1 DEF DeleteDevice, MountInv, regVars
    <2>4. CASE ~broken' /\ op.pc = "detach"
      <3>1. ~broken /\ op.dev \in Devices /\ op.dev \in attached
        BY <1>7, <2>4 DEF DeleteDevice, RunRaw, At, OpInv, DetachPCs, TypeOK
      <3>2. op.dev \in Targeted => frontends[op.dev] # NoPort \/ op.dev \in kept
        <4>1. Matches(op.dev)
          BY <2>4, <3>1 DEF QemuInv
        <4>2. QED BY <3>1, <4>1 DEF Matches, MountInv, OpInv
      <3>3. op.dev \in Targeted => o = "ok" \/ op.dev \in kept'
        BY <1>7, <2>4, <3>2, RunRawAnswers DEF DeleteDevice, CleanupContextEnds
      <3>6. kept \subseteq kept'
        BY <1>7 DEF DeleteDevice
      <3>4. o = "ok" => op'.pc = "unback" /\ op'.dev = op.dev
        BY <1>7, <2>4, GotoEffect DEF DeleteDevice, At
      <3>5. QED
        BY <1>7, <2>1, <3>1, <3>3, <3>4, <3>6 DEF DeleteDevice, MountInv, regVars
    <2>5. QED
      BY <1>7, <2>2, <2>3, <2>4 DEF DeleteDevice
  <1>8. ASSUME NEW o \in Outcomes, ReleaseBackend(o)
        PROVE  MountInv'
    <2>1. op'.pc # "register"
      BY <1>8, GotoEffect, ReturnEffect DEF ReleaseBackend
    <2>2. \A e \in cutShort' : e \notin Targeted
      BY <1>8 DEF ReleaseBackend, CleanupContextEnds, MountInv
    <2>3. CASE broken'
      BY <1>8, <2>1, <2>2, <2>3 DEF MountInv
    <2>4. CASE ~broken' /\ op.pc = "release"
      <3>1. ~broken /\ op.dev \notin attached
        BY <1>8, <2>4 DEF ReleaseBackend, RunRaw, OpInv, AttachPCs
      <3>2. QED
        BY <1>8, <2>1, <2>2, <3>1 DEF ReleaseBackend, MountInv, regVars
    <2>5. CASE ~broken' /\ op.pc = "unback"
      <3>1. ~broken
        BY <1>8, <2>5 DEF ReleaseBackend, RunRaw
      <3>2. op.dev \in backends /\ frontends[op.dev] = NoPort
        BY <2>5, <3>1 DEF QemuInv, Stage
      <3>3. op.dev \in Targeted => o = "ok" \/ op.dev \in kept'
        BY <1>8, <2>5, <3>2, RunRawAnswers DEF ReleaseBackend, CleanupContextEnds
      <3>6. kept \subseteq kept'
        BY <1>8 DEF ReleaseBackend
      <3>4. o = "ok" => op'.pc = "remove" /\ op'.dev = op.dev
        BY <1>8, <2>5, GotoEffect DEF ReleaseBackend, At
      <3>5. QED
        BY <1>8, <2>1, <2>2, <3>1, <3>3, <3>4, <3>6 DEF ReleaseBackend, MountInv, regVars
    <2>6. QED
      BY <1>8, <2>3, <2>4, <2>5 DEF ReleaseBackend
  <1>9. CASE AttachGuest
    BY <1>9, GotoEffect DEF AttachGuest, At, MountInv, regVars, setVars,
        qemuVars, hostVars, histVars
  <1>10. CASE Register
    BY <1>10, ReturnEffect DEF Register, At, HandsOver, MountInv, qemuVars,
        hostVars
  <1>11. CASE RollbackHost
    BY <1>11, ReturnEffect DEF RollbackHost, At, MountInv, regVars, setVars,
        qemuVars
  <1>12. ASSUME NEW d \in Devices, Detach(d)
        PROVE  MountInv'
    BY <1>12 DEF Detach, At, MountInv, regVars, setVars, qemuVars, hostVars,
        histVars
  <1>13. CASE DetachGuest
    BY <1>13, GotoEffect, ReturnEffect DEF DetachGuest, At, MountInv, regVars,
        setVars, qemuVars, hostVars
  <1>14. CASE Remove
    BY <1>14, ReturnEffect DEF Remove, At, MountInv, qemuVars
  <1>15. ASSUME NEW h \in Helpers, ForgetHelper(h)
        PROVE  MountInv'
    BY <1>15 DEF ForgetHelper, At, MountInv, qemuVars, hostVars, histVars
  <1>16. ASSUME NEW h \in Helpers, HelperExits(h)
        PROVE  MountInv'
    BY <1>16 DEF HelperExits, MountInv, regVars, setVars, qemuVars, histVars
  <1>17. CASE ContextEnds
    BY <1>17 DEF ContextEnds, MountInv, regVars, setVars, qemuVars, hostVars,
        histVars
  <1>18. CASE SessionBreaks
    BY <1>18 DEF SessionBreaks, MountInv, regVars, setVars, qemuVars, hostVars,
        histVars
  <1>19. CASE TakeSnapshot
    BY <1>19 DEF TakeSnapshot, MountInv, regVars, qemuVars, hostVars, histVars
  <1>20. CASE StopProcesses
    BY <1>20 DEF StopProcesses, MountInv, regVars, qemuVars
  <1>21. CASE UNCHANGED vars
    BY <1>21 DEF vars, MountInv, regVars, setVars, qemuVars, hostVars, histVars
  <1>22. QED
    BY <1>1, <1>2, <1>3, <1>4, <1>5, <1>6, <1>7, <1>8, <1>9, <1>10, <1>11,
        <1>12, <1>13, <1>14, <1>15, <1>16, <1>17, <1>18, <1>19, <1>20, <1>21
        DEF Next

-----------------------------------------------------------------------------
(* The theorems *)

\* With nothing attached there is nothing to account for.
LEMMA HotplugInvInit == Init => HotplugInv
  BY HotplugTypeInit, IdleType DEF Init, HotplugInv, OpInv, OwnedInv, SetInv, QemuInv, Stage,
     Matches, MountInv, AttachPCs, DetachPCs, NoPort

\* Whatever runs at the same time, the operations of hotplug.Runtime keep the
\* registry, the process set, the guest's mounts and QEMU in step.
THEOREM HotplugInvariant == Spec => [](TypeOK /\ HotplugInv)
  <1>1. Init => TypeOK /\ HotplugInv
    BY HotplugTypeInit, HotplugInvInit
  <1>2. TypeOK /\ HotplugInv /\ [Next]_vars => (TypeOK /\ HotplugInv)'
    BY HotplugTypeStep, OpStep, OwnedStep, SetStep, QemuStep, MountStep DEF HotplugInv
  <1>3. QED
    BY <1>1, <1>2, PTL DEF Spec

\* For any devices and ports: with a sound session and no operation under way,
\* QEMU has what Runtime has registered and nothing else, so the rollback of
\* Runner.Attach and the steps of Runner.Detach leave nothing half done, except
\* by a context that ends between device_del and the release, and except what
\* QEMU itself refuses to remove.
THEOREM RegistryAlwaysMatchesQEMU == Spec => []RegistryMatchesQEMU
  <1>1. TypeOK /\ HotplugInv => RegistryMatchesQEMU
    <2> SUFFICES ASSUME TypeOK, HotplugInv, op.pc = "idle", ~broken
                 PROVE  RegistryMatchesQEMU
      BY DEF RegistryMatchesQEMU, At
    <2>1. \A d \in Devices : Matches(d)
      BY DEF HotplugInv, QemuInv
    <2>2. kept \subseteq Devices /\ cutShort \subseteq Devices
      BY DEF TypeOK
    <2>3. QED BY <2>1, <2>2 DEF Matches, RegistryMatchesQEMU
  <1>2. QED
    BY <1>1, HotplugInvariant, PTL

\* However many virtiofsd processes there are: with no operation under way, one
\* that runs serves a registered device, unless its Stop failed.
THEOREM HelpersStayAccountedFor == Spec => []HelpersAccountedFor
  <1>1. TypeOK /\ HotplugInv => HelpersAccountedFor
    BY DEF HotplugInv, OwnedInv, HelpersAccountedFor, At, AttachPCs
  <1>2. QED
    BY <1>1, HotplugInvariant, PTL

\* Whenever ProcessSet.Close runs, a helper survives it only if it could not be
\* stopped or was registered after Close had taken the members.
THEOREM SurvivorsAreLate == Spec => []SurvivorsWereLate
  <1>1. TypeOK /\ HotplugInv => SurvivorsWereLate
    <2> SUFFICES ASSUME TypeOK, HotplugInv, op.pc = "idle", teardown = "closed",
                        NEW h \in alive, h \notin unstoppable
                 PROVE  h \in late
      BY DEF SurvivorsWereLate, At
    <2>1. PICK d \in attached : helper[d] = h
      BY DEF HotplugInv, OwnedInv, AttachPCs
    <2>2. h \in group
      BY <2>1 DEF HotplugInv, SetInv
    <2>3. QED BY <2>2 DEF HotplugInv, SetInv
  <1>2. QED
    BY <1>1, HotplugInvariant, PTL

\* No caller that gives up in the middle of a detach leaves a registered share
\* unmounted: detach goes on with a context of its own after the umount, and only
\* a lost answer, a broken session or QEMU's refusal stops it.
THEOREM DetachIsNeverHalfDone == Spec => []NoHalfDetach
  <1>1. TypeOK /\ HotplugInv => NoHalfDetach
    BY DEF HotplugInv, MountInv, NoHalfDetach, At
  <1>2. QED
    BY <1>1, HotplugInvariant, PTL

=============================================================================
