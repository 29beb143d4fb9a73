-------------------------------- MODULE Hotplug --------------------------------
(***************************************************************************)
(* Attaching and detaching devices of a running machine: hotplug.Runner    *)
(* and Runtime with the QMP adapter, over a QMP session that poisons       *)
(* itself, a guest agent whose answers get lost, virtiofsd helpers and a   *)
(* teardown that runs at any time.  Runtime.mu serializes the operations,  *)
(* so at most one is under way.                                            *)
(***************************************************************************)
EXTENDS Naturals, Sequences

CONSTANTS
  Shares,      \* virtiofs devices
  Targeted,    \* those with a mount target in the guest
  Plain,       \* network and block devices
  Declared,    \* manifest.hotplug, in order
  Ports,       \* PCIe root ports reserved at boot
  MaxHelpers   \* bound: virtiofsd processes started in one behaviour

Devices == Shares \cup Plain
Helpers == 1 .. MaxHelpers
NoHelper == 0
NoPort == Ports

ASSUME HotplugAssumption ==
  /\ Shares \cap Plain = {} /\ Targeted \subseteq Shares
  /\ Declared \in Seq(Devices)
  /\ Ports \in Nat /\ MaxHelpers \in Nat

VARIABLES
  \* Runtime
  attached,    \* the registered devices
  port,        \* their ports
  helper,      \* their helpers, NoHelper once the process is gone
  \* the operation that holds Runtime.mu
  op,          \* [pc, dev, port, helper]
  ended,       \* its context has ended
  \* ProcessSet
  group,       \* helpers it will stop
  teardown,    \* "no", "stopping" or "closed"
  snapshot,    \* the members Close took
  \* the outside
  backends,    \* chardevs, netdevs and block nodes in QEMU, by device
  frontends,   \* port of each device QEMU shows to the guest, or NoPort
  mounted,     \* shares mounted in the guest
  alive,       \* running helpers
  started,     \* helpers started so far
  broken,      \* the QMP session is poisoned
  \* history
  unstoppable, \* helpers whose Stop failed
  late,        \* helpers registered after the snapshot
  lostUnmount, \* shares unmounted by a command whose answer was lost
  cutShort,    \* devices whose detach ended between device_del and release
  kept         \* devices that QEMU had and refused to remove

regVars == <<attached, port, helper>>
setVars == <<group, teardown, snapshot>>
qemuVars == <<backends, frontends>>
hostVars == <<alive, started>>
histVars == <<unstoppable, late, lostUnmount, cutShort, kept>>
vars == <<regVars, op, ended, setVars, qemuVars, mounted, hostVars, broken, histVars>>

Idle == [pc |-> "idle", dev |-> "none", port |-> NoPort, helper |-> NoHelper]

Init ==
  /\ attached = {}
  /\ port = [d \in Devices |-> NoPort]
  /\ helper = [d \in Devices |-> NoHelper]
  /\ op = Idle /\ ended = FALSE
  /\ group = {} /\ teardown = "no" /\ snapshot = {}
  /\ backends = {} /\ frontends = [d \in Devices |-> NoPort]
  /\ mounted = {}
  /\ alive = {} /\ started = 0
  /\ broken = FALSE
  /\ unstoppable = {} /\ late = {} /\ lostUnmount = {} /\ cutShort = {}
  /\ kept = {}

At(pc) == op.pc = pc
Goto(pc) == op' = [op EXCEPT !.pc = pc]
Return == op' = Idle

-----------------------------------------------------------------------------
(* The collaborators, as the code uses them. *)

\* RunRaw: "ok" and "refused" are answers; "lost" is a call that the context,
\* the RPC bound or the end of QEMU interrupts, which poisons the session;
\* every later call is "broken".  QEMU may refuse any command, one that it could
\* carry out as well, as it does with device_del while it migrates.
RunRaw(possible, outcome) ==
  /\ outcome \in IF broken THEN {"broken"} ELSE {"ok", "refused", "lost"}
  /\ outcome = "ok" => possible
  /\ broken' = (broken \/ outcome = "lost")

\* process.Stop: the helper is gone, or an error is returned and it lives on.
Stop(h) ==
  \/ /\ alive' = alive \ {h} /\ UNCHANGED unstoppable
  \/ /\ h \in alive
     /\ unstoppable' = unstoppable \cup {h} /\ UNCHANGED alive

ContextEnds ==
  /\ op.pc # "idle" /\ ~ended
  /\ ended' = TRUE
  /\ UNCHANGED <<regVars, op, setVars, qemuVars, mounted, hostVars, broken, histVars>>

HelperExits(h) ==
  /\ h \in alive
  /\ alive' = alive \ {h}
  /\ UNCHANGED <<regVars, op, ended, setVars, qemuVars, mounted, started, broken, histVars>>

\* Another operation on the shared session is interrupted, or QEMU is gone.
SessionBreaks ==
  /\ ~broken
  /\ broken' = TRUE
  /\ UNCHANGED <<regVars, op, ended, setVars, qemuVars, mounted, hostVars, histVars>>

-----------------------------------------------------------------------------
(* Attach *)

AllocatePort(preferred) ==
  LET occupied == {port[d] : d \in attached}
      free == (0 .. Ports - 1) \ occupied IN
  IF preferred \in free THEN preferred
  ELSE IF free = {} THEN NoPort
  ELSE CHOOSE p \in free : \A q \in free : p <= q

\* Attach finds a declared device by its ID, AttachDevice gets a resolved one;
\* both take the lock, and a device already attached is refused.
Attach(d, preferred) ==
  /\ At("idle")
  /\ \/ \E i \in DOMAIN Declared : Declared[i] = d /\ preferred = i - 1
     \/ preferred = Len(Declared)
  /\ d \notin attached
  /\ op' = [pc |-> IF d \in Shares THEN "spawn" ELSE "port", dev |-> d,
            port |-> preferred, helper |-> NoHelper]
  /\ ended' = FALSE
  /\ UNCHANGED <<regVars, setVars, qemuVars, mounted, hostVars, broken, histVars>>

AttachVirtioFSHost ==
  /\ At("spawn")
  /\ \/ /\ started < MaxHelpers
        /\ started' = started + 1
        /\ alive' = alive \cup {started'}
        /\ op' = [op EXCEPT !.pc = "socket", !.helper = started']
     \/ Return /\ UNCHANGED hostVars
  /\ UNCHANGED <<regVars, ended, setVars, qemuVars, mounted, broken, histVars>>

\* The socket appears, or the wait fails and the helper is stopped.
WaitSocket ==
  /\ At("socket")
  /\ \/ op.helper \in alive /\ Goto("port") /\ UNCHANGED <<alive, unstoppable>>
     \/ Return /\ Stop(op.helper)
  /\ UNCHANGED <<regVars, ended, setVars, qemuVars, mounted, started, broken,
                 late, lostUnmount, cutShort, kept>>

ReservePort ==
  /\ At("port")
  /\ LET p == AllocatePort(op.port) IN
     op' = [op EXCEPT !.pc = IF p = NoPort THEN "rollbackHost" ELSE "backend",
                      !.port = p]
  /\ UNCHANGED <<regVars, ended, setVars, qemuVars, mounted, hostVars, broken, histVars>>

\* planFor: for each kind one backend under a name of its own (char-, netdev-
\* or block- and the ID), which one release command removes.
Plan(d) == [backend |-> <<d>>, release |-> <<d>>]

\* Fault: the commands that succeeded are not counted.
RollbackNothing(succeeded) == "rollbackHost"

\* The rollback releases only what succeeded.
RollbackFrom(succeeded) ==
  IF SubSeq(Plan(op.dev).release, 1, succeeded) = <<>> THEN "rollbackHost" ELSE "release"

\* AttachDevice of the adapter, first command: nothing to release if it fails,
\* although QEMU may have executed the one whose answer was lost.
AddBackend(outcome) ==
  LET d == op.dev IN
  /\ At("backend")
  /\ \/ ended /\ outcome = "ended" /\ UNCHANGED broken
     \/ RunRaw(d \notin backends, outcome)
  /\ \/ outcome \in {"ok", "lost"} /\ backends' = backends \cup {Head(Plan(d).backend)}
     \/ outcome # "ok" /\ UNCHANGED backends
  /\ Goto(IF outcome = "ok" THEN "device" ELSE RollbackFrom(0))
  /\ UNCHANGED <<regVars, ended, setVars, frontends, mounted, hostVars, histVars>>

\* The second command shows the device to the guest.
AddDevice(outcome) ==
  LET d == op.dev IN
  /\ At("device")
  /\ \/ ended /\ outcome = "ended" /\ UNCHANGED broken
     \/ RunRaw(d \in backends /\ \A e \in Devices : frontends[e] # op.port, outcome)
  /\ \/ outcome \in {"ok", "lost"} /\ frontends' = [frontends EXCEPT ![d] = op.port]
     \/ outcome # "ok" /\ UNCHANGED frontends
  /\ Goto(IF outcome # "ok" THEN RollbackFrom(1)
          ELSE IF d \in Targeted THEN "mount" ELSE "register")
  /\ UNCHANGED <<regVars, ended, setVars, backends, mounted, hostVars, histVars>>

\* The mount command: a failure is reported with or without its effect.
AttachGuest ==
  /\ At("mount")
  /\ \/ mounted' = mounted \cup {op.dev} /\ Goto("register")
     \/ mounted' \in {mounted, mounted \cup {op.dev}} /\ Goto("rollbackQMP")
  /\ UNCHANGED <<regVars, ended, setVars, qemuVars, hostVars, broken, histVars>>

\* Fault: the helper is not handed to the process set.
HandsOverNothing(h) == {}

\* register gives the helper, if there is one, to the process set.
HandsOver(h) == {h} \ {NoHelper}

Register ==
  LET d == op.dev IN
  /\ At("register")
  /\ attached' = attached \cup {d}
  /\ port' = [port EXCEPT ![d] = op.port]
  /\ helper' = [helper EXCEPT ![d] = op.helper]
  /\ group' = group \cup HandsOver(op.helper)
  /\ late' = IF teardown = "no" THEN late ELSE late \cup ({op.helper} \ {NoHelper})
  /\ Return
  /\ UNCHANGED <<ended, teardown, snapshot, qemuVars, mounted, hostVars, broken,
                 unstoppable, lostUnmount, cutShort, kept>>

\* register's goroutine: the helper ended by itself, so the device keeps its
\* place in the registry without it.  It needs the lock.
ForgetHelper(h) ==
  /\ At("idle")
  /\ h \in group \ alive
  /\ helper' = [d \in Devices |-> IF helper[d] = h THEN NoHelper ELSE helper[d]]
  /\ group' = group \ {h}
  /\ UNCHANGED <<attached, port, op, ended, teardown, snapshot, qemuVars, mounted,
                 hostVars, broken, histVars>>

-----------------------------------------------------------------------------
(* Undoing an attach that failed: all of it outlives the caller's context. *)

\* Fault: detach goes on with the caller's context after the umount.
CallersContextEnds(d) == ended

\* cleanupCtx of detach: it cannot end once the guest has unmounted the share.
CleanupContextEnds(d) == ended /\ d \notin Targeted

\* DetachDevice of the adapter: device_del and its event, for a rollback and
\* for a detach.  A device is deleted with the caller's context, one unmounted
\* before with a context that cannot end.
DeleteDevice(outcome) ==
  LET d == op.dev IN
  /\ op.pc \in {"rollbackQMP", "detach"}
  /\ \/ /\ At("detach") /\ CleanupContextEnds(d)
        /\ outcome = "ended" /\ UNCHANGED broken
     \/ RunRaw(frontends[d] # NoPort, outcome)
  /\ \/ outcome \in {"ok", "lost"} /\ frontends' = [frontends EXCEPT ![d] = NoPort]
     \/ outcome # "ok" /\ UNCHANGED frontends
  /\ kept' = IF outcome = "refused" /\ frontends[d] # NoPort THEN kept \cup {d} ELSE kept
  /\ IF At("detach")
     THEN IF outcome = "ok" THEN Goto("unback") ELSE Return
     ELSE Goto(IF outcome = "ok" THEN "release" ELSE "rollbackHost")
  /\ UNCHANGED <<regVars, ended, setVars, backends, mounted, hostVars, unstoppable,
                 late, lostUnmount, cutShort>>

\* The release commands of the plan; a detach reports their failure and leaves
\* the device registered, a rollback ignores it.  A context that has ended by
\* now fails the command before it is sent.
ReleaseBackend(outcome) ==
  LET d == op.dev IN
  /\ op.pc \in {"release", "unback"}
  /\ \/ /\ At("unback") /\ CleanupContextEnds(d) /\ ~broken
        /\ outcome = "ended" /\ cutShort' = cutShort \cup {d}
        /\ UNCHANGED broken
     \/ /\ RunRaw(d \in backends /\ frontends[d] = NoPort, outcome)
        /\ UNCHANGED cutShort
  /\ \/ outcome \in {"ok", "lost"} /\ backends' = backends \ {Head(Plan(d).release)}
     \/ outcome # "ok" /\ UNCHANGED backends
  /\ kept' = IF outcome = "refused" /\ d \in backends THEN kept \cup {d} ELSE kept
  /\ IF At("release") THEN Goto("rollbackHost")
     ELSE IF outcome = "ok" THEN Goto("remove") ELSE Return
  /\ UNCHANGED <<regVars, ended, setVars, frontends, mounted, hostVars, unstoppable,
                 late, lostUnmount>>

\* Fault: an attach that got no port returns at once.
StopsWithPort(h) == IF h = NoHelper \/ op.port = NoPort
                    THEN UNCHANGED <<alive, unstoppable>> ELSE Stop(h)

StopsHelper(h) == IF h = NoHelper THEN UNCHANGED <<alive, unstoppable>> ELSE Stop(h)

RollbackHost ==
  /\ At("rollbackHost")
  /\ Return
  /\ StopsHelper(op.helper)
  /\ UNCHANGED <<regVars, ended, setVars, qemuVars, mounted, started, broken,
                 late, lostUnmount, cutShort, kept>>

-----------------------------------------------------------------------------
(* Detach *)

Detach(d) ==
  /\ At("idle")
  /\ d \in attached
  /\ op' = [pc |-> IF d \in Targeted THEN "umount" ELSE "detach", dev |-> d,
            port |-> port[d], helper |-> helper[d]]
  /\ ended' = FALSE
  /\ UNCHANGED <<regVars, setVars, qemuVars, mounted, hostVars, broken, histVars>>

\* umount fails on a share that is not mounted, and an answer may be lost.
DetachGuest ==
  LET d == op.dev IN
  /\ At("umount")
  /\ \/ d \in mounted /\ mounted' = mounted \ {d} /\ Goto("detach") /\ UNCHANGED lostUnmount
     \/ d \in mounted /\ mounted' = mounted \ {d} /\ Return
        /\ lostUnmount' = lostUnmount \cup {d}
     \/ Return /\ UNCHANGED <<mounted, lostUnmount>>
  /\ UNCHANGED <<regVars, ended, setVars, qemuVars, hostVars, broken, unstoppable,
                 late, cutShort, kept>>

\* The helper is stopped if the registry still has it; whether or not that
\* works, the device and its port are free.
Remove ==
  LET d == op.dev IN
  /\ At("remove")
  /\ StopsHelper(op.helper)
  /\ attached' = attached \ {d}
  /\ port' = [port EXCEPT ![d] = NoPort]
  /\ helper' = [helper EXCEPT ![d] = NoHelper]
  /\ group' = group \ {op.helper}
  /\ lostUnmount' = lostUnmount \ {d} /\ kept' = kept \ {d}
  /\ Return
  /\ UNCHANGED <<ended, teardown, snapshot, qemuVars, mounted, started, broken, late,
                 cutShort>>

-----------------------------------------------------------------------------
(* Teardown: nothing makes it wait for an operation under way. *)

TakeSnapshot ==
  /\ teardown = "no"
  /\ teardown' = "stopping"
  /\ snapshot' = group
  /\ UNCHANGED <<regVars, op, ended, group, qemuVars, mounted, hostVars, broken, histVars>>

\* QEMU goes first and takes its monitor along; a Stop may fail.
StopProcesses ==
  /\ teardown = "stopping"
  /\ teardown' = "closed"
  /\ broken' = TRUE
  /\ \E survivors \in SUBSET (snapshot \cap alive) :
       /\ alive' = alive \ (snapshot \ survivors)
       /\ unstoppable' = unstoppable \cup survivors
  /\ UNCHANGED <<regVars, op, ended, group, snapshot, qemuVars, mounted, started,
                 late, lostUnmount, cutShort, kept>>

Outcomes == {"ok", "refused", "lost", "broken", "ended"}

Next ==
  \/ \E d \in Devices, p \in 0 .. Len(Declared) : Attach(d, p)
  \/ AttachVirtioFSHost \/ WaitSocket \/ ReservePort
  \/ \E o \in Outcomes : AddBackend(o) \/ AddDevice(o) \/ DeleteDevice(o) \/ ReleaseBackend(o)
  \/ AttachGuest \/ Register \/ RollbackHost
  \/ \E d \in Devices : Detach(d)
  \/ DetachGuest \/ Remove
  \/ \E h \in Helpers : ForgetHelper(h) \/ HelperExits(h)
  \/ ContextEnds \/ SessionBreaks \/ TakeSnapshot \/ StopProcesses

Spec == Init /\ [][Next]_vars

-----------------------------------------------------------------------------
(* Properties *)

\* While the QMP session is sound and no operation is under way, QEMU has the
\* backend and the device of every registered attachment, on the registered
\* port, and nothing else: whatever failed in between, and whenever the context
\* ended, attach undid all of it, and detach finished or had no effect.  There
\* are two exceptions.  A device without a mount whose detach lost its context
\* between device_del and the release stays registered with a backend alone.  And
\* what QEMU refused to remove it still has, though a rollback forgets it: where
\* the registry has it too, both agree on the port.
RegistryMatchesQEMU ==
  At("idle") /\ ~broken =>
    /\ \A d \in Devices \ kept : d \in backends <=> d \in attached
    /\ \A d \in Devices \ (cutShort \cup kept) : frontends[d] = port[d]
    /\ \A d \in cutShort : d \in attached /\ frontends[d] = NoPort
    /\ \A d \in kept : /\ d \in backends
                       /\ d \in attached => frontends[d] \in {NoPort, port[d]}

\* A virtiofsd that runs while no operation is under way serves a registered
\* device; the only others are those that a Stop could not stop.
HelpersAccountedFor ==
  At("idle") => \A h \in alive \ unstoppable : \E d \in attached : helper[d] = h

\* Of the helpers that survive the teardown, each one refused to stop or was
\* registered after ProcessSet.Close had taken its members.
SurvivorsWereLate ==
  At("idle") /\ teardown = "closed" => alive \subseteq unstoppable \cup late

\* A share is registered and not mounted only if the session is gone, the answer
\* to its umount was lost, or QEMU refused to give the device up after it; that a
\* caller gives up in the middle of a detach is never the reason.
NoHalfDetach ==
  At("idle") /\ ~broken =>
    \A d \in attached \cap Targeted : d \in mounted \cup lostUnmount \cup kept

=============================================================================
