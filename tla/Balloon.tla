------------------------------ MODULE Balloon ------------------------------
(***************************************************************************)
(* The balloon controller: the manifest's configuration with its defaults  *)
(* and checks, the loop that reads the guest's statistics and sets a new   *)
(* size, and the balloon request that sets one by hand.  QEMU and the      *)
(* guest's driver are modelled from how the controller uses them.          *)
(*                                                                         *)
(* Time passes in units, Second of them in a second.  Instants are kept as *)
(* ages, capped where no comparison can tell larger ones apart.            *)
(***************************************************************************)
EXTENDS Integers

CONSTANTS
    Memory,             \* the guest's memory at boot
    Inputs,             \* controller settings of the manifest, 0 for unset
    Second,             \* units of time in a second
    DefaultStep, DefaultPoll, DefaultHoldoff,
    MaxFailures,        \* maxConsecutiveFailures
    Demands,            \* memory the guest may need
    SavedSizes,         \* sizes a resumed machine may have been saved with
    Resizes,            \* sizes the balloon request may ask for
    MaxDelay,           \* bound on the time QMP calls take
    MaxDisturbances     \* bound on demand changes, resizes and faults

Fields == {"min", "max", "grow", "reclaim", "step", "poll", "holdoff"}

ASSUME BalloonAssumption ==
    /\ {Memory, Second, MaxFailures} \subseteq Nat \ {0}
    /\ {DefaultStep, DefaultPoll, DefaultHoldoff} \subseteq Nat \ {0}
    /\ Inputs \subseteq [Fields -> Int]
    /\ Demands \subseteq Nat
    /\ SavedSizes \subseteq 1 .. Memory
    /\ Resizes \subseteq Nat \ {0}
    /\ MaxDelay \in Nat /\ MaxDisturbances \in Nat

VARIABLES
    cfg,            \* the resolved configuration
    pc,             \* where the controller is
    failures,       \* consecutive failed cycles
    excused,        \* how many of them QMP or the guest caused
    startAge,       \* time since the controller started
    aboveAge,       \* time since aboveThresholdSince, None if it is zero
    sample,         \* the guest's last report, and whether it owes another
    reading,        \* the copy of it the cycle in progress works with
    delay,          \* time spent in QMP calls that ages what the controller reads
    phase,          \* position of now within its second
    tickIn,         \* time to the ticker's next tick
    ticked,         \* a tick waits in the ticker's channel
    reportIn,       \* time to QEMU's next request for statistics
    actual, target, \* the balloon's size and the size it is set to
    wanted,         \* the size the cycle in progress is about to set
    used,           \* memory the guest needs
    resized,        \* somebody else set a size outside the limits
    disturbances

vars == <<cfg, pc, failures, excused, startAge, aboveAge, sample, reading, delay, phase,
          tickIn, ticked, reportIn, actual, target, wanted, used, resized, disturbances>>

None == -1
Min2(a, b) == IF a < b THEN a ELSE b
Max2(a, b) == IF a > b THEN a ELSE b

----------------------------------------------------------------------------
(* The configuration.                                                      *)

Or(value, default) == IF value = 0 THEN default ELSE value

defaultBalloonMinActual(max) ==
    LET m == IF max <= 0 THEN Memory ELSE max IN
    IF m <= 1 THEN 1 ELSE (m + 1) \div 2

defaultBalloonGrowBelowAvailable(min) == IF min <= 1 THEN 0 ELSE min \div 2
defaultBalloonReclaimAboveAvailable(min) == IF min <= 0 THEN 1 ELSE min

applyBalloonDefaults(in) ==
    LET max == Or(in["max"], Memory)
        idle == IF in["min"] <= 0 THEN defaultBalloonMinActual(max) ELSE in["min"]
    IN [min     |-> Or(in["min"], idle),
        max     |-> max,
        grow    |-> Or(in["grow"], defaultBalloonGrowBelowAvailable(idle)),
        reclaim |-> Or(in["reclaim"], defaultBalloonReclaimAboveAvailable(idle)),
        step    |-> Or(in["step"], DefaultStep),
        poll    |-> Or(in["poll"], DefaultPoll),
        holdoff |-> Or(in["holdoff"], DefaultHoldoff)]

validateBalloonController(c) ==
    /\ 0 < c.min /\ c.min <= c.max /\ c.max <= Memory
    /\ 0 <= c.grow /\ 0 <= c.reclaim /\ c.grow < c.reclaim
    /\ 0 < c.step /\ 0 < c.poll /\ 0 < c.holdoff

(* QEMU asks the guest in whole seconds, at least one.                     *)
statsPollSeconds == Max2(1, cfg.poll \div Second) * Second

NoSample == [known |-> FALSE, hasMemory |-> FALSE, available |-> 0, age |-> 0, missed |-> FALSE]

(* Where the guest's size and the size it is set to may lie.               *)
WithinLimits ==
    /\ actual >= cfg.min /\ target >= cfg.min
    /\ target > actual => target <= cfg.max

(* A manifest whose settings do not validate is not launched.  A resumed   *)
(* machine has the sizes it was saved with, under whatever settings and    *)
(* requests it had then; one that this controller would not have left      *)
(* counts as resized.                                                      *)
Init ==
    /\ cfg \in {applyBalloonDefaults(in) : in \in Inputs}
    /\ pc = IF validateBalloonController(cfg) THEN "start" ELSE "rejected"
    /\ failures = 0 /\ excused = 0
    /\ startAge = 0 /\ aboveAge = None
    /\ sample = NoSample /\ reading = NoSample /\ delay = 0
    /\ phase \in 0 .. Second - 1
    /\ tickIn = 0 /\ ticked = FALSE /\ reportIn = 0
    /\ \/ actual = Memory /\ target = Memory
       \/ actual \in SavedSizes /\ target \in SavedSizes
    /\ wanted = None
    /\ used \in Demands
    /\ resized = ~(WithinLimits /\ (actual > cfg.max => actual - cfg.step <= target))
    /\ disturbances = 0

Disturb ==
    /\ disturbances < MaxDisturbances
    /\ disturbances' = disturbances + 1

guestVars == <<sample, phase, reportIn, actual, used, resized>>

----------------------------------------------------------------------------
(* The controller.  Each of its QMP calls takes effect in one step, and    *)
(* time may pass before it.                                                *)

(* Find the device and have QEMU ask for statistics: a failure here is not *)
(* retried.                                                                *)
EnableBalloonStatsPolling ==
    /\ pc = "start"
    /\ \/ /\ pc' = "enabled"
          /\ reportIn' = statsPollSeconds
          /\ UNCHANGED disturbances
       \/ /\ Disturb
          /\ pc' = "off"
          /\ UNCHANGED reportIn
    /\ UNCHANGED <<cfg, failures, excused, startAge, aboveAge, sample, reading, delay, phase,
                   tickIn, ticked, actual, target, wanted, used, resized>>

(* The call returns and the ticker starts.                                 *)
NewTicker ==
    /\ pc = "enabled"
    /\ pc' = "idle"
    /\ tickIn' = cfg.poll
    /\ UNCHANGED <<cfg, failures, excused, startAge, aboveAge, reading, delay, ticked, target,
                   wanted, disturbances, guestVars>>

(* The end of the machine's context stops the task.                        *)
Cancelled ==
    /\ pc = "idle"
    /\ pc' = "off"
    /\ UNCHANGED <<cfg, failures, excused, startAge, aboveAge, reading, delay, tickIn, ticked,
                   target, wanted, disturbances, guestVars>>

(* Once the guest has reported, only the time since the statistics were    *)
(* read makes them older; before, all the time since the start counts.     *)
DelayAtReading == IF sample.known THEN 0 ELSE delay

EndCycle ==
    /\ wanted' = None
    /\ reading' = NoSample
    /\ delay' = DelayAtReading

(* A failed cycle; the last of too many in a row ends the controller.      *)
Failed(because) ==
    /\ failures' = failures + 1
    /\ excused' = IF because THEN excused + 1 ELSE excused
    /\ pc' = IF failures + 1 >= MaxFailures THEN "gaveUp" ELSE "idle"
    /\ EndCycle

Succeeded ==
    /\ failures' = 0
    /\ excused' = 0
    /\ pc' = "idle"
    /\ EndCycle

(* A cycle takes the tick that waits.                                      *)
tick ==
    /\ pc = "idle"
    /\ ticked
    /\ ticked' = FALSE
    /\ pc' = "read"
    /\ UNCHANGED <<cfg, failures, excused, startAge, aboveAge, reading, delay, tickIn, target,
                   wanted, disturbances, guestVars>>

ReadBalloonStats ==
    /\ pc = "read"
    /\ \/ /\ pc' = "query"
          /\ reading' = sample
          /\ delay' = DelayAtReading
          /\ UNCHANGED <<failures, excused, wanted, disturbances>>
       \/ Disturb /\ Failed(TRUE)
    /\ UNCHANGED <<cfg, startAge, aboveAge, tickIn, ticked, target, guestVars>>

StaleAfterOne == cfg.poll
StaleAfter == 2 * cfg.poll

Unavailable == ~reading.known \/ (reading.age <= StaleAfter /\ ~reading.hasMemory)
Fresh == reading.known /\ reading.age <= StaleAfter /\ reading.hasMemory

(* What excuses a reading that is stale or unavailable: the guest missed a *)
(* report or has no memory to tell of, or the QMP calls took so long that  *)
(* a report every interval, less the second its stamp may lose, is not     *)
(* enough.                                                                 *)
SlowCalls == IF reading.known THEN delay > cfg.poll - Second ELSE delay >= cfg.poll
Excuse == reading.missed \/ (reading.known /\ ~reading.hasMemory) \/ SlowCalls

ReclaimUnclamped == actual - cfg.step
GrowTarget == Min2(actual + cfg.step, cfg.max)
ReclaimTarget == Max2(actual - cfg.step, cfg.min)

AboveGrow == reading.available > cfg.grow
AboveThreshold == reading.available > cfg.reclaim

(* What evaluate makes of the sample: the size to set, or None, and the    *)
(* new start of the time above the threshold.                              *)
Decision(size, above) == [size |-> size, above |-> above]

ReclaimDecision ==
    CASE actual <= cfg.min                                -> Decision(None, None)
      [] actual > cfg.min /\ aboveAge = None              -> Decision(None, 0)
      [] actual > cfg.min /\ aboveAge \in 0 .. cfg.holdoff - 1 -> Decision(None, aboveAge)
      [] OTHER                                            ->
            Decision(IF ReclaimTarget >= actual THEN None ELSE ReclaimTarget, None)

evaluate ==
    CASE reading.available < cfg.grow ->
            Decision(IF GrowTarget <= actual THEN None ELSE GrowTarget, None)
      [] reading.available >= cfg.grow /\ AboveThreshold -> ReclaimDecision
      [] OTHER -> Decision(None, None)

(* The size, the time, and what evaluate makes of them and the reading.    *)
QueryBalloon ==
    /\ pc = "query"
    /\ \/ /\ Disturb
          /\ Failed(TRUE)
          /\ aboveAge' = aboveAge
       \/ /\ disturbances' = disturbances
          /\ CASE Unavailable /\ startAge < StaleAfter ->
                    Succeeded /\ aboveAge' = aboveAge
               [] Fresh /\ evaluate.size = None ->
                    Succeeded /\ aboveAge' = evaluate.above
               [] Fresh /\ evaluate.size # None ->
                    /\ wanted' = evaluate.size
                    /\ aboveAge' = evaluate.above
                    /\ pc' = "set"
                    /\ UNCHANGED <<failures, excused, reading, delay>>
               [] OTHER ->
                    Failed(Excuse) /\ aboveAge' = aboveAge
    /\ UNCHANGED <<cfg, startAge, tickIn, ticked, target, guestVars>>

(* QEMU takes a size above the guest's memory for all of it.               *)
QEMUTarget(size) == Min2(size, Memory)

(* A call that fails may have reached QEMU all the same.                   *)
SetBalloonLogicalSize ==
    /\ pc = "set"
    /\ \/ /\ target' = QEMUTarget(wanted)
          /\ Succeeded
          /\ disturbances' = disturbances
       \/ /\ Disturb
          /\ target' \in {target, QEMUTarget(wanted)}
          /\ Failed(TRUE)
    /\ UNCHANGED <<cfg, startAge, aboveAge, tickIn, ticked, guestVars>>

----------------------------------------------------------------------------
(* QEMU, the guest, and the balloon request.                               *)

controllerVars == <<cfg, pc, failures, excused, startAge, aboveAge, reading, delay,
                    tickIn, ticked, wanted>>

(* The guest answers QEMU, which stamps the answer with whole seconds, or  *)
(* it does not; a driver may not report available memory.                  *)
GuestReports ==
    /\ pc \in {"enabled", "idle", "read", "query", "set"}
    /\ reportIn = 0
    /\ reportIn' = statsPollSeconds
    /\ \/ \E has \in BOOLEAN :
            /\ sample' = [known |-> TRUE, hasMemory |-> has,
                          available |-> IF has THEN Max2(0, actual - used) ELSE 0,
                          age |-> phase, missed |-> FALSE]
            /\ IF has THEN UNCHANGED disturbances ELSE Disturb
       \/ /\ Disturb
          /\ sample' = [sample EXCEPT !.missed = TRUE]
    /\ UNCHANGED <<controllerVars, phase, actual, target, used, resized>>

Inflates ==
    /\ actual # target
    /\ actual' = IF actual < target THEN actual + 1 ELSE actual - 1
    /\ UNCHANGED <<controllerVars, sample, phase, reportIn, target, used, resized, disturbances>>

DemandChanges ==
    /\ Disturb
    /\ used' \in Demands \ {used}
    /\ UNCHANGED <<controllerVars, sample, phase, reportIn, actual, target, resized>>

(* The balloon RPC and ResizeMemory pass any size on, whatever the         *)
(* controller is about to do.                                              *)
balloon ==
    /\ Disturb
    /\ \E size \in Resizes : target' = QEMUTarget(size)
    /\ resized' = TRUE
    /\ UNCHANGED <<controllerVars, sample, phase, reportIn, actual, used>>

InCall == pc \in {"start", "enabled", "read", "query", "set"}

Older(age, cap) == IF age = None THEN None ELSE Min2(age + 1, cap)
AgeOf(s) == IF s.known THEN Older(s.age, 2 * cfg.poll + 1) ELSE 0

(* Time passes between cycles, and before a QMP call takes effect.  The    *)
(* ticker keeps its period whatever the cycle takes; a tick that finds     *)
(* another one waiting is dropped.                                         *)
TimePasses ==
    /\ InCall \/ pc = "idle"
    /\ IF InCall THEN delay < MaxDelay /\ delay' = delay + 1
                 ELSE ~ticked /\ delay' = delay
    /\ IF pc = "start" THEN UNCHANGED reportIn
                       ELSE reportIn > 0 /\ reportIn' = reportIn - 1
    /\ IF pc \in {"start", "enabled"}
         THEN UNCHANGED <<tickIn, ticked>>
         ELSE /\ tickIn' = IF tickIn = 1 THEN cfg.poll ELSE tickIn - 1
              /\ ticked' = (ticked \/ tickIn = 1)
    /\ phase' = (phase + 1) % Second
    /\ startAge' = Older(startAge, StaleAfter)
    /\ aboveAge' = Older(aboveAge, cfg.holdoff)
    /\ sample' = [sample EXCEPT !.age = AgeOf(sample)]
    /\ reading' = [reading EXCEPT !.age = AgeOf(reading)]
    /\ UNCHANGED <<cfg, pc, failures, excused, actual, target, wanted, used, resized, disturbances>>

Controller ==
    \/ EnableBalloonStatsPolling \/ NewTicker
    \/ tick \/ ReadBalloonStats \/ QueryBalloon \/ SetBalloonLogicalSize

Next ==
    \/ Controller \/ Cancelled
    \/ GuestReports \/ Inflates \/ DemandChanges \/ balloon \/ TimePasses

Fairness ==
    /\ WF_vars(Controller)
    /\ WF_vars(GuestReports)
    /\ WF_vars(Inflates)
    /\ WF_vars(TimePasses)

Spec == Init /\ [][Next]_vars /\ Fairness

----------------------------------------------------------------------------

TypeOK ==
    /\ pc \in {"start", "rejected", "enabled", "idle", "read", "query", "set", "off", "gaveUp"}
    /\ failures \in 0 .. MaxFailures
    /\ aboveAge \in {None} \cup 0 .. cfg.holdoff
    /\ actual \in 1 .. Memory /\ target \in 1 .. Memory

(* Unless somebody else set a size outside them, the guest keeps the       *)
(* configured minimum and is never grown past the maximum, although the    *)
(* controller computes each size from one the guest is still moving away   *)
(* from, and a call that failed may have set it (controller.go:290-326).   *)
StaysInLimits ==
    ~resized /\ pc # "rejected" => WithinLimits

(* The controller gives up only for cause: each of the failures in a row   *)
(* was a failed QMP call, a guest that did not report, or calls slower     *)
(* than SlowCalls allows.  A guest that answers every request is never     *)
(* called stale otherwise, although its answers are stamped in whole       *)
(* seconds and the controller may read them just before the next one       *)
(* (controller.go:24-27, 219-247, 263-275).  With a poll interval below    *)
(* one second this is not so: QEMU asks once a second and the answer is    *)
(* stale after two intervals.                                              *)
GivesUpForCause ==
    pc = "gaveUp" /\ cfg.poll >= Second => excused = failures

(* A decision moves the guest at most two steps from the size its reading  *)
(* was taken at: a step it was already on its way, and its own.  A third   *)
(* needs a second decision from the same reading, which the holdoff rules  *)
(* out for reclaiming when it outlasts the age a reading may have.         *)
StepsFit ==
    /\ 2 * cfg.step <= cfg.reclaim - cfg.grow
    /\ cfg.holdoff > StaleAfter

(* Once the guest's demand is steady and faults stop, the controller stops *)
(* changing the size: growing and reclaiming do not chase each other,      *)
(* however late the guest moves and however old the reading, provided that *)
(* two steps fit between the thresholds and the holdoff outlasts a         *)
(* reading.  Validation asks neither (controller.go:286-326,               *)
(* manifest/balloon.go:97-141).                                            *)
Settles ==
    StepsFit => <>[][target' = target]_vars

=============================================================================
