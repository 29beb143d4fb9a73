------------------------------ MODULE QmpProofs ------------------------------
(***************************************************************************)
(* What runs on the QMP socket: the session that its callers share, and the*)
(* balloon controller, the caller that never stops.  For any callers and   *)
(* operations no operation takes another's answer nor is expired by        *)
(* another's interrupt.  For any configuration, memory and guest the       *)
(* controller keeps the guest's size in its limits and gives up only for a *)
(* cause outside it.                                                       *)
(***************************************************************************)
EXTENDS QmpSession, Balloon, TLAPS

-----------------------------------------------------------------------------
(* The session *)

\* The callers inside do() are exactly the holder of the mutex.
MutexHeld ==
  \A c \in Callers : opPc[c] \in {"send", "read", "await", "finish"} <=> owner = c

\* An interrupt exists only while its operation holds the mutex, has fired only
\* if the context ended, and alone puts the deadline into the past.
InterruptScoped ==
  /\ \A c \in Callers :
       /\ after[c] # "off" => owner = c
       /\ after[c] \in {"running", "closed"} => ctxEnded[c]
  /\ deadline = "past" => owner \in Callers /\ after[owner] = "closed"

\* What an operation may have come to at each place.
Progress ==
  \A c \in Callers :
    /\ opPc[c] # "idle" => cur[c] \in Ops
    /\ opPc[c] \in {"queued", "send", "read", "await"} => err[c] = "none"
    /\ opPc[c] = "finish" => err[c] \in {"none", "refused", "wire"}

\* While the session is trusted the stream position is known: nothing is
\* outstanding between operations, and within one at most its own request.
StreamInStep ==
  /\ pending \cap unread = {}
  /\ owner \in Callers => ~broken
  /\ owner = "nobody" /\ ~broken => pending = {} /\ unread = {}
  /\ \A c \in Callers :
       /\ opPc[c] = "send" => pending = {} /\ unread = {}
       /\ opPc[c] = "read" => pending \subseteq {cur[c]} /\ unread \subseteq {cur[c]}
       /\ opPc[c] \in {"await", "finish"} /\ err[c] # "wire" =>
            pending = {} /\ unread = {}

\* The inductive invariant.
SessInv ==
  /\ SessTypeOK
  /\ MutexHeld
  /\ InterruptScoped
  /\ Progress
  /\ StreamInStep
  /\ OwnReply

\* A set of requests stays one when a request is added.
LEMMA AddMember ==
  ASSUME NEW S, NEW T, NEW x \in T, S \subseteq T
  PROVE  S \cup {x} \subseteq T
  OBVIOUS

\* The invariant of the session holds at first.
LEMMA SessInitInv == SessInit => SessInv
  <1> SUFFICES ASSUME SessInit
               PROVE  SessInv
    OBVIOUS
  <1> USE CallersAssumption, MaxOpsAssumption DEF SessInit
  <1>1. SessTypeOK
    <2>1. ctxEnded \in [Callers -> BOOLEAN]
      BY Zenon
    <2>2. 0 \in 0 .. MaxOps
      OBVIOUS
    <2>3. QED
      BY <2>1, <2>2 DEF SessTypeOK
  <1>2. MutexHeld /\ InterruptScoped
    BY DEF MutexHeld, InterruptScoped
  <1>3. Progress /\ StreamInStep /\ OwnReply
    BY DEF Progress, StreamInStep, OwnReply
  <1>4. QED
    BY <1>1, <1>2, <1>3 DEF SessInv

\* Every step of a caller, an interrupt or the peer keeps it.
LEMMA SessStepInv == SessInv /\ [SessNext]_sessVars => SessInv'
  <1> SUFFICES ASSUME SessInv, [SessNext]_sessVars
               PROVE  SessInv'
    OBVIOUS
  <1> USE CallersAssumption, MaxOpsAssumption
      DEF SessInv, SessTypeOK, MutexHeld, InterruptScoped, Progress, StreamInStep,
          OwnReply, Ops
  <1>1. ASSUME NEW c \in Callers, NEW k \in {"quick", "slow", "delete"},
               Call(c, k)
        PROVE  SessInv'
    BY <1>1 DEF Call
  <1>2. ASSUME NEW c \in Callers, Refuse(c) PROVE SessInv'
    BY <1>2 DEF Refuse
  <1>3. ASSUME NEW c \in Callers, Enter(c) PROVE SessInv'
    BY <1>3 DEF Enter
  <1>4. ASSUME NEW c \in Callers, Send(c) PROVE SessInv'
    <2>1. SessTypeOK'
      <3>1. pending' \subseteq Ops /\ deleting' \subseteq Ops
        <4>1. cur[c] \in Ops
          BY <1>4 DEF Send
        <4>2. /\ pending' = pending \cup {cur[c]}
              /\ deleting' = deleting \/ deleting' = deleting \cup {cur[c]}
          BY <1>4 DEF Send
        <4>3. pending \subseteq Ops /\ deleting \subseteq Ops
          OBVIOUS
        <4>4. QED
          <5> HIDE DEF Ops
          <5>1. pending \cup {cur[c]} \subseteq Ops
            BY <4>1, <4>3, AddMember, Zenon
          <5>2. deleting \cup {cur[c]} \subseteq Ops
            BY <4>1, <4>3, AddMember, Zenon
          <5>3. QED
            BY <4>2, <4>3, <5>1, <5>2, Zenon
      <3>2. opPc' \in [Callers -> {"idle", "queued", "send", "read", "await",
                                "finish"}]
        BY <1>4 DEF Send
      <3>3. QED
        BY <1>4, <3>1, <3>2 DEF Send
    <2>2. MutexHeld'
      BY <1>4 DEF Send
    <2>3. InterruptScoped'
      BY <1>4 DEF Send
    <2>4. Progress'
      BY <1>4 DEF Send
    <2>5. StreamInStep'
      <3>1. owner = c /\ pending = {} /\ unread = {}
        BY <1>4 DEF Send
      <3>2. pending' = {cur[c]} /\ unread' = {} /\ owner' = owner
        BY <1>4, <3>1 DEF Send
      <3>3. \A d \in Callers \ {c} :
              opPc'[d] = opPc[d] /\ opPc[d] \notin {"send", "read", "await", "finish"}
        BY <1>4, <3>1 DEF Send
      <3>4. opPc'[c] = "read" /\ cur'[c] = cur[c] /\ broken' = broken
        BY <1>4 DEF Send
      <3>5. QED
        BY <3>1, <3>2, <3>3, <3>4
    <2>6. OwnReply'
      BY <1>4 DEF Send
    <2>7. QED
      BY <2>1, <2>2, <2>3, <2>4, <2>5, <2>6
  <1>5. ASSUME NEW c \in Callers, Read(c) PROVE SessInv'
    <2>1. SessTypeOK'
      <3>1. unread' \subseteq Ops /\ deleting' \subseteq Ops
        BY <1>5 DEF Read
      <3>2. got' \in [Callers -> 0 .. MaxOps]
        BY <1>5 DEF Read
      <3>3. QED
        BY <1>5, <3>1, <3>2 DEF Read
    <2>2. MutexHeld'
      BY <1>5 DEF Read
    <2>3. InterruptScoped'
      BY <1>5 DEF Read
    <2>4. Progress'
      BY <1>5 DEF Read
    <2>5. StreamInStep'
      BY <1>5 DEF Read
    <2>6. OwnReply'
      BY <1>5 DEF Read
    <2>7. QED
      BY <2>1, <2>2, <2>3, <2>4, <2>5, <2>6
  <1>6. ASSUME NEW c \in Callers, SkipEvent(c) PROVE SessInv'
    BY <1>6 DEF SkipEvent
  <1>7. ASSUME NEW c \in Callers, AwaitDeleted(c) PROVE SessInv'
    <2>1. CASE opPc' = [opPc EXCEPT ![c] = "finish"] /\ err' = [err EXCEPT ![c] = "refused"]
               /\ UNCHANGED events
      <3>1. SessTypeOK'
        BY <1>7, <2>1 DEF AwaitDeleted
      <3>2. MutexHeld' /\ InterruptScoped'
        BY <1>7, <2>1 DEF AwaitDeleted
      <3>3. Progress' /\ OwnReply'
        BY <1>7, <2>1 DEF AwaitDeleted
      <3>4. StreamInStep'
        BY <1>7, <2>1 DEF AwaitDeleted
      <3>5. QED
        BY <3>1, <3>2, <3>3, <3>4
    <2>2. CASE err' = err /\ \E i \in events :
                 /\ events' = events \ {i}
                 /\ opPc' = [opPc EXCEPT ![c] = IF i = cur[c] THEN "finish" ELSE @]
      <3>1. SessTypeOK'
        BY <1>7, <2>2 DEF AwaitDeleted
      <3>2. MutexHeld' /\ InterruptScoped'
        BY <1>7, <2>2 DEF AwaitDeleted
      <3>3. Progress' /\ OwnReply'
        BY <1>7, <2>2 DEF AwaitDeleted
      <3>4. StreamInStep'
        BY <1>7, <2>2 DEF AwaitDeleted
      <3>5. QED
        BY <3>1, <3>2, <3>3, <3>4
    <2>3. QED
      BY <1>7, <2>1, <2>2 DEF AwaitDeleted
  <1>8. ASSUME NEW c \in Callers, WireFails(c) PROVE SessInv'
    BY <1>8 DEF WireFails
  <1>9. ASSUME NEW c \in Callers, Finish(c) PROVE SessInv'
    <2>1. SessTypeOK'
      BY <1>9 DEF Finish
    <2>2. MutexHeld'
      BY <1>9 DEF Finish
    <2>3. InterruptScoped'
      BY <1>9 DEF Finish
    <2>4. Progress'
      BY <1>9 DEF Finish
    <2>5. StreamInStep'
      <3>1. owner = c /\ ~broken /\ pending \cap unread = {}
        BY <1>9 DEF Finish
      <3>2. \A d \in Callers : opPc'[d] \in {"idle", "queued"}
        BY <1>9, <3>1 DEF Finish
      <3>3. ~broken' => pending = {} /\ unread = {}
        BY <1>9, <3>1 DEF Finish
      <3>4. QED
        BY <1>9, <3>1, <3>2, <3>3 DEF Finish
    <2>6. OwnReply'
      BY <1>9 DEF Finish
    <2>7. QED
      BY <2>1, <2>2, <2>3, <2>4, <2>5, <2>6
  <1>10. ASSUME NEW c \in Callers, ContextEnds(c) PROVE SessInv'
    BY <1>10 DEF ContextEnds
  <1>11. ASSUME NEW c \in Callers, Interrupt(c) PROVE SessInv'
    BY <1>11 DEF Interrupt
  <1>12. ASSUME NEW c \in Callers, MoveDeadline(c) PROVE SessInv'
    BY <1>12 DEF MoveDeadline
  <1>13. ASSUME NEW i \in Ops, Answer(i) PROVE SessInv'
    BY <1>13 DEF Answer
  <1>14. ASSUME NEW i \in Ops, Deleted(i) PROVE SessInv'
    BY <1>14 DEF Deleted
  <1>15. CASE Disconnect
    BY <1>15 DEF Disconnect
  <1>16. CASE UNCHANGED sessVars
    BY <1>16 DEF sessVars
  <1>17. QED
    BY <1>1, <1>2, <1>3, <1>4, <1>5, <1>6, <1>7, <1>8, <1>9, <1>10, <1>11,
       <1>12, <1>13, <1>14, <1>15, <1>16 DEF SessNext, Proceed

\* It is an invariant.
LEMMA SessInvariance == SessSpec => []SessInv
  BY SessInitInv, SessStepInv, PTL DEF SessSpec

\* The session's variables keep their types.
THEOREM SessTypeCorrect == SessSpec => []SessTypeOK
  <1>1. SessInv => SessTypeOK
    BY DEF SessInv
  <1>2. QED
    BY <1>1, SessInvariance, PTL

\* do() poisons the session whenever a stale answer could be read by a later
\* operation: every answer taken answers the request of the operation itself.
THEOREM SessOwnReply == SessSpec => []OwnReply
  <1>1. SessInv => OwnReply
    BY DEF SessInv
  <1>2. QED
    BY <1>1, SessInvariance, PTL

\* do() waits for a fired interrupt before it releases the mutex: no operation
\* runs under a deadline that another's context moved.
THEOREM SessDeadlineIsOwn == SessSpec => []DeadlineIsOwn
  <1>1. SessInv => DeadlineIsOwn
    BY DEF SessInv, InterruptScoped, DeadlineIsOwn
  <1>2. QED
    BY <1>1, SessInvariance, PTL

-----------------------------------------------------------------------------
(* The balloon controller *)

Samples == [known : BOOLEAN, hasMemory : BOOLEAN, available : Nat, age : Nat, missed : BOOLEAN]

(* The ranges of the variables; a configuration that did not validate is   *)
(* never run.                                                              *)
BalloonTypes ==
    /\ cfg \in [min : Int, max : Int, grow : Int, reclaim : Int, step : Int, poll : Int, holdoff : Int]
    /\ pc \in {"start", "rejected", "enabled", "idle", "read", "query", "set", "off", "gaveUp"}
    /\ pc # "rejected" => validateBalloonController(cfg)
    /\ failures \in Nat /\ excused \in Nat /\ failures <= MaxFailures
    /\ pc \in {"start", "enabled", "idle", "read", "query", "set"} => failures < MaxFailures
    /\ startAge \in Nat /\ delay \in Nat
    /\ aboveAge \in {None} \cup 0 .. cfg.holdoff
    /\ sample \in Samples /\ reading \in Samples
    /\ phase \in 0 .. Second - 1
    /\ tickIn \in Nat /\ reportIn \in Nat
    /\ pc \in {"idle", "read", "query", "set"} => 1 <= tickIn
    /\ actual \in 1 .. Memory /\ target \in 1 .. Memory
    /\ pc = "set" => wanted \in 1 .. Memory
    /\ used \in Nat /\ disturbances \in Nat
    /\ ticked \in BOOLEAN /\ resized \in BOOLEAN

(* Where the guest, the size set and the size about to be set lie, unless  *)
(* somebody else set a size outside the limits.  A guest above the maximum *)
(* (it boots with all its memory) is only ever shrunk, by a step at a time.*)
Limits ==
    ~resized /\ pc # "rejected" =>
        /\ actual >= cfg.min /\ target >= cfg.min
        /\ target > actual => target <= cfg.max
        /\ actual > cfg.max => actual - cfg.step <= target
        /\ pc = "set" =>
             /\ wanted >= cfg.min
             /\ wanted > cfg.max => wanted <= actual /\ wanted <= target
             /\ actual > cfg.max => actual - cfg.step <= wanted

(* How old the last report of a guest that owes none can be, and how old   *)
(* the copy of it that a cycle works with.                                 *)
Freshness ==
    pc # "rejected" /\ cfg.poll >= Second =>
        /\ excused = failures
        /\ pc = "start" => startAge <= delay /\ ~sample.known /\ reportIn = 0
        /\ ~sample.known /\ ~sample.missed => startAge + reportIn <= statsPollSeconds + delay
        /\ sample.known /\ ~sample.missed =>
             sample.age + reportIn <= Second - 1 + statsPollSeconds
        /\ pc = "query" =>
             /\ ~reading.known /\ ~reading.missed => startAge <= statsPollSeconds + delay
             /\ reading.known /\ ~reading.missed =>
                  reading.age <= Second - 1 + statsPollSeconds + delay

BalloonInv == BalloonTypes /\ Limits /\ Freshness

----------------------------------------------------------------------------
(* The operators.                                                          *)

(* QEMU is asked to poll no slower than the controller, provided that the  *)
(* controller's interval is a second or more (controller.go:241-247).      *)
LEMMA StatsPollBound ==
    ASSUME BalloonTypes
    PROVE  /\ statsPollSeconds \in Nat
           /\ cfg.poll >= Second => statsPollSeconds <= cfg.poll
<1>1. /\ cfg.poll \in Int /\ Second \in Nat \ {0}
    BY BalloonAssumption DEF BalloonTypes
<1>2. cfg.poll \div Second \in Int
    BY <1>1
<1>3. cfg.poll >= Second => cfg.poll \div Second >= 1 /\ (cfg.poll \div Second) * Second <= cfg.poll
    BY <1>1
<1>4. Max2(1, cfg.poll \div Second) \in Nat
    BY <1>2 DEF Max2
<1>5. statsPollSeconds \in Nat
    <2> DEFINE m == Max2(1, cfg.poll \div Second)
    <2>1. m \in Nat
        BY <1>4
    <2> HIDE DEF m
    <2>2. m * Second \in Nat
        BY <1>1, <2>1
    <2> QED
        BY <2>2 DEF m, statsPollSeconds
<1>6. cfg.poll >= Second => Max2(1, cfg.poll \div Second) = cfg.poll \div Second
    BY <1>2, <1>3 DEF Max2
<1> QED
    BY <1>3, <1>5, <1>6 DEF statsPollSeconds

(* evaluate asks for a size above the present one within the maximum, for  *)
(* one below it within the minimum, or for none.                           *)
LEMMA EvaluateFacts ==
    ASSUME BalloonTypes, pc = "query"
    PROVE  /\ evaluate.above \in {None} \cup 0 .. cfg.holdoff
           /\ \/ evaluate.size = None
              \/ /\ evaluate.size = Min2(actual + cfg.step, cfg.max)
                 /\ evaluate.size > actual
              \/ /\ evaluate.size = Max2(actual - cfg.step, cfg.min)
                 /\ evaluate.size < actual
<1>1. /\ cfg.min \in Int /\ cfg.max \in Int /\ cfg.grow \in Int /\ cfg.reclaim \in Int
      /\ cfg.step \in Int /\ cfg.holdoff \in Int
      /\ 0 < cfg.holdoff /\ 0 < cfg.step
      /\ actual \in Int /\ reading.available \in Int
      /\ aboveAge \in {None} \cup 0 .. cfg.holdoff
    BY BalloonAssumption DEF BalloonTypes, Samples, validateBalloonController
<1>2. ReclaimTarget \in Int /\ GrowTarget \in Int
    BY <1>1 DEF ReclaimTarget, GrowTarget, Min2, Max2
<1>3. /\ ReclaimDecision.above \in {None} \cup 0 .. cfg.holdoff
      /\ ReclaimDecision.size # None =>
            ReclaimDecision.size = ReclaimTarget /\ ReclaimTarget < actual
    <2>1. CASE actual <= cfg.min
        BY <1>1, <2>1 DEF ReclaimDecision, Decision
    <2>2. CASE actual > cfg.min /\ aboveAge = None
        BY <1>1, <2>2 DEF ReclaimDecision, Decision
    <2>3. CASE actual > cfg.min /\ aboveAge # None /\ aboveAge \in 0 .. cfg.holdoff - 1
        BY <1>1, <2>3 DEF ReclaimDecision, Decision, None
    <2>4. CASE actual > cfg.min /\ aboveAge # None /\ aboveAge \notin 0 .. cfg.holdoff - 1
        BY <1>1, <1>2, <2>4 DEF ReclaimDecision, Decision
    <2> QED
        BY <1>1, <2>1, <2>2, <2>3, <2>4
<1>4. CASE reading.available < cfg.grow
    BY <1>1, <1>2, <1>4 DEF evaluate, Decision, GrowTarget
<1>5. CASE reading.available >= cfg.grow /\ AboveThreshold
    BY <1>1, <1>3, <1>5 DEF evaluate, ReclaimTarget
<1>6. CASE reading.available >= cfg.grow /\ ~AboveThreshold
    BY <1>1, <1>6 DEF evaluate, Decision
<1> QED
    BY <1>1, <1>4, <1>5, <1>6

(* QEMU takes a size within the guest's memory as it is.                   *)
LEMMA TargetTaken ==
    ASSUME NEW size \in 1 .. Memory
    PROVE  QEMUTarget(size) = size
BY BalloonAssumption DEF QEMUTarget, Min2

(* The outcomes of a cycle's query.                                        *)
QueryFails == Disturb /\ Failed(TRUE) /\ aboveAge' = aboveAge
QueryIsQuiet ==
    /\ Succeeded
    /\ aboveAge' = aboveAge \/ aboveAge' = evaluate.above
    /\ disturbances' = disturbances
QueryDecides ==
    /\ evaluate.size # None
    /\ wanted' = evaluate.size /\ aboveAge' = evaluate.above /\ pc' = "set"
    /\ UNCHANGED <<failures, excused, reading, delay, disturbances>>
QueryIsStale ==
    /\ ~(Unavailable /\ startAge < StaleAfter) /\ ~Fresh
    /\ Failed(Excuse)
    /\ aboveAge' = aboveAge
    /\ disturbances' = disturbances

\* What the query of a cycle can come to.
LEMMA QueryCases ==
    ASSUME QueryBalloon
    PROVE  QueryFails \/ QueryIsQuiet \/ QueryDecides \/ QueryIsStale
<1>1. CASE Disturb /\ Failed(TRUE) /\ aboveAge' = aboveAge
    BY <1>1 DEF QueryFails
<1> DEFINE early == Unavailable /\ startAge < StaleAfter
           none == evaluate.size = None
<1>2. Fresh => ~Unavailable
    BY DEF Fresh, Unavailable
<1>3. CASE /\ disturbances' = disturbances
           /\ CASE early -> Succeeded /\ aboveAge' = aboveAge
                [] Fresh /\ none -> Succeeded /\ aboveAge' = evaluate.above
                [] Fresh /\ ~none ->
                     /\ wanted' = evaluate.size
                     /\ aboveAge' = evaluate.above
                     /\ pc' = "set"
                     /\ UNCHANGED <<failures, excused, reading, delay>>
                [] OTHER -> Failed(Excuse) /\ aboveAge' = aboveAge
    <2>1. CASE early
        <3>1. ~(Fresh /\ none) /\ ~(Fresh /\ ~none)
            BY <1>2, <2>1
        <3>2. Succeeded /\ aboveAge' = aboveAge
            <4> HIDE DEF early, none
            <4> QED BY <1>3, <2>1, <3>1
        <3> QED
            BY <1>3, <3>2 DEF QueryIsQuiet
    <2>2. CASE ~early /\ Fresh /\ none
        <3>2. Succeeded /\ aboveAge' = evaluate.above
            <4> HIDE DEF early, none
            <4> QED BY <1>3, <2>2
        <3> QED
            BY <1>3, <3>2 DEF QueryIsQuiet
    <2>3. CASE ~early /\ Fresh /\ ~none
        <3>2. /\ wanted' = evaluate.size /\ aboveAge' = evaluate.above /\ pc' = "set"
              /\ UNCHANGED <<failures, excused, reading, delay>>
            <4> HIDE DEF early, none
            <4> QED BY <1>3, <2>3
        <3> QED
            BY <1>3, <2>3, <3>2 DEF QueryDecides
    <2>4. CASE ~early /\ ~Fresh
        <3>2. Failed(Excuse) /\ aboveAge' = aboveAge
            <4> HIDE DEF early, none
            <4> QED BY <1>3, <2>4
        <3> QED
            BY <1>3, <2>4, <3>2 DEF QueryIsStale
    <2> QED
        BY <2>1, <2>2, <2>3, <2>4
<1> QED
    BY <1>1, <1>3 DEF QueryBalloon

----------------------------------------------------------------------------
(* Types.                                                                  *)

\* A guest that never reported.
LEMMA NoSampleType == NoSample \in Samples
<1>1. FALSE \in BOOLEAN /\ 0 \in Nat
    OBVIOUS
<1> QED
    BY <1>1, Zenon DEF NoSample, Samples

(* What Failed and Succeeded leave behind.                                 *)
LEMMA CycleEnds ==
    ASSUME BalloonTypes, pc \in {"read", "query", "set"}, NEW b \in BOOLEAN,
           Succeeded \/ Failed(b)
    PROVE  /\ pc' \in {"idle", "gaveUp"}
           /\ failures' \in Nat /\ excused' \in Nat /\ failures' <= MaxFailures
           /\ pc' = "idle" => failures' < MaxFailures
           /\ reading' \in Samples /\ delay' \in Nat
<1>1. /\ failures \in Nat /\ excused \in Nat /\ failures < MaxFailures
      /\ MaxFailures \in Nat \ {0}
    BY BalloonAssumption DEF BalloonTypes
<1>2. reading' \in Samples /\ delay' \in Nat
    BY NoSampleType DEF Succeeded, Failed, EndCycle, DelayAtReading, BalloonTypes
<1>3. CASE Succeeded
    BY <1>1, <1>2, <1>3 DEF Succeeded
<1>4. CASE Failed(b)
    BY <1>1, <1>2, <1>4 DEF Failed
<1> QED
    BY <1>3, <1>4

(* The types of what the end of a cycle leaves alone.                      *)
LEMMA EndedTypes ==
    ASSUME BalloonTypes, pc \in {"read", "query", "set"}, NEW b \in BOOLEAN,
           Succeeded \/ Failed(b),
           UNCHANGED <<cfg, startAge, tickIn, ticked>>, UNCHANGED guestVars,
           aboveAge' \in {None} \cup 0 .. cfg.holdoff,
           target' \in 1 .. Memory, disturbances' \in Nat
    PROVE  BalloonTypes'
<1>1. /\ UNCHANGED <<sample, phase, reportIn, actual, used, resized>>
    BY DEF guestVars
<1>2. /\ pc' \in {"idle", "gaveUp"}
      /\ failures' \in Nat /\ excused' \in Nat /\ failures' <= MaxFailures
      /\ pc' = "idle" => failures' < MaxFailures
      /\ reading' \in Samples /\ delay' \in Nat
    BY CycleEnds
<1> QED
    BY <1>1, <1>2 DEF BalloonTypes, validateBalloonController

\* BalloonTypes holds at first.
LEMMA TypesInitially == Init => BalloonTypes
<1> SUFFICES ASSUME Init PROVE BalloonTypes
    OBVIOUS
<1>1. PICK in \in Inputs : cfg = applyBalloonDefaults(in)
    BY DEF Init
<1>2. \A f \in Fields : in[f] \in Int
    BY BalloonAssumption
<1>3. /\ in["min"] \in Int /\ in["max"] \in Int /\ in["grow"] \in Int /\ in["reclaim"] \in Int
      /\ in["step"] \in Int /\ in["poll"] \in Int /\ in["holdoff"] \in Int
    BY <1>2 DEF Fields
<1>4. /\ Memory \in Nat \ {0} /\ Second \in Nat \ {0} /\ MaxFailures \in Nat \ {0}
      /\ DefaultStep \in Int /\ DefaultPoll \in Int /\ DefaultHoldoff \in Int
      /\ Demands \subseteq Nat
    BY BalloonAssumption
<1>5. \A m \in Int : defaultBalloonMinActual(m) \in Int
    <2> TAKE m \in Int
    <2> DEFINE k == IF m <= 0 THEN Memory ELSE m
    <2>1. k \in Int
        BY <1>4
    <2> HIDE DEF k
    <2>2. (k + 1) \div 2 \in Int
        BY <2>1
    <2>3. (IF k <= 1 THEN 1 ELSE (k + 1) \div 2) \in Int
        BY <2>2
    <2> QED
        BY <2>3 DEF k, defaultBalloonMinActual
<1>6. \A m \in Int : /\ defaultBalloonGrowBelowAvailable(m) \in Int
                     /\ defaultBalloonReclaimAboveAvailable(m) \in Int
    BY DEF defaultBalloonGrowBelowAvailable, defaultBalloonReclaimAboveAvailable
<1> DEFINE mx == Or(in["max"], Memory)
           idle == IF in["min"] <= 0 THEN defaultBalloonMinActual(mx) ELSE in["min"]
<1>7. mx \in Int
    BY <1>3, <1>4 DEF Or
<1>8. idle \in Int
    BY <1>3, <1>5, <1>7
<1>9. cfg = [min     |-> Or(in["min"], idle),
             max     |-> mx,
             grow    |-> Or(in["grow"], defaultBalloonGrowBelowAvailable(idle)),
             reclaim |-> Or(in["reclaim"], defaultBalloonReclaimAboveAvailable(idle)),
             step    |-> Or(in["step"], DefaultStep),
             poll    |-> Or(in["poll"], DefaultPoll),
             holdoff |-> Or(in["holdoff"], DefaultHoldoff)]
    BY <1>1 DEF applyBalloonDefaults
<1> HIDE DEF mx, idle
<1>10. cfg \in [min : Int, max : Int, grow : Int, reclaim : Int, step : Int, poll : Int, holdoff : Int]
    BY <1>3, <1>4, <1>6, <1>7, <1>8, <1>9 DEF Or
<1>11. /\ pc \in {"start", "rejected"}
       /\ pc # "rejected" => validateBalloonController(cfg)
    BY DEF Init
<1>12. sample \in Samples /\ reading \in Samples
    BY NoSampleType DEF Init
<1>13. actual \in 1 .. Memory /\ target \in 1 .. Memory
    <2>1. \/ actual = Memory /\ target = Memory
          \/ actual \in SavedSizes /\ target \in SavedSizes
        BY DEF Init
    <2>2. Memory \in 1 .. Memory
        BY <1>4
    <2>3. SavedSizes \subseteq 1 .. Memory
        BY BalloonAssumption
    <2> QED
        BY <2>1, <2>2, <2>3, Zenon
<1>14. aboveAge \in {None} \cup 0 .. cfg.holdoff
    BY DEF Init
<1>15. phase \in 0 .. Second - 1 /\ used \in Nat
    BY <1>4 DEF Init
<1>16. /\ failures = 0 /\ excused = 0 /\ startAge = 0 /\ tickIn = 0 /\ reportIn = 0
       /\ delay = 0 /\ ticked = FALSE /\ disturbances = 0
    BY DEF Init
<1>17. /\ failures \in Nat /\ excused \in Nat /\ failures <= MaxFailures /\ failures < MaxFailures
       /\ startAge \in Nat /\ tickIn \in Nat /\ reportIn \in Nat /\ delay \in Nat
       /\ disturbances \in Nat
    BY <1>4, <1>16
<1>18. ticked \in BOOLEAN /\ resized \in BOOLEAN
    <2>1. resized = ~(WithinLimits /\ (actual > cfg.max => actual - cfg.step <= target))
        BY DEF Init
    <2> QED
        BY <1>16, <2>1, Zenon
<1>19. /\ pc \in {"start", "rejected", "enabled", "idle", "read", "query", "set", "off", "gaveUp"}
       /\ pc # "set" /\ pc \notin {"idle", "read", "query", "set"}
    BY <1>11
<1> QED
    BY <1>10, <1>11, <1>12, <1>13, <1>14, <1>15, <1>17, <1>18, <1>19, Zenon DEF BalloonTypes

\* A unit of time keeps BalloonTypes.
LEMMA TypesAge ==
    ASSUME BalloonTypes, TimePasses
    PROVE  BalloonTypes'
<1> USE BalloonAssumption
<1>0. pc \in {"start", "enabled", "idle", "read", "query", "set"}
    BY DEF TimePasses, InCall
<1>c. cfg.poll \in Nat /\ 1 <= cfg.poll /\ cfg.holdoff \in Nat
    BY <1>0 DEF BalloonTypes, validateBalloonController
<1>1. UNCHANGED <<cfg, pc, failures, excused, actual, target, wanted, used, resized, disturbances>>
    BY DEF TimePasses
<1>2. phase' \in 0 .. Second - 1
    BY DEF TimePasses, BalloonTypes
<1>3. startAge' \in Nat
    BY <1>c DEF TimePasses, BalloonTypes, Older, Min2, None, StaleAfter
<1>4. aboveAge' \in {None} \cup 0 .. cfg.holdoff
    BY <1>c DEF TimePasses, BalloonTypes, Older, Min2, None
<1>5. AgeOf(sample) \in Nat /\ AgeOf(reading) \in Nat
    BY <1>c DEF AgeOf, BalloonTypes, Samples, Older, Min2, None
<1>6. sample' \in Samples /\ reading' \in Samples
    BY <1>5 DEF TimePasses, BalloonTypes, Samples
<1>7. delay' \in Nat /\ reportIn' \in Nat
    BY DEF TimePasses, BalloonTypes
<1>8. /\ tickIn' \in Nat
      /\ pc \in {"idle", "read", "query", "set"} => 1 <= tickIn'
    BY <1>0, <1>c DEF TimePasses, BalloonTypes
<1>9. ticked' \in BOOLEAN
    <2>1. ticked' = ticked \/ ticked' = (ticked \/ tickIn = 1)
        BY Zenon DEF TimePasses
    <2> QED
        BY <2>1, Zenon DEF BalloonTypes
<1> QED
    BY <1>1, <1>2, <1>3, <1>4, <1>6, <1>7, <1>8, <1>9 DEF BalloonTypes

\* Every step keeps BalloonTypes.
LEMMA TypesKept ==
    ASSUME BalloonTypes, [Next]_vars
    PROVE  BalloonTypes'
<1> USE BalloonAssumption
<1>c. pc # "rejected" =>
        /\ cfg.min \in Nat /\ cfg.max \in Nat /\ cfg.step \in Nat /\ cfg.poll \in Nat /\ cfg.holdoff \in Nat
        /\ 1 <= cfg.min /\ cfg.min <= cfg.max /\ cfg.max <= Memory /\ 1 <= cfg.step /\ 1 <= cfg.poll
    BY DEF BalloonTypes, validateBalloonController
<1>1. CASE EnableBalloonStatsPolling
    <2>1. /\ pc = "start" /\ pc' \in {"enabled", "off"}
          /\ UNCHANGED <<cfg, failures, excused, startAge, aboveAge, sample, reading, delay, phase,
                         tickIn, ticked, actual, target, wanted, used, resized>>
        BY <1>1 DEF EnableBalloonStatsPolling
    <2>2. reportIn' \in Nat /\ disturbances' \in Nat
        BY <1>1, StatsPollBound DEF EnableBalloonStatsPolling, Disturb, BalloonTypes
    <2> QED
        BY <2>1, <2>2 DEF BalloonTypes, validateBalloonController
<1>2. CASE NewTicker
    BY <1>2, <1>c DEF NewTicker, guestVars, BalloonTypes, validateBalloonController
<1>3. CASE tick
    <2>1. /\ pc = "idle" /\ pc' = "read" /\ ticked' = FALSE
          /\ UNCHANGED <<cfg, failures, excused, startAge, aboveAge, reading, delay, tickIn, target,
                         wanted, disturbances>>
          /\ UNCHANGED guestVars
        BY <1>3 DEF tick
    <2> QED
        BY <2>1 DEF guestVars, BalloonTypes, validateBalloonController
<1>4. CASE ReadBalloonStats
    <2>1. /\ pc = "read"
          /\ UNCHANGED <<cfg, startAge, aboveAge, tickIn, ticked, target>> /\ UNCHANGED guestVars
        BY <1>4 DEF ReadBalloonStats
    <2>2. CASE /\ pc' = "query" /\ reading' = sample /\ delay' = DelayAtReading
               /\ UNCHANGED <<failures, excused, wanted, disturbances>>
        <3>1. delay' \in Nat /\ reading' \in Samples
            BY <2>2 DEF DelayAtReading, BalloonTypes
        <3> QED
            BY <2>1, <2>2, <3>1 DEF guestVars, BalloonTypes, validateBalloonController
    <2>3. CASE Disturb /\ Failed(TRUE)
        <3>1. disturbances' \in Nat
            BY <2>3 DEF Disturb, BalloonTypes
        <3>2. aboveAge' \in {None} \cup 0 .. cfg.holdoff /\ target' \in 1 .. Memory
            BY <2>1 DEF BalloonTypes
        <3> QED
            BY <2>1, <2>3, <3>1, <3>2, EndedTypes
    <2> QED
        BY <1>4, <2>2, <2>3 DEF ReadBalloonStats
<1>5. CASE QueryBalloon
    <2>1. /\ pc = "query"
          /\ UNCHANGED <<cfg, startAge, tickIn, ticked, target>> /\ UNCHANGED guestVars
          /\ target' \in 1 .. Memory
          /\ aboveAge \in {None} \cup 0 .. cfg.holdoff
        BY <1>5 DEF QueryBalloon, BalloonTypes
    <2>2. CASE QueryFails
        <3>1. Failed(TRUE) /\ aboveAge' = aboveAge
            BY <2>2 DEF QueryFails
        <3>2. disturbances' \in Nat
            BY <2>2 DEF QueryFails, Disturb, BalloonTypes
        <3> QED
            BY <2>1, <3>1, <3>2, EndedTypes
    <2>3. CASE QueryIsQuiet
        <3>1. /\ Succeeded /\ disturbances' \in Nat
              /\ aboveAge' \in {None} \cup 0 .. cfg.holdoff
            BY <2>1, <2>3, EvaluateFacts DEF QueryIsQuiet, BalloonTypes
        <3> QED
            BY <2>1, <3>1, EndedTypes
    <2>4. CASE QueryDecides
        <3>1. /\ pc' = "set" /\ disturbances' = disturbances
              /\ failures' = failures /\ excused' = excused
              /\ reading' = reading /\ delay' = delay
              /\ aboveAge' \in {None} \cup 0 .. cfg.holdoff
            BY <2>1, <2>4, EvaluateFacts DEF QueryDecides
        <3>2. wanted' \in 1 .. Memory
            BY <2>1, <2>4, <1>c, EvaluateFacts DEF QueryDecides, Min2, Max2, BalloonTypes
        <3> QED
            BY <2>1, <3>1, <3>2 DEF BalloonTypes, guestVars
    <2>5. CASE QueryIsStale
        <3>1. Excuse \in BOOLEAN
            BY DEF Excuse, SlowCalls, BalloonTypes, Samples
        <3>2. Failed(Excuse) /\ aboveAge' = aboveAge /\ disturbances' \in Nat
            BY <2>5 DEF QueryIsStale, BalloonTypes
        <3> QED
            BY <2>1, <3>1, <3>2, EndedTypes
    <2> QED
        BY <1>5, <2>2, <2>3, <2>4, <2>5, QueryCases
<1>6. CASE SetBalloonLogicalSize
    <2>1. /\ pc = "set" /\ UNCHANGED <<cfg, startAge, aboveAge, tickIn, ticked>> /\ UNCHANGED guestVars
          /\ Succeeded \/ Failed(TRUE)
          /\ target' = QEMUTarget(wanted) \/ target' = target
          /\ disturbances' = disturbances \/ Disturb
        BY <1>6 DEF SetBalloonLogicalSize
    <2>2. disturbances' \in Nat
        BY <2>1 DEF Disturb, BalloonTypes
    <2>3. target' \in 1 .. Memory
        BY <2>1, TargetTaken DEF BalloonTypes
    <2>4. aboveAge' \in {None} \cup 0 .. cfg.holdoff
        BY <2>1 DEF BalloonTypes
    <2> QED
        BY <2>1, <2>2, <2>3, <2>4, EndedTypes
<1>7. CASE Cancelled
    BY <1>7 DEF Cancelled, BalloonTypes, guestVars, validateBalloonController
<1>8. CASE GuestReports
    <2>1. /\ reportIn' \in Nat
          /\ UNCHANGED <<controllerVars, phase, actual, target, used, resized>>
        BY <1>8, StatsPollBound DEF GuestReports
    <2>2. disturbances' \in Nat
        BY <1>8 DEF GuestReports, Disturb, BalloonTypes
    <2>3. sample' \in Samples
        <3>1. Max2(0, actual - used) \in Nat /\ phase \in Nat
            BY DEF Max2, BalloonTypes
        <3>2. CASE \E has \in BOOLEAN :
                sample' = [known |-> TRUE, hasMemory |-> has,
                           available |-> IF has THEN Max2(0, actual - used) ELSE 0,
                           age |-> phase, missed |-> FALSE]
            BY <3>1, <3>2 DEF Samples
        <3>3. CASE sample' = [sample EXCEPT !.missed = TRUE]
            BY <3>3 DEF BalloonTypes, Samples
        <3> QED
            BY <1>8, <3>2, <3>3 DEF GuestReports
    <2> QED
        BY <2>1, <2>2, <2>3 DEF BalloonTypes, controllerVars
<1>9. CASE Inflates
    BY <1>9 DEF Inflates, controllerVars, BalloonTypes, validateBalloonController
<1>10. CASE DemandChanges
    BY <1>10 DEF DemandChanges, Disturb, controllerVars, BalloonTypes, validateBalloonController
<1>11. CASE balloon
    <2>1. PICK size \in Resizes : target' = QEMUTarget(size)
        BY <1>11 DEF balloon
    <2>2. target' \in 1 .. Memory
        BY <2>1 DEF QEMUTarget, Min2
    <2>3. disturbances' \in Nat /\ resized' = TRUE
          /\ UNCHANGED <<controllerVars, sample, phase, reportIn, actual, used>>
        BY <1>11 DEF balloon, Disturb, BalloonTypes
    <2> QED
        BY <2>2, <2>3 DEF controllerVars, BalloonTypes, validateBalloonController
<1>12. CASE TimePasses
    BY <1>12, TypesAge
<1>13. CASE UNCHANGED vars
    BY <1>13 DEF vars, BalloonTypes, validateBalloonController
<1> QED
    BY <1>1, <1>2, <1>3, <1>4, <1>5, <1>6, <1>7, <1>8, <1>9, <1>10, <1>11, <1>12, <1>13
       DEF Next, Controller

----------------------------------------------------------------------------
(* Limits.                                                                 *)

(* The numbers the arithmetic below is about.                              *)
LEMMA Numbers ==
    ASSUME BalloonTypes, pc # "rejected"
    PROVE  /\ cfg.min \in Nat /\ cfg.max \in Nat /\ cfg.step \in Nat /\ cfg.poll \in Nat
           /\ 1 <= cfg.min /\ cfg.min <= cfg.max /\ cfg.max <= Memory /\ 1 <= cfg.step /\ 1 <= cfg.poll
           /\ Memory \in Nat \ {0} /\ Second \in Nat \ {0}
           /\ actual \in Nat /\ target \in Nat /\ (pc = "set" => wanted \in Nat)
           /\ actual <= Memory /\ target <= Memory
BY BalloonAssumption DEF BalloonTypes, validateBalloonController

\* Limits holds at first.
LEMMA LimitsInitially == ASSUME Init PROVE Limits
<1> SUFFICES ASSUME ~resized, pc # "rejected" PROVE Limits
    BY DEF Limits
<1>1. pc # "set"
    BY DEF Init
<1>2. WithinLimits /\ (actual > cfg.max => actual - cfg.step <= target)
    <2>1. resized = ~(WithinLimits /\ (actual > cfg.max => actual - cfg.step <= target))
        BY DEF Init
    <2> QED
        BY <2>1, Zenon
<1> QED
    BY <1>1, <1>2 DEF Limits, WithinLimits

(* A step that moves neither the guest nor a size, and ends no cycle.      *)
LEMMA LimitsUndisturbed ==
    ASSUME BalloonTypes, Limits, UNCHANGED <<cfg, actual, target, resized>>,
           pc # "rejected" \/ pc' = pc,
           pc' # "set" \/ UNCHANGED <<pc, wanted>>
    PROVE  Limits'
BY DEF Limits

\* Every step keeps Limits.
LEMMA LimitsKept ==
    ASSUME BalloonTypes, Limits, [Next]_vars
    PROVE  Limits'
<1>1. CASE EnableBalloonStatsPolling
    BY <1>1, LimitsUndisturbed DEF EnableBalloonStatsPolling
<1>11. CASE NewTicker
    BY <1>11, LimitsUndisturbed DEF NewTicker, guestVars
<1>12. CASE tick
    BY <1>12, LimitsUndisturbed DEF tick, guestVars
<1>13. CASE ReadBalloonStats
    <2>1. /\ pc = "read" /\ pc' \in {"query", "idle", "gaveUp"}
          /\ UNCHANGED <<cfg, target>> /\ UNCHANGED guestVars
        BY <1>13 DEF ReadBalloonStats, Failed
    <2> QED
        BY <2>1, LimitsUndisturbed DEF guestVars
<1>2. CASE QueryBalloon
    <2>1. /\ pc = "query"
          /\ UNCHANGED <<cfg, target>> /\ UNCHANGED guestVars
        BY <1>2 DEF QueryBalloon
    <2>2. UNCHANGED <<cfg, actual, target, resized>>
        BY <2>1 DEF guestVars
    <2>3. CASE QueryFails
        BY <2>1, <2>2, <2>3, LimitsUndisturbed DEF QueryFails, Failed
    <2>4. CASE QueryIsQuiet
        BY <2>1, <2>2, <2>4, LimitsUndisturbed DEF QueryIsQuiet, Succeeded
    <2>5. CASE QueryDecides
        <3> SUFFICES ASSUME ~resized PROVE Limits'
            BY <2>2 DEF Limits
        <3>1. wanted' = evaluate.size /\ pc' = "set" /\ evaluate.size # None
            BY <2>5 DEF QueryDecides
        <3>2. \/ wanted' = Min2(actual + cfg.step, cfg.max) /\ wanted' > actual
              \/ wanted' = Max2(actual - cfg.step, cfg.min) /\ wanted' < actual
            BY <2>1, <3>1, EvaluateFacts
        <3>3. /\ actual >= cfg.min /\ target >= cfg.min
              /\ target > actual => target <= cfg.max
              /\ actual > cfg.max => actual - cfg.step <= target
            BY <2>1 DEF Limits
        <3>4. /\ wanted' >= cfg.min
              /\ wanted' > cfg.max => wanted' <= actual /\ wanted' <= target
              /\ actual > cfg.max => actual - cfg.step <= wanted'
            <4>1. CASE wanted' = Min2(actual + cfg.step, cfg.max) /\ wanted' > actual
                BY <2>1, <3>3, <4>1, Numbers DEF Min2
            <4>2. CASE wanted' = Max2(actual - cfg.step, cfg.min) /\ wanted' < actual
                BY <2>1, <3>3, <4>2, Numbers DEF Max2
            <4> QED
                BY <3>2, <4>1, <4>2
        <3> QED
            BY <2>2, <3>1, <3>3, <3>4 DEF Limits
    <2>6. CASE QueryIsStale
        BY <2>1, <2>2, <2>6, LimitsUndisturbed DEF QueryIsStale, Failed
    <2> QED
        BY <1>2, <2>3, <2>4, <2>5, <2>6, QueryCases
<1>3. CASE SetBalloonLogicalSize
    <2>1. /\ pc = "set" /\ cfg' = cfg /\ UNCHANGED guestVars /\ pc' \in {"idle", "gaveUp"}
        BY <1>3 DEF SetBalloonLogicalSize, Succeeded, Failed
    <2>t. QEMUTarget(wanted) = wanted
        BY <2>1, TargetTaken DEF BalloonTypes
    <2>2. UNCHANGED <<cfg, actual, resized>>
        BY <2>1 DEF guestVars
    <2>3. CASE target' = wanted
        <3> SUFFICES ASSUME ~resized PROVE Limits'
            BY <2>2 DEF Limits
        <3>1. /\ actual >= cfg.min
              /\ target > actual => target <= cfg.max
              /\ wanted >= cfg.min
              /\ wanted > cfg.max => wanted <= actual /\ wanted <= target
              /\ actual > cfg.max => actual - cfg.step <= wanted
            BY <2>1 DEF Limits
        <3>2. wanted > actual => wanted <= cfg.max
            BY <2>1, <3>1, Numbers
        <3> QED
            BY <2>1, <2>2, <2>3, <3>1, <3>2 DEF Limits
    <2>4. CASE target' = target
        BY <2>1, <2>2, <2>4, LimitsUndisturbed
    <2> QED
        BY <1>3, <2>t, <2>3, <2>4 DEF SetBalloonLogicalSize
<1>4. CASE Cancelled
    BY <1>4, LimitsUndisturbed DEF Cancelled, guestVars
<1>5. CASE GuestReports
    BY <1>5, LimitsUndisturbed DEF GuestReports, controllerVars
<1>6. CASE Inflates
    <2>1. UNCHANGED <<cfg, pc, wanted, target, resized>>
        BY <1>6 DEF Inflates, controllerVars
    <2> SUFFICES ASSUME ~resized, pc # "rejected" PROVE Limits'
        BY <2>1 DEF Limits
    <2>2. actual # target /\ actual' = IF actual < target THEN actual + 1 ELSE actual - 1
        BY <1>6 DEF Inflates
    <2>3. /\ actual >= cfg.min /\ target >= cfg.min
          /\ target > actual => target <= cfg.max
          /\ actual > cfg.max => actual - cfg.step <= target
        BY DEF Limits
    <2>4. /\ actual' >= cfg.min
          /\ target > actual' => target <= cfg.max
          /\ actual' > cfg.max => actual' - cfg.step <= target
        BY <2>2, <2>3, Numbers
    <2>5. pc = "set" =>
            /\ wanted >= cfg.min
            /\ wanted > cfg.max => wanted <= actual' /\ wanted <= target
            /\ actual' > cfg.max => actual' - cfg.step <= wanted
        BY <2>2, <2>3, Numbers DEF Limits
    <2> QED
        BY <2>1, <2>3, <2>4, <2>5 DEF Limits
<1>7. CASE DemandChanges
    BY <1>7, LimitsUndisturbed DEF DemandChanges, controllerVars
<1>8. CASE balloon
    BY <1>8 DEF balloon, Limits
<1>9. CASE TimePasses
    BY <1>9, LimitsUndisturbed DEF TimePasses
<1>10. CASE UNCHANGED vars
    BY <1>10, LimitsUndisturbed DEF vars
<1> QED
    BY <1>1, <1>2, <1>3, <1>4, <1>5, <1>6, <1>7, <1>8, <1>9, <1>10,
       <1>11, <1>12, <1>13 DEF Next, Controller

----------------------------------------------------------------------------
(* Freshness.                                                              *)

\* Freshness holds at first.
LEMMA FreshnessInitially == ASSUME Init PROVE Freshness
<1>1. BalloonTypes
    BY TypesInitially
<1>2. /\ startAge = 0 /\ reportIn = 0 /\ delay = 0 /\ sample.known = FALSE /\ excused = 0 /\ failures = 0
      /\ pc # "query"
    BY DEF Init, NoSample
<1>3. startAge + reportIn <= statsPollSeconds + delay /\ startAge <= delay
    BY <1>1, <1>2, StatsPollBound
<1> QED
    BY <1>2, <1>3 DEF Freshness

(* A step that lets no time pass, brings no report and reads none.         *)
LEMMA FreshnessUndisturbed ==
    ASSUME Freshness, pc # "rejected" \/ pc' = pc,
           pc' # "start" \/ UNCHANGED <<pc, delay>>,
           pc' # "query" \/ UNCHANGED <<pc, reading, delay>>,
           delay' = delay \/ sample.known,
           UNCHANGED <<cfg, startAge, sample, reportIn>>,
           pc # "rejected" /\ cfg.poll >= Second => (excused = failures => excused' = failures')
    PROVE  Freshness'
<1>1. statsPollSeconds' = statsPollSeconds
    BY DEF statsPollSeconds
<1> QED
    BY <1>1 DEF Freshness

(* The end of a cycle.                                                     *)
LEMMA FreshnessAtEnd ==
    ASSUME BalloonTypes, Freshness, pc \in {"read", "query", "set"}, NEW b \in BOOLEAN,
           Succeeded \/ Failed(b), pc # "rejected" /\ cfg.poll >= Second => Succeeded \/ b,
           UNCHANGED <<cfg, startAge>>, UNCHANGED guestVars
    PROVE  Freshness'
<1>1. failures \in Nat /\ excused \in Nat
    BY DEF BalloonTypes
<1>2. pc' \in {"idle", "gaveUp"} /\ (delay' = delay \/ sample.known)
    BY DEF Succeeded, Failed, EndCycle, DelayAtReading
<1>3. cfg.poll >= Second => (excused = failures => excused' = failures')
    <2>1. CASE Succeeded
        BY <2>1 DEF Succeeded
    <2>2. CASE Failed(b) /\ b
        BY <1>1, <2>2 DEF Failed
    <2> QED
        BY <2>1, <2>2
<1> QED
    BY <1>2, <1>3, FreshnessUndisturbed DEF guestVars

(* A reading of a guest that missed no report and reports its memory is    *)
(* neither stale nor unavailable, unless the calls were slow.              *)
LEMMA StaleIsExcused ==
    ASSUME BalloonTypes, Freshness, pc = "query", cfg.poll >= Second,
           ~(Unavailable /\ startAge < StaleAfter), ~Fresh
    PROVE  Excuse
<1> SUFFICES ASSUME ~reading.missed, ~(reading.known /\ ~reading.hasMemory), ~SlowCalls
             PROVE  FALSE
    BY DEF Excuse
<1>p. statsPollSeconds \in Nat /\ statsPollSeconds <= cfg.poll
    BY StatsPollBound
<1>1. /\ cfg.poll \in Nat /\ 1 <= cfg.poll /\ Second \in Nat
      /\ startAge \in Nat /\ delay \in Nat /\ reading.age \in Nat
    BY BalloonAssumption DEF BalloonTypes, Samples, validateBalloonController
<1>2. CASE ~reading.known
    <2>1. startAge <= statsPollSeconds + delay
        BY <1>2 DEF Freshness
    <2>2. delay < cfg.poll
        BY <1>1, <1>2 DEF SlowCalls
    <2>3. startAge < StaleAfter
        BY <1>p, <1>1, <2>1, <2>2 DEF StaleAfter
    <2> QED
        BY <1>2, <2>3 DEF Unavailable
<1>3. CASE reading.known
    <2>1. reading.age <= Second - 1 + statsPollSeconds + delay
        BY <1>3 DEF Freshness
    <2>2. delay <= cfg.poll - Second
        BY <1>1, <1>3 DEF SlowCalls
    <2>3. reading.age <= StaleAfter
        BY <1>p, <1>1, <2>1, <2>2 DEF StaleAfter
    <2> QED
        BY <1>3, <2>3 DEF Fresh
<1> QED
    BY <1>2, <1>3

(* A unit of time brings a report as much nearer as it ages the last one,  *)
(* and adds as much to the delay as it ages the copy in use.               *)
LEMMA FreshnessAges ==
    ASSUME BalloonTypes, Freshness, TimePasses
    PROVE  Freshness'
<1> SUFFICES ASSUME cfg.poll >= Second PROVE Freshness'
    BY DEF Freshness, TimePasses
<1>0. /\ pc \in {"start", "enabled", "idle", "read", "query", "set"}
      /\ UNCHANGED <<cfg, pc, failures, excused>>
    BY DEF TimePasses, InCall
<1>s. statsPollSeconds' = statsPollSeconds /\ statsPollSeconds \in Nat
    BY <1>0, StatsPollBound DEF statsPollSeconds
<1>1. /\ startAge \in Nat /\ reportIn \in Nat /\ delay \in Nat /\ cfg.poll \in Nat /\ Second \in Nat
      /\ sample \in Samples /\ reading \in Samples
      /\ sample.age \in Nat /\ reading.age \in Nat
    BY <1>0, BalloonAssumption DEF BalloonTypes, Samples, validateBalloonController
<1>2. startAge' \in Nat /\ startAge' <= startAge + 1
    BY <1>1 DEF TimePasses, Older, Min2, None, StaleAfter
<1>3. /\ sample'.known = sample.known /\ sample'.missed = sample.missed
      /\ sample.known => sample'.age \in Nat /\ sample'.age <= sample.age + 1
    BY <1>1 DEF TimePasses, AgeOf, Older, Min2, None, Samples
<1>4. /\ reading'.known = reading.known /\ reading'.missed = reading.missed
      /\ reading.known => reading'.age \in Nat /\ reading'.age <= reading.age + 1
    BY <1>1 DEF TimePasses, AgeOf, Older, Min2, None, Samples
<1>5. /\ delay' \in Nat /\ delay' >= delay
      /\ pc # "idle" => delay' = delay + 1
      /\ pc = "start" => reportIn' = reportIn
      /\ pc # "start" => reportIn > 0 /\ reportIn' = reportIn - 1
      /\ reportIn' \in Nat
    BY <1>0, <1>1 DEF TimePasses, InCall
<1>6. pc = "start" => startAge' <= delay' /\ ~sample'.known /\ reportIn' = 0
    BY <1>0, <1>1, <1>2, <1>3, <1>5 DEF Freshness
<1>7. ASSUME ~sample'.known, ~sample'.missed
      PROVE  startAge' + reportIn' <= statsPollSeconds + delay'
    <2>1. startAge + reportIn <= statsPollSeconds + delay
        BY <1>0, <1>3, <1>7 DEF Freshness
    <2> DEFINE n == statsPollSeconds
               a == startAge   z == startAge'
               q == reportIn   y == reportIn'
               d == delay      e == delay'
    <2>2. /\ {n, a, z, q, y, d, e} \subseteq Nat
          /\ z <= a + 1 /\ e >= d /\ a + q <= n + d
          /\ (y = q /\ e = d + 1) \/ y = q - 1
        BY <1>s, <1>1, <1>2, <1>5, <2>1
    <2> HIDE DEF n, a, z, q, y, d, e
    <2>3. z + y <= n + e
        BY <2>2
    <2> QED
        BY <2>3 DEF n, z, y, e
<1>8. ASSUME sample'.known, ~sample'.missed
      PROVE  sample'.age + reportIn' <= Second - 1 + statsPollSeconds
    <2>1. sample.age + reportIn <= Second - 1 + statsPollSeconds
        BY <1>0, <1>3, <1>8 DEF Freshness
    <2>2. pc # "start"
        BY <1>0, <1>3, <1>8 DEF Freshness
    <2> DEFINE a == sample.age  z == sample'.age
    <2>3. a \in Nat /\ z \in Nat /\ z <= a + 1 /\ a + reportIn <= Second - 1 + statsPollSeconds
        BY <1>1, <1>3, <1>8, <2>1
    <2> HIDE DEF a, z
    <2>4. z + reportIn' <= Second - 1 + statsPollSeconds
        BY <1>s, <1>1, <1>5, <2>2, <2>3
    <2> QED
        BY <2>4 DEF z
<1>9. ASSUME pc = "query", ~reading'.known, ~reading'.missed
      PROVE  startAge' <= statsPollSeconds + delay'
    <2>1. startAge <= statsPollSeconds + delay
        BY <1>4, <1>9 DEF Freshness
    <2> QED
        BY <1>s, <1>1, <1>2, <1>5, <1>9, <2>1
<1>10. ASSUME pc = "query", reading'.known, ~reading'.missed
       PROVE  reading'.age <= Second - 1 + statsPollSeconds + delay'
    <2>1. reading.age <= Second - 1 + statsPollSeconds + delay
        BY <1>4, <1>10 DEF Freshness
    <2> DEFINE a == reading.age  z == reading'.age
    <2>3. a \in Nat /\ z \in Nat /\ z <= a + 1 /\ a <= Second - 1 + statsPollSeconds + delay
        BY <1>1, <1>4, <1>10, <2>1
    <2> HIDE DEF a, z
    <2>4. z <= Second - 1 + statsPollSeconds + delay'
        BY <1>s, <1>1, <1>5, <1>10, <2>3
    <2> QED
        BY <2>4 DEF z
<1>11. excused' = failures'
    BY <1>0 DEF Freshness
<1> QED
    BY <1>0, <1>s, <1>6, <1>7, <1>8, <1>9, <1>10, <1>11 DEF Freshness

\* Every step keeps Freshness.
LEMMA FreshnessKept ==
    ASSUME BalloonTypes, Freshness, [Next]_vars
    PROVE  Freshness'
<1>s. cfg' = cfg => statsPollSeconds' = statsPollSeconds
    BY DEF statsPollSeconds
<1>p. statsPollSeconds \in Nat
    BY StatsPollBound
<1>1. CASE EnableBalloonStatsPolling
    <2>1. CASE reportIn' = statsPollSeconds /\ pc' = "enabled"
        <3>1. /\ pc = "start"
              /\ UNCHANGED <<cfg, failures, excused, startAge, delay, sample>>
            BY <1>1 DEF EnableBalloonStatsPolling
        <3>2. cfg.poll >= Second => startAge <= delay /\ ~sample.known
            BY <3>1 DEF Freshness
        <3>3. startAge \in Nat /\ delay \in Nat
            BY DEF BalloonTypes
        <3>4. cfg.poll >= Second => startAge + reportIn' <= statsPollSeconds + delay
            BY <1>p, <2>1, <3>2, <3>3
        <3> QED
            BY <1>s, <2>1, <3>1, <3>2, <3>4 DEF Freshness
    <2>2. CASE reportIn' = reportIn /\ pc' = "off"
        BY <1>1, <2>2, FreshnessUndisturbed DEF EnableBalloonStatsPolling
    <2> QED
        BY <1>1, <2>1, <2>2 DEF EnableBalloonStatsPolling
<1>2. CASE NewTicker
    BY <1>2, FreshnessUndisturbed DEF NewTicker, guestVars
<1>3. CASE tick
    BY <1>3, FreshnessUndisturbed DEF tick, guestVars
<1>4. CASE ReadBalloonStats
    <2>1. /\ pc = "read"
          /\ UNCHANGED <<cfg, startAge>> /\ UNCHANGED guestVars
        BY <1>4 DEF ReadBalloonStats
    <2>2. UNCHANGED <<cfg, startAge, sample, reportIn>>
        BY <2>1 DEF guestVars
    <2>3. CASE /\ pc' = "query" /\ reading' = sample /\ delay' = DelayAtReading
               /\ UNCHANGED <<failures, excused>>
        <3> SUFFICES ASSUME cfg.poll >= Second PROVE Freshness'
            BY <2>2 DEF Freshness
        <3>1. /\ startAge \in Nat /\ reportIn \in Nat /\ delay \in Nat /\ sample.age \in Nat
              /\ Second \in Nat
            BY BalloonAssumption DEF BalloonTypes, Samples
        <3>2. delay' = IF sample.known THEN 0 ELSE delay
            BY <2>3 DEF DelayAtReading
        <3>3. /\ excused = failures
              /\ ~sample.known /\ ~sample.missed => startAge + reportIn <= statsPollSeconds + delay
              /\ sample.known /\ ~sample.missed =>
                   sample.age + reportIn <= Second - 1 + statsPollSeconds
            BY <2>1 DEF Freshness
        <3>4. ~sample.known /\ ~sample.missed =>
                /\ startAge + reportIn <= statsPollSeconds + delay'
                /\ startAge <= statsPollSeconds + delay'
            BY <1>p, <3>1, <3>2, <3>3
        <3>5. sample.known /\ ~sample.missed => sample.age <= Second - 1 + statsPollSeconds + delay'
            BY <1>p, <3>1, <3>2, <3>3
        <3> QED
            BY <1>s, <2>2, <2>3, <3>3, <3>4, <3>5 DEF Freshness
    <2>4. CASE Failed(TRUE)
        BY <2>1, <2>4, FreshnessAtEnd
    <2> QED
        BY <1>4, <2>3, <2>4 DEF ReadBalloonStats
<1>5. CASE QueryBalloon
    <2>1. /\ pc = "query"
          /\ UNCHANGED <<cfg, startAge>> /\ UNCHANGED guestVars
        BY <1>5 DEF QueryBalloon
    <2>2. CASE QueryFails
        BY <2>1, <2>2, FreshnessAtEnd DEF QueryFails
    <2>3. CASE QueryIsQuiet
        BY <2>1, <2>3, FreshnessAtEnd DEF QueryIsQuiet
    <2>4. CASE QueryDecides
        BY <2>1, <2>4, FreshnessUndisturbed DEF QueryDecides, guestVars
    <2>5. CASE QueryIsStale
        <3>1. Excuse \in BOOLEAN
            BY DEF Excuse, SlowCalls, BalloonTypes, Samples
        <3>2. Failed(Excuse) /\ (cfg.poll >= Second => Excuse)
            BY <2>1, <2>5, StaleIsExcused DEF QueryIsStale
        <3> QED
            BY <2>1, <3>1, <3>2, FreshnessAtEnd
    <2> QED
        BY <1>5, <2>2, <2>3, <2>4, <2>5, QueryCases
<1>6. CASE SetBalloonLogicalSize
    <2>1. /\ pc = "set" /\ UNCHANGED <<cfg, startAge>> /\ UNCHANGED guestVars
          /\ Succeeded \/ Failed(TRUE)
        BY <1>6 DEF SetBalloonLogicalSize
    <2> QED
        BY <2>1, FreshnessAtEnd
<1>7. CASE Cancelled
    BY <1>7, FreshnessUndisturbed DEF Cancelled, guestVars
<1>8. CASE GuestReports
    <2>1. /\ UNCHANGED <<cfg, pc, failures, excused, startAge, reading, delay>>
          /\ pc \in {"enabled", "idle", "read", "query", "set"} /\ reportIn' = statsPollSeconds
        BY <1>8 DEF GuestReports, controllerVars
    <2>2. phase \in Nat /\ phase <= Second - 1 /\ Second \in Nat
        BY BalloonAssumption DEF BalloonTypes
    <2>3. CASE sample'.missed = FALSE /\ sample'.known /\ sample'.age = phase
        <3>1. sample'.age + reportIn' <= Second - 1 + statsPollSeconds
            BY <1>p, <2>1, <2>2, <2>3
        <3> QED
            BY <1>s, <2>1, <2>3, <3>1 DEF Freshness
    <2>4. CASE sample'.missed = TRUE
        BY <1>s, <2>1, <2>4 DEF Freshness
    <2>5. CASE \E has \in BOOLEAN :
              sample' = [known |-> TRUE, hasMemory |-> has,
                         available |-> IF has THEN Max2(0, actual - used) ELSE 0,
                         age |-> phase, missed |-> FALSE]
        <3>1. sample'.missed = FALSE /\ sample'.known /\ sample'.age = phase
            BY <2>5
        <3> QED
            BY <2>3, <3>1
    <2>6. CASE sample' = [sample EXCEPT !.missed = TRUE]
        <3>1. sample'.missed = TRUE
            BY <2>6 DEF BalloonTypes, Samples
        <3> QED
            BY <2>4, <3>1
    <2> QED
        BY <1>8, <2>5, <2>6 DEF GuestReports
<1>9. CASE Inflates
    BY <1>9, FreshnessUndisturbed DEF Inflates, controllerVars
<1>10. CASE DemandChanges
    BY <1>10, FreshnessUndisturbed DEF DemandChanges, controllerVars
<1>11. CASE balloon
    BY <1>11, FreshnessUndisturbed DEF balloon, controllerVars
<1>12. CASE TimePasses
    BY <1>12, FreshnessAges
<1>13. CASE UNCHANGED vars
    BY <1>13, FreshnessUndisturbed DEF vars
<1> QED
    BY <1>1, <1>2, <1>3, <1>4, <1>5, <1>6, <1>7, <1>8, <1>9, <1>10, <1>11, <1>12, <1>13
       DEF Next, Controller

----------------------------------------------------------------------------
(* Theorems.                                                               *)

(* The variables keep their ranges: at most MaxFailures failures are       *)
(* counted, and no size asked of QEMU is outside the guest's memory        *)
(* (controller.go:203-239, 290-326).                                       *)
THEOREM BalloonTypeCorrect == Spec => []TypeOK
<1>1. Init => BalloonTypes
    BY TypesInitially
<1>2. BalloonTypes /\ [Next]_vars => BalloonTypes'
    BY TypesKept
<1>3. BalloonTypes => TypeOK
    BY BalloonAssumption DEF BalloonTypes, TypeOK
<1> QED
    BY <1>1, <1>2, <1>3, PTL DEF Spec

\* BalloonInv is an invariant.
LEMMA BalloonInvariance == Spec => []BalloonInv
<1>1. Init => BalloonInv
    BY TypesInitially, LimitsInitially, FreshnessInitially DEF BalloonInv
<1>2. BalloonInv /\ [Next]_vars => BalloonInv'
    BY TypesKept, LimitsKept, FreshnessKept DEF BalloonInv
<1> QED
    BY <1>1, <1>2, PTL DEF Spec

(* Unless somebody else set a size outside them, the guest keeps the       *)
(* configured minimum and is never grown past the maximum, for every       *)
(* configuration that validates, however the guest lags behind the sizes   *)
(* set and however long the calls take (controller.go:290-326).            *)
THEOREM GuestStaysInLimits == Spec => []StaysInLimits
<1>1. BalloonInv => StaysInLimits
    BY DEF BalloonInv, Limits, StaysInLimits, WithinLimits
<1> QED
    BY <1>1, BalloonInvariance, PTL

(* The controller gives up only for failed or slow QMP calls and missing   *)
(* reports, for every poll interval of a second or more                    *)
(* (controller.go:219-275).                                                *)
THEOREM ControllerGivesUpForCause == Spec => []GivesUpForCause
<1>1. BalloonInv => GivesUpForCause
    BY DEF BalloonInv, Freshness, GivesUpForCause
<1> QED
    BY <1>1, BalloonInvariance, PTL
=============================================================================
