--------------------------- MODULE MobileStackProofs ---------------------------
(* Theorems about MobileStack, for every value of its constants. *)
EXTENDS MobileStack, SequenceTheorems, TLAPS

USE DEF worldMotionVars, boundVars, stackVars

-----------------------------------------------------------------------------
(* Type correctness *)

\* The aim is within the limits of the arm, wherever the target is.
LEMMA AimType ==
    ASSUME NEW target \in Int, NEW x \in Int
    PROVE  AimAt(target, x) \in Aim
BY ReachAssumption DEF AimAt, Aim, Clamp

LEMMA NeutralType == Neutral \in Aim
BY ReachAssumption DEF Neutral, Aim

\* What a tick of the base does keeps the type of its state.
LEMMA BaseStartedType ==
    ASSUME NEW b \in Base
    PROVE  BaseStarted(b) \in Base
<1>1. CASE ~b.active /\ b.queue # <<>>
    <2>1. b.queue \in Seq(BaseCommand)
        BY DEF Base
    <2>2. Head(b.queue) \in BaseCommand /\ Tail(b.queue) \in Seq(BaseCommand)
        BY <1>1, <2>1, HeadTailProperties
    <2> QED
        BY <1>1, <2>2 DEF BaseStarted, Base
<1>2. CASE ~(~b.active /\ b.queue # <<>>)
    BY <1>2 DEF BaseStarted
<1> QED
    BY <1>1, <1>2

LEMMA ExecutedType ==
    ASSUME NEW b \in Base, NEW crosses \in BOOLEAN
    PROVE  Executed(b, crosses) \in Base
<1>1. TargetVelocity(b) \in Velocity
    BY DEF TargetVelocity, Velocity, Standing
<1>2. b.velocity \in Velocity
    BY DEF Base
<1>3. Smoothed(b, crosses) \in Velocity
    BY <1>1, <1>2 DEF Smoothed
<1>4. (b.stopping \/ AtGoal(b)) \in BOOLEAN
    OBVIOUS
<1> QED
    BY <1>3, <1>4 DEF Executed, Base

\* The base keeps the type of its state in every tick.
LEMMA BaseUpdateType ==
    ASSUME BaseTypeOK, NEW crosses \in BOOLEAN, BaseUpdate(crosses)
    PROVE  BaseTypeOK'
<1> DEFINE b == Executed(BaseStarted(base), crosses)
<1>1. b \in Base
    BY BaseStartedType, ExecutedType DEF BaseTypeOK
<1>2. [b EXCEPT !.active = FALSE, !.stopping = FALSE] \in Base
    BY <1>1 DEF Base
<1>3. base' \in {base, b, [b EXCEPT !.active = FALSE, !.stopping = FALSE]}
    BY DEF BaseUpdate
<1> QED
    BY <1>1, <1>2, <1>3 DEF BaseTypeOK

\* The base is sent to a cell, or to none.
LEMMA BaseGoalsType ==
    ASSUME ctl \in Controller, NEW t \in Target
    PROVE  BaseGoalsFor(t) \in Seq(BaseCommand)
<1> DEFINE dx == t.x - ctl.base_x
           command == [seq |-> t.seq, goal |-> t.x - WorkRadius * Sign(dx)]
<1>1. dx \in Int /\ Sign(dx) \in {1, -1}
    BY DEF Controller, Target, Sign
<1>2. WorkRadius * Sign(dx) \in Int
    BY <1>1, WorkRadiusAssumption
<1>3. command \in BaseCommand
    BY <1>2 DEF BaseCommand, Target
<1>4. <<command>> \in Seq(BaseCommand) /\ <<>> \in Seq(BaseCommand)
    BY <1>3
<1>5. BaseGoalsFor(t) = <<command>> \/ BaseGoalsFor(t) = <<>>
    BY DEF BaseGoalsFor
<1> QED
    BY <1>4, <1>5

\* The controller keeps the type of its state when it takes a target and when it completes one.
LEMMA EnqueuedType ==
    ASSUME NEW c \in Controller, NEW seq \in Nat
    PROVE  Enqueued(c, seq) \in Controller
<1>1. c.pending \in Seq(Nat) /\ Append(c.pending, seq) \in Seq(Nat)
    BY DEF Controller
<1>2. Append(c.pending, seq) # <<>>
    BY <1>1
<1>3. Head(Append(c.pending, seq)) \in Nat
    BY <1>1, <1>2, HeadTailProperties
<1> QED
    BY <1>1, <1>3 DEF Enqueued, Controller

LEMMA CompletedType ==
    ASSUME NEW c \in Controller
    PROVE  Completed(c) \in Controller
<1> DEFINE rest == IF c.pending # <<>> THEN Tail(c.pending) ELSE c.pending
<1>1. c.pending \in Seq(Nat)
    BY DEF Controller
<1>2. rest \in Seq(Nat)
    BY <1>1, HeadTailProperties
<1>3. rest # <<>> => Head(rest) \in Nat
    BY <1>2, HeadTailProperties
<1>4. (IF rest # <<>> THEN Head(rest) ELSE c.active) \in Nat
    BY <1>3 DEF Controller
<1>5. CompletedDwelling(c) \in Controller
    BY <1>2, <1>4 DEF CompletedDwelling, Controller
<1> QED
    BY <1>5 DEF Completed, Controller

LEMMA TypeInit == StackInit => StackTypeOK
<1> SUFFICES ASSUME StackInit PROVE StackTypeOK
    OBVIOUS
<1>1. WorldMotionTypeOK
    BY DEF StackInit, WorldMotionInit, WorldMotionTypeOK, Controller, Coordinator
<1>2. BaseTypeOK
    BY DEF StackInit, BaseInit, BaseTypeOK, Base, BaseCommand, NoBaseCommand, Velocity, Standing
<1>3. ArmTypeOK
    BY NeutralType DEF StackInit, ArmInit, ArmTypeOK, Arm
<1>4. /\ fw \in FirmwareClient /\ sent \in 0..MaxTargets
      /\ restarts \in 0..MaxRestarts /\ robot \in Robot
    BY StackAssumption DEF StackInit, FirmwareClient, Robot
<1> QED
    BY <1>1, <1>2, <1>3, <1>4 DEF StackTypeOK

LEMMA TypeStep == StackTypeOK /\ [StackNext]_stackVars => StackTypeOK'
<1> SUFFICES ASSUME StackTypeOK, [StackNext]_stackVars PROVE StackTypeOK'
    OBVIOUS
<1> USE DEF StackTypeOK, WorldMotionTypeOK
<1>1. CASE FwSubmit
    <2> DEFINE seq == NextSeq(fw.submitted)
    <2>1. seq \in 0..SeqModulus-1
        <3>1. fw.submitted \in 0..SeqModulus-1
            BY Zenon DEF FirmwareClient
        <3>2. SeqModulus \in Nat \ {0}
            BY StackAssumption, Zenon
        <3> HIDE DEF StackTypeOK, WorldMotionTypeOK
        <3> QED
            BY <3>1, <3>2 DEF NextSeq
    <2>2. Program[seq] \in Int
        BY <1>1, StackAssumption, ElementOfSeq, LenProperties DEF FwSubmit
    <2>3. [seq |-> seq, x |-> Program[seq]] \in Target
        BY <2>1, <2>2 DEF Target
    <2>4. targets' \in Seq(Target)
        <3>1. targets \in Seq(Target)
            OBVIOUS
        <3>2. targets' = Append(targets, [seq |-> seq, x |-> Program[seq]])
            BY <1>1, Zenon DEF FwSubmit
        <3> QED
            BY <2>3, <3>1, <3>2, AppendProperties, Zenon
    <2>5. fw' \in FirmwareClient
        BY <1>1, <2>1 DEF FwSubmit, FirmwareClient
    <2>6. sent' \in 0..MaxTargets
        <3>1. sent < MaxTargets /\ sent' = sent + 1
            BY <1>1, Zenon DEF FwSubmit
        <3>2. sent \in 0..MaxTargets /\ MaxTargets \in Nat
            BY StackAssumption, Zenon
        <3> HIDE DEF StackTypeOK, WorldMotionTypeOK
        <3> QED
            BY <3>1, <3>2
    <2>7. UNCHANGED <<ctl, coord, world_target, errors, completions, base, arm, restarts, robot>>
        BY <1>1 DEF FwSubmit
    <2>8. WorldMotionTypeOK'
        BY <2>4, <2>7
    <2>9. BaseTypeOK' /\ ArmTypeOK' /\ restarts' \in 0..MaxRestarts /\ robot' \in Robot
        BY <2>7 DEF BaseTypeOK, ArmTypeOK
    <2> HIDE DEF WorldMotionTypeOK
    <2> QED
        BY <2>5, <2>6, <2>8, <2>9
<1>2. CASE OnWorldComplete
    <2>1. Head(completions) \in Nat /\ completions' \in Seq(Nat)
        BY <1>2, HeadTailProperties DEF OnWorldComplete
    <2>2. fw' \in FirmwareClient
        BY <1>2, <2>1 DEF OnWorldComplete, FirmwareClient
    <2> QED
        BY <1>2, <2>1, <2>2 DEF OnWorldComplete, BaseTypeOK, ArmTypeOK
<1>3. CASE FwBoot
    BY <1>3 DEF FwBoot, FirmwareClient, BaseTypeOK, ArmTypeOK
<1>4. CASE FwCrash
    <2>1. fw' \in FirmwareClient
        BY <1>4, StackAssumption DEF FwCrash, FirmwareClient
    <2>2. restarts' \in 0..MaxRestarts
        BY <1>4, StackAssumption DEF FwCrash
    <2> QED
        BY <1>4, <2>1, <2>2 DEF FwCrash, BaseTypeOK, ArmTypeOK
<1>5. CASE TakeTarget
    <2>1. Head(targets) \in Target /\ targets' \in Seq(Target)
        BY <1>5, HeadTailProperties DEF TakeTarget, MotionTarget
    <2>2. ctl' \in Controller
        BY <1>5, <2>1, EnqueuedType DEF TakeTarget, MotionTarget, Target
    <2>3. world_target' \in Seq(Target)
        BY <1>5, <2>1 DEF TakeTarget, MotionTarget
    <2>4. BaseGoalsFor(Head(targets)) \in Seq(BaseCommand)
        BY <2>1, BaseGoalsType
    <2>5. base.queue \o BaseGoalsFor(Head(targets)) \in Seq(BaseCommand)
        BY <2>4, ConcatProperties DEF BaseTypeOK, Base
    <2>6. BaseTypeOK'
        BY <1>5, <2>5 DEF TakeTarget, BaseCommanded, BaseTypeOK, Base
    <2> QED
        BY <1>5, <2>1, <2>2, <2>3, <2>6 DEF TakeTarget, MotionTarget, ArmTypeOK
<1>6. CASE AimForTarget
    <2>1. Head(world_target) \in Target /\ world_target' \in Seq(Target)
        BY <1>6, HeadTailProperties DEF AimForTarget, TargetReceived
    <2>2. coord' \in Coordinator
        BY <1>6, <2>1 DEF AimForTarget, TargetReceived, Coordinator, Target
    <2>3. ArmTypeOK'
        BY <1>6, <2>1 DEF AimForTarget, ArmTarget, ArmTypeOK, Arm, Target
    <2> QED
        BY <1>6, <2>1, <2>2, <2>3 DEF AimForTarget, TargetReceived, BaseTypeOK
<1>7. CASE TakeError
    <2>1. Head(errors) \in Error /\ errors' \in Seq(Error)
        BY <1>7, HeadTailProperties DEF TakeError, ErrorReceived
    <2>2. ctl' \in Controller
        <3>1. CASE Completes(ctl, Head(errors))
            BY <1>7, <3>1, CompletedType DEF TakeError, ErrorReceived
        <3>2. CASE ~Completes(ctl, Head(errors))
            <4>1. DwellAfter(ctl, Head(errors)) \in {"out", "in", "due"}
                BY DEF DwellAfter, Controller
            <4>2. [ctl EXCEPT !.dwell = DwellAfter(ctl, Head(errors))] \in Controller
                BY <4>1 DEF Controller
            <4> QED
                BY <1>7, <3>2, <4>2 DEF TakeError, ErrorReceived
        <3> QED
            BY <3>1, <3>2
    <2>3. completions' \in Seq(Nat)
        <3>1. Append(completions, ctl.active) \in Seq(Nat)
            BY DEF Controller
        <3> QED
            BY <1>7, <3>1 DEF TakeError, ErrorReceived
    <2>4. ArmTypeOK'
        <3>1. AimAt(arm.target, arm.base_x) \in Aim
            BY AimType DEF ArmTypeOK, Arm
        <3> QED
            BY <1>7, <3>1 DEF TakeError, ArmError, ArmTypeOK, Arm
    <2> QED
        BY <1>7, <2>1, <2>2, <2>3, <2>4 DEF TakeError, ErrorReceived, BaseTypeOK
<1>8. CASE Dwell
    BY <1>8 DEF Dwell, DwellElapses, Controller, BaseTypeOK, ArmTypeOK
<1>9. CASE ReportTool
    <2>1. Tool \in Int
        BY DEF Tool, Robot, ArmTypeOK, Arm, Aim
    <2>2. ctl' \in Controller /\ coord' \in Coordinator
        BY <1>9, <2>1 DEF ReportTool, ToolPose, Controller, Coordinator
    <2> QED
        BY <1>9, <2>2 DEF ReportTool, ToolPose, BaseTypeOK, ArmTypeOK
<1>10. CASE ReportError
    <2>1. [inside |-> coord.target = coord.pose, of |-> coord.of] \in Error
        BY DEF Error, Coordinator
    <2>2. errors' \in Seq(Error)
        BY <1>10, <2>1 DEF ReportError, CoordinatorUpdate
    <2> QED
        BY <1>10, <2>2 DEF ReportError, CoordinatorUpdate, BaseTypeOK, ArmTypeOK
<1>11. ASSUME NEW crosses \in BOOLEAN, BaseTick(crosses)
       PROVE  StackTypeOK'
    <2>1. BaseTypeOK'
        BY <1>11, BaseUpdateType DEF BaseTick
    <2> QED
        BY <1>11, <2>1 DEF BaseTick, ArmTypeOK
<1>12. ASSUME NEW x \in Int, NEW heading \in {1, -1}, Odometry(x, heading), robot' \in Robot
       PROVE  StackTypeOK'
    <2>1. base' \in Base /\ ctl' \in Controller /\ arm' \in Arm
        BY <1>12 DEF Odometry, BaseOdom, ControllerOdom, ArmOdom, BaseTypeOK, Base, Controller,
                     ArmTypeOK, Arm
    <2> QED
        BY <1>12, <2>1 DEF Odometry, BaseTypeOK, ArmTypeOK
<1>13. CASE BaseDrives
    <2>1. robot.heading \in {1, -1} /\ robot.x + robot.heading \in Int
        BY DEF Robot
    <2>2. robot' = [robot EXCEPT !.x = robot.x + robot.heading]
        BY <1>13 DEF BaseDrives
    <2>3. robot' \in Robot /\ robot'.x \in Int
        BY <2>1, <2>2 DEF Robot
    <2> QED
        BY <1>12, <1>13, <2>1, <2>3 DEF BaseDrives
<1>14. CASE BaseTurns
    <2>1. -robot.heading \in {1, -1} /\ robot.x \in Int
        BY DEF Robot
    <2>2. robot' = [robot EXCEPT !.heading = -robot.heading]
        BY <1>14 DEF BaseTurns
    <2>3. robot' \in Robot /\ robot'.heading \in {1, -1}
        BY <2>1, <2>2 DEF Robot
    <2> QED
        BY <1>12, <1>14, <2>1, <2>3 DEF BaseTurns
<1>15. CASE UNCHANGED stackVars
    BY <1>15 DEF BaseTypeOK, ArmTypeOK
<1> QED
    BY <1>1, <1>2, <1>3, <1>4, <1>5, <1>6, <1>7, <1>8, <1>9, <1>10, <1>11, <1>13, <1>14, <1>15
    DEF StackNext

\* In every behaviour the state is well typed: whatever the targets and the odometry, the arm
\* is never told to extend beyond its limits.
THEOREM StackTypeCorrect == StackSpec => []StackTypeOK
BY TypeInit, TypeStep, PTL DEF StackSpec
-----------------------------------------------------------------------------
(* The inductive invariant *)

\* There is an active target exactly while one is pending, and it is the oldest.
ActiveIsOldest ==
    /\ ctl.target_active <=> ctl.pending # <<>>
    /\ ctl.pending # <<>> => ctl.active = Head(ctl.pending)

\* Completing a target ends its dwell, so that a dwell is always of the active target.
DwellOfActive == ctl.dwell # "out" => ctl.target_active

\* The coordinator has, or has on its way, the last target that is pending.
LastForwarded ==
    ctl.pending # <<>> =>
        ctl.pending[Len(ctl.pending)] =
            IF world_target # <<>> THEN world_target[Len(world_target)].seq ELSE coord.of

\* When the dwell of the only pending target is over, the errors on their way are its own.
OwnErrors ==
    ctl.dwell = "due" /\ Len(ctl.pending) = 1 =>
        /\ world_target = <<>>
        /\ \A i \in DOMAIN errors : errors[i].of = coord.of

QueueInv == ActiveIsOldest /\ DwellOfActive /\ LastForwarded /\ OwnErrors

StackInv == StackTypeOK /\ QueueInv

\* What the invariant is about.
QueueState ==
    <<ctl.pending, ctl.active, ctl.target_active, ctl.dwell, world_target, errors, coord.of>>

LEMMA QueueStable ==
    ASSUME QueueInv, UNCHANGED QueueState
    PROVE  QueueInv'
BY DEF QueueInv, ActiveIsOldest, DwellOfActive, LastForwarded, OwnErrors, QueueState

LEMMA StackInvInit == StackInit => StackInv
<1> SUFFICES ASSUME StackInit PROVE StackInv
    OBVIOUS
<1>1. ctl.pending = <<>> /\ ctl.target_active = FALSE /\ ctl.dwell = "out"
    BY DEF StackInit, WorldMotionInit
<1>2. QueueInv
    BY <1>1 DEF QueueInv, ActiveIsOldest, DwellOfActive, LastForwarded, OwnErrors
<1> QED
    BY <1>2, TypeInit DEF StackInv

\* A target taken is the last pending one and the last on its way to the coordinator.
LEMMA TakeTargetInv ==
    ASSUME StackInv, TakeTarget
    PROVE  QueueInv'
<1> DEFINE t == Head(targets)
           p == ctl.pending
<1>1. t \in Target /\ t.seq \in Nat
    <2>1. t \in Target
        BY HeadTailProperties
        DEF StackInv, StackTypeOK, WorldMotionTypeOK, TakeTarget, MotionTarget
    <2> QED
        BY <2>1 DEF Target
<1>2. p \in Seq(Nat) /\ ctl \in Controller /\ world_target \in Seq(Target)
    BY DEF StackInv, StackTypeOK, WorldMotionTypeOK, Controller
<1>3. ctl' = Enqueued(ctl, t.seq) /\ world_target' = Append(world_target, t)
      /\ UNCHANGED <<coord, errors>>
    BY DEF TakeTarget, MotionTarget
<1>4. /\ ctl'.pending = Append(p, t.seq)
      /\ ctl'.active = (IF ctl.target_active THEN ctl.active ELSE Head(Append(p, t.seq)))
      /\ ctl'.target_active = TRUE
      /\ ctl'.dwell = ctl.dwell
    BY <1>2, <1>3 DEF Enqueued, Controller
<1>5. /\ Len(Append(p, t.seq)) = Len(p) + 1
      /\ Append(p, t.seq)[Len(p) + 1] = t.seq
      /\ Append(p, t.seq) # <<>>
      /\ p # <<>> => Head(Append(p, t.seq)) = Head(p)
      /\ Len(p) \in Nat
      /\ p = <<>> <=> Len(p) = 0
    BY <1>1, <1>2
<1>6. /\ Len(world_target') = Len(world_target) + 1
      /\ world_target'[Len(world_target) + 1] = t
      /\ world_target' # <<>>
    BY <1>1, <1>2, <1>3
<1>7. ActiveIsOldest'
    BY <1>4, <1>5 DEF StackInv, QueueInv, ActiveIsOldest
<1>8. DwellOfActive'
    BY <1>4 DEF DwellOfActive
<1>9. LastForwarded'
    BY <1>4, <1>5, <1>6 DEF LastForwarded
<1>10. OwnErrors'
    <2>1. SUFFICES ASSUME ctl.dwell = "due", Len(p) = 0 PROVE FALSE
        BY <1>4, <1>5 DEF OwnErrors
    <2> QED
        BY <2>1, <1>5 DEF StackInv, QueueInv, ActiveIsOldest, DwellOfActive
<1> QED
    BY <1>7, <1>8, <1>9, <1>10 DEF QueueInv

LEMMA AimForTargetInv ==
    ASSUME StackInv, AimForTarget
    PROVE  QueueInv'
<1>1. world_target \in Seq(Target) /\ world_target # <<>> /\ coord \in Coordinator
    BY DEF StackInv, StackTypeOK, WorldMotionTypeOK, AimForTarget, TargetReceived
<1>2. UNCHANGED <<ctl, errors>> /\ world_target' = Tail(world_target)
      /\ coord'.of = Head(world_target).seq
    BY <1>1 DEF AimForTarget, TargetReceived, Coordinator
<1>3. (IF world_target' # <<>> THEN world_target'[Len(world_target')].seq ELSE coord'.of)
          = world_target[Len(world_target)].seq
    <2>1. /\ Len(world_target) \in Nat \ {0} /\ Head(world_target) = world_target[1]
          /\ Len(world_target') = Len(world_target) - 1
          /\ \A i \in 1..Len(world_target) - 1 : world_target'[i] = world_target[i + 1]
        BY <1>1, <1>2
    <2>2. world_target' # <<>> <=> Len(world_target') # 0
        <3>1. world_target' \in Seq(Target)
            BY <1>1, <1>2, HeadTailProperties
        <3> HIDE <1>2
        <3> QED
            BY <3>1, EmptySeq
    <2>3. CASE Len(world_target) = 1
        BY <1>2, <2>1, <2>2, <2>3
    <2>4. CASE Len(world_target) # 1
        <3>1. world_target'[Len(world_target) - 1] = world_target[Len(world_target)]
            BY <2>1, <2>4
        <3> QED
            BY <2>1, <2>2, <2>4, <3>1
    <2> QED
        BY <2>3, <2>4
<1>4. LastForwarded'
    BY <1>1, <1>2, <1>3 DEF StackInv, QueueInv, LastForwarded
<1>5. ActiveIsOldest' /\ DwellOfActive' /\ OwnErrors'
    BY <1>1, <1>2 DEF StackInv, QueueInv, ActiveIsOldest, DwellOfActive, OwnErrors
<1> QED
    BY <1>4, <1>5 DEF QueueInv

LEMMA TakeErrorInv ==
    ASSUME StackInv, TakeError
    PROVE  QueueInv'
<1> DEFINE p == ctl.pending
           e == Head(errors)
<1>1. ctl \in Controller /\ p \in Seq(Nat) /\ errors \in Seq(Error) /\ errors # <<>>
    BY DEF StackInv, StackTypeOK, WorldMotionTypeOK, Controller, TakeError, ErrorReceived
<1>2. UNCHANGED <<coord, world_target>> /\ errors' = Tail(errors)
    BY DEF TakeError, ErrorReceived
<1>3. CASE Completes(ctl, e)
    <2>1. ctl' = Completed(ctl)
        BY <1>3 DEF TakeError, ErrorReceived
    <2>2. p # <<>>
        BY <1>3 DEF Completes, StackInv, QueueInv, ActiveIsOldest
    <2>3. /\ ctl'.pending = Tail(p)
          /\ ctl'.active = (IF Tail(p) # <<>> THEN Head(Tail(p)) ELSE ctl.active)
          /\ ctl'.target_active = (Tail(p) # <<>>)
          /\ ctl'.dwell = "out"
        BY <1>1, <2>1, <2>2 DEF Completed, CompletedDwelling, Controller
    <2>4. Tail(p) # <<>> => Tail(p)[Len(Tail(p))] = p[Len(p)]
        BY <1>1, <2>2
    <2>5. LastForwarded'
        BY <1>2, <2>2, <2>3, <2>4 DEF StackInv, QueueInv, LastForwarded
    <2> QED
        BY <2>3, <2>5 DEF QueueInv, ActiveIsOldest, DwellOfActive, OwnErrors
<1>4. CASE ~Completes(ctl, e)
    <2>1. /\ ctl'.pending = p
          /\ ctl'.active = ctl.active
          /\ ctl'.target_active = ctl.target_active
          /\ ctl'.dwell = IF ctl.target_active THEN DwellAfter(ctl, e) ELSE ctl.dwell
        BY <1>1, <1>4 DEF TakeError, ErrorReceived, Controller
    <2>2. ctl'.dwell = "due" => ctl.dwell = "due"
        BY <2>1 DEF DwellAfter
    <2>3. \A i \in DOMAIN Tail(errors) :
              i + 1 \in DOMAIN errors /\ Tail(errors)[i] = errors[i + 1]
        BY <1>1
    <2>4. OwnErrors'
        BY <1>2, <2>1, <2>2, <2>3 DEF StackInv, QueueInv, OwnErrors
    <2>5. ActiveIsOldest' /\ LastForwarded'
        BY <1>2, <2>1 DEF StackInv, QueueInv, ActiveIsOldest, LastForwarded
    <2>6. DwellOfActive'
        BY <2>1 DEF StackInv, QueueInv, DwellOfActive
    <2> QED
        BY <2>4, <2>5, <2>6 DEF QueueInv
<1> QED
    BY <1>3, <1>4

LEMMA DwellInv ==
    ASSUME StackInv, Dwell
    PROVE  QueueInv'
<1>1. ctl \in Controller
    BY DEF StackInv, StackTypeOK, WorldMotionTypeOK
<1>2. /\ ctl'.pending = ctl.pending /\ ctl'.active = ctl.active
      /\ ctl'.target_active = ctl.target_active
      /\ ctl.dwell = "in"
      /\ world_target = <<>> /\ errors = <<>>
      /\ UNCHANGED <<coord, world_target, errors>>
    BY <1>1 DEF Dwell, DwellElapses, Controller
<1>3. DwellOfActive'
    BY <1>2 DEF StackInv, QueueInv, DwellOfActive
<1>4. ActiveIsOldest' /\ LastForwarded'
    BY <1>2 DEF StackInv, QueueInv, ActiveIsOldest, LastForwarded
<1>5. OwnErrors'
    BY <1>2 DEF OwnErrors
<1> QED
    BY <1>3, <1>4, <1>5 DEF QueueInv

LEMMA ReportErrorInv ==
    ASSUME StackInv, ReportError
    PROVE  QueueInv'
<1> DEFINE e == [inside |-> coord.target = coord.pose, of |-> coord.of]
<1>1. errors \in Seq(Error) /\ coord \in Coordinator
    BY DEF StackInv, StackTypeOK, WorldMotionTypeOK
<1>2. errors' = Append(errors, e) /\ UNCHANGED <<ctl, coord, world_target>>
    BY DEF ReportError, CoordinatorUpdate
<1>3. e \in Error
    BY <1>1 DEF Error, Coordinator
<1>4. \A i \in DOMAIN Append(errors, e) :
          Append(errors, e)[i] = e \/ (i \in DOMAIN errors /\ Append(errors, e)[i] = errors[i])
    BY <1>1, <1>3
<1>5. OwnErrors'
    BY <1>2, <1>4 DEF StackInv, QueueInv, OwnErrors
<1> QED
    BY <1>2, <1>5 DEF StackInv, QueueInv, ActiveIsOldest, DwellOfActive, LastForwarded

LEMMA StackInvStep == StackInv /\ [StackNext]_stackVars => StackInv'
<1> SUFFICES ASSUME StackInv, [StackNext]_stackVars PROVE QueueInv'
    BY TypeStep DEF StackInv
<1>1. CASE FwSubmit \/ OnWorldComplete \/ FwBoot \/ FwCrash \/ UNCHANGED stackVars
    BY <1>1, QueueStable
    DEF StackInv, QueueState, FwSubmit, OnWorldComplete, FwBoot, FwCrash
<1>2. CASE \E crosses \in BOOLEAN : BaseTick(crosses)
    BY <1>2, QueueStable DEF StackInv, QueueState, BaseTick
<1>3. CASE ReportTool \/ BaseDrives \/ BaseTurns
    <2>1. ctl \in Controller /\ coord \in Coordinator
        BY DEF StackInv, StackTypeOK, WorldMotionTypeOK
    <2> QED
        BY <1>3, <2>1, QueueStable
        DEF StackInv, QueueState, ReportTool, ToolPose, BaseDrives, BaseTurns, Odometry,
            ControllerOdom, Controller, Coordinator
<1> QED
    BY <1>1, <1>2, <1>3, TakeTargetInv, AimForTargetInv, TakeErrorInv, DwellInv, ReportErrorInv
    DEF StackNext

LEMMA StackInvariant == StackSpec => []StackInv
BY StackInvInit, StackInvStep, PTL DEF StackSpec
-----------------------------------------------------------------------------
(* The promise to the firmware *)

\* Numbers of targets: of one more, and without the oldest.
LEMMA SeqsAppend ==
    ASSUME NEW ts \in Seq(Target), NEW t \in Target
    PROVE  Seqs(ts) \in Seq(Nat) /\ Seqs(Append(ts, t)) = Append(Seqs(ts), t.seq)
<1>1. DOMAIN ts = 1..Len(ts) /\ Len(ts) \in Nat /\ \A i \in DOMAIN ts : ts[i].seq \in Nat
    <2>1. \A i \in DOMAIN ts : ts[i] \in Target
        OBVIOUS
    <2> QED
        BY <2>1 DEF Target
<1>2. Seqs(ts) \in [1..Len(ts) -> Nat]
    BY <1>1 DEF Seqs
<1>3. Seqs(ts) \in Seq(Nat) /\ Len(Seqs(ts)) = Len(ts)
    BY <1>1, <1>2
<1>4. t.seq \in Nat
    BY DEF Target
<1>5. DOMAIN Append(ts, t) = 1..Len(ts)+1
      /\ \A i \in 1..Len(ts)+1 : Append(ts, t)[i] = IF i <= Len(ts) THEN ts[i] ELSE t
    BY <1>1
<1>6. DOMAIN Append(Seqs(ts), t.seq) = 1..Len(ts)+1
      /\ \A i \in 1..Len(ts)+1 :
             Append(Seqs(ts), t.seq)[i] = IF i <= Len(ts) THEN ts[i].seq ELSE t.seq
    BY <1>1, <1>3, <1>4 DEF Seqs
<1>7. Append(Seqs(ts), t.seq) \in Seq(Nat)
    BY <1>3, <1>4
<1>8. Append(Seqs(ts), t.seq) = [i \in DOMAIN Append(ts, t) |-> Append(ts, t)[i].seq]
    BY <1>5, <1>6, <1>7
<1> QED
    BY <1>3, <1>8 DEF Seqs

LEMMA SeqsTail ==
    ASSUME NEW ts \in Seq(Target), ts # <<>>
    PROVE  Seqs(ts) = <<Head(ts).seq>> \o Seqs(Tail(ts))
<1>1. Tail(ts) \in Seq(Target) /\ Head(ts) \in Target
    BY HeadTailProperties
<1>2. Seqs(ts) \in Seq(Nat) /\ Seqs(Tail(ts)) \in Seq(Nat)
    BY <1>1, SeqsAppend
<1>3. Head(ts).seq \in Nat
    BY <1>1 DEF Target
<1>4. Len(Seqs(ts)) = Len(ts) /\ Len(Seqs(Tail(ts))) = Len(ts) - 1
    BY <1>1, <1>2 DEF Seqs
<1>5. \A i \in 1..Len(ts) :
          Seqs(ts)[i] = (<<Head(ts).seq>> \o Seqs(Tail(ts)))[i]
    BY <1>1, <1>2, <1>3, <1>4 DEF Seqs
<1>6. <<Head(ts).seq>> \o Seqs(Tail(ts)) \in Seq(Nat)
      /\ Len(<<Head(ts).seq>> \o Seqs(Tail(ts))) = Len(ts)
    BY <1>2, <1>3, <1>4
<1> QED
    BY <1>2, <1>4, <1>5, <1>6, SeqEqual

\* Facts about sequences of numbers.
Associates(s, t, u) == (s \o t) \o u = s \o (t \o u)

LEMMA ConcatNat ==
    ASSUME NEW s \in Seq(Nat), NEW t \in Seq(Nat), NEW u \in Seq(Nat)
    PROVE  Associates(s, t, u)
BY SMTT(30) DEF Associates

LEMMA AppendNat ==
    ASSUME NEW s \in Seq(Nat), NEW n \in Nat
    PROVE  Append(s, n) = s \o <<n>> /\ <<n>> \in Seq(Nat) /\ Append(s, n) \in Seq(Nat)
<1>1. Append(s, n) = s \o <<n>>
    BY AppendIsConcat
<1> QED
    BY <1>1

LEMMA OldestFirst ==
    ASSUME NEW s \in Seq(Nat), NEW n \in Nat
    PROVE  /\ <<n>> \o s # <<>> /\ Head(<<n>> \o s) = n /\ Tail(<<n>> \o s) = s
<1>1. <<n>> \o s \in Seq(Nat) /\ Len(<<n>> \o s) = Len(s) + 1 /\ (<<n>> \o s)[1] = n
    OBVIOUS
<1>2. Tail(<<n>> \o s) \in Seq(Nat) /\ Len(Tail(<<n>> \o s)) = Len(s)
    BY <1>1
<1>3. \A i \in 1..Len(s) : Tail(<<n>> \o s)[i] = s[i]
    BY <1>1, <1>2
<1> QED
    BY <1>1, <1>2, <1>3, SeqEqual

\* Moving the oldest element of one queue to the end of the queue before it moves nothing.
LEMMA MoveHead ==
    ASSUME NEW s \in Seq(Nat), NEW t \in Seq(Nat), NEW n \in Nat
    PROVE  Append(s, n) \o t = s \o (<<n>> \o t)
<1>1. Append(s, n) = s \o <<n>> /\ <<n>> \in Seq(Nat)
    BY AppendNat
<1>2. Associates(s, <<n>>, t)
    BY <1>1, ConcatNat, Zenon
<1> QED
    BY <1>1, <1>2, Zenon DEF Associates

LEMMA WorldInit == StackInit => Contract!Init
<1>1. StackInit => World = <<>>
    BY ConcatEmptySeq DEF StackInit, WorldMotionInit, World, Seqs
<1> QED
    BY <1>1 DEF StackInit, Contract!Init

\* What the queues hold is well typed.
LEMMA QueuesType ==
    ASSUME StackTypeOK
    PROVE  /\ completions \in Seq(Nat) /\ ctl.pending \in Seq(Nat) /\ Seqs(targets) \in Seq(Nat)
           /\ completions \o ctl.pending \in Seq(Nat) /\ World \in Seq(Nat)
<1>1. completions \in Seq(Nat) /\ ctl.pending \in Seq(Nat) /\ targets \in Seq(Target)
    BY DEF StackTypeOK, WorldMotionTypeOK, Controller
<1>2. Seqs(targets) \in Seq(Nat)
    <2> DEFINE t == [seq |-> 0, x |-> 0]
    <2>1. t \in Target
        BY DEF Target
    <2> HIDE DEF t
    <2> QED
        BY <1>1, <2>1, SeqsAppend
<1>3. completions \o ctl.pending \in Seq(Nat)
    BY <1>1, ConcatProperties
<1> QED
    BY <1>1, <1>2, <1>3, ConcatProperties DEF World

\* A submission adds the number to the end of what the stack has to complete.
LEMMA SubmitImplements ==
    ASSUME StackInv, FwSubmit
    PROVE  Contract!Submit
<1> DEFINE seq == NextSeq(fw.submitted)
           t == [seq |-> seq, x |-> Program[seq]]
<1>1. fw \in FirmwareClient /\ targets \in Seq(Target)
    BY DEF StackInv, StackTypeOK, WorldMotionTypeOK
<1>2. seq \in Nat /\ Program[seq] \in Int
    <2>1. seq \in 0..SeqModulus-1
        BY <1>1, StackAssumption DEF FirmwareClient, NextSeq
    <2> QED
        BY <2>1, StackAssumption, ElementOfSeq, LenProperties DEF FwSubmit
<1>3. t \in Target /\ t.seq = seq
    BY <1>2 DEF Target
<1>4. targets' = Append(targets, t) /\ UNCHANGED <<completions, ctl>>
      /\ fw.up /\ fw' = [fw EXCEPT !.submitted = seq]
    BY DEF FwSubmit
<1>5. fw'.submitted = seq /\ fw'.up = fw.up /\ fw'.completed = fw.completed
    BY <1>1, <1>4 DEF FirmwareClient
<1>6. Seqs(targets') = Append(Seqs(targets), seq)
    BY <1>1, <1>3, <1>4, SeqsAppend
<1>7. World' = Append(World, seq)
    <2>1. Seqs(targets) \in Seq(Nat) /\ completions \o ctl.pending \in Seq(Nat)
          /\ World \in Seq(Nat)
        BY QueuesType DEF StackInv
    <2>2. <<seq>> \in Seq(Nat)
        BY <1>2
    <2>3. Append(Seqs(targets), seq) = Seqs(targets) \o <<seq>>
          /\ Append(World, seq) = World \o <<seq>>
        BY <1>2, <2>1, AppendNat
    <2>4. World' = (completions \o ctl.pending) \o (Seqs(targets) \o <<seq>>)
        BY <1>4, <1>6, <2>3 DEF World
    <2>5. Associates(completions \o ctl.pending, Seqs(targets), <<seq>>)
        BY <2>1, <2>2, ConcatNat, Zenon
    <2>6. World \o <<seq>> = (completions \o ctl.pending) \o (Seqs(targets) \o <<seq>>)
        BY <2>5, Zenon DEF World, Associates
    <2> QED
        BY <2>3, <2>4, <2>6, Zenon
<1> QED
    BY <1>4, <1>5, <1>7 DEF Contract!Submit, Contract!NextSeq, NextSeq

\* A report that arrives is the oldest number.
LEMMA CompleteImplements ==
    ASSUME StackInv, OnWorldComplete
    PROVE  Contract!Complete
<1> DEFINE h == Head(completions)
           r == Tail(completions)
<1>1. completions \in Seq(Nat) /\ ctl.pending \in Seq(Nat) /\ Seqs(targets) \in Seq(Nat)
      /\ completions # <<>>
    BY QueuesType DEF StackInv, OnWorldComplete
<1>2. h \in Nat /\ r \in Seq(Nat) /\ completions = <<h>> \o r
    BY <1>1
<1>3. <<h>> \in Seq(Nat) /\ r \o ctl.pending \in Seq(Nat)
      /\ (r \o ctl.pending) \o Seqs(targets) \in Seq(Nat)
    BY <1>1, <1>2, ConcatProperties
<1>4. World = <<h>> \o ((r \o ctl.pending) \o Seqs(targets))
    <2>1. Associates(<<h>>, r, ctl.pending)
        BY <1>1, <1>2, <1>3, ConcatNat, Zenon
    <2>2. Associates(<<h>>, r \o ctl.pending, Seqs(targets))
        BY <1>1, <1>3, ConcatNat, Zenon
    <2>3. completions \o ctl.pending = <<h>> \o (r \o ctl.pending)
        BY <1>2, <2>1, Zenon DEF Associates
    <2>4. World = (<<h>> \o (r \o ctl.pending)) \o Seqs(targets)
        BY <2>3, Zenon DEF World
    <2> QED
        BY <2>2, <2>4, Zenon DEF Associates
<1>5. completions' = r /\ UNCHANGED <<ctl, targets>>
      /\ fw' = IF fw.up THEN [fw EXCEPT !.completed = h] ELSE fw
    BY DEF OnWorldComplete
<1>6. World' = (r \o ctl.pending) \o Seqs(targets)
    BY <1>5 DEF World, Seqs
<1>7. World # <<>> /\ Head(World) = h /\ Tail(World) = World'
    BY <1>2, <1>3, <1>4, <1>6, OldestFirst
<1>8. fw'.up = fw.up /\ fw'.submitted = fw.submitted
      /\ fw'.completed = IF fw.up THEN h ELSE fw.completed
    BY <1>5 DEF StackInv, StackTypeOK, FirmwareClient
<1> QED
    BY <1>7, <1>8 DEF Contract!Complete

\* The controller takes a target, or completes one: its number moves to the next queue.
LEMMA TakeTargetMoves ==
    ASSUME StackInv, TakeTarget
    PROVE  World' = World
<1> DEFINE t == Head(targets)
<1>1. targets \in Seq(Target) /\ targets # <<>> /\ ctl \in Controller
    BY DEF StackInv, StackTypeOK, WorldMotionTypeOK, TakeTarget, MotionTarget
<1>2. t \in Target /\ Tail(targets) \in Seq(Target)
    BY <1>1, HeadTailProperties
<1>3. t.seq \in Nat
    BY <1>2 DEF Target
<1>4. ctl'.pending = Append(ctl.pending, t.seq) /\ targets' = Tail(targets)
      /\ completions' = completions
    BY <1>1 DEF TakeTarget, MotionTarget, Enqueued, Controller
<1>5. completions \in Seq(Nat) /\ ctl.pending \in Seq(Nat) /\ Seqs(Tail(targets)) \in Seq(Nat)
    BY <1>2, QueuesType, SeqsAppend DEF StackInv
<1>6. Append(ctl.pending, t.seq) \o Seqs(Tail(targets)) = ctl.pending \o Seqs(targets)
    <2>1. Seqs(targets) = <<t.seq>> \o Seqs(Tail(targets))
        BY <1>1, SeqsTail
    <2>2. Append(ctl.pending, t.seq) \o Seqs(Tail(targets))
              = ctl.pending \o (<<t.seq>> \o Seqs(Tail(targets)))
        BY <1>3, <1>5, MoveHead
    <2> QED
        BY <2>1, <2>2
<1>7. Append(ctl.pending, t.seq) \in Seq(Nat) /\ Seqs(targets) \in Seq(Nat)
    BY <1>3, <1>5, QueuesType DEF StackInv
<1>8. World = completions \o (ctl.pending \o Seqs(targets))
    <2>1. Associates(completions, ctl.pending, Seqs(targets))
        BY <1>5, <1>7, ConcatNat, Zenon
    <2> QED
        BY <2>1, Zenon DEF World, Associates
<1>9. World' = completions \o (Append(ctl.pending, t.seq) \o Seqs(Tail(targets)))
    <2>1. World' = (completions \o Append(ctl.pending, t.seq)) \o Seqs(Tail(targets))
        BY <1>4 DEF World, Seqs
    <2>2. Associates(completions, Append(ctl.pending, t.seq), Seqs(Tail(targets)))
        BY <1>5, <1>7, ConcatNat, Zenon
    <2> QED
        BY <2>1, <2>2, Zenon DEF Associates
<1> QED
    BY <1>6, <1>8, <1>9

LEMMA TakeErrorMoves ==
    ASSUME StackInv, TakeError
    PROVE  World' = World
<1> DEFINE p == ctl.pending
<1>1. ctl \in Controller /\ p \in Seq(Nat) /\ completions \in Seq(Nat)
      /\ Seqs(targets) \in Seq(Nat)
    BY QueuesType DEF StackInv, StackTypeOK, WorldMotionTypeOK
<1>2. CASE Completes(ctl, Head(errors))
    <2>1. p # <<>> /\ ctl.active = Head(p) /\ Head(p) \in Nat /\ Tail(p) \in Seq(Nat)
          /\ p = <<Head(p)>> \o Tail(p)
        BY <1>1, <1>2 DEF StackInv, QueueInv, ActiveIsOldest, Completes
    <2>2. ctl'.pending = Tail(p)
        BY <1>1, <1>2, <2>1
        DEF TakeError, ErrorReceived, Completed, CompletedDwelling, Controller
    <2>3. completions' = Append(completions, Head(p)) /\ targets' = targets
        BY <1>2, <2>1 DEF TakeError, ErrorReceived
    <2>4. Append(completions, Head(p)) \o Tail(p) = completions \o (<<Head(p)>> \o Tail(p))
        BY <1>1, <2>1, MoveHead
    <2>5. Append(completions, Head(p)) \o Tail(p) = completions \o p
        BY <2>1, <2>4
    <2> QED
        BY <2>2, <2>3, <2>5 DEF World, Seqs
<1>3. CASE ~Completes(ctl, Head(errors))
    <2>1. ctl'.pending = p /\ UNCHANGED <<completions, targets>>
        BY <1>1, <1>3 DEF TakeError, ErrorReceived, Controller
    <2> QED
        BY <2>1 DEF World, Seqs
<1> QED
    BY <1>2, <1>3

\* No other step of the stack moves a number from one queue to another.
LEMMA OthersKeepWorld ==
    ASSUME StackInv, [StackNext]_stackVars, ~FwSubmit, ~OnWorldComplete, ~FwBoot, ~FwCrash
    PROVE  World' = World /\ fw' = fw /\ restarts' = restarts
<1> DEFINE Quiet == UNCHANGED <<ctl.pending, targets, completions>>
<1>1. Quiet => World' = World
    BY DEF World, Seqs
<1>2. CASE TakeTarget \/ TakeError
    BY <1>2, TakeTargetMoves, TakeErrorMoves DEF TakeTarget, TakeError
<1>3. ctl \in Controller
    BY DEF StackInv, StackTypeOK, WorldMotionTypeOK
<1>4. CASE AimForTarget \/ Dwell \/ ReportTool \/ ReportError
    <2>1. Quiet /\ UNCHANGED <<fw, restarts>>
        BY <1>3, <1>4
        DEF AimForTarget, TargetReceived, Dwell, DwellElapses, ReportTool, ToolPose, ReportError,
            CoordinatorUpdate, Controller
    <2> QED
        BY <1>1, <2>1
<1>5. CASE (\E crosses \in BOOLEAN : BaseTick(crosses)) \/ BaseDrives \/ BaseTurns
           \/ UNCHANGED stackVars
    <2>1. Quiet /\ UNCHANGED <<fw, restarts>>
        BY <1>3, <1>5 DEF BaseTick, BaseDrives, BaseTurns, Odometry, ControllerOdom, Controller
    <2> QED
        BY <1>1, <2>1
<1> QED
    BY <1>2, <1>4, <1>5 DEF StackNext

LEMMA WorldStep ==
    ASSUME StackInv, [StackNext]_stackVars
    PROVE  [Contract!Next]_(Contract!vars)
<1>1. CASE FwSubmit
    BY <1>1, SubmitImplements DEF Contract!Next
<1>2. CASE OnWorldComplete
    BY <1>2, CompleteImplements DEF Contract!Next
<1>3. UNCHANGED <<ctl.pending, targets, completions>> => World' = World
    BY DEF World, Seqs
<1>4. CASE FwBoot
    <2>1. Contract!Boot
        BY <1>3, <1>4 DEF FwBoot, Contract!Boot, StackInv, StackTypeOK, FirmwareClient
    <2> QED
        BY <2>1 DEF Contract!Next
<1>5. CASE FwCrash
    <2>1. Contract!Crash
        BY <1>3, <1>5 DEF FwCrash, Contract!Crash
    <2> QED
        BY <2>1 DEF Contract!Next
<1>6. CASE ~FwSubmit /\ ~OnWorldComplete /\ ~FwBoot /\ ~FwCrash
    BY <1>6, OthersKeepWorld DEF Contract!vars
<1> QED
    BY <1>1, <1>2, <1>4, <1>5, <1>6

\* The stack implements the contract that the firmware relies on: every target is completed
\* once, in the order of submission, however often the firmware is killed and wherever the
\* base and the arm are.
THEOREM StackImplementsWorldQueue == StackSpec => ImplementsWorldQueue
BY StackInvariant, WorldInit, WorldStep, PTL DEF StackSpec, Contract!Spec, ImplementsWorldQueue
-----------------------------------------------------------------------------
(* The window *)

\* The n numbers after c.
NumbersAfter(c, n) == [i \in 1..n |-> c + i]

LEMMA NumbersGrow ==
    ASSUME NEW c \in Nat, NEW n \in Nat
    PROVE  Append(NumbersAfter(c, n), c + n + 1) = NumbersAfter(c, n + 1)
<1> DEFINE s == Append(NumbersAfter(c, n), c + n + 1)
<1>1. NumbersAfter(c, n) \in Seq(Nat) /\ Len(NumbersAfter(c, n)) = n
    BY DEF NumbersAfter
<1>2. s \in Seq(Nat) /\ Len(s) = n + 1
    BY <1>1, AppendProperties
<1>3. NumbersAfter(c, n + 1) \in Seq(Nat) /\ Len(NumbersAfter(c, n + 1)) = n + 1
    BY DEF NumbersAfter
<1>4. \A i \in 1..Len(s) : s[i] = NumbersAfter(c, n + 1)[i]
    BY <1>1, <1>2 DEF NumbersAfter
<1> HIDE DEF s
<1> QED
    BY <1>2, <1>3, <1>4, SeqEqual DEF s

LEMMA NumbersShrink ==
    ASSUME NEW c \in Nat, NEW n \in Nat, NumbersAfter(c, n) # <<>>
    PROVE  /\ n > 0
           /\ Head(NumbersAfter(c, n)) = c + 1
           /\ Tail(NumbersAfter(c, n)) = NumbersAfter(c + 1, n - 1)
<1> DEFINE t == Tail(NumbersAfter(c, n))
<1>1. NumbersAfter(c, n) \in Seq(Nat) /\ Len(NumbersAfter(c, n)) = n
    BY DEF NumbersAfter
<1>2. n > 0 /\ Head(NumbersAfter(c, n)) = c + 1
    BY <1>1 DEF NumbersAfter
<1>3. t \in Seq(Nat) /\ Len(t) = n - 1
    BY <1>1, <1>2, HeadTailProperties
<1>4. NumbersAfter(c + 1, n - 1) \in Seq(Nat) /\ Len(NumbersAfter(c + 1, n - 1)) = n - 1
    BY <1>2 DEF NumbersAfter
<1>5. \A i \in 1..Len(t) : t[i] = NumbersAfter(c + 1, n - 1)[i]
    BY <1>1, <1>2, <1>3 DEF NumbersAfter
<1> HIDE DEF t
<1> QED
    BY <1>2, <1>3, <1>4, <1>5, SeqEqual DEF t

\* While no firmware has been killed, the two counters say exactly which targets the stack
\* has not completed, and there are no more of them than the window has places.
WindowKept ==
    restarts = 0 =>
        /\ fw.submitted - fw.completed \in 0..StreamWindow
        /\ World = NumbersAfter(fw.completed, fw.submitted - fw.completed)
        /\ ~fw.up => fw.submitted = 0

LEMMA WindowSubmit ==
    ASSUME StackInv, WindowKept, FwSubmit
    PROVE  WindowKept'
<1> SUFFICES ASSUME restarts = 0 PROVE WindowKept'
    BY DEF FwSubmit, WindowKept
<1>1. fw \in FirmwareClient /\ StreamWindow \in Nat /\ SeqModulus \in Nat \ {0}
    BY StackAssumption DEF StackInv, StackTypeOK
<1>2. fw.submitted \in 0..(SeqModulus-1) /\ fw.completed \in Nat
    BY <1>1 DEF FirmwareClient
<1> DEFINE n == fw.submitted - fw.completed
<1>3. n \in 0..StreamWindow /\ World = NumbersAfter(fw.completed, n)
    BY DEF WindowKept
<1>4. n < StreamWindow
    <2>1. n \in 0..(SeqModulus-1)
        BY <1>1, <1>2, <1>3
    <2>2. n % SeqModulus = n
        BY <1>1, <2>1
    <2> QED
        BY <2>2 DEF FwSubmit, WindowOpen
<1>5. NextSeq(fw.submitted) = fw.submitted + 1
    <2>1. NextSeq(fw.submitted) # 0
        BY StackAssumption, LenProperties DEF FwSubmit
    <2> QED
        BY <2>1 DEF NextSeq
<1>6. /\ World' = Append(World, fw.submitted + 1)
      /\ fw'.submitted = fw.submitted + 1 /\ fw'.completed = fw.completed /\ fw'.up
    BY <1>5, SubmitImplements
    DEF Contract!Submit, Contract!NextSeq, NextSeq, FwSubmit
<1>7. n \in Nat /\ fw.submitted + 1 = fw.completed + n + 1
      /\ fw'.submitted - fw'.completed = n + 1 /\ n + 1 \in 0..StreamWindow
    BY <1>1, <1>2, <1>3, <1>4, <1>6
<1>8. World' = NumbersAfter(fw.completed, n + 1)
    <2> HIDE DEF n
    <2> QED
        BY <1>2, <1>3, <1>6, <1>7, NumbersGrow
<1> QED
    BY <1>6, <1>7, <1>8 DEF WindowKept

LEMMA WindowComplete ==
    ASSUME StackInv, WindowKept, OnWorldComplete
    PROVE  WindowKept'
<1> SUFFICES ASSUME restarts = 0 PROVE WindowKept'
    BY DEF OnWorldComplete, WindowKept
<1>1. fw \in FirmwareClient /\ StreamWindow \in Nat
    BY StackAssumption DEF StackInv, StackTypeOK
<1>2. fw.submitted \in Nat /\ fw.completed \in Nat
    BY <1>1 DEF FirmwareClient
<1> DEFINE n == fw.submitted - fw.completed
<1>3. n \in 0..StreamWindow /\ World = NumbersAfter(fw.completed, n)
      /\ (~fw.up => fw.submitted = 0)
    BY DEF WindowKept
<1>4. /\ World # <<>> /\ World' = Tail(World)
      /\ fw'.completed = IF fw.up THEN Head(World) ELSE fw.completed
      /\ fw'.up = fw.up /\ fw'.submitted = fw.submitted
    BY CompleteImplements DEF Contract!Complete
<1>5. /\ n \in Nat /\ n > 0 /\ Head(World) = fw.completed + 1
      /\ Tail(World) = NumbersAfter(fw.completed + 1, n - 1)
    <2>1. n \in Nat
        BY <1>1, <1>3
    <2> HIDE DEF n
    <2> QED
        BY <1>2, <1>3, <1>4, <2>1, NumbersShrink
<1>6. fw.up
    BY <1>2, <1>3, <1>5
<1>7. fw'.completed = fw.completed + 1
    BY <1>4, <1>5, <1>6
<1>8. fw'.submitted - fw'.completed = n - 1 /\ n - 1 \in 0..StreamWindow
    BY <1>1, <1>2, <1>3, <1>4, <1>5, <1>7
<1> QED
    BY <1>4, <1>5, <1>6, <1>7, <1>8 DEF WindowKept

\* Flow control from end to end: the unsigned difference that is_ready() tests is the number
\* of targets anywhere between the firmware and the tool, on their way to the controller,
\* pending in it, or reported and on their way back, and it never exceeds the window. It is
\* about a first process: the targets of a killed one are not in its counters.
THEOREM StackHoldsAWindow == StackSpec => []WindowKept
<1>1. StackInit => WindowKept
    <2> SUFFICES ASSUME StackInit PROVE WindowKept
        OBVIOUS
    <2>1. fw.submitted = 0 /\ fw.completed = 0 /\ World = <<>>
        BY WorldInit DEF StackInit, Contract!Init
    <2>2. NumbersAfter(0, 0) = <<>>
        BY DEF NumbersAfter
    <2> QED
        BY <2>1, <2>2, StackAssumption DEF WindowKept
<1>2. StackInv /\ WindowKept /\ [StackNext]_stackVars => WindowKept'
    <2> SUFFICES ASSUME StackInv, WindowKept, [StackNext]_stackVars PROVE WindowKept'
        OBVIOUS
    <2>1. CASE FwCrash
        <3>1. restarts' = restarts + 1 /\ restarts \in Nat
            BY <2>1, StackAssumption DEF FwCrash, StackInv, StackTypeOK
        <3> QED
            BY <3>1 DEF WindowKept
    <2>2. CASE FwBoot
        <3>1. fw \in FirmwareClient
            BY DEF StackInv, StackTypeOK
        <3>2. World' = World /\ restarts' = restarts
            BY <2>2 DEF FwBoot, World, Seqs
        <3>3. fw'.up /\ fw'.submitted = fw.submitted /\ fw'.completed = fw.completed
            BY <2>2, <3>1 DEF FwBoot, FirmwareClient
        <3> QED
            BY <3>2, <3>3 DEF WindowKept
    <2>3. CASE ~FwSubmit /\ ~OnWorldComplete /\ ~FwBoot /\ ~FwCrash
        BY <2>3, OthersKeepWorld DEF WindowKept
    <2> QED
        BY <2>1, <2>2, <2>3, WindowSubmit, WindowComplete
<1> QED
    BY <1>1, <1>2, StackInvariant, PTL DEF StackSpec
-----------------------------------------------------------------------------
(* The last target *)

\* The only target pending is never reported complete by an error of another one.
THEOREM LastTargetCompletedByItself == StackSpec => LastTargetByItsOwnError
<1> DEFINE Own == Len(ctl.pending) = 1 /\ ctl'.pending = <<>> => Head(errors).of = ctl.active
<1>1. StackInv /\ [StackNext]_stackVars => [Own]_stackVars
    <2> SUFFICES ASSUME StackInv, StackNext, Len(ctl.pending) = 1, ctl'.pending = <<>>
                 PROVE  Head(errors).of = ctl.active
        BY DEF stackVars
    <2>1. ctl \in Controller /\ ctl.pending \in Seq(Nat) /\ errors \in Seq(Error)
        BY DEF StackInv, StackTypeOK, WorldMotionTypeOK, Controller
    <2>2. ctl.pending # <<>>
        OBVIOUS
    <2>3. CASE TakeTarget
        <3>1. ctl'.pending = Append(ctl.pending, Head(targets).seq)
            BY <2>1, <2>3 DEF TakeTarget, MotionTarget, Enqueued, Controller
        <3>2. Head(targets).seq \in Nat
            <4>1. Head(targets) \in Target
                BY <2>3, HeadTailProperties
                DEF TakeTarget, MotionTarget, StackInv, StackTypeOK, WorldMotionTypeOK
            <4> QED
                BY <4>1 DEF Target
        <3>3. Append(ctl.pending, Head(targets).seq) # <<>>
            BY <2>1, <3>2
        <3> QED
            BY <3>1, <3>3
    <2>4. CASE TakeError
        <3>1. errors # <<>> /\ Completes(ctl, Head(errors))
            BY <2>1, <2>2, <2>4 DEF TakeError, ErrorReceived, Controller
        <3>2. Head(errors) = errors[1] /\ 1 \in DOMAIN errors
            BY <2>1, <3>1
        <3>3. Head(errors).of = coord.of /\ world_target = <<>>
            BY <3>1, <3>2 DEF Completes, StackInv, QueueInv, OwnErrors
        <3>4. ctl.pending[1] = coord.of /\ ctl.active = ctl.pending[1]
            BY <2>1, <2>2, <3>3 DEF StackInv, QueueInv, LastForwarded, ActiveIsOldest
        <3> QED
            BY <3>3, <3>4
    <2>5. ~TakeTarget /\ ~TakeError => ctl'.pending = ctl.pending
        BY <2>1
        DEF StackNext, FwSubmit, OnWorldComplete, FwBoot, FwCrash, AimForTarget, TargetReceived,
            Dwell, DwellElapses, ReportTool, ToolPose, ReportError, CoordinatorUpdate, BaseTick,
            BaseDrives, BaseTurns, Odometry, ControllerOdom, Controller
    <2> QED
        BY <2>2, <2>3, <2>4, <2>5
<1> QED
    BY <1>1, StackInvariant, PTL DEF StackSpec, LastTargetByItsOwnError

\* Something is active exactly while something is pending, and it is the oldest, although the
\* number is a copy that motionTargetCallback and errorCallback both write: no completion is
\* missed behind which the rest would wait.
THEOREM OldestPendingIsActive == StackSpec => []ActiveIsOldest
BY StackInvariant, PTL DEF StackInv, QueueInv
-----------------------------------------------------------------------------
(* The base *)

\* A base without a command was told to stand.
IdleStands == ~base.active => base.velocity = Standing

\* A command is let go only when both velocities are low, and then /cmd_vel is told zero.
LEMMA BaseUpdateStands ==
    ASSUME BaseTypeOK, IdleStands, NEW crosses \in BOOLEAN, BaseUpdate(crosses)
    PROVE  IdleStands'
<1> DEFINE started == BaseStarted(base)
           b == Executed(started, crosses)
<1>1. started \in Base /\ b \in Base
    BY BaseStartedType, ExecutedType DEF BaseTypeOK
<1>2. b.active = started.active
    BY <1>1 DEF Executed, Base
<1>3. CASE base' = base
    BY <1>3 DEF IdleStands
<1>4. CASE base' = [b EXCEPT !.active = FALSE, !.stopping = FALSE] /\ Done(b)
    <2>1. base'.velocity = b.velocity
        BY <1>1, <1>4 DEF Base
    <2> QED
        BY <2>1, <1>4 DEF Done, IdleStands
<1>5. CASE base' = b /\ started.active
    BY <1>2, <1>5 DEF IdleStands
<1> QED
    BY <1>3, <1>4, <1>5 DEF BaseUpdate

LEMMA IdleStandsStep ==
    ASSUME StackTypeOK, IdleStands, [StackNext]_stackVars
    PROVE  IdleStands'
<1>1. base \in Base
    BY DEF StackTypeOK, BaseTypeOK
<1>2. CASE \E crosses \in BOOLEAN : BaseTick(crosses)
    BY <1>2, BaseUpdateStands DEF BaseTick, StackTypeOK
<1>3. CASE TakeTarget \/ BaseDrives \/ BaseTurns
    <2>1. base'.active = base.active /\ base'.velocity = base.velocity
        BY <1>1, <1>3
        DEF TakeTarget, BaseCommanded, BaseDrives, BaseTurns, Odometry, BaseOdom, Base
    <2> QED
        BY <2>1 DEF IdleStands
<1>4. CASE base' = base
    BY <1>4 DEF IdleStands
<1> QED
    BY <1>2, <1>3, <1>4
    DEF StackNext, FwSubmit, OnWorldComplete, FwBoot, FwCrash, AimForTarget, TakeError, Dwell,
        ReportTool, ReportError

\* The robot drives and turns only while BaseMotionController carries out a command: it never
\* lets one go with the wheels still told to turn.
THEOREM BaseMovesForACommand == StackSpec => [][robot' # robot => base.active]_stackVars
<1>1. StackInit => IdleStands
    BY DEF StackInit, BaseInit, IdleStands
<1>2. StackTypeOK /\ IdleStands /\ [StackNext]_stackVars => IdleStands'
    BY IdleStandsStep
<1>3. StackTypeOK /\ IdleStands /\ [StackNext]_stackVars => [robot' # robot => base.active]_stackVars
    <2> SUFFICES ASSUME StackTypeOK, IdleStands, StackNext, robot' # robot PROVE base.active
        OBVIOUS
    <2>1. base.velocity.vx = 1 \/ base.velocity.wz = 1
        BY DEF StackNext, FwSubmit, OnWorldComplete, FwBoot, FwCrash, TakeTarget, AimForTarget,
               TakeError, Dwell, ReportTool, ReportError, BaseTick, BaseDrives, BaseTurns
    <2>2. base.active \in BOOLEAN
        BY DEF StackTypeOK, BaseTypeOK, Base
    <2> QED
        BY <2>1, <2>2 DEF IdleStands, Standing
<1> QED
    BY <1>1, <1>2, <1>3, StackTypeCorrect, PTL DEF StackSpec

\* The base sees where the robot is, in every callback of the odometry.
SeesRobot == base.x = robot.x /\ base.heading = robot.heading

\* stopping_ is set at the goal and stays: what the lag of the velocities carries the base past
\* the goal it may drive back and past it again, but one cell is all it is ever off.
StopsAtGoal == base.stopping \/ ~base.active => Abs(base.x - base.current.goal) <= 1

BaseInv == IdleStands /\ SeesRobot /\ StopsAtGoal

LEMMA StopsAtGoalTick ==
    ASSUME BaseTypeOK, StopsAtGoal, NEW crosses \in BOOLEAN, BaseUpdate(crosses)
    PROVE  StopsAtGoal' /\ base'.x = base.x /\ base'.heading = base.heading
<1> DEFINE started == BaseStarted(base)
           b == Executed(started, crosses)
<1>1. base \in Base /\ started \in Base /\ b \in Base
    BY BaseStartedType, ExecutedType DEF BaseTypeOK
<1>2. /\ b.x = started.x /\ b.heading = started.heading /\ b.current = started.current
      /\ b.active = started.active /\ b.stopping = (started.stopping \/ AtGoal(started))
    BY <1>1 DEF Executed, Base
<1>3. started.x = base.x /\ started.heading = base.heading
    BY <1>1 DEF BaseStarted, Base
<1>4. started.active /\ started.stopping =>
          Abs(started.x - started.current.goal) <= 1
    <2>1. CASE started = base
        BY <2>1 DEF StopsAtGoal
    <2>2. CASE started # base
        <3>1. ~started.stopping
            BY <1>1, <2>2 DEF BaseStarted, Base
        <3> QED
            BY <3>1
    <2> QED
        BY <2>1, <2>2
<1>5. AtGoal(started) => Abs(started.x - started.current.goal) <= 1
    BY <1>1 DEF AtGoal, Abs, Base, BaseCommand
<1> HIDE DEF started, b
<1>6. started.active /\ b.stopping => Abs(b.x - b.current.goal) <= 1
    BY <1>2, <1>4, <1>5
<1>7. CASE base' = base
    BY <1>7 DEF StopsAtGoal
<1>8. CASE started.active /\ base' = b
    BY <1>2, <1>3, <1>6, <1>8 DEF StopsAtGoal
<1>9. CASE started.active /\ Done(b) /\ base' = [b EXCEPT !.active = FALSE, !.stopping = FALSE]
    <2>1. base'.x = b.x /\ base'.heading = b.heading /\ base'.current = b.current
        BY <1>1, <1>9 DEF Base
    <2>2. b.stopping
        BY <1>9 DEF Done
    <2> QED
        BY <1>2, <1>3, <1>6, <1>9, <2>1, <2>2 DEF StopsAtGoal
<1> QED
    BY <1>7, <1>8, <1>9 DEF BaseUpdate, started, b

\* From the goal, or one cell before it, a cell ahead is one cell past the goal at most.
LEMMA DrivesNearGoal ==
    ASSUME NEW x \in Int, NEW g \in Int, NEW h \in {1, -1}, Abs(x - g) <= 1,
           x = g \/ (g - x) * h > 0
    PROVE  Abs(x + h - g) <= 1
<1>1. CASE h = 1
    <2>1. x = g \/ g - x > 0
        BY <1>1
    <2> QED
        BY <1>1, <2>1 DEF Abs
<1>2. CASE h = -1
    <2>1. x = g \/ g - x < 0
        BY <1>2
    <2> QED
        BY <1>2, <2>1 DEF Abs
<1> QED
    BY <1>1, <1>2

LEMMA StopsAtGoalDrives ==
    ASSUME StackTypeOK, BaseInv, BaseDrives
    PROVE  StopsAtGoal' /\ SeesRobot'
<1>1. base \in Base /\ robot \in Robot
    BY DEF StackTypeOK, BaseTypeOK
<1>2. robot' = [robot EXCEPT !.x = robot.x + robot.heading]
      /\ base' = [base EXCEPT !.x = robot'.x, !.heading = robot.heading]
    BY DEF BaseDrives, Odometry, BaseOdom
<1>3. robot'.x = robot.x + robot.heading /\ robot'.heading = robot.heading
    BY <1>1, <1>2 DEF Robot
<1>4. /\ base'.x = base.x + base.heading /\ base'.heading = base.heading
      /\ base'.current = base.current /\ base'.active = base.active
      /\ base'.stopping = base.stopping
    BY <1>1, <1>2, <1>3 DEF BaseInv, SeesRobot, Base
<1>5. SeesRobot'
    BY <1>1, <1>2, <1>3, <1>4 DEF SeesRobot, BaseInv, Base
<1>6. base.active
    BY <1>1 DEF BaseInv, IdleStands, BaseDrives, Standing, Base
<1>7. ASSUME base.stopping PROVE Abs(base.x + base.heading - base.current.goal) <= 1
    <2>1. base.x \in Int /\ base.current.goal \in Int /\ base.heading \in {1, -1}
        BY <1>1 DEF Base, BaseCommand
    <2>2. Abs(base.x - base.current.goal) <= 1
        BY <1>7 DEF BaseInv, StopsAtGoal
    <2>3. base.x = base.current.goal \/ (base.current.goal - base.x) * base.heading > 0
        BY DEF BaseDrives, AtGoal, FacesGoal
    <2> QED
        BY <2>1, <2>2, <2>3, DrivesNearGoal
<1>8. ASSUME base'.stopping \/ ~base'.active PROVE Abs(base'.x - base'.current.goal) <= 1
    <2>1. base.stopping
        BY <1>4, <1>6, <1>8, Zenon
    <2>2. Abs(base.x + base.heading - base.current.goal) <= 1
        BY <1>7, <2>1, Zenon
    <2>3. base'.x - base'.current.goal = base.x + base.heading - base.current.goal
        <3>1. base'.x = base.x + base.heading /\ base'.current = base.current
            BY <1>4, Zenon
        <3>2. base.x \in Int /\ base.heading \in Int /\ base.current.goal \in Int
            BY <1>1 DEF Base, BaseCommand
        <3> QED
            BY <3>1, <3>2
    <2> QED
        BY <2>2, <2>3 DEF Abs
<1> QED
    BY <1>5, <1>8, Zenon DEF StopsAtGoal

LEMMA BaseInvStep ==
    ASSUME StackTypeOK, BaseInv, [StackNext]_stackVars
    PROVE  BaseInv'
<1>1. base \in Base /\ robot \in Robot
    BY DEF StackTypeOK, BaseTypeOK
<1>2. IdleStands'
    BY IdleStandsStep DEF BaseInv
<1>3. CASE \E crosses \in BOOLEAN : BaseTick(crosses)
    BY <1>2, <1>3, StopsAtGoalTick DEF BaseTick, StackTypeOK, BaseInv, SeesRobot
<1>4. CASE BaseDrives
    BY <1>2, <1>4, StopsAtGoalDrives DEF BaseInv
<1>5. CASE BaseTurns
    <2>1. /\ robot'.x = robot.x
          /\ base' = [base EXCEPT !.x = robot.x, !.heading = robot'.heading]
        BY <1>1, <1>5 DEF BaseTurns, Odometry, BaseOdom, Robot
    <2>2. /\ base'.x = robot.x /\ base'.heading = robot'.heading
          /\ base'.current = base.current /\ base'.active = base.active
          /\ base'.stopping = base.stopping
        BY <1>1, <2>1 DEF Base
    <2> QED
        BY <1>2, <2>1, <2>2 DEF BaseInv, SeesRobot, StopsAtGoal
<1>6. CASE TakeTarget
    <2>1. UNCHANGED <<robot, base.x, base.heading, base.current, base.active, base.stopping>>
        BY <1>1, <1>6 DEF TakeTarget, BaseCommanded, Base
    <2> QED
        BY <1>2, <2>1 DEF BaseInv, SeesRobot, StopsAtGoal
<1>7. CASE UNCHANGED <<base, robot>>
    BY <1>2, <1>7 DEF BaseInv, SeesRobot, StopsAtGoal
<1> QED
    BY <1>3, <1>4, <1>5, <1>6, <1>7
    DEF StackNext, FwSubmit, OnWorldComplete, FwBoot, FwCrash, AimForTarget, TakeError, Dwell,
        ReportTool, ReportError
-----------------------------------------------------------------------------
(* Where the base is sent *)

\* A target of the program, and a command that sends the base to the work radius of one.
ProgramTarget == {t \in Target : t.seq \in DOMAIN Program /\ t.x = Program[t.seq]}
ProgramCommand ==
    {c \in BaseCommand :
        c.seq \in DOMAIN Program /\ Abs(c.goal - Program[c.seq]) = WorkRadius}

SentForTargets ==
    /\ targets \in Seq(ProgramTarget)
    /\ base.queue \in Seq(ProgramCommand)
    /\ base.current \in ProgramCommand \cup {NoBaseCommand}

LEMMA GoalsOfTarget ==
    ASSUME ctl \in Controller, NEW t \in ProgramTarget
    PROVE  BaseGoalsFor(t) \in Seq(ProgramCommand)
<1> DEFINE dx == t.x - ctl.base_x
           goal == t.x - WorkRadius * Sign(dx)
           command == [seq |-> t.seq, goal |-> goal]
<1>1. t \in Target /\ t.seq \in Nat /\ t.x \in Int /\ dx \in Int /\ WorkRadius \in Nat
      /\ t.seq \in DOMAIN Program /\ Program[t.seq] = t.x
    BY WorkRadiusAssumption DEF ProgramTarget, Target, Controller
<1>2. goal = t.x - WorkRadius \/ goal = t.x + WorkRadius
    BY <1>1 DEF Sign
<1>3. goal \in Int /\ Abs(goal - t.x) = WorkRadius
    <2> HIDE DEF goal
    <2> QED
        BY <1>1, <1>2 DEF Abs
<1> HIDE DEF goal
<1>4. command \in ProgramCommand
    BY <1>1, <1>3 DEF ProgramCommand, BaseCommand
<1>5. BaseGoalsFor(t) = <<command>> \/ BaseGoalsFor(t) = <<>>
    BY DEF BaseGoalsFor, goal
<1> HIDE DEF command
<1>6. <<command>> \in Seq(ProgramCommand) /\ <<>> \in Seq(ProgramCommand)
    BY <1>4
<1> QED
    BY <1>5, <1>6

LEMMA SentForTargetsStep ==
    ASSUME StackTypeOK, SentForTargets, [StackNext]_stackVars
    PROVE  SentForTargets'
<1>1. base \in Base /\ ctl \in Controller
    BY DEF StackTypeOK, BaseTypeOK, WorldMotionTypeOK
<1>2. CASE FwSubmit
    <2> DEFINE seq == NextSeq(fw.submitted)
               t == [seq |-> seq, x |-> Program[seq]]
    <2>1. seq \in Nat /\ Program[seq] \in Int /\ seq \in DOMAIN Program
        BY <1>2, StackAssumption, ElementOfSeq, LenProperties DEF FwSubmit
    <2>2. t \in ProgramTarget
        BY <2>1 DEF ProgramTarget, Target
    <2>3. targets' = Append(targets, t) /\ base' = base
        BY <1>2, Zenon DEF FwSubmit
    <2> HIDE DEF t
    <2> QED
        BY <2>2, <2>3, AppendProperties DEF SentForTargets
<1>3. CASE TakeTarget
    <2>1. Head(targets) \in ProgramTarget /\ targets' \in Seq(ProgramTarget)
        BY <1>3, HeadTailProperties DEF TakeTarget, MotionTarget, SentForTargets
    <2>2. BaseGoalsFor(Head(targets)) \in Seq(ProgramCommand)
        BY <1>1, <2>1, GoalsOfTarget
    <2>3. base'.queue = base.queue \o BaseGoalsFor(Head(targets)) /\ base'.current = base.current
        BY <1>1, <1>3 DEF TakeTarget, BaseCommanded, Base
    <2>4. base'.queue \in Seq(ProgramCommand)
        BY <2>2, <2>3, ConcatProperties DEF SentForTargets
    <2> QED
        BY <2>1, <2>3, <2>4 DEF SentForTargets
<1>4. CASE \E crosses \in BOOLEAN : BaseTick(crosses)
    <2>1. PICK crosses \in BOOLEAN : BaseTick(crosses)
        BY <1>4
    <2> DEFINE started == BaseStarted(base)
               b == Executed(started, crosses)
    <2>2. started \in Base /\ b \in Base
        BY <1>1, BaseStartedType, ExecutedType
    <2>3. started.queue \in Seq(ProgramCommand)
          /\ started.current \in ProgramCommand \cup {NoBaseCommand}
        <3>1. CASE started = base
            BY <3>1 DEF SentForTargets
        <3>2. CASE started # base
            <4>1. /\ base.queue # <<>> /\ started.queue = Tail(base.queue)
                  /\ started.current = Head(base.queue)
                BY <1>1, <3>2 DEF BaseStarted, Base
            <4> QED
                BY <4>1, HeadTailProperties DEF SentForTargets
        <3> QED
            BY <3>1, <3>2
    <2>4. b.queue = started.queue /\ b.current = started.current
        BY <2>2 DEF Executed, Base
    <2>5. base' \in {base, b, [b EXCEPT !.active = FALSE, !.stopping = FALSE]}
          /\ targets' = targets
        BY <2>1 DEF BaseTick, BaseUpdate
    <2> HIDE DEF started, b
    <2>6. base' = base \/ (base'.queue = b.queue /\ base'.current = b.current)
        BY <2>2, <2>5 DEF Base
    <2> QED
        BY <2>3, <2>4, <2>5, <2>6 DEF SentForTargets
<1>5. CASE BaseDrives \/ BaseTurns
    <2>1. base'.queue = base.queue /\ base'.current = base.current /\ targets' = targets
        BY <1>1, <1>5 DEF BaseDrives, BaseTurns, Odometry, BaseOdom, Base
    <2> QED
        BY <2>1 DEF SentForTargets
<1>6. CASE UNCHANGED <<base, targets>>
    BY <1>6 DEF SentForTargets
<1> QED
    BY <1>2, <1>3, <1>4, <1>5, <1>6
    DEF StackNext, OnWorldComplete, FwBoot, FwCrash, AimForTarget, TargetReceived, TakeError,
        ErrorReceived, Dwell, DwellElapses, ReportTool, ToolPose, ReportError, CoordinatorUpdate

\* A base that has carried out a command stands one cell at most off the work radius of the
\* target the command was sent for.
BaseStandsAtWorkRadius ==
    ~base.active /\ base.current # NoBaseCommand =>
        Abs(robot.x - Program[base.current.seq]) \in WorkRadius - 1 .. WorkRadius + 1

\* Commands are never cancelled and their goals were computed from older positions; the test
\* that ends one looks at the velocities and not at the position. Still a base that has no
\* command stands where the last one was to bring it, over any queue of commands and any
\* number of times it overran its goal, turned and came back.
THEOREM BaseEndsNearTarget == StackSpec => []BaseStandsAtWorkRadius
<1> DEFINE I == StackTypeOK /\ BaseInv /\ SentForTargets
<1>1. StackInit => I
    <2> SUFFICES ASSUME StackInit PROVE I
        OBVIOUS
    <2>1. BaseInv
        BY DEF StackInit, BaseInit, BaseInv, IdleStands, SeesRobot, StopsAtGoal, NoBaseCommand,
               Abs
    <2>2. SentForTargets
        BY DEF StackInit, WorldMotionInit, BaseInit, SentForTargets
    <2> QED
        BY <2>1, <2>2, TypeInit
<1>2. I /\ [StackNext]_stackVars => I'
    BY TypeStep, BaseInvStep, SentForTargetsStep
<1>3. I => BaseStandsAtWorkRadius
    <2> SUFFICES ASSUME I, ~base.active, base.current # NoBaseCommand
                 PROVE  Abs(robot.x - Program[base.current.seq])
                            \in WorkRadius - 1 .. WorkRadius + 1
        BY DEF BaseStandsAtWorkRadius
    <2> DEFINE x == robot.x
               g == base.current.goal
               p == Program[base.current.seq]
    <2>1. Abs(x - g) <= 1
        BY DEF BaseInv, StopsAtGoal, SeesRobot
    <2>2. base.current \in ProgramCommand
        BY DEF SentForTargets
    <2>3. Abs(g - p) = WorkRadius /\ g \in Int /\ base.current.seq \in DOMAIN Program
        BY <2>2 DEF ProgramCommand, BaseCommand
    <2>4. x \in Int /\ p \in Int /\ WorkRadius \in Nat
        BY <2>3, StackAssumption, WorkRadiusAssumption, ElementOfSeq, LenProperties
        DEF StackTypeOK, Robot
    <2> HIDE DEF x, g, p
    <2>5. Abs(x - p) \in WorkRadius - 1 .. WorkRadius + 1
        BY <2>1, <2>3, <2>4 DEF Abs
    <2> QED
        BY <2>5 DEF x, p
<1> QED
    BY <1>1, <1>2, <1>3, PTL DEF StackSpec
=============================================================================
