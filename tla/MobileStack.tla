----------------------------- MODULE MobileStack -----------------------------
(***************************************************************************)
(* The mobile robot as full_sim.launch.py starts it, between the firmware    *)
(* and the wheels: the firmware's targets go to the world motion controller, *)
(* which sends the base near them and the arm and the coordinators after     *)
(* them, and tells the firmware when the tool has arrived.                   *)
(*                                                                         *)
(* The firmware is reduced to its two counters (Firmware models it whole);   *)
(* WorldQueue is what the two promise each other. The simulated robot is     *)
(* the plant: a base and an arm.                                             *)
(*                                                                         *)
(* A topic that several nodes listen to is delivered to them in one step: a  *)
(* delivery takes less than a millisecond, and the timers that act on it run  *)
(* every 20 ms to 100 ms.                                                   *)
(***************************************************************************)
EXTENDS WorldMotion, BaseMotion, ArmControl

CONSTANTS
    StreamWindow,   \* STREAM_WINDOW of the firmware
    SeqModulus,     \* 2^32, the range of the sequence numbers
    Program,        \* the cells of the program's targets, in order
    MaxTargets,     \* bound: targets the firmware submits
    MaxRestarts     \* bound: times the firmware is killed

ASSUME StackAssumption ==
    /\ {StreamWindow, SeqModulus} \subseteq Nat \ {0}
    /\ Program \in Seq(Int)
    /\ {MaxTargets, MaxRestarts} \subseteq Nat

VARIABLES
    fw,         \* the firmware: whether it runs, last_submitted_seq_, last_completed_seq_
    sent, restarts,   \* counters of the two bounds
    robot       \* the plant: where the base is and how it is turned

boundVars == <<sent, restarts>>
stackVars == <<worldMotionVars, base, arm, fw, boundVars, robot>>

FirmwareClient == [up : BOOLEAN, submitted : 0..SeqModulus-1, completed : Nat]
Robot == [x : Int, heading : {1, -1}]

\* The arm follows its command at once: a lag would look like a late tool pose.
Tool == robot.x + robot.heading * arm.command.dir * arm.command.ext

StackInit ==
    /\ WorldMotionInit
    /\ BaseInit
    /\ ArmInit
    /\ fw = [up |-> FALSE, submitted |-> 0, completed |-> 0]
    /\ sent = 0 /\ restarts = 0
    /\ robot = [x |-> 0, heading |-> 1]
-----------------------------------------------------------------------------
(* The firmware, as the stack sees it *)

\* is_ready() and submit(): the window is measured with an unsigned difference.
WindowOpen == (fw.submitted - fw.completed) % SeqModulus < StreamWindow

NextSeq(n) == IF n + 1 < SeqModulus THEN n + 1 ELSE 0

FwSubmit ==
    /\ fw.up
    /\ WindowOpen
    /\ sent < MaxTargets
    /\ sent' = sent + 1
    /\ LET seq == NextSeq(fw.submitted)
       IN  /\ seq \in DOMAIN Program
           /\ fw' = [fw EXCEPT !.submitted = seq]
           /\ targets' = Append(targets, [seq |-> seq, x |-> Program[seq]])
    /\ UNCHANGED <<ctl, coord, world_target, errors, completions, base, arm, restarts, robot>>

\* on_world_complete stores the number, whatever it is.
OnWorldComplete ==
    /\ completions # <<>>
    /\ completions' = Tail(completions)
    /\ fw' = IF fw.up THEN [fw EXCEPT !.completed = Head(completions)] ELSE fw
    /\ UNCHANGED <<ctl, coord, targets, world_target, errors, base, arm, boundVars, robot>>

FwBoot ==
    /\ ~fw.up
    /\ fw' = [fw EXCEPT !.up = TRUE]
    /\ UNCHANGED <<worldMotionVars, base, arm, boundVars, robot>>

\* The stack goes on with the targets of the process that was killed.
FwCrash ==
    /\ fw.up
    /\ restarts < MaxRestarts
    /\ restarts' = restarts + 1
    /\ fw' = [up |-> FALSE, submitted |-> 0, completed |-> 0]
    /\ UNCHANGED <<worldMotionVars, base, arm, sent, robot>>
-----------------------------------------------------------------------------
(* The nodes *)

\* /base/motion_command reaches the base.
TakeTarget ==
    /\ MotionTarget
    /\ base' = BaseCommanded(base, BaseGoalsFor(Head(targets)))
    /\ UNCHANGED <<arm, fw, boundVars, robot>>

\* /world_tool_target reaches the coordinator and the arm.
AimForTarget ==
    /\ TargetReceived
    /\ arm' = ArmTarget(arm, Head(world_target).x)
    /\ UNCHANGED <<base, fw, boundVars, robot>>

\* /world_tool_error reaches the controller and the arm.
TakeError ==
    /\ ErrorReceived
    /\ arm' = ArmError(arm)
    /\ UNCHANGED <<base, fw, boundVars, robot>>

Dwell == DwellElapses /\ UNCHANGED <<base, arm, fw, boundVars, robot>>

ReportTool == ToolPose(Tool) /\ UNCHANGED <<base, arm, fw, boundVars, robot>>

ReportError == CoordinatorUpdate /\ UNCHANGED <<base, arm, fw, boundVars, robot>>

BaseTick(crosses) ==
    BaseUpdate(crosses) /\ UNCHANGED <<worldMotionVars, arm, fw, boundVars, robot>>
-----------------------------------------------------------------------------
(* The plant, which reports its odometry 50 times a second: no cell is passed unreported *)

\* /odom reaches the base, the controller and the arm.
Odometry(x, heading) ==
    /\ base' = BaseOdom(base, x, heading)
    /\ ctl' = ControllerOdom(ctl, x)
    /\ arm' = ArmOdom(arm, x)
    /\ UNCHANGED <<coord, targets, world_target, errors, completions, fw, boundVars>>

\* The lag of the velocities may carry the base one cell past its goal, no farther, and does
\* not turn it away from where it was turning to.
BaseDrives ==
    /\ base.velocity.vx = 1
    /\ AtGoal(base) \/ FacesGoal(base)
    /\ robot' = [robot EXCEPT !.x = @ + robot.heading]
    /\ Odometry(robot'.x, robot.heading)

BaseTurns ==
    /\ base.velocity.wz = 1
    /\ ~AtGoal(base) /\ ~FacesGoal(base)
    /\ robot' = [robot EXCEPT !.heading = -@]
    /\ Odometry(robot.x, robot'.heading)
-----------------------------------------------------------------------------
StackNext ==
    \/ FwSubmit \/ OnWorldComplete \/ FwBoot \/ FwCrash
    \/ TakeTarget \/ AimForTarget \/ TakeError \/ Dwell \/ ReportTool \/ ReportError
    \/ (\E crosses \in BOOLEAN : BaseTick(crosses))
    \/ BaseDrives \/ BaseTurns

\* Every callback and timer runs, and the plant obeys. The dwell ends although errors keep
\* coming: between two of them, 100 ms apart, nothing is on its way. The base settles at its
\* goal: with a gain of 0.8 and a lag of 0.66 s the loop is damped.
StackFairness ==
    /\ WF_stackVars(OnWorldComplete) /\ WF_stackVars(FwBoot)
    /\ WF_stackVars(TakeTarget) /\ WF_stackVars(AimForTarget) /\ WF_stackVars(TakeError)
    /\ SF_stackVars(Dwell) /\ WF_stackVars(ReportTool) /\ WF_stackVars(ReportError)
    /\ WF_stackVars(BaseTick(TRUE))
    /\ SF_stackVars(base.active /\ AtGoal(base) /\ BaseTick(TRUE))
    /\ WF_stackVars(BaseDrives) /\ WF_stackVars(BaseTurns)

StackSpec == StackInit /\ [][StackNext]_stackVars
FairStackSpec == StackSpec /\ StackFairness
-----------------------------------------------------------------------------
(* Properties *)

\* Every variable of the stack has its type; the arm is never told to extend beyond its limits.
StackTypeOK ==
    /\ WorldMotionTypeOK
    /\ BaseTypeOK
    /\ ArmTypeOK
    /\ fw \in FirmwareClient
    /\ sent \in 0..MaxTargets /\ restarts \in 0..MaxRestarts
    /\ robot \in Robot

\* What the stack has not completed, oldest first: reports on their way, pending, on their way.
Seqs(ts) == [i \in DOMAIN ts |-> ts[i].seq]
World == completions \o ctl.pending \o Seqs(targets)

Contract == INSTANCE WorldQueue
    WITH up <- fw.up, submitted <- fw.submitted, completed <- fw.completed, world <- World

\* The stack keeps its promise to the firmware: it completes the targets in the order in which
\* they were submitted, each once, none unasked, over any number of kills of the firmware; the
\* active target, a copy of a number, is always the oldest pending one.
ImplementsWorldQueue == Contract!Spec

\* A target that is the only one pending is reported complete by an error that was computed
\* from it: neither an old error in the topic nor the dwell of the target before completes it.
LastTargetByItsOwnError ==
    [][Len(ctl.pending) = 1 /\ ctl'.pending = <<>> => Head(errors).of = ctl.active]_stackVars

\* The base carries out every command it is sent: it reaches the goal, settles and is idle.
BaseCommandsFinish == []<>BaseIdle

\* The last target given to the arm can be reached from where the base is, facing forward.
InReach ==
    /\ robot.heading = 1
    /\ arm.target_received
    /\ Abs(arm.target - robot.x) \in ReachMin..ReachMax

\* If the base comes to a place from which the last target stays in reach, everything that was
\* submitted is reported complete in the end.
ReachedTargetsComplete == <>[]InReach => []<>(World = <<>>)
=============================================================================
