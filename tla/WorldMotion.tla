----------------------------- MODULE WorldMotion -----------------------------
(***************************************************************************)
(* The world motion controller (world_motion_controller.cpp), which takes   *)
(* the firmware's targets and reports each one complete, and the two nodes  *)
(* that tell it how far the tool is from the target: the world motion       *)
(* coordinator and the world pose coordinator. Each node has one thread, so *)
(* a callback is one step; topics are queues between them.                  *)
(*                                                                         *)
(* The workspace is a line of cells: a target, the base and the tool are    *)
(* each at a cell. An error is within the threshold (0.10 m) when tool and  *)
(* target are at the same cell. Height and orientation are left out.        *)
(***************************************************************************)
EXTENDS Integers, Sequences

CONSTANTS
    WorkRadius,     \* WORK_RADIUS, in cells: farther targets send the base nearer
    MaxErrors       \* bound: errors on their way at once; the topic's depth is 10

ASSUME WorkRadiusAssumption == WorkRadius \in Nat
ASSUME MaxErrorsAssumption == MaxErrors \in Nat \ {0}

VARIABLES
    ctl,            \* the state of WorldMotionController
    coord,          \* the state of WorldMotionCoordinator
    targets,        \* /sim/motion/target, firmware to controller
    world_target,   \* /world_tool_target, controller to coordinator and arm
    errors,         \* /world_tool_error, coordinator to controller and arm
    completions     \* /firmware/world_motion_complete, controller to firmware

worldMotionVars == <<ctl, coord, targets, world_target, errors, completions>>

Target == [seq : Nat, x : Int]

\* An error carries, for the properties only, the number of the target it was computed from.
Error == [inside : BOOLEAN, of : Nat]

\* dwell: within_threshold_ and the time since within_threshold_start_; "due" is 0.5 s or more.
Controller ==
    [pending : Seq(Nat), active : Nat, target_active : BOOLEAN, dwell : {"out", "in", "due"},
     tool_pose_received : BOOLEAN, base_x : Int]

Coordinator ==
    [pose : Int, pose_received : BOOLEAN, target : Int, target_received : BOOLEAN, of : Nat]

Abs(n) == IF n < 0 THEN -n ELSE n
Sign(n) == IF n < 0 THEN -1 ELSE 1

\* odomCallback of the controller.
ControllerOdom(c, x) == [c EXCEPT !.base_x = x]

WorldMotionInit ==
    /\ ctl = [pending |-> <<>>, active |-> 0, target_active |-> FALSE, dwell |-> "out",
              tool_pose_received |-> FALSE, base_x |-> 0]
    /\ coord = [pose |-> 0, pose_received |-> FALSE, target |-> 0, target_received |-> FALSE,
                of |-> 0]
    /\ targets = <<>>
    /\ world_target = <<>>
    /\ errors = <<>>
    /\ completions = <<>>
-----------------------------------------------------------------------------
(* The controller *)

\* A new target waits behind the pending ones. The active one is the oldest.
EnqueuedAsActive(c, seq) ==
    [c EXCEPT !.pending = Append(@, seq), !.active = seq, !.target_active = TRUE]
Enqueued(c, seq) ==
    [c EXCEPT !.pending = Append(@, seq),
              !.active = IF c.target_active THEN @ ELSE Head(Append(c.pending, seq)),
              !.target_active = TRUE]

\* The base is sent to the point at WorkRadius of the target, on the base's side of it. The
\* test needs a tool pose, though it is of the base; base_x_ is 0 before the first odometry.
BaseGoalsFor(t) ==
    LET dx == t.x - ctl.base_x
    IN  IF ctl.tool_pose_received /\ Abs(dx) > WorkRadius
        THEN <<[seq |-> t.seq, goal |-> t.x - WorkRadius * Sign(dx)]>>
        ELSE <<>>

\* motionTargetCallback. The target goes on to the coordinator at once, also when it has to
\* wait here: the stack always heads for the last target it was given.
MotionTarget ==
    /\ targets # <<>>
    /\ targets' = Tail(targets)
    /\ ctl' = Enqueued(ctl, Head(targets).seq)
    /\ world_target' = Append(world_target, Head(targets))
    /\ UNCHANGED <<coord, errors, completions>>

CompletedOnly(c) ==
    [c EXCEPT !.pending = IF @ # <<>> THEN Tail(@) ELSE @, !.target_active = FALSE]

\* The active target is complete; the next one becomes active, if there is one.
CompletedDwelling(c) ==
    LET rest == IF c.pending # <<>> THEN Tail(c.pending) ELSE c.pending
    IN  [c EXCEPT !.pending = rest,
                  !.active = IF rest # <<>> THEN Head(rest) ELSE @,
                  !.target_active = rest # <<>>]
Completed(c) == [CompletedDwelling(c) EXCEPT !.dwell = "out"]

\* errorCallback, as the controller sees the error e.
DwellAfter(c, e) == IF ~e.inside THEN "out" ELSE IF c.dwell = "out" THEN "in" ELSE c.dwell
Completes(c, e) == c.target_active /\ e.inside /\ c.dwell = "due"

ErrorReceived ==
    /\ errors # <<>>
    /\ errors' = Tail(errors)
    /\ LET e == Head(errors)
       IN  IF Completes(ctl, e)
           THEN ctl' = Completed(ctl) /\ completions' = Append(completions, ctl.active)
           ELSE /\ ctl' = IF ctl.target_active
                          THEN [ctl EXCEPT !.dwell = DwellAfter(ctl, e)] ELSE ctl
                /\ UNCHANGED completions
    /\ UNCHANGED <<coord, targets, world_target>>

\* 0.5 s have passed since the error that started the dwell. Every message sent before that
\* has been delivered by then: the topics are local and the coordinator publishes every 0.1 s.
DwellElapses ==
    /\ ctl.dwell = "in"
    /\ world_target = <<>>
    /\ errors = <<>>
    /\ ctl' = [ctl EXCEPT !.dwell = "due"]
    /\ UNCHANGED <<coord, targets, world_target, errors, completions>>
-----------------------------------------------------------------------------
(* The coordinators *)

\* WorldPoseCoordinator::update publishes where the tool is; both subscribers take it.
ToolPose(x) ==
    /\ coord' = [coord EXCEPT !.pose = x, !.pose_received = TRUE]
    /\ ctl' = [ctl EXCEPT !.tool_pose_received = TRUE]
    /\ UNCHANGED <<targets, world_target, errors, completions>>

\* target_callback: a new target replaces the one before.
TargetReceived ==
    /\ world_target # <<>>
    /\ world_target' = Tail(world_target)
    /\ coord' = [coord EXCEPT !.target = Head(world_target).x, !.target_received = TRUE,
                              !.of = Head(world_target).seq]
    /\ UNCHANGED <<ctl, targets, errors, completions>>

\* update(), every 100 ms.
CoordinatorUpdate ==
    /\ coord.pose_received
    /\ coord.target_received
    /\ Len(errors) < MaxErrors
    /\ errors' = Append(errors, [inside |-> coord.target = coord.pose, of |-> coord.of])
    /\ UNCHANGED <<ctl, coord, targets, world_target, completions>>
-----------------------------------------------------------------------------
WorldMotionTypeOK ==
    /\ ctl \in Controller
    /\ coord \in Coordinator
    /\ targets \in Seq(Target)
    /\ world_target \in Seq(Target)
    /\ errors \in Seq(Error)
    /\ completions \in Seq(Nat)
=============================================================================
