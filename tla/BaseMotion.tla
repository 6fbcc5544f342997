------------------------------ MODULE BaseMotion ------------------------------
(***************************************************************************)
(* The base motion controller (base_motion_controller.cpp): a queue of      *)
(* commands, each a point to drive to, carried out one after the other by a *)
(* 20 ms timer that smooths two velocities towards their targets.           *)
(*                                                                         *)
(* On the line of cells a heading is right (1) or left (-1). A velocity is  *)
(* 1 if it is at least 0.05, the threshold of the stop test, and 0 below.   *)
(* The base is at its goal (within 0.05 m) when it is at the goal's cell.   *)
(* The velocities of a command, its angle and the elapsed time are left     *)
(* out: they are overwritten or never read. So are the results, of which    *)
(* the one subscriber keeps a flag nobody reads, and the published state.   *)
(***************************************************************************)
EXTENDS Integers, Sequences

VARIABLE base    \* the state of BaseMotionController

BaseCommand == [seq : Nat, goal : Int]
NoBaseCommand == [seq |-> 0, goal |-> 0]
Velocity == [vx : {0, 1}, wz : {0, 1}]
Standing == [vx |-> 0, wz |-> 0]

\* velocity: current_vx_, current_wz_, which is also what /cmd_vel was last told.
\* x, heading: the last odometry.
Base ==
    [queue : Seq(BaseCommand), active : BOOLEAN, current : BaseCommand, stopping : BOOLEAN,
     velocity : Velocity, x : Int, heading : {1, -1}]

BaseInit ==
    base = [queue |-> <<>>, active |-> FALSE, current |-> NoBaseCommand, stopping |-> FALSE,
            velocity |-> Standing, x |-> 0, heading |-> 1]

\* command_callback: a command only waits; nothing cancels the ones before it.
BaseCommanded(b, commands) == [b EXCEPT !.queue = @ \o commands]

\* odom_callback.
BaseOdom(b, x, heading) == [b EXCEPT !.x = x, !.heading = heading]

\* The first part of update(). The velocities of the previous command are kept.
BaseStarted(b) ==
    IF ~b.active /\ b.queue # <<>>
    THEN [b EXCEPT !.queue = Tail(@), !.current = Head(b.queue), !.active = TRUE,
                   !.stopping = FALSE]
    ELSE b

AtGoal(b) == b.x = b.current.goal
FacesGoal(b) == (b.current.goal - b.x) * b.heading > 0

TargetVelocityAhead(b) ==
    IF AtGoal(b) \/ ~FacesGoal(b) THEN Standing ELSE [vx |-> 1, wz |-> 0]

\* Away from the goal the base turns until it faces it, and then drives. This overrides the
\* zeroes that stopping_ asks for.
TargetVelocity(b) ==
    IF AtGoal(b) THEN Standing
    ELSE IF FacesGoal(b) THEN [vx |-> 1, wz |-> 0] ELSE [vx |-> 0, wz |-> 1]

\* A tick moves the velocities by 3 % of the difference: they may or may not cross 0.05. That
\* the two cross it at different ticks is left out.
Smoothed(b, crosses) == IF crosses THEN TargetVelocity(b) ELSE b.velocity

\* Once at the goal the base is stopping, for good; it is done at the first tick at which
\* both velocities are low, wherever it is then.
Executed(b, crosses) ==
    [b EXCEPT !.velocity = Smoothed(b, crosses), !.stopping = @ \/ AtGoal(b)]
Done(b) == b.stopping /\ b.velocity = Standing

\* update, with execute_active.
BaseUpdate(crosses) ==
    LET started == BaseStarted(base)
        b == Executed(started, crosses)
    IN  base' = IF ~started.active THEN base
                ELSE IF Done(b) THEN [b EXCEPT !.active = FALSE, !.stopping = FALSE]
                ELSE b

BaseIdle == ~base.active /\ base.queue = <<>>

BaseTypeOK == base \in Base
=============================================================================
