------------------------------ MODULE ArmControl ------------------------------
(***************************************************************************)
(* The physical compensation controller (physical_compensation_controller   *)
(* .cpp), which moves the arm: a 50 ms timer aims it at the last target as   *)
(* seen from the last odometry, and each error that arrives, ten a second,   *)
(* sends the aim to the joints. The timer has run by then: an error that     *)
(* comes before it sends the aim before, and the next error replaces that.   *)
(*                                                                         *)
(* On the line of cells the arm points forward (1) or backward (-1) of the   *)
(* base and extends over a number of cells between ReachMin and ReachMax:    *)
(* the tool is 1.90 m in front of the arm's axis, the carriage moves it by   *)
(* at most 1 m either way. The correction, at most 0.05 m, is below a cell.  *)
(* The results of the base set a flag nobody reads.                         *)
(***************************************************************************)
EXTENDS Integers

CONSTANTS ReachMin, ReachMax    \* the shortest and the longest extension, in cells

ASSUME ReachAssumption == ReachMin \in Nat /\ ReachMax \in Nat /\ ReachMin <= ReachMax

VARIABLE arm    \* the state of PhysicalCompensationController, and its last command

Aim == [dir : {1, -1}, ext : ReachMin..ReachMax]
Neutral == [dir |-> 1, ext |-> (ReachMin + ReachMax) \div 2]

Arm == [target : Int, target_received : BOOLEAN, base_x : Int, command : Aim]

ArmInit ==
    arm = [target |-> 0, target_received |-> FALSE, base_x |-> 0, command |-> Neutral]

Clamp(n, lo, hi) == IF n < lo THEN lo ELSE IF n > hi THEN hi ELSE n

\* target_callback, odom_callback.
ArmTarget(a, x) == [a EXCEPT !.target = x, !.target_received = TRUE]
ArmOdom(a, x) == [a EXCEPT !.base_x = x]

AimUnlimited(target, x) ==
    LET dx == target - x
    IN  [dir |-> IF dx < 0 THEN -1 ELSE 1, ext |-> IF dx < 0 THEN -dx ELSE dx]

\* The bearing is that of the target in the world: the heading of the base is not known here.
AimAt(target, x) ==
    LET dx == target - x
    IN  [dir |-> IF dx < 0 THEN -1 ELSE 1,
         ext |-> Clamp(IF dx < 0 THEN -dx ELSE dx, ReachMin, ReachMax)]

\* error_callback, with what update() has aimed at. Without a target it aims at nothing.
ArmError(a) == IF a.target_received THEN [a EXCEPT !.command = AimAt(a.target, a.base_x)] ELSE a

ArmTypeOK == arm \in Arm
=============================================================================
