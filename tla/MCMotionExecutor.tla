-------------------------- MODULE MCMotionExecutor --------------------------
(* The instance of MotionExecutor for TLC. *)
EXTENDS MotionExecutor

CONSTANTS mast, wheel      \* wheel is a name the configuration does not have

Positions == [j \in {mast} |-> 0..3]

\* An odd distance at two steps at a time; beyond the limit; a name that is not configured.
TestShapes ==
    {[joint |-> mast, target |-> 3, speed |-> 2],
     [joint |-> mast, target |-> 5, speed |-> 1],
     [joint |-> wheel, target |-> 1, speed |-> 1]}
=============================================================================
