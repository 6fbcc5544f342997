---------------------------- MODULE MotionExecutor ----------------------------
(***************************************************************************)
(* The motion executor (motion_executor.cpp): a queue of segments, a control *)
(* loop that steps the joints to the target of the active one, and the ways   *)
(* to stop: emergency stop, abort, a soft limit, a joint that may not move.   *)
(* With it the motion result adapter, which turns the statuses of the         *)
(* segments into results for the firmware. The two are processes of their     *)
(* own, each with one thread; test_commands.md starts them and publishes to   *)
(* them by hand.                                                             *)
(*                                                                         *)
(* A segment here moves one joint: the loops over the joints of a segment     *)
(* treat each alike. Positions are counted in steps of the control loop.     *)
(***************************************************************************)
EXTENDS Integers, Sequences, SequencesExt

CONSTANTS
    Joints,         \* the names a segment may use
    Configured,     \* those of initializeAxisConfiguration, which are in /joint_states too
    Structural,     \* those that isStructuralAxis accepts; the loop moves no other
    SoftLimits,     \* of each configured joint: the positions from min_position to max_position
    Shapes,         \* [joint, target, speed]: the segments that are published, but for the id
    MAX_QUEUE_SIZE,
    MaxSegments, MaxPresses, MaxResets, MaxAborts     \* bounds on what is published

ASSUME JointAssumption ==
    /\ Structural \subseteq Configured
    /\ Configured \subseteq Joints
    /\ Configured # {}
    /\ SoftLimits \in [Configured -> SUBSET Int]
    /\ Shapes \subseteq [joint : Joints, target : Int, speed : Nat]
    /\ MAX_QUEUE_SIZE \in Nat \ {0}

VARIABLES
    node,           \* the members of MotionExecutor that decide something
    joints,         \* external: where the actuators are and where they were told to go
    log,            \* every /segment_status published, for the properties
    seen,           \* how many of them the adapter has received
    abort_active,   \* abort_active_ of the adapter
    results,        \* the numbers published on /sim/motion/result
    used            \* counters of the bounds

execVars == <<node, joints, log, seen, abort_active, results, used>>

Segment == [id : Nat, joint : Joints, target : Int, speed : Nat]

QUEUED == 0
EXECUTING == 1
COMPLETED == 2
RESET == 3
FAILED == 4
Status == [status : 0..4, id : Nat]

\* "absent": the name is not in axis_runtime_map_.
AxisState == {"absent", "DISABLED", "IDLE", "ARMED", "FAULT"}

Node ==
    [machine : {"NORMAL", "ESTOP", "FAULT_LATCHED"},
     exec : {"IDLE", "RUNNING", "ABORTING", "FAULT"},
     queue : Seq(Segment), active : Segment, axis : [Joints -> AxisState],
     joint_state_ready : BOOLEAN, last : [Configured -> Int],
     first_segment : BOOLEAN, previous : Int, q : Int]

\* active_segment_id_, joint_names_, q_target_ and max_velocity_ are those of one segment.
\* There are no joints before the first one, and nothing is read of them.
NoSegment == [id |-> 0, joint |-> CHOOSE j \in Joints : TRUE, target |-> 0, speed |-> 0]

ExecInit ==
    /\ node = [machine |-> "NORMAL", exec |-> "IDLE", queue |-> <<>>, active |-> NoSegment,
               axis |-> [j \in Joints |-> IF j \in Configured THEN "IDLE" ELSE "absent"],
               joint_state_ready |-> FALSE, last |-> [j \in Configured |-> 0],
               first_segment |-> TRUE, previous |-> 0, q |-> 0]
    /\ joints = [at |-> [j \in Configured |-> 0], commanded |-> [j \in Configured |-> 0]]
    /\ log = <<>>
    /\ seen = 0
    /\ abort_active = FALSE
    /\ results = <<>>
    /\ used = [segments |-> 0, presses |-> 0, resets |-> 0, aborts |-> 0]

Says(s, i) == [status |-> s, id |-> i]
-----------------------------------------------------------------------------
(* startNextSegment *)

\* The front of the queue becomes the active segment. A name the map does not have is added.
PoppedLast(n) == [n EXCEPT !.active = Last(n.queue), !.queue = Front(n.queue)]
Popped(n) == [n EXCEPT !.active = Head(n.queue), !.queue = Tail(n.queue),
                       !.axis[Head(n.queue).joint] = IF @ = "absent" THEN "DISABLED" ELSE @]

MayMove(n) == n.axis[n.active.joint] \in {"IDLE", "ARMED"}
BeyondLimit(n) ==
    n.active.joint \in Configured /\ n.active.target \notin SoftLimits[n.active.joint]

\* The first segment starts where the joint was measured, the others where the one before
\* was to end, whatever joint that was of.
StartPosition(n) ==
    IF ~n.first_segment THEN n.previous
    ELSE IF n.active.joint \in Configured THEN n.last[n.active.joint] ELSE 0

Placed(n) == [n EXCEPT !.q = StartPosition(n), !.first_segment = FALSE]

Latched(n) == [Placed(n) EXCEPT !.exec = "FAULT", !.machine = "FAULT_LATCHED",
                                !.axis[n.active.joint] = "FAULT"]
Running(n) == [Placed(n) EXCEPT !.exec = "RUNNING", !.axis[n.active.joint] = "ARMED",
                                !.previous = n.active.target]

\* With n.queue not empty. The segments behind one that fails stay in the queue.
Started(n) ==
    LET p == Popped(n)
    IN  IF ~MayMove(p) THEN [p EXCEPT !.exec = "FAULT"]
        ELSE IF BeyondLimit(p) THEN Latched(p) ELSE Running(p)

StartStatus(n) ==
    Says(IF Started(n).exec = "RUNNING" THEN EXECUTING ELSE FAILED, Head(n.queue).id)
-----------------------------------------------------------------------------
(* The callbacks of the executor *)

RejectsAnyLength(n) == n.machine # "NORMAL" \/ n.exec = "ABORTING" \/ ~n.joint_state_ready
Rejects(n) == RejectsAnyLength(n) \/ Len(n.queue) >= MAX_QUEUE_SIZE

\* A node in FAULT whose machine is NORMAL again queues segments and does not start them.
StartsNow(n) == n.exec = "IDLE"

SegmentCallback ==
    \E s \in Shapes :
        LET seg == [id |-> used.segments + 1, joint |-> s.joint, target |-> s.target,
                    speed |-> s.speed]
            queued == [node EXCEPT !.queue = Append(@, seg)]
        IN  /\ used.segments < MaxSegments
            /\ used' = [used EXCEPT !.segments = @ + 1]
            /\ \/ /\ Rejects(node)
                  /\ log' = Append(log, Says(FAILED, seg.id))
                  /\ UNCHANGED node
               \/ /\ ~Rejects(node)
                  /\ StartsNow(node)
                  /\ node' = Started(queued)
                  /\ log' = log \o <<Says(QUEUED, seg.id), StartStatus(queued)>>
               \/ /\ ~Rejects(node)
                  /\ ~StartsNow(node)
                  /\ node' = queued
                  /\ log' = Append(log, Says(QUEUED, seg.id))
            /\ UNCHANGED <<joints, seen, abort_active, results>>

\* What is measured replaces what the control loop has reached on paper.
JointStateCallback ==
    /\ node' = [node EXCEPT !.joint_state_ready = TRUE, !.last = joints.at,
                            !.q = IF node.active.joint \in Configured
                                  THEN joints.at[node.active.joint] ELSE @]
    /\ UNCHANGED <<joints, log, seen, abort_active, results, used>>

\* One step of the loop: the new q_current_, and whether the target is reached.
ReachedExactly(n) == n.active.joint \notin Structural \/ n.active.target = n.q
Reached(n) ==
    \/ n.active.joint \notin Structural
    \/ n.active.target - n.q \in -n.active.speed..n.active.speed

Stepped(n) ==
    IF n.active.joint \notin Structural THEN n.q
    ELSE IF Reached(n) THEN n.active.target
    ELSE IF n.active.target > n.q THEN n.q + n.active.speed ELSE n.q - n.active.speed

ControlLoop ==
    /\ node.exec = "RUNNING"
    /\ LET n == [node EXCEPT !.q = Stepped(node)]
           j == node.active.joint
       IN  /\ joints' = IF j \in Configured THEN [joints EXCEPT !.commanded[j] = n.q]
                        ELSE joints
           /\ \/ ~Reached(node) /\ node' = n /\ UNCHANGED log
              \/ /\ Reached(node)
                 /\ node.queue = <<>>
                 /\ node' = [n EXCEPT !.exec = "IDLE"]
                 /\ log' = Append(log, Says(COMPLETED, node.active.id))
              \/ /\ Reached(node)
                 /\ node.queue # <<>>
                 /\ node' = Started(n)
                 /\ log' = log \o <<Says(COMPLETED, node.active.id), StartStatus(n)>>
    /\ UNCHANGED <<seen, abort_active, results, used>>

\* All faults are forgotten, and so are the segments that wait. Only names in the map change.
ClearedQueueKept(n) ==
    [n EXCEPT !.axis = [j \in Joints |-> IF n.axis[j] = "absent" THEN "absent" ELSE "IDLE"],
              !.machine = "NORMAL", !.first_segment = TRUE, !.active.id = 0, !.exec = "IDLE"]
Cleared(n) == [ClearedQueueKept(n) EXCEPT !.queue = <<>>]

ResetCallback ==
    /\ used.resets < MaxResets
    /\ used' = [used EXCEPT !.resets = @ + 1]
    /\ IF node.machine = "ESTOP" THEN UNCHANGED <<node, log>>
       ELSE node' = Cleared(node) /\ log' = Append(log, Says(RESET, 0))
    /\ UNCHANGED <<joints, seen, abort_active, results>>

\* The active segment is reported failed, also when it was completed before.
StoppedMachineOnly(n) == [n EXCEPT !.machine = "ESTOP", !.queue = <<>>]
Stopped(n) == [n EXCEPT !.machine = "ESTOP", !.exec = "FAULT", !.queue = <<>>]

EstopPressed ==
    /\ used.presses < MaxPresses
    /\ used' = [used EXCEPT !.presses = @ + 1]
    /\ IF node.machine = "ESTOP" THEN UNCHANGED <<node, log>>
       ELSE node' = Stopped(node) /\ log' = Append(log, Says(FAILED, node.active.id))
    /\ UNCHANGED <<joints, seen, abort_active, results>>

\* The node stays in FAULT. A soft limit latched before the press is forgotten.
ReleasedToIdle(n) ==
    IF n.machine = "ESTOP" THEN [n EXCEPT !.machine = "NORMAL", !.exec = "IDLE"] ELSE n
Released(n) == IF n.machine = "ESTOP" THEN [n EXCEPT !.machine = "NORMAL"] ELSE n

EstopReleased ==
    /\ node.machine = "ESTOP"
    /\ node' = Released(node)
    /\ UNCHANGED <<joints, log, seen, abort_active, results, used>>

Aborted(n) == [n EXCEPT !.exec = "ABORTING", !.queue = <<>>]

AbortCallback ==
    /\ used.aborts < MaxAborts
    /\ used' = [used EXCEPT !.aborts = @ + 1]
    /\ node' = Aborted(node)
    /\ UNCHANGED <<joints, log, seen, abort_active, results>>
-----------------------------------------------------------------------------
(* The adapter and the actuators *)

\* The abort reaches the adapter before or after it reaches the executor. Nothing resets the
\* flag.
AdapterAbort ==
    /\ MaxAborts > 0
    /\ ~abort_active
    /\ abort_active' = TRUE
    /\ UNCHANGED <<node, joints, log, seen, results, used>>

ResultOfAny(s) == IF s.status # RESET /\ ~abort_active THEN <<s.id>> ELSE <<>>
ResultOf(s) == IF s.status = COMPLETED /\ ~abort_active THEN <<s.id>> ELSE <<>>

OnSegmentStatus ==
    /\ seen < Len(log)
    /\ seen' = seen + 1
    /\ results' = results \o ResultOf(log[seen + 1])
    /\ UNCHANGED <<node, joints, log, abort_active, used>>

\* External: an actuator gets to where it was told, sooner or later.
ActuatorMoves ==
    \E j \in Configured :
        /\ joints.at[j] # joints.commanded[j]
        /\ joints' = [joints EXCEPT !.at[j] = joints.commanded[j]]
        /\ UNCHANGED <<node, log, seen, abort_active, results, used>>
-----------------------------------------------------------------------------
ExecNext ==
    \/ SegmentCallback \/ JointStateCallback \/ ControlLoop
    \/ ResetCallback \/ EstopPressed \/ EstopReleased \/ AbortCallback
    \/ AdapterAbort \/ OnSegmentStatus \/ ActuatorMoves

ExecSpec == ExecInit /\ [][ExecNext]_execVars

\* The control timer runs every 2 ms, messages that are sent arrive, and actuators obey.
ExecFairness ==
    /\ WF_execVars(ControlLoop) /\ WF_execVars(OnSegmentStatus)
    /\ WF_execVars(ActuatorMoves)
FairExecSpec == ExecSpec /\ ExecFairness
-----------------------------------------------------------------------------
(* Properties *)

\* Every variable of the executor and the adapter has its type; the queue is within its limit.
ExecTypeOK ==
    /\ node \in Node /\ Len(node.queue) <= MAX_QUEUE_SIZE
    /\ joints \in [at : [Configured -> Int], commanded : [Configured -> Int]]
    /\ log \in Seq(Status) /\ seen \in 0..Len(log)
    /\ abort_active \in BOOLEAN
    /\ results \in Seq(Nat)
    /\ used \in [segments : Nat, presses : Nat, resets : Nat, aborts : Nat]

\* The loop moves a joint only while no stop is in force: the machine is NORMAL, the joint's
\* position is known, the joint is armed and, if it is configured, is sent within its limits.
RunsOnlyWhenAllowed ==
    node.exec = "RUNNING" =>
        /\ node.machine = "NORMAL"
        /\ node.joint_state_ready
        /\ node.axis[node.active.joint] = "ARMED"
        /\ ~BeyondLimit(node)

\* After an emergency stop, an abort or a fault nothing runs again before a reset.
StopsHoldUntilReset ==
    [][node.exec \in {"FAULT", "ABORTING"} /\ node'.exec \notin {"FAULT", "ABORTING"}
       => used'.resets = used.resets + 1]_execVars

\* No segment is forgotten in the queue of a node that waits for work.
IdleMeansEmpty == node.exec = "IDLE" => node.queue = <<>>

\* Segments execute one at a time, in the order in which they were published, none twice, and
\* each that is completed is the one that was executing.
ExecutesInOrder ==
    /\ \A i, j \in DOMAIN log :
           i < j /\ log[i].status = EXECUTING /\ log[j].status = EXECUTING
           => log[i].id < log[j].id
    /\ \A j \in DOMAIN log : log[j].status = COMPLETED =>
           \E i \in 1..j - 1 :
               /\ log[i] = Says(EXECUTING, log[j].id)
               /\ \A k \in i + 1..j - 1 : log[k].status \notin {EXECUTING, COMPLETED}

\* The segments that are completed in the first n statuses.
CompletedIn(n) == {log[i].id : i \in {k \in 1..n : log[k].status = COMPLETED}}

\* The results are the completions, each once and in order, up to an abort and no more after
\* it: none is reported that did not happen, none is left out before one that is reported, and
\* none is lost while no abort was received.
ResultsAreCompletions ==
    /\ \A i, j \in DOMAIN results : i < j => results[i] < results[j]
    /\ Range(results) \subseteq CompletedIn(seen)
    /\ \A r \in Range(results), c \in CompletedIn(seen) : c < r => c \in Range(results)
    /\ ~abort_active => CompletedIn(seen) \subseteq Range(results)

\* A segment with a speed above zero does not execute for ever, however the measured
\* positions lag behind the commanded ones.
MovingSegmentsEnd ==
    \A i \in 1..MaxSegments :
        (node.exec = "RUNNING" /\ node.active.id = i /\ node.active.speed > 0)
            ~> ~(node.exec = "RUNNING" /\ node.active.id = i)
=============================================================================
