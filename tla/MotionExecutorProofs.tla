------------------------- MODULE MotionExecutorProofs -------------------------
(***************************************************************************)
(* What is proved of the motion executor for any joints, limits, segments     *)
(* and queue size. A step that starts a segment (StartNext below) is shown     *)
(* once and cited by the two callbacks that contain it.                       *)
(***************************************************************************)
EXTENDS MotionExecutor, TLAPS

\* The strengthening: an armed or running node is in order, and IDLE leaves nothing queued.
ExecInv == ExecTypeOK /\ RunsOnlyWhenAllowed /\ IdleMeansEmpty

-----------------------------------------------------------------------------
(* One start of a segment *)

\* The segment taken from a queue that has one is a segment, and the rest is a shorter queue.
LEMMA PoppedType ==
    ASSUME NEW n \in Node, n.queue # <<>>
    PROVE  /\ Popped(n) \in Node
           /\ Len(Popped(n).queue) = Len(n.queue) - 1
           /\ Popped(n).active = Head(n.queue)
           /\ \A f \in {"machine", "exec", "joint_state_ready"} : Popped(n)[f] = n[f]
  <1>1. Head(n.queue) \in Segment /\ Tail(n.queue) \in Seq(Segment)
    BY DEF Node
  <1>2. Len(Tail(n.queue)) = Len(n.queue) - 1
    BY DEF Node
  <1>3. Head(n.queue).joint \in Joints
    BY <1>1 DEF Segment
  <1>4. "DISABLED" \in AxisState
    BY DEF AxisState
  <1> QED BY <1>1, <1>2, <1>3, <1>4 DEF Popped, Node

\* Where a segment starts is a position.
LEMMA PlacedType ==
    ASSUME NEW n \in Node
    PROVE  /\ Placed(n) \in Node
           /\ Placed(n).queue = n.queue /\ Placed(n).active = n.active
           /\ Placed(n).machine = n.machine
           /\ Placed(n).joint_state_ready = n.joint_state_ready
  <1>1. StartPosition(n) \in Int
    BY DEF StartPosition, Node, Segment
  <1>2. Placed(n) \in Node
    BY <1>1 DEF Placed, Node
  <1>3. /\ Placed(n).queue = n.queue /\ Placed(n).active = n.active
        /\ Placed(n).machine = n.machine
        /\ Placed(n).joint_state_ready = n.joint_state_ready
    BY DEF Placed, Node
  <1> QED BY <1>2, <1>3

\* A started node has its type, a shorter queue, and runs only if nothing forbids it.
LEMMA StartedIsSafe ==
    ASSUME NEW n \in Node, n.queue # <<>>, n.machine = "NORMAL", n.joint_state_ready
    PROVE  /\ Started(n) \in Node
           /\ Len(Started(n).queue) = Len(n.queue) - 1
           /\ Started(n).exec \in {"RUNNING", "FAULT"}
           /\ Started(n).exec = "RUNNING" =>
                 /\ Started(n).machine = "NORMAL"
                 /\ Started(n).joint_state_ready
                 /\ Started(n).axis[Started(n).active.joint] = "ARMED"
                 /\ ~BeyondLimit(Started(n))
           /\ StartStatus(n) \in Status
  <1> DEFINE p == Popped(n)
  <1>1. /\ p \in Node /\ Len(p.queue) = Len(n.queue) - 1
        /\ p.machine = "NORMAL" /\ p.joint_state_ready
    BY PoppedType
  <1> HIDE DEF p
  <1>2. /\ Placed(p) \in Node
        /\ Placed(p).queue = p.queue /\ Placed(p).active = p.active
        /\ Placed(p).machine = p.machine
        /\ Placed(p).joint_state_ready = p.joint_state_ready
    BY <1>1, PlacedType
  <1>3. p.active \in Segment /\ p.active.joint \in Joints /\ p.active.target \in Int
    BY <1>1 DEF Node, Segment
  <1>4. StartStatus(n) \in Status
    <2>1. Head(n.queue) \in Segment
      BY DEF Node
    <2> QED BY <2>1 DEF StartStatus, Says, Status, Segment, EXECUTING, FAILED
  <1>5. CASE ~MayMove(p)
    <2>1. Started(n) = [p EXCEPT !.exec = "FAULT"]
      BY <1>5 DEF Started, p
    <2> QED BY <1>1, <1>4, <2>1 DEF Node
  <1>6. CASE MayMove(p) /\ BeyondLimit(p)
    <2>1. Started(n) = Latched(p)
      BY <1>6 DEF Started, p
    <2>2. Latched(p) \in Node
      BY <1>2, <1>3 DEF Latched, Node, AxisState
    <2>3. Latched(p).queue = p.queue /\ Latched(p).exec = "FAULT"
      BY <1>2 DEF Latched, Node
    <2> QED BY <1>1, <1>4, <2>1, <2>2, <2>3
  <1>7. CASE MayMove(p) /\ ~BeyondLimit(p)
    <2>1. Started(n) = Running(p)
      BY <1>7 DEF Started, p
    <2>2. Running(p) \in Node /\ Running(p).queue = p.queue /\ Running(p).exec = "RUNNING"
      BY <1>1, <1>2, <1>3 DEF Running, Node, AxisState
    <2>3. Running(p).active = p.active /\ Running(p).machine = "NORMAL"
      BY <1>1, <1>2 DEF Running, Node
    <2>4. Running(p).joint_state_ready
      BY <1>1, <1>2 DEF Running, Node
    <2>5. Running(p).axis[p.active.joint] = "ARMED"
      BY <1>2, <1>3 DEF Running, Node
    <2>6. ~BeyondLimit(Running(p))
      BY <1>7, <2>3 DEF BeyondLimit
    <2> QED BY <1>1, <1>4, <2>1, <2>2, <2>3, <2>4, <2>5, <2>6
  <1> QED BY <1>5, <1>6, <1>7
-----------------------------------------------------------------------------
(* The invariant *)

LEMMA ExecInitInv == ExecInit => ExecInv
  <1> SUFFICES ASSUME ExecInit PROVE ExecInv
    OBVIOUS
  <1>1. NoSegment \in Segment
    BY JointAssumption DEF NoSegment, Segment
  <1>2. node \in Node /\ node.queue = <<>> /\ node.exec = "IDLE"
    BY <1>1 DEF ExecInit, Node, AxisState
  <1>3. Len(node.queue) <= MAX_QUEUE_SIZE
    BY <1>2, JointAssumption
  <1>4. joints \in [at : [Configured -> Int], commanded : [Configured -> Int]]
    BY DEF ExecInit
  <1>5. log \in Seq(Status) /\ seen \in 0..Len(log) /\ results \in Seq(Nat)
    BY DEF ExecInit
  <1>6. ExecTypeOK
    BY <1>2, <1>3, <1>4, <1>5 DEF ExecInit, ExecTypeOK
  <1> QED BY <1>2, <1>6 DEF ExecInv, RunsOnlyWhenAllowed, IdleMeansEmpty

\* One more status, or two, leave the log a log, and what was read of it read.
LEMMA LogGrows ==
    ASSUME NEW l \in Seq(Status), NEW s \in Status, NEW t \in Status, NEW k \in 0..Len(l)
    PROVE  /\ Append(l, s) \in Seq(Status) /\ k \in 0..Len(Append(l, s))
           /\ l \o <<s, t>> \in Seq(Status) /\ k \in 0..Len(l \o <<s, t>>)
  OBVIOUS

LEMMA SegmentCallbackInv == ASSUME ExecInv, SegmentCallback PROVE ExecInv'
  <1> USE DEF ExecInv
  <1>1. PICK s \in Shapes :
          LET seg == [id |-> used.segments + 1, joint |-> s.joint, target |-> s.target,
                      speed |-> s.speed]
              queued == [node EXCEPT !.queue = Append(@, seg)]
          IN  /\ used' = [used EXCEPT !.segments = @ + 1]
              /\ \/ Rejects(node) /\ log' = Append(log, Says(FAILED, seg.id)) /\ node' = node
                 \/ /\ ~Rejects(node) /\ StartsNow(node)
                    /\ node' = Started(queued)
                    /\ log' = log \o <<Says(QUEUED, seg.id), StartStatus(queued)>>
                 \/ /\ ~Rejects(node) /\ ~StartsNow(node)
                    /\ node' = queued
                    /\ log' = Append(log, Says(QUEUED, seg.id))
              /\ UNCHANGED <<joints, seen, abort_active, results>>
    BY DEF SegmentCallback
  <1> DEFINE seg == [id |-> used.segments + 1, joint |-> s.joint, target |-> s.target,
                     speed |-> s.speed]
             queued == [node EXCEPT !.queue = Append(@, seg)]
  <1>2. s \in [joint : Joints, target : Int, speed : Nat]
    BY JointAssumption
  <1>3. used.segments \in Nat
    BY DEF ExecTypeOK
  <1>4. seg \in Segment
    BY <1>2, <1>3 DEF Segment
  <1>5. Says(FAILED, seg.id) \in Status /\ Says(QUEUED, seg.id) \in Status
    BY <1>3 DEF Says, Status, FAILED, QUEUED
  <1>6. used' \in [segments : Nat, presses : Nat, resets : Nat, aborts : Nat]
    <2>1. used' = [used EXCEPT !.segments = @ + 1]
      BY <1>1
    <2>2. used \in [segments : Nat, presses : Nat, resets : Nat, aborts : Nat]
      BY DEF ExecTypeOK
    <2> QED BY <2>1, <2>2
  <1>7. node \in Node /\ node.queue \in Seq(Segment) /\ Len(node.queue) <= MAX_QUEUE_SIZE
    BY DEF ExecTypeOK, Node
  <1>8. /\ queued \in Node /\ queued.queue = Append(node.queue, seg)
        /\ queued.machine = node.machine /\ queued.exec = node.exec
        /\ queued.joint_state_ready = node.joint_state_ready
        /\ queued.active = node.active /\ queued.axis = node.axis
    <2> HIDE DEF seg
    <2>1. Append(node.queue, seg) \in Seq(Segment)
      BY <1>4, <1>7
    <2> QED BY <1>7, <2>1 DEF Node
  <1>9. Len(queued.queue) = Len(node.queue) + 1 /\ queued.queue # <<>>
    BY <1>4, <1>7, <1>8
  <1>10. log \in Seq(Status) /\ seen \in 0..Len(log)
    BY DEF ExecTypeOK
  <1>11. CASE Rejects(node)
    <2>1. node' = node /\ log' = Append(log, Says(FAILED, seg.id))
      BY <1>1, <1>11
    <2>2. ExecTypeOK'
      BY <1>1, <1>5, <1>6, <1>10, <2>1, LogGrows DEF ExecTypeOK
    <2> QED BY <2>1, <2>2 DEF RunsOnlyWhenAllowed, IdleMeansEmpty, BeyondLimit
  <1>12. CASE ~Rejects(node)
    <2>1. /\ node.machine = "NORMAL" /\ node.joint_state_ready
          /\ Len(node.queue) < MAX_QUEUE_SIZE
      BY <1>7, <1>12, JointAssumption DEF Rejects, RejectsAnyLength, Node
    <2>2. queued.machine = "NORMAL" /\ queued.joint_state_ready /\ queued.exec = node.exec
      BY <1>7, <1>8, <2>1 DEF Node
    <2>3. CASE StartsNow(node)
      <3>1. node' = Started(queued) /\ log' = log \o <<Says(QUEUED, seg.id), StartStatus(queued)>>
        BY <1>1, <1>12, <2>3
      <3> HIDE DEF queued, seg
      <3>2. StartStatus(queued) \in Status /\ node' \in Node
        BY <1>8, <1>9, <2>2, <3>1, StartedIsSafe
      <3>3. Len(node'.queue) = Len(queued.queue) - 1 /\ node'.exec \in {"RUNNING", "FAULT"}
        BY <1>8, <1>9, <2>2, <3>1, StartedIsSafe
      <3>4. Len(node'.queue) <= MAX_QUEUE_SIZE
        BY <1>7, <1>9, <3>3
      <3>5. log' \in Seq(Status) /\ seen \in 0..Len(log')
        BY <1>5, <1>10, <3>1, <3>2, LogGrows
      <3>6. ExecTypeOK'
        BY <1>1, <1>6, <3>2, <3>4, <3>5 DEF ExecTypeOK
      <3>7. RunsOnlyWhenAllowed'
        BY <1>8, <1>9, <2>2, <3>1, StartedIsSafe DEF RunsOnlyWhenAllowed, BeyondLimit
      <3> QED BY <3>3, <3>6, <3>7 DEF IdleMeansEmpty
    <2>4. CASE ~StartsNow(node)
      <3>1. node' = queued /\ log' = Append(log, Says(QUEUED, seg.id))
        BY <1>1, <1>12, <2>4
      <3> HIDE DEF queued, seg
      <3>2. log' \in Seq(Status) /\ seen \in 0..Len(log')
        BY <1>5, <1>10, <3>1, LogGrows
      <3>3. Len(node'.queue) <= MAX_QUEUE_SIZE
        BY <1>7, <1>9, <2>1, <3>1, JointAssumption
      <3>4. ExecTypeOK'
        BY <1>1, <1>6, <1>8, <3>1, <3>2, <3>3 DEF ExecTypeOK
      <3>5. RunsOnlyWhenAllowed'
        BY <1>7, <1>8, <3>1 DEF RunsOnlyWhenAllowed, BeyondLimit, Node
      <3> QED BY <2>2, <2>4, <3>1, <3>4, <3>5 DEF IdleMeansEmpty, StartsNow
    <2> QED BY <2>3, <2>4
  <1> QED BY <1>11, <1>12

\* A step of the loop changes only where the joint is thought to be.
LEMMA SteppedType == ASSUME NEW n \in Node PROVE Stepped(n) \in Int
  BY DEF Stepped, Node, Segment

LEMMA ControlLoopInv == ASSUME ExecInv, ControlLoop PROVE ExecInv'
  <1> USE DEF ExecInv
  <1> DEFINE n == [node EXCEPT !.q = Stepped(node)]
  <1>1. node \in Node /\ Len(node.queue) <= MAX_QUEUE_SIZE /\ node.queue \in Seq(Segment)
    BY DEF ExecTypeOK, Node
  <1>2. /\ n \in Node
        /\ \A f \in DOMAIN node \ {"q"} : n[f] = node[f]
    BY <1>1, SteppedType DEF Node
  <1>3. /\ n.queue = node.queue /\ n.exec = node.exec /\ n.machine = node.machine
        /\ n.joint_state_ready = node.joint_state_ready /\ n.axis = node.axis
        /\ n.active = node.active
    BY <1>1, <1>2 DEF Node
  <1>4. node.exec = "RUNNING" /\ RunsOnlyWhenAllowed
    BY DEF ControlLoop
  <1>5. joints' \in [at : [Configured -> Int], commanded : [Configured -> Int]]
    <2>1. n.q \in Int
      BY <1>2 DEF Node
    <2>2. joints' = joints \/ \E j \in Configured : joints' = [joints EXCEPT !.commanded[j] = n.q]
      BY DEF ControlLoop
    <2>3. joints \in [at : [Configured -> Int], commanded : [Configured -> Int]]
      BY DEF ExecTypeOK
    <2> HIDE DEF n
    <2> QED BY <2>1, <2>2, <2>3
  <1>6. node.active.id \in Nat
    BY <1>1 DEF Node, Segment
  <1>7. Says(COMPLETED, node.active.id) \in Status
    BY <1>6 DEF Says, Status, COMPLETED
  <1>8. log \in Seq(Status) /\ seen \in 0..Len(log)
    BY DEF ExecTypeOK
  <1>9. UNCHANGED <<seen, abort_active, results, used>>
    BY DEF ControlLoop
  <1>10. CASE node' = n /\ log' = log
    <2>1. ExecTypeOK'
      BY <1>1, <1>2, <1>3, <1>5, <1>8, <1>9, <1>10 DEF ExecTypeOK
    <2> QED BY <1>3, <1>4, <1>10, <2>1 DEF RunsOnlyWhenAllowed, IdleMeansEmpty, BeyondLimit
  <1>11. CASE /\ node.queue = <<>>
              /\ node' = [n EXCEPT !.exec = "IDLE"]
              /\ log' = Append(log, Says(COMPLETED, node.active.id))
    <2>1. node' \in Node /\ node'.queue = <<>> /\ node'.exec = "IDLE"
      BY <1>2, <1>3, <1>11 DEF Node
    <2>2. log' \in Seq(Status) /\ seen \in 0..Len(log')
      BY <1>7, <1>8, <1>11, LogGrows
    <2>3. ExecTypeOK'
      BY <1>5, <1>9, <2>1, <2>2, JointAssumption DEF ExecTypeOK
    <2> QED BY <2>1, <2>3 DEF RunsOnlyWhenAllowed, IdleMeansEmpty
  <1>12. CASE /\ node.queue # <<>>
              /\ node' = Started(n)
              /\ log' = log \o <<Says(COMPLETED, node.active.id), StartStatus(n)>>
    <2>1. n.machine = "NORMAL" /\ n.joint_state_ready /\ n.queue # <<>>
      BY <1>3, <1>4, <1>12 DEF RunsOnlyWhenAllowed
    <2> HIDE DEF n
    <2>2. StartStatus(n) \in Status /\ node' \in Node
      BY <1>2, <1>12, <2>1, StartedIsSafe
    <2>3. Len(node'.queue) = Len(n.queue) - 1 /\ node'.exec \in {"RUNNING", "FAULT"}
      BY <1>2, <1>12, <2>1, StartedIsSafe
    <2>4. Len(node'.queue) <= MAX_QUEUE_SIZE
      BY <1>1, <1>3, <2>3, JointAssumption
    <2>5. log' \in Seq(Status) /\ seen \in 0..Len(log')
      BY <1>7, <1>8, <1>12, <2>2, LogGrows
    <2>6. ExecTypeOK'
      BY <1>5, <1>9, <2>2, <2>4, <2>5 DEF ExecTypeOK
    <2>7. RunsOnlyWhenAllowed'
      BY <1>2, <1>12, <2>1, StartedIsSafe DEF RunsOnlyWhenAllowed, BeyondLimit
    <2> QED BY <2>3, <2>6, <2>7 DEF IdleMeansEmpty
  <1> QED BY <1>10, <1>11, <1>12 DEF ControlLoop

LEMMA JointStateCallbackInv == ASSUME ExecInv, JointStateCallback PROVE ExecInv'
  <1> USE DEF ExecInv
  <1>1. node \in Node /\ joints.at \in [Configured -> Int]
    BY DEF ExecTypeOK
  <1> DEFINE at == IF node.active.joint \in Configured THEN joints.at[node.active.joint]
                   ELSE node.q
  <1>2. at \in Int
    BY <1>1 DEF Node
  <1>3. node' = [node EXCEPT !.joint_state_ready = TRUE, !.last = joints.at, !.q = at]
    BY DEF JointStateCallback
  <1> HIDE DEF at
  <1>4. /\ node' \in Node
        /\ node'.queue = node.queue /\ node'.exec = node.exec
        /\ node'.machine = node.machine /\ node'.axis = node.axis
        /\ node'.active = node.active /\ node'.joint_state_ready
    BY <1>1, <1>2, <1>3 DEF Node
  <1>5. UNCHANGED <<joints, log, seen, abort_active, results, used>>
    BY DEF JointStateCallback
  <1>6. ExecTypeOK'
    BY <1>4, <1>5 DEF ExecTypeOK
  <1> QED BY <1>4, <1>6 DEF RunsOnlyWhenAllowed, IdleMeansEmpty, BeyondLimit

\* A stop or a reset: the node does not run afterwards, its queue is empty, it says one thing.
LEMMA NotRunningInv ==
    ASSUME ExecInv, node' \in Node, node'.exec # "RUNNING", node'.queue = <<>>,
           NEW s \in Status, log' \in {log, Append(log, s)},
           UNCHANGED <<joints, seen, abort_active, results>>,
           used' \in [segments : Nat, presses : Nat, resets : Nat, aborts : Nat]
    PROVE  ExecInv'
  <1>1. log' \in Seq(Status) /\ seen \in 0..Len(log')
    BY LogGrows DEF ExecInv, ExecTypeOK
  <1>2. Len(node'.queue) <= MAX_QUEUE_SIZE
    BY JointAssumption
  <1>3. ExecTypeOK'
    BY <1>1, <1>2 DEF ExecInv, ExecTypeOK
  <1> QED BY <1>3 DEF ExecInv, RunsOnlyWhenAllowed, IdleMeansEmpty

LEMMA UsedType ==
    ASSUME ExecTypeOK
    PROVE  \A u \in {[used EXCEPT !.presses = @ + 1], [used EXCEPT !.resets = @ + 1],
                     [used EXCEPT !.aborts = @ + 1]} :
              u \in [segments : Nat, presses : Nat, resets : Nat, aborts : Nat]
  <1>1. used \in [segments : Nat, presses : Nat, resets : Nat, aborts : Nat]
    BY DEF ExecTypeOK
  <1> QED BY <1>1

\* Nothing of the executor or its log changes but a counter.
LEMMA NodeKeptInv ==
    ASSUME ExecInv, UNCHANGED <<node, joints, log, seen, abort_active, results>>,
           used' \in [segments : Nat, presses : Nat, resets : Nat, aborts : Nat]
    PROVE  ExecInv'
  BY DEF ExecInv, ExecTypeOK, RunsOnlyWhenAllowed, IdleMeansEmpty, BeyondLimit

LEMMA NothingQueued == <<>> \in Seq(Segment)
  OBVIOUS

LEMMA ResetCallbackInv == ASSUME ExecInv, ResetCallback PROVE ExecInv'
  <1>1. ExecTypeOK /\ node \in Node
    BY DEF ExecInv, ExecTypeOK
  <1>2. used' \in [segments : Nat, presses : Nat, resets : Nat, aborts : Nat]
    BY <1>1, UsedType DEF ResetCallback
  <1>3. UNCHANGED <<joints, seen, abort_active, results>>
    BY DEF ResetCallback
  <1>4. CASE node' = Cleared(node) /\ log' = Append(log, Says(RESET, 0))
    <2>1. [node.active EXCEPT !.id = 0] \in Segment
      BY <1>1 DEF Node, Segment
    <2>2. [j \in Joints |-> IF node.axis[j] = "absent" THEN "absent" ELSE "IDLE"]
            \in [Joints -> AxisState]
      BY DEF AxisState
    <2>3. node' \in Node /\ node'.exec = "IDLE" /\ node'.queue = <<>>
      BY <1>1, <1>4, <2>1, <2>2, NothingQueued DEF Cleared, ClearedQueueKept, Node
    <2>4. Says(RESET, 0) \in Status
      BY DEF Says, Status, RESET
    <2> QED BY <1>2, <1>3, <1>4, <2>3, <2>4, NotRunningInv
  <1>5. CASE UNCHANGED <<node, log>>
    BY <1>2, <1>3, <1>5, NodeKeptInv
  <1> QED BY <1>4, <1>5 DEF ResetCallback

LEMMA EstopPressedInv == ASSUME ExecInv, EstopPressed PROVE ExecInv'
  <1>1. ExecTypeOK /\ node \in Node
    BY DEF ExecInv, ExecTypeOK
  <1>2. used' \in [segments : Nat, presses : Nat, resets : Nat, aborts : Nat]
    BY <1>1, UsedType DEF EstopPressed
  <1>3. UNCHANGED <<joints, seen, abort_active, results>>
    BY DEF EstopPressed
  <1>4. CASE node' = Stopped(node) /\ log' = Append(log, Says(FAILED, node.active.id))
    <2>1. node' \in Node /\ node'.exec = "FAULT" /\ node'.queue = <<>>
      BY <1>1, <1>4, NothingQueued DEF Stopped, Node
    <2>2. Says(FAILED, node.active.id) \in Status
      BY <1>1 DEF Says, Status, FAILED, Node, Segment
    <2> QED BY <1>2, <1>3, <1>4, <2>1, <2>2, NotRunningInv
  <1>5. CASE UNCHANGED <<node, log>>
    BY <1>2, <1>3, <1>5, NodeKeptInv
  <1> QED BY <1>4, <1>5 DEF EstopPressed

LEMMA AbortCallbackInv == ASSUME ExecInv, AbortCallback PROVE ExecInv'
  <1>1. ExecTypeOK /\ node \in Node
    BY DEF ExecInv, ExecTypeOK
  <1>2. used' \in [segments : Nat, presses : Nat, resets : Nat, aborts : Nat]
    BY <1>1, UsedType DEF AbortCallback
  <1>3. node' \in Node /\ node'.exec = "ABORTING" /\ node'.queue = <<>>
    BY <1>1, NothingQueued DEF AbortCallback, Aborted, Node
  <1>4. Says(RESET, 0) \in Status
    BY DEF Says, Status, RESET
  <1> QED BY <1>2, <1>3, <1>4, NotRunningInv DEF AbortCallback

\* A machine in ESTOP runs nothing, so its release cannot let anything run.
LEMMA EstopReleasedInv == ASSUME ExecInv, EstopReleased PROVE ExecInv'
  <1>1. node \in Node /\ node.machine = "ESTOP"
    BY DEF ExecInv, ExecTypeOK, EstopReleased
  <1>2. node.exec # "RUNNING"
    BY <1>1 DEF ExecInv, RunsOnlyWhenAllowed
  <1>3. node' \in Node /\ node'.exec = node.exec /\ node'.queue = node.queue
    BY <1>1 DEF EstopReleased, Released, Node
  <1>4. ExecTypeOK'
    BY <1>3 DEF ExecInv, ExecTypeOK, EstopReleased
  <1> QED BY <1>2, <1>3, <1>4 DEF ExecInv, RunsOnlyWhenAllowed, IdleMeansEmpty

\* The adapter and the actuators do not touch the executor.
LEMMA OthersInv ==
    ASSUME ExecInv, AdapterAbort \/ OnSegmentStatus \/ ActuatorMoves PROVE ExecInv'
  <1>1. UNCHANGED <<node, log, used>>
    BY DEF AdapterAbort, OnSegmentStatus, ActuatorMoves
  <1>2. joints' \in [at : [Configured -> Int], commanded : [Configured -> Int]]
    <2>1. joints \in [at : [Configured -> Int], commanded : [Configured -> Int]]
      BY DEF ExecInv, ExecTypeOK
    <2> QED BY <2>1 DEF AdapterAbort, OnSegmentStatus, ActuatorMoves
  <1>3. abort_active' \in BOOLEAN
    BY DEF ExecInv, ExecTypeOK, AdapterAbort, OnSegmentStatus, ActuatorMoves
  <1>4. seen' \in 0..Len(log)
    BY DEF ExecInv, ExecTypeOK, AdapterAbort, OnSegmentStatus, ActuatorMoves
  <1>5. results' \in Seq(Nat)
    <2>1. log \in Seq(Status) /\ results \in Seq(Nat) /\ seen \in 0..Len(log)
      BY DEF ExecInv, ExecTypeOK
    <2>2. CASE OnSegmentStatus
      <3>1. log[seen + 1] \in Status
        BY <2>1, <2>2 DEF OnSegmentStatus
      <3>2. ResultOf(log[seen + 1]) \in Seq(Nat)
        BY <3>1 DEF ResultOf, Status
      <3> QED BY <2>1, <2>2, <3>2 DEF OnSegmentStatus
    <2> QED BY <2>1, <2>2 DEF AdapterAbort, ActuatorMoves
  <1>6. ExecTypeOK'
    BY <1>1, <1>2, <1>3, <1>4, <1>5 DEF ExecInv, ExecTypeOK
  <1> QED BY <1>1, <1>6 DEF ExecInv, RunsOnlyWhenAllowed, IdleMeansEmpty, BeyondLimit

LEMMA ExecStep == ExecInv /\ [ExecNext]_execVars => ExecInv'
  <1> SUFFICES ASSUME ExecInv, [ExecNext]_execVars PROVE ExecInv'
    OBVIOUS
  <1>1. CASE UNCHANGED execVars
    BY <1>1 DEF execVars, ExecInv, ExecTypeOK, RunsOnlyWhenAllowed, IdleMeansEmpty, BeyondLimit
  <1>2. CASE ExecNext
    BY <1>2, SegmentCallbackInv, JointStateCallbackInv, ControlLoopInv, ResetCallbackInv,
       EstopPressedInv, EstopReleasedInv, AbortCallbackInv, OthersInv DEF ExecNext
  <1> QED BY <1>1, <1>2

LEMMA ExecInvariant == ExecSpec => []ExecInv
  BY ExecInitInv, ExecStep, PTL DEF ExecSpec
-----------------------------------------------------------------------------
(* The results *)

\* Every variable of the executor and the adapter has its type, and the queue of segments
\* (segment_queue_) never exceeds MAX_QUEUE_SIZE.
THEOREM ExecTypeCorrect == ExecSpec => []ExecTypeOK
  <1>1. ExecInv => ExecTypeOK
    BY DEF ExecInv
  <1> QED BY <1>1, ExecInvariant, PTL

\* controlLoop moves a joint only while the machine is NORMAL, the joint is armed and its
\* position is known, and never beyond its limits, whatever resets, presses and aborts come.
THEOREM ExecRunsOnlyWhenAllowed == ExecSpec => []RunsOnlyWhenAllowed
  <1>1. ExecInv => RunsOnlyWhenAllowed
    BY DEF ExecInv
  <1> QED BY <1>1, ExecInvariant, PTL

\* An executor in IDLE has no segment left in its queue: startNextSegment and the control loop
\* hand over to each other without forgetting one.
THEOREM ExecIdleMeansEmpty == ExecSpec => []IdleMeansEmpty
  <1>1. ExecInv => IdleMeansEmpty
    BY DEF ExecInv
  <1> QED BY <1>1, ExecInvariant, PTL

\* FAULT and ABORTING are left only by resetCallback: a release of the emergency stop, a new
\* segment or the control loop does not start the executor again.
THEOREM ExecStopsHold == ExecSpec => StopsHoldUntilReset
  <1> DEFINE Holds == node.exec \in {"FAULT", "ABORTING"}
                        /\ node'.exec \notin {"FAULT", "ABORTING"}
                          => used'.resets = used.resets + 1
  <1>1. ExecInv /\ [ExecNext]_execVars => [Holds]_execVars
    <2> SUFFICES ASSUME ExecInv, ExecNext, node.exec \in {"FAULT", "ABORTING"},
                        node'.exec \notin {"FAULT", "ABORTING"}
                 PROVE  used'.resets = used.resets + 1
      OBVIOUS
    <2>1. /\ node \in Node
          /\ used \in [segments : Nat, presses : Nat, resets : Nat, aborts : Nat]
      BY DEF ExecInv, ExecTypeOK
    <2>2. CASE ResetCallback
      BY <2>1, <2>2 DEF ResetCallback
    <2>3. CASE SegmentCallback
      <3>1. ~StartsNow(node)
        BY DEF StartsNow
      <3>2. node'.exec = node.exec
        BY <2>1, <2>3, <3>1 DEF SegmentCallback, Node
      <3> QED BY <3>2
    <2>4. CASE ControlLoop
      BY <2>4 DEF ControlLoop
    <2>5. CASE JointStateCallback
      BY <2>1, <2>5 DEF JointStateCallback, Node
    <2>6. CASE EstopPressed
      BY <2>1, <2>6 DEF EstopPressed, Stopped, Node
    <2>7. CASE EstopReleased
      BY <2>1, <2>7 DEF EstopReleased, Released, Node
    <2>8. CASE AbortCallback
      BY <2>1, <2>8 DEF AbortCallback, Aborted, Node
    <2>9. CASE AdapterAbort \/ OnSegmentStatus \/ ActuatorMoves
      BY <2>9 DEF AdapterAbort, OnSegmentStatus, ActuatorMoves
    <2> QED BY <2>2, <2>3, <2>4, <2>5, <2>6, <2>7, <2>8, <2>9 DEF ExecNext
  <1> QED BY <1>1, ExecInvariant, PTL DEF ExecSpec, StopsHoldUntilReset
-----------------------------------------------------------------------------
(* The order of execution *)

InOrder(l) ==
    /\ \A i, j \in DOMAIN l :
           i < j /\ l[i].status = EXECUTING /\ l[j].status = EXECUTING => l[i].id < l[j].id
    /\ \A j \in DOMAIN l : l[j].status = COMPLETED =>
           \E i \in 1..j - 1 :
               /\ l[i] = Says(EXECUTING, l[j].id)
               /\ \A k \in i + 1..j - 1 : l[k].status \notin {EXECUTING, COMPLETED}

\* The last of what a log says of the progress of segments is that this one executes.
Executing(l, id) ==
    \E i \in DOMAIN l :
        /\ l[i] = Says(EXECUTING, id)
        /\ \A k \in i + 1..Len(l) : l[k].status \notin {EXECUTING, COMPLETED}

Begun(l) == {l[i].id : i \in {k \in DOMAIN l : l[k].status = EXECUTING}}

\* What waits is in the order of its numbers, after all that was executed; nothing has a number
\* that was not given.
Ahead(l, q, top) ==
    /\ \A e \in Begun(l) : e <= top
    /\ \A j \in DOMAIN q :
           /\ q[j].id <= top
           /\ \A e \in Begun(l) : e < q[j].id
           /\ \A i \in 1..j - 1 : q[i].id < q[j].id

\* The strengthening: with the order, the place of the queue behind the log and of the active
\* segment at its end.
OrderInv ==
    /\ InOrder(log)
    /\ Ahead(log, node.queue, used.segments)
    /\ node.exec = "RUNNING" => Executing(log, node.active.id)

\* A status that is about the progress of no segment changes neither order nor end.
LEMMA QuietStatus ==
    ASSUME NEW l \in Seq(Status), NEW s \in Status, s.status \notin {EXECUTING, COMPLETED},
           InOrder(l)
    PROVE  /\ InOrder(Append(l, s)) /\ Begun(Append(l, s)) = Begun(l)
           /\ \A id \in Nat : Executing(l, id) => Executing(Append(l, s), id)
  <1> DEFINE m == Append(l, s)
  <1>1. /\ m \in Seq(Status) /\ Len(m) = Len(l) + 1 /\ Len(l) \in Nat
        /\ DOMAIN l = 1..Len(l) /\ DOMAIN m = 1..Len(l) + 1
        /\ \A i \in 1..Len(l) : m[i] = l[i]
        /\ m[Len(l) + 1] = s
    OBVIOUS
  <1> HIDE DEF m
  <1>2. InOrder(m)
    <2>1. \A i, j \in DOMAIN m :
              i < j /\ m[i].status = EXECUTING /\ m[j].status = EXECUTING => m[i].id < m[j].id
      BY <1>1 DEF InOrder
    <2>2. ASSUME NEW j \in DOMAIN m, m[j].status = COMPLETED
          PROVE  \E i \in 1..j - 1 :
                     /\ m[i] = Says(EXECUTING, m[j].id)
                     /\ \A k \in i + 1..j - 1 : m[k].status \notin {EXECUTING, COMPLETED}
      <3>1. j \in 1..Len(l) /\ m[j] = l[j]
        BY <1>1, <2>2
      <3>2. PICK i \in 1..j - 1 :
                /\ l[i] = Says(EXECUTING, l[j].id)
                /\ \A k \in i + 1..j - 1 : l[k].status \notin {EXECUTING, COMPLETED}
        BY <1>1, <2>2, <3>1 DEF InOrder
      <3>3. m[i] = l[i] /\ \A k \in i + 1..j - 1 : m[k] = l[k]
        BY <1>1, <3>1
      <3> QED BY <3>1, <3>2, <3>3
    <2> QED BY <2>1, <2>2 DEF InOrder
  <1>3. Begun(m) = Begun(l)
    <2>1. \A i \in DOMAIN m : m[i].status = EXECUTING <=> i \in DOMAIN l /\ l[i].status = EXECUTING
      BY <1>1
    <2> QED BY <1>1, <2>1 DEF Begun
  <1>4. ASSUME NEW id \in Nat, Executing(l, id) PROVE Executing(m, id)
    <2>1. PICK i \in DOMAIN l :
              /\ l[i] = Says(EXECUTING, id)
              /\ \A k \in i + 1..Len(l) : l[k].status \notin {EXECUTING, COMPLETED}
      BY <1>4 DEF Executing
    <2>2. \A k \in i + 1..Len(m) : m[k].status \notin {EXECUTING, COMPLETED}
      BY <1>1, <2>1
    <2> QED BY <1>1, <2>1, <2>2 DEF Executing
  <1> QED BY <1>2, <1>3, <1>4 DEF m

\* The segment that executes may be completed.
LEMMA CompletedStatus ==
    ASSUME NEW l \in Seq(Status), NEW id \in Nat, InOrder(l), Executing(l, id)
    PROVE  LET m == Append(l, Says(COMPLETED, id))
           IN  InOrder(m) /\ Begun(m) = Begun(l) /\ m \in Seq(Status)
  <1> DEFINE s == Says(COMPLETED, id)
             m == Append(l, s)
  <1>0. s \in Status /\ s.status = COMPLETED /\ s.id = id /\ COMPLETED # EXECUTING
    BY DEF Says, Status, COMPLETED, EXECUTING
  <1> HIDE DEF s
  <1>1. /\ m \in Seq(Status) /\ Len(m) = Len(l) + 1 /\ Len(l) \in Nat
        /\ DOMAIN l = 1..Len(l) /\ DOMAIN m = 1..Len(l) + 1
        /\ \A i \in 1..Len(l) : m[i] = l[i]
        /\ m[Len(l) + 1] = s
    BY <1>0
  <1> HIDE DEF m
  <1>2. InOrder(m)
    <2>1. \A i, j \in DOMAIN m :
              i < j /\ m[i].status = EXECUTING /\ m[j].status = EXECUTING => m[i].id < m[j].id
      BY <1>0, <1>1 DEF InOrder
    <2>2. ASSUME NEW j \in DOMAIN m, m[j].status = COMPLETED
          PROVE  \E i \in 1..j - 1 :
                     /\ m[i] = Says(EXECUTING, m[j].id)
                     /\ \A k \in i + 1..j - 1 : m[k].status \notin {EXECUTING, COMPLETED}
      <3>1. CASE j \in 1..Len(l)
        <4>1. PICK i \in 1..j - 1 :
                  /\ l[i] = Says(EXECUTING, l[j].id)
                  /\ \A k \in i + 1..j - 1 : l[k].status \notin {EXECUTING, COMPLETED}
          BY <1>1, <2>2, <3>1 DEF InOrder
        <4>2. m[j] = l[j] /\ m[i] = l[i] /\ \A k \in i + 1..j - 1 : m[k] = l[k]
          BY <1>1, <3>1
        <4> QED BY <4>1, <4>2
      <3>2. CASE j = Len(l) + 1
        <4>1. PICK i \in DOMAIN l :
                  /\ l[i] = Says(EXECUTING, id)
                  /\ \A k \in i + 1..Len(l) : l[k].status \notin {EXECUTING, COMPLETED}
          BY DEF Executing
        <4>2. i \in 1..j - 1 /\ m[i] = l[i] /\ m[j].id = id
          BY <1>0, <1>1, <3>2
        <4>3. \A k \in i + 1..j - 1 : m[k].status \notin {EXECUTING, COMPLETED}
          BY <1>1, <3>2, <4>1
        <4> QED BY <4>1, <4>2, <4>3
      <3> QED BY <1>1, <3>1, <3>2
    <2> QED BY <2>1, <2>2 DEF InOrder
  <1>3. Begun(m) = Begun(l)
    <2>1. \A i \in DOMAIN m : m[i].status = EXECUTING <=> i \in DOMAIN l /\ l[i].status = EXECUTING
      BY <1>0, <1>1
    <2> QED BY <1>1, <2>1 DEF Begun
  <1> QED BY <1>1, <1>2, <1>3 DEF m, s

\* A segment that comes after all that were executed may be executed.
LEMMA ExecutingStatus ==
    ASSUME NEW l \in Seq(Status), NEW id \in Nat, InOrder(l), \A e \in Begun(l) : e < id
    PROVE  LET m == Append(l, Says(EXECUTING, id))
           IN  InOrder(m) /\ Begun(m) = Begun(l) \cup {id} /\ Executing(m, id)
  <1> DEFINE s == Says(EXECUTING, id)
             m == Append(l, s)
  <1>0. s \in Status /\ s.status = EXECUTING /\ s.id = id /\ COMPLETED # EXECUTING
    BY DEF Says, Status, COMPLETED, EXECUTING
  <1> HIDE DEF s
  <1>1. /\ m \in Seq(Status) /\ Len(m) = Len(l) + 1 /\ Len(l) \in Nat
        /\ DOMAIN l = 1..Len(l) /\ DOMAIN m = 1..Len(l) + 1
        /\ \A i \in 1..Len(l) : m[i] = l[i]
        /\ m[Len(l) + 1] = s
    BY <1>0
  <1> HIDE DEF m
  <1>2. InOrder(m)
    <2>1. ASSUME NEW i \in DOMAIN m, NEW j \in DOMAIN m, i < j, m[i].status = EXECUTING,
                 m[j].status = EXECUTING
          PROVE  m[i].id < m[j].id
      <3>1. i \in 1..Len(l) /\ m[i] = l[i]
        BY <1>1, <2>1
      <3>2. CASE j \in 1..Len(l)
        BY <1>1, <2>1, <3>1, <3>2 DEF InOrder
      <3>3. CASE j = Len(l) + 1
        <4>1. l[i].id \in Begun(l)
          BY <1>1, <2>1, <3>1 DEF Begun
        <4> QED BY <1>0, <1>1, <3>1, <3>3, <4>1
      <3> QED BY <1>1, <3>2, <3>3
    <2>2. ASSUME NEW j \in DOMAIN m, m[j].status = COMPLETED
          PROVE  \E i \in 1..j - 1 :
                     /\ m[i] = Says(EXECUTING, m[j].id)
                     /\ \A k \in i + 1..j - 1 : m[k].status \notin {EXECUTING, COMPLETED}
      <3>1. j \in 1..Len(l) /\ m[j] = l[j]
        BY <1>0, <1>1, <2>2
      <3>2. PICK i \in 1..j - 1 :
                /\ l[i] = Says(EXECUTING, l[j].id)
                /\ \A k \in i + 1..j - 1 : l[k].status \notin {EXECUTING, COMPLETED}
        BY <1>1, <2>2, <3>1 DEF InOrder
      <3>3. m[i] = l[i] /\ \A k \in i + 1..j - 1 : m[k] = l[k]
        BY <1>1, <3>1
      <3> QED BY <3>1, <3>2, <3>3
    <2> QED BY <2>1, <2>2 DEF InOrder
  <1>3. Begun(m) = Begun(l) \cup {id}
    <2>1. \A i \in DOMAIN m :
              m[i].status = EXECUTING <=>
                  (i \in DOMAIN l /\ l[i].status = EXECUTING) \/ i = Len(l) + 1
      BY <1>0, <1>1
    <2>2. \A i \in DOMAIN l : m[i].id = l[i].id
      BY <1>1
    <2>3. m[Len(l) + 1].id = id /\ Len(l) + 1 \in DOMAIN m /\ DOMAIN l \subseteq DOMAIN m
      BY <1>0, <1>1
    <2> QED BY <2>1, <2>2, <2>3 DEF Begun
  <1>4. Executing(m, id)
    <2>1. Len(l) + 1 \in DOMAIN m /\ m[Len(l) + 1] = Says(EXECUTING, id)
      BY <1>1 DEF s
    <2>2. \A k \in (Len(l) + 1) + 1..Len(m) : FALSE
      BY <1>1
    <2> QED BY <2>1, <2>2 DEF Executing
  <1> QED BY <1>2, <1>3, <1>4 DEF m, s

\* startNextSegment takes the first of the queue, and says so if it executes.
LEMMA StartedTakesFirst ==
    ASSUME NEW n \in Node, n.queue # <<>>
    PROVE  /\ Started(n).queue = Tail(n.queue)
           /\ Started(n).active = Head(n.queue)
           /\ StartStatus(n) = Says(IF Started(n).exec = "RUNNING" THEN EXECUTING ELSE FAILED,
                                    Head(n.queue).id)
           /\ Head(n.queue) \in Segment /\ Head(n.queue).id \in Nat
  <1> DEFINE p == Popped(n)
  <1>1. p \in Node /\ p.active = Head(n.queue)
    BY PoppedType
  <1>2. p.queue = Tail(n.queue)
    BY DEF Popped, Node
  <1>3. Head(n.queue) \in Segment
    BY DEF Node
  <1> HIDE DEF p
  <1>4. /\ Placed(p) \in Node /\ Placed(p).queue = p.queue /\ Placed(p).active = p.active
    BY <1>1, PlacedType
  <1>5. /\ [p EXCEPT !.exec = "FAULT"].queue = p.queue
        /\ [p EXCEPT !.exec = "FAULT"].active = p.active
    BY <1>1 DEF Node
  <1>6. Latched(p).queue = p.queue /\ Latched(p).active = p.active
    BY <1>4 DEF Latched, Node
  <1>7. Running(p).queue = p.queue /\ Running(p).active = p.active
    BY <1>4 DEF Running, Node
  <1>8. Started(n) \in {[p EXCEPT !.exec = "FAULT"], Latched(p), Running(p)}
    BY DEF Started, p
  <1>9. Started(n).queue = p.queue /\ Started(n).active = p.active
    BY <1>5, <1>6, <1>7, <1>8
  <1> QED BY <1>1, <1>2, <1>3, <1>9 DEF StartStatus, Segment

\* So the order survives a start.
LEMMA StartKeepsOrder ==
    ASSUME NEW n \in Node, n.queue # <<>>, NEW l \in Seq(Status), NEW top \in Nat,
           InOrder(l), Ahead(l, n.queue, top)
    PROVE  LET m == Append(l, StartStatus(n))
           IN  /\ InOrder(m)
               /\ Ahead(m, Started(n).queue, top)
               /\ Started(n).exec = "RUNNING" => Executing(m, Started(n).active.id)
  <1> DEFINE q == n.queue
             m == Append(l, StartStatus(n))
             h == Head(q)
  <1>1. /\ Started(n).queue = Tail(q) /\ Started(n).active = h
        /\ StartStatus(n) = Says(IF Started(n).exec = "RUNNING" THEN EXECUTING ELSE FAILED, h.id)
        /\ h \in Segment /\ h.id \in Nat
    BY StartedTakesFirst
  <1>2. q \in Seq(Segment) /\ q # <<>>
    BY DEF Node
  <1> HIDE DEF q
  <1>3. /\ h = q[1] /\ 1 \in DOMAIN q /\ Len(q) \in Nat /\ DOMAIN q = 1..Len(q)
        /\ Tail(q) \in Seq(Segment) /\ DOMAIN Tail(q) = 1..Len(q) - 1
        /\ \A j \in 1..Len(q) - 1 : Tail(q)[j] = q[j + 1]
    BY <1>2
  <1> HIDE DEF h
  <1>4. /\ h.id <= top /\ \A e \in Begun(l) : e < h.id
        /\ \A e \in Begun(l) : e <= top
    BY <1>3 DEF Ahead, q
  <1>5. \A j \in DOMAIN Tail(q) :
            /\ Tail(q)[j].id <= top
            /\ h.id < Tail(q)[j].id
            /\ \A e \in Begun(l) : e < Tail(q)[j].id
            /\ \A i \in 1..j - 1 : Tail(q)[i].id < Tail(q)[j].id
    <2> SUFFICES ASSUME NEW j \in 1..Len(q) - 1
                 PROVE  /\ q[j + 1].id <= top
                        /\ q[1].id < q[j + 1].id
                        /\ \A e \in Begun(l) : e < q[j + 1].id
                        /\ \A i \in 1..j - 1 : q[i + 1].id < q[j + 1].id
      <3>1. \A j \in 1..Len(q) - 1 : Tail(q)[j] = q[j + 1] /\ 1..j - 1 \subseteq 1..Len(q) - 1
        BY <1>3
      <3>2. DOMAIN Tail(q) = 1..Len(q) - 1 /\ h = q[1]
        BY <1>3
      <3> HIDE DEF q, m
      <3> QED BY <3>1, <3>2
    <2>1. j + 1 \in DOMAIN q /\ 1 \in 1..(j + 1) - 1 /\ \A i \in 1..j - 1 : i + 1 \in 1..(j + 1) - 1
      BY <1>3
    <2>2. /\ q[j + 1].id <= top
          /\ \A e \in Begun(l) : e < q[j + 1].id
          /\ \A i \in 1..(j + 1) - 1 : q[i].id < q[j + 1].id
      BY <2>1 DEF Ahead, q
    <2> QED BY <2>1, <2>2
  <1>6. CASE Started(n).exec = "RUNNING"
    <2>1. InOrder(m) /\ Begun(m) = Begun(l) \cup {h.id} /\ Executing(m, h.id)
      BY <1>1, <1>4, <1>6, ExecutingStatus
    <2>2. Ahead(m, Tail(q), top)
      BY <1>4, <1>5, <2>1 DEF Ahead
    <2> QED BY <1>1, <2>1, <2>2
  <1>7. CASE Started(n).exec # "RUNNING"
    <2>1. StartStatus(n) \in Status /\ StartStatus(n).status \notin {EXECUTING, COMPLETED}
      BY <1>1, <1>7 DEF Says, Status, FAILED, EXECUTING, COMPLETED
    <2>2. InOrder(m) /\ Begun(m) = Begun(l)
      BY <2>1, QuietStatus
    <2>3. Ahead(m, Tail(q), top)
      BY <1>4, <1>5, <2>2 DEF Ahead
    <2> QED BY <1>1, <1>7, <2>2, <2>3
  <1> QED BY <1>6, <1>7

LEMMA OrderTypes ==
    ASSUME ExecInv
    PROVE  /\ node \in Node /\ node.queue \in Seq(Segment) /\ node.active.id \in Nat
           /\ log \in Seq(Status) /\ used.segments \in Nat
  BY DEF ExecInv, ExecTypeOK, Node, Segment

\* A log that is longer by one or two, seen as one status after the other.
LEMMA AppendTwice ==
    ASSUME NEW l \in Seq(Status), NEW s, NEW t
    PROVE  l \o <<s, t>> = Append(Append(l, s), t)
  OBVIOUS

LEMMA OrderInit == ExecInit => OrderInv
  <1> SUFFICES ASSUME ExecInit PROVE OrderInv
    OBVIOUS
  <1>1. log = <<>> /\ node.queue = <<>> /\ node.exec = "IDLE" /\ DOMAIN log = {}
        /\ DOMAIN node.queue = {}
    BY DEF ExecInit
  <1> QED BY <1>1 DEF OrderInv, InOrder, Ahead, Begun

\* The queue with one more segment, whose number is new.
LEMMA QueuedAhead ==
    ASSUME NEW l \in Seq(Status), NEW q \in Seq(Segment), NEW top \in Nat, Ahead(l, q, top),
           Begun(l) \subseteq Nat,
           NEW seg \in Segment, seg.id = top + 1
    PROVE  Ahead(l, Append(q, seg), top + 1) /\ Ahead(l, q, top + 1)
  <1> DEFINE r == Append(q, seg)
  <1>1. /\ Len(q) \in Nat /\ DOMAIN q = 1..Len(q) /\ DOMAIN r = 1..Len(q) + 1
        /\ \A i \in 1..Len(q) : r[i] = q[i] /\ q[i] \in Segment
        /\ r[Len(q) + 1] = seg
    OBVIOUS
  <1> HIDE DEF r
  <1>0. \A i \in 1..Len(q) : q[i].id \in Nat
    BY <1>1 DEF Segment
  <1>2. /\ \A e \in Begun(l) : e <= top + 1 /\ e < top + 1
        /\ \A j \in 1..Len(q) : q[j].id <= top + 1 /\ q[j].id < top + 1
    <2>1. \A e \in Begun(l) : e \in Nat /\ e <= top
      BY DEF Ahead
    <2>2. \A j \in 1..Len(q) : q[j].id \in Nat /\ q[j].id <= top
      BY <1>0, <1>1 DEF Ahead
    <2> QED BY <2>1, <2>2
  <1>3. \A j \in 1..Len(q) + 1 :
            /\ r[j].id <= top + 1
            /\ \A e \in Begun(l) : e < r[j].id
            /\ \A i \in 1..j - 1 : r[i].id < r[j].id
    <2> TAKE j \in 1..Len(q) + 1
    <2>1. CASE j \in 1..Len(q)
      <3>1. \A i \in 1..j - 1 : i \in 1..Len(q)
        BY <1>1, <2>1
      <3>2. \A i \in 1..j - 1 : q[i].id < q[j].id
        BY <1>1, <2>1 DEF Ahead
      <3>3. \A e \in Begun(l) : e < q[j].id
        BY <1>1, <2>1 DEF Ahead
      <3> QED BY <1>1, <1>2, <2>1, <3>1, <3>2, <3>3
    <2>2. CASE j = Len(q) + 1
      <3>1. \A i \in 1..j - 1 : r[i] = q[i] /\ q[i].id < top + 1
        BY <1>1, <1>2, <2>2
      <3> QED BY <1>1, <1>2, <2>2, <3>1
    <2> QED BY <1>1, <2>1, <2>2
  <1>4. Ahead(l, r, top + 1)
    <2>1. \A e \in Begun(l) : e <= top + 1
      BY <1>2
    <2> QED BY <1>1, <1>3, <2>1 DEF Ahead
  <1>5. Ahead(l, q, top + 1)
    BY <1>1, <1>2 DEF Ahead
  <1> QED BY <1>4, <1>5 DEF r

LEMMA BegunType == ASSUME NEW l \in Seq(Status) PROVE Begun(l) \subseteq Nat
  <1>1. \A i \in DOMAIN l : l[i] \in Status
    OBVIOUS
  <1>2. \A i \in DOMAIN l : l[i].id \in Nat
    BY <1>1 DEF Status
  <1> QED BY <1>2 DEF Begun

LEMMA SegmentCallbackOrder == ASSUME ExecInv, OrderInv, SegmentCallback PROVE OrderInv'
  <1>1. PICK s \in Shapes :
          LET seg == [id |-> used.segments + 1, joint |-> s.joint, target |-> s.target,
                      speed |-> s.speed]
              queued == [node EXCEPT !.queue = Append(@, seg)]
          IN  /\ used' = [used EXCEPT !.segments = @ + 1]
              /\ \/ Rejects(node) /\ log' = Append(log, Says(FAILED, seg.id)) /\ node' = node
                 \/ /\ ~Rejects(node) /\ StartsNow(node)
                    /\ node' = Started(queued)
                    /\ log' = log \o <<Says(QUEUED, seg.id), StartStatus(queued)>>
                 \/ /\ ~Rejects(node) /\ ~StartsNow(node)
                    /\ node' = queued
                    /\ log' = Append(log, Says(QUEUED, seg.id))
    BY DEF SegmentCallback
  <1> DEFINE seg == [id |-> used.segments + 1, joint |-> s.joint, target |-> s.target,
                     speed |-> s.speed]
             queued == [node EXCEPT !.queue = Append(@, seg)]
             failed == Says(FAILED, seg.id)
             waits == Says(QUEUED, seg.id)
  <1> USE OrderTypes
  <1>2. s \in [joint : Joints, target : Int, speed : Nat]
    BY JointAssumption
  <1>3. seg \in Segment /\ seg.id = used.segments + 1
    BY <1>2 DEF Segment
  <1>4. used'.segments = used.segments + 1
    BY <1>1 DEF ExecInv, ExecTypeOK
  <1>5. /\ failed \in Status /\ failed.status \notin {EXECUTING, COMPLETED}
        /\ waits \in Status /\ waits.status \notin {EXECUTING, COMPLETED}
    BY DEF Says, Status, FAILED, QUEUED, EXECUTING, COMPLETED
  <1>6. InOrder(log) /\ Ahead(log, node.queue, used.segments)
    BY DEF OrderInv
  <1>7. /\ Ahead(log, Append(node.queue, seg), used'.segments)
        /\ Ahead(log, node.queue, used'.segments)
    BY <1>3, <1>4, <1>6, QueuedAhead, BegunType
  <1>8. /\ queued.queue = Append(node.queue, seg) /\ queued.exec = node.exec
        /\ queued.active = node.active /\ queued.queue # <<>> /\ queued \in Node
    <2> HIDE DEF seg
    <2>1. Append(node.queue, seg) \in Seq(Segment) /\ Append(node.queue, seg) # <<>>
      BY <1>3
    <2> QED BY <2>1 DEF Node
  <1> HIDE DEF queued, failed, waits, seg
  <1>9. CASE node' = node /\ log' = Append(log, failed)
    <2>1. InOrder(log') /\ Begun(log') = Begun(log)
      BY <1>5, <1>6, <1>9, QuietStatus
    <2>2. node.exec = "RUNNING" => Executing(log', node.active.id)
      BY <1>5, <1>6, <1>9, QuietStatus DEF OrderInv
    <2> QED BY <1>7, <1>9, <2>1, <2>2 DEF OrderInv, Ahead
  <1>10. CASE node' = queued /\ log' = Append(log, waits)
    <2>1. InOrder(log') /\ Begun(log') = Begun(log)
      BY <1>5, <1>6, <1>10, QuietStatus
    <2>2. node.exec = "RUNNING" => Executing(log', node.active.id)
      BY <1>5, <1>6, <1>10, QuietStatus DEF OrderInv
    <2> QED BY <1>7, <1>8, <1>10, <2>1, <2>2 DEF OrderInv, Ahead
  <1>11. CASE node' = Started(queued) /\ log' = log \o <<waits, StartStatus(queued)>>
    <2>1. log' = Append(Append(log, waits), StartStatus(queued))
      BY <1>11, AppendTwice
    <2>2. /\ InOrder(Append(log, waits)) /\ Begun(Append(log, waits)) = Begun(log)
          /\ Append(log, waits) \in Seq(Status)
      BY <1>5, <1>6, QuietStatus
    <2>3. Ahead(Append(log, waits), queued.queue, used'.segments)
      BY <1>7, <1>8, <2>2 DEF Ahead
    <2>4. used'.segments \in Nat
      BY <1>4
    <2> QED BY <1>8, <1>11, <2>1, <2>2, <2>3, <2>4, StartKeepsOrder DEF OrderInv
  <1> QED BY <1>1, <1>9, <1>10, <1>11 DEF queued, failed, waits, seg

LEMMA ControlLoopOrder == ASSUME ExecInv, OrderInv, ControlLoop PROVE OrderInv'
  <1> DEFINE n == [node EXCEPT !.q = Stepped(node)]
             done == Append(log, Says(COMPLETED, node.active.id))
  <1> USE OrderTypes
  <1>1. /\ n \in Node /\ n.queue = node.queue /\ n.exec = node.exec /\ n.active = node.active
    BY SteppedType DEF Node
  <1>2. node.exec = "RUNNING" /\ used' = used
    BY DEF ControlLoop
  <1>3. /\ InOrder(log) /\ Ahead(log, node.queue, used.segments)
        /\ Executing(log, node.active.id)
    BY <1>2 DEF OrderInv
  <1>4. InOrder(done) /\ Begun(done) = Begun(log) /\ done \in Seq(Status)
    BY <1>3, CompletedStatus
  <1>5. Ahead(done, node.queue, used.segments)
    BY <1>3, <1>4 DEF Ahead
  <1>6. CASE node' = n /\ log' = log
    BY <1>1, <1>2, <1>3, <1>6 DEF OrderInv
  <1>7. CASE node.queue = <<>> /\ node' = [n EXCEPT !.exec = "IDLE"] /\ log' = done
    <2>1. node'.queue = node.queue /\ node'.exec = "IDLE"
      BY <1>1, <1>7 DEF Node
    <2> QED BY <1>2, <1>4, <1>5, <1>7, <2>1 DEF OrderInv
  <1>8. CASE /\ node.queue # <<>> /\ node' = Started(n)
             /\ log' = log \o <<Says(COMPLETED, node.active.id), StartStatus(n)>>
    <2> HIDE DEF n
    <2>1. log' = Append(done, StartStatus(n))
      BY <1>8, AppendTwice
    <2> HIDE DEF done
    <2> QED BY <1>1, <1>2, <1>4, <1>5, <1>8, <2>1, StartKeepsOrder DEF OrderInv
  <1> QED BY <1>6, <1>7, <1>8 DEF ControlLoop

\* A stop or a reset: nothing waits and nothing runs afterwards.
LEMMA EmptiedOrder ==
    ASSUME ExecInv, OrderInv, node'.queue = <<>>, node'.exec # "RUNNING",
           used'.segments = used.segments, NEW s \in Status,
           s.status \notin {EXECUTING, COMPLETED}, log' \in {log, Append(log, s)}
    PROVE  OrderInv'
  <1> USE OrderTypes
  <1>1. InOrder(log) /\ \A e \in Begun(log) : e <= used.segments
    BY DEF OrderInv, Ahead
  <1>2. InOrder(log') /\ Begun(log') = Begun(log)
    BY <1>1, QuietStatus
  <1>3. DOMAIN node'.queue = {}
    OBVIOUS
  <1> QED BY <1>1, <1>2, <1>3 DEF OrderInv, Ahead

LEMMA StopsOrder ==
    ASSUME ExecInv, OrderInv, ResetCallback \/ EstopPressed \/ AbortCallback
    PROVE  OrderInv'
  <1> USE OrderTypes
  <1>1. used'.segments = used.segments
    BY DEF ResetCallback, EstopPressed, AbortCallback, ExecInv, ExecTypeOK
  <1>2. \A i \in Nat : /\ Says(RESET, i) \in Status /\ Says(FAILED, i) \in Status
                       /\ Says(RESET, i).status \notin {EXECUTING, COMPLETED}
                       /\ Says(FAILED, i).status \notin {EXECUTING, COMPLETED}
    BY DEF Says, Status, RESET, FAILED, EXECUTING, COMPLETED
  <1>3. CASE node' = node /\ log' = log
    BY <1>1, <1>3 DEF OrderInv
  <1>4. CASE node' = Cleared(node) /\ log' = Append(log, Says(RESET, 0))
    <2>1. node'.queue = <<>> /\ node'.exec = "IDLE"
      BY <1>4 DEF Cleared, ClearedQueueKept, Node
    <2> QED BY <1>1, <1>2, <1>4, <2>1, EmptiedOrder
  <1>5. CASE node' = Stopped(node) /\ log' = Append(log, Says(FAILED, node.active.id))
    <2>1. node'.queue = <<>> /\ node'.exec = "FAULT"
      BY <1>5 DEF Stopped, Node
    <2> QED BY <1>1, <1>2, <1>5, <2>1, EmptiedOrder
  <1>6. CASE node' = Aborted(node) /\ log' = log
    <2>1. node'.queue = <<>> /\ node'.exec = "ABORTING"
      BY <1>6 DEF Aborted, Node
    <2> QED BY <1>1, <1>2, <1>6, <2>1, EmptiedOrder
  <1> QED BY <1>3, <1>4, <1>5, <1>6 DEF ResetCallback, EstopPressed, AbortCallback

\* The order is about nothing that the other steps change.
LEMMA OthersOrder ==
    ASSUME ExecInv, OrderInv,
           JointStateCallback \/ EstopReleased \/ AdapterAbort \/ OnSegmentStatus
           \/ ActuatorMoves \/ UNCHANGED execVars
    PROVE  OrderInv'
  <1> USE OrderTypes
  <1>1. log' = log /\ used' = used
    BY DEF JointStateCallback, EstopReleased, AdapterAbort, OnSegmentStatus, ActuatorMoves,
           execVars
  <1>2. node'.queue = node.queue /\ node'.exec = node.exec /\ node'.active = node.active
    <2>1. CASE JointStateCallback
      BY <2>1 DEF JointStateCallback, Node
    <2>2. CASE EstopReleased
      BY <2>2 DEF EstopReleased, Released, Node
    <2>3. CASE node' = node
      BY <2>3
    <2> QED BY <2>1, <2>2, <2>3 DEF AdapterAbort, OnSegmentStatus, ActuatorMoves, execVars
  <1> QED BY <1>1, <1>2 DEF OrderInv

LEMMA OrderInvariant == ExecSpec => [](ExecInv /\ OrderInv)
  <1>1. ExecInv /\ OrderInv /\ [ExecNext]_execVars => OrderInv'
    BY SegmentCallbackOrder, ControlLoopOrder, StopsOrder, OthersOrder DEF ExecNext
  <1> QED BY <1>1, OrderInit, ExecInitInv, ExecStep, PTL DEF ExecSpec

\* controlLoop and segmentCallback hand the segments of segment_queue_ to startNextSegment one
\* at a time and in the order in which they were published; none executes twice, and only the
\* one that executes is reported as completed, whatever stops and resets come in between.
THEOREM ExecExecutesInOrder == ExecSpec => []ExecutesInOrder
  <1>1. OrderInv => ExecutesInOrder
    BY DEF OrderInv, InOrder, ExecutesInOrder
  <1> QED BY <1>1, OrderInvariant, PTL
-----------------------------------------------------------------------------
(* The results of the adapter *)

\* What was completed later has the higher number.
LEMMA CompletionsIncrease ==
    ASSUME NEW l \in Seq(Status), InOrder(l), NEW i \in DOMAIN l, NEW j \in DOMAIN l, i < j,
           l[i].status = COMPLETED, l[j].status = COMPLETED
    PROVE  l[i].id < l[j].id
  <1>1. PICK e \in 1..i - 1 :
            /\ l[e] = Says(EXECUTING, l[i].id)
            /\ \A k \in e + 1..i - 1 : l[k].status \notin {EXECUTING, COMPLETED}
    BY DEF InOrder
  <1>2. PICK f \in 1..j - 1 :
            /\ l[f] = Says(EXECUTING, l[j].id)
            /\ \A k \in f + 1..j - 1 : l[k].status \notin {EXECUTING, COMPLETED}
    BY DEF InOrder
  <1>3. i \in Nat /\ j \in Nat /\ e \in DOMAIN l /\ f \in DOMAIN l
    BY <1>1, <1>2
  <1>4. ~(i \in f + 1..j - 1)
    BY <1>2
  <1>5. i # f
    BY <1>2 DEF Says, EXECUTING, COMPLETED
  <1>6. e < f
    BY <1>1, <1>2, <1>3, <1>4, <1>5
  <1>7. l[e].status = EXECUTING /\ l[f].status = EXECUTING /\ l[e].id = l[i].id
        /\ l[f].id = l[j].id
    BY <1>1, <1>2 DEF Says
  <1> QED BY <1>3, <1>6, <1>7 DEF InOrder

\* The log only grows.
LEMMA LogOnlyGrows ==
    ASSUME ExecInv, [ExecNext]_execVars
    PROVE  \A i \in 1..Len(log) : log'[i] = log[i]
  <1> USE OrderTypes
  <1>1. \/ log' = log \/ \E s : log' = Append(log, s) \/ \E u, v : log' = log \o <<u, v>>
    BY DEF ExecNext, SegmentCallback, JointStateCallback, ControlLoop, ResetCallback,
           EstopPressed, EstopReleased, AbortCallback, AdapterAbort, OnSegmentStatus,
           ActuatorMoves, execVars
  <1>2. ASSUME NEW s, log' = Append(log, s) PROVE \A i \in 1..Len(log) : log'[i] = log[i]
    BY <1>2
  <1>3. ASSUME NEW u, NEW v, log' = log \o <<u, v>>
        PROVE  \A i \in 1..Len(log) : log'[i] = log[i]
    BY <1>3
  <1> QED BY <1>1, <1>2, <1>3

LEMMA SameCompletions ==
    ASSUME ExecInv, [ExecNext]_execVars, NEW n \in 0..Len(log)
    PROVE  CompletedIn(n)' = CompletedIn(n)
  <1>1. \A i \in 1..n : log'[i] = log[i]
    BY OrderTypes, LogOnlyGrows
  <1> QED BY <1>1 DEF CompletedIn

\* The next status adds its number to the completions, if it is one, and this is the highest.
LEMMA OneMoreCompleted ==
    ASSUME ExecInv, OrderInv, seen < Len(log)
    PROVE  LET s == log[seen + 1]
           IN  /\ s \in Status
               /\ s.status = COMPLETED =>
                      /\ CompletedIn(seen + 1) = CompletedIn(seen) \cup {s.id}
                      /\ \A c \in CompletedIn(seen) : c < s.id
               /\ s.status # COMPLETED => CompletedIn(seen + 1) = CompletedIn(seen)
  <1> DEFINE s == log[seen + 1]
  <1>1. /\ log \in Seq(Status) /\ seen \in 0..Len(log) /\ InOrder(log)
        /\ seen + 1 \in DOMAIN log /\ seen \in Nat /\ s \in Status
    BY DEF ExecInv, ExecTypeOK, OrderInv
  <1>2. 1..(seen + 1) = (1..seen) \cup {seen + 1}
    BY <1>1
  <1>3. CASE s.status = COMPLETED
    <2>1. \A c \in CompletedIn(seen) : c < s.id
      <3> SUFFICES ASSUME NEW i \in 1..seen, log[i].status = COMPLETED
                   PROVE  log[i].id < s.id
        BY DEF CompletedIn
      <3>1. i \in DOMAIN log /\ i < seen + 1
        BY <1>1
      <3> QED BY <1>1, <1>3, <3>1, CompletionsIncrease
    <2>2. CompletedIn(seen + 1) = CompletedIn(seen) \cup {s.id}
      BY <1>2, <1>3 DEF CompletedIn
    <2> QED BY <1>1, <1>3, <2>1, <2>2
  <1>4. CASE s.status # COMPLETED
    BY <1>1, <1>2, <1>4 DEF CompletedIn
  <1> QED BY <1>3, <1>4

LEMMA OnSegmentStatusResults ==
    ASSUME ExecInv, OrderInv, ResultsAreCompletions, OnSegmentStatus
    PROVE  ResultsAreCompletions'
  <1> DEFINE s == log[seen + 1]
  <1>1. seen < Len(log) /\ seen' = seen + 1 /\ log' = log /\ abort_active' = abort_active
    BY DEF OnSegmentStatus
  <1>2. results \in Seq(Nat) /\ s \in Status
    BY <1>1, OneMoreCompleted DEF ExecInv, ExecTypeOK
  <1>3. CompletedIn(seen)' = CompletedIn(seen + 1)
    BY <1>1 DEF CompletedIn
  <1>4. CASE s.status = COMPLETED /\ ~abort_active
    <2>1. results' = Append(results, s.id)
      BY <1>2, <1>4 DEF OnSegmentStatus, ResultOf
    <2>2. s.id \in Nat
      BY <1>2 DEF Status
    <2> HIDE DEF s
    <2>3. /\ Len(results) \in Nat /\ DOMAIN results = 1..Len(results)
          /\ DOMAIN results' = 1..Len(results) + 1
          /\ \A i \in 1..Len(results) : results'[i] = results[i]
          /\ results'[Len(results) + 1] = s.id
      BY <1>2, <2>1, <2>2
    <2>4. /\ CompletedIn(seen + 1) = CompletedIn(seen) \cup {s.id}
          /\ \A c \in CompletedIn(seen) : c < s.id
      BY <1>1, <1>4, OneMoreCompleted DEF s
    <2>5. Range(results) = CompletedIn(seen)
      BY <1>4 DEF ResultsAreCompletions
    <2>6. Range(results') = Range(results) \cup {s.id}
      BY <2>3 DEF Range
    <2>7. Range(results)' = CompletedIn(seen)'
      BY <1>3, <2>4, <2>5, <2>6
    <2>8. ASSUME NEW i \in DOMAIN results', NEW j \in DOMAIN results', i < j
          PROVE  results'[i] < results'[j]
      <3>1. i \in 1..Len(results) /\ results'[i] = results[i]
        BY <2>3, <2>8
      <3>2. CASE j \in 1..Len(results)
        BY <2>3, <2>8, <3>1, <3>2 DEF ResultsAreCompletions
      <3>3. CASE j = Len(results) + 1
        <4>1. results[i] \in CompletedIn(seen)
          BY <2>3, <2>5, <3>1 DEF Range
        <4> QED BY <2>3, <2>4, <3>1, <3>3, <4>1
      <3> QED BY <2>3, <3>2, <3>3
    <2> QED BY <2>7, <2>8 DEF ResultsAreCompletions
  <1>5. CASE ~(s.status = COMPLETED /\ ~abort_active)
    <2>1. results' = results
      BY <1>2, <1>5 DEF OnSegmentStatus, ResultOf
    <2>2. CASE s.status # COMPLETED
      <3>1. CompletedIn(seen)' = CompletedIn(seen)
        BY <1>1, <1>3, <2>2, OneMoreCompleted
      <3> QED BY <1>1, <2>1, <3>1 DEF ResultsAreCompletions
    <2>3. CASE s.status = COMPLETED /\ abort_active
      <3>1. /\ CompletedIn(seen)' = CompletedIn(seen) \cup {s.id}
            /\ \A c \in CompletedIn(seen) : c < s.id
        BY <1>1, <1>3, <2>3, OneMoreCompleted
      <3>2. CompletedIn(seen) \subseteq Nat
        <4>1. log \in Seq(Status) /\ seen \in 0..Len(log)
          BY DEF ExecInv, ExecTypeOK
        <4>2. \A i \in 1..seen : log[i] \in Status
          BY <4>1
        <4> QED BY <4>2 DEF CompletedIn, Status
      <3>3. s.id \in Nat
        BY <1>2 DEF Status
      <3>4. \A r \in Range(results) : r \in CompletedIn(seen) /\ ~(s.id < r)
        BY <3>1, <3>2, <3>3 DEF ResultsAreCompletions
      <3> HIDE DEF s
      <3> QED BY <1>1, <2>1, <2>3, <3>1, <3>4 DEF ResultsAreCompletions
    <2> QED BY <1>5, <2>2, <2>3
  <1> QED BY <1>4, <1>5

LEMMA ResultsStep ==
    ExecInv /\ OrderInv /\ ResultsAreCompletions /\ [ExecNext]_execVars => ResultsAreCompletions'
  <1> SUFFICES ASSUME ExecInv, OrderInv, ResultsAreCompletions, [ExecNext]_execVars
               PROVE  ResultsAreCompletions'
    OBVIOUS
  <1>1. CASE OnSegmentStatus
    BY <1>1, OnSegmentStatusResults
  <1>2. CASE ~OnSegmentStatus
    <2>1. results' = results /\ seen' = seen /\ (abort_active' = abort_active \/ abort_active')
      BY <1>2 DEF ExecNext, SegmentCallback, JointStateCallback, ControlLoop, ResetCallback,
             EstopPressed, EstopReleased, AbortCallback, AdapterAbort, ActuatorMoves, execVars
    <2>2. seen \in 0..Len(log)
      BY DEF ExecInv, ExecTypeOK
    <2>3. CompletedIn(seen)' = CompletedIn(seen)
      BY <2>1, <2>2, SameCompletions DEF CompletedIn
    <2> QED BY <2>1, <2>3 DEF ResultsAreCompletions
  <1> QED BY <1>1, <1>2

LEMMA ResultsInit == ExecInit => ResultsAreCompletions
  <1> SUFFICES ASSUME ExecInit PROVE ResultsAreCompletions
    OBVIOUS
  <1>1. results = <<>> /\ DOMAIN results = {} /\ seen = 0 /\ 1..0 = {}
    BY DEF ExecInit
  <1> QED BY <1>1 DEF ResultsAreCompletions, Range, CompletedIn

\* The motion result adapter reports each completion of the executor once and in order, until it
\* hears of an abort and nothing after it, however far its callback is behind the executor.
THEOREM ExecResultsAreCompletions == ExecSpec => []ResultsAreCompletions
  BY ResultsInit, ResultsStep, OrderInvariant, PTL DEF ExecSpec
-----------------------------------------------------------------------------
(* Where the joints are sent *)

\* A segment for a joint without a soft-limit check of its own still ends within lo..hi.
EndsWithin(s, lo, hi) == s.joint \notin Structural => s.target \in lo..hi

\* Nothing the next step of the loop or the next start could take a position from is outside.
KeepsWithin(n, lo, hi) ==
    /\ n.q \in lo..hi /\ n.previous \in lo..hi
    /\ \A j \in Configured : n.last[j] \in lo..hi
    /\ \A i \in DOMAIN n.queue : EndsWithin(n.queue[i], lo, hi)
    /\ n.exec = "RUNNING" => n.active.target \in lo..hi

JointsWithin(lo, hi) ==
    \A j \in Configured : joints.at[j] \in lo..hi /\ joints.commanded[j] \in lo..hi
CommandsWithin(lo, hi) == \A j \in Configured : joints.commanded[j] \in lo..hi

\* What the configuration and the publishers have to keep to.
LimitsWithin(lo, hi) ==
    /\ lo \in Int /\ hi \in Int /\ 0 \in lo..hi
    /\ \A j \in Structural : SoftLimits[j] \subseteq lo..hi
    /\ \A s \in Shapes : EndsWithin(s, lo, hi)

\* A segment starts from within and, if it runs, ends within.
LEMMA StartedKeepsWithin ==
    ASSUME NEW lo, NEW hi, LimitsWithin(lo, hi),
           NEW n \in Node, n.queue # <<>>,
           KeepsWithin(n, lo, hi)
    PROVE  KeepsWithin(Started(n), lo, hi)
  <1> DEFINE p == Popped(n)
  <1>1. /\ p \in Node /\ p.active = Head(n.queue) /\ p.queue = Tail(n.queue)
        /\ p.q = n.q /\ p.previous = n.previous /\ p.last = n.last
    <2>1. p \in Node
      BY PoppedType
    <2>2. /\ p.active = Head(n.queue) /\ p.queue = Tail(n.queue)
          /\ p.q = n.q /\ p.previous = n.previous /\ p.last = n.last
      BY DEF Popped, Node
    <2> QED BY <2>1, <2>2
  <1>2. EndsWithin(p.active, lo, hi)
        /\ \A i \in DOMAIN p.queue : EndsWithin(p.queue[i], lo, hi)
    <2>1. n.queue \in Seq(Segment) /\ Len(n.queue) # 0
      BY DEF Node
    <2>2. /\ Head(n.queue) = n.queue[1] /\ 1 \in DOMAIN n.queue
          /\ \A i \in DOMAIN Tail(n.queue) : /\ Tail(n.queue)[i] = n.queue[i + 1]
                                             /\ i + 1 \in DOMAIN n.queue
      BY <2>1
    <2> HIDE DEF p
    <2> QED BY <1>1, <2>2 DEF KeepsWithin
  <1> HIDE DEF p
  <1>3. StartPosition(p) \in lo..hi
    BY <1>1 DEF StartPosition, KeepsWithin, LimitsWithin
  <1>4. CASE ~MayMove(p)
    <2>1. Started(n) = [p EXCEPT !.exec = "FAULT"]
      BY <1>4 DEF Started, p
    <2> QED BY <1>1, <1>2, <2>1 DEF KeepsWithin, Node
  <1>5. /\ Placed(p) \in Node /\ Placed(p).q = StartPosition(p)
        /\ Placed(p).queue = p.queue /\ Placed(p).active = p.active
        /\ Placed(p).previous = p.previous /\ Placed(p).last = p.last
    <2>1. Placed(p) \in Node
      BY <1>1, PlacedType
    <2>2. /\ Placed(p).q = StartPosition(p)
          /\ Placed(p).queue = p.queue /\ Placed(p).active = p.active
          /\ Placed(p).previous = p.previous /\ Placed(p).last = p.last
      BY <1>1 DEF Placed, Node
    <2> QED BY <2>1, <2>2
  <1>6. CASE MayMove(p) /\ BeyondLimit(p)
    <2>1. Started(n) = Latched(p)
      BY <1>6 DEF Started, p
    <2>2. /\ Latched(p).exec = "FAULT" /\ Latched(p).q = StartPosition(p)
          /\ Latched(p).queue = p.queue
          /\ Latched(p).previous = p.previous /\ Latched(p).last = p.last
      BY <1>5 DEF Latched, Node
    <2> QED BY <1>1, <1>2, <1>3, <2>1, <2>2 DEF KeepsWithin
  <1>7. CASE MayMove(p) /\ ~BeyondLimit(p)
    <2>1. Started(n) = Running(p)
      BY <1>7 DEF Started, p
    <2>2. /\ Running(p).active = p.active /\ Running(p).q = StartPosition(p)
          /\ Running(p).queue = p.queue
          /\ Running(p).previous = p.active.target /\ Running(p).last = p.last
      BY <1>5 DEF Running, Node
    <2>3. p.active.target \in lo..hi
      <3>1. CASE p.active.joint \in Structural
        BY <1>7, <3>1, JointAssumption DEF BeyondLimit, LimitsWithin
      <3>2. CASE p.active.joint \notin Structural
        BY <1>2, <3>2 DEF EndsWithin
      <3> QED BY <3>1, <3>2
    <2> QED BY <1>1, <1>2, <1>3, <2>1, <2>2, <2>3 DEF KeepsWithin
  <1> QED BY <1>4, <1>6, <1>7

\* A step of the loop ends on the target or between it and where the joint was.
LEMMA SteppedWithin ==
    ASSUME NEW lo \in Int, NEW hi \in Int, NEW n \in Node,
           n.q \in lo..hi, n.active.target \in lo..hi
    PROVE  Stepped(n) \in lo..hi
  <1>1. n.active.speed \in Nat
    BY DEF Node, Segment
  <1> DEFINE v == n.active.speed  t == n.active.target  q == n.q
  <1>2. ~(t - q \in -v..v) /\ t > q => q + v \in lo..hi
    BY <1>1
  <1>3. ~(t - q \in -v..v) /\ ~(t > q) => q - v \in lo..hi
    BY <1>1
  <1> QED BY <1>2, <1>3 DEF Stepped, Reached

\* An element of a longer queue is the new one or one of those before.
LEMMA AppendedElements ==
    ASSUME NEW S, NEW seq \in Seq(S), NEW e \in S
    PROVE  /\ Append(seq, e) \in Seq(S) /\ Append(seq, e) # <<>>
           /\ \A i \in DOMAIN Append(seq, e) :
                  \/ Append(seq, e)[i] = e
                  \/ i \in DOMAIN seq /\ Append(seq, e)[i] = seq[i]
  <1>1. /\ Append(seq, e) \in Seq(S) /\ Append(seq, e) # <<>>
        /\ Len(seq) \in Nat /\ DOMAIN seq = 1..Len(seq)
        /\ DOMAIN Append(seq, e) = 1..Len(seq) + 1
        /\ Append(seq, e)[Len(seq) + 1] = e
    OBVIOUS
  <1>2. \A i \in 1..Len(seq) : Append(seq, e)[i] = seq[i]
    OBVIOUS
  <1>3. \A i \in 1..Len(seq) + 1 : i \in 1..Len(seq) \/ i = Len(seq) + 1
    BY <1>1
  <1> QED BY <1>1, <1>2, <1>3, Zenon

LEMMA SegmentCallbackWithin ==
    ASSUME NEW lo, NEW hi, LimitsWithin(lo, hi), ExecInv, KeepsWithin(node, lo, hi),
           SegmentCallback
    PROVE  KeepsWithin(node', lo, hi)
  <1> USE OrderTypes
  <1>1. PICK s \in Shapes :
          LET seg == [id |-> used.segments + 1, joint |-> s.joint, target |-> s.target,
                      speed |-> s.speed]
              queued == [node EXCEPT !.queue = Append(@, seg)]
          IN  node' = node \/ node' = Started(queued) \/ node' = queued
    BY DEF SegmentCallback
  <1> DEFINE seg == [id |-> used.segments + 1, joint |-> s.joint, target |-> s.target,
                     speed |-> s.speed]
             queued == [node EXCEPT !.queue = Append(@, seg)]
  <1>2. s \in [joint : Joints, target : Int, speed : Nat]
    BY JointAssumption
  <1>3. seg \in Segment /\ EndsWithin(seg, lo, hi)
    <2>1. seg \in Segment
      BY <1>2 DEF Segment
    <2>2. EndsWithin(s, lo, hi)
      BY DEF LimitsWithin
    <2>3. seg.joint = s.joint /\ seg.target = s.target
      OBVIOUS
    <2> HIDE DEF seg
    <2> QED BY <2>1, <2>2, <2>3 DEF EndsWithin
  <1> HIDE DEF seg
  <1>4. /\ Append(node.queue, seg) \in Seq(Segment) /\ Append(node.queue, seg) # <<>>
        /\ \A i \in DOMAIN Append(node.queue, seg) :
               EndsWithin(Append(node.queue, seg)[i], lo, hi)
    <2>1. /\ Append(node.queue, seg) \in Seq(Segment) /\ Append(node.queue, seg) # <<>>
          /\ \A i \in DOMAIN Append(node.queue, seg) :
                 \/ Append(node.queue, seg)[i] = seg
                 \/ i \in DOMAIN node.queue /\ Append(node.queue, seg)[i] = node.queue[i]
      <3>1. node.queue \in Seq(Segment)
        OBVIOUS
      <3> QED BY <1>3, <3>1, AppendedElements
    <2>2. \A i \in DOMAIN node.queue : EndsWithin(node.queue[i], lo, hi)
      BY DEF KeepsWithin
    <2> QED BY <1>3, <2>1, <2>2, Zenon
  <1>5. queued \in Node /\ queued.queue # <<>>
    BY <1>4 DEF Node
  <1>6. KeepsWithin(queued, lo, hi)
    BY <1>4 DEF KeepsWithin, Node
  <1> HIDE DEF queued
  <1> QED BY <1>1, <1>5, <1>6, StartedKeepsWithin DEF queued, seg

LEMMA ControlLoopWithin ==
    ASSUME NEW lo, NEW hi, LimitsWithin(lo, hi), ExecInv, KeepsWithin(node, lo, hi),
           JointsWithin(lo, hi), ControlLoop
    PROVE  KeepsWithin(node', lo, hi) /\ JointsWithin(lo, hi)'
  <1> USE OrderTypes
  <1> DEFINE n == [node EXCEPT !.q = Stepped(node)]
  <1>1. node.exec = "RUNNING" /\ Stepped(node) \in lo..hi
    BY SteppedWithin DEF ControlLoop, LimitsWithin, KeepsWithin
  <1>2. n \in Node
    BY SteppedType DEF Node
  <1>3. n.q = Stepped(node) /\ KeepsWithin(n, lo, hi) /\ n.queue = node.queue
    BY <1>1 DEF KeepsWithin, Node
  <1>4. joints \in [at : [Configured -> Int], commanded : [Configured -> Int]]
    BY DEF ExecInv, ExecTypeOK
  <1>5. JointsWithin(lo, hi)'
    <2>1. joints' = joints
          \/ \E j \in Configured : joints' = [joints EXCEPT !.commanded[j] = Stepped(node)]
      BY <1>3 DEF ControlLoop
    <2> QED BY <1>1, <1>4, <2>1 DEF JointsWithin
  <1>6. KeepsWithin(node', lo, hi)
    <2>1. CASE node' = n
      BY <1>3, <2>1
    <2>2. CASE node' = [n EXCEPT !.exec = "IDLE"]
      BY <1>2, <1>3, <2>2 DEF KeepsWithin, Node
    <2>3. CASE node.queue # <<>> /\ node' = Started(n)
      <3> HIDE DEF n
      <3> QED BY <1>2, <1>3, <2>3, StartedKeepsWithin
    <2> QED BY <2>1, <2>2, <2>3 DEF ControlLoop
  <1> QED BY <1>5, <1>6

\* What a measurement brings is where an actuator is; a stop or a reset moves nothing.
LEMMA OthersWithin ==
    ASSUME NEW lo, NEW hi, LimitsWithin(lo, hi), ExecInv, KeepsWithin(node, lo, hi),
           JointsWithin(lo, hi),
           JointStateCallback \/ ResetCallback \/ EstopPressed \/ EstopReleased
           \/ AbortCallback \/ AdapterAbort \/ OnSegmentStatus \/ ActuatorMoves
           \/ UNCHANGED execVars
    PROVE  KeepsWithin(node', lo, hi) /\ JointsWithin(lo, hi)'
  <1> USE OrderTypes
  <1>1. JointsWithin(lo, hi)'
    <2>1. joints \in [at : [Configured -> Int], commanded : [Configured -> Int]]
      BY DEF ExecInv, ExecTypeOK
    <2>2. CASE joints' = joints
      BY <2>2 DEF JointsWithin
    <2>3. CASE ActuatorMoves
      BY <2>1, <2>3 DEF ActuatorMoves, JointsWithin
    <2> QED BY <2>2, <2>3 DEF JointStateCallback, ResetCallback, EstopPressed, EstopReleased,
           AbortCallback, AdapterAbort, OnSegmentStatus, execVars
  <1>2. SUFFICES KeepsWithin(node', lo, hi)
    BY <1>1
  <1>3. CASE JointStateCallback
    <2>1. joints.at \in [Configured -> Int]
      BY DEF ExecInv, ExecTypeOK
    <2>2. /\ node'.last = joints.at /\ node'.queue = node.queue /\ node'.exec = node.exec
          /\ node'.active = node.active /\ node'.previous = node.previous
          /\ \/ node'.q = node.q
             \/ node.active.joint \in Configured /\ node'.q = joints.at[node.active.joint]
      BY <1>3, <2>1 DEF JointStateCallback, Node
    <2>3. node'.q \in lo..hi /\ \A j \in Configured : node'.last[j] \in lo..hi
      BY <2>2 DEF KeepsWithin, JointsWithin
    <2> QED BY <2>2, <2>3 DEF KeepsWithin
  <1>4. CASE /\ node'.queue = <<>> /\ node'.exec # "RUNNING"
             /\ node'.q = node.q /\ node'.previous = node.previous /\ node'.last = node.last
    <2>1. DOMAIN node'.queue = {}
      BY <1>4
    <2> QED BY <1>4, <2>1 DEF KeepsWithin
  <1>5. CASE node' = node
    BY <1>5
  <1>6. CASE ResetCallback
    BY <1>4, <1>5, <1>6 DEF ResetCallback, Cleared, ClearedQueueKept, Node
  <1>7. CASE EstopPressed
    BY <1>4, <1>5, <1>7 DEF EstopPressed, Stopped, Node
  <1>8. CASE AbortCallback
    BY <1>4, <1>8 DEF AbortCallback, Aborted, Node
  <1>9. CASE EstopReleased
    <2>1. /\ node'.queue = node.queue /\ node'.exec = node.exec
          /\ node'.active = node.active /\ node'.previous = node.previous
          /\ node'.q = node.q /\ node'.last = node.last
      BY <1>9 DEF EstopReleased, Released, Node
    <2> QED BY <2>1 DEF KeepsWithin
  <1> QED BY <1>3, <1>5, <1>6, <1>7, <1>8, <1>9
          DEF AdapterAbort, OnSegmentStatus, ActuatorMoves, execVars

LEMMA WithinInit ==
    ASSUME NEW lo, NEW hi, LimitsWithin(lo, hi), ExecInit
    PROVE  KeepsWithin(node, lo, hi) /\ JointsWithin(lo, hi)
  <1>1. DOMAIN <<>> = {}
    OBVIOUS
  <1> QED BY <1>1 DEF ExecInit, KeepsWithin, JointsWithin, LimitsWithin

\* startNextSegment compares only the target with the soft limits of its joint, and takes the
\* start from the measured joint or from the target before, whatever joint that was of. So what
\* holds is a bound for all joints together: while lo..hi contains the soft limits of every
\* joint that the loop moves and the targets of the segments for other joints, no actuator is
\* sent outside lo..hi, on the way to a target and after any stop, reset or late measurement.
THEOREM CommandsStayWithinLimits ==
    ASSUME NEW lo, NEW hi, LimitsWithin(lo, hi)
    PROVE  ExecSpec => []CommandsWithin(lo, hi)
  <1> DEFINE Inv == KeepsWithin(node, lo, hi) /\ JointsWithin(lo, hi)
  <1>1. ExecInit => Inv
    BY WithinInit
  <1>2. ExecInv /\ Inv /\ [ExecNext]_execVars => Inv'
    <2> SUFFICES ASSUME ExecInv, Inv, [ExecNext]_execVars PROVE Inv'
      OBVIOUS
    <2>1. CASE SegmentCallback
      <3>1. joints' = joints
        BY <2>1 DEF SegmentCallback
      <3> QED BY <2>1, <3>1, SegmentCallbackWithin DEF JointsWithin
    <2>2. CASE ControlLoop
      BY <2>2, ControlLoopWithin
    <2> QED BY <2>1, <2>2, OthersWithin DEF ExecNext
  <1>3. Inv => CommandsWithin(lo, hi)
    BY DEF JointsWithin, CommandsWithin
  <1> QED BY <1>1, <1>2, <1>3, ExecInitInv, ExecStep, PTL DEF ExecSpec
=============================================================================
