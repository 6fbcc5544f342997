# A verification project for the mobile 3D printer

TLA+ models of the firmware of the printer (`src/firmware`) and of the parts of the ROS
workspace (`src/ros2_ws`) it works with, model-checked with TLC and proved with TLAPS.

- `Firmware.tla`: the firmware process, its threads, its disk, and its environment.
- `PrintLifecycle.tla`: what the firmware promises of a print, in ten actions.
- `MCFirmware.tla` and `MCFirmware*.cfg`: instances for TLC.
- `FirmwareProofs.tla`: the inductive invariant and the theorems about `Firmware`;
  `FirmwareStreamProofs.tla`: those about a firmware that nothing disturbs.
- `FirmwareRefinement.tla`: `Firmware` implements `PrintLifecycle`.
- `CommandTable.tla`: the states, and which command and permission each allows.
- `FirmwareView.tla`: the firmware as the other processes see it, and
  `FirmwareViewRefinement.tla`: `Firmware` implements it.
- `Supervisor.tla`, `ProgramManager.tla`, `OperatorInterface.tla`: the three ROS nodes between
  the operator and the firmware; `MachineStateMessage.tla`: what they are told of it.
- `CommandPath.tla`: these nodes composed with `FirmwareView`, and `MCCommandPath*`: instances;
  `CommandPathProofs.tla`: the theorems.
- `WorldQueue.tla`: what the firmware and the mobile stack promise each other about targets.
- `WorldMotion.tla`, `BaseMotion.tla`, `ArmControl.tla`: the nodes that carry targets out, and
  `MobileStack.tla`: these composed with the firmware's counters and the robot;
  `MCMobileStack.*`: the instance; `MobileStackProofs.tla`: the theorems.
- `MotionExecutor.tla`: the motion executor with its result adapter; `MCMotionExecutor.*`: the
  instance; `MotionExecutorProofs.tla`: the theorems.

## The system

One printer is a set of processes on one machine:

```
 UI -- services --> supervisor --- command slot (shm) ---> FIRMWARE -- target --> world motion
 program manager -> (job writer) -- job region (shm) ----> FIRMWARE <- complete - controller
 UI, program mgr, supervisor <---- state region (shm) ---- FIRMWARE <-> pause snapshot (disk)

 world motion controller -- base command --> base motion controller -- /cmd_vel --> robot
 world motion controller -- tool target ---> arm (compensation), world motion coordinator
 robot -- odometry, tool pose --> coordinators -- tool error --> world motion controller, arm

 segments (by hand) --> motion executor -- segment status --> result adapter -- result --> FIRMWARE
```

`full_sim.launch.py` starts the first two blocks. The motion executor and the adapter are
started by hand, as `test_commands.md` does.

| Component | State | Operations | Hard behaviour | What makes it correct |
|---|---|---|---|---|
| main loop, boot (`main.cpp`) | order of the stages, machine state | one tick every 50 ms, boot classification | a callback, a kill or a new job between any two stages | the asserts hold; a kill never revives a print that is over |
| state machine (`state_machine.cpp`) | system state, resume and recovery flags, permissions | START, PAUSE, RESUME, ABORT, CLEAR_JOB, RECOVER, fault, completion | permissions of the previous tick, any order of commands | one resume a print; a stopped print never goes on |
| command channel (`command_channel.cpp`) | last sequence number | poll, state table, dispatch | torn copy, overwritten command, restart of either side | commands are executed in the order they were written in, and again only where a copy is torn |
| gate, execution step, context | armed, owned, phase, cursor, static `last_cursor` | arm, run, submit one segment a tick | three readiness questions, callbacks between them | segments once, in order, only while printing, in bounds |
| orchestrator (`execution_orchestrator.cpp`) | abort flag, snapshot in memory | early start, abort, pause, resume, completion | a mistaken idle flag; a persist that fails | complete only when all was sent; an abort ends |
| ROS motion controller (`ros_sim_motion_controller.cpp`) | sequence counters, queue telemetry, time stamps | submit, poll, callbacks, watchdog, abort | atomics shared with the ROS thread, unsigned difference | in flight is what the world still has to do, within the window |
| pause snapshot (`persistent_execution_snapshot.cpp`) | one file | persist, load, clear | truncation before writing, ignored results, kills | the cursor on disk is the one execution stopped at |
| job ingress (`job_ingress.cpp`, decoder, validator, store) | four records of the job | accept, refuse | records in four files written one by one | the records agree |
| state publisher | none | copy into the state region | torn reads | a reader sees one tick |
| supervisor, policy, command and job writers | in-flight command, start latch, last state | services, timer, auto-abort | stale state, lost latch, restart | no more prints start than requests were served, but for a START that a torn copy repeats; the policy is released by every command that was handled |
| program manager, G-code parser | program state, modal parser state | load, submit, start | job region shared with the firmware | a program is submitted once; segments are those of the program |
| UI policy | pending command | enable buttons, observe | late state, two buttons in a row | a pending command resolves once its effect is there |
| motion executor, result adapter | segment queue, execution and machine state, axes | segment, joint states, control loop, emergency stop, abort, reset | stops that write two variables in any order | nothing runs while a stop is in force; results are completions |
| world motion controller | pending targets, active number, dwell | push, complete, send the base | the error of one target, the dwell of another | completions in the order of the targets, each once |
| coordinators | last pose, last target | publish the error ten times a second | latest target, not the active one | an error is of the last target |
| base motion controller | command queue, stopping flag, smoothed velocities | turn, drive, settle | commands while one is active, overshoot | every command finishes |
| arm (physical compensation) | last target, last odometry | aim, clamp, command on an error | aim from a base that moves | the last target is aimed at from where the base rests |
| simulated motion controller, bridge | one queue | an older executor | not launched | not modelled |
| compensation, localization, tool nodes | filter state | numeric | none discrete | not modelled |

`PROJECT.json` lists every component with its status and every hazard at its line.

## Firmware.tla

One tick of the loop is nine actions or groups of actions, ordered by `pc`. They are separate
because everything else is concurrent with them.

| `pc` | code | actions |
|---|---|---|
| `command` | `CommandChannel::poll`, `StateMachine::request_*` | `NoCommand`, `Start`, `Pause`, `Resume`, `Abort`, `ClearJob`, `Recover` |
| `ingress` | `poll_job_ingress`, `submit_job` | `AcceptJob`, `NoJobAccepted` |
| `activate` | `activate_job_execution`, arm to RUNNING in `main` | `Activate` |
| `execute`, `recheck`, `submit` | `execution_step` | `StepNotCalled`, `StepExhausted`, `StepSettle`, `Recheck`, `Submit` |
| `poll` | `motion.poll()` and the copy of `is_ready()` | `PollMotion` |
| `orchestrate` | `ExecutionOrchestrator::step`, one action a branch | `KeepExecuting`, `CompleteJob`, `AbortPending`, `FinalizeAbort`, `HoldPaused`, `RestoreSnapshot`, `SnapshotMissing`, `NothingToOrchestrate` |
| `publish` | second copy of `is_ready()`, `derive_operator_actions` | `Publish` |
| `down` | no process; `classify_boot_state` | `Boot` |

The environment: the callbacks of the ROS thread (`OnWorldComplete`, `OnMotionStatus`,
`OnMotionResult`), the clock the time stamps are compared with (`TimePasses`), the writer of the job
region (`WriteJob`, also between a kill and the next boot, as the region outlives the process), a
kill at any point (`Crash`), and a world motion controller that loses its queue (`WorldLost`).

State that is worth a remark:

- `job` gathers the four places where the code records the job: `present` (machine state),
  `stored` (job store), `loaded` (ingress latch), `total` and `held` (`g_active_job`, whose
  segments a completion frees while the total stays).
- `motion_idle` is what the orchestrator reads. `main` assigns it `is_ready()` right after
  `poll()` has assigned it something else, so `poll`'s value, the abort fallback included, never
  counts. `PollMotion` keeps exactly that.
- Time is `activity`: never, recent, quiet (more than the 500 ms of the abort fallback), dead
  (more than the watchdog's 5 s).
- `JobContextId` is a constant 0: nothing in the firmware assigns `JobContext::job_id`.
- `printed` and `resumes` are history variables; no guard reads them.

Abstractions: a job is its number of segments, 0 standing for a blob that does not decode;
geometry, logging, hashes and ids that nothing compares are left out, and the head of the module
lists what else nothing reads back. The operator may ask for any command in any tick;
`CommandPath` has the slot it comes through. A job is copied in one step.
`Submit` covers the publication of a target, and `OnWorldComplete` its way through the world,
first in, first out: that the stack does complete targets so is what `MobileStack` shows. The
abort does not empty that queue, as no node of the stack listens to it.

## The command path

`CommandPath` composes the firmware with the processes that give it commands and programs, over
the three regions of shared memory, the topic and the services. The way of a START is: button,
request, latch of the supervisor, slot, firmware, state region, supervisor's timer, message,
window and program manager. Each hop is a step, and all processes interleave.

**The firmware** is `FirmwareView`: stages `command`, `ingress`, `orchestrate`, `publish`, and
`down`. It has the whole lifecycle, the permissions and the job records, and leaves open how
long a print executes. `ViewRefinement` proves that `Firmware` implements it, so whatever
`CommandPath` shows of the firmware is shown of the detailed model's loop. `CommandPath` adds to
its actions what the lifecycle does not need: `FetchCommand` and `HandleCommand`
(`CommandChannel::poll`), `Published` (`publish_ipc_state`), the reason of a refused job, the
zeroing of the regions at boot.

**The supervisor** (`Supervisor`): `Serve` are the services, `MotionState` the subscription with
the automatic abort, `OnTimer` the 50 ms timer, `Restart` a kill. `sup` is the node with its
policy and its writer. The policy's active command and `pre_state` are one field, engaged
together. A write to the slot is two steps, `Write` and `FinishWrite`: the struct begins with
the sequence number, so a `memcpy` moves that piece before the command, and the comment that
the number is written last describes no order the code has. The firmware's copy is two steps as
well, so both torn copies occur. Between its two pieces nothing else runs in the supervisor,
whose executor has one thread.

**The program manager** (`ProgramManager`): `LoadGcode`, and `StateCallback` with its three
conditions in their order. **The window** (`OperatorInterface`): `Observe`, `OnAlignment`,
`Press`. A button sends its request without waiting for the answer and without refreshing the
window, so two buttons can be pressed in a row; both are modelled.

Abstractions: a program and a job are their number of segments. `/machine_state` holds one
message a subscriber: the timer publishes again only when it was taken, a named bound. The
state region and the job region are copied in one step. The clock is left out: a timer may fire
at any time. The other processes act while the loop is about to read the
slot or the job region (stages `command` and `ingress`), or is down. They read only what `Publish`
wrote and write only what these two stages read. So a step of the supervisor or of the window
later in the tick is the same as one before the job region is read, and a step of the program
manager the same as one before the slot is read again; all that is lost is a second message to
the program manager within a tick.

## The mobile stack

`MobileStack` is the way of a target: published by the firmware, taken by the world motion
controller, driven to by the base, aimed at by the arm, measured by the coordinators, and
reported complete.

| module | code | actions |
|---|---|---|
| `WorldMotion` | `world_motion_controller.cpp` | `MotionTarget`, `ErrorReceived`, `DwellElapses`; `ControllerOdom` |
| | `world_motion_coordinator.cpp`, `world_pose_coordinator.cpp` | `TargetReceived`, `CoordinatorUpdate`, `ToolPose` |
| `BaseMotion` | `base_motion_controller.cpp` | `BaseCommanded` (command callback), `BaseOdom`, `BaseUpdate` (the 20 ms timer) |
| `ArmControl` | `physical_compensation_controller.cpp` | `ArmTarget`, `ArmOdom`, `ArmError` with the timer |
| `MobileStack` | the topics between them; the firmware's counters; the robot | `FwSubmit`, `OnWorldComplete`, `FwBoot`, `FwCrash`; `TakeTarget`, `AimForTarget`, `TakeError`, `Dwell`, `ReportTool`, `ReportError`, `BaseTick`; `BaseDrives`, `BaseTurns` |

**Two sides of one contract.** `WorldQueue` has five actions: submit, complete, boot, crash,
lost. `Firmware` keeps it as the client (`KeepsWorldContract`: it numbers without gaps, publishes
nothing it refused, records what comes), `MobileStack` as the server (`ImplementsWorldQueue`: the
completions are those of the submitted targets, oldest first, each once). So the environment of
`Firmware`, a queue, is not an assumption about the stack but what the stack is shown to do. The
queue of the refinement is spread over three places: completions on their way, the pending
numbers, targets on their way.

Abstractions. The workspace is a line of cells, where a target, the base and the tool each are at
a cell; heading is forward or backward. A velocity is above or below the 0.05 of the stop test,
and the two velocities cross it together. The base may overrun its goal by one cell, as the
smoothing lets it. The arm is where it was told to be at once; a lag would look like a tool pose
that is late, which the model has. A topic with several subscribers is delivered to them in one
step. The arm's 50 ms timer is merged with the error that reads its result. `DwellElapses` waits
for the topics to be empty: 0.5 s are five periods of the coordinator, and deliveries are local.
Without that, half a second could pass with an error of the previous target on its way.

What the modelling showed of the stack and no property states: the controller sends the base to
0.75 m from the target (`world_motion_controller.cpp:236`), nearer than the 0.90 m the arm can
come in (`physical_compensation_controller.cpp:204`, `:228`), so a target is completed
while the base passes by or not at all; the arm's bearing leaves out the heading of the base; with
several targets pending, the earlier ones are completed where the last one is, because the
coordinator follows the last one; the distance that decides whether to send the base is taken
when a target arrives, not when it becomes active; nothing cancels the commands of the base.

## The motion executor

`MotionExecutor` has one action a callback of `motion_executor.cpp`: `SegmentCallback` (with
`startNextSegment`, which is `Started`), `JointStateCallback`, `ControlLoop`, `ResetCallback`,
`EstopPressed`, `EstopReleased`, `AbortCallback`; those of the adapter are `AdapterAbort` and
`OnSegmentStatus`. `node` is the executor, `log` everything it ever published on
`/segment_status`, and `seen` how much of that the adapter has taken, so the log is topic and
history in one. `ActuatorMoves` is external: an actuator gets to where it was told.

A segment moves one joint, since the loops over the joints treat each alike. Positions are counted
in steps of the loop. An axis is absent from the map, DISABLED, IDLE, ARMED or FAULT, as a name
nobody configured is added to the map by looking it up. `SoftLimits` gives each configured joint
the positions between its `min_position` and `max_position`.

What the modelling showed of the executor and no property states: a release of the emergency stop
forgets a fault that was latched (`motion_executor.cpp:430`), after which segments are accepted,
wait, and are dropped by the reset without a status; a segment that was completed is reported
failed again by an emergency stop; a segment with velocity 0 never ends; a name that is refused
as unknown is accepted after a reset, which turns its DISABLED into IDLE; a segment is complete
when the loop has reached the target on paper, wherever the joint is; the next segment starts
from the target of the one before, whatever joint that was of; the adapter's abort flag is never
cleared.

## The runs

The runs of `Firmware` use a window of 2 (the code's is 5) and counters modulo 64, which no run
exhausts. A window of 2 has an empty, a partly filled and a full state, and jobs of 3 segments fill
it and have one segment left; jobs of 1 never fill it. Bounds: `MaxJobs` jobs written and
`MaxCrashes` kills a behaviour. `StatusReports` is `[depth 0, capacity 0]`, the one pair
`motion_result_adapter.cpp` sends.

| run | instance | shows |
|---|---|---|
| `firmware` | jobs of 0, 1 and 3 segments, two of them, one kill, persisting may fail, the world may be lost; 1.4 million states | the invariants below and the three refinements |
| `undisturbed` | jobs of 1 and 3, two of them, no kill, no failure; 170 thousand states | `WindowRespected`, `CompletesWithRoom`, `CompletesEverySegment`, `ExecutionEnds`, `AbortEnds` |
| `start_resets` | expected violation | START of a new job in its middle |
| `completion_drained` | expected violation | completion with segments in flight |
| `late_resume` | expected violation | a resumed print that never ends |
| `abort_fallback` | expected violation | an abort that never ends |
| `reboot_resume` | expected violation | a resume without a job |
| `command_path` | supervisor, program manager, firmware; two files, one kill of the firmware and one of the supervisor, two commands a supervisor process: START, CLEAR_JOB and the automatic abort in any order; 10.6 million states | in order; again only where a copy is torn; no print that was not asked for, except through such a repetition; no file twice |
| `window_follows` | all four processes, no kill, three commands: START, PAUSE, RESUME in any order; 0.6 million states | the window unlocks |
| `completed_reset` | expected violation | a printed program that is never let go |
| `mobile_stack` | two targets, window of 2, one kill of the firmware, one error on its way; 460 thousand states | the contract, every base command ends, what is in reach is completed |
| `motion_executor` | three segments of three shapes, queue of 2, one emergency stop, one reset, one abort; 1.4 million states | stops, order, results |

The bounds of the runs of `CommandPath`: with two commands a process and one restart of the
supervisor, four writes reach a slot whose numbers begin again at 1; a firmware kill zeroes the slot
and the last number, and each of the two may come first. Two commands are needed for one to
overwrite the other and for a torn copy, which takes the number of one and the body of the other.
Two files are needed for a program to be written while another is loaded or unread. Jobs have one
segment, as `FirmwareView` leaves the length of a print open anyway. `command_path` has no window:
the services are called directly there, in any order, which includes what a window does.
No run calls the abort service: like the automatic abort, which `command_path` has, it is nothing
but `send_abort_to_firmware`, and the run with both has 18 million states. The theorems cover it.
`window_follows` needs three commands for the cycle of a print that is paused and resumed; kills are
left out because a command that was lost in one is not made good by anybody.

The bounds of `mobile_stack`: the work radius is 1 cell, the arm reaches 2 to 3 cells, so the base
is sent nearer than the arm can reach, as in the code. The targets are at cells 3 and 2: the first
sends the base, the second is ahead or behind it, within the radius or not, depending on how far
it has come. Two targets fill the window; with a kill between them the second process submits
number 1 again while number 1 of the first is pending. One error on its way is enough for an error
of the previous target to arrive in the dwell of the next.

The bounds of `motion_executor`: one shape goes to an odd distance two steps at a time, which does
not divide it, one goes beyond the soft limit, one names a joint nobody configured. A queue of 2 is
full with one active segment and two waiting, or with segments that wait in a fault. One emergency
stop, one reset and one abort come in every order. The run ends when its bounds are used up, so
deadlock is not checked.

What holds, in every interleaving of the instance:

- `AssertionsHold`: no assert of a tick fails. `last_cursor` is a static that outlives jobs, so
  this is a statement about sequences of prints, pauses and faults, not about one.
- `SegmentReadInBounds`: `execution_step` never indexes freed segments or beyond the total.
- `ResumeOncePerStart`: one resume a print, though PAUSE makes it available each time.
- `SnapshotIsTheCursor`: what is on disk is where execution stopped, until the process ends.
- `SnapshotOnlyWhilePaused`: a kill outside a pause never boots into PAUSED.
- `JobViewsAgree`: the four records of the job agree between stages.
- `OnlyPrintsAreExecuted`: a PAUSE or an ABORT takes the ownership away before its tick ends, and
  no other state has it. So a RESUME never finds an executor, and the orchestrator's early return
  for that case, which would leave RESUMING for ever, is not reached; the model leaves it out.
- `ImplementsLifecycle`: the refinement of `PrintLifecycle`, with READY as `ready`, IDLE,
  ABORTING, FAULT and RECOVERING as `stopped`, and `printed` as `sent`.
- `WindowRespected`, `CompletesEverySegment`: only without kills and losses. After a kill,
  completions of the previous process arrive at a fresh counter, and the unsigned difference
  wraps; a submission may then be refused while the cursor moves on.
- `CompletesWithRoom`: what remains of "all segments completed + drained" (finding 2): fewer
  segments than the window are in flight when a job completes.
- `ExecutionEnds`, `AbortEnds`: liveness, under the fairness below.
- `KeepsWorldContract`: the firmware's side of `WorldQueue`, over refusals, aborts and kills.

Of the command path:

- `HandledInOrder`: of what `poll` executes, the history variable `handled` keeps the write whose
  number it took and the write whose command it was. From one execution to the next, whatever is
  killed when, the number is a later one, and the command is the same or a later one. It is the
  same one only if one of the two copies was torn, so no command is executed twice from whole
  copies. What the code does not promise, and the property does not say: that a command is executed
  only once, or at all. A torn copy takes the number of write k + 1 with the command of write k,
  executes that command again, and never the one of k + 1 (see below); or it takes
  the number of k with the command of k + 1, and executes that again under its own number. The
  property rests on three things far apart: the slot is zeroed before the loop starts, the number
  is remembered before the command is validated, and a restarted supervisor is ignored until its
  numbers have caught up.
- `StartsAreRequested`: no more prints start than START requests were served. The latch, its
  release on READY, and the slot could each repeat one. A START that is executed for the first
  time is counted, whatever number it lies under; the print of a START that a torn copy executes
  again is not, so there one request can start two prints.
- `ProgramTakenOnce`: a file loaded once is accepted as a job at most once, though the program
  manager acts on messages that are late and may be of a firmware that is gone.
- `HandledCommandShows`: once a command was handled, the published state differs from the one the
  policy remembers, so the policy's only test, a difference, releases it. It holds because the
  sequence number is one of the fields compared. It says nothing of a supervisor that was
  restarted, or of a firmware killed before it read the slot: there the policy does block.
- `WindowFollows`: the window does not wait for what has already happened. The test of the window
  is on the level of the state and not on its change, which is why a message missed does no harm.

Of the mobile stack:

- `ImplementsWorldQueue`: the stack's side. The active target is a copy of a number that is also in
  the queue, and two callbacks write it; the firmware's counter starts again under it at a kill.
- `LastTargetByItsOwnError`: a target alone in the queue is completed by an error computed from
  it. Errors and the dwell of its predecessor are both still there when it becomes active.
- `BaseCommandsFinish`: the base is idle again and again. The stopping flag is latched at the goal
  while the velocities still carry the base past it, and the override turns it back.
- `ReachedTargetsComplete`: if the base comes to rest where the arm can reach the last target,
  all that was submitted is completed. The hypothesis is geometry, see above.

Of the executor:

- `RunsOnlyWhenAllowed`: a loop that moves a joint does so in state NORMAL, on a known position,
  an armed axis, within the limits. Machine and execution state are two variables that six
  callbacks write.
- `StopsHoldUntilReset`: after any stop only a reset makes the node run again.
- `IdleMeansEmpty`, `ExecutesInOrder`: segments are queued in a fault as well, and the soft limit
  stops the node without emptying the queue; after any sequence of stops and resets none is left
  behind in an idle node, started twice or overtaken.
- `ResultsAreCompletions`: what the firmware is told is what was completed, up to an abort.
- `MovingSegmentsEnd`: a segment ends, although every joint state throws the loop back to where
  the joint is measured.

Fairness of the firmware: weak fairness of `Tick` (the loop is woken by `sleep_until` and every
stage has an action enabled), of `OnWorldComplete` (the ROS thread spins in its own thread, and the
world works its queue off) and of `TimePasses`. Nothing is assumed of the operator, of jobs, of
statuses, kills or losses. The loss of the world is covered by `abort_fallback`, the only liveness
run in which the queue may be lost.

Fairness of the command path: weak fairness of the loop, strong fairness of the supervisor's
thread (timer, and second half of a write) and of the two subscribers. The code's timer is
periodic and its callbacks are spun, so each happens again and again; strong fairness is needed
only because the module lets them act at two stages of the loop, where they are enabled in every
tick but not all the time. Buttons, requests, files, reports and kills are not fair.

Fairness of the stack: weak fairness of every callback, timer and of the plant. Strong fairness of
the dwell, which errors interrupt only in the model: they are 100 ms apart and delivered in less
than one, so a moment with nothing on its way always comes. Strong fairness of settling at the
goal: with a gain of 0.8 and a lag of 0.66 s the approach is damped, so the base does not overrun
its goal for ever. The firmware's submissions and kills are not fair.

Fairness of the executor: weak fairness of the control loop (a 2 ms timer), of the delivery of a
status and of the actuators. Segments, joint states, stops and resets are not fair.

### What the code does not do

Six comments or messages of the code state what it does not do; each has its run and an entry
under `findings`.

1. "START always resets execution context" (`execution_context.hpp:8`): START resets nothing.
   Pause with a failed snapshot write, resume, fault, clear the job, load another: it starts
   at the old cursor, or is refused if it is shorter.
2. "all segments completed + drained" (`execution_orchestrator.cpp:229`): the test is that the
   window has room.
3. "everything required to deterministically continue or resume" (`execution_context.hpp:34`):
   a pause after the last submission resumes into a state no transition leaves, except for
   another pause or an abort.
4. "If ROS stopped responding → assume forced stop" (`ros_sim_motion_controller.cpp:189`): the
   flag set there is overwritten before it is read.
5. "Job ID must still match" (`state_machine.cpp:270`): both sides are always 0, so after a
   restart a resume without a job is accepted.
6. "Job completed → safe reset" (`program_manager.cpp:197`): the test wants a READY without a
   loaded job, and a completion keeps `job_loaded`. Only CLEAR_JOB brings the reset about.

Two more, without a run. "Write ordering: fields first, seq last" (`ipc_command_writer.cpp:65`): the
struct is copied as a whole, its number before its command, so the firmware can take the number of
one write and execute the command of the one before; nothing tests the checksum. `Write` and
`FinishWrite` have it as it is. And "Default alignment to 'not valid' if never received" (`ui_node.cpp:129`),
where the default is 0 and 0 is `VALID`. `FreshInterface` has it as it is.

## The proofs

`FirmwareProofs` proves, for every window, counter width, set of jobs, set of status reports
and any number of jobs and kills, from the assumptions on the constants alone:

- `TypeCorrect`: `Spec => []TypeOK`.
- `InductiveInvariant`: `Spec => []IInv`, `IInv == TypeOK /\ Inv`.
- `NoAssertionFails`, `SegmentsReadInBounds`, `OneResume`, `ResumeContinues`,
  `SnapshotNeedsPause`, `OneViewOfTheJob`, `OnlyPrintsHaveAnExecutor`: the safety invariants of
  the run `firmware`.
- `PrintsHaveTheirExecutor`, the other direction of the last one: when the loop comes to the
  execution of a print with segments left, the context is owned, RUNNING and carries no old abort,
  so only the window can hold the print. `ExecutionEnds` rests on it. Besides `IInv` it needs
  `AbortFlagsAgree`: the abort flag of the context, which no reset of the context clears, is the
  orchestrator's.
- `AbortIsFinal`, a property of steps: an aborted firmware sends nothing more, and no command, job,
  result or timeout leads out of ABORTING and IDLE, only a kill does.

`FirmwareRefinement` proves `Refinement`: `Spec => Lifecycle!Spec`. Two consequences are drawn from
it and not from the firmware: `SegmentsSentOnce`, that no segment of a print is sent twice or after
a later one, and `OnlyPrintsSend`, that a segment leaves only while the mode is `printing`. They
need only the actions of `PrintLifecycle`, so they hold of whatever implements it.

`FirmwareViewRefinement` proves `ViewRefinement`: `Spec => View!Spec`, with the stages from
`activate` to `poll` mapped to `orchestrate`, and the snapshot to whether there is one. Besides
`IInv` it needs one more invariant, `SnapshotIdentity`: every snapshot on disk carries the one
job id there ever is, so the boot that compares ids accepts every snapshot, as `View!Boot` does.

None of the safety invariants is inductive alone. `Inv` has thirteen parts: four of the properties
themselves and nine facts that strengthen them. `Ownership` ties phase, ownership and arming
together; `Submitting` carries the guard of `execution_step` over the callbacks that run before the
submission; `JobOfThePrint` says that only a boot into PAUSED is in a print without a job, and that
it then has nothing to execute; `CursorMonotone` relates the static `last_cursor` with the cursor
and with the cursor on disk, since a resume loads that one; `PrintedBehindCursor` says that all that
was sent is before the cursor, from which order over pauses and resumes follows; `ResumeSpent`
relates the count of resumes with `resume_consumed`; `AbortOnlyAborting` says that an abort that has
begun has no executor, which `OnlyPrintsAreExecuted` needs in the ticks that wait for the drain;
`TotalsAreSizes` and `DownIsFresh` close the rest. `TypeStep`, `InvStep` and `LifecycleStep` have
one step an action. TLC has checked `IInv` as an invariant on a smaller instance before it was
proved.

`FirmwareStreamProofs` has two assumptions. `Steady`: no kills, no losses, status reports without
queue telemetry (the adapter sends no other), and a window smaller than the counters' range.
`Undisturbed` adds a disk that works. Under `Steady` it proves `WindowIsRespected` and
`CompletionsHaveRoom`, which hold even when snapshots are not written, and under `Undisturbed`
`EverySegmentIsSent`: a snapshot that was not written faults the resume, and the next print starts
in the middle (finding 1). None of these is inductive. `Numbered` says which number every queued
target carries, so that a completion, which stores a number, moves the count by one even where the
counter wraps. `RoomIsKept` says that the room a tick has seen is still there when it is used,
because callbacks only make room: when `execution_step` submits, so `submit()` never refuses and no
segment is skipped, and when the orchestrator reads `motion_idle`. `Resumable` says the snapshot in
memory is the one on disk, so that no resume faults; `SentInFull`, that what was sent is the
segments before the cursor. With queue telemetry a status can take the room away between the test
and the submission, and a segment is skipped: a hazard of the list.

`FirmwareKeepsContract` proves that `Firmware` keeps its side of `WorldQueue`: each step of the
two counters is one of the contract (`ContractStep`), and it needs the type invariant alone.

`MobileStackProofs` proves the other side, `StackImplementsWorldQueue`, for every program, window,
radius and number of kills. `QueueInv` is the strengthening: the active target is the oldest that is
pending, the target the coordinators work on is the last that was forwarded, a dwell belongs to the
active target, and an error that was computed from a target is told from one that was on its way
before. `StackTypeCorrect` includes that the arm's command never leaves its limits, and
`LastTargetCompletedByItself` that a target alone in the queue is completed by its own error.
`OldestPendingIsActive` is the part of `ReachedTargetsComplete` that is safety: nothing waits behind
a target that is not active. `BaseMovesForACommand` says that the robot stands without a command;
its invariant, `IdleStands`, is that a base without a command was told to stand, which holds because
a command is let go only in the tick that publishes zero. The two refinements meet in `WorldQueue`:
what the firmware assumes of the world is what the mobile stack does, and the reverse.

Two theorems are about the stack as a whole and could not be stated of any of its nodes.
`StackHoldsAWindow` is flow control from end to end: before the first kill, the targets on their way
to the controller, pending there, and reported but not yet received are exactly the numbers between
the two counters of the firmware, so there are never more than a window of them. It is inductive
with `StackInv`, once the three queues are seen as one sequence (`World`), which grows at one end
(`NumbersGrow`) and shrinks at the other (`NumbersShrink`); after a kill it is false, as the targets
of the old process are in no counter. `BaseEndsNearTarget` says where the base is when it has no
command: one cell at most off the work radius of the target the command was sent for, although
commands are never cancelled, may wait in a queue, and end on the velocities and not on the
position. It takes three invariants: `SeesRobot`, the odometry agrees with the robot; `StopsAtGoal`,
the latched flag `stopping_` keeps the base within a cell of the goal however often the velocities
carry it over; and `SentForTargets`, every command that waits was computed from a target of the
program. TLC has checked both on the instance of the run before they were proved.

`MotionExecutorProofs` proves the five invariants and the action property of the run for any joints,
limits, segments and queue size. `ExecInv` is the type with `RunsOnlyWhenAllowed` and
`IdleMeansEmpty`; the lemma `StartedIsSafe` carries what `startNextSegment` has checked to the
control loop that relies on it. `ExecExecutesInOrder` rests on `OrderInv`: the log is in order, the
segments in the queue are numbered after all that began and in order among themselves, and while the
node is RUNNING its active segment is the last that began and has not completed. The arrival of a
segment and the end of one each start the next, and each keeps all three.
`ExecResultsAreCompletions` follows from the order of the log (`CompletionsIncrease`) and from what
one status adds to the completions (`OneMoreCompleted`): as the completions increase, those reported
before an abort are a prefix of those taken. Both properties speak of positions in the log, since
the provers do not unfold the recursion of an operator that selects from a sequence.

`CommandsStayWithinLimits` is about every position an actuator is sent to, where the code tests a
target once. It has two hypotheses (`LimitsWithin`): the range lo..hi contains 0 and the soft limits
of each joint the loop moves (the three structural joints are all configured from 0 to 2), and the
targets of the segments for other joints. The invariant follows a position through every place it is
kept in: the target of a segment that waits, the target of the running one, the target before it,
the position of the loop, the measured one, and what the actuators were told. The second hypothesis
came from the first attempt: without it TLC finds a segment of the extruder, whose limits are a
thousand million either way, after which the next segment of the mast starts at the extruder's
target, and the mast is sent there (`motion_executor.cpp:368`). It is listed as a hazard.

`CommandPathProofs` proves the safety properties of `CommandPath`, for every number of commands,
files, kills and restarts, and every choice of processes that run. `PathInv` has five parts:

- `Types`, with `Budget`: a START that is latched has its number reserved.
- `InOrder`: while the firmware runs, the number it has still to read is newer than the one it
  took last, although the slot may be overwritten after the number was fetched; and the command
  in the slot is the one it executed last, or a newer one.
- `Backed`: a request that has started no print is latched, being written, or in the slot and not
  executed, torn or not, and each of these is backed by a request of its own.
- `Programs`: the loads reach the job region in increasing order, each at most once, and those
  taken are not newer than the one in the region.
- `News`: at the start of a tick the published number is that of the last command, and a
  supervisor that was never restarted knows no number higher than its own.

The supervisor has many callbacks; `SupervisorDoes` shows that each is one of `Acts`: it writes at
most one number, never latches or writes a START without a request, and lets the policy remember
only a message that is older than the number. The steps of the invariant use `Acts` alone.

`PathRunsTheView` proves that the firmware within `CommandPath` keeps the specification of
`FirmwareView`. With `ViewRefinement` both meet in the view, as the two sides of the world do in
`WorldQueue`. The first attempt at it failed at `Load`: the view allowed the job region to be
written only while the firmware ran, where `CommandPath`, rightly, lets the program manager write it
after a kill. View and firmware now allow that too.

The proofs do not depend on the speed of a machine: every module has also been proved from nothing
with a fifth of the default time limits.

Only model-checked: liveness, which TLAPS does not do (`ExecutionEnds`, `AbortEnds`,
`WindowFollows`, `BaseCommandsFinish`, `ReachedTargetsComplete`, `MovingSegmentsEnd`). Every safety
property of the passing runs is stated by a theorem; three of them, `WindowRespected`,
`CompletesWithRoom` and `CompletesEverySegment`, under the assumptions of `FirmwareStreamProofs`.

## Not modelled

- The firmware bridge (`wbp_firmware_bridge`): a second writer of the command slot, with number 0
  and no ABI version. Nothing in the repository calls its service.
- The parser of the program manager and the copy of the job region word by word: a program is a
  number of segments, and the region is written in one step.
- The trajectory generator, the G-code world executor and the fabrication monitor: an earlier way
  from G-code to targets, which the launch file of the full stack does not start, or prints only.
- The simulated motion controller and the actuator bridge: an older executor with one queue, not
  started with the mobile robot, and conversions of messages. The motion monitor prints.
- Compensation, localization, tool control and tool motion: floating-point filters whose outputs
  reach none of the nodes that move the launched robot.
- Messages, launch files, robot and world descriptions and containers: no behaviour.
- Code of the firmware nothing calls (`command_executor`, `segment_runner`,
  `persistent_state_io`); the safety monitor, whose inputs nothing writes; the extruder stub,
  which is always ready. The localization mode is set and published, and nothing else reads it.

## Plan

Done: the firmware, the way of commands and programs to it, the mobile stack that carries out its
targets, the motion executor, and the theorems about the safety properties of all four.
What is left, in order:

1. `GcodeParser`: the modal state as a fold over the lines, against a reference definition on
   bounded programs.
2. The job region and the state region in separate words, and the firmware bridge as a second
   writer of the slot.
3. An abstract command channel, which executes commands in order, may drop one and may repeat the
   last one, and which `CommandPath` implements. It would say little more than `HandledInOrder` does.
