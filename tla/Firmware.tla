------------------------------- MODULE Firmware -------------------------------
(***************************************************************************)
(* The printer firmware: one process whose main loop runs a fixed sequence  *)
(* of stages every 50 ms (firmware/src/main.cpp), a ROS thread whose        *)
(* callbacks store into atomics the loop reads, a pause snapshot on disk,   *)
(* and the world motion controller that carries out the published targets.  *)
(*                                                                         *)
(* The stages of a tick are separate actions, ordered by pc, because the    *)
(* callbacks, a crash or a new job can come between any two of them:        *)
(*                                                                         *)
(*   command -> ingress -> activate -> execute -> recheck -> submit         *)
(*           -> poll -> orchestrate -> publish -> command                   *)
(*                                                                         *)
(* Left out, because nothing in the firmware reads it back: the result of   *)
(* execution_step (it only feeds a counter), last_completion_reason, the    *)
(* outcome recorded for a command, unit_progress (never assigned), the      *)
(* localization mode, the extruder stub (always ready) and the safety       *)
(* monitor (its inputs are never written, so it always reports SAFE).       *)
(***************************************************************************)
EXTENDS Integers, Sequences, CommandTable

CONSTANTS
    StreamWindow,    \* STREAM_WINDOW: segments submitted and not yet completed
    SeqModulus,      \* 2^32, the range of the unsigned sequence counters
    JobSizes,        \* total_segments of the jobs written; 0 is a blob that does not decode
    StatusReports,   \* the [depth, capacity] pairs /motion_status may carry
    MaxJobs,         \* bound: jobs written into shared memory in one behaviour
    MaxCrashes,      \* bound: times the process is killed in one behaviour
    PersistMayFail,  \* whether writing the pause snapshot may fail
    WorldMayFail     \* whether the world motion controller may lose its queue

ASSUME StreamWindowAssumption == StreamWindow \in Nat \ {0}
ASSUME SeqModulusAssumption == SeqModulus \in Nat \ {0}
ASSUME JobSizesAssumption == JobSizes \subseteq Nat
ASSUME StatusReportsAssumption == StatusReports \subseteq [depth : Nat, capacity : Nat]
ASSUME BoundsAssumption == MaxJobs \in Nat /\ MaxCrashes \in Nat
ASSUME FailureAssumption == PersistMayFail \in BOOLEAN /\ WorldMayFail \in BOOLEAN

VARIABLES
    pc,                \* the stage the main loop is about to run, or "down"
    (* g_machine_state *)
    system,            \* SystemState
    job,               \* what the firmware records of the job: see JobRecord
    resume,            \* resume_available and resume_consumed
    recovery,          \* operator_recovery_required
    operator_actions,  \* what the last publication allowed the operator to do
    motion_idle,       \* motion_idle, a copy of is_ready() taken twice a tick
    (* g_execution_context and the statics of the execution code *)
    ctx,               \* ExecutionContext
    last_cursor,       \* the static of execution_step
    abort_started,     \* abort_started_once, the static of the orchestrator
    pause_snapshot,    \* whether the optional PauseSnapshot in memory is engaged
    (* outside the main loop *)
    snapshot_file,     \* the pause snapshot on disk: survives a crash
    motion,            \* RosSimMotionController
    world,             \* targets the world motion controller still has to complete
    job_ipc,           \* the job region of shared memory
    jobs_written, crashes,  \* counters of the two bounds
    (* history, for the properties *)
    printed,           \* segments submitted since the last START, in order
    resumes            \* RESUME commands accepted since the last START or boot

ctxVars == <<ctx, last_cursor, abort_started, pause_snapshot>>
machineVars == <<system, job, resume, recovery, operator_actions, motion_idle>>
worldVars == <<motion, world>>
boundVars == <<jobs_written, crashes>>
historyVars == <<printed, resumes>>
vars == <<pc, machineVars, ctxVars, snapshot_file, worldVars, job_ipc, boundVars, historyVars>>

Stages == {"command", "ingress", "activate", "execute", "recheck", "submit",
           "poll", "orchestrate", "publish"}
-----------------------------------------------------------------------------
(* Records *)

ExecutionContext ==
    [phase : {"IDLE", "RUNNING"}, owned : BOOLEAN, armed : BOOLEAN,
     cursor : Nat, abort_in_progress : BOOLEAN]

\* present: job_present; stored: JobStore::has_job; loaded: JobIngressState::job_loaded;
\* total, held: g_active_job.total_segments, which outlives the job, and whether its segments
\* pointer is non-null; state, layer: JobContext.
JobRecord ==
    [present : BOOLEAN, stored : BOOLEAN, loaded : BOOLEAN, total : Nat, held : BOOLEAN,
     state : {"NONE", "ACTIVE"}, layer : {0, 1}]

\* The file holds a snapshot or is empty (valid = FALSE).
SnapshotFile == [valid : BOOLEAN, job_id : Nat, cursor : Nat]
NoSnapshot == [valid |-> FALSE, job_id |-> 0, cursor |-> 0]

\* activity: how long ago the last callback ran. "never" is a time stamp of 0; "quiet" is
\* more than the 500 ms of the abort fallback, "dead" more than WATCHDOG_TIMEOUT_MS.
Motion ==
    [submitted : 0..SeqModulus-1, completed : 0..SeqModulus-1, reported : 0..SeqModulus-1,
     abort_active : BOOLEAN, depth : Nat, capacity : Nat,
     activity : {"never", "recent", "quiet", "dead"}]

\* What a fresh process starts from, before main() classifies the boot.
FreshContext == [phase |-> "IDLE", owned |-> FALSE, armed |-> FALSE,
                 cursor |-> 0, abort_in_progress |-> FALSE]
NoJob == [present |-> FALSE, stored |-> FALSE, loaded |-> FALSE, total |-> 0,
          held |-> FALSE, state |-> "NONE", layer |-> 0]
FreshMotion == [submitted |-> 0, completed |-> 0, reported |-> 0, abort_active |-> FALSE,
                depth |-> 0, capacity |-> 0, activity |-> "never"]
EmptyJobIpc == [unread |-> FALSE, segments |-> 0]

\* JobContext::job_id. No statement of the firmware assigns it: the id of an accepted job
\* goes to MachineState::job_id, another member.
JobContextId == 0
-----------------------------------------------------------------------------
(* RosSimMotionController *)

\* inflight(): an unsigned difference.
Inflight(m) == IF m.submitted >= m.completed
               THEN m.submitted - m.completed
               ELSE m.submitted - m.completed + SeqModulus

\* is_ready(). executor_ready_ is left out: the constructor sets it, and every status the
\* adapter publishes says ready.
ReadyWithOneTooMany(m) == Inflight(m) <= StreamWindow
Ready(m) ==
    IF m.capacity = 0
    THEN Inflight(m) < StreamWindow
    ELSE LET target == IF m.capacity > 2 THEN m.capacity - 2 ELSE m.capacity
         IN  m.depth < target /\ Inflight(m) < target

NextSeqSame(n) == n
NextSeq(n) == IF n + 1 < SeqModulus THEN n + 1 ELSE 0

\* check_watchdog(): off during an abort, and before the first callback.
WatchdogExpired(m) == ~m.abort_active /\ m.activity = "dead" /\ Inflight(m) > 0

\* poll(): a new completion is reported once; a drained abort clears abort_active. The
\* idle flag it computes, abort fallback included, is stored in motion_idle, which main
\* overwrites before anything reads it: see PollMotion.
PollResult(m) == IF WatchdogExpired(m) THEN "FAULTED"
                 ELSE IF m.completed > m.reported THEN "COMPLETED" ELSE "IN_PROGRESS"
Polled(m) ==
    CASE PollResult(m) = "FAULTED"     -> m
      [] PollResult(m) = "COMPLETED"   -> [m EXCEPT !.reported = m.completed]
      [] PollResult(m) = "IN_PROGRESS" ->
            [m EXCEPT !.abort_active = @ /\ Inflight(m) # 0]

\* The callbacks of the ROS thread, and time going by between them.
OnWorldComplete ==
    /\ world # <<>>
    /\ world' = Tail(world)
    /\ motion' = IF pc = "down" THEN motion
                 ELSE [motion EXCEPT !.completed = Head(world), !.activity = "recent"]
    /\ UNCHANGED <<pc, machineVars, ctxVars, snapshot_file, job_ipc, boundVars, historyVars>>

OnMotionStatus ==
    /\ pc # "down"
    /\ \E r \in StatusReports :
          motion' = [motion EXCEPT !.depth = r.depth, !.capacity = r.capacity,
                                   !.activity = "recent"]
    /\ UNCHANGED <<pc, machineVars, ctxVars, snapshot_file, world, job_ipc, boundVars,
                   historyVars>>

TimePasses ==
    /\ motion.activity \in {"recent", "quiet"}
    /\ motion' = [motion EXCEPT !.activity = IF @ = "recent" THEN "quiet" ELSE "dead"]
    /\ UNCHANGED <<pc, machineVars, ctxVars, snapshot_file, world, job_ipc, boundVars,
                   historyVars>>

\* A segment result changes nothing the loop reads except the time of the last callback.
OnMotionResult ==
    /\ pc # "down"
    /\ motion' = [motion EXCEPT !.activity = "recent"]
    /\ UNCHANGED <<pc, machineVars, ctxVars, snapshot_file, world, job_ipc, boundVars,
                   historyVars>>
-----------------------------------------------------------------------------
(* Stage "command": CommandChannel::poll and the state machine it calls. At most one
   command a tick; which one is there is the operator's choice. *)

\* reset_soft(): the cursor and abort_in_progress stay.
ResetSoftLeavesCompleted(c) == [c EXCEPT !.phase = "COMPLETED", !.armed = FALSE, !.owned = FALSE]
ResetSoft(c) == [c EXCEPT !.phase = "IDLE", !.armed = FALSE, !.owned = FALSE]
ResetHard(c) == [ResetSoft(c) EXCEPT !.cursor = 0]

CanStartWithoutJob == ctx.cursor < job.total /\ system = "READY" /\ ~recovery
CanStartJob == /\ job.present
               /\ ctx.cursor < job.total
               /\ system = "READY"
               /\ ~recovery

CanResume == /\ system = "PAUSED"
             /\ resume.available
             /\ ~resume.consumed
             /\ JobContextId = 0     \* the id of the empty PauseSnapshot{} handed over
             /\ ~ctx.owned

\* No new command, or one that is refused: only its outcome is recorded.
NoCommand ==
    /\ pc = "command"
    /\ pc' = "ingress"
    /\ UNCHANGED <<machineVars, ctxVars, snapshot_file, worldVars, job_ipc, boundVars,
                   historyVars>>

Start ==
    /\ pc = "command"
    /\ CommandAllowed(system, "START")
    /\ operator_actions.can_start
    /\ CanStartJob
    /\ pc' = "ingress"
    /\ system' = "EXECUTING_PRINT"
    /\ resume' = [available |-> FALSE, consumed |-> FALSE]
    /\ job' = [job EXCEPT !.state = "ACTIVE", !.layer = 1]
    /\ printed' = <<>>
    /\ resumes' = 0
    /\ UNCHANGED <<recovery, operator_actions, motion_idle, ctxVars, snapshot_file,
                   worldVars, job_ipc, boundVars>>

PauseAllowsAnotherResume ==
    /\ pc = "command"
    /\ CommandAllowed(system, "PAUSE")
    /\ pc' = "ingress"
    /\ system' = "PAUSED"
    /\ resume' = [available |-> TRUE, consumed |-> FALSE]
    /\ UNCHANGED <<job, recovery, operator_actions, motion_idle, ctxVars, snapshot_file,
                   worldVars, job_ipc, boundVars, historyVars>>

Pause ==
    /\ pc = "command"
    /\ CommandAllowed(system, "PAUSE")
    /\ pc' = "ingress"
    /\ system' = "PAUSED"
    /\ resume' = [resume EXCEPT !.available = TRUE]
    /\ UNCHANGED <<job, recovery, operator_actions, motion_idle, ctxVars, snapshot_file,
                   worldVars, job_ipc, boundVars, historyVars>>

Resume ==
    /\ pc = "command"
    /\ CommandAllowed(system, "RESUME")
    /\ operator_actions.can_resume
    /\ CanResume
    /\ pc' = "ingress"
    /\ system' = "RESUMING"
    /\ resume' = [available |-> FALSE, consumed |-> TRUE]
    /\ resumes' = resumes + 1
    /\ UNCHANGED <<job, recovery, operator_actions, motion_idle, ctxVars, snapshot_file,
                   worldVars, job_ipc, boundVars, printed>>

Abort ==
    /\ pc = "command"
    /\ CommandAllowed(system, "ABORT")
    /\ pc' = "ingress"
    /\ system' = "ABORTING"
    /\ UNCHANGED <<job, resume, recovery, operator_actions, motion_idle, ctxVars,
                   snapshot_file, worldVars, job_ipc, boundVars, historyVars>>

\* request_clear_job(): the cursor and g_active_job are left as they are.
JobClearedButStored == [job EXCEPT !.present = FALSE, !.loaded = FALSE, !.state = "NONE",
                                   !.layer = 0]
JobClearedStillLoaded == [job EXCEPT !.present = FALSE, !.stored = FALSE, !.state = "NONE",
                                     !.layer = 0]
JobCleared == [job EXCEPT !.present = FALSE, !.stored = FALSE, !.loaded = FALSE,
                          !.state = "NONE", !.layer = 0]

ClearJob ==
    /\ pc = "command"
    /\ CommandAllowed(system, "CLEAR_JOB")
    /\ operator_actions.can_clear_job
    /\ system \in {"READY", "IDLE", "RECOVERING", "FAULT"}
    /\ pc' = "ingress"
    /\ ctx' = ResetSoft(ctx)
    /\ snapshot_file' = NoSnapshot
    /\ job' = JobCleared
    /\ recovery' = FALSE
    /\ resume' = [available |-> FALSE, consumed |-> TRUE]
    /\ system' = "READY"
    /\ UNCHANGED <<operator_actions, motion_idle, last_cursor, abort_started, pause_snapshot,
                   worldVars, job_ipc, boundVars, historyVars>>

Recover ==
    /\ pc = "command"
    /\ CommandAllowed(system, "RECOVER")
    /\ operator_actions.can_recover
    /\ pc' = "ingress"
    /\ ctx' = ResetSoft(ctx)
    /\ snapshot_file' = NoSnapshot
    /\ system' = "RECOVERING"
    /\ resume' = [available |-> FALSE, consumed |-> TRUE]
    /\ recovery' = TRUE
    /\ UNCHANGED <<job, operator_actions, motion_idle, last_cursor, abort_started,
                   pause_snapshot, worldVars, job_ipc, boundVars, historyVars>>
-----------------------------------------------------------------------------
(* Stage "ingress": poll_job_ingress and submit_job. A refused job keeps its sequence
   number unread and is offered again on every tick. The very first call returns at once
   (first_read); no variable records it, as operator_actions refuses that call anyway. *)

CanSubmitJob == /\ operator_actions.can_submit_job
                /\ ~job.stored
                /\ system = "READY"
                /\ job_ipc.segments > 0      \* decode_job and validate_job

AcceptJob ==
    /\ pc = "ingress"
    /\ job_ipc.unread
    /\ CanSubmitJob
    /\ pc' = "activate"
    /\ job' = [present |-> TRUE, stored |-> TRUE, loaded |-> TRUE, held |-> TRUE,
               total |-> job_ipc.segments, state |-> "NONE", layer |-> 0]
    /\ job_ipc' = [job_ipc EXCEPT !.unread = FALSE]
    /\ UNCHANGED <<system, resume, recovery, operator_actions, motion_idle, ctxVars,
                   snapshot_file, worldVars, boundVars, historyVars>>

NoJobAccepted ==
    /\ pc = "ingress"
    /\ ~(job_ipc.unread /\ CanSubmitJob)
    /\ pc' = "activate"
    /\ UNCHANGED <<machineVars, ctxVars, snapshot_file, worldVars, job_ipc, boundVars,
                   historyVars>>

\* The program manager writes a job; a job nobody read yet is overwritten. The first boot
\* creates the region, and a kill leaves it.
WriteJob ==
    /\ pc # "down" \/ crashes > 0
    /\ jobs_written < MaxJobs
    /\ \E n \in JobSizes : job_ipc' = [unread |-> TRUE, segments |-> n]
    /\ jobs_written' = jobs_written + 1
    /\ UNCHANGED <<pc, machineVars, ctxVars, snapshot_file, worldVars, crashes, historyVars>>
-----------------------------------------------------------------------------
(* Stage "activate": the execution gate, then main's arm -> RUNNING transition. *)

Gated(c) == IF /\ system = "EXECUTING_PRINT" /\ c.phase = "IDLE" /\ ~c.armed
               /\ job.loaded /\ job.present
            THEN [c EXCEPT !.armed = TRUE] ELSE c

ArmedStaysArmed(c) == IF system = "EXECUTING_PRINT" /\ c.phase = "IDLE" /\ c.armed
                         /\ c.cursor < job.total
                      THEN [c EXCEPT !.phase = "RUNNING", !.owned = TRUE] ELSE c
Armed(c) == IF /\ system = "EXECUTING_PRINT" /\ c.phase = "IDLE" /\ c.armed
               /\ c.cursor < job.total
            THEN [c EXCEPT !.phase = "RUNNING", !.armed = FALSE, !.owned = TRUE] ELSE c

Activate ==
    /\ pc = "activate"
    /\ pc' = "execute"
    /\ ctx' = Armed(Gated(ctx))
    /\ UNCHANGED <<machineVars, last_cursor, abort_started, pause_snapshot, snapshot_file,
                   worldVars, job_ipc, boundVars, historyVars>>
-----------------------------------------------------------------------------
(* Stages "execute", "recheck" and "submit": one call of execution_step. It asks the motion
   controller whether it is ready up to three times, and a callback can change the answer
   in between. *)

MayStepInAnyState == ctx.phase = "RUNNING" /\ ~ctx.abort_in_progress /\ ctx.owned
MayStep == /\ system = "EXECUTING_PRINT"
           /\ ctx.phase = "RUNNING"
           /\ ~ctx.abort_in_progress
           /\ ctx.owned

StepNotCalled ==
    /\ pc = "execute"
    /\ ~MayStep
    /\ pc' = "poll"
    /\ UNCHANGED <<machineVars, ctxVars, snapshot_file, worldVars, job_ipc, boundVars,
                   historyVars>>

\* All segments submitted: COMPLETED or BLOCKED, and nothing more.
StepExhausted ==
    /\ pc = "execute"
    /\ MayStep
    /\ ctx.cursor >= job.total
    /\ last_cursor' = ctx.cursor
    /\ pc' = "poll"
    /\ UNCHANGED <<machineVars, ctx, abort_started, pause_snapshot, snapshot_file, worldVars,
                   job_ipc, boundVars, historyVars>>

\* The motion settle: go on when the controller is ready or reports a completion.
StepSettle ==
    /\ pc = "execute"
    /\ MayStep
    /\ ctx.cursor < job.total
    /\ last_cursor' = ctx.cursor
    /\ \/ /\ Ready(motion)
          /\ pc' = "recheck"
          /\ UNCHANGED motion
       \/ /\ ~Ready(motion)
          /\ pc' = IF PollResult(motion) = "COMPLETED" THEN "recheck" ELSE "poll"
          /\ motion' = Polled(motion)
    /\ UNCHANGED <<machineVars, ctx, abort_started, pause_snapshot, snapshot_file, world,
                   job_ipc, boundVars, historyVars>>

Recheck ==
    /\ pc = "recheck"
    /\ pc' = IF Ready(motion) THEN "submit" ELSE "poll"
    /\ UNCHANGED <<machineVars, ctxVars, snapshot_file, worldVars, job_ipc, boundVars,
                   historyVars>>

\* submit() publishes the target, or refuses it as busy; the cursor moves on either way.
Submit ==
    /\ pc = "submit"
    /\ pc' = "poll"
    /\ ctx' = [ctx EXCEPT !.cursor = @ + 1]
    /\ \/ /\ Ready(motion)
          /\ motion' = [motion EXCEPT !.submitted = NextSeq(@)]
          /\ world' = Append(world, NextSeq(motion.submitted))
          /\ printed' = Append(printed, ctx.cursor)
       \/ /\ ~Ready(motion)
          /\ UNCHANGED <<worldVars, printed>>
    /\ UNCHANGED <<machineVars, last_cursor, abort_started, pause_snapshot, snapshot_file,
                   job_ipc, boundVars, resumes>>

\* Stage "poll": main's own motion.poll(), then motion_idle from is_ready(): the idle flag
\* poll() has just stored there is lost.
PollMotionKeepsIdle ==
    /\ pc = "poll"
    /\ pc' = "orchestrate"
    /\ motion' = Polled(motion)
    /\ UNCHANGED <<machineVars, ctxVars, snapshot_file, world, job_ipc, boundVars, historyVars>>
PollMotion ==
    /\ pc = "poll"
    /\ pc' = "orchestrate"
    /\ motion' = Polled(motion)
    /\ motion_idle' = Ready(motion)
    /\ UNCHANGED <<system, job, resume, recovery, operator_actions, ctxVars, snapshot_file,
                   world, job_ipc, boundVars, historyVars>>
-----------------------------------------------------------------------------
(* Stage "orchestrate": ExecutionOrchestrator::step, one action per branch. *)

\* The early start of the orchestrator: the gate has normally armed and started already.
StartedEarly(c) == IF /\ ~c.owned /\ c.phase = "IDLE"
                      /\ c.cursor < job.total /\ (c.armed \/ c.cursor = 0)
                   THEN [c EXCEPT !.phase = "RUNNING", !.owned = TRUE, !.armed = FALSE]
                   ELSE c

JobFinishedOneEarly == ctx.phase = "RUNNING" /\ ctx.cursor + 1 >= job.total /\ motion_idle
JobFinishedPastTheEnd == ctx.phase = "RUNNING" /\ ctx.cursor > job.total /\ motion_idle
JobFinished == ctx.phase = "RUNNING" /\ ctx.cursor >= job.total /\ motion_idle

\* FAULT and RECOVERING return first; in READY and IDLE the phase is never RUNNING, so
\* nothing below the RESUMING branch applies.
NothingToOrchestrate ==
    /\ pc = "orchestrate"
    /\ system \in {"FAULT", "RECOVERING", "READY", "IDLE"}
    /\ pc' = "publish"
    /\ UNCHANGED <<machineVars, ctxVars, snapshot_file, worldVars, job_ipc, boundVars,
                   historyVars>>

KeepExecuting ==
    /\ pc = "orchestrate"
    /\ system = "EXECUTING_PRINT"
    /\ ~JobFinished
    /\ pc' = "publish"
    /\ ctx' = StartedEarly(ctx)
    /\ UNCHANGED <<machineVars, last_cursor, abort_started, pause_snapshot, snapshot_file,
                   worldVars, job_ipc, boundVars, historyVars>>

\* request_job_complete(), then the job is taken away. JobIngressState keeps job_loaded.
CompleteJob ==
    /\ pc = "orchestrate"
    /\ system = "EXECUTING_PRINT"
    /\ JobFinished
    /\ pc' = "publish"
    /\ system' = "READY"
    /\ resume' = [available |-> FALSE, consumed |-> FALSE]
    /\ job' = [job EXCEPT !.present = FALSE, !.stored = FALSE, !.held = FALSE,
                          !.state = "NONE", !.layer = 0]
    /\ ctx' = ResetHard(ctx)
    /\ UNCHANGED <<recovery, operator_actions, motion_idle, last_cursor, abort_started,
                   pause_snapshot, snapshot_file, worldVars, job_ipc, boundVars, historyVars>>

\* The first tick of an abort stops execution and forgets the snapshot; the tick that sees
\* motion_idle, possibly the same one, ends it in finalize_abort().
AbortBegunStillOwned(c) ==
    IF abort_started THEN c ELSE [c EXCEPT !.abort_in_progress = TRUE, !.phase = "IDLE"]
AbortBegun(c) == IF abort_started THEN c
                 ELSE [c EXCEPT !.abort_in_progress = TRUE, !.phase = "IDLE", !.owned = FALSE]

AbortDrainMissed == ~AbortBegun(ctx).abort_in_progress
AbortDrained == AbortBegun(ctx).abort_in_progress => motion_idle

AbortSnapshotKept == snapshot_file
AbortSnapshot == IF abort_started THEN snapshot_file ELSE NoSnapshot

AbortPending ==
    /\ pc = "orchestrate"
    /\ system = "ABORTING"
    /\ ~AbortDrained
    /\ pc' = "publish"
    /\ ctx' = AbortBegun(ctx)
    /\ abort_started' = TRUE
    /\ pause_snapshot' = (abort_started /\ pause_snapshot)
    /\ snapshot_file' = AbortSnapshot
    /\ motion' = [motion EXCEPT !.abort_active = IF abort_started THEN @ ELSE TRUE]
    /\ UNCHANGED <<machineVars, last_cursor, world, job_ipc, boundVars, historyVars>>

FinalizeAbort ==
    /\ pc = "orchestrate"
    /\ system = "ABORTING"
    /\ AbortDrained
    /\ pc' = "publish"
    /\ ctx' = [AbortBegun(ctx) EXCEPT !.abort_in_progress = FALSE]
    /\ abort_started' = FALSE
    /\ pause_snapshot' = (abort_started /\ pause_snapshot)
    /\ snapshot_file' = AbortSnapshot
    /\ motion' = [motion EXCEPT !.abort_active = FALSE]
    /\ resume' = [available |-> FALSE, consumed |-> FALSE]
    /\ system' = "IDLE"
    /\ job' = [job EXCEPT !.state = "NONE"]
    /\ UNCHANGED <<recovery, operator_actions, motion_idle, last_cursor, world, job_ipc,
                   boundVars, historyVars>>

\* persist_execution_snapshot() truncates the file and writes it; its result is ignored.
PersistedOneBehind == [valid |-> TRUE, job_id |-> JobContextId, cursor |-> last_cursor]
Persisted == [valid |-> TRUE, job_id |-> JobContextId, cursor |-> ctx.cursor]

HoldPaused ==
    /\ pc = "orchestrate"
    /\ system = "PAUSED"
    /\ pc' = "publish"
    /\ pause_snapshot' = TRUE
    /\ \/ pause_snapshot /\ UNCHANGED snapshot_file
       \/ ~pause_snapshot /\ snapshot_file' = Persisted
       \/ ~pause_snapshot /\ PersistMayFail /\ snapshot_file' = NoSnapshot
    /\ ctx' = IF ctx.owned \/ ctx.armed
              THEN [ctx EXCEPT !.phase = "IDLE", !.owned = FALSE, !.armed = FALSE] ELSE ctx
    /\ UNCHANGED <<machineVars, last_cursor, abort_started, worldVars, job_ipc, boundVars,
                   historyVars>>

RestoreSnapshot ==
    /\ pc = "orchestrate"
    /\ system = "RESUMING"
    /\ ~ctx.owned
    /\ snapshot_file.valid
    /\ pc' = "publish"
    /\ ctx' = [ResetHard(ctx) EXCEPT !.cursor = snapshot_file.cursor, !.armed = TRUE]
    /\ snapshot_file' = NoSnapshot
    /\ pause_snapshot' = FALSE
    /\ resume' = [available |-> FALSE, consumed |-> TRUE]
    /\ system' = "EXECUTING_PRINT"
    /\ UNCHANGED <<job, recovery, operator_actions, motion_idle, last_cursor, abort_started,
                   worldVars, job_ipc, boundVars, historyVars>>

\* request_fault(0xE060): the only fault the firmware can reach.
SnapshotMissing ==
    /\ pc = "orchestrate"
    /\ system = "RESUMING"
    /\ ~ctx.owned
    /\ ~snapshot_file.valid
    /\ pc' = "publish"
    /\ system' = "FAULT"
    /\ resume' = [available |-> FALSE, consumed |-> TRUE]
    /\ recovery' = TRUE
    /\ UNCHANGED <<job, operator_actions, motion_idle, ctxVars, snapshot_file, worldVars,
                   job_ipc, boundVars, historyVars>>
-----------------------------------------------------------------------------
(* Stage "publish": motion_idle again, derive_operator_actions, the wait for the tick. *)

Publish ==
    /\ pc = "publish"
    /\ pc' = "command"
    /\ motion_idle' = Ready(motion)
    /\ operator_actions' = ActionsIn(system, resume.consumed)
    /\ UNCHANGED <<system, job, resume, recovery, ctxVars, snapshot_file, worldVars, job_ipc,
                   boundVars, historyVars>>
-----------------------------------------------------------------------------
(* Crash and boot. *)

\* classify_boot_state(): the identity check compares with a MachineState nothing has filled.
SnapshotAccepted == snapshot_file.valid /\ snapshot_file.job_id = JobContextId

Boot ==
    /\ pc = "down"
    /\ pc' = "command"
    /\ system' = IF SnapshotAccepted THEN "PAUSED" ELSE "READY"
    /\ resume' = [available |-> SnapshotAccepted, consumed |-> FALSE]
    /\ pause_snapshot' = SnapshotAccepted
    /\ snapshot_file' = IF SnapshotAccepted THEN snapshot_file ELSE NoSnapshot
    /\ job_ipc' = EmptyJobIpc
    /\ UNCHANGED <<job, recovery, operator_actions, motion_idle, ctx, last_cursor,
                   abort_started, worldVars, boundVars, historyVars>>

\* The state of a process that is not running: everything but the disk and the world.
ProcessGone ==
    /\ pc' = "down"
    /\ system' = "IDLE"
    /\ job' = NoJob
    /\ resume' = [available |-> FALSE, consumed |-> FALSE]
    /\ recovery' = FALSE
    /\ operator_actions' = NoActions
    /\ motion_idle' = TRUE
    /\ ctx' = FreshContext
    /\ last_cursor' = 0
    /\ abort_started' = FALSE
    /\ pause_snapshot' = FALSE
    /\ motion' = FreshMotion
    /\ printed' = <<>>
    /\ resumes' = 0

\* A kill at any point of the tick, between persisting and clearing the snapshot included.
Crash ==
    /\ pc # "down"
    /\ crashes < MaxCrashes
    /\ crashes' = crashes + 1
    /\ ProcessGone
    /\ UNCHANGED <<snapshot_file, world, job_ipc, jobs_written>>

\* The world motion controller is restarted or lost: what it had queued never completes.
WorldLost ==
    /\ WorldMayFail
    /\ world # <<>>
    /\ world' = <<>>
    /\ UNCHANGED <<pc, machineVars, ctxVars, snapshot_file, motion, job_ipc, boundVars,
                   historyVars>>
-----------------------------------------------------------------------------
Init ==
    /\ pc = "down"
    /\ system = "IDLE"
    /\ job = NoJob
    /\ resume = [available |-> FALSE, consumed |-> FALSE]
    /\ recovery = FALSE
    /\ operator_actions = NoActions
    /\ motion_idle = TRUE
    /\ ctx = FreshContext
    /\ last_cursor = 0
    /\ abort_started = FALSE
    /\ pause_snapshot = FALSE
    /\ snapshot_file = NoSnapshot
    /\ motion = FreshMotion
    /\ world = <<>>
    /\ job_ipc = EmptyJobIpc
    /\ jobs_written = 0
    /\ crashes = 0
    /\ printed = <<>>
    /\ resumes = 0

Command == NoCommand \/ Start \/ Pause \/ Resume \/ Abort \/ ClearJob \/ Recover
Ingress == AcceptJob \/ NoJobAccepted
ExecutionStep == StepNotCalled \/ StepExhausted \/ StepSettle \/ Recheck \/ Submit
Orchestrate == \/ NothingToOrchestrate \/ KeepExecuting \/ CompleteJob
               \/ AbortPending \/ FinalizeAbort
               \/ HoldPaused \/ RestoreSnapshot \/ SnapshotMissing

\* The main loop, and everything that is not the main loop.
Tick == Command \/ Ingress \/ Activate \/ ExecutionStep \/ PollMotion \/ Orchestrate
        \/ Publish \/ Boot
Environment == \/ OnWorldComplete \/ OnMotionStatus \/ OnMotionResult \/ TimePasses
               \/ WriteJob \/ Crash \/ WorldLost

Next == Tick \/ Environment

Spec == Init /\ [][Next]_vars

\* The loop is woken by a timer, the ROS thread spins, time passes, and the world completes
\* the targets it still has. Nobody has to send commands or jobs, crash, or lose messages.
Fairness == WF_vars(Tick) /\ WF_vars(OnWorldComplete) /\ WF_vars(TimePasses)

FairSpec == Spec /\ Fairness
-----------------------------------------------------------------------------
(* Properties *)

TypeOK ==
    /\ pc \in Stages \cup {"down"}
    /\ system \in SystemStates
    /\ job \in JobRecord
    /\ resume \in [available : BOOLEAN, consumed : BOOLEAN]
    /\ recovery \in BOOLEAN
    /\ operator_actions \in OperatorActions
    /\ motion_idle \in BOOLEAN
    /\ ctx \in ExecutionContext
    /\ last_cursor \in Nat
    /\ abort_started \in BOOLEAN
    /\ pause_snapshot \in BOOLEAN
    /\ snapshot_file \in SnapshotFile
    /\ motion \in Motion
    /\ world \in Seq(0..SeqModulus-1)
    /\ job_ipc \in [unread : BOOLEAN, segments : Nat]
    /\ jobs_written \in 0..MaxJobs
    /\ crashes \in 0..MaxCrashes
    /\ printed \in Seq(Nat)
    /\ resumes \in Nat

\* None of the asserts of a tick can fail, whatever the commands, the callbacks and the
\* crashes: the cursor never goes back within an execution (execution_step), the context is
\* never armed and owned at once (the orchestrator), and after the orchestrator it is owned
\* exactly when it is running (enforce_execution_ownership).
AssertionsHold ==
    /\ pc = "execute" /\ MayStep => ctx.cursor = 0 \/ ctx.cursor >= last_cursor
    /\ pc = "orchestrate" => ~(ctx.armed /\ ctx.owned)
    /\ pc = "publish" => (ctx.phase = "RUNNING" <=> ctx.owned)

\* execution_step indexes job.segments without a check of the pointer: by then the job is
\* there, its segments are not freed, and the cursor is within them. A completion frees them
\* while the total, the ingress latch and the cursor of the orchestrator's early start remain.
SegmentReadInBounds ==
    pc \in {"recheck", "submit"} => job.present /\ job.held /\ ctx.cursor < job.total

\* A print is resumed at most once between a START (or boot) and the next, although PAUSE
\* makes resume available every time and RESUME is tested against the operator actions of
\* the previous tick.
ResumeOncePerStart == resumes <= 1

\* I6, RESUME never resets the cursor: as long as the process that paused still runs, the
\* cursor on disk, which a RESUME will load, is the one execution stopped at.
SnapshotIsTheCursor == snapshot_file.valid /\ job.present => snapshot_file.cursor = ctx.cursor

\* A pause snapshot is on disk only while the print is paused or on its way out of the pause.
\* So a crash at any other moment, in an abort that has begun, a fault, a recovery or between
\* jobs, never boots into PAUSED.
SnapshotOnlyWhilePaused ==
    snapshot_file.valid =>
        \/ pc = "down"
        \/ system \in {"PAUSED", "RESUMING"}
        \/ system = "ABORTING" /\ ~abort_started

\* Only a print has an executor: a PAUSE or an ABORT takes the ownership away before its tick
\* ends, by another branch each, and no other state ever has it. So a RESUME finds none; if it
\* did, the orchestrator would return at once on every tick, in a state that allows no command.
\* And in READY and IDLE, which the orchestrator does not test, nothing is RUNNING.
OnlyPrintsAreExecuted ==
    ctx.owned => \/ system = "EXECUTING_PRINT"
                 \/ system \in {"PAUSED", "ABORTING"} /\ pc \notin {"publish", "command"}

\* The records of the job agree: machine state, job store, ingress latch and g_active_job are
\* written one after the other in four files.
JobViewsAgree ==
    /\ job.present <=> job.stored
    /\ job.present => job.loaded /\ job.held /\ job.total > 0

\* The state of the firmware as the life of a print sees it.
PrintMode == IF pc = "down" THEN "off"
             ELSE CASE system = "READY" -> "ready"
                    [] system = "EXECUTING_PRINT" -> "printing"
                    [] system = "PAUSED" -> "paused"
                    [] system = "RESUMING" -> "resuming"
                    [] OTHER -> "stopped"

JobSegments == UNION {0..(n - 1) : n \in JobSizes}

Lifecycle == INSTANCE PrintLifecycle
             WITH mode <- PrintMode, Segments <- JobSegments, resumed <- resumes > 0,
                  sent <- printed

\* Every behaviour of the loop, its threads, crashes and commands is one of PrintLifecycle:
\* segments leave only while printing and in increasing order over pauses and resumes, one
\* resume per print, and no way from an abort or a fault back into the print.
ImplementsLifecycle == Lifecycle!Spec

Contract == INSTANCE WorldQueue
    WITH up <- pc # "down", submitted <- motion.submitted, completed <- motion.completed

\* The firmware numbers every target it publishes one higher than the one before, publishes none
\* it refused, and records what the world completes as it comes, oldest first: its side of the
\* contract that MobileStack implements from the other side.
KeepsWorldContract == Contract!Spec

\* The same firmware with the execution of a print left open, as its clients see it.
ViewStage == IF pc \in {"activate", "execute", "recheck", "submit", "poll"}
             THEN "orchestrate" ELSE pc

View == INSTANCE FirmwareView
        WITH stage <- ViewStage, snapshot <- snapshot_file.valid,
             job <- [present |-> job.present, loaded |-> job.loaded, layer |-> job.layer]

\* Whatever the loop, its threads and its disk do, the other processes see the four stages of
\* FirmwareView: commands take effect before the ingress and the ingress before the print, no
\* snapshot appears outside a pause, and nothing but CLEAR_JOB unloads a job.
ImplementsView == View!Spec

\* The next five are properties of a process that is not killed and a world that loses nothing.

\* A job is complete only when each of its segments has been sent, once and in order.
CompletesEverySegment ==
    [][CompleteJob => printed = [i \in 1..job.total |-> i - 1]]_vars

\* The window: the completions of the ROS thread and the submissions of the loop keep the
\* difference of the two counters equal to what the world still has to do, and in the window.
WindowRespected == Inflight(motion) = Len(world) /\ Len(world) <= StreamWindow

\* motion_idle only means that there is room in the window, and the orchestrator reads it after
\* callbacks have run. Still it is the answer of the same tick: when a job is taken away, at
\* least one place of the window is free, and a window of one place is drained.
CompletesWithRoom == [][CompleteJob => Len(world) < StreamWindow]_vars

\* A print that still has segments to send ends, or the operator stops it.
ExecutionEnds ==
    system = "EXECUTING_PRINT" /\ ctx.cursor < job.total ~> system # "EXECUTING_PRINT"

\* An abort ends.
AbortEnds == system = "ABORTING" ~> system = "IDLE"
-----------------------------------------------------------------------------
(* What comments and messages of the code say, and the code does not do. *)

\* "START always resets execution context": the print starts at the first segment.
StartResetsContext == [][Start => ctx'.cursor = 0]_vars

\* "all segments completed + drained": nothing is in flight when a job completes.
CompletionIsDrained == [][CompleteJob => Inflight(motion) = 0]_vars

\* The context "encodes everything required to deterministically continue or resume
\* execution": a print that was resumed comes to an end too.
ResumedPrintEnds ==
    system = "EXECUTING_PRINT" /\ job.present /\ resumes > 0 ~> system # "EXECUTING_PRINT"

\* "If ROS stopped responding" the abort is treated as drained: it ends, unless a callback
\* comes after all.
AbortFallbackEnds ==
    system = "ABORTING" /\ motion.activity \in {"quiet", "dead"}
        ~> system = "IDLE" \/ motion.activity = "recent"

\* "Job ID must still match": what is resumed is a job the firmware has.
ResumeNeedsItsJob == system = "RESUMING" => job.present
=============================================================================
