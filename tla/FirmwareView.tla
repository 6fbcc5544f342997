----------------------------- MODULE FirmwareView -----------------------------
(***************************************************************************)
(* The firmware as the other processes see it: module Firmware without the   *)
(* execution of the print. A tick is four stages,                            *)
(*                                                                         *)
(*   command -> ingress -> orchestrate -> publish -> command,                *)
(*                                                                         *)
(* and whether a print goes on or is complete, an abort has drained, a       *)
(* snapshot was written, is left open. Firmware implements this module.      *)
(***************************************************************************)
EXTENDS Integers, CommandTable

CONSTANT
    JobSizes           \* total_segments of the jobs written; 0 does not decode

VARIABLES
    stage,             \* what the loop is about to run, or "down"
    system,            \* SystemState
    job,               \* job_present, JobIngressState::job_loaded, JobContext::layer
    resume,            \* resume_available and resume_consumed
    operator_actions,  \* what the last publication allowed the operator to do
    snapshot,          \* whether a pause snapshot is on disk
    job_ipc            \* the job region of shared memory

viewVars == <<stage, system, job, resume, operator_actions, snapshot, job_ipc>>

NoJob == [present |-> FALSE, loaded |-> FALSE, layer |-> 0]
Used == [available |-> FALSE, consumed |-> TRUE]
Unused == [available |-> FALSE, consumed |-> FALSE]
EmptyJobIpc == [unread |-> FALSE, segments |-> 0]
-----------------------------------------------------------------------------
(* Stage "command" *)

NoCommand ==
    /\ stage = "command"
    /\ stage' = "ingress"
    /\ UNCHANGED <<system, job, resume, operator_actions, snapshot, job_ipc>>

\* It may also be refused, when a fault has left the cursor beyond the end of this job.
Start ==
    /\ stage = "command"
    /\ CommandAllowed(system, "START")
    /\ operator_actions.can_start
    /\ job.present
    /\ stage' = "ingress"
    /\ system' = "EXECUTING_PRINT"
    /\ resume' = Unused
    /\ job' = [job EXCEPT !.layer = 1]
    /\ UNCHANGED <<operator_actions, snapshot, job_ipc>>

Pause ==
    /\ stage = "command"
    /\ CommandAllowed(system, "PAUSE")
    /\ stage' = "ingress"
    /\ system' = "PAUSED"
    /\ resume' = [resume EXCEPT !.available = TRUE]
    /\ UNCHANGED <<job, operator_actions, snapshot, job_ipc>>

Resume ==
    /\ stage = "command"
    /\ CommandAllowed(system, "RESUME")
    /\ operator_actions.can_resume
    /\ resume.available
    /\ ~resume.consumed
    /\ stage' = "ingress"
    /\ system' = "RESUMING"
    /\ resume' = Used
    /\ UNCHANGED <<job, operator_actions, snapshot, job_ipc>>

Abort ==
    /\ stage = "command"
    /\ CommandAllowed(system, "ABORT")
    /\ stage' = "ingress"
    /\ system' = "ABORTING"
    /\ UNCHANGED <<job, resume, operator_actions, snapshot, job_ipc>>

ClearJob ==
    /\ stage = "command"
    /\ CommandAllowed(system, "CLEAR_JOB")
    /\ operator_actions.can_clear_job
    /\ stage' = "ingress"
    /\ system' = "READY"
    /\ job' = NoJob
    /\ resume' = Used
    /\ snapshot' = FALSE
    /\ UNCHANGED <<operator_actions, job_ipc>>

Recover ==
    /\ stage = "command"
    /\ CommandAllowed(system, "RECOVER")
    /\ operator_actions.can_recover
    /\ stage' = "ingress"
    /\ system' = "RECOVERING"
    /\ resume' = Used
    /\ snapshot' = FALSE
    /\ UNCHANGED <<job, operator_actions, job_ipc>>
-----------------------------------------------------------------------------
(* Stage "ingress" *)

CanSubmitJob == /\ operator_actions.can_submit_job
                /\ ~job.present
                /\ system = "READY"
                /\ job_ipc.segments > 0

AcceptJob ==
    /\ stage = "ingress"
    /\ job_ipc.unread
    /\ CanSubmitJob
    /\ stage' = "orchestrate"
    /\ job' = [present |-> TRUE, loaded |-> TRUE, layer |-> 0]
    /\ job_ipc' = [job_ipc EXCEPT !.unread = FALSE]
    /\ UNCHANGED <<system, resume, operator_actions, snapshot>>

NoJobAccepted ==
    /\ stage = "ingress"
    /\ ~(job_ipc.unread /\ CanSubmitJob)
    /\ stage' = "orchestrate"
    /\ UNCHANGED <<system, job, resume, operator_actions, snapshot, job_ipc>>

\* The program manager writes a job, also while the firmware is down: the region stays.
WriteJob(n) == job_ipc' = [unread |-> TRUE, segments |-> n]
-----------------------------------------------------------------------------
(* Stage "orchestrate": activation, execution and the orchestrator. *)

\* What the stage leaves as it is in any case.
OrchestratedVars == <<operator_actions, job_ipc>>

GoOn ==
    /\ stage = "orchestrate"
    /\ system \notin {"PAUSED", "RESUMING"}
    /\ stage' = "publish"
    /\ snapshot' = (snapshot /\ system # "ABORTING")
    /\ UNCHANGED <<system, job, resume, OrchestratedVars>>

\* The job is taken away, but JobIngressState keeps job_loaded.
Complete ==
    /\ stage = "orchestrate"
    /\ system = "EXECUTING_PRINT"
    /\ stage' = "publish"
    /\ system' = "READY"
    /\ resume' = Unused
    /\ job' = [present |-> FALSE, loaded |-> job.loaded, layer |-> 0]
    /\ UNCHANGED <<snapshot, OrchestratedVars>>

FinalizeAbort ==
    /\ stage = "orchestrate"
    /\ system = "ABORTING"
    /\ stage' = "publish"
    /\ system' = "IDLE"
    /\ resume' = Unused
    /\ snapshot' = FALSE
    /\ UNCHANGED <<job, OrchestratedVars>>

HoldPaused ==
    /\ stage = "orchestrate"
    /\ system = "PAUSED"
    /\ stage' = "publish"
    /\ snapshot' \in BOOLEAN
    /\ UNCHANGED <<system, job, resume, OrchestratedVars>>

\* Resumed from the snapshot, or faulted without one.
FinishResume ==
    /\ stage = "orchestrate"
    /\ system = "RESUMING"
    /\ stage' = "publish"
    /\ system' = IF snapshot THEN "EXECUTING_PRINT" ELSE "FAULT"
    /\ resume' = Used
    /\ snapshot' = FALSE
    /\ UNCHANGED <<job, OrchestratedVars>>
-----------------------------------------------------------------------------
(* Stage "publish", kills and boots *)

Publish ==
    /\ stage = "publish"
    /\ stage' = "command"
    /\ operator_actions' = ActionsIn(system, resume.consumed)
    /\ UNCHANGED <<system, job, resume, snapshot, job_ipc>>

Boot ==
    /\ stage = "down"
    /\ stage' = "command"
    /\ system' = IF snapshot THEN "PAUSED" ELSE "READY"
    /\ resume' = [available |-> snapshot, consumed |-> FALSE]
    /\ job_ipc' = EmptyJobIpc
    /\ UNCHANGED <<job, operator_actions, snapshot>>

Crash ==
    /\ stage # "down"
    /\ stage' = "down"
    /\ system' = "IDLE"
    /\ job' = NoJob
    /\ resume' = Unused
    /\ operator_actions' = NoActions
    /\ UNCHANGED <<snapshot, job_ipc>>

Init ==
    /\ stage = "down"
    /\ system = "IDLE"
    /\ job = NoJob
    /\ resume = Unused
    /\ operator_actions = NoActions
    /\ snapshot = FALSE
    /\ job_ipc = EmptyJobIpc

Orchestrate == GoOn \/ Complete \/ FinalizeAbort \/ HoldPaused \/ FinishResume

Next ==
    \/ NoCommand \/ Start \/ Pause \/ Resume \/ Abort \/ ClearJob \/ Recover
    \/ AcceptJob \/ NoJobAccepted
    \/ Orchestrate
    \/ Publish \/ Boot \/ Crash
    \/ /\ \E n \in JobSizes : WriteJob(n)
       /\ UNCHANGED <<stage, system, job, resume, operator_actions, snapshot>>

Spec == Init /\ [][Next]_viewVars
=============================================================================
