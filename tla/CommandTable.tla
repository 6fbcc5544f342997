----------------------------- MODULE CommandTable -----------------------------
(***************************************************************************)
(* The states of the firmware, and which command each of them allows: the    *)
(* part of the command handling that needs no other state.                   *)
(***************************************************************************)

SystemStates == {"IDLE", "READY", "EXECUTING_PRINT", "PAUSED", "RESUMING",
                 "ABORTING", "FAULT", "RECOVERING"}

CommandAllowed(sys, command) ==
    CASE sys = "FAULT"           -> command \in {"RECOVER", "CLEAR_JOB"}
      [] sys = "RECOVERING"      -> command = "CLEAR_JOB"
      [] sys = "READY"           -> command \in {"START", "CLEAR_JOB"}
      [] sys = "EXECUTING_PRINT" -> command \in {"PAUSE", "ABORT"}
      [] sys = "PAUSED"          -> command \in {"RESUME", "ABORT"}
      [] OTHER                   -> FALSE

\* OperatorActions, as derive_operator_actions() computes them from the state and from
\* whether the resume is used up.
OperatorActions ==
    [can_submit_job : BOOLEAN, can_start : BOOLEAN, can_resume : BOOLEAN,
     can_clear_job : BOOLEAN, can_recover : BOOLEAN]
NoActions == [can_submit_job |-> FALSE, can_start |-> FALSE, can_resume |-> FALSE,
              can_clear_job |-> FALSE, can_recover |-> FALSE]
ActionsIn(sys, resume_consumed) ==
    CASE sys = "FAULT" ->
            [NoActions EXCEPT !.can_clear_job = TRUE, !.can_recover = TRUE]
      [] sys = "RECOVERING" ->
            [NoActions EXCEPT !.can_clear_job = TRUE]
      [] OTHER ->
            [can_submit_job |-> TRUE, can_start |-> TRUE, can_clear_job |-> TRUE,
             can_recover |-> FALSE, can_resume |-> ~resume_consumed]
=============================================================================
