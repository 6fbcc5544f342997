---------------------------- MODULE ProgramManager ----------------------------
(***************************************************************************)
(* The ROS node that turns a G-code file into a program and writes it into   *)
(* the job region of shared memory (wbp_program_manager). A program is its   *)
(* number of segments. The copy into the region is one step.                 *)
(***************************************************************************)
EXTENDS MachineStateMessage

CONSTANTS
    ProgramSizes,    \* segments of the programs loaded; 0 is a file without a move
    MaxLoads         \* bound: files loaded

VARIABLES
    inbox,           \* the /machine_state message under way to each subscriber
    job_ipc,         \* the job region, read by the firmware
    pm,              \* MotionLoader
    region_load      \* history: which load the job region is from

\* load counts the files, for the bound and as history.
FreshProgramManager ==
    [program |-> 0, load |-> 0, start_received |-> FALSE, job_submitted |-> FALSE]

LoadGcode ==
    /\ pm.load < MaxLoads
    /\ \E n \in ProgramSizes :
          pm' = [FreshProgramManager EXCEPT !.program = n, !.load = pm.load + 1]
    /\ UNCHANGED <<inbox, job_ipc, region_load>>

Submits(state) ==
    /\ ~pm.job_submitted
    /\ state.system = "READY"
    /\ ~state.loaded
    /\ ~pm.start_received
    /\ pm.program > 0

Starts(state) == ~pm.start_received /\ state.system = "EXECUTING_PRINT"

\* "Job completed": READY without a loaded job, after a start.
Resets(state) == pm.start_received /\ state.system = "READY" /\ ~state.loaded

ForgetsSubmission(state) == [pm EXCEPT !.start_received = @ \/ Starts(state)]
AfterState(state) ==
    IF Resets(state)
    THEN [FreshProgramManager EXCEPT !.load = pm.load]
    ELSE [pm EXCEPT !.job_submitted = @ \/ Submits(state),
                    !.start_received = @ \/ Starts(state)]

\* stateCallback: submitJobIPC, startExecution and the reset, in this order.
StateCallback ==
    /\ inbox["pm"] # NoState
    /\ pm' = AfterState(inbox["pm"])
    /\ IF Submits(inbox["pm"])
       THEN /\ job_ipc' = [unread |-> TRUE, segments |-> pm.program]
            /\ region_load' = pm.load
       ELSE UNCHANGED <<job_ipc, region_load>>
    /\ inbox' = [inbox EXCEPT !["pm"] = NoState]
=============================================================================
