------------------------------ MODULE Supervisor ------------------------------
(***************************************************************************)
(* The ROS node between the operator's services and the firmware            *)
(* (wbp_supervisor). It reads the state region of shared memory on a 50 ms   *)
(* timer, publishes what it read as /machine_state, and writes commands into *)
(* the one command slot. One thread runs every callback to its end.          *)
(*                                                                         *)
(* A command is copied into the slot by a memcpy, in two pieces: the one     *)
(* with the sequence number goes first. The firmware may read in between.    *)
(*                                                                         *)
(* Left out: /motion_override, the stream topic nobody subscribes to, and    *)
(* /firmware/job_submit, which nothing in the repository calls.              *)
(***************************************************************************)
EXTENDS MachineStateMessage

CONSTANTS
    Subscribers,     \* the nodes that subscribe to /machine_state: "pm", "ui"
    MaxCommands      \* bound: commands a supervisor process is asked to write

VARIABLES
    published,       \* the state region, written by the firmware
    slot,            \* the command slot, written here
    inbox,           \* the /machine_state message under way to each subscriber
    sup,             \* SupervisorNode, its CommandPolicy and its IPCCommandWriter
    writes           \* history: commands written since the beginning, by any process

\* pre_state is engaged exactly while a command is active. motion: the exec_state of the
\* last /motion_runtime_state. unwritten: the command of a copy still under way.
FreshSupervisor ==
    [last_state |-> NoState, pre_state |-> NoState, start_requested |-> FALSE,
     start_sent |-> FALSE, abort_sent |-> FALSE, motion |-> "NONE", seq |-> 0,
     unwritten |-> "NONE"]

\* header and body are history: the number of the write each piece of the slot is from.
EmptySlot == [seq |-> 0, command |-> "NONE", header |-> 0, body |-> 0]
-----------------------------------------------------------------------------
(* CommandPolicy *)

CanSend(s) == s.pre_state = NoState

MarkSent(s) == [s EXCEPT !.pre_state = s.last_state]

\* evaluate(): any difference, in any field, resolves the command.
Evaluated(s, state) ==
    IF s.last_state # NoState /\ s.pre_state # NoState /\ state # s.pre_state
    THEN [s EXCEPT !.pre_state = NoState] ELSE s
-----------------------------------------------------------------------------
(* IPCCommandWriter::send_command: the first piece of the copy, then the second. Nothing
   else runs in the node before the copy is complete. *)

Written(s, command) == [s EXCEPT !.seq = @ + 1, !.unwritten = command]

Write(command) ==
    /\ slot' = [slot EXCEPT !.seq = sup.seq + 1, !.header = writes + 1]
    /\ writes' = writes + 1

FinishWrite ==
    /\ sup.unwritten # "NONE"
    /\ slot' = [slot EXCEPT !.command = sup.unwritten, !.body = writes]
    /\ sup' = [sup EXCEPT !.unwritten = "NONE"]
    /\ UNCHANGED <<published, inbox, writes>>

\* send_command(), send_pause_to_firmware() and the body of the clear_job service.
SendByPolicy(command) ==
    IF sup.last_state # NoState /\ CanSend(sup)
    THEN /\ sup' = MarkSent(Written(sup, command))
         /\ Write(command)
    ELSE UNCHANGED <<sup, slot, writes>>
-----------------------------------------------------------------------------
(* The services. A refusal is only a reply, and changes nothing. *)

\* The bound: a START that is latched counts as written.
MayWrite == sup.seq + (IF sup.start_requested THEN 1 ELSE 0) < MaxCommands

StartService ==
    /\ sup' = [sup EXCEPT !.start_requested = TRUE]
    /\ UNCHANGED <<slot, writes>>

\* The reply is "resume sent" whether the policy blocked it or not.
ResumeService ==
    IF sup.motion \in {"NONE", "FAULT"}
    THEN UNCHANGED <<sup, slot, writes>>
    ELSE SendByPolicy("RESUME")

\* send_abort_to_firmware(): past the policy, which does not learn of it.
AbortService ==
    /\ sup' = Written(sup, "ABORT")
    /\ Write("ABORT")

Serve(command) ==
    /\ sup.unwritten = "NONE"
    /\ MayWrite
    /\ \/ command = "START" /\ StartService
       \/ command = "RESUME" /\ ResumeService
       \/ command = "ABORT" /\ AbortService
       \/ command \in {"PAUSE", "CLEAR_JOB"} /\ SendByPolicy(command)
    /\ UNCHANGED <<published, inbox>>

\* The callback of /motion_runtime_state: the first FAULT of a row aborts.
MotionState(exec_state) ==
    /\ sup.unwritten = "NONE"
    /\ sup.motion # exec_state
    /\ IF exec_state = "FAULT" /\ ~sup.abort_sent
       THEN /\ MayWrite
            /\ sup' = [Written(sup, "ABORT") EXCEPT !.motion = exec_state, !.abort_sent = TRUE]
            /\ Write("ABORT")
       ELSE /\ sup' = [sup EXCEPT !.motion = exec_state,
                                  !.abort_sent = @ /\ exec_state = "FAULT"]
            /\ UNCHANGED <<slot, writes>>
    /\ UNCHANGED <<published, inbox>>
-----------------------------------------------------------------------------
(* on_timer. A START the policy blocks is latched as sent all the same. *)

Observed(s, state) ==
    [Evaluated(s, state) EXCEPT !.last_state = state, !.start_sent = @ /\ state.system # "READY"]

StartLatchKept(s) == [s EXCEPT !.start_sent = TRUE]
StartLatched(s) == [s EXCEPT !.start_sent = TRUE, !.start_requested = FALSE]

OnTimer ==
    /\ sup.unwritten = "NONE"
    /\ \A n \in Subscribers : inbox[n] = NoState   \* bound: one message under way
    /\ LET s == Observed(sup, published)
           starts == s.start_requested /\ published.loaded /\ ~s.start_sent
       IN  IF starts /\ CanSend(s)
           THEN /\ sup' = MarkSent(Written(StartLatched(s), "START"))
                /\ Write("START")
           ELSE /\ sup' = IF starts THEN StartLatched(s) ELSE s
                /\ UNCHANGED <<slot, writes>>
    /\ inbox' = [n \in Subscribers |-> published]
    /\ UNCHANGED published

\* The process is killed, possibly within a copy, and started again. It needs the state
\* region, so it never runs before the firmware has been up.
Restart ==
    /\ sup' = FreshSupervisor
    /\ UNCHANGED <<published, slot, inbox, writes>>
=============================================================================
