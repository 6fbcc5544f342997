--------------------------- MODULE OperatorInterface ---------------------------
(***************************************************************************)
(* The operator's window (wbp_ui): which buttons are enabled, and the one    *)
(* command it waits for. A request is sent without looking at the reply.     *)
(***************************************************************************)
EXTENDS MachineStateMessage

CONSTANTS
    AlignmentReports    \* the statuses /localization/alignment_status may carry

VARIABLES
    inbox,           \* the /machine_state message under way to each subscriber
    requests,        \* service requests under way to the supervisor
    ui               \* UiNode and its UiPolicy

\* buttons: those enabled when the window was last updated. state: the last message.
\* alignment: the last status, and before the first one the default, 0, which is VALID.
FreshInterface == [pending |-> "NONE", buttons |-> {}, state |-> NoState,
                   alignment |-> "VALID"]

\* compute_ui_state(): executing is layer > 0, segment being always 0.
EnabledButtons(state, alignment, pending) ==
    LET executing == state.layer > 0
        paused == state.system = "PAUSED"
    IN  IF state = NoState \/ pending # "NONE" THEN {}
        ELSE {c \in {"START", "PAUSE", "RESUME", "ABORT"} :
                 \/ c = "START" /\ state.loaded /\ ~executing
                 \/ c = "PAUSE" /\ executing /\ ~paused
                 \/ c = "RESUME" /\ paused /\ alignment = "VALID"
                 \/ c = "ABORT" /\ (executing \/ paused)}

\* observe_firmware_state(): what the pending command waits for.
Reflected(command, state) ==
    \/ command = "START" /\ state.layer > 0
    \/ command = "PAUSE" /\ state.system = "PAUSED"
    \/ command = "RESUME" /\ state.system # "PAUSED"
    \/ command = "ABORT" /\ ~state.loaded

PendingUnobserved(state) == ui.pending
PendingAfter(state) == IF Reflected(ui.pending, state) THEN "NONE" ELSE ui.pending

\* The callback of /machine_state.
Observe ==
    /\ inbox["ui"] # NoState
    /\ LET pending == PendingAfter(inbox["ui"])
       IN  ui' = [ui EXCEPT !.state = inbox["ui"], !.pending = pending,
                            !.buttons = EnabledButtons(inbox["ui"], ui.alignment, pending)]
    /\ inbox' = [inbox EXCEPT !["ui"] = NoState]
    /\ UNCHANGED requests

\* The callback of /localization/alignment_status updates the window too, so a command that
\* is pending now locks the buttons.
OnAlignment ==
    /\ \E alignment \in AlignmentReports :
          ui' = [ui EXCEPT !.alignment = alignment,
                           !.buttons = EnabledButtons(ui.state, alignment, ui.pending)]
    /\ UNCHANGED <<inbox, requests>>

\* A button sends its request and is pending at once, but the window is not updated: a second
\* button can be pressed before it is. Bound: one request of a kind under way.
Press(command) ==
    /\ command \in ui.buttons
    /\ command \notin requests
    /\ requests' = requests \cup {command}
    /\ ui' = [ui EXCEPT !.pending = command]
    /\ UNCHANGED inbox
=============================================================================
