------------------------------ MODULE CommandPath ------------------------------
(***************************************************************************)
(* The way of a command from the operator's window to the firmware and back, *)
(* and of a program from its file to the job store: the firmware, the        *)
(* supervisor, the program manager and the window, with the three regions of *)
(* shared memory, the topic and the services between them.                   *)
(*                                                                         *)
(* The firmware is FirmwareView, stage by stage, which Firmware implements.  *)
(* Its operator is no longer arbitrary: the command it handles is the one in *)
(* the slot.                                                                *)
(*                                                                         *)
(* The other processes take their steps while the loop is about to read the  *)
(* slot or the job region (stages "command" and "ingress") or is down.       *)
(* Nothing is lost by that: they read only what Publish wrote, and write only *)
(* what those two stages read. Later in a tick, a step of the supervisor or  *)
(* the window is the same as one before the job region is read, and a step   *)
(* of the program manager the same as one before the slot is read next.      *)
(***************************************************************************)
EXTENDS FirmwareView

CONSTANTS
    MaxJobs,          \* bound: files loaded
    MaxCrashes,       \* bound: times the firmware is killed
    MaxCommands,      \* bound: commands a supervisor process is asked to write
    MaxRestarts,      \* bound: times the supervisor is killed
    Subscribers,      \* which of the two other nodes run: "pm", "ui"
    OtherRequests,    \* the services that are called from elsewhere than the window
    MotionReports,    \* what /motion_runtime_state may report
    Buttons,          \* the buttons of the window that are pressed
    AlignmentReports  \* statuses of the alignment

ASSUME NodesAssumption ==
    /\ {MaxJobs, MaxCrashes, MaxCommands, MaxRestarts} \subseteq Nat
    /\ JobSizes \subseteq Nat
    /\ Subscribers \subseteq {"pm", "ui"}
    /\ OtherRequests \subseteq {"START", "PAUSE", "RESUME", "ABORT", "CLEAR_JOB"}
    /\ MotionReports \subseteq {"NORMAL", "FAULT"}
    /\ Buttons \subseteq {"START", "PAUSE", "RESUME", "ABORT"}
    /\ AlignmentReports \subseteq {"VALID", "INVALID"}

VARIABLES
    (* firmware *)
    last_seen_seq,   \* CommandChannel::last_seen_seq_, and last_command_seq, always equal
    fetched,         \* the piece of the slot poll() has copied so far
    rejection,       \* JobIngressState::last_rejection
    job_id,          \* JobIngressState::job_id
    (* shared memory *)
    published, slot,
    (* supervisor, program manager, window *)
    sup, inbox, pm, requests, ui,
    crashes, restarts,  \* counters of the two bounds
    (* history *)
    writes, region_load,
    handled,         \* the two writes the last command executed was copied from
    credit,          \* START requests served, less the prints they started
    taken            \* loads the firmware has accepted a job from

channelVars == <<last_seen_seq, fetched, handled>>
ingressVars == <<rejection, job_id, taken>>
regionVars == <<published, slot, writes>>
nodeVars == <<sup, inbox, pm, region_load, requests, ui>>
killVars == <<crashes, restarts>>
pathVars == <<channelVars, ingressVars, regionVars, nodeVars, killVars, credit>>
allVars == <<viewVars, pathVars>>

Sup == INSTANCE Supervisor
Pm == INSTANCE ProgramManager WITH ProgramSizes <- JobSizes, MaxLoads <- MaxJobs
Ui == INSTANCE OperatorInterface

NothingFetched == [seq |-> 0, header |-> 0]
BootMessage == [Sup!NoState EXCEPT !.system = "BOOT"]
-----------------------------------------------------------------------------
(* The firmware: the stages of FirmwareView, with the slot and the regions. *)

\* poll() reads the sequence number and copies the slot. Between its two pieces the writer
\* may write: comparing the sequence number again only guards the first.
FetchCommand ==
    /\ stage = "command"
    /\ fetched = NothingFetched
    /\ slot.seq > last_seen_seq
    /\ fetched' = [seq |-> slot.seq, header |-> slot.header]
    /\ UNCHANGED <<viewVars, last_seen_seq, handled, ingressVars, regionVars, nodeVars,
                   killVars, credit>>

NothingToFetch ==
    /\ fetched = NothingFetched
    /\ slot.seq <= last_seen_seq
    /\ NoCommand
    /\ UNCHANGED pathVars

\* The guards of handle_command() and of the state machine.
Accepted(command) ==
    /\ CommandAllowed(system, command)
    /\ command = "START" => operator_actions.can_start /\ job.present
    /\ command = "RESUME" => operator_actions.can_resume /\ resume.available /\ ~resume.consumed
    /\ command = "CLEAR_JOB" => operator_actions.can_clear_job
    /\ command = "RECOVER" => operator_actions.can_recover

Starts == system # "EXECUTING_PRINT" /\ system' = "EXECUTING_PRINT"

\* The writes that the two pieces of the copy are from: the one whose number poll() takes, and
\* the one whose command it executes. The copy is torn when they differ.
Copied == [header |-> fetched.header, body |-> slot.body]

\* The body of the slot is copied only now. The second disjunct is the START refused for the
\* cursor a fault left behind, the first also a slot whose body was never written.
HandleCommand ==
    /\ fetched # NothingFetched
    /\ \/ ~Accepted(slot.command) /\ NoCommand
       \/ slot.command = "START" /\ NoCommand
       \/ slot.command = "START" /\ Start
       \/ slot.command = "PAUSE" /\ Pause
       \/ slot.command = "RESUME" /\ Resume
       \/ slot.command = "ABORT" /\ Abort
       \/ slot.command = "CLEAR_JOB" /\ ClearJob
    /\ last_seen_seq' = fetched.seq
    /\ fetched' = NothingFetched
    /\ handled' = IF slot.command = "NONE" THEN handled ELSE Copied
    /\ credit' = IF Starts /\ Copied.body > handled.body THEN credit - 1 ELSE credit
    /\ IF slot.command = "CLEAR_JOB" /\ Accepted("CLEAR_JOB")
       THEN rejection' = "" /\ job_id' = 0
       ELSE UNCHANGED <<rejection, job_id>>
    /\ UNCHANGED <<taken, regionVars, nodeVars, killVars>>

TakeJob ==
    /\ AcceptJob
    /\ job_id' = job_id + 1
    /\ rejection' = ""
    /\ taken' = taken \cup {region_load}
    /\ UNCHANGED <<channelVars, regionVars, nodeVars, killVars, credit>>

\* submit_job() says why it refuses, on every tick. The first poll after a boot, when no
\* action is allowed yet, returns before that.
Rejection ==
    IF ~job_ipc.unread \/ job_ipc.segments = 0 \/ operator_actions = NoActions THEN rejection
    ELSE CASE ~operator_actions.can_submit_job -> "operator_recovery_required"
           [] operator_actions.can_submit_job /\ job.present -> "job_already_present"
           [] OTHER -> "firmware_not_idle"

RefuseJob ==
    /\ NoJobAccepted
    /\ rejection' = Rejection
    /\ UNCHANGED <<channelVars, job_id, taken, regionVars, nodeVars, killVars, credit>>

\* publish_ipc_state()
PublishedWithoutSeq ==
    [system |-> system, layer |-> job.layer, loaded |-> job.loaded, seq |-> 0,
     job |-> job_id, rejection |-> rejection]
Published ==
    [system |-> system, layer |-> job.layer, loaded |-> job.loaded, seq |-> last_seen_seq,
     job |-> job_id, rejection |-> rejection]

PublishState ==
    /\ Publish
    /\ published' = Published
    /\ UNCHANGED <<channelVars, ingressVars, slot, writes, nodeVars, killVars, credit>>

\* init_ipc_state(), init_ipc_command(), init_ipc_job_ingress(): each region is zeroed.
SlotKept == slot
SlotAtBoot == Sup!EmptySlot

BootFirmware ==
    /\ Boot
    /\ published' = BootMessage
    /\ slot' = SlotAtBoot
    /\ UNCHANGED <<channelVars, ingressVars, writes, nodeVars, killVars, credit>>

KillFirmware ==
    /\ crashes < MaxCrashes
    /\ crashes' = crashes + 1
    /\ Crash
    /\ last_seen_seq' = 0
    /\ fetched' = NothingFetched
    /\ rejection' = ""
    /\ job_id' = 0
    /\ UNCHANGED <<handled, taken, regionVars, nodeVars, restarts, credit>>

Execute ==
    /\ Orchestrate
    /\ UNCHANGED pathVars

Loop == FetchCommand \/ NothingToFetch \/ HandleCommand \/ TakeJob \/ RefuseJob
        \/ Execute \/ PublishState \/ BootFirmware
-----------------------------------------------------------------------------
(* The other processes. *)

\* They start after the firmware, whose regions of memory they open.
Up == stage \in {"command", "ingress"} \/ (stage = "down" /\ crashes > 0)

SupervisorTimer ==
    /\ Up
    /\ Sup!OnTimer
    /\ UNCHANGED <<viewVars, channelVars, ingressVars, killVars, pm, region_load, requests,
                   ui, credit>>

SupervisorWrites ==
    /\ Up
    /\ Sup!FinishWrite
    /\ UNCHANGED <<viewVars, channelVars, ingressVars, killVars, pm, region_load, requests,
                   ui, credit>>

\* A request of the window arrives, or somebody else calls a service: no window has a button
\* for CLEAR_JOB.
ServeRequest(command) ==
    /\ Up
    /\ Sup!Serve(command)
    /\ credit' = IF command = "START" THEN credit + 1 ELSE credit
    /\ command = "START" => credit < MaxCommands
    /\ UNCHANGED <<viewVars, channelVars, ingressVars, killVars, pm, region_load, ui>>

WindowRequest ==
    \E command \in requests :
        ServeRequest(command) /\ requests' = requests \ {command}

OtherRequest ==
    \E command \in OtherRequests :
        ServeRequest(command) /\ UNCHANGED requests

MotionReport ==
    /\ Up
    /\ \E exec_state \in MotionReports : Sup!MotionState(exec_state)
    /\ UNCHANGED <<viewVars, channelVars, ingressVars, killVars, pm, region_load, requests,
                   ui, credit>>

SupervisorRestart ==
    /\ Up
    /\ restarts < MaxRestarts
    /\ restarts' = restarts + 1
    /\ Sup!Restart
    /\ UNCHANGED <<viewVars, channelVars, ingressVars, crashes, pm, region_load, requests,
                   ui, credit>>

Load ==
    /\ Up
    /\ "pm" \in Subscribers
    /\ Pm!LoadGcode
    /\ UNCHANGED <<viewVars, channelVars, ingressVars, killVars, regionVars, sup, requests,
                   ui, credit>>

ManageProgram ==
    /\ Up
    /\ "pm" \in Subscribers
    /\ Pm!StateCallback
    /\ UNCHANGED <<stage, system, job, resume, operator_actions, snapshot, channelVars,
                   ingressVars, killVars, regionVars, sup, requests, ui, credit>>

WindowObserves ==
    /\ Up
    /\ "ui" \in Subscribers
    /\ Ui!Observe
    /\ UNCHANGED <<viewVars, channelVars, ingressVars, killVars, regionVars, sup, pm,
                   region_load, credit>>

WindowActs ==
    /\ Up
    /\ "ui" \in Subscribers
    /\ \/ Ui!OnAlignment
       \/ \E command \in Buttons : Ui!Press(command)
    /\ UNCHANGED <<viewVars, channelVars, ingressVars, killVars, regionVars, sup, pm,
                   region_load, credit>>
-----------------------------------------------------------------------------
PathInit ==
    /\ Init
    /\ last_seen_seq = 0
    /\ fetched = NothingFetched
    /\ rejection = ""
    /\ job_id = 0
    /\ published = BootMessage
    /\ slot = Sup!EmptySlot
    /\ sup = Sup!FreshSupervisor
    /\ crashes = 0
    /\ restarts = 0
    /\ inbox = [n \in Subscribers |-> Sup!NoState]
    /\ pm = Pm!FreshProgramManager
    /\ requests = {}
    /\ ui = Ui!FreshInterface
    /\ writes = 0
    /\ region_load = 0
    /\ handled = [header |-> 0, body |-> 0]
    /\ credit = 0
    /\ taken = {}

PathNext ==
    \/ Loop
    \/ KillFirmware
    \/ SupervisorTimer \/ SupervisorWrites \/ WindowRequest \/ OtherRequest \/ MotionReport
    \/ SupervisorRestart
    \/ Load \/ ManageProgram
    \/ WindowObserves \/ WindowActs

PathSpec == PathInit /\ [][PathNext]_allVars

\* Every process goes on: the loop and the timer are periodic, the callbacks are spun. The
\* nodes get strong fairness because this module lets them act only at two stages of the loop,
\* where the code lets them act at any. The supervisor is one thread, and fair as one.
PathFairness ==
    /\ WF_allVars(Loop)
    /\ SF_allVars(SupervisorTimer \/ SupervisorWrites)
    /\ SF_allVars(ManageProgram)
    /\ SF_allVars(WindowObserves)

FairPathSpec == PathSpec /\ PathFairness
-----------------------------------------------------------------------------
(* Properties *)

Whole(copy) == copy.header = copy.body

Operator == {"START", "PAUSE", "RESUME", "ABORT", "CLEAR_JOB"}
Rejections == {"", "operator_recovery_required", "job_already_present", "firmware_not_idle"}
Messages == Sup!Message(SystemStates \cup {"NONE", "BOOT"}, Rejections)

PathTypeOK ==
    /\ last_seen_seq \in 0..MaxCommands
    /\ fetched \in [seq : 0..MaxCommands, header : 0..writes]
    /\ rejection \in Rejections
    /\ job_id \in 0..MaxJobs
    /\ published \in Messages /\ inbox \in [Subscribers -> Messages]
    /\ slot \in [seq : 0..MaxCommands, command : Operator \cup {"NONE"},
                 header : 0..writes, body : 0..writes]
    /\ sup \in [last_state : Messages, pre_state : Messages, start_requested : BOOLEAN,
                start_sent : BOOLEAN, abort_sent : BOOLEAN,
                motion : {"NONE", "NORMAL", "FAULT"}, seq : 0..MaxCommands,
                unwritten : Operator \cup {"NONE"}]
    /\ crashes \in 0..MaxCrashes /\ restarts \in 0..MaxRestarts
    /\ pm \in [program : JobSizes \cup {0}, load : 0..MaxJobs, start_received : BOOLEAN,
               job_submitted : BOOLEAN]
    /\ requests \subseteq Operator
    /\ ui.pending \in Operator \cup {"NONE"} /\ ui.buttons \subseteq Operator
    /\ taken \subseteq 0..MaxJobs

\* Commands are executed in the order they were written in, over kills of either side: the
\* firmware zeroes the slot and forgets its last number, the supervisor starts counting again.
\* Each is taken under a later number than the one before, and is the same command or a later
\* one. It is the same command again only if this copy or the one before is torn: (k, k) and
\* then (k + 1, k) before the second piece of write k + 1 is there, or (k, k + 1) and then
\* (k + 1, k + 1). Nothing here says that each command is executed: a torn copy uses up its number.
HandledInOrder ==
    [][HandleCommand /\ slot.command # "NONE" =>
          /\ Copied.header > handled.header
          /\ Copied.body >= handled.body
          /\ Whole(Copied) /\ Whole(handled) => Copied.body > handled.body]_allVars

\* No more prints start than the operator asked for: the start latch of the supervisor, its
\* resending, the slot, its torn copies and both restarts together start at most one print a
\* request. Only the print of a START that is executed again, from a torn copy (HandledInOrder),
\* is not counted.
StartsAreRequested == credit >= 0

\* A file that was loaded once is taken by the firmware at most once: what CLEAR_JOB removed
\* does not come back, whatever state the program manager is told late, and whoever is killed.
ProgramTakenOnce == [][TakeJob => region_load \notin taken]_allVars

\* A command that was handled, even one that was refused, shows in what is published next:
\* the policy, which only compares messages, never blocks on it. It does block for good when
\* the firmware is killed with the command unread, or counts its numbers from before a
\* restart of the supervisor.
HandledCommandShows ==
    /\ stage = "command" /\ fetched = NothingFetched
    /\ sup.pre_state # Sup!NoState
    /\ slot.seq = sup.seq /\ slot.seq = last_seen_seq
    /\ restarts = 0
    => published # sup.pre_state

\* The window never waits for good for what already holds: once the firmware is in the state
\* the pending command asks for and stays there, loop, region, timer and topic bring the news
\* and the buttons unlock.
WaitsForNews == /\ ui.pending # "NONE"
                /\ Ui!Reflected(ui.pending, Published)
                /\ stage # "down"
WindowFollows == WaitsForNews ~> ~WaitsForNews
-----------------------------------------------------------------------------
(* What comments and messages of the code say, and the code does not do. *)

\* "Job completed -> safe reset": a program that was printed is let go.
CompletedProgramIsReset ==
    pm.start_received /\ system = "READY" ~> ~pm.start_received \/ system # "READY"
=============================================================================
